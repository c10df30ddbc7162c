--------------------------- MODULE MCNativeTerminal ---------------------------
(***************************************************************************)
(* Two sessions of two kinds: the customer is not recognised and the flow  *)
(* fails, or a withdrawal is completed.                                    *)
(***************************************************************************)
EXTENDS NativeTerminal

MCOf(types, transaction) ==
    <<Event("runtime.started", NoTransaction, NoCode),
      Event("flow.loaded", NoTransaction, NoCode)>> \o
    [i \in DOMAIN types |-> Event(types[i], transaction, NoCode)]

MCScripts == {
    Append(MCOf(<<"transaction.failed">>, "CustomerIdentification"),
           Event("flow.failed", NoTransaction, NoCode)),
    MCOf(<<"transaction.completed">>, "CashWithdrawal")}
=============================================================================

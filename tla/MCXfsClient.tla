---------------------------- MODULE MCXfsClient ----------------------------
(***************************************************************************)
(* A small instance of XfsClient: one command that dispenses, one that     *)
(* reads a status, and the cancellations of both.                          *)
(***************************************************************************)
EXTENDS XfsClient

CONSTANTS Dispense, Status

MCCommands == {Dispense, Status}
MCStateChanging == {Dispense}

\* The client keeps, for a dispense command, what a cash device promises: its
\* owner is told it was done or refused only when it was and will stay so, is
\* told "unknown" otherwise, and is told something in the end.
DispenseRequest == <<Dispense, "command">>
Device == INSTANCE CashDevice WITH
              request <- RequestState(DispenseRequest), told <- ToldState(DispenseRequest)
DispenseIsCashRequest == Device!Spec
=============================================================================

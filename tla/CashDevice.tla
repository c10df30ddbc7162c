------------------------------ MODULE CashDevice ------------------------------
(***************************************************************************)
(* What one request to a cash device promises to the module that made it:  *)
(* the module is told "moved" or "refused" only when that is the truth and *)
(* will stay the truth, is told "unknown" in every other case, and is told *)
(* something in the end.                                                   *)
(***************************************************************************)
VARIABLES
    request,    \* what became of the request: idle, open, moved or refused
    told        \* what the module has been told: none, moved, refused, unknown

vars == <<request, told>>

Init == request = "idle" /\ told = "none"

Ask ==
    /\ request = "idle"
    /\ request' = "open"
    /\ UNCHANGED told

\* The device acts on a request it holds, whether or not anybody still waits.
Acts ==
    /\ request = "open"
    /\ request' \in {"moved", "refused"}
    /\ UNCHANGED told

TellOutcome ==
    /\ told = "none"
    /\ request \in {"moved", "refused"}
    /\ told' = request
    /\ UNCHANGED request

TellUnknown ==
    /\ told = "none"
    /\ request # "idle"
    /\ told' = "unknown"
    /\ UNCHANGED request

Tell == TellOutcome \/ TellUnknown

\* The adapter gives up a request that never left it.
Withdraw ==
    /\ told = "none"
    /\ request \in {"idle", "open"}
    /\ request' = "refused"
    /\ told' = "refused"

Next == Ask \/ Acts \/ Tell \/ Withdraw

Spec == Init /\ [][Next]_vars /\ WF_vars(Tell)

\* What a module has been told stays true.
ToldTheTruth == told \in {"moved", "refused"} => told = request
==============================================================================

------------------------------- MODULE MCHost -------------------------------
(***************************************************************************)
(* The two halves of the ISO 8583 adapter in one run: processes that take  *)
(* trace numbers through the lock file and the state file, or two          *)
(* authorizations on the wire.  The halves share no variable, so each      *)
(* behaviour is of one of them, and the other rests in its initial state.  *)
(***************************************************************************)
EXTENDS HostExchange, StanAllocator

VARIABLE half     \* the half that runs

hostVars == <<vars, allStanVars, half>>

Halves == {"allocator", "exchange"}

HostInit == Init /\ StanInit /\ half \in Halves

HostNext ==
    \/ half = "allocator" /\ StanNext /\ UNCHANGED <<vars, half>>
    \/ half = "exchange" /\ Next /\ UNCHANGED <<allStanVars, half>>

\* The fairness of HostExchange.
HostSpec ==
    /\ HostInit /\ [][HostNext]_hostVars
    /\ \A c \in Calls :
          /\ WF_hostVars(TraceGiven(c) /\ half = "exchange" /\ UNCHANGED <<allStanVars, half>>)
          /\ WF_hostVars(TimerFires(c) /\ half = "exchange" /\ UNCHANGED <<allStanVars, half>>)
          /\ WF_hostVars(Resume(c) /\ half = "exchange" /\ UNCHANGED <<allStanVars, half>>)
=============================================================================

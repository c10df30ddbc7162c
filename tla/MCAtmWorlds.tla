----------------------------- MODULE MCAtmWorlds -----------------------------
(***************************************************************************)
(* AtmAudit in both of its worlds in one run: the terminal with remote     *)
(* devices and a remote host, and the terminal with the adapters of the    *)
(* built-in simulator.  The constants of the configuration are those of    *)
(* the remote world; the simulated one has more amounts.                   *)
(***************************************************************************)
EXTENDS MCAtmAudit

VARIABLE remote     \* the world the terminal is in

worldVars == <<vars, remote>>

Simulated == INSTANCE AtmAudit WITH Remote <- FALSE, Amounts <- MCAmounts

WorldInit == Init /\ remote \in BOOLEAN

WorldNext ==
    /\ \/ remote /\ Next
       \/ ~remote /\ Simulated!Next
    /\ UNCHANGED remote

\* The fairness of the two worlds (AtmSession).
WorldSpec ==
    /\ WorldInit /\ [][WorldNext]_worldVars
    /\ WF_worldVars(~remote /\ Simulated!Simulates /\ UNCHANGED remote)
    /\ \A k \in Calls :
          /\ WF_worldVars(Returns(k) /\ UNCHANGED remote)
          /\ WF_worldVars(remote /\ TimesOut(k) /\ UNCHANGED remote)

\* The simulated world alone, for a configuration with its constants.
SimulatedInit == Init /\ remote = FALSE

SimulatedSpec == SimulatedInit /\ [][WorldNext]_worldVars
=============================================================================

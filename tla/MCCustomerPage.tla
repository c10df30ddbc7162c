---------------------------- MODULE MCCustomerPage ----------------------------
(***************************************************************************)
(* TerminalSessions in two worlds in one run: any clients that send any    *)
(* requests to a manager with room for two of three sessions, and the      *)
(* terminal with its page and two sessions of other kinds.                 *)
(***************************************************************************)
EXTENDS CustomerPage

CONSTANTS s1, s2, s3

MCMaxPrompts == [s \in Sessions |-> IF s = s3 THEN 0 ELSE 2]

VARIABLE world     \* "clients" or "page"

worldVars == <<allVars, world>>

WorldInit == PageInit /\ world \in {"clients", "page"}

Clients(A) == world = "clients" /\ A /\ UNCHANGED <<world, pageVars>>
AtPage(A) == world = "page" /\ A /\ UNCHANGED world

WorldNext ==
    \/ Clients(Next)
    \/ AtPage(PageNext)

\* The fairness of the two worlds (TerminalSessions, CustomerPage); what is
\* never enabled together shares a conjunct.
WorldSpec ==
    /\ WorldInit /\ [][WorldNext]_worldVars
    /\ WF_worldVars(Clients(Prune))
    /\ WF_worldVars(AtPage(ServeRequest \/ Reply))
    /\ WF_worldVars(AtPage(OpenStream \/ HandleEvent))
    /\ \A s \in Sessions :
          /\ WF_worldVars(\/ Clients(FlowPrompts(s) \/ FlowEnds(s) \/ Flush(s))
                          \/ AtPage(FlowGoesOn(s) \/ FlowFlushed(s)))
          /\ WF_worldVars(Clients(s \in gone /\ TimePasses(s)))
=============================================================================

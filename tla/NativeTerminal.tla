---------------------------- MODULE NativeTerminal ----------------------------
(***************************************************************************)
(* The native launcher's process: customers start sessions over the HTTP   *)
(* server that superviseNativeServer closes, their flows journal into one  *)
(* file, and a session's result is set once its journal is flushed.  The   *)
(* process may be killed and is started again over the same file.          *)
(*                                                                         *)
(* Nobody listens for unhandled rejections: an append that rejects before  *)
(* its session awaits the flush ends the process, later the session alone. *)
(***************************************************************************)
EXTENDS JournalFile, NativeShutdown

CONSTANT MaxFaults    \* bound: failed writes and crashes

ASSUME FaultsAssumption == MaxFaults \in Nat

\* The sessions' journals are those of flows that ran to their end: alone in a
\* file each is accepted, and up to any event replay has nothing to object to.
ASSUME ScriptsAssumption ==
    \A events \in Scripts :
        /\ ReplayValid(events)
        /\ \A n \in 1 .. Len(events) : ReplayScoped(SubSeq(events, 2, n)).errors = {}

VARIABLES
    result,    \* what each session's resultPromise came to: none, flushed, failed
    faults

vars == <<journalVars, shutdownVars, result, faults>>

Alive == process \in {"running", "closing", "settled"}
Gone == process \in {"exited", "dead"}

Init ==
    /\ JournalInit
    /\ ShutdownInit
    /\ result = [s \in Sessions |-> "none"]
    /\ faults = 0
-----------------------------------------------------------------------------
\* POST /api/session.
StartSession(s) ==
    /\ process \in {"running", "closing"}
    /\ \E c \in Conns : conns[c] = "busy"
    /\ \E events \in Scripts : Begin(s, events)
    /\ UNCHANGED <<shutdownVars, result, faults>>

\* A flow goes on whatever becomes of the connection it was started over.
FlowAppends(s) ==
    /\ Alive
    /\ script[s] # <<>> /\ result[s] = "none"
    /\ Tell(s)
    /\ UNCHANGED <<shutdownVars, result, faults>>

LineReachesFile(s) ==
    /\ Alive
    /\ AppendLine(s)
    /\ UNCHANGED <<shutdownVars, result, faults>>

\* Faulty variant: the result does not wait for the journal.
ShowUnflushed(s) ==
    /\ Alive
    /\ Flushing(s) /\ ~broken[s] /\ result[s] = "none"
    /\ result' = [result EXCEPT ![s] = "flushed"]
    /\ UNCHANGED <<journalVars, shutdownVars, faults>>

\* The flow's result once flush has resolved.
FlushResolves(s) ==
    /\ Alive
    /\ Flushing(s) /\ ~broken[s] /\ result[s] = "none"
    /\ written[s] = told[s]
    /\ result' = [result EXCEPT ![s] = "flushed"]
    /\ UNCHANGED <<journalVars, shutdownVars, faults>>

\* flush rejects with the append it awaits: resultPromise.catch.
FlushRejects(s) ==
    /\ Alive
    /\ faults < MaxFaults
    /\ Flushing(s)
    /\ AppendRejects(s)
    /\ result' = [result EXCEPT ![s] = "failed"]
    /\ faults' = faults + 1
    /\ UNCHANGED shutdownVars

\* The process is killed, or an append rejects that nobody awaits.
Crash ==
    /\ faults < MaxFaults
    /\ Dies
    /\ ProcessDies
    /\ faults' = faults + 1
    /\ UNCHANGED result

\* close() has settled and no append is left: the process ends, and the flows
\* that wait at a prompt with it.
Exit ==
    /\ \A s \in Sessions : ~InFlight(s)
    /\ Exits
    /\ broken' = [s \in Sessions |-> broken[s] \/ script[s] # <<>>]
    /\ UNCHANGED <<script, told, written, file, terminated, result, faults>>

Restart ==
    /\ Gone
    /\ \E s \in Sessions : script[s] = <<>>
    /\ Started
    /\ UNCHANGED <<journalVars, result, faults>>

Server ==
    /\ \/ FirstSignal \/ GraceEnds \/ Settle
       \/ \E c \in Conns :
             Connect(c) \/ Answered(c) \/ Requested(c) \/ ConnectionCloses(c)
    /\ UNCHANGED <<journalVars, result, faults>>

Next ==
    \/ Server \/ Crash \/ Exit \/ Restart
    \/ \E s \in Sessions :
          \/ StartSession(s) \/ FlowAppends(s) \/ LineReachesFile(s)
          \/ FlushResolves(s) \/ FlushRejects(s)

\* Writes come to an end, timers fire, destroyed sockets close and a process
\* with nothing left to do exits.  Customers and flows promise nothing.
Fairness ==
    /\ WF_vars(GraceEnds /\ UNCHANGED <<journalVars, result, faults>>)
    /\ WF_vars(Settle /\ UNCHANGED <<journalVars, result, faults>>)
    /\ WF_vars(Exit)
    /\ \A c \in Conns :
          WF_vars(/\ conns[c] = "dying"
                  /\ ConnectionCloses(c)
                  /\ UNCHANGED <<journalVars, result, faults>>)
    /\ \A s \in Sessions : WF_vars(LineReachesFile(s)) /\ WF_vars(FlushResolves(s))

Spec == Init /\ [][Next]_vars /\ Fairness
-----------------------------------------------------------------------------
InFile(line) == \E i \in DOMAIN file : file[i] = line

\* A terminal nothing has gone wrong with may be inspected at any moment: the
\* partial inspection reports no error however the sessions' appends interleave,
\* and the strict one accepts the file once every session has ended and is
\* flushed (the pairing of anchors and sessions, the order of the appends).
NoFalseAlarm ==
    faults = 0 =>
        /\ FileValid(file, "partial")
        /\ (/\ \E s \in Sessions : result[s] = "flushed"
            /\ \A s \in Sessions : script[s] # <<>> => result[s] = "flushed")
           => FileValid(file, "strict")

\* After any crashes and failed writes, a session the strict inspection accepts
\* is told as it happened: its lines are its journal from the second event on,
\* in order and without a gap, up to some event.
ValidMeansFaithful ==
    \A s \in SessionsIn(file) :
        SessionValid(file, s, "strict") =>
            LET order == InOrder(Of(file, s))
            IN  \A k \in DOMAIN order : file[order[k]] = LineOf(s, k + 1)

\* A failed write costs at most one event whose append had resolved: the line
\* that is glued to the fragment it left behind.
DamageBounded ==
    LET resolved == UNION {{s} \X (1 .. written[s]) : s \in Sessions}
        lost     == {r \in resolved : r[2] > 1 /\ ~InFile(LineOf(r[1], r[2]))}
        begun    == {r \in resolved : r[2] = 1}
    IN  Cardinality(lost) + Cardinality(begun) <= Cardinality(Anchors(file)) + faults

\* Crashes do not undo a session whose result is set: its journal stays whole in
\* the file, behind an anchor that may be glued to what a crash left behind.  It
\* takes a failed write that the process survives to lose more.
ShownMeansPersisted ==
    (\A s \in Sessions : result[s] # "failed") =>
        \A s \in Sessions :
            result[s] = "flushed" =>
                \A n \in 2 .. Len(script[s]) : InFile(LineOf(s, n))

\* close() settles only when no connection is left.
ClosedMeansClosed == process \in {"settled", "exited"} => Sockets = {}

\* The first signal ends the process within the grace period, whatever the
\* clients and the flows do.
ShutdownEnds == process = "closing" ~> Gone
=============================================================================

---------------------------- MODULE NativeShutdown ----------------------------
(***************************************************************************)
(* The native launcher's process and the connections of its HTTP server.   *)
(* The first signal closes the server: idle connections are closed, late   *)
(* ones destroyed, and after the grace period all that are left.  close()  *)
(* settles once no connection has been left for a turn of the event loop.  *)
(***************************************************************************)
EXTENDS Naturals

CONSTANT Conns        \* the connections clients make, each once per process

VARIABLES
    process,   \* "running", "closing", "settled" (close() has), "exited", "dead"
    conns,     \* per connection: none, idle, busy, dying (destroyed), closed
    forced,    \* the grace period is over
    checking   \* a setImmediate of finishIfClosed is queued

shutdownVars == <<process, conns, forced, checking>>

Serving == {"idle", "busy"}

\* The connections superviseNativeServer keeps in its set.
Sockets == {c \in Conns : conns[c] \in Serving \cup {"dying"}}

Started ==
    /\ process' = "running"
    /\ conns' = [c \in Conns |-> "none"]
    /\ forced' = FALSE
    /\ checking' = FALSE

ShutdownInit ==
    /\ process = "running"
    /\ conns = [c \in Conns |-> "none"]
    /\ forced = FALSE
    /\ checking = FALSE

\* finishIfClosed, with the sockets there are afterwards.
FinishIfClosed(isForced, sockets) ==
    checking' = (checking \/ (isForced /\ sockets = {}))

\* track.  Faulty variant: a late connection is not destroyed.
ConnectLate(c) ==
    /\ process \in {"running", "closing"}
    /\ conns[c] = "none"
    /\ conns' = [conns EXCEPT ![c] = "busy"]
    /\ UNCHANGED <<process, forced, checking>>

Connect(c) ==
    /\ process \in {"running", "closing"}
    /\ conns[c] = "none"
    /\ conns' = [conns EXCEPT ![c] = IF process = "closing" THEN "dying" ELSE "busy"]
    /\ UNCHANGED <<process, forced, checking>>

\* A request is answered, or another one comes over the connection.
Answered(c) ==
    /\ conns[c] = "busy"
    /\ conns' = [conns EXCEPT ![c] = "idle"]
    /\ UNCHANGED <<process, forced, checking>>

Requested(c) ==
    /\ conns[c] = "idle"
    /\ conns' = [conns EXCEPT ![c] = "busy"]
    /\ UNCHANGED <<process, forced, checking>>

\* The "close" event of a connection: the client left, or it was destroyed.
ConnectionCloses(c) ==
    /\ c \in Sockets
    /\ conns' = [conns EXCEPT ![c] = "closed"]
    /\ FinishIfClosed(forced, Sockets \ {c})
    /\ UNCHANGED <<process, forced>>

\* shutdown and closeTrackedServer: server.close and closeIdleConnections.
FirstSignal ==
    /\ process = "running"
    /\ process' = "closing"
    /\ conns' = [c \in Conns |-> IF conns[c] = "idle" THEN "dying" ELSE conns[c]]
    /\ UNCHANGED <<forced, checking>>

\* The grace timer.
GraceEnds ==
    /\ process = "closing"
    /\ ~forced
    /\ forced' = TRUE
    /\ conns' = [c \in Conns |-> IF c \in Sockets THEN "dying" ELSE conns[c]]
    /\ FinishIfClosed(TRUE, Sockets)
    /\ UNCHANGED process

\* The queued check.  Faulty variant: it does not look at the connections.
SettleUnchecked ==
    /\ process = "closing" /\ checking
    /\ checking' = FALSE
    /\ process' = "settled"
    /\ UNCHANGED <<conns, forced>>

Settle ==
    /\ process = "closing" /\ checking
    /\ checking' = FALSE
    /\ process' = IF Sockets = {} THEN "settled" ELSE process
    /\ UNCHANGED <<conns, forced>>

\* The process has nothing left to do.
Exits ==
    /\ process = "settled"
    /\ process' = "exited"
    /\ UNCHANGED <<conns, forced, checking>>

\* The process is killed: the first kind of signal a second time, for which no
\* handler is left (process.once), a crash or an unhandled rejection.
Dies ==
    /\ process \in {"running", "closing", "settled"}
    /\ process' = "dead"
    /\ UNCHANGED <<conns, forced, checking>>
=============================================================================

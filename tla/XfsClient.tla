------------------------------ MODULE XfsClient ------------------------------
(***************************************************************************)
(* The XFS4IoT client: commands that share one WebSocket to a device       *)
(* service, opened when the first of them needs it and opened again after  *)
(* it is lost.  A command whose answer can no longer be heard must still   *)
(* be settled, and must not be called safe to retry once the service may   *)
(* have acted on it.                                                       *)
(***************************************************************************)
EXTENDS Integers, FiniteSets

CONSTANTS
    Commands,       \* the commands the owner of the client executes
    StateChanging,  \* those that move something in the device
    MaxPending,     \* maxPendingRequests
    MaxAttempts,    \* maxReconnectAttempts, for one connect promise
    MaxSockets,     \* bound: sockets that are ever opened
    MaxRounds       \* bound: connect promises that are ever created

ASSUME ClientAssumption ==
    /\ StateChanging \subseteq Commands
    /\ {MaxPending, MaxAttempts, MaxSockets, MaxRounds} \subseteq Nat \ {0}

\* Every command may be followed by the Common.Cancel the client sends for it.
Requests == Commands \X {"command", "cancel"}
CommandOf(r) == <<r[1], "command">>
CancelOf(r) == <<r[1], "cancel">>
Moves(r) == r[1] \in StateChanging /\ r[2] = "command"

Sockets == 1 .. MaxSockets
Rounds == 1 .. MaxRounds

VARIABLES
    call,       \* the pending commands, and how the settled ones ended
    sockets,    \* the sockets, and whether the client listens to them
    socket,     \* this.socket, 0 for none
    rounds,     \* the connect promises: unused, trying, opened or failed
    connecting, \* this.connectPromise, 0 for none
    attempt,    \* the attempts of the trying promise, and the socket of this one
    hooked,     \* promises a clearing callback has been attached to
    disposed,
    service,    \* what the service did with each request
    reply       \* answers on their way, each on the socket of its request

client == <<call, socket, rounds, connecting, attempt, hooked, disposed>>
vars == <<client, sockets, service, reply>>

NotCalled == [state |-> "idle", result |-> "none", answer |-> "none",
              on |-> 0, waits |-> 0, ready |-> FALSE]

CallRecords ==
    [state : {"idle", "pending", "done"},
     result : {"none", "completed", "known", "safe", "indeterminate"},
     answer : {"none", "done", "refused"},
     on : {0} \cup Sockets,      \* the socket it was sent on
     waits : {0} \cup Rounds,    \* the connect promise it awaits
     ready : BOOLEAN]            \* it awaits nothing, but has not gone on yet

SocketRecords ==
    [state : {"unused", "connecting", "open", "closing", "closed"}, heard : BOOLEAN]

WellTyped ==
    /\ call \in [Requests -> CallRecords]
    /\ sockets \in [Sockets -> SocketRecords]
    /\ socket \in {0} \cup Sockets
    /\ rounds \in [Rounds -> {"unused", "trying", "opened", "failed"}]
    /\ connecting \in {0} \cup Rounds
    /\ attempt \in [tries : 0 .. MaxAttempts, on : {0} \cup Sockets]
    /\ hooked \subseteq Rounds
    /\ disposed \in BOOLEAN
    /\ service \in [Requests -> {"none", "done", "refused"}]
    /\ reply \in [Requests -> {"none", "done", "refused", "rejected"}]

Pending(calls) == {r \in Requests : calls[r].state = "pending"}

\* Every variable has its type, and the pending map keeps within its limit.
TypeOK == WellTyped /\ Cardinality(Pending(call)) <= MaxPending

Init ==
    /\ call = [r \in Requests |-> NotCalled]
    /\ sockets = [k \in Sockets |-> [state |-> "unused", heard |-> FALSE]]
    /\ socket = 0
    /\ rounds = [p \in Rounds |-> "unused"]
    /\ connecting = 0
    /\ attempt = [tries |-> 0, on |-> 0]
    /\ hooked = {}
    /\ disposed = FALSE
    /\ service = [r \in Requests |-> "none"]
    /\ reply = [r \in Requests |-> "none"]

IsOpen(k) == k # 0 /\ sockets[k].state = "open"
\* The message listener of a socket is called.
Listens(k) == IsOpen(k) /\ sockets[k].heard
RoundOver(p) == rounds[p] \in {"opened", "failed"}

-----------------------------------------------------------------------------
\* Settling: a request is settled once, and leaves the pending map with it.

\* failure(): what the transport can say of a request it could not finish.
Failure(c, r) == IF c.on # 0 /\ Moves(r) THEN "indeterminate" ELSE "safe"

Rejected(calls, R) ==
    [r \in Requests |->
        IF r \in R /\ calls[r].state = "pending"
        THEN [calls[r] EXCEPT !.state = "done", !.result = Failure(calls[r], r)]
        ELSE calls[r]]

\* The round a request has to wait for: none while the socket is open.
JoinedRound ==
    IF IsOpen(socket) THEN {0}
    ELSE IF connecting # 0 THEN {connecting}
    ELSE {p \in Rounds : /\ rounds[p] = "unused"
                         /\ \A q \in 1 .. p - 1 : rounds[q] # "unused"}

\* execute(): rejected at once, or pending and waiting for the connection.
\* Past the bound on connect promises every connection fails at once.
Issue(calls, r) ==
    IF \/ disposed \/ Cardinality(Pending(calls)) >= MaxPending
       \/ JoinedRound = {}
    THEN /\ call' = [calls EXCEPT ![r].state = "done", ![r].result = "safe"]
         /\ UNCHANGED <<rounds, connecting, attempt>>
    ELSE \E p \in JoinedRound :
            /\ call' = [calls EXCEPT ![r].state = "pending", ![r].waits = p,
                                     ![r].ready = (p = 0)]
            /\ IF p = 0 \/ p = connecting
               THEN UNCHANGED <<rounds, connecting, attempt>>
               ELSE /\ rounds' = [rounds EXCEPT ![p] = "trying"]
                    /\ connecting' = p
                    /\ attempt' = [tries |-> 0, on |-> 0]

Execute(r) ==
    /\ r[2] = "command"
    /\ call[r].state = "idle"
    /\ Issue(call, r)
    /\ UNCHANGED <<sockets, socket, hooked, disposed, service, reply>>

\* The command is too large, or its signal is aborted already.
Unsendable(r) ==
    /\ r[2] = "command"
    /\ call[r].state = "idle"
    /\ call' = [call EXCEPT ![r].state = "done", ![r].result = "safe"]
    /\ UNCHANGED <<sockets, socket, rounds, connecting, attempt, hooked,
                   disposed, service, reply>>

\* Faulty: the promise is cleared only by those who find the socket open.
LeaveRoundOpen(p) ==
    IF p # 0 /\ connecting = p /\ IsOpen(socket)
    THEN connecting' = 0 /\ UNCHANGED hooked
    ELSE UNCHANGED <<connecting, hooked>>

\* The finally clause of ensureConnected, for a request that waited for p.
LeaveRound(p) ==
    IF p # 0 /\ connecting = p
    THEN IF IsOpen(socket)
         THEN connecting' = 0 /\ UNCHANGED hooked
         ELSE hooked' = hooked \cup {p} /\ UNCHANGED connecting
    ELSE UNCHANGED <<connecting, hooked>>

\* The clearing callback, some microtasks after the promise is settled.
ClearConnect(p) ==
    /\ p \in hooked
    /\ RoundOver(p)
    /\ hooked' = hooked \ {p}
    /\ connecting' = IF connecting = p THEN 0 ELSE connecting
    /\ UNCHANGED <<call, sockets, socket, rounds, attempt, disposed, service, reply>>

\* Faulty: the request is not looked up again after the wait.
ContinueUnchecked(r) ==
    LET c == call[r]
        free == [call EXCEPT ![r].waits = 0, ![r].ready = FALSE]
    IN  /\ c.ready \/ (c.waits # 0 /\ RoundOver(c.waits))
        /\ LeaveRound(c.waits)
        /\ call' = IF IsOpen(socket) THEN [free EXCEPT ![r].on = socket]
                   ELSE Rejected(free, {r})
        /\ UNCHANGED <<sockets, socket, rounds, attempt, disposed, service, reply>>

\* sendWhenConnected() goes on after its wait: the request may be settled
\* already, the promise failed, or the socket lost again.
Continue(r) ==
    LET c == call[r]
        free == [call EXCEPT ![r].waits = 0, ![r].ready = FALSE]
    IN  /\ c.ready \/ (c.waits # 0 /\ RoundOver(c.waits))
        /\ LeaveRound(c.waits)
        /\ \/ /\ c.state # "pending" \/ (c.waits # 0 /\ rounds[c.waits] = "failed")
                 \/ ~IsOpen(socket)
              /\ call' = Rejected(free, {r})
           \/ /\ c.state = "pending"
              /\ c.waits # 0 => rounds[c.waits] = "opened"
              /\ IsOpen(socket)
              /\ \/ call' = [free EXCEPT ![r].on = socket]
                 \/ call' = Rejected(free, {r})      \* send throws
        /\ UNCHANGED <<sockets, socket, rounds, attempt, disposed, service, reply>>

\* A request that was sent is cancelled when its owner stops waiting.
GiveUpOn(r) ==
    LET calls == Rejected(call, {r})
    IN  IF call[r].on # 0 /\ r[2] = "command"
        THEN Issue(calls, CancelOf(r))
        ELSE call' = calls /\ UNCHANGED <<rounds, connecting, attempt>>

\* timeoutPending(): the timer runs from execute on, sent or not.
Timeout(r) ==
    /\ call[r].state = "pending"
    /\ GiveUpOn(r)
    /\ UNCHANGED <<sockets, socket, hooked, disposed, service, reply>>

\* abortPending(); a wait for the connection ends with it.
Abort(r) ==
    /\ r[2] = "command"
    /\ call[r].state = "pending"
    /\ IF call[r].waits = 0
       THEN GiveUpOn(r) /\ UNCHANGED hooked
       ELSE /\ LeaveRound(call[r].waits)
            /\ call' = [Rejected(call, {r}) EXCEPT ![r].waits = 0]
            /\ UNCHANGED <<rounds, attempt>>
    /\ UNCHANGED <<sockets, socket, disposed, service, reply>>

-----------------------------------------------------------------------------
\* connectWithRetry() and openSocket().

\* The next attempt of the trying promise opens a socket.
StartAttempt(p) ==
    /\ rounds[p] = "trying" /\ attempt.on = 0 /\ ~disposed
    /\ attempt.tries < MaxAttempts
    /\ \E k \in Sockets :
          /\ sockets[k].state = "unused"
          /\ \A j \in 1 .. k - 1 : sockets[j].state # "unused"
          /\ sockets' = [sockets EXCEPT ![k] = [state |-> "connecting", heard |-> TRUE]]
          /\ attempt' = [tries |-> attempt.tries + 1, on |-> k]
    /\ UNCHANGED <<call, socket, rounds, connecting, hooked, disposed, service, reply>>

\* No attempt is left, the deadline is over, or the client is closed.
StopTrying(p) ==
    /\ rounds[p] = "trying" /\ attempt.on = 0
    /\ rounds' = [rounds EXCEPT ![p] = "failed"]
    /\ UNCHANGED <<call, sockets, socket, connecting, attempt, hooked, disposed,
                   service, reply>>

\* The open listener.
Opened(p) ==
    /\ rounds[p] = "trying" /\ attempt.on # 0
    /\ sockets[attempt.on].state = "connecting"
    /\ ~disposed
    /\ sockets' = [sockets EXCEPT ![attempt.on].state = "open"]
    /\ socket' = attempt.on
    /\ attempt' = [attempt EXCEPT !.on = 0]
    /\ rounds' = [rounds EXCEPT ![p] = "opened"]
    /\ UNCHANGED <<call, connecting, hooked, disposed, service, reply>>

\* failBeforeOpen(): refused, timed out, or the wrong subprotocol.
OpenFails(p) ==
    /\ rounds[p] = "trying" /\ attempt.on # 0
    /\ sockets' = [sockets EXCEPT ![attempt.on] = [state |-> "closed", heard |-> FALSE]]
    /\ attempt' = [attempt EXCEPT !.on = 0]
    /\ UNCHANGED <<call, socket, rounds, connecting, hooked, disposed, service, reply>>

\* Answers that are still on a socket are lost with it.
LoseReplies(k) ==
    reply' = [r \in Requests |-> IF call[r].on = k THEN "none" ELSE reply[r]]

\* The service starts to close: the socket is not open any more, and its close
\* event is still to come.
RemoteCloses(k) ==
    /\ sockets[k].state = "open"
    /\ sockets' = [sockets EXCEPT ![k].state = "closing"]
    /\ LoseReplies(k)
    /\ UNCHANGED <<client, service>>

\* The close or error event.  disconnect() rejects every pending request,
\* also those that wait for, or were sent on, a later socket.
Drop(k) ==
    /\ sockets[k].state \in {"open", "closing"}
    /\ sockets' = [sockets EXCEPT ![k] = [state |-> "closed", heard |-> FALSE]]
    /\ IF sockets[k].heard
       THEN /\ call' = Rejected(call, Requests)
            /\ socket' = IF socket = k THEN 0 ELSE socket
       ELSE UNCHANGED <<call, socket>>
    /\ LoseReplies(k)
    /\ UNCHANGED <<rounds, connecting, attempt, hooked, disposed, service>>

\* Faulty: the requests that wait for an answer are left to their timers.
FailProtocolQuiet(k) ==
    /\ Listens(k)
    /\ sockets' = [j \in Sockets |->
          IF j = socket THEN [state |-> "closing", heard |-> FALSE] ELSE sockets[j]]
    /\ socket' = 0
    /\ UNCHANGED <<call, rounds, connecting, attempt, hooked, disposed, service, reply>>

\* failProtocol(): a message that is not XFS4IoT ends the connection.
FailProtocol(k) ==
    /\ Listens(k)
    /\ sockets' = [j \in Sockets |->
          IF j = socket THEN [state |-> "closing", heard |-> FALSE] ELSE sockets[j]]
    /\ socket' = 0
    /\ call' = Rejected(call, Requests)
    /\ UNCHANGED <<rounds, connecting, attempt, hooked, disposed, service, reply>>

\* close(): the socket in use and the one being opened are closed.
Close ==
    /\ ~disposed
    /\ disposed' = TRUE
    /\ sockets' = [k \in Sockets |->
          IF k = socket THEN [state |-> IF IsOpen(k) THEN "closing"
                                        ELSE sockets[k].state, heard |-> FALSE]
          ELSE IF k = attempt.on THEN [sockets[k] EXCEPT !.state = "closing"]
          ELSE sockets[k]]
    /\ socket' = 0
    /\ call' = Rejected(call, Requests)
    /\ UNCHANGED <<rounds, connecting, attempt, hooked, service, reply>>

-----------------------------------------------------------------------------
\* The service, which may act on what was sent whether or not the client
\* still waits, and its messages.

Answers(r, outcome, says) ==
    /\ service' = [service EXCEPT ![r] = outcome]
    /\ reply' = [reply EXCEPT ![r] =
                    IF sockets[call[r].on].state = "open" THEN says ELSE "none"]
    /\ UNCHANGED <<client, sockets>>

Serve(r) ==
    /\ call[r].on # 0
    /\ service[r] = "none"
    /\ \/ Answers(r, "done", "done")
       \/ Answers(r, "refused", "refused")
       \/ Answers(r, "refused", "rejected")    \* an acknowledgement with a status

\* The service obeys a cancellation: what it has not done it will not do.
ServeCancel(r) ==
    /\ r[2] = "cancel"
    /\ call[r].on # 0 /\ service[r] = "none"
    /\ service[CommandOf(r)] = "none"
    /\ service' = [service EXCEPT ![r] = "done", ![CommandOf(r)] = "refused"]
    /\ reply' = [reply EXCEPT ![r] =
                    IF sockets[call[r].on].state = "open" THEN "done" ELSE "none"]
    /\ UNCHANGED <<client, sockets>>

\* handleAcknowledge() and handleCompletion(): late answers are ignored.
Deliver(r) ==
    /\ reply[r] # "none"
    /\ Listens(call[r].on)
    /\ reply' = [reply EXCEPT ![r] = "none"]
    /\ call' = IF call[r].state # "pending" THEN call
               ELSE IF reply[r] = "rejected"
               THEN [call EXCEPT ![r].state = "done", ![r].result = "known"]
               ELSE [call EXCEPT ![r].state = "done", ![r].result = "completed",
                                 ![r].answer = reply[r]]
    /\ UNCHANGED <<sockets, socket, rounds, connecting, attempt, hooked, disposed,
                   service>>

\* A message with the id of a pending request and another name or version.
Mismatch(r) ==
    /\ call[r].state = "pending"
    /\ \E k \in Sockets : Listens(k)
    /\ call' = Rejected(call, {r})
    /\ UNCHANGED <<sockets, socket, rounds, connecting, attempt, hooked, disposed,
                   service, reply>>

-----------------------------------------------------------------------------
ServiceNext == \E r \in Requests : Serve(r) \/ ServeCancel(r)

Next ==
    \/ \E r \in Requests :
          \/ Execute(r) \/ Unsendable(r) \/ Continue(r) \/ Timeout(r) \/ Abort(r)
          \/ Deliver(r) \/ Mismatch(r)
    \/ \E p \in Rounds :
          ClearConnect(p) \/ StartAttempt(p) \/ StopTrying(p) \/ Opened(p) \/ OpenFails(p)
    \/ \E k \in Sockets : RemoteCloses(k) \/ Drop(k) \/ FailProtocol(k)
    \/ Close
    \/ ServiceNext

\* The timer of every request runs out; nothing is assumed of the service, of
\* the network, or of the owner.
Spec == Init /\ [][Next]_vars /\ \A r \in Requests : WF_vars(Timeout(r))

-----------------------------------------------------------------------------
(* Properties *)

\* A command that was sent and is pending was sent on a socket the client
\* still listens to: whatever happens to its answer, the client will know.
SentIsHeard ==
    \A r \in Requests :
        call[r].state = "pending" /\ call[r].on # 0 => sockets[call[r].on].heard

\* A connect promise that is over does not stay: somebody is going to clear it.
\* Every later command would else wait for it and fail, with no new attempt.
ConnectNeverStuck ==
    connecting # 0 /\ RoundOver(connecting) =>
        \/ connecting \in hooked
        \/ \E r \in Requests : call[r].waits = connecting

\* What is called safe to retry, a deadline and a disconnection included, was
\* never sent if it moves something.
RetrySafe ==
    \A r \in Requests :
        Moves(r) /\ call[r].state = "done" /\ call[r].result = "safe"
            => call[r].on = 0

\* A state-changing command is a request to a cash device: what became of it,
\* and what its owner has been told.
RequestState(r) ==
    CASE service[r] = "done" -> "moved"
      [] service[r] = "refused" -> "refused"
      [] OTHER -> IF call[r].result = "safe" THEN "refused"
                  ELSE IF call[r].on = 0 THEN "idle" ELSE "open"

ToldState(r) ==
    CASE call[r].result = "none" -> "none"
      [] call[r].answer = "done" -> "moved"
      [] call[r].result = "indeterminate" -> "unknown"
      [] OTHER -> "refused"
==============================================================================

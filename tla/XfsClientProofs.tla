--------------------------- MODULE XfsClientProofs ---------------------------
(***************************************************************************)
(* What the XFS4IoT client guarantees for any commands, limits and number  *)
(* of sockets.  The inductive invariant says where a request that was sent *)
(* can still be heard of, and who is going to clear the connect promise;   *)
(* with what a request has become and what its owner is told, it shows     *)
(* that every state-changing command takes the steps of CashDevice only.   *)
(***************************************************************************)
EXTENDS XfsClient, FiniteSetTheorems, TLAPS

\* A request that was not made has no trace, and a cancellation is not made
\* before its command has ended.
Untouched ==
    \A r \in Requests :
        /\ call[r].state = "idle" => call[r].on = 0 /\ call[r].waits = 0
        /\ r[2] = "command" /\ call[r].state # "done" => call[CancelOf(r)].state = "idle"

\* Only a socket that was opened is sent on, and the one in use is listened to.
Opening ==
    /\ \A r \in Requests :
          call[r].on # 0 => sockets[call[r].on].state \in {"open", "closing", "closed"}
    /\ socket # 0 => /\ sockets[socket].heard
                     /\ sockets[socket].state \in {"open", "closing"}
    /\ attempt.on # 0 =>
          \/ disposed
          \/ sockets[attempt.on].state = "connecting" /\ sockets[attempt.on].heard

\* A closed client has nothing left to settle.
Closed == disposed => socket = 0 /\ \A r \in Requests : call[r].state # "pending"

\* Somebody is going to clear the connect promise, whatever becomes of it.
Awaited ==
    connecting # 0 =>
        connecting \in hooked \/ \E r \in Requests : call[r].waits = connecting

ClientInv ==
    WellTyped /\ SentIsHeard /\ RetrySafe /\ Untouched /\ Opening /\ Closed /\ Awaited
-----------------------------------------------------------------------------
LEMMA RequestFacts ==
    ASSUME NEW r \in Requests
    PROVE  /\ CancelOf(r) \in Requests
           /\ CancelOf(r)[2] = "cancel"
           /\ ~Moves(CancelOf(r))
           /\ r[2] = "command" => CancelOf(r) # r
           /\ \A s \in Requests :
                 r[2] = "command" /\ s[2] = "command" /\ CancelOf(r) = CancelOf(s) => r = s
BY DEF Requests, CancelOf, Moves

LEMMA Positive ==
    /\ 0 \in 0 .. MaxAttempts
    /\ \A k \in Sockets : k # 0
    /\ \A p \in Rounds : p # 0
<1>1. MaxAttempts \in Nat /\ MaxSockets \in Nat /\ MaxRounds \in Nat
  BY ClientAssumption
<1> QED BY <1>1 DEF Sockets, Rounds

\* Settling changes nothing but the state and the result of pending requests.
LEMMA RejectedFacts ==
    ASSUME NEW calls \in [Requests -> CallRecords], NEW R
    PROVE  /\ Rejected(calls, R) \in [Requests -> CallRecords]
           /\ \A r \in Requests :
                 /\ Rejected(calls, R)[r].on = calls[r].on
                 /\ Rejected(calls, R)[r].waits = calls[r].waits
                 /\ Rejected(calls, R)[r].state =
                       IF r \in R /\ calls[r].state = "pending" THEN "done"
                       ELSE calls[r].state
                 /\ r \in R /\ calls[r].state = "pending" /\ Moves(r)
                    /\ Rejected(calls, R)[r].result = "safe" => calls[r].on = 0
                 /\ ~(r \in R /\ calls[r].state = "pending") =>
                       Rejected(calls, R)[r].result = calls[r].result
<1>1. \A r \in Requests : calls[r] \in CallRecords
  OBVIOUS
<1>2. \A r \in Requests : Failure(calls[r], r) \in {"indeterminate", "safe"}
  BY DEF Failure
<1>3. \A r \in Requests :
         Moves(r) /\ Failure(calls[r], r) = "safe" => calls[r].on = 0
  BY DEF Failure
<1>4. \A r \in Requests : Rejected(calls, R)[r] \in CallRecords
  <2> TAKE r \in Requests
  <2> QED BY <1>1, <1>2 DEF Rejected, CallRecords
<1>5. Rejected(calls, R) \in [Requests -> CallRecords]
  BY <1>4 DEF Rejected
<1> QED BY <1>1, <1>3, <1>5 DEF Rejected, CallRecords

LEMMA InitClient == Init => ClientInv
<1> SUFFICES ASSUME Init PROVE ClientInv
  OBVIOUS
<1>1. NotCalled \in CallRecords
  BY DEF NotCalled, CallRecords
<1>2. [state |-> "unused", heard |-> FALSE] \in SocketRecords
  BY DEF SocketRecords
<1>3. \A r \in Requests :
         /\ call[r].state = "idle" /\ call[r].result = "none"
         /\ call[r].on = 0 /\ call[r].waits = 0
  BY DEF Init, NotCalled
<1>4. WellTyped
  <2>1. attempt \in [tries : 0 .. MaxAttempts, on : {0} \cup Sockets]
    BY Positive DEF Init
  <2> QED BY <1>1, <1>2, <2>1 DEF WellTyped, Init
<1>5. SentIsHeard /\ RetrySafe
  BY <1>3 DEF SentIsHeard, RetrySafe
<1>6. Untouched
  BY <1>3, RequestFacts DEF Untouched
<1>7. Opening
  BY <1>3 DEF Opening, Init
<1>8. Closed /\ Awaited
  BY <1>3 DEF Closed, Awaited, Init
<1> QED BY <1>4, <1>5, <1>6, <1>7, <1>8 DEF ClientInv
-----------------------------------------------------------------------------
\* A rejection leaves the records well formed, and nothing that was sent and
\* moves something is called safe to retry by it.
LEMMA Rejection ==
    ASSUME ClientInv, NEW R, call' = Rejected(call, R)
    PROVE  /\ call' \in [Requests -> CallRecords]
           /\ RetrySafe'
           /\ Untouched'
           /\ \A r \in Requests :
                 /\ call'[r].on = call[r].on
                 /\ call'[r].waits = call[r].waits
                 /\ call'[r].state = "pending" => call[r].state = "pending" /\ r \notin R
<1>1. call \in [Requests -> CallRecords] /\ RetrySafe /\ Untouched
  BY DEF ClientInv, WellTyped
<1>2. RetrySafe'
  <2> SUFFICES ASSUME NEW r \in Requests, Moves(r),
                      call'[r].state = "done", call'[r].result = "safe"
               PROVE  call'[r].on = 0
    BY DEF RetrySafe, Moves
  <2> QED BY <1>1, RejectedFacts DEF RetrySafe
<1>3. Untouched'
  <2> SUFFICES ASSUME NEW r \in Requests
               PROVE  /\ call'[r].state = "idle" => call'[r].on = 0 /\ call'[r].waits = 0
                      /\ r[2] = "command" /\ call'[r].state # "done" =>
                            call'[CancelOf(r)].state = "idle"
    BY DEF Untouched, CancelOf
  <2>1. call[r].state # "done" \/ call'[r].state = "done"
    BY <1>1, RejectedFacts
  <2>2. call[CancelOf(r)].state = "idle" => call'[CancelOf(r)].state = "idle"
    BY <1>1, RejectedFacts, RequestFacts
  <2> QED BY <1>1, <2>1, <2>2, RejectedFacts DEF Untouched
<1> QED BY <1>1, <1>2, <1>3, RejectedFacts

\* What execute() leaves behind: the request is rejected, or it is pending
\* and waits for the promise everybody waits for.
LEMMA IssueFacts ==
    ASSUME WellTyped, NEW calls \in [Requests -> CallRecords], NEW s \in Requests,
           Issue(calls, s)
    PROVE  /\ call' \in [Requests -> CallRecords]
           /\ rounds' \in [Rounds -> {"unused", "trying", "opened", "failed"}]
           /\ connecting' \in {0} \cup Rounds
           /\ attempt' \in [tries : 0 .. MaxAttempts, on : {0} \cup Sockets]
           /\ \A r \in Requests : r # s => call'[r] = calls[r]
           /\ call'[s].on = calls[s].on
           /\ call'[s].state \in {"done", "pending"}
           /\ disposed => call'[s].state = "done"
           /\ connecting' = connecting \/ connecting' = call'[s].waits
           /\ attempt'.on # 0 => attempt' = attempt
<1>1. calls[s] \in CallRecords
  OBVIOUS
<1>2. CASE disposed \/ Cardinality(Pending(calls)) >= MaxPending \/ JoinedRound = {}
  <2>1. /\ call' = [calls EXCEPT ![s] = [calls[s] EXCEPT !.state = "done", !.result = "safe"]]
        /\ UNCHANGED <<rounds, connecting, attempt>>
    BY <1>2 DEF Issue
  <2>2. [calls[s] EXCEPT !.state = "done", !.result = "safe"] \in CallRecords
    BY <1>1 DEF CallRecords
  <2> QED BY <1>1, <2>1, <2>2 DEF WellTyped, CallRecords
<1>3. CASE ~(disposed \/ Cardinality(Pending(calls)) >= MaxPending \/ JoinedRound = {})
  <2>1. PICK p \in JoinedRound :
            /\ call' = [calls EXCEPT ![s] = [calls[s] EXCEPT !.state = "pending",
                                               !.waits = p, !.ready = (p = 0)]]
            /\ IF p = 0 \/ p = connecting
               THEN UNCHANGED <<rounds, connecting, attempt>>
               ELSE /\ rounds' = [rounds EXCEPT ![p] = "trying"]
                    /\ connecting' = p
                    /\ attempt' = [tries |-> 0, on |-> 0]
    BY <1>3 DEF Issue
  <2>2. p \in {0} \cup Rounds
    BY DEF JoinedRound, WellTyped
  <2>3. [calls[s] EXCEPT !.state = "pending", !.waits = p, !.ready = (p = 0)]
            \in CallRecords
    BY <1>1, <2>2 DEF CallRecords
  <2>4. /\ call' \in [Requests -> CallRecords]
        /\ \A r \in Requests : r # s => call'[r] = calls[r]
        /\ call'[s].on = calls[s].on /\ call'[s].state = "pending"
        /\ call'[s].waits = p
    BY <1>1, <2>1, <2>3 DEF CallRecords
  <2>5. CASE p = 0 \/ p = connecting
    BY <1>3, <2>1, <2>4, <2>5 DEF WellTyped
  <2>6. CASE ~(p = 0 \/ p = connecting)
    <3>1. /\ rounds' = [rounds EXCEPT ![p] = "trying"] /\ connecting' = p
          /\ attempt' = [tries |-> 0, on |-> 0]
      BY <2>1, <2>6
    <3>2. attempt' \in [tries : 0 .. MaxAttempts, on : {0} \cup Sockets] /\ attempt'.on = 0
      BY <3>1, Positive
    <3>3. rounds' \in [Rounds -> {"unused", "trying", "opened", "failed"}]
      BY <3>1, <2>2 DEF WellTyped
    <3> QED BY <1>3, <2>2, <2>4, <3>1, <3>2, <3>3
  <2> QED BY <2>5, <2>6
<1> QED BY <1>2, <1>3

\* calls is what the records are when a request is issued: those of now, but
\* for pending ones that were settled on the way.
LEMMA Issuing ==
    ASSUME ClientInv, NEW calls \in [Requests -> CallRecords], NEW s \in Requests,
           call[s].state = "idle",
           \A r \in Requests :
               /\ calls[r].on = call[r].on
               /\ calls[r].waits = call[r].waits
               /\ \/ calls[r] = call[r]
                  \/ /\ call[r].state = "pending" /\ calls[r].state = "done"
                     /\ Moves(r) /\ calls[r].result = "safe" => calls[r].on = 0,
           \A r \in Requests : r[2] = "command" /\ s = CancelOf(r) => calls[r].state = "done",
           Issue(calls, s),
           UNCHANGED <<sockets, socket, hooked, disposed, service, reply>>
    PROVE  ClientInv'
<1>1. WellTyped
  BY DEF ClientInv
<1>2. /\ call' \in [Requests -> CallRecords]
      /\ rounds' \in [Rounds -> {"unused", "trying", "opened", "failed"}]
      /\ connecting' \in {0} \cup Rounds
      /\ attempt' \in [tries : 0 .. MaxAttempts, on : {0} \cup Sockets]
      /\ \A r \in Requests : r # s => call'[r] = calls[r]
      /\ call'[s].on = calls[s].on
      /\ call'[s].state \in {"done", "pending"}
      /\ disposed => call'[s].state = "done"
      /\ connecting' = connecting \/ connecting' = call'[s].waits
      /\ attempt'.on # 0 => attempt' = attempt
  BY <1>1, IssueFacts
<1>3. call[s].on = 0 /\ call[s].waits = 0
  BY DEF ClientInv, Untouched
<1>4. \A r \in Requests : call'[r].on = call[r].on
  BY <1>2
<1>5. \A r \in Requests : call'[r].state = "pending" => r = s \/ call[r].state = "pending"
  BY <1>2
<1>6. WellTyped'
  BY <1>1, <1>2 DEF WellTyped
<1>7. SentIsHeard'
  BY <1>3, <1>4, <1>5 DEF ClientInv, SentIsHeard
<1>8. RetrySafe'
  <2> SUFFICES ASSUME NEW r \in Requests, Moves(r),
                      call'[r].state = "done", call'[r].result = "safe"
               PROVE  call'[r].on = 0
    BY DEF RetrySafe, Moves
  <2> QED BY <1>2, <1>3 DEF ClientInv, RetrySafe
<1>9. Untouched'
  <2> SUFFICES ASSUME NEW r \in Requests
               PROVE  /\ call'[r].state = "idle" => call'[r].on = 0 /\ call'[r].waits = 0
                      /\ r[2] = "command" /\ call'[r].state # "done" =>
                            call'[CancelOf(r)].state = "idle"
    BY DEF Untouched, CancelOf
  <2>1. call'[r].state = "idle" => call'[r].on = 0 /\ call'[r].waits = 0
    BY <1>2 DEF ClientInv, Untouched
  <2>2. ASSUME r[2] = "command", call'[r].state # "done"
        PROVE  call'[CancelOf(r)].state = "idle"
    <3>1. CancelOf(r) \in Requests /\ CancelOf(r) # r
      BY <2>2, RequestFacts
    <3>2. call[r].state # "done"
      BY <1>2, <2>2
    <3>3. call[CancelOf(r)].state = "idle"
      BY <2>2, <3>2 DEF ClientInv, Untouched
    <3>4. calls[CancelOf(r)] = call[CancelOf(r)]
      BY <3>1, <3>3
    <3>5. CancelOf(r) # s
      <4> SUFFICES ASSUME CancelOf(r) = s PROVE FALSE
        OBVIOUS
      <4>1. calls[r].state = "done"
        BY <2>2
      <4>2. call'[r] = calls[r]
        BY <1>2, <3>1
      <4> QED BY <2>2, <4>1, <4>2
    <3> QED BY <1>2, <3>1, <3>3, <3>4, <3>5
  <2> QED BY <2>1, <2>2
<1>10. Opening'
  BY <1>1, <1>2, <1>4 DEF ClientInv, Opening
<1>11. Closed'
  BY <1>2, <1>5 DEF ClientInv, Closed
<1>12. Awaited'
  <2> SUFFICES ASSUME connecting' # 0, connecting' \notin hooked
               PROVE  \E r \in Requests : call'[r].waits = connecting'
    BY DEF Awaited
  <2>1. CASE connecting' = call'[s].waits
    BY <2>1
  <2>2. CASE connecting' = connecting
    <3>1. PICK r \in Requests : call[r].waits = connecting
      BY <2>2 DEF ClientInv, Awaited
    <3> QED BY <1>2, <1>3, <2>2, <3>1
  <2> QED BY <1>2, <2>1, <2>2
<1> QED BY <1>6, <1>7, <1>8, <1>9, <1>10, <1>11, <1>12 DEF ClientInv

\* Settling pending requests keeps cancellations behind their commands.
LEMMA UntouchedKept ==
    ASSUME ClientInv,
           \A r \in Requests :
               /\ \/ call'[r].state = call[r].state
                  \/ call[r].state = "pending" /\ call'[r].state = "done"
               /\ call'[r].state = "idle" => call'[r].on = 0 /\ call'[r].waits = 0
    PROVE  Untouched'
<1> SUFFICES ASSUME NEW r \in Requests, r[2] = "command", call'[r].state # "done"
             PROVE  call'[CancelOf(r)].state = "idle"
  BY DEF Untouched, CancelOf
<1>1. call[r].state # "done" /\ CancelOf(r) \in Requests
  BY RequestFacts
<1>2. call[CancelOf(r)].state = "idle"
  BY <1>1 DEF ClientInv, Untouched
<1> QED BY <1>1, <1>2
-----------------------------------------------------------------------------
(***************************************************************************)
(* The owner's calls, and the timers.                                      *)
(***************************************************************************)
LEMMA ExecuteKeeps ==
    ASSUME ClientInv, NEW r \in Requests, Execute(r)
    PROVE  ClientInv'
<1>1. call \in [Requests -> CallRecords]
  BY DEF ClientInv, WellTyped
<1>2. \A q \in Requests : q[2] = "command" => r # CancelOf(q)
  BY DEF Execute, CancelOf
<1> QED BY <1>1, <1>2, Issuing DEF Execute

LEMMA UnsendableKeeps ==
    ASSUME ClientInv, NEW r \in Requests, Unsendable(r)
    PROVE  ClientInv'
<1>1. /\ call \in [Requests -> CallRecords] /\ call[r].state = "idle"
      /\ call[r].on = 0 /\ call[r].waits = 0
      /\ UNCHANGED <<sockets, socket, rounds, connecting, attempt, hooked,
                     disposed, service, reply>>
      /\ call' = [call EXCEPT ![r] = [call[r] EXCEPT !.state = "done", !.result = "safe"]]
  BY DEF ClientInv, WellTyped, Untouched, Unsendable
<1>2. [call[r] EXCEPT !.state = "done", !.result = "safe"] \in CallRecords
  BY <1>1 DEF CallRecords
<1>3. /\ call' \in [Requests -> CallRecords]
      /\ \A q \in Requests : q # r => call'[q] = call[q]
      /\ call'[r].state = "done" /\ call'[r].on = 0 /\ call'[r].waits = 0
  BY <1>1, <1>2 DEF CallRecords
<1>4. \A q \in Requests :
         /\ call'[q].on = call[q].on /\ call'[q].waits = call[q].waits
         /\ call'[q].state = "pending" => call[q].state = "pending"
  BY <1>1, <1>3
<1>5. WellTyped' /\ SentIsHeard'
  BY <1>1, <1>3, <1>4 DEF ClientInv, WellTyped, SentIsHeard
<1>6. RetrySafe'
  BY <1>3 DEF ClientInv, RetrySafe, Moves
<1>7. Untouched'
  <2> SUFFICES ASSUME NEW q \in Requests
               PROVE  /\ call'[q].state = "idle" => call'[q].on = 0 /\ call'[q].waits = 0
                      /\ q[2] = "command" /\ call'[q].state # "done" =>
                            call'[CancelOf(q)].state = "idle"
    BY DEF Untouched, CancelOf
  <2>1. r[2] = "command"
    BY DEF Unsendable
  <2>2. CancelOf(q) \in Requests /\ CancelOf(q) # r
    BY <2>1, RequestFacts
  <2> QED BY <1>3, <1>4, <2>2 DEF ClientInv, Untouched
<1>8. Opening' /\ Closed' /\ Awaited'
  BY <1>1, <1>4 DEF ClientInv, Opening, Closed, Awaited
<1> QED BY <1>5, <1>6, <1>7, <1>8 DEF ClientInv

\* Rejecting and no more.
LEMMA RejectingKeeps ==
    ASSUME ClientInv, NEW R, call' = Rejected(call, R),
           UNCHANGED <<sockets, socket, rounds, connecting, attempt, hooked,
                       disposed, service, reply>>
    PROVE  ClientInv'
<1>1. /\ call' \in [Requests -> CallRecords]
      /\ RetrySafe' /\ Untouched'
      /\ \A r \in Requests :
            /\ call'[r].on = call[r].on
            /\ call'[r].waits = call[r].waits
            /\ call'[r].state = "pending" => call[r].state = "pending"
  BY Rejection
<1>2. WellTyped' /\ SentIsHeard'
  BY <1>1 DEF ClientInv, WellTyped, SentIsHeard
<1>3. Opening' /\ Closed' /\ Awaited'
  BY <1>1 DEF ClientInv, Opening, Closed, Awaited
<1> QED BY <1>1, <1>2, <1>3 DEF ClientInv

LEMMA GiveUpOnKeeps ==
    ASSUME ClientInv, NEW r \in Requests, call[r].state = "pending", GiveUpOn(r),
           UNCHANGED <<sockets, socket, hooked, disposed, service, reply>>
    PROVE  ClientInv'
<1> DEFINE calls == Rejected(call, {r})
<1>1. CASE ~(call[r].on # 0 /\ r[2] = "command")
  BY <1>1, RejectingKeeps DEF GiveUpOn
<1>2. CASE call[r].on # 0 /\ r[2] = "command"
  <2>1. call \in [Requests -> CallRecords]
    BY DEF ClientInv, WellTyped
  <2>2. Issue(calls, CancelOf(r)) /\ CancelOf(r) \in Requests /\ CancelOf(r) # r
    BY <1>2, RequestFacts DEF GiveUpOn
  <2>3. call[CancelOf(r)].state = "idle"
    BY <1>2 DEF ClientInv, Untouched
  <2>4. calls \in [Requests -> CallRecords] /\ calls[r].state = "done"
    BY <2>1, RejectedFacts
  <2>5. \A q \in Requests : q # r => calls[q] = call[q]
    BY <2>1 DEF Rejected
  <2>6. /\ calls[r].on = call[r].on /\ calls[r].waits = call[r].waits
        /\ Moves(r) /\ calls[r].result = "safe" => calls[r].on = 0
    BY <2>1, RejectedFacts
  <2>7. \A q \in Requests : q[2] = "command" /\ CancelOf(r) = CancelOf(q) => q = r
    BY <1>2, RequestFacts
  <2> HIDE DEF calls
  <2> QED BY <2>2, <2>3, <2>4, <2>5, <2>6, <2>7, Issuing
<1> QED BY <1>1, <1>2

LEMMA TimeoutKeeps ==
    ASSUME ClientInv, NEW r \in Requests, Timeout(r)
    PROVE  ClientInv'
BY GiveUpOnKeeps DEF Timeout

LEMMA MismatchKeeps ==
    ASSUME ClientInv, NEW r \in Requests, Mismatch(r)
    PROVE  ClientInv'
BY RejectingKeeps DEF Mismatch

\* Who goes on, or is aborted, before the promise is over takes care of it.
LEMMA LeavingRound ==
    ASSUME ClientInv, NEW r \in Requests, LeaveRound(call[r].waits),
           \A q \in Requests : q # r => call'[q].waits = call[q].waits
    PROVE  /\ connecting' \in {0, connecting}
           /\ hooked' \subseteq Rounds
           /\ Awaited'
<1>1. /\ connecting \in {0} \cup Rounds /\ hooked \subseteq Rounds
      /\ Awaited /\ call[r].waits \in {0} \cup Rounds
  BY DEF ClientInv, WellTyped, CallRecords
<1>2. CASE call[r].waits # 0 /\ connecting = call[r].waits
  BY <1>1, <1>2 DEF LeaveRound, Awaited
<1>3. CASE ~(call[r].waits # 0 /\ connecting = call[r].waits)
  <2>1. UNCHANGED <<connecting, hooked>>
    BY <1>3 DEF LeaveRound
  <2> SUFFICES ASSUME connecting # 0, connecting \notin hooked
               PROVE  \E q \in Requests : call'[q].waits = connecting
    BY <1>1, <2>1 DEF Awaited
  <2>2. PICK q \in Requests : call[q].waits = connecting
    BY <1>1 DEF Awaited
  <2> QED BY <1>3, <2>2
<1> QED BY <1>2, <1>3

\* r stops to wait: it is sent on the open socket, or not sent at all.
LEMMA ReleaseKeeps ==
    ASSUME ClientInv, NEW r \in Requests, call' \in [Requests -> CallRecords],
           LeaveRound(call[r].waits),
           UNCHANGED <<sockets, socket, rounds, attempt, disposed, service, reply>>,
           \A q \in Requests : q # r =>
               /\ call'[q].on = call[q].on /\ call'[q].waits = call[q].waits
               /\ call'[q].state = call[q].state /\ call'[q].result = call[q].result,
           call'[r].waits = 0,
           \/ /\ call'[r].on = call[r].on
              /\ \/ /\ call'[r].state = call[r].state /\ call[r].state # "pending"
                    /\ call'[r].result = call[r].result
                 \/ /\ call[r].state = "pending" /\ call'[r].state = "done"
                    /\ Moves(r) /\ call'[r].result = "safe" => call'[r].on = 0
           \/ /\ call[r].state = "pending" /\ call'[r].state = "pending"
              /\ call'[r].on = socket /\ IsOpen(socket)
    PROVE  ClientInv'
<1>1. connecting' \in {0, connecting} /\ hooked' \subseteq Rounds /\ Awaited'
  BY LeavingRound
<1>2. \A q \in Requests : call'[q].state = "pending" => call[q].state = "pending"
  OBVIOUS
<1>3. WellTyped'
  BY <1>1 DEF ClientInv, WellTyped
<1>4. SentIsHeard' /\ Opening'
  BY <1>2 DEF ClientInv, SentIsHeard, Opening, IsOpen
<1>5. RetrySafe'
  BY DEF ClientInv, RetrySafe, Moves
<1>6. Untouched'
  <2>1. \A q \in Requests : call[q].state = "idle" => call[q].on = 0 /\ call[q].waits = 0
    BY DEF ClientInv, Untouched
  <2> QED BY <2>1, UntouchedKept
<1>7. Closed'
  BY <1>2 DEF ClientInv, Closed
<1> QED BY <1>1, <1>3, <1>4, <1>5, <1>6, <1>7 DEF ClientInv

LEMMA ContinueKeeps ==
    ASSUME ClientInv, NEW r \in Requests, Continue(r)
    PROVE  ClientInv'
<1> DEFINE free == [call EXCEPT ![r] = [call[r] EXCEPT !.waits = 0, !.ready = FALSE]]
<1>1. call \in [Requests -> CallRecords] /\ call[r] \in CallRecords
  BY DEF ClientInv, WellTyped
<1>2. [call[r] EXCEPT !.waits = 0, !.ready = FALSE] \in CallRecords
  BY <1>1 DEF CallRecords
<1>3. /\ free \in [Requests -> CallRecords]
      /\ \A q \in Requests : q # r => free[q] = call[q]
      /\ free[r].waits = 0 /\ free[r].on = call[r].on
      /\ free[r].state = call[r].state /\ free[r].result = call[r].result
  BY <1>1, <1>2 DEF CallRecords
<1>4. /\ LeaveRound(call[r].waits)
      /\ UNCHANGED <<sockets, socket, rounds, attempt, disposed, service, reply>>
      /\ \/ call' = Rejected(free, {r})
         \/ /\ call[r].state = "pending" /\ IsOpen(socket)
            /\ call' = [free EXCEPT ![r] = [free[r] EXCEPT !.on = socket]]
  BY DEF Continue
<1> HIDE DEF free
<1>5. CASE call' = Rejected(free, {r})
  <2>1. /\ call' \in [Requests -> CallRecords]
        /\ \A q \in Requests :
              /\ call'[q].on = free[q].on /\ call'[q].waits = free[q].waits
              /\ call'[q].state = IF q \in {r} /\ free[q].state = "pending" THEN "done"
                                  ELSE free[q].state
              /\ q \in {r} /\ free[q].state = "pending" /\ Moves(q)
                 /\ call'[q].result = "safe" => free[q].on = 0
              /\ ~(q \in {r} /\ free[q].state = "pending") =>
                    call'[q].result = free[q].result
    BY <1>3, <1>5, RejectedFacts
  <2> QED BY <1>3, <1>4, <2>1, ReleaseKeeps
<1>6. CASE /\ call[r].state = "pending" /\ IsOpen(socket)
           /\ call' = [free EXCEPT ![r] = [free[r] EXCEPT !.on = socket]]
  <2>1. free[r] \in CallRecords /\ socket \in {0} \cup Sockets
    BY <1>3 DEF ClientInv, WellTyped
  <2>2. [free[r] EXCEPT !.on = socket] \in CallRecords
    BY <2>1 DEF CallRecords
  <2>3. /\ call' \in [Requests -> CallRecords]
        /\ \A q \in Requests : q # r => call'[q] = call[q]
        /\ call'[r].waits = 0 /\ call'[r].on = socket /\ call'[r].state = "pending"
    BY <1>3, <1>6, <2>1, <2>2 DEF CallRecords
  <2> QED BY <1>4, <1>6, <2>3, ReleaseKeeps
<1> QED BY <1>4, <1>5, <1>6

LEMMA AbortKeeps ==
    ASSUME ClientInv, NEW r \in Requests, Abort(r)
    PROVE  ClientInv'
<1>1. CASE call[r].waits = 0
  BY <1>1, GiveUpOnKeeps DEF Abort
<1>2. CASE call[r].waits # 0
  <2> DEFINE calls == Rejected(call, {r})
  <2>1. /\ call[r].state = "pending" /\ LeaveRound(call[r].waits)
        /\ UNCHANGED <<sockets, socket, rounds, attempt, disposed, service, reply>>
        /\ call' = [calls EXCEPT ![r] = [calls[r] EXCEPT !.waits = 0]]
    BY <1>2 DEF Abort
  <2>2. call \in [Requests -> CallRecords]
    BY DEF ClientInv, WellTyped
  <2>3. /\ calls \in [Requests -> CallRecords] /\ calls[r].state = "done"
        /\ calls[r].on = call[r].on
        /\ Moves(r) /\ calls[r].result = "safe" => calls[r].on = 0
    BY <2>1, <2>2, RejectedFacts
  <2>4. \A q \in Requests : q # r => calls[q] = call[q]
    BY <2>2 DEF Rejected
  <2> HIDE DEF calls
  <2>5. calls[r] \in CallRecords
    BY <2>3
  <2>6. [calls[r] EXCEPT !.waits = 0] \in CallRecords
    BY <2>5 DEF CallRecords
  <2>7. /\ call' \in [Requests -> CallRecords]
        /\ \A q \in Requests : q # r => call'[q] = call[q]
        /\ call'[r].waits = 0 /\ call'[r].on = call[r].on /\ call'[r].state = "done"
        /\ call'[r].result = calls[r].result
    BY <2>1, <2>3, <2>4, <2>5, <2>6 DEF CallRecords
  <2> QED BY <2>1, <2>3, <2>7, ReleaseKeeps
<1> QED BY <1>1, <1>2
-----------------------------------------------------------------------------
(***************************************************************************)
(* The connection.                                                         *)
(***************************************************************************)
LEMMA ClearConnectKeeps ==
    ASSUME ClientInv, NEW p \in Rounds, ClearConnect(p)
    PROVE  ClientInv'
<1>1. WellTyped'
  BY DEF ClientInv, WellTyped, ClearConnect
<1>2. SentIsHeard' /\ RetrySafe' /\ Opening' /\ Closed'
  BY DEF ClientInv, SentIsHeard, RetrySafe, Opening, Closed, ClearConnect, Moves
<1>3. Untouched' /\ Awaited'
  BY DEF ClientInv, Untouched, Awaited, ClearConnect, CancelOf
<1> QED BY <1>1, <1>2, <1>3 DEF ClientInv

LEMMA StopTryingKeeps ==
    ASSUME ClientInv, NEW p \in Rounds, StopTrying(p)
    PROVE  ClientInv'
<1>1. WellTyped'
  BY DEF ClientInv, WellTyped, StopTrying
<1>2. SentIsHeard' /\ RetrySafe' /\ Opening' /\ Closed'
  BY DEF ClientInv, SentIsHeard, RetrySafe, Opening, Closed, StopTrying, Moves
<1>3. Untouched' /\ Awaited'
  BY DEF ClientInv, Untouched, Awaited, StopTrying, CancelOf
<1> QED BY <1>1, <1>2, <1>3 DEF ClientInv

\* No request was sent on a socket that was not opened before.
LEMMA StartAttemptKeeps ==
    ASSUME ClientInv, NEW p \in Rounds, StartAttempt(p)
    PROVE  ClientInv'
<1>1. PICK k \in Sockets :
         /\ sockets[k].state = "unused"
         /\ sockets' = [sockets EXCEPT ![k] = [state |-> "connecting", heard |-> TRUE]]
         /\ attempt' = [tries |-> attempt.tries + 1, on |-> k]
  BY DEF StartAttempt
<1>2. /\ UNCHANGED <<call, socket, rounds, connecting, hooked, disposed, service, reply>>
      /\ attempt.tries < MaxAttempts
  BY DEF StartAttempt
<1>3. [state |-> "connecting", heard |-> TRUE] \in SocketRecords
  BY DEF SocketRecords
<1>4. /\ sockets' \in [Sockets -> SocketRecords]
      /\ sockets'[k].state = "connecting" /\ sockets'[k].heard
      /\ \A j \in Sockets : j # k => sockets'[j] = sockets[j]
  BY <1>1, <1>3 DEF ClientInv, WellTyped
<1>5. attempt.tries + 1 \in 0 .. MaxAttempts
  <2>1. attempt.tries \in 0 .. MaxAttempts /\ MaxAttempts \in Nat
    BY ClientAssumption DEF ClientInv, WellTyped
  <2> QED BY <1>2, <2>1
<1>6. WellTyped'
  BY <1>1, <1>2, <1>4, <1>5 DEF ClientInv, WellTyped
<1>7. \A r \in Requests : call[r].on # 0 => call[r].on \in Sockets \ {k}
  BY <1>1 DEF ClientInv, WellTyped, CallRecords, Opening
<1>8. socket # 0 => socket \in Sockets \ {k}
  BY <1>1 DEF ClientInv, WellTyped, Opening
<1>9. SentIsHeard' /\ Opening'
  BY <1>1, <1>2, <1>4, <1>7, <1>8 DEF ClientInv, SentIsHeard, Opening
<1>10. RetrySafe' /\ Closed' /\ Untouched' /\ Awaited'
  BY <1>2 DEF ClientInv, RetrySafe, Closed, Untouched, Awaited, CancelOf, Moves
<1> QED BY <1>6, <1>9, <1>10 DEF ClientInv

LEMMA OpenedKeeps ==
    ASSUME ClientInv, NEW p \in Rounds, Opened(p)
    PROVE  ClientInv'
<1> DEFINE k == attempt.on
<1>1. k \in Sockets /\ sockets[k] \in SocketRecords
  BY DEF ClientInv, WellTyped, Opened
<1>2. /\ sockets' = [sockets EXCEPT ![k] = [sockets[k] EXCEPT !.state = "open"]]
      /\ socket' = k /\ attempt' = [attempt EXCEPT !.on = 0]
      /\ rounds' = [rounds EXCEPT ![p] = "opened"]
      /\ UNCHANGED <<call, connecting, hooked, disposed, service, reply>>
      /\ k # 0 /\ ~disposed /\ sockets[k].heard
  BY DEF Opened, ClientInv, Opening
<1>3. [sockets[k] EXCEPT !.state = "open"] \in SocketRecords
  BY <1>1 DEF SocketRecords
<1>4. /\ sockets' \in [Sockets -> SocketRecords]
      /\ sockets'[k].state = "open" /\ sockets'[k].heard
      /\ \A j \in Sockets : j # k => sockets'[j] = sockets[j]
  BY <1>1, <1>2, <1>3 DEF ClientInv, WellTyped, SocketRecords
<1>5. /\ attempt' \in [tries : 0 .. MaxAttempts, on : {0} \cup Sockets]
      /\ attempt'.on = 0
  BY <1>2 DEF ClientInv, WellTyped
<1>6. \A r \in Requests : call[r].on \in {0} \cup Sockets
  BY DEF ClientInv, WellTyped, CallRecords
<1> HIDE DEF k
<1>7. WellTyped'
  BY <1>1, <1>2, <1>4, <1>5 DEF ClientInv, WellTyped
<1>8. SentIsHeard' /\ Opening'
  BY <1>2, <1>4, <1>5, <1>6 DEF ClientInv, SentIsHeard, Opening
<1>9. RetrySafe' /\ Closed' /\ Untouched' /\ Awaited'
  BY <1>2 DEF ClientInv, RetrySafe, Closed, Untouched, Awaited, CancelOf, Moves
<1> QED BY <1>7, <1>8, <1>9 DEF ClientInv

LEMMA OpenFailsKeeps ==
    ASSUME ClientInv, NEW p \in Rounds, OpenFails(p)
    PROVE  ClientInv'
<1> DEFINE k == attempt.on
<1>1. /\ k \in Sockets
      /\ sockets' = [sockets EXCEPT ![k] = [state |-> "closed", heard |-> FALSE]]
      /\ attempt' = [attempt EXCEPT !.on = 0]
      /\ UNCHANGED <<call, socket, rounds, connecting, hooked, disposed, service, reply>>
  BY DEF ClientInv, WellTyped, OpenFails
<1>2. [state |-> "closed", heard |-> FALSE] \in SocketRecords
  BY DEF SocketRecords
<1>3. /\ sockets' \in [Sockets -> SocketRecords]
      /\ sockets'[k].state = "closed"
      /\ \A j \in Sockets : j # k => sockets'[j] = sockets[j]
  BY <1>1, <1>2 DEF ClientInv, WellTyped
<1>4. /\ attempt' \in [tries : 0 .. MaxAttempts, on : {0} \cup Sockets]
      /\ attempt'.on = 0
  BY <1>1 DEF ClientInv, WellTyped
<1>5. disposed \/ sockets[k].state = "connecting"
  BY <1>1, Positive DEF ClientInv, Opening
<1>6. \A r \in Requests :
         /\ call[r].on \in {0} \cup Sockets
         /\ call[r].state = "pending" => call[r].on # k
  BY <1>1, <1>5, Positive DEF ClientInv, WellTyped, CallRecords, Closed, Opening
<1>7. socket \in {0} \cup Sockets /\ (socket # 0 => socket # k)
  BY <1>5 DEF ClientInv, WellTyped, Closed, Opening
<1> HIDE DEF k
<1>8. WellTyped'
  BY <1>1, <1>3, <1>4 DEF ClientInv, WellTyped
<1>9. SentIsHeard' /\ Opening'
  BY <1>1, <1>3, <1>4, <1>6, <1>7 DEF ClientInv, SentIsHeard, Opening
<1>10. RetrySafe' /\ Closed' /\ Untouched' /\ Awaited'
  BY <1>1 DEF ClientInv, RetrySafe, Closed, Untouched, Awaited, CancelOf, Moves
<1> QED BY <1>8, <1>9, <1>10 DEF ClientInv

LEMMA LosingReplies ==
    ASSUME WellTyped, NEW k, LoseReplies(k)
    PROVE  reply' \in [Requests -> {"none", "done", "refused", "rejected"}]
BY DEF WellTyped, LoseReplies

LEMMA RemoteClosesKeeps ==
    ASSUME ClientInv, NEW k \in Sockets, RemoteCloses(k)
    PROVE  ClientInv'
<1>1. /\ sockets[k].state = "open" /\ sockets[k] \in SocketRecords
      /\ sockets' = [sockets EXCEPT ![k] = [sockets[k] EXCEPT !.state = "closing"]]
      /\ UNCHANGED <<call, socket, rounds, connecting, attempt, hooked, disposed, service>>
  BY DEF ClientInv, WellTyped, RemoteCloses, client
<1>2. [sockets[k] EXCEPT !.state = "closing"] \in SocketRecords
  BY <1>1 DEF SocketRecords
<1>3. /\ sockets' \in [Sockets -> SocketRecords]
      /\ sockets'[k].state = "closing" /\ sockets'[k].heard = sockets[k].heard
      /\ \A j \in Sockets : j # k => sockets'[j] = sockets[j]
  BY <1>1, <1>2 DEF ClientInv, WellTyped, SocketRecords
<1>4. \A r \in Requests : call[r].on \in {0} \cup Sockets
  BY DEF ClientInv, WellTyped, CallRecords
<1>5. socket \in {0} \cup Sockets /\ attempt.on \in {0} \cup Sockets
  BY DEF ClientInv, WellTyped
<1>6. WellTyped'
  BY <1>1, <1>3, LosingReplies DEF ClientInv, WellTyped, RemoteCloses
<1>7. SentIsHeard' /\ Opening'
  BY <1>1, <1>3, <1>4, <1>5 DEF ClientInv, SentIsHeard, Opening
<1>8. RetrySafe' /\ Closed' /\ Untouched' /\ Awaited'
  BY <1>1 DEF ClientInv, RetrySafe, Closed, Untouched, Awaited, CancelOf, Moves
<1> QED BY <1>6, <1>7, <1>8 DEF ClientInv

\* With every request rejected there is nothing to hear; what is left to show
\* is about the sockets.
LEMMA AllRejectedKeeps ==
    ASSUME ClientInv, call' = Rejected(call, Requests),
           sockets' \in [Sockets -> SocketRecords],
           socket' \in {0, socket},
           disposed' \in BOOLEAN, disposed' => socket' = 0,
           UNCHANGED <<rounds, connecting, attempt, hooked, service>>,
           reply' \in [Requests -> {"none", "done", "refused", "rejected"}],
           \A j \in Sockets : sockets[j].state \in {"open", "closing", "closed"} =>
               sockets'[j].state \in {"open", "closing", "closed"},
           socket' # 0 => sockets'[socket] = sockets[socket],
           attempt.on # 0 => disposed' \/ sockets'[attempt.on] = sockets[attempt.on],
           disposed => disposed'
    PROVE  ClientInv'
<1>1. /\ call' \in [Requests -> CallRecords]
      /\ RetrySafe' /\ Untouched'
      /\ \A r \in Requests :
            /\ call'[r].on = call[r].on
            /\ call'[r].waits = call[r].waits
            /\ call'[r].state # "pending"
  BY Rejection
<1>2. WellTyped'
  BY <1>1 DEF ClientInv, WellTyped
<1>3. SentIsHeard' /\ Closed' /\ Awaited'
  BY <1>1 DEF ClientInv, SentIsHeard, Closed, Awaited
<1>4. \A r \in Requests : call[r].on \in {0} \cup Sockets
  BY DEF ClientInv, WellTyped, CallRecords
<1>5. Opening'
  <2>1. \A r \in Requests :
           call'[r].on # 0 => sockets'[call'[r].on].state \in {"open", "closing", "closed"}
    BY <1>1, <1>4 DEF ClientInv, Opening
  <2>2. socket' # 0 => /\ sockets'[socket'].heard
                       /\ sockets'[socket'].state \in {"open", "closing"}
    BY DEF ClientInv, Opening
  <2>3. attempt'.on # 0 =>
           \/ disposed'
           \/ sockets'[attempt'.on].state = "connecting" /\ sockets'[attempt'.on].heard
    BY DEF ClientInv, Opening
  <2> QED BY <2>1, <2>2, <2>3 DEF Opening
<1> QED BY <1>1, <1>2, <1>3, <1>5 DEF ClientInv

LEMMA DropKeeps ==
    ASSUME ClientInv, NEW k \in Sockets, Drop(k)
    PROVE  ClientInv'
<1>1. /\ sockets[k].state \in {"open", "closing"}
      /\ sockets' = [sockets EXCEPT ![k] = [state |-> "closed", heard |-> FALSE]]
      /\ UNCHANGED <<rounds, connecting, attempt, hooked, disposed, service>>
  BY DEF Drop
<1>2. reply' \in [Requests -> {"none", "done", "refused", "rejected"}]
  BY LosingReplies DEF ClientInv, Drop
<1>3. [state |-> "closed", heard |-> FALSE] \in SocketRecords
  BY DEF SocketRecords
<1>4. /\ sockets' \in [Sockets -> SocketRecords]
      /\ sockets'[k].state = "closed"
      /\ \A j \in Sockets : j # k => sockets'[j] = sockets[j]
  BY <1>1, <1>3 DEF ClientInv, WellTyped
<1>5. socket \in {0} \cup Sockets /\ attempt.on \in {0} \cup Sockets
      /\ disposed \in BOOLEAN
  BY DEF ClientInv, WellTyped
<1>6. attempt.on # 0 => disposed \/ sockets'[attempt.on] = sockets[attempt.on]
  BY <1>1, <1>4, <1>5 DEF ClientInv, Opening
<1>7. CASE sockets[k].heard
  <2>1. /\ call' = Rejected(call, Requests)
        /\ socket' = IF socket = k THEN 0 ELSE socket
    BY <1>7 DEF Drop
  <2>2. disposed => socket' = 0
    BY <2>1 DEF ClientInv, Closed
  <2>3. socket' # 0 => sockets'[socket] = sockets[socket]
    BY <1>4, <1>5, <2>1
  <2> QED BY <1>1, <1>2, <1>4, <1>5, <1>6, <2>1, <2>2, <2>3, AllRejectedKeeps
<1>8. CASE ~sockets[k].heard
  <2>1. UNCHANGED <<call, socket>>
    BY <1>8 DEF Drop
  <2>2. socket # 0 => socket # k
    BY <1>8 DEF ClientInv, Opening
  <2>3. \A r \in Requests :
           /\ call[r].on \in {0} \cup Sockets
           /\ call[r].state = "pending" /\ call[r].on # 0 => call[r].on # k
    BY <1>8 DEF ClientInv, WellTyped, CallRecords, SentIsHeard
  <2>4. WellTyped'
    BY <1>1, <1>2, <1>4, <2>1 DEF ClientInv, WellTyped
  <2>5. SentIsHeard' /\ Opening'
    BY <1>1, <1>4, <1>5, <1>6, <2>1, <2>2, <2>3 DEF ClientInv, SentIsHeard, Opening
  <2>6. RetrySafe' /\ Closed' /\ Untouched' /\ Awaited'
    BY <1>1, <2>1 DEF ClientInv, RetrySafe, Closed, Untouched, Awaited, CancelOf, Moves
  <2> QED BY <2>4, <2>5, <2>6 DEF ClientInv
<1> QED BY <1>7, <1>8

LEMMA FailProtocolKeeps ==
    ASSUME ClientInv, NEW k \in Sockets, FailProtocol(k)
    PROVE  ClientInv'
<1>1. /\ sockets' = [j \in Sockets |->
             IF j = socket THEN [state |-> "closing", heard |-> FALSE] ELSE sockets[j]]
      /\ socket' = 0 /\ call' = Rejected(call, Requests)
      /\ UNCHANGED <<rounds, connecting, attempt, hooked, disposed, service, reply>>
  BY DEF FailProtocol
<1>2. [state |-> "closing", heard |-> FALSE] \in SocketRecords
  BY DEF SocketRecords
<1>3. /\ sockets' \in [Sockets -> SocketRecords]
      /\ \A j \in Sockets : j # socket => sockets'[j] = sockets[j]
      /\ \A j \in Sockets : j = socket => sockets'[j].state = "closing"
  BY <1>1, <1>2 DEF ClientInv, WellTyped
<1>4. /\ attempt.on \in {0} \cup Sockets /\ disposed \in BOOLEAN
      /\ reply \in [Requests -> {"none", "done", "refused", "rejected"}]
  BY DEF ClientInv, WellTyped
<1>5. attempt.on # 0 => disposed \/ sockets'[attempt.on] = sockets[attempt.on]
  BY <1>3, <1>4 DEF ClientInv, Opening
<1> QED BY <1>1, <1>3, <1>4, <1>5, AllRejectedKeeps

LEMMA CloseKeeps ==
    ASSUME ClientInv, Close
    PROVE  ClientInv'
<1>1. /\ disposed' = TRUE /\ socket' = 0 /\ call' = Rejected(call, Requests)
      /\ UNCHANGED <<rounds, connecting, attempt, hooked, service, reply>>
      /\ sockets' = [k \in Sockets |->
             IF k = socket THEN [state |-> IF IsOpen(k) THEN "closing"
                                           ELSE sockets[k].state, heard |-> FALSE]
             ELSE IF k = attempt.on THEN [sockets[k] EXCEPT !.state = "closing"]
             ELSE sockets[k]]
  BY DEF Close
<1>2. ASSUME NEW j \in Sockets
      PROVE  /\ sockets'[j] \in SocketRecords
             /\ sockets[j].state \in {"open", "closing", "closed"} =>
                   sockets'[j].state \in {"open", "closing", "closed"}
  <2>1. sockets[j] \in SocketRecords
    BY DEF ClientInv, WellTyped
  <2>2. CASE j = socket
    BY <1>1, <2>1, <2>2 DEF SocketRecords
  <2>3. CASE j # socket /\ j = attempt.on
    BY <1>1, <2>1, <2>3 DEF SocketRecords
  <2>4. CASE j # socket /\ j # attempt.on
    BY <1>1, <2>1, <2>4
  <2> QED BY <2>2, <2>3, <2>4
<1>3. sockets' \in [Sockets -> SocketRecords]
  BY <1>1, <1>2
<1>4. reply \in [Requests -> {"none", "done", "refused", "rejected"}]
  BY DEF ClientInv, WellTyped
<1> QED BY <1>1, <1>2, <1>3, <1>4, AllRejectedKeeps
-----------------------------------------------------------------------------
(***************************************************************************)
(* The service and its messages.                                           *)
(***************************************************************************)
LEMMA ServiceKeeps ==
    ASSUME ClientInv, UNCHANGED <<client, sockets>>,
           service' \in [Requests -> {"none", "done", "refused"}],
           reply' \in [Requests -> {"none", "done", "refused", "rejected"}]
    PROVE  ClientInv'
<1>1. WellTyped'
  BY DEF ClientInv, WellTyped, client
<1>2. SentIsHeard' /\ RetrySafe' /\ Opening' /\ Closed'
  BY DEF ClientInv, SentIsHeard, RetrySafe, Opening, Closed, client, Moves
<1>3. Untouched' /\ Awaited'
  BY DEF ClientInv, Untouched, Awaited, client, CancelOf
<1> QED BY <1>1, <1>2, <1>3 DEF ClientInv

LEMMA ServeKeeps ==
    ASSUME ClientInv, NEW r \in Requests, Serve(r) \/ ServeCancel(r)
    PROVE  ClientInv'
<1>1. service' \in [Requests -> {"none", "done", "refused"}]
  BY DEF ClientInv, WellTyped, Serve, ServeCancel, Answers
<1>2. reply' \in [Requests -> {"none", "done", "refused", "rejected"}]
  BY DEF ClientInv, WellTyped, Serve, ServeCancel, Answers
<1>3. UNCHANGED <<client, sockets>>
  BY DEF Serve, ServeCancel, Answers
<1> QED BY <1>1, <1>2, <1>3, ServiceKeeps

\* An answer settles a pending request, and no answer says that it is safe to
\* ask again.
LEMMA DeliverKeeps ==
    ASSUME ClientInv, NEW r \in Requests, Deliver(r)
    PROVE  ClientInv'
<1>1. /\ reply[r] # "none" /\ reply' = [reply EXCEPT ![r] = "none"]
      /\ UNCHANGED <<sockets, socket, rounds, connecting, attempt, hooked, disposed,
                     service>>
  BY DEF Deliver
<1>2. reply' \in [Requests -> {"none", "done", "refused", "rejected"}]
  BY <1>1 DEF ClientInv, WellTyped
<1>3. CASE call[r].state # "pending"
  <2>1. UNCHANGED call
    BY <1>3 DEF Deliver
  <2>2. service \in [Requests -> {"none", "done", "refused"}]
    BY DEF ClientInv, WellTyped
  <2> QED BY <1>1, <1>2, <2>1, <2>2, ServiceKeeps DEF client
<1>4. CASE call[r].state = "pending"
  <2>1. /\ call \in [Requests -> CallRecords] /\ call[r] \in CallRecords
        /\ reply[r] \in {"none", "done", "refused", "rejected"}
    BY DEF ClientInv, WellTyped
  <2>2. /\ call' \in [Requests -> CallRecords]
        /\ \A q \in Requests : q # r => call'[q] = call[q]
        /\ call'[r].state = "done" /\ call'[r].result # "safe"
        /\ call'[r].on = call[r].on /\ call'[r].waits = call[r].waits
    <3>1. CASE reply[r] = "rejected"
      <4>1. call' = [call EXCEPT ![r] = [call[r] EXCEPT !.state = "done", !.result = "known"]]
        BY <1>4, <3>1 DEF Deliver
      <4>2. [call[r] EXCEPT !.state = "done", !.result = "known"] \in CallRecords
        BY <2>1 DEF CallRecords
      <4> QED BY <2>1, <4>1, <4>2 DEF CallRecords
    <3>2. CASE reply[r] # "rejected"
      <4>1. call' = [call EXCEPT ![r] = [call[r] EXCEPT !.state = "done",
                                 !.result = "completed", !.answer = reply[r]]]
        BY <1>4, <3>2 DEF Deliver
      <4>2. [call[r] EXCEPT !.state = "done", !.result = "completed", !.answer = reply[r]]
                \in CallRecords
        BY <1>1, <2>1, <3>2 DEF CallRecords
      <4> QED BY <2>1, <4>1, <4>2 DEF CallRecords
    <3> QED BY <3>1, <3>2
  <2>3. WellTyped'
    BY <1>1, <1>2, <2>2 DEF ClientInv, WellTyped
  <2>4. SentIsHeard' /\ RetrySafe'
    BY <1>1, <2>2 DEF ClientInv, SentIsHeard, RetrySafe, Moves
  <2>5. Opening' /\ Closed' /\ Awaited'
    BY <1>1, <2>2 DEF ClientInv, Opening, Closed, Awaited
  <2>6. Untouched'
    <3>1. \A q \in Requests : call[q].state = "idle" => call[q].on = 0 /\ call[q].waits = 0
      BY DEF ClientInv, Untouched
    <3> QED BY <1>4, <2>2, <3>1, UntouchedKept
  <2> QED BY <2>3, <2>4, <2>5, <2>6 DEF ClientInv
<1> QED BY <1>3, <1>4
-----------------------------------------------------------------------------
LEMMA ClientStep == ClientInv /\ [Next]_vars => ClientInv'
<1> SUFFICES ASSUME ClientInv, [Next]_vars PROVE ClientInv'
  OBVIOUS
<1>1. CASE \E r \in Requests :
              \/ Execute(r) \/ Unsendable(r) \/ Continue(r) \/ Timeout(r) \/ Abort(r)
              \/ Deliver(r) \/ Mismatch(r)
  BY <1>1, ExecuteKeeps, UnsendableKeeps, ContinueKeeps, TimeoutKeeps, AbortKeeps,
     DeliverKeeps, MismatchKeeps
<1>2. CASE \E p \in Rounds : \/ ClearConnect(p) \/ StartAttempt(p) \/ StopTrying(p)
                             \/ Opened(p) \/ OpenFails(p)
  BY <1>2, ClearConnectKeeps, StartAttemptKeeps, StopTryingKeeps, OpenedKeeps,
     OpenFailsKeeps
<1>3. CASE \E k \in Sockets : RemoteCloses(k) \/ Drop(k) \/ FailProtocol(k)
  BY <1>3, RemoteClosesKeeps, DropKeeps, FailProtocolKeeps
<1>4. CASE Close
  BY <1>4, CloseKeeps
<1>5. CASE ServiceNext
  BY <1>5, ServeKeeps DEF ServiceNext
<1>6. CASE UNCHANGED vars
  <2>1. /\ UNCHANGED <<client, sockets, service, reply>>
        /\ service \in [Requests -> {"none", "done", "refused"}]
        /\ reply \in [Requests -> {"none", "done", "refused", "rejected"}]
    BY <1>6 DEF vars, ClientInv, WellTyped
  <2> QED BY <2>1, ServiceKeeps
<1> QED BY <1>1, <1>2, <1>3, <1>4, <1>5, <1>6 DEF Next

LEMMA SpecClientInv == Spec => []ClientInv
BY InitClient, ClientStep, PTL DEF Spec
-----------------------------------------------------------------------------
(***************************************************************************)
(* The limit on pending requests.                                          *)
(***************************************************************************)
WithinLimit == IsFiniteSet(Pending(call)) /\ Cardinality(Pending(call)) <= MaxPending

LEMMA SettlingWithinLimit ==
    ASSUME WithinLimit,
           \A r \in Requests : call'[r].state = "pending" => call[r].state = "pending"
    PROVE  WithinLimit'
<1>1. Pending(call)' \in SUBSET Pending(call)
  BY DEF Pending
<1>2. /\ IsFiniteSet(Pending(call)')
      /\ Cardinality(Pending(call)') <= Cardinality(Pending(call))
  BY <1>1, FS_Subset DEF WithinLimit
<1>3. /\ Cardinality(Pending(call)') \in Nat /\ Cardinality(Pending(call)) \in Nat
      /\ MaxPending \in Nat
  BY <1>2, FS_CardinalityType, ClientAssumption DEF WithinLimit
<1> QED BY <1>2, <1>3 DEF WithinLimit

\* The guard of execute() counts what is pending before the request is added.
LEMMA IssuingWithinLimit ==
    ASSUME ClientInv, WithinLimit, NEW calls \in [Requests -> CallRecords],
           NEW s \in Requests, Issue(calls, s),
           \A r \in Requests : calls[r].state = "pending" => call[r].state = "pending"
    PROVE  WithinLimit'
<1>1. \A r \in Requests : r # s => call'[r] = calls[r]
  BY IssueFacts DEF ClientInv
<1>2. CASE disposed \/ Cardinality(Pending(calls)) >= MaxPending \/ JoinedRound = {}
  <2>1. call' = [calls EXCEPT ![s] = [calls[s] EXCEPT !.state = "done", !.result = "safe"]]
    BY <1>2 DEF Issue
  <2>2. calls[s] \in CallRecords
    OBVIOUS
  <2>3. call'[s].state = "done"
    BY <2>1, <2>2 DEF CallRecords
  <2> QED BY <1>1, <2>3, SettlingWithinLimit
<1>3. CASE ~(Cardinality(Pending(calls)) >= MaxPending)
  <2>1. Pending(calls) \in SUBSET Pending(call)
    BY DEF Pending
  <2>2. IsFiniteSet(Pending(calls))
    BY <2>1, FS_Subset DEF WithinLimit
  <2> DEFINE more == Pending(calls) \cup {s}
  <2>3. /\ IsFiniteSet(more)
        /\ Cardinality(more) = IF s \in Pending(calls) THEN Cardinality(Pending(calls))
                              ELSE Cardinality(Pending(calls)) + 1
    BY <2>2, FS_AddElement
  <2>4. Pending(call)' \in SUBSET more
    BY <1>1 DEF Pending
  <2> HIDE DEF more
  <2>5. IsFiniteSet(Pending(call)') /\ Cardinality(Pending(call)') <= Cardinality(more)
    BY <2>3, <2>4, FS_Subset
  <2>6. /\ Cardinality(Pending(calls)) \in Nat /\ Cardinality(Pending(call)') \in Nat
        /\ MaxPending \in Nat
    BY <2>2, <2>5, FS_CardinalityType, ClientAssumption
  <2> QED BY <1>3, <2>3, <2>5, <2>6 DEF WithinLimit
<1> QED BY <1>2, <1>3

LEMMA GivingUpWithinLimit ==
    ASSUME ClientInv, WithinLimit, NEW r \in Requests, GiveUpOn(r)
    PROVE  WithinLimit'
<1> DEFINE calls == Rejected(call, {r})
<1>1. call \in [Requests -> CallRecords] /\ CancelOf(r) \in Requests
  BY RequestFacts DEF ClientInv, WellTyped
<1>2. /\ calls \in [Requests -> CallRecords]
      /\ \A q \in Requests : calls[q].state = "pending" => call[q].state = "pending"
  BY <1>1, RejectedFacts
<1>3. call' = calls \/ Issue(calls, CancelOf(r))
  BY DEF GiveUpOn
<1> HIDE DEF calls
<1> QED BY <1>1, <1>2, <1>3, SettlingWithinLimit, IssuingWithinLimit

LEMMA LimitStep == ClientInv /\ WithinLimit /\ [Next]_vars => WithinLimit'
<1> SUFFICES ASSUME ClientInv, WithinLimit, [Next]_vars PROVE WithinLimit'
  OBVIOUS
<1>1. call \in [Requests -> CallRecords]
  BY DEF ClientInv, WellTyped
<1>2. ASSUME NEW r \in Requests, Execute(r) \/ Timeout(r) PROVE WithinLimit'
  BY <1>1, <1>2, IssuingWithinLimit, GivingUpWithinLimit DEF Execute, Timeout
<1>3. ASSUME NEW r \in Requests, Abort(r) PROVE WithinLimit'
  <2>1. CASE call[r].waits = 0
    BY <1>3, <2>1, GivingUpWithinLimit DEF Abort
  <2>2. CASE call[r].waits # 0
    <3> DEFINE calls == Rejected(call, {r})
    <3>1. call' = [calls EXCEPT ![r] = [calls[r] EXCEPT !.waits = 0]]
      BY <1>3, <2>2 DEF Abort
    <3>2. /\ calls \in [Requests -> CallRecords]
          /\ \A q \in Requests : calls[q].state = "pending" => call[q].state = "pending"
      BY <1>1, RejectedFacts
    <3> HIDE DEF calls
    <3>3. calls[r] \in CallRecords
      BY <3>2
    <3>4. \A q \in Requests : call'[q].state = calls[q].state
      BY <3>1, <3>2, <3>3 DEF CallRecords
    <3> QED BY <3>2, <3>4, SettlingWithinLimit
  <2> QED BY <2>1, <2>2
<1>4. ASSUME NEW r \in Requests, Continue(r) PROVE WithinLimit'
  <2> DEFINE free == [call EXCEPT ![r] = [call[r] EXCEPT !.waits = 0, !.ready = FALSE]]
  <2>1. call[r] \in CallRecords
    BY <1>1
  <2>2. [call[r] EXCEPT !.waits = 0, !.ready = FALSE] \in CallRecords
    BY <2>1 DEF CallRecords
  <2>3. /\ free \in [Requests -> CallRecords]
        /\ \A q \in Requests : free[q].state = call[q].state
    BY <1>1, <2>1, <2>2 DEF CallRecords
  <2>4. \/ call' = Rejected(free, {r})
        \/ call' = [free EXCEPT ![r] = [free[r] EXCEPT !.on = socket]]
    BY <1>4 DEF Continue
  <2> HIDE DEF free
  <2>5. CASE call' = Rejected(free, {r})
    BY <2>3, <2>5, RejectedFacts, SettlingWithinLimit
  <2>6. CASE call' = [free EXCEPT ![r] = [free[r] EXCEPT !.on = socket]]
    <3>1. free[r] \in CallRecords
      BY <2>3
    <3>2. \A q \in Requests : call'[q].state = free[q].state
      BY <2>3, <2>6, <3>1 DEF CallRecords
    <3> QED BY <2>3, <3>2, SettlingWithinLimit
  <2> QED BY <2>4, <2>5, <2>6
<1>5. ASSUME NEW r \in Requests, Unsendable(r) \/ Deliver(r) PROVE WithinLimit'
  <2>1. call[r] \in CallRecords
    BY <1>1
  <2>2. \A q \in Requests : call'[q].state \in {call[q].state, "done"}
    BY <1>1, <1>5, <2>1 DEF Unsendable, Deliver, CallRecords
  <2> QED BY <2>2, SettlingWithinLimit
<1>6. ASSUME NEW R, call' = Rejected(call, R) PROVE WithinLimit'
  BY <1>1, <1>6, RejectedFacts, SettlingWithinLimit
<1>7. ASSUME UNCHANGED call PROVE WithinLimit'
  BY <1>7, SettlingWithinLimit
<1>8. CASE \E p \in Rounds : \/ ClearConnect(p) \/ StartAttempt(p) \/ StopTrying(p)
                             \/ Opened(p) \/ OpenFails(p)
  BY <1>7, <1>8 DEF ClearConnect, StartAttempt, StopTrying, Opened, OpenFails
<1>9. CASE \/ \E k \in Sockets : RemoteCloses(k) \/ Drop(k) \/ FailProtocol(k)
           \/ Close \/ \E r \in Requests : Mismatch(r)
  BY <1>6, <1>7, <1>9 DEF RemoteCloses, Drop, FailProtocol, Close, Mismatch, client
<1>10. CASE ServiceNext \/ UNCHANGED vars
  BY <1>7, <1>10 DEF ServiceNext, Serve, ServeCancel, Answers, vars, client
<1> QED BY <1>2, <1>3, <1>4, <1>5, <1>8, <1>9, <1>10 DEF Next

\* Every variable of the client has its type, and no more requests are pending
\* than maxPendingRequests, whatever the owner, the network and the service do.
THEOREM SpecTypeOK == Spec => []TypeOK
<1>1. Init => WithinLimit
  <2> SUFFICES ASSUME Init PROVE WithinLimit
    OBVIOUS
  <2>1. Pending(call) = {}
    BY DEF Init, Pending, NotCalled
  <2>2. MaxPending \in Nat
    BY ClientAssumption
  <2> QED BY <2>1, <2>2, FS_EmptySet DEF WithinLimit
<1>2. ClientInv /\ WithinLimit => TypeOK
  BY DEF ClientInv, WithinLimit, TypeOK
<1> QED BY <1>1, <1>2, LimitStep, SpecClientInv, PTL DEF Spec

\* A command that moves something and is called safe to retry (by a timeout, a
\* disconnection, close or the guard before send) was never sent.
THEOREM SpecRetrySafe == Spec => []RetrySafe
<1>1. ClientInv => RetrySafe
  BY DEF ClientInv
<1> QED BY <1>1, SpecClientInv, PTL

\* A command that was sent and is not settled was sent on a socket whose loss
\* the client will hear of.
THEOREM SpecSentIsHeard == Spec => []SentIsHeard
<1>1. ClientInv => SentIsHeard
  BY DEF ClientInv
<1> QED BY <1>1, SpecClientInv, PTL

\* A connect promise that is over is going to be cleared, by a callback of its
\* own or by a request that waits for it: no reconnection is blocked by it.
THEOREM SpecConnectNeverStuck == Spec => []ConnectNeverStuck
<1>1. ClientInv => ConnectNeverStuck
  BY DEF ClientInv, Awaited, ConnectNeverStuck
<1> QED BY <1>1, SpecClientInv, PTL
-----------------------------------------------------------------------------
(***************************************************************************)
(* A state-changing command implements CashDevice.                         *)
(***************************************************************************)
CashRequest(r) ==
    INSTANCE CashDevice WITH request <- RequestState(r), told <- ToldState(r)

\* How a request ended is true of what the service did with it.
Records ==
    \A r \in Requests :
        /\ call[r].state = "done" <=> call[r].result # "none"
        /\ call[r].result = "completed" =>
              call[r].answer # "none" /\ call[r].answer = service[r]
        /\ call[r].result # "completed" => call[r].answer = "none"
        /\ call[r].result = "known" => service[r] = "refused"
        /\ call[r].result = "indeterminate" => call[r].on # 0

\* The service acts on what was sent only, and answers what it did.
Effects ==
    \A r \in Requests :
        /\ service[r] # "none" => call[r].on # 0
        /\ reply[r] = "done" => service[r] = "done"
        /\ reply[r] \in {"refused", "rejected"} => service[r] = "refused"

\* Only a command that was sent is cancelled.
CancelsSent ==
    \A r \in Requests :
        r[2] = "command" /\ call[CancelOf(r)].state # "idle" => call[r].on # 0

RequestInv == ClientInv /\ Records /\ Effects /\ CancelsSent

\* What a step is for one request: it is left alone, made, sent, settled
\* without an answer, acted on by the service, or answered.
SameCall(r) ==
    /\ call'[r].state = call[r].state /\ call'[r].result = call[r].result
    /\ call'[r].answer = call[r].answer /\ call'[r].on = call[r].on

MayMake(r) ==
    call[r].state = "idle" =>
        \/ r[2] = "command"
        \/ \E q \in Requests : q[2] = "command" /\ r = CancelOf(q) /\ call[q].on # 0

Left(r) ==
    /\ SameCall(r)
    /\ service'[r] = service[r] /\ reply'[r] \in {"none", reply[r]}

Made(r) ==
    /\ call[r].state = "idle" /\ call'[r].state = "pending" /\ MayMake(r)
    /\ call'[r].result = call[r].result /\ call'[r].answer = call[r].answer
    /\ call'[r].on = call[r].on
    /\ service'[r] = service[r] /\ reply'[r] = reply[r]

SentOn(r) ==
    /\ call[r].state = "pending" /\ call'[r].state = "pending" /\ call'[r].on # 0
    /\ call'[r].result = call[r].result /\ call'[r].answer = call[r].answer
    /\ service'[r] = service[r] /\ reply'[r] = reply[r]

Settled(r) ==
    /\ call[r].state # "done" /\ call'[r].state = "done" /\ MayMake(r)
    /\ call'[r].result \in {"safe", "indeterminate"}
    /\ call'[r].result = "indeterminate" => call[r].on # 0
    /\ call'[r].answer = call[r].answer /\ call'[r].on = call[r].on
    /\ service'[r] = service[r] /\ reply'[r] \in {"none", reply[r]}

ActedOn(r) ==
    /\ SameCall(r) /\ call[r].on # 0
    /\ service[r] = "none" /\ service'[r] \in {"done", "refused"}
    /\ \/ reply'[r] \in {"none", reply[r], service'[r]}
       \/ reply'[r] = "rejected" /\ service'[r] = "refused"

Answered(r) ==
    /\ call[r].state = "pending" /\ call'[r].state = "done"
    /\ reply[r] # "none" /\ reply'[r] = "none"
    /\ call'[r].on = call[r].on /\ service'[r] = service[r]
    /\ \/ reply[r] = "rejected" /\ call'[r].result = "known"
          /\ call'[r].answer = call[r].answer
       \/ reply[r] # "rejected" /\ call'[r].result = "completed"
          /\ call'[r].answer = reply[r]

Shape(r) ==
    Left(r) \/ Made(r) \/ SentOn(r) \/ Settled(r) \/ ActedOn(r) \/ Answered(r)

\* Rejecting settles the pending requests among R, and leaves the others alone.
LEMMA RejectedShape ==
    ASSUME NEW calls \in [Requests -> CallRecords], NEW R, NEW r \in Requests
    PROVE  /\ Rejected(calls, R)[r].answer = calls[r].answer
           /\ Rejected(calls, R)[r].on = calls[r].on
           /\ IF r \in R /\ calls[r].state = "pending"
              THEN /\ Rejected(calls, R)[r].state = "done"
                   /\ Rejected(calls, R)[r].result \in {"safe", "indeterminate"}
                   /\ Rejected(calls, R)[r].result = "indeterminate" => calls[r].on # 0
              ELSE Rejected(calls, R)[r] = calls[r]
<1>1. calls[r] \in CallRecords
  OBVIOUS
<1>2. /\ Failure(calls[r], r) \in {"indeterminate", "safe"}
      /\ Failure(calls[r], r) = "indeterminate" => calls[r].on # 0
  BY DEF Failure
<1>3. CASE r \in R /\ calls[r].state = "pending"
  <2>1. Rejected(calls, R)[r] =
            [calls[r] EXCEPT !.state = "done", !.result = Failure(calls[r], r)]
    BY <1>3 DEF Rejected
  <2> QED BY <1>1, <1>2, <1>3, <2>1 DEF CallRecords
<1>4. CASE ~(r \in R /\ calls[r].state = "pending")
  BY <1>4 DEF Rejected
<1> QED BY <1>3, <1>4

\* A request that is issued is pending, or settled at once and safe.
LEMMA IssueShape ==
    ASSUME NEW calls \in [Requests -> CallRecords], NEW s \in Requests, Issue(calls, s)
    PROVE  /\ \A r \in Requests : r # s => call'[r] = calls[r]
           /\ call'[s].on = calls[s].on /\ call'[s].answer = calls[s].answer
           /\ \/ call'[s].state = "done" /\ call'[s].result = "safe"
              \/ call'[s].state = "pending" /\ call'[s].result = calls[s].result
<1>1. calls[s] \in CallRecords
  OBVIOUS
<1>2. CASE disposed \/ Cardinality(Pending(calls)) >= MaxPending \/ JoinedRound = {}
  <2>1. call' = [calls EXCEPT ![s] = [calls[s] EXCEPT !.state = "done", !.result = "safe"]]
    BY <1>2 DEF Issue
  <2> QED BY <1>1, <2>1 DEF CallRecords
<1>3. CASE ~(disposed \/ Cardinality(Pending(calls)) >= MaxPending \/ JoinedRound = {})
  <2>1. PICK p \in JoinedRound :
            call' = [calls EXCEPT ![s] = [calls[s] EXCEPT !.state = "pending",
                                               !.waits = p, !.ready = (p = 0)]]
    BY <1>3 DEF Issue
  <2> QED BY <1>1, <2>1 DEF CallRecords
<1> QED BY <1>2, <1>3

LEMMA RejectingShape ==
    ASSUME ClientInv, NEW R, call' = Rejected(call, R),
           service' = service, \A q \in Requests : reply'[q] \in {"none", reply[q]},
           NEW r \in Requests
    PROVE  Shape(r)
<1>1. call \in [Requests -> CallRecords]
  BY DEF ClientInv, WellTyped
<1>2. CASE r \in R /\ call[r].state = "pending"
  BY <1>1, <1>2, RejectedShape DEF Shape, Settled, MayMake
<1>3. CASE ~(r \in R /\ call[r].state = "pending")
  BY <1>1, <1>3, RejectedShape DEF Shape, Left, SameCall
<1> QED BY <1>2, <1>3

LEMMA GivingUpShape ==
    ASSUME ClientInv, NEW s \in Requests, call[s].state = "pending", GiveUpOn(s),
           UNCHANGED <<service, reply>>, NEW r \in Requests
    PROVE  Shape(r)
<1>1. call \in [Requests -> CallRecords]
  BY DEF ClientInv, WellTyped
<1>2. CASE ~(call[s].on # 0 /\ s[2] = "command")
  BY <1>2, RejectingShape DEF GiveUpOn
<1>3. CASE call[s].on # 0 /\ s[2] = "command"
  <2> DEFINE calls == Rejected(call, {s})
  <2>1. /\ Issue(calls, CancelOf(s)) /\ CancelOf(s) \in Requests /\ CancelOf(s) # s
        /\ call[CancelOf(s)].state = "idle"
    BY <1>3, RequestFacts DEF GiveUpOn, ClientInv, Untouched
  <2>2. /\ calls \in [Requests -> CallRecords] /\ calls[CancelOf(s)] = call[CancelOf(s)]
        /\ calls[s].state = "done" /\ calls[s].result \in {"safe", "indeterminate"}
        /\ calls[s].result = "indeterminate" => call[s].on # 0
        /\ calls[s].answer = call[s].answer /\ calls[s].on = call[s].on
        /\ \A q \in Requests : q # s => calls[q] = call[q]
    BY <1>1, <2>1, RejectedShape, RejectedFacts
  <2> HIDE DEF calls
  <2>3. MayMake(CancelOf(s)) /\ MayMake(s)
    BY <1>3 DEF MayMake
  <2>4. CASE r = CancelOf(s)
    BY <2>1, <2>2, <2>3, <2>4, IssueShape DEF Shape, Made, Settled
  <2>5. CASE r = s
    BY <2>1, <2>2, <2>3, <2>5, IssueShape DEF Shape, Settled
  <2>6. CASE r # CancelOf(s) /\ r # s
    BY <2>1, <2>2, <2>6, IssueShape DEF Shape, Left, SameCall
  <2> QED BY <2>4, <2>5, <2>6
<1> QED BY <1>2, <1>3

LEMMA ContinueShape ==
    ASSUME ClientInv, NEW s \in Requests, Continue(s), NEW r \in Requests
    PROVE  Shape(r)
<1> DEFINE free == [call EXCEPT ![s] = [call[s] EXCEPT !.waits = 0, !.ready = FALSE]]
<1>1. call \in [Requests -> CallRecords] /\ call[s] \in CallRecords
  BY DEF ClientInv, WellTyped
<1>2. [call[s] EXCEPT !.waits = 0, !.ready = FALSE] \in CallRecords
  BY <1>1 DEF CallRecords
<1>3. /\ free \in [Requests -> CallRecords]
      /\ \A q \in Requests : q # s => free[q] = call[q]
      /\ free[s].state = call[s].state /\ free[s].result = call[s].result
      /\ free[s].answer = call[s].answer /\ free[s].on = call[s].on
  BY <1>1, <1>2 DEF CallRecords
<1>4. /\ UNCHANGED <<service, reply>>
      /\ \/ call' = Rejected(free, {s})
         \/ /\ call[s].state = "pending" /\ IsOpen(socket)
            /\ call' = [free EXCEPT ![s] = [free[s] EXCEPT !.on = socket]]
  BY DEF Continue
<1> HIDE DEF free
<1>5. CASE call' = Rejected(free, {s})
  <2>1. CASE r = s /\ call[s].state = "pending"
    BY <1>3, <1>4, <1>5, <2>1, RejectedShape DEF Shape, Settled, MayMake
  <2>2. CASE ~(r = s /\ call[s].state = "pending")
    <3>1. call'[r] = free[r]
      BY <1>3, <1>5, <2>2, RejectedShape
    <3> QED BY <1>3, <1>4, <3>1 DEF Shape, Left, SameCall
  <2> QED BY <2>1, <2>2
<1>6. CASE /\ call[s].state = "pending" /\ IsOpen(socket)
           /\ call' = [free EXCEPT ![s] = [free[s] EXCEPT !.on = socket]]
  <2>1. free[s] \in CallRecords /\ socket # 0
    BY <1>3, <1>6 DEF IsOpen
  <2>2. CASE r = s
    BY <1>3, <1>4, <1>6, <2>1, <2>2 DEF Shape, SentOn, CallRecords
  <2>3. CASE r # s
    BY <1>3, <1>4, <1>6, <2>3 DEF Shape, Left, SameCall
  <2> QED BY <2>2, <2>3
<1> QED BY <1>4, <1>5, <1>6

LEMMA AbortShape ==
    ASSUME ClientInv, NEW s \in Requests, Abort(s), NEW r \in Requests
    PROVE  Shape(r)
<1>1. CASE call[s].waits = 0
  BY <1>1, GivingUpShape DEF Abort
<1>2. CASE call[s].waits # 0
  <2> DEFINE calls == Rejected(call, {s})
  <2>1. /\ call[s].state = "pending" /\ UNCHANGED <<service, reply>>
        /\ call' = [calls EXCEPT ![s] = [calls[s] EXCEPT !.waits = 0]]
    BY <1>2 DEF Abort
  <2>2. call \in [Requests -> CallRecords]
    BY DEF ClientInv, WellTyped
  <2>3. /\ calls \in [Requests -> CallRecords] /\ calls[s] \in CallRecords
        /\ calls[s].state = "done" /\ calls[s].result \in {"safe", "indeterminate"}
        /\ calls[s].result = "indeterminate" => call[s].on # 0
        /\ calls[s].answer = call[s].answer /\ calls[s].on = call[s].on
        /\ \A q \in Requests : q # s => calls[q] = call[q]
    BY <2>1, <2>2, RejectedShape, RejectedFacts
  <2> HIDE DEF calls
  <2>4. CASE r = s
    BY <2>1, <2>3, <2>4 DEF Shape, Settled, MayMake, CallRecords
  <2>5. CASE r # s
    BY <2>1, <2>3, <2>5 DEF Shape, Left, SameCall
  <2> QED BY <2>4, <2>5
<1> QED BY <1>1, <1>2

LEMMA ExecuteShape ==
    ASSUME ClientInv, NEW s \in Requests, Execute(s) \/ Unsendable(s), NEW r \in Requests
    PROVE  Shape(r)
<1>1. /\ call \in [Requests -> CallRecords] /\ call[s] \in CallRecords
      /\ MayMake(s) /\ call[s].state = "idle" /\ UNCHANGED <<service, reply>>
  BY DEF ClientInv, WellTyped, Execute, Unsendable, MayMake
<1>2. /\ \A q \in Requests : q # s => call'[q] = call[q]
      /\ call'[s].on = call[s].on /\ call'[s].answer = call[s].answer
      /\ \/ call'[s].state = "done" /\ call'[s].result = "safe"
         \/ call'[s].state = "pending" /\ call'[s].result = call[s].result
  <2>1. CASE Execute(s)
    BY <1>1, <2>1, IssueShape DEF Execute
  <2>2. CASE Unsendable(s)
    <3>1. call' = [call EXCEPT ![s] = [call[s] EXCEPT !.state = "done", !.result = "safe"]]
      BY <2>2 DEF Unsendable
    <3> QED BY <1>1, <3>1 DEF CallRecords
  <2> QED BY <2>1, <2>2
<1> QED BY <1>1, <1>2 DEF Shape, Left, SameCall, Made, Settled

LEMMA DeliverShape ==
    ASSUME ClientInv, NEW s \in Requests, Deliver(s), NEW r \in Requests
    PROVE  Shape(r)
<1>1. /\ call \in [Requests -> CallRecords] /\ call[s] \in CallRecords
      /\ reply \in [Requests -> {"none", "done", "refused", "rejected"}]
      /\ reply[s] # "none" /\ reply' = [reply EXCEPT ![s] = "none"]
      /\ service' = service
  BY DEF ClientInv, WellTyped, Deliver
<1>2. CASE r # s \/ call[s].state # "pending"
  <2>1. call'[r] = call[r]
    BY <1>1, <1>2 DEF Deliver
  <2> QED BY <1>1, <2>1 DEF Shape, Left, SameCall
<1>3. CASE r = s /\ call[s].state = "pending" /\ reply[s] = "rejected"
  <2>1. call' = [call EXCEPT ![s] = [call[s] EXCEPT !.state = "done", !.result = "known"]]
    BY <1>3 DEF Deliver
  <2> QED BY <1>1, <1>3, <2>1 DEF Shape, Answered, CallRecords
<1>4. CASE r = s /\ call[s].state = "pending" /\ reply[s] # "rejected"
  <2>1. call' = [call EXCEPT ![s] = [call[s] EXCEPT !.state = "done",
                             !.result = "completed", !.answer = reply[s]]]
    BY <1>4 DEF Deliver
  <2> QED BY <1>1, <1>4, <2>1 DEF Shape, Answered, CallRecords
<1> QED BY <1>2, <1>3, <1>4

\* What obeys a cancellation is a service the command was sent to.
LEMMA ServiceShape ==
    ASSUME ClientInv, CancelsSent, NEW s \in Requests, Serve(s) \/ ServeCancel(s),
           NEW r \in Requests
    PROVE  Shape(r)
<1>1. /\ call' = call
      /\ service \in [Requests -> {"none", "done", "refused"}]
      /\ reply \in [Requests -> {"none", "done", "refused", "rejected"}]
  BY DEF ClientInv, WellTyped, Serve, ServeCancel, Answers, client
<1>2. CASE Serve(s)
  BY <1>1, <1>2 DEF Serve, Answers, Shape, Left, SameCall, ActedOn
<1>3. CASE ServeCancel(s)
  <2>1. /\ s[2] = "cancel" /\ call[s].on # 0 /\ service[s] = "none"
        /\ service[CommandOf(s)] = "none"
        /\ service' = [service EXCEPT ![s] = "done", ![CommandOf(s)] = "refused"]
        /\ reply'[s] \in {"done", "none"}
        /\ \A q \in Requests : q # s => reply'[q] = reply[q]
    BY <1>1, <1>3 DEF ServeCancel
  <2>2. /\ CommandOf(s) \in Requests /\ CommandOf(s)[2] = "command"
        /\ CancelOf(CommandOf(s)) = s /\ CommandOf(s) # s
    BY <2>1 DEF CommandOf, CancelOf, Requests
  <2>3. call[CommandOf(s)].on # 0
    BY <2>1, <2>2 DEF ClientInv, Untouched, CancelsSent
  <2>4. CASE r = s
    BY <1>1, <2>1, <2>2, <2>4 DEF Shape, ActedOn, SameCall
  <2>5. CASE r = CommandOf(s)
    BY <1>1, <2>1, <2>2, <2>3, <2>5 DEF Shape, ActedOn, SameCall
  <2>6. CASE r # s /\ r # CommandOf(s)
    BY <1>1, <2>1, <2>2, <2>6 DEF Shape, Left, SameCall
  <2> QED BY <2>4, <2>5, <2>6
<1> QED BY <1>2, <1>3

LEMMA StepShape ==
    ASSUME ClientInv, CancelsSent, [Next]_vars, NEW r \in Requests
    PROVE  Shape(r)
<1>1. CASE \E s \in Requests : Execute(s) \/ Unsendable(s) \/ Continue(s) \/ Deliver(s)
  BY <1>1, ExecuteShape, ContinueShape, DeliverShape
<1>2. CASE \E s \in Requests : Timeout(s) \/ Abort(s)
  BY <1>2, GivingUpShape, AbortShape DEF Timeout
<1>3. CASE \/ \E s \in Requests : Mismatch(s)
           \/ \E k \in Sockets : FailProtocol(k)
           \/ Close
  BY <1>3, RejectingShape DEF Mismatch, FailProtocol, Close
<1>4. CASE ServiceNext
  BY <1>4, ServiceShape DEF ServiceNext
<1>5. CASE \E k \in Sockets : RemoteCloses(k) \/ Drop(k)
  <2>1. service' = service /\ \A q \in Requests : reply'[q] \in {"none", reply[q]}
    BY <1>5 DEF RemoteCloses, Drop, LoseReplies
  <2>2. call' = call \/ call' = Rejected(call, Requests)
    BY <1>5 DEF RemoteCloses, Drop, client
  <2>3. CASE call' = call
    BY <2>1, <2>3 DEF Shape, Left, SameCall
  <2>4. CASE call' = Rejected(call, Requests)
    BY <2>1, <2>4, RejectingShape
  <2> QED BY <2>2, <2>3, <2>4
<1>6. CASE \/ UNCHANGED vars
           \/ \E p \in Rounds : \/ ClearConnect(p) \/ StartAttempt(p) \/ StopTrying(p)
                                \/ Opened(p) \/ OpenFails(p)
  <2>1. call' = call /\ service' = service /\ reply' = reply
    BY <1>6 DEF vars, client, ClearConnect, StartAttempt, StopTrying, Opened, OpenFails
  <2> QED BY <2>1 DEF Shape, Left, SameCall
<1> QED BY <1>1, <1>2, <1>3, <1>4, <1>5, <1>6 DEF Next

-----------------------------------------------------------------------------
LEMMA RequestStep == RequestInv /\ [Next]_vars => RequestInv'
<1> SUFFICES ASSUME RequestInv, [Next]_vars PROVE RequestInv'
  OBVIOUS
<1>1. ClientInv /\ Records /\ Effects /\ CancelsSent /\ ClientInv'
  BY ClientStep DEF RequestInv
<1>2. /\ \A r \in Requests : Shape(r)
      /\ service \in [Requests -> {"none", "done", "refused"}]
      /\ reply \in [Requests -> {"none", "done", "refused", "rejected"}]
      /\ call \in [Requests -> CallRecords]
  BY <1>1, StepShape DEF ClientInv, WellTyped
<1>3. \A r \in Requests : call[r].on # 0 => call'[r].on # 0
  BY <1>2 DEF Shape, Left, SameCall, Made, SentOn, Settled, ActedOn, Answered
<1>4. Records' /\ Effects'
  <2> SUFFICES ASSUME NEW r \in Requests
               PROVE  /\ call'[r].state = "done" <=> call'[r].result # "none"
                      /\ call'[r].result = "completed" =>
                            call'[r].answer # "none" /\ call'[r].answer = service'[r]
                      /\ call'[r].result # "completed" => call'[r].answer = "none"
                      /\ call'[r].result = "known" => service'[r] = "refused"
                      /\ call'[r].result = "indeterminate" => call'[r].on # 0
                      /\ service'[r] # "none" => call'[r].on # 0
                      /\ reply'[r] = "done" => service'[r] = "done"
                      /\ reply'[r] \in {"refused", "rejected"} => service'[r] = "refused"
    BY DEF Records, Effects
  <2>1. /\ call[r].state = "done" <=> call[r].result # "none"
        /\ call[r].result = "completed" =>
              call[r].answer # "none" /\ call[r].answer = service[r]
        /\ call[r].result # "completed" => call[r].answer = "none"
        /\ call[r].result = "known" => service[r] = "refused"
        /\ call[r].result = "indeterminate" => call[r].on # 0
        /\ service[r] # "none" => call[r].on # 0
        /\ reply[r] = "done" => service[r] = "done"
        /\ reply[r] \in {"refused", "rejected"} => service[r] = "refused"
        /\ reply[r] \in {"none", "done", "refused", "rejected"}
        /\ service[r] \in {"none", "done", "refused"}
    BY <1>1, <1>2 DEF Records, Effects
  <2>2. CASE Left(r)
    BY <2>1, <2>2 DEF Left, SameCall
  <2>3. CASE Made(r) \/ SentOn(r)
    BY <2>1, <2>3 DEF Made, SentOn
  <2>4. CASE Settled(r)
    BY <2>1, <2>4 DEF Settled
  <2>5. CASE ActedOn(r)
    BY <2>1, <2>5 DEF ActedOn, SameCall
  <2>6. CASE Answered(r)
    BY <2>1, <2>6 DEF Answered
  <2> QED BY <1>2, <2>2, <2>3, <2>4, <2>5, <2>6 DEF Shape
<1>5. CancelsSent'
  <2> SUFFICES ASSUME NEW r \in Requests, r[2] = "command",
                      call'[CancelOf(r)].state # "idle"
               PROVE  call'[r].on # 0
    BY DEF CancelsSent, CancelOf
  <2>1. CancelOf(r) \in Requests /\ CancelOf(r)[2] = "cancel"
    BY RequestFacts
  <2>2. CASE call[CancelOf(r)].state # "idle"
    BY <1>1, <1>3, <2>2 DEF CancelsSent
  <2>3. CASE call[CancelOf(r)].state = "idle"
    <3>1. MayMake(CancelOf(r))
      BY <1>2, <2>1, <2>3 DEF Shape, Left, SameCall, Made, SentOn, Settled, ActedOn, Answered
    <3>2. PICK q \in Requests : q[2] = "command" /\ CancelOf(r) = CancelOf(q) /\ call[q].on # 0
      BY <2>1, <2>3, <3>1 DEF MayMake
    <3>3. r = q
      BY <3>2, RequestFacts
    <3> QED BY <1>3, <3>2, <3>3
  <2> QED BY <2>2, <2>3
<1> QED BY <1>1, <1>4, <1>5 DEF RequestInv

LEMMA SpecRequestInv == Spec => []RequestInv
<1>1. Init => RequestInv
  <2> SUFFICES ASSUME Init PROVE RequestInv
    OBVIOUS
  <2>1. /\ ClientInv
        /\ \A r \in Requests :
              /\ call[r].state = "idle" /\ call[r].result = "none"
              /\ call[r].answer = "none" /\ call[r].on = 0
              /\ service[r] = "none" /\ reply[r] = "none"
    BY InitClient DEF Init, NotCalled
  <2> QED BY <2>1, RequestFacts DEF RequestInv, Records, Effects, CancelsSent
<1> QED BY <1>1, RequestStep, PTL DEF Spec

\* What a request and its owner look like, now and after the step.
LEMMA StateViews ==
    ASSUME NEW r \in Requests
    PROVE  /\ service[r] = "done" => RequestState(r) = "moved"
           /\ service[r] = "refused" => RequestState(r) = "refused"
           /\ service[r] = "none" /\ call[r].result = "safe" => RequestState(r) = "refused"
           /\ service[r] = "none" /\ call[r].result # "safe" =>
                 RequestState(r) = IF call[r].on = 0 THEN "idle" ELSE "open"
           /\ call[r].result = "none" /\ call[r].answer = "none" => ToldState(r) = "none"
           /\ call[r].result = "completed" /\ call[r].answer = "done" => ToldState(r) = "moved"
           /\ call[r].result = "indeterminate" /\ call[r].answer # "done" =>
                 ToldState(r) = "unknown"
           /\ call[r].result \notin {"none", "indeterminate"} /\ call[r].answer # "done" =>
                 ToldState(r) = "refused"
BY DEF RequestState, ToldState

LEMMA NextViews ==
    ASSUME NEW r \in Requests
    PROVE  /\ service'[r] = "done" => RequestState(r)' = "moved"
           /\ service'[r] = "refused" => RequestState(r)' = "refused"
           /\ service'[r] = "none" /\ call'[r].result = "safe" =>
                 RequestState(r)' = "refused"
           /\ service'[r] = "none" /\ call'[r].result # "safe" =>
                 RequestState(r)' = IF call'[r].on = 0 THEN "idle" ELSE "open"
           /\ call'[r].result = "none" /\ call'[r].answer = "none" => ToldState(r)' = "none"
           /\ call'[r].result = "completed" /\ call'[r].answer = "done" => ToldState(r)' = "moved"
           /\ call'[r].result = "indeterminate" /\ call'[r].answer # "done" =>
                 ToldState(r)' = "unknown"
           /\ call'[r].result \notin {"none", "indeterminate"} /\ call'[r].answer # "done" =>
                 ToldState(r)' = "refused"
BY DEF RequestState, ToldState

LEMMA ViewsSame ==
    ASSUME NEW r \in Requests, service'[r] = service[r],
           call'[r].result = call[r].result, call'[r].answer = call[r].answer,
           (call[r].on = 0 <=> call'[r].on = 0) \/ service[r] # "none",
           service[r] \in {"none", "done", "refused"}
    PROVE  RequestState(r)' = RequestState(r) /\ ToldState(r)' = ToldState(r)
<1>1. RequestState(r)' = RequestState(r)
  BY StateViews, NextViews
<1>2. ToldState(r)' = ToldState(r)
  BY DEF ToldState
<1> QED BY <1>1, <1>2

LEMMA ViewsStep ==
    ASSUME RequestInv, RequestInv', [Next]_vars, NEW r \in Requests, Moves(r)
    PROVE  [CashRequest(r)!Next]_(CashRequest(r)!vars)
<1>1. /\ Shape(r)
      /\ service[r] \in {"none", "done", "refused"}
      /\ reply[r] \in {"none", "done", "refused", "rejected"}
  BY StepShape DEF RequestInv, ClientInv, WellTyped
<1>2. /\ call[r].state = "done" <=> call[r].result # "none"
      /\ call[r].result # "completed" => call[r].answer = "none"
      /\ service[r] # "none" => call[r].on # 0
      /\ reply[r] = "done" => service[r] = "done"
      /\ reply[r] \in {"refused", "rejected"} => service[r] = "refused"
  BY DEF RequestInv, Records, Effects
<1>3. /\ call[r].result = "safe" => call[r].on = 0
      /\ call'[r].result = "safe" => call'[r].on = 0
  BY DEF RequestInv, ClientInv, Records, RetrySafe, Moves
<1>4. CASE Left(r) \/ Made(r)
  <2>1. RequestState(r)' = RequestState(r) /\ ToldState(r)' = ToldState(r)
    BY <1>1, <1>4, ViewsSame DEF Left, SameCall, Made
  <2> QED BY <2>1 DEF CashRequest!vars
<1>5. CASE SentOn(r)
  <2>1. call[r].result = "none"
    BY <1>2, <1>5 DEF SentOn
  <2>2. CASE service[r] = "none" /\ call[r].on = 0
    <3>1. RequestState(r) = "idle" /\ RequestState(r)' = "open"
      BY <1>5, <2>1, <2>2, StateViews, NextViews DEF SentOn
    <3>2. ToldState(r)' = ToldState(r)
      BY <1>5 DEF SentOn, ToldState
    <3> QED BY <3>1, <3>2 DEF CashRequest!Next, CashRequest!Ask
  <2>3. CASE ~(service[r] = "none" /\ call[r].on = 0)
    <3>1. RequestState(r)' = RequestState(r) /\ ToldState(r)' = ToldState(r)
      BY <1>1, <1>5, <2>3, ViewsSame DEF SentOn
    <3> QED BY <3>1 DEF CashRequest!vars
  <2> QED BY <2>2, <2>3
<1>6. CASE Settled(r)
  <2>1. ToldState(r) = "none" /\ call[r].answer = "none" /\ call[r].result = "none"
    BY <1>2, <1>6, StateViews DEF Settled
  <2>2. CASE call'[r].result = "safe"
    <3>1. call[r].on = 0 /\ service[r] = "none"
      BY <1>1, <1>2, <1>3, <1>6, <2>2 DEF Settled
    <3>2. RequestState(r) = "idle" /\ RequestState(r)' = "refused"
      BY <1>6, <2>1, <2>2, <3>1, StateViews, NextViews DEF Settled
    <3>3. ToldState(r)' = "refused"
      BY <1>6, <2>1, <2>2, NextViews DEF Settled
    <3> QED BY <2>1, <3>2, <3>3 DEF CashRequest!Next, CashRequest!Withdraw
  <2>3. CASE call'[r].result = "indeterminate"
    <3>1. call[r].on # 0 /\ ToldState(r)' = "unknown"
      BY <1>6, <2>1, <2>3, NextViews DEF Settled
    <3>2. RequestState(r) # "idle" /\ RequestState(r)' = RequestState(r)
      BY <1>1, <1>6, <2>1, <2>3, <3>1, StateViews, NextViews DEF Settled
    <3> QED BY <2>1, <3>1, <3>2
            DEF CashRequest!Next, CashRequest!Tell, CashRequest!TellUnknown
  <2> QED BY <1>6, <2>2, <2>3 DEF Settled
<1>7. CASE ActedOn(r)
  <2>1. RequestState(r) = "open" /\ RequestState(r)' \in {"moved", "refused"}
    BY <1>3, <1>7, StateViews, NextViews DEF ActedOn
  <2>2. ToldState(r)' = ToldState(r)
    BY <1>7 DEF ActedOn, SameCall, ToldState
  <2> QED BY <2>1, <2>2 DEF CashRequest!Next, CashRequest!Acts
<1>8. CASE Answered(r)
  <2>1. /\ ToldState(r) = "none" /\ call[r].answer = "none"
        /\ service[r] = IF reply[r] = "done" THEN "done" ELSE "refused"
    BY <1>1, <1>2, <1>8, StateViews DEF Answered
  <2>2. /\ RequestState(r) = IF reply[r] = "done" THEN "moved" ELSE "refused"
        /\ RequestState(r)' = RequestState(r)
    BY <1>8, <2>1, StateViews, NextViews DEF Answered
  <2>3. ToldState(r)' = RequestState(r)
    BY <1>8, <2>1, <2>2, NextViews DEF Answered
  <2> QED BY <2>1, <2>2, <2>3
          DEF CashRequest!Next, CashRequest!Tell, CashRequest!TellOutcome
<1> QED BY <1>1, <1>4, <1>5, <1>6, <1>7, <1>8 DEF Shape

\* Every state-changing command takes the steps of CashDevice only, whatever
\* the other commands, the timers, the connection and the service do: what its
\* owner is told was the truth when it was told.
THEOREM ClientImplementsCashDevice ==
    ASSUME NEW r \in Requests, Moves(r)
    PROVE  Spec => /\ CashRequest(r)!Init
                   /\ [][CashRequest(r)!Next]_(CashRequest(r)!vars)
<1>1. Init => CashRequest(r)!Init
  <2> SUFFICES ASSUME Init PROVE CashRequest(r)!Init
    OBVIOUS
  <2>1. /\ call[r].result = "none" /\ call[r].answer = "none" /\ call[r].on = 0
        /\ service[r] = "none"
    BY DEF Init, NotCalled
  <2>2. RequestState(r) = "idle" /\ ToldState(r) = "none"
    BY <2>1, StateViews
  <2> QED BY <2>2 DEF CashRequest!Init
<1>2. RequestInv /\ RequestInv' /\ [Next]_vars =>
          [CashRequest(r)!Next]_(CashRequest(r)!vars)
  BY ViewsStep
<1> QED BY <1>1, <1>2, SpecRequestInv, PTL DEF Spec

\* What the owner of a state-changing command has been told, "done" or
\* "refused", stays true of the device: no late answer, cancellation or
\* disconnection makes it wrong.
THEOREM ClientToldTheTruth ==
    ASSUME NEW r \in Requests, Moves(r)
    PROVE  Spec => []CashRequest(r)!ToldTheTruth
<1>1. RequestInv => CashRequest(r)!ToldTheTruth
  <2> SUFFICES ASSUME RequestInv, ToldState(r) \in {"moved", "refused"}
               PROVE  ToldState(r) = RequestState(r)
    BY DEF CashRequest!ToldTheTruth
  <2>1. /\ call[r] \in CallRecords /\ service[r] \in {"none", "done", "refused"}
        /\ call[r].state = "done" <=> call[r].result # "none"
        /\ call[r].result = "completed" =>
              call[r].answer # "none" /\ call[r].answer = service[r]
        /\ call[r].result # "completed" => call[r].answer = "none"
        /\ call[r].result = "known" => service[r] = "refused"
        /\ service[r] # "none" => call[r].on # 0
        /\ call[r].result = "safe" => call[r].on = 0
    BY DEF RequestInv, ClientInv, WellTyped, Records, Effects, RetrySafe
  <2>2. call[r].result \in {"completed", "known", "safe"}
    BY <2>1, StateViews DEF CallRecords
  <2>3. CASE call[r].result = "completed"
    BY <2>1, <2>3, StateViews DEF CallRecords
  <2>4. CASE call[r].result = "known"
    BY <2>1, <2>4, StateViews
  <2>5. CASE call[r].result = "safe"
    BY <2>1, <2>5, StateViews
  <2> QED BY <2>2, <2>3, <2>4, <2>5
<1> QED BY <1>1, SpecRequestInv, PTL
==============================================================================

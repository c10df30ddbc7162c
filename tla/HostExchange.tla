----------------------------- MODULE HostExchange -----------------------------
(***************************************************************************)
(* Authorizations by the ISO 8583 host adapter over the framed transport:  *)
(* each call takes a trace number, opens a connection of its own, writes   *)
(* one frame, collects the frame of the response from whatever pieces the  *)
(* network delivers, and believes the response only when it is whole, in   *)
(* time, and echoes the trace number.  A host that mixes up its            *)
(* connections sends the response of another call.                         *)
(***************************************************************************)
EXTENDS Integers, FiniteSets

CONSTANTS
    Calls,          \* calls of authorize(), each made once
    Categories,     \* the categories of the response code map
    MaxTrace,       \* 999999 in the code
    LengthBytes,    \* lengthBytes: the size of the length header
    MaxFrame        \* maxFrameBytes

ASSUME HostAssumption ==
    /\ IsFiniteSet(Calls)
    /\ "approved" \in Categories
    /\ Categories \cap {"none", "asked", "protocol", "threw"} = {}
    /\ {MaxTrace, LengthBytes, MaxFrame} \subseteq Nat \ {0}
    \* Two calls in flight never have the same trace number.
    /\ Cardinality(Calls) <= MaxTrace

Results == Categories \cup {"none", "protocol", "threw"}
Live == {"tracing", "connecting", "awaiting"}

VARIABLES
    call,       \* the call and its connection
    trace,      \* the counter of the adapter
    host        \* what the host decided, by call

vars == <<call, trace, host>>

NoStream == [declared |-> 0, says |-> "approved", echo |-> 0, form |-> "none"]
Streams == [declared : 0 .. MaxFrame + 1, says : Categories, echo : 0 .. MaxTrace,
            form : {"none", "valid", "malformed", "unprintable"}]

TypeOK ==
    /\ call \in [Calls -> [phase : Live \cup {"idle", "answered", "done"},
                           trace : 0 .. MaxTrace,
                           received : 0 .. LengthBytes + MaxFrame,
                           stream : Streams,
                           timer : BOOLEAN, late : BOOLEAN, aborted : BOOLEAN,
                           result : Results]]
    /\ trace \in 0 .. MaxTrace
    /\ host \in [Calls -> Categories \cup {"none", "asked"}]
    /\ \A c \in Calls : call[c].phase = "answered" =>
          call[c].stream.declared \in 1 .. MaxFrame /\ ~call[c].timer

NotCalled == [phase |-> "idle", trace |-> 0, received |-> 0, stream |-> NoStream,
              timer |-> FALSE, late |-> FALSE, aborted |-> FALSE, result |-> "none"]

Init ==
    /\ call = [c \in Calls |-> NotCalled]
    /\ trace = 0
    /\ host = [c \in Calls |-> "none"]

\* The call rejects: its socket is closed, its timer stopped, and what had
\* come in is dropped.
Threw(c) ==
    [call EXCEPT ![c] = [NotCalled EXCEPT !.phase = "done", !.result = "threw",
                                          !.trace = call[c].trace]]

\* authorize(): the signal is looked at, then the trace number is fetched.
Authorize(c) ==
    /\ call[c].phase = "idle"
    /\ \/ call' = [call EXCEPT ![c].phase = "tracing"]
       \/ call' = Threw(c)     \* aborted, or an unknown currency or amount
    /\ UNCHANGED <<trace, host>>

\* The trace number is there, and exchange() is entered.
TraceGiven(c) ==
    /\ call[c].phase = "tracing"
    /\ \/ /\ trace' = (trace % MaxTrace) + 1
          /\ \/ /\ ~call[c].aborted /\ ~call[c].late
                /\ call' = [call EXCEPT ![c].phase = "connecting", ![c].timer = TRUE,
                                        ![c].trace = trace']
             \* Also an unknown transaction, and a socket that cannot be created.
             \/ call' = Threw(c)
       \/ call' = Threw(c) /\ UNCHANGED trace      \* nextTrace rejects
    /\ UNCHANGED host

\* Faulty: the timer of the connection is cleared and no other one armed.
ConnectedUntimed(c) ==
    /\ call[c].phase = "connecting"
    /\ call' = [call EXCEPT ![c].phase = "awaiting", ![c].timer = FALSE]
    /\ host' = [host EXCEPT ![c] = "asked"]
    /\ UNCHANGED trace

\* onConnect: the frame is written, unless TLS did not authorize the host or
\* the deadline is over.
Connected(c) ==
    /\ call[c].phase = "connecting"
    /\ \/ /\ ~call[c].late
          /\ call' = [call EXCEPT ![c].phase = "awaiting", ![c].timer = TRUE]
          /\ host' = [host EXCEPT ![c] = "asked"]
       \/ call' = Threw(c) /\ UNCHANGED host
    /\ UNCHANGED trace

\* onAbort, and the signal for those who look at it later.
Abort(c) ==
    /\ call[c].phase \in Live \cup {"answered"} /\ ~call[c].aborted
    /\ call' = IF call[c].phase \in {"connecting", "awaiting"} THEN Threw(c)
               ELSE [call EXCEPT ![c].aborted = TRUE]
    /\ UNCHANGED <<trace, host>>

\* The deadline of the operation passes; the code only notices when it looks.
Expire(c) ==
    /\ call[c].phase \in Live /\ ~call[c].late
    /\ call' = [call EXCEPT ![c].late = TRUE]
    /\ UNCHANGED <<trace, host>>

\* The timer of the connection, then the one of the response.
TimerFires(c) ==
    /\ call[c].timer
    /\ call' = Threw(c)
    /\ UNCHANGED <<trace, host>>

\* onError and onClose.
SocketFails(c) ==
    /\ call[c].phase \in {"connecting", "awaiting"}
    /\ call' = Threw(c)
    /\ UNCHANGED <<trace, host>>

\* The host decides, and may do so long after the adapter has given up.
HostDecides(c) ==
    /\ host[c] = "asked"
    /\ \E category \in Categories : host' = [host EXCEPT ![c] = category]
    /\ UNCHANGED <<call, trace>>

\* The host writes on the connection of c: the response of c, or by mistake of
\* another call, and possibly in a broken frame.  What follows the frame, and
\* whether all of it ever arrives, is left to the network.
HostWrites(c) ==
    /\ call[c].phase = "awaiting" /\ call[c].stream.form = "none"
    /\ \E d \in {e \in Calls : host[e] \in Categories} :
       \E declared \in 0 .. MaxFrame + 1,
          form \in {"valid", "malformed", "unprintable"} :
          call' = [call EXCEPT ![c].stream =
                      [declared |-> declared, form |-> form,
                       says |-> host[d], echo |-> call[d].trace]]
    /\ UNCHANGED <<trace, host>>

\* The length of a response, read from the header.
LengthValid(n) == n \in 1 .. MaxFrame

\* onData: a piece of n bytes.  The header may itself come in pieces.
Piece(c, n) ==
    LET received == call[c].received + n
        declared == call[c].stream.declared
        known == received >= LengthBytes
        whole == known /\ received = LengthBytes + declared
    IN  /\ call[c].phase = "awaiting"
        /\ call[c].stream.form # "none"
        /\ call' =
             IF \/ received > LengthBytes + MaxFrame
                \/ known /\ ~LengthValid(declared)
                \/ known /\ received > LengthBytes + declared
                \/ whole /\ (call[c].late \/ call[c].stream.form = "unprintable")
             THEN Threw(c)
             ELSE [call EXCEPT ![c].received = received,
                               ![c].phase = IF whole THEN "answered" ELSE @,
                               ![c].timer = ~whole]
        /\ UNCHANGED <<trace, host>>

\* Every field the bitmap announces is there, well-formed, and the last.
Decodes(c) == call[c].stream.form = "valid"

\* Faulty: any well-formed response will do.
EchoUnchecked(c) == Decodes(c)

\* The response is a 0110 with a response code and the trace of the request.
ResponseMatches(c) == Decodes(c) /\ call[c].stream.echo = call[c].trace

\* authorize() goes on with the response.
Resume(c) ==
    /\ call[c].phase = "answered"
    /\ call' = IF call[c].aborted THEN Threw(c)
               ELSE [call EXCEPT ![c].phase = "done",
                                 ![c].result = IF ResponseMatches(c)
                                               THEN call[c].stream.says ELSE "protocol"]
    /\ UNCHANGED <<trace, host>>

Next ==
    \E c \in Calls :
        \/ Authorize(c) \/ TraceGiven(c) \/ Connected(c) \/ Abort(c) \/ Expire(c)
        \/ TimerFires(c) \/ SocketFails(c) \/ HostDecides(c) \/ HostWrites(c)
        \/ \E n \in 1 .. LengthBytes + MaxFrame + 1 : Piece(c, n)
        \/ Resume(c)

\* The trace store answers or rejects, timers fire, promises go on; the host
\* and the network owe nothing.
Spec ==
    /\ Init /\ [][Next]_vars
    /\ \A c \in Calls : WF_vars(TraceGiven(c)) /\ WF_vars(TimerFires(c))
                           /\ WF_vars(Resume(c))

-----------------------------------------------------------------------------
(* Properties *)

\* The adapter reports HOST_APPROVED only for an authorization this host has
\* approved, from exactly one whole frame that arrived before the deadline,
\* even if the host answers on the wrong connection.
ApprovedByHost ==
    \A c \in Calls : call[c].result = "approved" =>
        /\ host[c] = "approved"
        /\ call[c].received = LengthBytes + call[c].stream.declared
        /\ ~call[c].late

\* Every call of authorize() ends, whatever the host does or leaves undone.
AuthorizeEnds == \A c \in Calls : call[c].phase = "tracing" ~> call[c].phase = "done"
==============================================================================

--------------------------- MODULE TerminalSessions ---------------------------
(***************************************************************************)
(* TerminalSessionManager and the routes of the customer terminal: flows   *)
(* that pause at prompts, the requests that answer them, and the removal   *)
(* of sessions that have ended or that nobody has asked about for longer   *)
(* than their time to live.                                                *)
(*                                                                         *)
(* Every public method runs to its first await in one turn, so a request   *)
(* is one action up to there; state() is awaited until the flow prompts or *)
(* ends, and its resumption belongs to the action that wakes it.           *)
(***************************************************************************)
EXTENDS Integers, FiniteSets, Sequences

CONSTANTS
    Sessions,      \* the sessions that can be started
    MaxSessions,   \* maxSessions
    MaxPrompts,    \* bound: per session, the prompts of its flow
    LongWork       \* may a flow work for longer than the time to live?

ASSUME SessionsAssumption ==
    /\ MaxSessions \in Nat \ {0}
    /\ MaxPrompts \in [Sessions -> Nat]
    /\ LongWork \in BOOLEAN

VARIABLES
    flow,      \* none, working, prompting, ended, flushed or lost (see Flush)
    prompt,    \* the prompts of the flow so far; the last one may be pending
    live,      \* the manager's map of sessions
    stale,     \* the sessions whose last access is too long ago
    waiting,   \* the sessions with a state() that is awaited
    gone,      \* the sessions whose customer has left
    display,   \* the sessions started by a presented card
    answers    \* per session, the prompt ids its accepted answers bore, in the
               \* order in which they were accepted

vars == <<flow, prompt, live, stale, waiting, gone, display, answers>>

FlowStates == {"none", "working", "prompting", "ended", "flushed", "lost"}
Active(s) == flow[s] \in {"working", "prompting"}

Init ==
    /\ flow = [s \in Sessions |-> "none"]
    /\ prompt = [s \in Sessions |-> 0]
    /\ live = {} /\ stale = {} /\ waiting = {} /\ gone = {} /\ display = {}
    /\ answers = [s \in Sessions |-> <<>>]
-----------------------------------------------------------------------------
\* Faulty variant: only sessions at a prompt expire.
ExpiredPrompting == {s \in stale : flow[s] = "prompting"}

\* What pruneExpired removes.
Expired == stale

Completed == {s \in live : flow[s] = "flushed"}

\* Faulty variant: an expired session is removed and its prompt forgotten.
FlowsRemoved == flow

\* pruneExpired rejects the pending prompt of a session, which ends its flow.
FlowsAfterPruning ==
    [s \in Sessions |-> IF s \in Expired /\ flow[s] = "prompting"
                        THEN "ended" ELSE flow[s]]

\* start after pruning: there must be room, completed sessions take none.
StartOf(s, capacity) ==
    /\ flow[s] = "none"
    /\ Cardinality(live \ (Expired \cup Completed)) < capacity
    /\ flow' = [FlowsAfterPruning EXCEPT ![s] = "working"]
    /\ live' = (live \ (Expired \cup Completed)) \cup {s}
    /\ stale' = stale \ (Expired \cup Completed)
    /\ waiting' = waiting \cup {s}
    /\ UNCHANGED <<prompt, gone, answers>>

\* POST /api/session/start
Start(s) == StartOf(s, MaxSessions) /\ UNCHANGED display

\* Faulty variant: a card is accepted while there is room for a session.
PresentCardAnyway(s) ==
    /\ StartOf(s, MaxSessions)
    /\ display' = display \cup {s}

\* presentCard: only while the terminal has no session at all.
PresentCard(s) ==
    /\ StartOf(s, 1)
    /\ display' = display \cup {s}

\* A start, or a card, that is refused: the sessions are pruned all the same.
Refuse ==
    /\ flow' = FlowsAfterPruning
    /\ live' = live \ (Expired \cup Completed)
    /\ stale' = stale \ (Expired \cup Completed)
    /\ live # live'
    /\ UNCHANGED <<prompt, waiting, gone, display, answers>>

\* The pruning timer, and the requests that find nothing to do.
Prune ==
    /\ Expired # {}
    /\ flow' = FlowsAfterPruning
    /\ live' = live \ Expired
    /\ stale' = stale \ Expired
    /\ UNCHANGED <<prompt, waiting, gone, display, answers>>

\* Faulty variant: the pending prompt takes any answer.
AnswerPending(s, n) ==
    /\ s \in live \ Expired
    /\ flow[s] = "prompting" /\ n \in 1 .. prompt[s]
    /\ flow' = [FlowsAfterPruning EXCEPT ![s] = "working"]
    /\ answers' = [answers EXCEPT ![s] = Append(@, n)]
    /\ live' = live \ Expired
    /\ stale' = stale \ (Expired \cup {s})
    /\ waiting' = waiting \cup {s}
    /\ UNCHANGED <<prompt, gone, display>>

\* POST /api/session/answer with a valid value for one of the prompts so far:
\* accepted, if it is the pending one.
Answer(s, n) ==
    /\ s \in live \ Expired
    /\ flow[s] = "prompting" /\ n = prompt[s]
    /\ flow' = [FlowsAfterPruning EXCEPT ![s] = "working"]
    /\ answers' = [answers EXCEPT ![s] = Append(@, n)]
    /\ live' = live \ Expired
    /\ stale' = stale \ (Expired \cup {s})
    /\ waiting' = waiting \cup {s}
    /\ UNCHANGED <<prompt, gone, display>>

\* ... or stale, or invalid: the access counts, nothing else happens.
AnswerRefused(s) ==
    /\ s \in live \ Expired
    /\ flow' = FlowsAfterPruning
    /\ live' = live \ Expired
    /\ stale' = stale \ Expired
    /\ UNCHANGED <<prompt, waiting, gone, display, answers>>

Request(s) ==
    /\ s \notin gone
    /\ \/ Start(s) \/ PresentCard(s) \/ AnswerRefused(s)
       \/ \E n \in 1 .. MaxPrompts[s] : Answer(s, n)

Leave(s) ==
    /\ s \notin gone /\ Active(s)
    /\ gone' = gone \cup {s}
    /\ UNCHANGED <<flow, prompt, live, stale, waiting, display, answers>>
-----------------------------------------------------------------------------
\* The flow asks its next question, and whoever awaits the state is shown it.
FlowPrompts(s) ==
    /\ flow[s] = "working" /\ prompt[s] < MaxPrompts[s]
    /\ flow' = [flow EXCEPT ![s] = "prompting"]
    /\ prompt' = [prompt EXCEPT ![s] = @ + 1]
    /\ waiting' = waiting \ {s}
    /\ UNCHANGED <<live, stale, gone, display, answers>>

FlowEnds(s) ==
    /\ flow[s] = "working"
    /\ flow' = [flow EXCEPT ![s] = "ended"]
    /\ UNCHANGED <<prompt, live, stale, waiting, gone, display, answers>>

\* The journal is flushed and the session has a result; a state() that waits
\* for it removes the session.  When the journal cannot be written there is
\* never a result, and the session stays until it expires.
Flush(s) ==
    /\ flow[s] = "ended"
    /\ \/ /\ flow' = [flow EXCEPT ![s] = "flushed"]
          /\ live' = IF s \in waiting THEN live \ {s} ELSE live
          /\ stale' = stale \cap live'
       \/ /\ flow' = [flow EXCEPT ![s] = "lost"]
          /\ UNCHANGED <<live, stale>>
    /\ waiting' = waiting \ {s}
    /\ UNCHANGED <<prompt, gone, display, answers>>

\* The time to live passes without an access.
TimePasses(s) ==
    /\ s \in live \ stale
    /\ flow[s] = "working" => LongWork
    /\ stale' = stale \cup {s}
    /\ UNCHANGED <<flow, prompt, live, waiting, gone, display, answers>>

Next ==
    \/ Prune
    \/ Refuse
    \/ \E s \in Sessions :
          \/ Request(s) \/ Leave(s) \/ TimePasses(s)
          \/ FlowPrompts(s) \/ FlowEnds(s) \/ Flush(s)

\* A flow's adapters answer or time out, its journal is flushed or fails, time
\* passes for a session nobody asks about, and the pruning timer fires.
Fairness ==
    /\ WF_vars(Prune)
    /\ \A s \in Sessions :
          /\ WF_vars(FlowPrompts(s) \/ FlowEnds(s))
          /\ WF_vars(Flush(s))
          /\ WF_vars(s \in gone /\ TimePasses(s))

Spec == Init /\ [][Next]_vars /\ Fairness
-----------------------------------------------------------------------------
(***************************************************************************)
(* Correctness.                                                            *)
(***************************************************************************)
TypeOK ==
    /\ flow \in [Sessions -> FlowStates]
    /\ prompt \in [Sessions -> Nat]
    /\ live \subseteq Sessions /\ Cardinality(live) <= MaxSessions
    /\ stale \subseteq live
    /\ waiting \subseteq Sessions
    /\ gone \subseteq Sessions /\ display \subseteq Sessions
    /\ answers \in [Sessions -> Seq(Nat)]

\* A flow that is paused at a prompt can be resumed: its session has not been
\* removed, and nobody is still waiting to be shown the prompt.
PromptAnswerable ==
    \A s \in Sessions : flow[s] = "prompting" => s \in live \ waiting

\* The answers a session has accepted are answers to its prompts in the order
\* of the prompts, each exactly once: the k-th accepted answer bore the id of
\* the k-th prompt, a flow that goes on has got an answer to every prompt so far,
\* and one that waits lacks just the last.  It must hold however late and often
\* the customer's requests arrive, and whatever expires meanwhile (answer of
\* TerminalSessionManager, request and answer of QueuedCustomerInteraction).
AnswersInOrder ==
    \A s \in Sessions :
        LET given == answers[s]
        IN  /\ \A k \in DOMAIN given : given[k] = k
            /\ Len(given) \in {prompt[s] - 1, prompt[s]}
            /\ flow[s] \in {"none", "working"} => Len(given) = prompt[s]
            /\ flow[s] = "prompting" => Len(given) = prompt[s] - 1

\* A card starts a session only when no other flow is under way (server.ts: "The
\* terminal already has an active customer session.").  It says nothing of
\* sessions started without a card: those do not ask whether the terminal is in
\* use, so a flow that a card has started may be joined by others later.
DisplayAlone ==
    [][\A s \in Sessions : s \in display' \ display =>
          \A t \in Sessions \ {s} : ~Active(t)']_vars

\* When the customer walks away, the flow ends and the session is removed (and
\* stays so: the terminal does not keep the sessions of those who left).
AbandonedEnds == []<>(\A s \in gone : s \notin live /\ ~Active(s))
=============================================================================

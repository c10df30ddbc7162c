-------------------------- MODULE CustomerPageProofs --------------------------
(***************************************************************************)
(* What TLAPS proves of the session manager, for any number of sessions,   *)
(* places and prompts: by itself in front of any clients (Spec), and in    *)
(* front of the terminal's page (PageSpec), whose steps are steps of the   *)
(* manager.  Flows do not work for longer than the time to live.           *)
(***************************************************************************)
EXTENDS CustomerPage, FiniteSetTheorems, TLAPS

\* Whose flow is under way has a place in the map, nobody's place expires while
\* the flow works, and who has been shown a prompt does not wait for it.
Placed ==
    /\ \A s \in Sessions : Active(s) => s \in live
    /\ \A s \in Sessions : flow[s] = "working" => s \notin stale
    /\ \A s \in Sessions : flow[s] = "prompting" =>
          s \notin waiting /\ prompt[s] \in 1 .. MaxPrompts[s]

ManagerInv == TypeOK /\ IsFiniteSet(live) /\ Placed /\ AnswersInOrder

LEMMA InitManager == Init => ManagerInv
<1> SUFFICES ASSUME Init PROVE ManagerInv
  OBVIOUS
<1>1. IsFiniteSet(live) /\ Cardinality(live) = 0
  BY FS_EmptySet DEF Init
<1>2. TypeOK
  BY <1>1, SessionsAssumption DEF Init, TypeOK, FlowStates
<1>3. Placed
  BY DEF Init, Placed, Active
<1>4. AnswersInOrder
  BY DEF Init, AnswersInOrder
<1> QED BY <1>1, <1>2, <1>3, <1>4 DEF ManagerInv

\* What is left of a finite map is finite and no larger.
LEMMA FewerPlaces ==
    ASSUME IsFiniteSet(live), Cardinality(live) <= MaxSessions, NEW S, S \subseteq live
    PROVE  IsFiniteSet(S) /\ Cardinality(S) <= MaxSessions
<1>1. IsFiniteSet(S) /\ Cardinality(S) <= Cardinality(live)
  BY FS_Subset
<1>2. Cardinality(S) \in Nat /\ Cardinality(live) \in Nat
  BY <1>1, FS_CardinalityType
<1> QED BY <1>1, <1>2, SessionsAssumption

\* Pruning ends the flows it removes: what is still under way is not expired.
LEMMA PrunedFlows ==
    ASSUME ManagerInv
    PROVE  /\ FlowsAfterPruning \in [Sessions -> FlowStates]
           /\ \A s \in Sessions :
                 FlowsAfterPruning[s] \in {"working", "prompting"} =>
                    FlowsAfterPruning[s] = flow[s] /\ s \in live \ Expired
BY DEF ManagerInv, TypeOK, FlowStates, Placed, Active, FlowsAfterPruning, Expired

\* A step that neither asks nor answers leaves the order of the answers alone,
\* when flows only start or end in it.
LEMMA OrderStays ==
    ASSUME AnswersInOrder, prompt' = prompt, answers' = answers,
           \A s \in Sessions :
              \/ flow'[s] = flow[s]
              \/ flow'[s] \notin {"none", "working", "prompting"}
              \/ flow[s] = "none" /\ flow'[s] = "working"
    PROVE  AnswersInOrder'
BY DEF AnswersInOrder

LEMMA StartKeeps ==
    ASSUME ManagerInv, NEW s \in Sessions, NEW capacity \in 1 .. MaxSessions,
           StartOf(s, capacity), display' \subseteq Sessions
    PROVE  ManagerInv'
<1> DEFINE left == live \ (Expired \cup Completed)
<1>1. IsFiniteSet(left) /\ Cardinality(left) < capacity
  <2>1. left \subseteq live
    OBVIOUS
  <2> QED BY <2>1, FewerPlaces DEF StartOf, ManagerInv, TypeOK
<1>2. live' = left \cup {s}
  BY DEF StartOf
<1>3. IsFiniteSet(live') /\ Cardinality(live') <= MaxSessions
  <2>1. /\ IsFiniteSet(left \cup {s})
        /\ Cardinality(left \cup {s}) \in {Cardinality(left), Cardinality(left) + 1}
    BY <1>1, FS_AddElement
  <2>2. Cardinality(left) \in Nat
    BY <1>1, FS_CardinalityType
  <2> QED BY <1>1, <1>2, <2>1, <2>2, SessionsAssumption
<1>4. /\ FlowsAfterPruning \in [Sessions -> FlowStates]
      /\ \A t \in Sessions :
            FlowsAfterPruning[t] \in {"working", "prompting"} =>
               FlowsAfterPruning[t] = flow[t] /\ t \in live \ Expired
  BY PrunedFlows
<1>5. /\ flow' = [FlowsAfterPruning EXCEPT ![s] = "working"]
      /\ stale' = {}
      /\ waiting' = waiting \cup {s}
      /\ prompt' = prompt /\ gone' = gone /\ answers' = answers
  BY DEF StartOf, Expired
<1>6. TypeOK'
  BY <1>2, <1>3, <1>4, <1>5 DEF ManagerInv, TypeOK, FlowStates
<1>7. Placed'
  <2> SUFFICES ASSUME NEW t \in Sessions
               PROVE  /\ Active(t)' => t \in live'
                      /\ flow'[t] = "working" => t \notin stale'
                      /\ flow'[t] = "prompting" =>
                            t \notin waiting' /\ prompt'[t] \in 1 .. MaxPrompts[t]
    BY DEF Placed
  <2>1. CASE t = s
    BY <2>1, <1>2, <1>4, <1>5 DEF Active
  <2>2. CASE t # s
    <3>1. flow'[t] = FlowsAfterPruning[t]
      BY <2>2, <1>4, <1>5
    <3>2. flow'[t] \in {"working", "prompting"} =>
             flow'[t] = flow[t] /\ t \in live /\ t \notin Expired \cup Completed
      BY <3>1, <1>4 DEF Completed
    <3> QED BY <3>2, <2>2, <1>2, <1>5 DEF ManagerInv, Placed, Active
  <2> QED BY <2>1, <2>2
<1>8. AnswersInOrder'
  <2>1. flow[s] = "none"
    BY DEF StartOf
  <2>2. \A t \in Sessions :
           \/ flow'[t] = flow[t]
           \/ flow'[t] \notin {"none", "working", "prompting"}
           \/ flow[t] = "none" /\ flow'[t] = "working"
    BY <1>4, <1>5, <2>1 DEF FlowsAfterPruning
  <2> QED BY <1>5, <2>2, OrderStays DEF ManagerInv
<1> QED BY <1>3, <1>6, <1>7, <1>8 DEF ManagerInv

\* The pruning of a request that starts nothing: the expired sessions, and some
\* of those that are completed, are removed.
LEMMA PruningKeeps ==
    ASSUME ManagerInv,
           flow' = FlowsAfterPruning,
           live' \in {live \ Expired, live \ (Expired \cup Completed)},
           stale' = {},
           UNCHANGED <<prompt, waiting, gone, display, answers>>
    PROVE  ManagerInv'
<1>1. IsFiniteSet(live') /\ Cardinality(live') <= MaxSessions
  <2>1. live' \subseteq live
    OBVIOUS
  <2> QED BY <2>1, FewerPlaces DEF ManagerInv, TypeOK
<1>2. /\ FlowsAfterPruning \in [Sessions -> FlowStates]
      /\ \A t \in Sessions :
            FlowsAfterPruning[t] \in {"working", "prompting"} =>
               FlowsAfterPruning[t] = flow[t] /\ t \in live \ Expired
  BY PrunedFlows
<1>3. TypeOK'
  BY <1>1, <1>2 DEF ManagerInv, TypeOK, Expired
<1>4. Placed'
  BY <1>2 DEF ManagerInv, Placed, Active, Completed, Expired
<1>5. AnswersInOrder'
  <2>1. \A s \in Sessions :
           flow'[s] = flow[s] \/ flow'[s] \notin {"none", "working", "prompting"}
    BY DEF FlowsAfterPruning
  <2> QED BY <2>1, OrderStays DEF ManagerInv
<1> QED BY <1>1, <1>3, <1>4, <1>5 DEF ManagerInv

LEMMA AnswerKeeps ==
    ASSUME ManagerInv, NEW s \in Sessions, NEW n \in Nat, Answer(s, n)
    PROVE  ManagerInv'
<1>1. IsFiniteSet(live') /\ Cardinality(live') <= MaxSessions
  <2>1. live' \subseteq live
    BY DEF Answer
  <2> QED BY <2>1, FewerPlaces DEF ManagerInv, TypeOK
<1>2. /\ FlowsAfterPruning \in [Sessions -> FlowStates]
      /\ \A t \in Sessions :
            FlowsAfterPruning[t] \in {"working", "prompting"} =>
               FlowsAfterPruning[t] = flow[t] /\ t \in live \ Expired
  BY PrunedFlows
<1>3. /\ flow' = [FlowsAfterPruning EXCEPT ![s] = "working"]
      /\ live' = live \ Expired /\ stale' = {} /\ waiting' = waiting \cup {s}
      /\ prompt' = prompt /\ gone' = gone /\ display' = display
      /\ answers' = [answers EXCEPT ![s] = Append(@, n)]
      /\ s \in live \ Expired /\ flow[s] = "prompting" /\ n = prompt[s]
  BY DEF Answer, Expired
<1>4. answers' \in [Sessions -> Seq(Nat)]
  BY <1>3 DEF ManagerInv, TypeOK
<1>5. TypeOK'
  BY <1>1, <1>2, <1>3, <1>4 DEF ManagerInv, TypeOK, FlowStates
<1>6. Placed'
  <2> SUFFICES ASSUME NEW t \in Sessions
               PROVE  /\ Active(t)' => t \in live'
                      /\ flow'[t] = "working" => t \notin stale'
                      /\ flow'[t] = "prompting" =>
                            t \notin waiting' /\ prompt'[t] \in 1 .. MaxPrompts[t]
    BY DEF Placed
  <2>1. CASE t = s
    BY <2>1, <1>2, <1>3 DEF Active
  <2>2. CASE t # s
    <3>1. flow'[t] = FlowsAfterPruning[t]
      BY <2>2, <1>2, <1>3
    <3> QED BY <3>1, <2>2, <1>2, <1>3 DEF ManagerInv, Placed, Active
  <2> QED BY <2>1, <2>2
<1>7. AnswersInOrder'
  <2> SUFFICES ASSUME NEW t \in Sessions
               PROVE  /\ \A k \in DOMAIN answers'[t] : answers'[t][k] = k
                      /\ Len(answers'[t]) \in {prompt[t] - 1, prompt[t]}
                      /\ flow'[t] \in {"none", "working"} => Len(answers'[t]) = prompt[t]
                      /\ flow'[t] = "prompting" => Len(answers'[t]) = prompt[t] - 1
    BY <1>3 DEF AnswersInOrder
  <2>1. CASE t = s
    <3>1. /\ answers[s] \in Seq(Nat) /\ prompt[s] \in Nat
          /\ \A k \in DOMAIN answers[s] : answers[s][k] = k
          /\ Len(answers[s]) = n - 1
      BY <1>3 DEF ManagerInv, TypeOK, AnswersInOrder
    <3>2. answers'[s] = Append(answers[s], n)
      BY <1>3 DEF ManagerInv, TypeOK
    <3>3. flow'[s] = "working"
      BY <1>2, <1>3
    <3>4. /\ Len(answers'[s]) = n
          /\ \A k \in DOMAIN answers'[s] : answers'[s][k] = k
      BY <3>1, <3>2
    <3> QED BY <2>1, <1>3, <3>3, <3>4
  <2>2. CASE t # s
    <3>1. answers'[t] = answers[t]
      BY <2>2, <1>3 DEF ManagerInv, TypeOK
    <3>2. flow'[t] = flow[t] \/ flow'[t] = "ended"
      BY <2>2, <1>2, <1>3 DEF FlowsAfterPruning
    <3> QED BY <3>1, <3>2 DEF ManagerInv, AnswersInOrder
  <2> QED BY <2>1, <2>2
<1> QED BY <1>1, <1>5, <1>6, <1>7 DEF ManagerInv

LEMMA FlowKeeps ==
    ASSUME ManagerInv, NEW s \in Sessions,
           FlowPrompts(s) \/ FlowEnds(s) \/ Flush(s)
    PROVE  ManagerInv'
<1>1. CASE FlowPrompts(s)
  <2>1. prompt' \in [Sessions -> Nat] /\ prompt'[s] \in 1 .. MaxPrompts[s]
    <3>1. prompt[s] \in Nat /\ MaxPrompts[s] \in Nat
      BY SessionsAssumption DEF ManagerInv, TypeOK
    <3>2. prompt[s] < MaxPrompts[s] /\ prompt' = [prompt EXCEPT ![s] = @ + 1]
      BY <1>1 DEF FlowPrompts
    <3>3. prompt'[s] = prompt[s] + 1
      BY <3>2 DEF ManagerInv, TypeOK
    <3>4. prompt' \in [Sessions -> Nat]
      BY <3>1, <3>2 DEF ManagerInv, TypeOK
    <3> QED BY <3>1, <3>2, <3>3, <3>4
  <2>2. TypeOK' /\ IsFiniteSet(live')
    BY <1>1, <2>1 DEF FlowPrompts, ManagerInv, TypeOK, FlowStates
  <2>3. Placed'
    BY <1>1, <2>1 DEF FlowPrompts, ManagerInv, TypeOK, Placed, Active
  <2>4. AnswersInOrder'
    BY <1>1 DEF FlowPrompts, ManagerInv, TypeOK, AnswersInOrder
  <2> QED BY <2>2, <2>3, <2>4 DEF ManagerInv
<1>2. CASE FlowEnds(s)
  <2>1. TypeOK' /\ IsFiniteSet(live')
    BY <1>2 DEF FlowEnds, ManagerInv, TypeOK, FlowStates
  <2>2. Placed'
    BY <1>2 DEF FlowEnds, ManagerInv, TypeOK, Placed, Active
  <2>3. AnswersInOrder'
    BY <1>2, OrderStays DEF FlowEnds, ManagerInv, TypeOK
  <2> QED BY <2>1, <2>2, <2>3 DEF ManagerInv
<1>3. CASE Flush(s)
  <2>1. /\ flow[s] = "ended"
        /\ flow' = [flow EXCEPT ![s] = "flushed"] \/ flow' = [flow EXCEPT ![s] = "lost"]
        /\ live' \in {live, live \ {s}} /\ stale' = stale \cap live'
        /\ waiting' = waiting \ {s}
        /\ UNCHANGED <<prompt, gone, display, answers>>
    BY <1>3 DEF Flush, ManagerInv, TypeOK
  <2>2. IsFiniteSet(live') /\ Cardinality(live') <= MaxSessions
    <3>1. live' \subseteq live
      BY <2>1
    <3> QED BY <3>1, FewerPlaces DEF ManagerInv, TypeOK
  <2>3. TypeOK'
    BY <2>1, <2>2 DEF ManagerInv, TypeOK, FlowStates
  <2>4. Placed'
    BY <2>1 DEF ManagerInv, TypeOK, Placed, Active
  <2>5. AnswersInOrder'
    BY <2>1, OrderStays DEF ManagerInv, TypeOK
  <2> QED BY <2>2, <2>3, <2>4, <2>5 DEF ManagerInv
<1> QED BY <1>1, <1>2, <1>3

LEMMA NextKeepsManager ==
    ASSUME ~LongWork, ManagerInv, [Next]_vars
    PROVE  ManagerInv'
<1>1. CASE UNCHANGED vars
  BY <1>1 DEF vars, ManagerInv, TypeOK, Placed, Active, AnswersInOrder
<1>2. CASE Prune
  <2>1. stale' = {}
    BY <1>2 DEF Prune, Expired
  <2> QED BY <1>2, <2>1, PruningKeeps DEF Prune
<1>3. CASE Refuse
  <2>1. stale' = {}
    BY <1>3 DEF Refuse, Expired
  <2> QED BY <1>3, <2>1, PruningKeeps DEF Refuse
<1>4. ASSUME NEW s \in Sessions, Request(s)
      PROVE  ManagerInv'
  <2>1. CASE Start(s)
    <3>1. StartOf(s, MaxSessions) /\ display' \subseteq Sessions
      BY <2>1 DEF Start, ManagerInv, TypeOK
    <3>2. MaxSessions \in 1 .. MaxSessions
      BY SessionsAssumption
    <3> QED BY <3>1, <3>2, StartKeeps
  <2>2. CASE PresentCard(s)
    <3>1. StartOf(s, 1) /\ display' \subseteq Sessions
      BY <2>2 DEF PresentCard, ManagerInv, TypeOK
    <3>2. 1 \in 1 .. MaxSessions
      BY SessionsAssumption
    <3> QED BY <3>1, <3>2, StartKeeps
  <2>3. CASE AnswerRefused(s)
    <3>1. stale' = {}
      BY <2>3 DEF AnswerRefused, Expired
    <3> QED BY <2>3, <3>1, PruningKeeps DEF AnswerRefused
  <2>4. CASE \E n \in 1 .. MaxPrompts[s] : Answer(s, n)
    BY <2>4, AnswerKeeps, SessionsAssumption
  <2> QED BY <1>4, <2>1, <2>2, <2>3, <2>4 DEF Request
<1>5. ASSUME NEW s \in Sessions, Leave(s)
      PROVE  ManagerInv'
  BY <1>5 DEF Leave, ManagerInv, TypeOK, Placed, Active, AnswersInOrder
<1>6. ASSUME NEW s \in Sessions, TimePasses(s)
      PROVE  ManagerInv'
  BY <1>6 DEF TimePasses, ManagerInv, TypeOK, Placed, Active, AnswersInOrder
<1>7. ASSUME NEW s \in Sessions, FlowPrompts(s) \/ FlowEnds(s) \/ Flush(s)
      PROVE  ManagerInv'
  BY <1>7, FlowKeeps
<1> QED BY <1>1, <1>2, <1>3, <1>4, <1>5, <1>6, <1>7 DEF Next

\* The manager and its clients, without what fairness adds.
LEMMA SafetyKeepsManager ==
    ASSUME ~LongWork
    PROVE  Init /\ [][Next]_vars => []ManagerInv
<1>1. ManagerInv /\ [Next]_vars => ManagerInv'
  BY NextKeepsManager
<1> QED BY <1>1, InitManager, PTL

(***************************************************************************)
(* The manager by itself, with the fairness of its clients.                *)
(***************************************************************************)
LEMMA SpecManager ==
    ASSUME ~LongWork
    PROVE  Spec => []ManagerInv
<1>1. Spec => Init /\ [][Next]_vars
  BY DEF Spec
<1> QED BY <1>1, SafetyKeepsManager

\* The map of sessions never outgrows maxSessions, and flows, prompts and
\* answers stay what the manager takes them for (types.ts, index.ts).
THEOREM SpecSessionsTypeOK ==
    ASSUME ~LongWork
    PROVE  Spec => []TypeOK
<1>1. ManagerInv => TypeOK
  BY DEF ManagerInv
<1> QED BY <1>1, SpecManager, PTL

LEMMA PlacedIsAnswerable == ManagerInv => PromptAnswerable
BY DEF ManagerInv, Placed, Active, PromptAnswerable

\* A flow that is paused at a prompt can be resumed: neither the pruning of
\* expired and of completed sessions nor the end of a state() removes a session
\* whose prompt is pending, provided that no flow works past the time to live.
THEOREM SpecPromptAnswerable ==
    ASSUME ~LongWork
    PROVE  Spec => []PromptAnswerable
BY SpecManager, PlacedIsAnswerable, PTL

\* Prompts are answered in their order, each exactly once and by an answer that
\* bore its id, however late and often answers arrive and whatever expires: what
\* a flow goes on with is the customer's answer to the question it asked.
THEOREM SpecAnswersInOrder ==
    ASSUME ~LongWork
    PROVE  Spec => []AnswersInOrder
<1>1. ManagerInv => AnswersInOrder
  BY DEF ManagerInv
<1> QED BY <1>1, SpecManager, PTL

\* Only a presented card adds to display, and it leaves no other flow active.
LEMMA CardAlone ==
    ASSUME ManagerInv, NEW s \in Sessions, PresentCard(s),
           NEW t \in Sessions \ {s}
    PROVE  ~Active(t)'
<1> DEFINE left == live \ (Expired \cup Completed)
<1>1. left = {}
  <2>1. left \subseteq live
    OBVIOUS
  <2>2. IsFiniteSet(left) /\ Cardinality(left) < 1
    BY <2>1, FewerPlaces DEF PresentCard, StartOf, ManagerInv, TypeOK
  <2>3. Cardinality(left) = 0
    BY <2>2, FS_CardinalityType
  <2> QED BY <2>2, <2>3, FS_EmptySet
<1>2. FlowsAfterPruning \in [Sessions -> FlowStates]
  BY PrunedFlows
<1>3. flow'[t] = FlowsAfterPruning[t]
  BY <1>2 DEF PresentCard, StartOf
<1>4. FlowsAfterPruning[t] \in {"working", "prompting"} =>
         FlowsAfterPruning[t] = flow[t] /\ t \in live \ Expired
  BY PrunedFlows
<1> QED BY <1>1, <1>3, <1>4 DEF Active, Completed

LEMMA NextDisplayAlone ==
    ASSUME ManagerInv, [Next]_vars, NEW s \in display' \ display,
           NEW t \in Sessions \ {s}
    PROVE  ~Active(t)'
<1>1. PICK c \in Sessions : PresentCard(c)
  BY DEF Next, vars, Prune, Refuse, Request, Start, PresentCard, AnswerRefused,
         Answer, Leave, TimePasses, FlowPrompts, FlowEnds, Flush
<1>2. s = c
  BY <1>1 DEF PresentCard
<1> QED BY <1>1, <1>2, CardAlone

\* A presented card starts a session only when no other flow is under way.
THEOREM SpecDisplayAlone ==
    ASSUME ~LongWork
    PROVE  Spec => DisplayAlone
<1>1. ManagerInv /\ [Next]_vars =>
         [\A s \in Sessions : s \in display' \ display =>
             \A t \in Sessions \ {s} : ~Active(t)']_vars
  BY NextDisplayAlone
<1> QED BY <1>1, SpecManager, PTL DEF Spec, DisplayAlone

(***************************************************************************)
(* The terminal: the manager behind its page.  What the page knows of a    *)
(* session is on its screen, in its request or in an event it has yet to   *)
(* handle, and in one of these only.                                       *)
(***************************************************************************)
Stages == {"boot", "idle", "processing", "error", "prompt", "result", "card-detected"}
Phases == {"none", "sent", "awaited", "replied", "failed"}
EventTypes == {"card-detected", "activation-failed", "session-started"}
SessionOrNone == Sessions \cup {NoSession}
Events == {event \in [type : EventTypes, session : SessionOrNone, prompt : Nat] :
              event.type = "session-started" => event.session \in Sessions}

PageTyped ==
    /\ page \in [stage : Stages, session : SessionOrNone, prompt : Nat]
    /\ call \in [phase : Phases, session : SessionOrNone, prompt : Nat]
    /\ published \in Seq(Events)
    /\ stream \in [open : BOOLEAN, last : Nat, next : Int]
    /\ stream.open => stream.next > stream.last

\* The session of a prompt that is offered to the page has asked it, and it
\* waits there for as long as it has not expired.
Offered(s, n) ==
    /\ s \in Sessions /\ n \in Nat \ {0}
    /\ prompt[s] >= 1
    /\ s \in live \ stale => flow[s] = "prompting" /\ prompt[s] = n

Knows(s) == call.session = s \/ (page.stage = "prompt" /\ page.session = s)

\* The events by which the page learns of a prompt, and those it will handle.
Announces(i, s, n) == published[i] = DisplayEvent("session-started", s, n)
ToHandle(i) == IF stream.last # 0 THEN i > stream.last
               ELSE stream.open /\ i >= stream.next

NewSessions ==
    /\ gone = {}
    /\ \A s \in Sessions : flow[s] = "none" => prompt[s] = 0 /\ s \notin display

ScreenInv ==
    /\ call.phase # "none" => page.stage = "processing"
    /\ page.stage = "prompt" => Offered(page.session, page.prompt)

CallInv ==
    /\ call.phase = "replied" /\ call.prompt # 0 => Offered(call.session, call.prompt)
    /\ call.session \in Sessions =>
          /\ flow[call.session] # "none"
          /\ call.session \in display => prompt[call.session] >= 1

EventsInv ==
    \A i \in 1 .. Len(published), s \in Sessions, n \in Nat \ {0} :
        Announces(i, s, n) =>
           /\ prompt[s] >= 1
           /\ ToHandle(i) => Offered(s, n) /\ ~Knows(s)
           /\ \A j \in 1 .. Len(published), m \in Nat \ {0} : Announces(j, s, m) => j = i

PageInv == PageTyped /\ NewSessions /\ ScreenInv /\ CallInv /\ EventsInv

LEMMA InitPage == PageInit => ManagerInv /\ PageInv
<1> SUFFICES ASSUME PageInit PROVE ManagerInv /\ PageInv
  OBVIOUS
<1>1. ManagerInv
  BY InitManager DEF PageInit
<1>2. PageTyped
  BY DEF PageInit, PageTyped, Page, NoCall, Call, NewStream, Stages, Phases, SessionOrNone
<1>3. NewSessions
  BY DEF PageInit, Init, NewSessions
<1>4. ScreenInv /\ CallInv
  BY PageAssumption DEF PageInit, ScreenInv, CallInv, Page, NoCall, Call
<1>5. EventsInv
  BY DEF PageInit, EventsInv
<1> QED BY <1>1, <1>2, <1>3, <1>4, <1>5 DEF PageInv

\* The steps of the manager that accept no answer.
Quiet(t) ==
    \/ /\ t \in Sessions
       /\ \/ Start(t) \/ PresentCard(t) \/ AnswerRefused(t) \/ TimePasses(t)
          \/ FlowPrompts(t) \/ FlowEnds(t) \/ Flush(t)
    \/ Refuse \/ Prune \/ UNCHANGED vars

\* Nothing but its own answer takes a session from the prompt it offers.
LEMMA OfferKept ==
    ASSUME ManagerInv, NewSessions, NEW s, NEW n, Offered(s, n), NEW t,
           Quiet(t) \/ (t # s /\ \E m : Answer(t, m))
    PROVE  Offered(s, n)'
<1> USE DEF ManagerInv, TypeOK, Placed, Active, Offered
<1>1. CASE t \in Sessions /\ (Start(t) \/ PresentCard(t))
  <2>1. flow[t] = "none" /\ t # s
    BY <1>1, SessionsAssumption DEF Start, PresentCard, StartOf, NewSessions
  <2>2. /\ live' = (live \ (Expired \cup Completed)) \cup {t} /\ prompt' = prompt
        /\ flow' = [FlowsAfterPruning EXCEPT ![t] = "working"]
    BY <1>1 DEF Start, PresentCard, StartOf
  <2> QED BY <2>1, <2>2 DEF FlowsAfterPruning, Expired
<1>2. CASE AnswerRefused(t) \/ Refuse \/ Prune
  BY <1>2 DEF AnswerRefused, Refuse, Prune, FlowsAfterPruning, Expired
<1>3. CASE TimePasses(t) \/ UNCHANGED vars
  BY <1>3 DEF TimePasses, vars
<1>4. CASE t \in Sessions /\ (FlowPrompts(t) \/ FlowEnds(t))
  <2>1. (flow[t] = "working" /\ t # s) \/ s \notin live \ stale
    BY <1>4 DEF FlowPrompts, FlowEnds
  <2>2. prompt'[s] >= 1
    BY <1>4 DEF FlowPrompts, FlowEnds
  <2> QED BY <1>4, <2>1, <2>2 DEF FlowPrompts, FlowEnds
<1>5. CASE t \in Sessions /\ Flush(t)
  BY <1>5 DEF Flush
<1>6. CASE t # s /\ \E m : Answer(t, m)
  BY <1>6 DEF Answer, FlowsAfterPruning, Expired
<1> QED BY <1>1, <1>2, <1>3, <1>4, <1>5, <1>6 DEF Quiet

\* A session that has been started is never again taken for a new one.
LEMMA StartedOnce ==
    ASSUME ManagerInv, NewSessions, NEW t, Quiet(t) \/ \E m : Answer(t, m)
    PROVE  /\ NewSessions'
           /\ \A s \in Sessions :
                 /\ flow[s] # "none" => flow'[s] # "none"
                 /\ flow[s] # "none" /\ s \in display' => s \in display
                 /\ prompt[s] >= 1 => prompt'[s] >= 1
<1> USE DEF ManagerInv, TypeOK, NewSessions
<1>1. CASE t \in Sessions /\ (Start(t) \/ PresentCard(t))
  <2>1. /\ flow[t] = "none" /\ prompt' = prompt /\ gone' = gone
        /\ flow' = [FlowsAfterPruning EXCEPT ![t] = "working"]
        /\ display' \in {display, display \cup {t}}
    BY <1>1 DEF Start, PresentCard, StartOf
  <2> QED BY <2>1 DEF FlowsAfterPruning
<1>2. CASE AnswerRefused(t) \/ Refuse \/ Prune
  BY <1>2 DEF AnswerRefused, Refuse, Prune, FlowsAfterPruning
<1>3. CASE TimePasses(t) \/ UNCHANGED vars
  BY <1>3 DEF TimePasses, vars
<1>4. CASE t \in Sessions /\ FlowPrompts(t)
  <2>1. /\ flow[t] = "working" /\ flow' = [flow EXCEPT ![t] = "prompting"]
        /\ prompt' = [prompt EXCEPT ![t] = @ + 1]
        /\ gone' = gone /\ display' = display
    BY <1>4 DEF FlowPrompts
  <2> QED BY <2>1
<1>5. CASE t \in Sessions /\ (FlowEnds(t) \/ Flush(t))
  BY <1>5 DEF FlowEnds, Flush
<1>6. CASE \E m : Answer(t, m)
  BY <1>6 DEF Answer, FlowsAfterPruning
<1> QED BY <1>1, <1>2, <1>3, <1>4, <1>5, <1>6 DEF Quiet

\* What the page, the network and the customer do behind the manager's back.
LEMMA SameOffers ==
    ASSUME UNCHANGED vars
    PROVE  /\ \A s, n : Offered(s, n)' <=> Offered(s, n)
           /\ NewSessions' <=> NewSessions
BY DEF vars, Offered, NewSessions

LEMMA ScreenSteps ==
    ASSUME PageInv, \/ CampaignsLoaded \/ StartSession \/ AnswerShown \/ Reset
                    \/ Reply \/ RequestBreaks \/ Reload
    PROVE  PageInv'
<1> USE DEF PageInv, Shows, Page, Call, NoCall
<1>1. UNCHANGED <<vars, published>>
  BY DEF CampaignsLoaded, StartSession, AnswerShown, Reset, Reply, RequestBreaks, Reload
<1>2. PageTyped'
  <2> USE DEF PageTyped, Stages, Phases, SessionOrNone
  <2>1. CASE CampaignsLoaded \/ StartSession \/ AnswerShown \/ Reset
    BY <2>1, <1>1 DEF CampaignsLoaded, StartSession, AnswerShown, Reset
  <2>2. CASE Reply \/ RequestBreaks
    BY <2>2, <1>1 DEF Reply, RequestBreaks
  <2>3. CASE Reload
    BY <2>3, <1>1 DEF Reload, NewStream
  <2> QED BY <2>1, <2>2, <2>3
<1>3. NewSessions'
  BY <1>1, SameOffers
<1>4. ScreenInv' /\ CallInv'
  <2> USE PageAssumption, <1>1, SameOffers DEF PageTyped, ScreenInv, CallInv, vars
  <2>1. CASE CampaignsLoaded \/ StartSession
    BY <2>1 DEF CampaignsLoaded, StartSession
  <2>2. CASE AnswerShown
    BY <2>2 DEF AnswerShown, Offered, NewSessions
  <2>3. CASE Reset \/ Reply
    BY <2>3 DEF Reset, Reply
  <2>4. CASE RequestBreaks \/ Reload
    BY <2>4 DEF RequestBreaks, Reload
  <2> QED BY <2>1, <2>2, <2>3, <2>4
<1>5. EventsInv'
  <2>1. \A s \in Sessions : Knows(s)' => Knows(s)
    <3> USE PageAssumption DEF PageTyped, Knows
    <3>1. CASE CampaignsLoaded \/ StartSession \/ AnswerShown
      BY <3>1 DEF CampaignsLoaded, StartSession, AnswerShown
    <3>2. CASE Reset \/ Reply
      BY <3>2 DEF Reset, Reply
    <3>3. CASE RequestBreaks \/ Reload
      BY <3>3 DEF RequestBreaks, Reload
    <3> QED BY <3>1, <3>2, <3>3
  <2>2. \A i : ToHandle(i)' => ToHandle(i)
    BY DEF ToHandle, NewStream, CampaignsLoaded, StartSession, AnswerShown, Reset,
           Reply, RequestBreaks, Reload
  <2>3. prompt' = prompt /\ published' = published
    BY <1>1 DEF vars
  <2>4. \A j, s, n : Announces(j, s, n)' <=> Announces(j, s, n)
    BY <2>3, Zenon DEF Announces
  <2> QED BY <1>1, <2>1, <2>2, <2>3, <2>4, SameOffers DEF EventsInv
<1> QED BY <1>2, <1>3, <1>4, <1>5

\* Of two numbers Max takes one, and neither is greater.
LEMMA MaxOfTwo ==
    ASSUME NEW a \in Int, NEW b \in Int
    PROVE  Max({a, b}) \in Int /\ Max({a, b}) >= a
<1>1. \E x \in {a, b} : \A y \in {a, b} : x >= y
  OBVIOUS
<1>2. Max({a, b}) \in {a, b} /\ \A y \in {a, b} : Max({a, b}) >= y
  BY <1>1 DEF Max
<1> QED BY <1>2

LEMMA StreamSteps ==
    ASSUME PageInv, OpenStream \/ StreamBreaks \/ HandleEvent
    PROVE  PageInv'
<1> USE DEF PageInv
<1>1. UNCHANGED <<vars, call, published>>
  BY DEF OpenStream, Connects, StreamBreaks, HandleEvent
<1>2. NewSessions'
  BY <1>1, SameOffers
<1>3. CASE OpenStream \/ StreamBreaks
  <2>1. UNCHANGED page
    BY <1>3 DEF OpenStream, Connects, StreamBreaks
  <2>2. Len(published) \in Nat /\ HistoryLimit \in Nat /\ stream.last \in Nat
    BY PageAssumption DEF PageTyped
  <2>3. ASSUME OpenStream
        PROVE  /\ stream' \in [open : BOOLEAN, last : Nat, next : Int]
               /\ stream'.open => stream'.next > stream'.last
               /\ \A i \in 1 .. Len(published) : ToHandle(i)' => ToHandle(i)
    <3> DEFINE next == IF stream.last = 0 THEN Len(published) + 1
                       ELSE Max({stream.last + 1, Len(published) - HistoryLimit + 1})
    <3>1. next \in Int /\ next > stream.last
      <4> DEFINE a == stream.last + 1
                 b == Len(published) - HistoryLimit + 1
      <4>1. a \in Int /\ b \in Int
        BY <2>2
      <4> HIDE DEF a, b
      <4>2. Max({a, b}) \in Int /\ Max({a, b}) >= a
        BY <4>1, MaxOfTwo
      <4> QED BY <4>2, <2>2 DEF a, b
    <3>2. stream' = [stream EXCEPT !.open = TRUE, !.next = next]
      BY <2>3 DEF OpenStream, Connects
    <3> HIDE DEF next
    <3>3. /\ stream' \in [open : BOOLEAN, last : Nat, next : Int]
          /\ stream'.next > stream'.last /\ stream'.last = stream.last
          /\ stream'.next = next
      BY <3>1, <3>2 DEF PageTyped
    <3>4. \A i \in 1 .. Len(published) : ToHandle(i)' => ToHandle(i)
      BY <3>3, <2>2 DEF ToHandle, next
    <3> QED BY <3>3, <3>4
  <2>4. ASSUME StreamBreaks
        PROVE  /\ stream' \in [open : BOOLEAN, last : Nat, next : Int]
               /\ stream'.open => stream'.next > stream'.last
               /\ \A i \in 1 .. Len(published) : ToHandle(i)' => ToHandle(i)
    <3>1. stream' = [stream EXCEPT !.open = FALSE]
      BY <2>4 DEF StreamBreaks
    <3>2. /\ stream' \in [open : BOOLEAN, last : Nat, next : Int]
          /\ ~stream'.open /\ stream'.last = stream.last
      BY <3>1 DEF PageTyped
    <3> QED BY <3>2 DEF ToHandle
  <2>5. /\ stream' \in [open : BOOLEAN, last : Nat, next : Int]
        /\ stream'.open => stream'.next > stream'.last
        /\ \A i \in 1 .. Len(published) : ToHandle(i)' => ToHandle(i)
    BY <1>3, <2>3, <2>4
  <2>8. PageTyped'
    BY <1>1, <2>1, <2>5 DEF PageTyped
  <2>6. ScreenInv' /\ CallInv'
    BY <1>1, <2>1, SameOffers DEF ScreenInv, CallInv, vars
  <2>7. EventsInv'
    <3>1. /\ prompt' = prompt /\ published' = published
          /\ \A s : Knows(s)' <=> Knows(s)
      BY <1>1, <2>1 DEF vars, Knows
    <3>2. \A j, s, n : Announces(j, s, n)' <=> Announces(j, s, n)
      BY <3>1, Zenon DEF Announces
    <3> QED BY <1>1, <2>5, <3>1, <3>2, SameOffers DEF EventsInv
  <2> QED BY <1>2, <2>6, <2>7, <2>8
<1>4. CASE HandleEvent
  <2> DEFINE i == stream.next
             event == published[i]
  <2>1. /\ stream.open /\ i \in 1 .. Len(published) /\ event \in Events
        /\ ToHandle(i)
    <3>1. stream.open /\ i <= Len(published) /\ i > stream.last /\ i \in Int
          /\ stream.last \in Nat /\ Len(published) \in Nat
      BY <1>4 DEF HandleEvent, PageTyped
    <3> QED BY <3>1 DEF PageTyped, ToHandle
  <2>2. /\ stream' = [stream EXCEPT !.last = i, !.next = i + 1]
        /\ page' = Display(event)
    BY <1>4 DEF HandleEvent
  <2>3. \/ page' = page
        \/ /\ page.stage \notin {"processing", "prompt"}
           /\ \/ page' = [page EXCEPT !.stage = "card-detected"]
              \/ page' = [page EXCEPT !.stage = "error"]
              \/ page' = Page("result", event.session, event.prompt)
              \/ /\ event.type = "session-started" /\ event.prompt # 0
                 /\ page' = Page("prompt", event.session, event.prompt)
    BY <2>1, <2>2 DEF Display, Events, EventTypes
  <2>4. i \in Nat /\ i # 0 /\ i + 1 \in Int /\ i + 1 > i
    BY <2>1, <1>4 DEF PageTyped, HandleEvent
  <2>5. i > stream.last
    BY <2>1 DEF PageTyped
  <2> HIDE DEF i
  <2>6. /\ stream' \in [open : BOOLEAN, last : Nat, next : Int]
        /\ stream'.next > stream'.last /\ stream'.last = i
    <3>1. stream' = [[stream EXCEPT !.last = i] EXCEPT !.next = i + 1]
      BY <2>2
    <3> QED BY <2>4, <3>1 DEF PageTyped
  <2>7. \A j \in 1 .. Len(published) : ToHandle(j)' => ToHandle(j) /\ j # i
    BY <2>1, <2>4, <2>5, <2>6 DEF ToHandle, PageTyped
  <2>8. page' \in [stage : Stages, session : SessionOrNone, prompt : Nat]
    BY <2>1, <2>3 DEF PageTyped, Page, Stages, Events
  <2>9. PageTyped' /\ CallInv'
    BY <1>1, <2>6, <2>8, SameOffers DEF PageTyped, CallInv, vars
  <2>10. /\ prompt' = prompt /\ published' = published /\ call' = call
         /\ \A j, s, n : Announces(j, s, n)' <=> Announces(j, s, n)
    <3>1. prompt' = prompt /\ published' = published /\ call' = call
      BY <1>1 DEF vars
    <3> QED BY <3>1, Zenon DEF Announces
  <2>11. ASSUME page' = page \/ (page'.stage # "prompt" /\ page.stage # "processing")
         PROVE  ScreenInv' /\ EventsInv'
    <3>1. \A s \in Sessions : Knows(s)' => Knows(s)
      BY <2>10, <2>11 DEF Knows
    <3>2. ScreenInv'
      BY <1>1, <2>10, <2>11, SameOffers DEF ScreenInv
    <3>3. EventsInv'
      BY <1>1, <2>7, <2>10, <3>1, SameOffers DEF EventsInv
    <3> QED BY <3>2, <3>3
  <2>12. ASSUME page.stage # "processing", event.type = "session-started",
                event.prompt # 0, page' = Page("prompt", event.session, event.prompt)
         PROVE  ScreenInv' /\ EventsInv'
    <3> DEFINE c == event.session
               n == event.prompt
    <3>1. c \in Sessions /\ n \in Nat \ {0} /\ event = DisplayEvent("session-started", c, n)
      BY <2>1, <2>12 DEF Events, DisplayEvent
    <3>2. Announces(i, c, n)
      BY <3>1 DEF Announces
    <3> HIDE DEF c, n, event
    <3>3. Offered(c, n)
      BY <2>1, <3>1, <3>2 DEF EventsInv
    <3>4. /\ page'.stage = "prompt" /\ page'.session = c /\ page'.prompt = n
          /\ call.phase = "none"
      BY <2>12 DEF Page, ScreenInv, c, n
    <3>5. ScreenInv'
      BY <1>1, <2>10, <3>3, <3>4, SameOffers DEF ScreenInv
    <3>6. \A s \in Sessions : Knows(s)' => Knows(s) \/ s = c
      BY <2>10, <3>4 DEF Knows
    <3>7. \A j \in 1 .. Len(published), m \in Nat \ {0} : Announces(j, c, m) => j = i
      BY <2>1, <3>1, <3>2 DEF EventsInv
    <3>8. EventsInv'
      BY <1>1, <2>7, <2>10, <3>6, <3>7, SameOffers DEF EventsInv
    <3> QED BY <3>5, <3>8
  <2>13. ScreenInv' /\ EventsInv'
    <3>1. CASE page' = page
      BY <3>1, <2>11
    <3>2. CASE page' \in {[page EXCEPT !.stage = "card-detected"],
                          [page EXCEPT !.stage = "error"],
                          Page("result", event.session, event.prompt)}
               /\ page.stage # "processing"
      <4>1. page'.stage # "prompt"
        BY <3>2 DEF PageTyped, Page
      <4> QED BY <3>2, <4>1, <2>11
    <3> QED BY <2>3, <2>12, <3>1, <3>2
  <2> QED BY <1>2, <2>9, <2>13
<1> QED BY <1>3, <1>4

\* What the server does: a step of the manager, that may take the page's request
\* a step further and publish an event.  An answer is the page's own, and an
\* event announces a prompt to a page that knows nothing of the session.
LEMMA ServerKeeps ==
    ASSUME ManagerInv, PageInv, PageTyped', NEW t,
           \/ Quiet(t)
           \/ /\ call.phase = "sent" /\ call.session = t /\ call'.phase = "awaited"
              /\ \E m : Answer(t, m),
           UNCHANGED <<page, stream>>,
           call'.phase # "none" => call.phase # "none",
           \A s, n : call' = Call("replied", s, n) /\ n # 0 =>
              call' = call \/ Offered(s, n)',
           \A s \in Sessions : call'.session = s =>
              \/ call.session = s
              \/ flow[s] = "none" /\ flow'[s] # "none" /\ s \notin display',
           \/ published' = published
           \/ \E event \in Events :
                 /\ published' = Append(published, event)
                 /\ \A s \in Sessions, n \in Nat \ {0} :
                       event = DisplayEvent("session-started", s, n) =>
                          prompt[s] = 0 /\ prompt'[s] >= 1 /\ Offered(s, n)' /\ ~Knows(s)'
    PROVE  PageInv'
<1> USE DEF PageInv
<1>1. /\ NewSessions'
      /\ \A s \in Sessions :
            /\ flow[s] # "none" => flow'[s] # "none"
            /\ flow[s] # "none" /\ s \in display' => s \in display
            /\ prompt[s] >= 1 => prompt'[s] >= 1
  BY StartedOnce
<1>2. \A s, n : Offered(s, n) =>
         \/ Offered(s, n)'
         \/ call.session = s /\ call.phase = "sent" /\ call'.phase = "awaited"
  BY OfferKept
<1>3. ScreenInv'
  BY <1>2 DEF ScreenInv
<1>4. CallInv'
  <2>1. \A s \in Sessions : call'.session = s =>
           /\ flow'[s] # "none"
           /\ s \in display' => prompt'[s] >= 1
    BY <1>1 DEF CallInv
  <2>2. ASSUME call'.phase = "replied", call'.prompt # 0
        PROVE  Offered(call.session, call.prompt)'
    <3>1. PICK s, n : call' = Call("replied", s, n) /\ s = call'.session /\ n = call'.prompt
      BY <2>2 DEF PageTyped, Call
    <3>2. Offered(s, n)'
      BY <1>2, <2>2, <3>1 DEF CallInv
    <3> QED BY <3>1, <3>2
  <2> QED BY <2>1, <2>2 DEF CallInv
<1>5. \A s \in Sessions : Knows(s)' => Knows(s) \/ prompt[s] = 0
  BY DEF Knows, NewSessions
<1>6. \A i : ToHandle(i)' <=> ToHandle(i)
  BY DEF ToHandle
<1>7. EventsInv'
  <2>1. CASE published' = published
    <3>1. \A j, s, n : Announces(j, s, n)' <=> Announces(j, s, n)
      BY <2>1, Zenon DEF Announces
    <3> QED BY <1>1, <1>2, <1>5, <1>6, <2>1, <3>1 DEF EventsInv, Knows
  <2>2. ASSUME NEW event \in Events, published' = Append(published, event),
               \A s \in Sessions, n \in Nat \ {0} :
                  event = DisplayEvent("session-started", s, n) =>
                     prompt[s] = 0 /\ prompt'[s] >= 1 /\ Offered(s, n)' /\ ~Knows(s)'
        PROVE  EventsInv'
    <3> DEFINE new == Len(published) + 1
    <3>1. /\ Len(published) \in Nat /\ Len(published') = new
          /\ published'[new] = event
          /\ \A j \in 1 .. Len(published) : published'[j] = published[j]
      BY <2>2 DEF PageTyped
    <3>2. \A s, n : \A j \in 1 .. Len(published') :
             /\ j \in 1 .. Len(published) => (Announces(j, s, n)' <=> Announces(j, s, n))
             /\ j \notin 1 .. Len(published) =>
                   /\ j = new
                   /\ Announces(j, s, n)' <=> event = DisplayEvent("session-started", s, n)
      BY <3>1 DEF Announces
    <3> QED BY <1>1, <1>2, <1>5, <1>6, <2>2, <3>1, <3>2 DEF EventsInv, Knows
  <2> QED BY <2>1, <2>2
<1> QED BY <1>1, <1>3, <1>4, <1>7

LEMMA ServerIsManager ==
    ASSUME ManagerInv, NewSessions, NEW t, Quiet(t) \/ \E m : Answer(t, m)
    PROVE  [Next]_vars
<1>1. CASE \E m : Answer(t, m)
  <2>1. PICK m : Answer(t, m)
    BY <1>1
  <2>2. t \in Sessions
    BY <2>1 DEF Answer, ManagerInv, TypeOK
  <2>3. m \in 1 .. MaxPrompts[t]
    BY <2>1, <2>2 DEF Answer, ManagerInv, Placed
  <2> QED BY <2>1, <2>2, <2>3 DEF Next, Request, NewSessions
<1>2. CASE Quiet(t)
  BY <1>2 DEF Quiet, Next, Request, NewSessions
<1> QED BY <1>1, <1>2

LEMMA ServeRequestKeeps ==
    ASSUME ManagerInv, PageInv, ServeRequest
    PROVE  [Next]_vars /\ PageInv'
<1> USE PageAssumption DEF PageInv
<1>1. call.phase = "sent" /\ UNCHANGED <<page, published, stream>>
  BY DEF ServeRequest
<1>2. ASSUME call' = Failed(call.session) \/ (call' = Failed(NoSession))
      PROVE  /\ PageTyped' /\ call'.phase = "failed"
             /\ \A s \in Sessions : call'.session = s => call.session = s
             /\ \A s, n : call' # Call("replied", s, n)
  BY <1>1, <1>2 DEF PageTyped, Failed, Call, Phases, SessionOrNone
<1>3. CASE \E s \in PageSessions : Start(s) /\ call' = Call("awaited", s, 0)
  <2>1. PICK t \in PageSessions : Start(t) /\ call' = Call("awaited", t, 0)
    BY <1>3
  <2>2. t \in Sessions /\ Quiet(t)
    BY <2>1 DEF Quiet
  <2>3. /\ PageTyped' /\ call'.session = t
        /\ \A s, n : call' # Call("replied", s, n)
    BY <1>1, <2>1, <2>2 DEF PageTyped, Call, Phases, SessionOrNone
  <2>4. flow[t] = "none" /\ flow'[t] # "none" /\ t \notin display'
    <3>1. FlowsAfterPruning \in [Sessions -> FlowStates]
      BY PrunedFlows
    <3> QED BY <2>1, <2>2, <3>1 DEF Start, StartOf, NewSessions
  <2>5. PageInv'
    BY <1>1, <2>2, <2>3, <2>4, ServerKeeps
  <2> QED BY <2>2, <2>5, ServerIsManager
<1>4. CASE /\ call' \in {Failed(NoSession), Failed(call.session)}
           /\ \/ Refuse \/ Prune \/ UNCHANGED vars
              \/ AnswerRefused(call.session)
  <2>1. Quiet(call.session)
    BY <1>4 DEF Quiet, AnswerRefused, ManagerInv, TypeOK
  <2>2. PageInv'
    BY <1>1, <1>2, <1>4, <2>1, ServerKeeps
  <2> QED BY <2>1, <2>2, ServerIsManager
<1>5. CASE Answer(call.session, call.prompt) /\ call' = Call("awaited", call.session, 0)
  <2>1. /\ PageTyped' /\ call'.phase = "awaited" /\ call'.session = call.session
        /\ \A s, n : call' # Call("replied", s, n)
    BY <1>1, <1>5 DEF PageTyped, Call, Phases
  <2>2. PageInv'
    BY <1>1, <1>5, <2>1, ServerKeeps
  <2> QED BY <1>5, <2>2, ServerIsManager
<1> QED BY <1>3, <1>4, <1>5 DEF ServeRequest

LEMMA CardPresentedKeeps ==
    ASSUME ManagerInv, PageInv, CardPresented
    PROVE  [Next]_vars /\ PageInv'
<1> USE PageAssumption DEF PageInv
<1>1. UNCHANGED <<page, call, stream>>
  BY DEF CardPresented
<1>2. PICK t, event :
         /\ Quiet(t)
         /\ event \in Events /\ event.type # "session-started"
         /\ published' = Append(published, event)
  <2>1. CASE \E s \in PageSessions :
                /\ PresentCard(s)
                /\ published' = Append(published, DisplayEvent("card-detected", s, 0))
    <3>1. PICK s \in PageSessions :
             /\ PresentCard(s)
             /\ published' = Append(published, DisplayEvent("card-detected", s, 0))
      BY <2>1
    <3>2. DisplayEvent("card-detected", s, 0) \in Events
      BY DEF DisplayEvent, Events, EventTypes, SessionOrNone
    <3> QED BY <3>1, <3>2 DEF Quiet, DisplayEvent
  <2>2. CASE /\ published' = Append(published, DisplayEvent("activation-failed", NoSession, 0))
             /\ Refuse \/ UNCHANGED vars
    <3>1. DisplayEvent("activation-failed", NoSession, 0) \in Events
      BY DEF DisplayEvent, Events, EventTypes, SessionOrNone
    <3> QED BY <2>2, <3>1 DEF Quiet, DisplayEvent
  <2> QED BY <2>1, <2>2 DEF CardPresented
<1>3. PageTyped'
  <2>1. published' \in Seq(Events)
    BY <1>2 DEF PageTyped
  <2> QED BY <1>1, <2>1 DEF PageTyped
<1>4. \A s, n : event # DisplayEvent("session-started", s, n)
  BY <1>2 DEF DisplayEvent
<1>5. PageInv'
  BY <1>1, <1>2, <1>3, <1>4, ServerKeeps
<1> QED BY <1>2, <1>5, ServerIsManager

LEMMA ResumesKeeps ==
    ASSUME ManagerInv, PageInv, NEW s \in Sessions, NEW n \in Nat, NEW ok \in BOOLEAN,
           Quiet(s), UNCHANGED <<page, stream>>, Resumes(s, n, ok),
           n # 0 => Offered(s, n)'
    PROVE  PageInv'
<1> USE PageAssumption DEF PageInv
<1>1. /\ call' = call
         \/ /\ call.phase = "awaited" /\ call.session = s
            /\ call' = Call("replied", s, n) \/ call' = Call("failed", s, 0)
      /\ \/ published' = published
         \/ /\ s \in display /\ prompt[s] = 0
            /\ \/ published' = Append(published, DisplayEvent("session-started", s, n))
               \/ published' = Append(published, DisplayEvent("activation-failed", NoSession, 0))
  BY DEF Resumes, Failed
<1>2. /\ call' \in [phase : Phases, session : SessionOrNone, prompt : Nat]
      /\ call'.session = call.session
      /\ call'.phase # "none" => call.phase # "none"
      /\ \A t, m : call' = Call("replied", t, m) /\ m # 0 =>
            call' = call \/ (t = s /\ m = n)
  BY <1>1 DEF Call, PageTyped, Phases, SessionOrNone
<1> DEFINE Publishes ==
      \/ published' = published
      \/ \E event \in Events :
            /\ published' = Append(published, event)
            /\ \A t \in Sessions, m \in Nat \ {0} :
                  event = DisplayEvent("session-started", t, m) =>
                     prompt[t] = 0 /\ prompt'[t] >= 1 /\ Offered(t, m)' /\ ~Knows(t)'
<1>3. Publishes
  <2>1. ASSUME s \in display, prompt[s] = 0,
               published' = Append(published, DisplayEvent("session-started", s, n))
        PROVE  Publishes
    <3> DEFINE event == DisplayEvent("session-started", s, n)
    <3>1. event \in Events
      BY DEF DisplayEvent, Events, EventTypes, SessionOrNone
    <3>2. ~Knows(s)'
      <4>1. ~Knows(s)
        BY <2>1 DEF Knows, CallInv, ScreenInv, Offered
      <4> QED BY <1>2, <4>1 DEF Knows
    <3>3. \A t \in Sessions, m \in Nat \ {0} :
             event = DisplayEvent("session-started", t, m) => t = s /\ m = n
      BY DEF DisplayEvent
    <3>4. n # 0 => prompt'[s] >= 1
      BY DEF Offered
    <3> HIDE DEF event
    <3> QED BY <2>1, <3>1, <3>2, <3>3, <3>4 DEF event
  <2>2. ASSUME published' = Append(published, DisplayEvent("activation-failed", NoSession, 0))
        PROVE  Publishes
    <3> DEFINE event == DisplayEvent("activation-failed", NoSession, 0)
    <3>1. event \in Events
      BY DEF DisplayEvent, Events, EventTypes, SessionOrNone
    <3>2. \A t, m : event # DisplayEvent("session-started", t, m)
      BY DEF DisplayEvent
    <3> HIDE DEF event
    <3> QED BY <2>2, <3>1, <3>2 DEF event
  <2> QED BY <1>1, <2>1, <2>2
<1>4. PageTyped'
  <2>1. published' = published \/ \E event \in Events : published' = Append(published, event)
    BY <1>3, Zenon
  <2> HIDE DEF Publishes
  <2>2. published' \in Seq(Events)
    <3>1. CASE published' = published
      BY <3>1 DEF PageTyped
    <3>2. ASSUME NEW event \in Events, published' = Append(published, event)
          PROVE  published' \in Seq(Events)
      BY <3>2 DEF PageTyped
    <3> QED BY <2>1, <3>1, <3>2
  <2> QED BY <1>2, <2>2 DEF PageTyped
<1> QED BY <1>2, <1>3, <1>4, ServerKeeps

LEMMA FlowGoesOnKeeps ==
    ASSUME ManagerInv, PageInv, NEW s \in PageSessions, FlowGoesOn(s)
    PROVE  [Next]_vars /\ PageInv'
<1> USE PageAssumption
<1>1. s \in Sessions /\ Quiet(s) /\ UNCHANGED <<page, stream>>
  BY DEF FlowGoesOn, Quiet
<1>2. CASE FlowPrompts(s) /\ Resumes(s, prompt[s] + 1, TRUE)
  <2>1. PICK n \in Nat \ {0} : n = prompt[s] + 1
    BY <1>1 DEF ManagerInv, TypeOK
  <2>2. prompt'[s] = n /\ flow'[s] = "prompting"
    BY <1>1, <1>2, <2>1 DEF FlowPrompts, ManagerInv, TypeOK
  <2>3. Offered(s, n)'
    BY <1>1, <2>1, <2>2 DEF Offered
  <2>4. Resumes(s, n, TRUE)
    BY <1>2, <2>1
  <2>5. PageInv'
    BY <1>1, <2>1, <2>3, <2>4, ResumesKeeps
  <2> QED BY <1>1, <2>5, ServerIsManager DEF PageInv
<1>3. CASE FlowEnds(s) /\ UNCHANGED <<call, published>>
  <2>1. PageTyped'
    BY <1>1, <1>3 DEF PageInv, PageTyped
  <2>2. PageInv'
    BY <1>1, <1>3, <2>1, ServerKeeps
  <2> QED BY <1>1, <2>2, ServerIsManager DEF PageInv
<1> QED BY <1>2, <1>3 DEF FlowGoesOn

LEMMA FlowFlushedKeeps ==
    ASSUME ManagerInv, PageInv, NEW s \in PageSessions, FlowFlushed(s)
    PROVE  [Next]_vars /\ PageInv'
<1>1. s \in Sessions /\ Quiet(s) /\ UNCHANGED <<page, stream>>
  BY PageAssumption DEF FlowFlushed, Quiet
<1>2. PICK ok \in BOOLEAN : Resumes(s, 0, ok)
  BY DEF FlowFlushed
<1>3. PageInv'
  BY <1>1, <1>2, ResumesKeeps
<1> QED BY <1>1, <1>3, ServerIsManager DEF PageInv

LEMMA SessionExpiresKeeps ==
    ASSUME ManagerInv, PageInv, SessionExpires
    PROVE  [Next]_vars /\ PageInv'
<1>1. UNCHANGED pageVars /\ \E t : Quiet(t)
  BY PageAssumption DEF SessionExpires, Quiet
<1>2. PICK t : Quiet(t)
  BY <1>1
<1>3. PageTyped'
  BY <1>1 DEF pageVars, PageInv, PageTyped
<1>4. PageInv'
  BY <1>1, <1>2, <1>3, ServerKeeps DEF pageVars
<1> QED BY <1>2, <1>4, ServerIsManager DEF PageInv

\* Each step of the terminal is a step of the manager or leaves it alone, and
\* keeps what the page and the server know of each other.
LEMMA PageNextKeeps ==
    ASSUME ~LongWork, ManagerInv, PageInv, [PageNext]_allVars
    PROVE  [Next]_vars /\ ManagerInv' /\ PageInv'
<1>1. CASE UNCHANGED allVars
  <2>1. UNCHANGED vars /\ UNCHANGED pageVars
    BY <1>1 DEF allVars
  <2>2. \E t : Quiet(t)
    BY <2>1 DEF Quiet
  <2>3. PageTyped'
    BY <2>1 DEF pageVars, PageInv, PageTyped
  <2>4. PageInv'
    BY <2>1, <2>2, <2>3, ServerKeeps DEF pageVars
  <2> QED BY <2>1, <2>4, NextKeepsManager
<1>2. CASE \/ CampaignsLoaded \/ StartSession \/ AnswerShown \/ Reset \/ Reply
           \/ RequestBreaks \/ Reload
  <2>1. UNCHANGED vars
    BY <1>2 DEF CampaignsLoaded, StartSession, AnswerShown, Reset, Reply,
                RequestBreaks, Reload, Shows
  <2> QED BY <1>2, <2>1, ScreenSteps, NextKeepsManager
<1>3. CASE OpenStream \/ StreamBreaks \/ HandleEvent
  <2>1. UNCHANGED vars
    BY <1>3 DEF OpenStream, Connects, StreamBreaks, HandleEvent
  <2> QED BY <1>3, <2>1, StreamSteps, NextKeepsManager
<1>4. CASE ServeRequest \/ CardPresented \/ SessionExpires
  BY <1>4, ServeRequestKeeps, CardPresentedKeeps, SessionExpiresKeeps, NextKeepsManager
<1>5. CASE \E s \in PageSessions : FlowGoesOn(s) \/ FlowFlushed(s)
  BY <1>5, FlowGoesOnKeeps, FlowFlushedKeeps, NextKeepsManager
<1> QED BY <1>1, <1>2, <1>3, <1>4, <1>5 DEF PageNext

LEMMA TerminalInv ==
    ASSUME ~LongWork
    PROVE  PageSpec => [](ManagerInv /\ PageInv)
<1>1. ManagerInv /\ PageInv /\ [PageNext]_allVars => (ManagerInv /\ PageInv)'
  BY PageNextKeeps
<1> QED BY <1>1, InitPage, PTL DEF PageSpec

\* The terminal's page and its stream of events use the session manager as its
\* specification has it: what holds of the manager holds at the terminal.
THEOREM PageUsesManager ==
    ASSUME ~LongWork
    PROVE  PageSpec => Init /\ [][Next]_vars
<1>1. PageInit => Init
  BY DEF PageInit
<1>2. ManagerInv /\ PageInv /\ [PageNext]_allVars => [Next]_vars
  BY PageNextKeeps
<1> QED BY <1>1, <1>2, TerminalInv, PTL DEF PageSpec

\* In front of its page, too, the manager's prompts can be answered, and are
\* answered in their order, each once and by the answer that was given to it.
THEOREM PageSpecPromptsAnswered ==
    ASSUME ~LongWork
    PROVE  PageSpec => [](PromptAnswerable /\ AnswersInOrder)
<1>1. ManagerInv => PromptAnswerable /\ AnswersInOrder
  BY PlacedIsAnswerable DEF ManagerInv
<1> QED BY <1>1, TerminalInv, PTL

\* The prompt on the screen is the one its session waits at, unless the session
\* has expired: neither broken streams and requests nor events that are sent
\* again make the page show a prompt that is answered already.
THEOREM PageSpecShownPromptIsPending ==
    ASSUME ~LongWork
    PROVE  PageSpec => []ShownPromptIsPending
<1>1. ManagerInv /\ PageInv => ShownPromptIsPending
  BY DEF PageInv, ScreenInv, Offered, ShownPromptIsPending, Expired
<1> QED BY <1>1, TerminalInv, PTL
=============================================================================

------------------------- MODULE ReversalQueueProofs -------------------------
(***************************************************************************)
(* Proofs about ReversalQueue, for any number of processes, reversals and  *)
(* limits: the type invariant and the five safety invariants that the run  *)
(* checks on two processes.                                                *)
(*                                                                         *)
(* The invariant speaks of Whole, the file as the next operation under the *)
(* lock will find it: a complete last line without its newline counts, a   *)
(* torn one does not.  Kept says what Whole and its synchronised beginning *)
(* hold; Held, which locks a process has while it works; Work, what it may *)
(* rely on until it writes the next line.  What one process does keeps the *)
(* Work of the others because only the holder of the processors' lock      *)
(* sends, or ends what is pending (BystanderWork).                         *)
(***************************************************************************)
EXTENDS ReversalQueue, FiniteSetTheorems, TLAPS

\* The lines of the file as the next operation will find them.
Whole == IF tail \in {NoTail, Torn} THEN lines ELSE Append(lines, tail)

RecordedIn(s, type, id) ==
    \E n \in DOMAIN s : s[n].type = type /\ s[n].intent.id = id
PendingIn(s, id) == RecordedIn(s, "queued", id) /\ ~RecordedIn(s, "completed", id)

\* The recorded attempts of an id among the first n lines.
Attempts(s, n, id) ==
    Cardinality({k \in 1 .. n : s[k].type = "attempted" /\ s[k].intent.id = id})

QueuedBy(n, i) == \E k \in 1 .. n : lines[k] = Event("queued", i)

Readable(s) ==
    \A n \in DOMAIN s :
        /\ s[n].type = "queued" =>
              \A k \in 1 .. n - 1 : s[k].intent.id # s[n].intent.id
        /\ s[n].type # "queued" =>
              \E k \in 1 .. n - 1 : s[k].intent.id = s[n].intent.id /\ s[k].type = "queued"
        /\ s[n].type \notin {"queued", "completed"} =>
              \A k \in 1 .. n - 1 :
                 s[k].intent.id = s[n].intent.id => s[k].type # "completed"

\* What the file has to say.
Kept ==
    /\ Len(Whole) <= MaxEvents
    /\ Readable(Whole)
    /\ \A id \in Ids : RecordedIn(Whole, "completed", id) => id \in acknowledged
    /\ \A i \in written : QueuedBy(synced, i)
    /\ \A id \in Ids : sends[id] <= Attempts(lines, synced, id)
    /\ storeLock \in Callers => tail = NoTail

\* What a process that does something has for it.
Held(c) ==
    /\ step[c] # "calling" => storeLock = c /\ job[c] \in StoreJobs
    /\ job[c] \notin {"idle", "enqueue"} => processorLock = c
    /\ job[c] \in {"enqueue", "send", "waiting"} \cup Transitions => intent[c] \in Intents
    /\ step[c] = "present" => job[c] \in {"enqueue", "completed"}
    /\ step[c] = "written" => job[c] # "pending"

Work(c) ==
    /\ job[c] = "enqueue" /\ step[c] = "written" => QueuedBy(Len(lines), intent[c])
    /\ job[c] = "enqueue" /\ step[c] = "returned" => QueuedBy(synced, intent[c])
    /\ job[c] = "completed" => intent[c].id \in acknowledged
    /\ \/ job[c] \in {"send", "waiting"}
       \/ (job[c] = "attempted" /\ step[c] \in {"written", "returned"})
       => RecordedIn(lines, "queued", intent[c].id) /\ PendingIn(Whole, intent[c].id)
    /\ job[c] = "attempted" /\ step[c] = "written" =>
          sends[intent[c].id] < Attempts(lines, Len(lines), intent[c].id)
    /\ job[c] = "send" \/ (job[c] = "attempted" /\ step[c] = "returned") =>
          sends[intent[c].id] < Attempts(lines, synced, intent[c].id)

Inv == TypeOK /\ Kept /\ \A c \in Callers : Held(c) /\ Work(c)
-----------------------------------------------------------------------------
LEMMA EventFields ==
    \A type, of : Event(type, of).type = type /\ Event(type, of).intent = of
BY DEF Event

LEMMA TailKinds ==
    /\ NoTail # Torn
    /\ \A e \in Events : e # NoTail /\ e # Torn
<1>1. NoTail.type = "none" /\ Torn.type = "torn"
  BY DEF NoTail, Torn
<1>2. \A e \in Events : e.type \notin {"none", "torn"}
  BY DEF Events, Transitions
<1> QED BY <1>1, <1>2

LEMMA WholeFacts ==
    ASSUME TypeOK
    PROVE  /\ Whole \in Seq(Events)
           /\ Len(lines) <= Len(Whole)
           /\ \A n \in 1 .. Len(lines) : Whole[n] = lines[n]
           /\ tail \in {NoTail, Torn} => Whole = lines
           /\ tail \notin {NoTail, Torn} =>
                 Whole = Append(lines, tail) /\ Len(Whole) = Len(lines) + 1
BY DEF TypeOK, Whole

\* Attempts grow with the lines.
LEMMA AttemptsGrow ==
    ASSUME NEW s, NEW t, NEW n \in Nat, NEW m \in Nat, n <= m, NEW id,
           \A k \in 1 .. n : s[k] = t[k]
    PROVE  /\ Attempts(s, n, id) \in Nat
           /\ Attempts(s, n, id) <= Attempts(t, m, id)
           /\ n < m /\ t[m].type = "attempted" /\ t[m].intent.id = id =>
                 Attempts(s, n, id) < Attempts(t, m, id)
<1> DEFINE A == {k \in 1 .. n : s[k].type = "attempted" /\ s[k].intent.id = id}
           B == {k \in 1 .. m : t[k].type = "attempted" /\ t[k].intent.id = id}
<1>1. IsFiniteSet(1 .. n) /\ IsFiniteSet(1 .. m)
  BY FS_Interval
<1>2. IsFiniteSet(A) /\ IsFiniteSet(B)
  <2>1. A \in SUBSET (1 .. n) /\ B \in SUBSET (1 .. m)
    OBVIOUS
  <2> QED BY <1>1, <2>1, FS_Subset
<1>3. A \in SUBSET B
  OBVIOUS
<1>4. Cardinality(A) \in Nat /\ Cardinality(B) \in Nat /\ Cardinality(A) <= Cardinality(B)
  BY <1>2, <1>3, FS_CardinalityType, FS_Subset
<1>5. ASSUME n < m, t[m].type = "attempted", t[m].intent.id = id
      PROVE  Cardinality(A) < Cardinality(B)
  <2>1. m \in B /\ m \notin A
    BY <1>5
  <2>2. A # B
    BY <2>1
  <2> HIDE DEF A, B
  <2> QED BY <1>2, <1>3, <1>4, <2>2, FS_Subset
<1> QED BY <1>4, <1>5 DEF Attempts
-----------------------------------------------------------------------------
(***************************************************************************)
(* Bystanders: what one process does leaves the others what they rely on.  *)
(***************************************************************************)
LEMMA BystanderHeld ==
    ASSUME NEW d \in Callers, Held(d),
           job'[d] = job[d], step'[d] = step[d], intent'[d] = intent[d],
           storeLock = d => storeLock' = d,
           processorLock = d => processorLock' = d
    PROVE  Held(d)'
BY DEF Held

\* The file only grows at its end, and nobody but the process with the
\* processors' lock sends, or ends what is pending.
LEMMA BystanderWork ==
    ASSUME TypeOK, TypeOK', NEW d \in Callers, Held(d), Work(d),
           job'[d] = job[d], step'[d] = step[d], intent'[d] = intent[d],
           synced <= synced', Len(lines) <= Len(lines'),
           \A k \in 1 .. Len(lines) : lines'[k] = lines[k],
           acknowledged \subseteq acknowledged',
           processorLock = d =>
              /\ sends' = sends
              /\ \A id \in Ids : PendingIn(Whole, id) => PendingIn(Whole', id)
    PROVE  Work(d)'
<1>1. /\ synced \in Nat /\ synced' \in Nat
      /\ synced <= Len(lines) /\ Len(lines) \in Nat /\ Len(lines') \in Nat
  BY DEF TypeOK
<1>2. \A i : /\ QueuedBy(synced, i) => QueuedBy(synced, i)'
             /\ QueuedBy(Len(lines), i) => QueuedBy(Len(lines), i)'
  BY <1>1 DEF QueuedBy
<1>3. \A id : /\ Attempts(lines, synced, id) \in Nat /\ Attempts(lines', synced', id) \in Nat
              /\ Attempts(lines, Len(lines), id) \in Nat
              /\ Attempts(lines', Len(lines'), id) \in Nat
              /\ Attempts(lines, synced, id) <= Attempts(lines', synced', id)
              /\ Attempts(lines, Len(lines), id) <= Attempts(lines', Len(lines'), id)
  <2> TAKE id
  <2>1. /\ Attempts(lines, synced, id) \in Nat
        /\ Attempts(lines, synced, id) <= Attempts(lines', synced', id)
    <3>1. \A k \in 1 .. synced : lines[k] = lines'[k]
      BY <1>1
    <3> QED BY <1>1, <3>1, AttemptsGrow
  <2>2. /\ Attempts(lines, Len(lines), id) \in Nat
        /\ Attempts(lines, Len(lines), id) <= Attempts(lines', Len(lines'), id)
    <3>1. \A k \in 1 .. Len(lines) : lines[k] = lines'[k]
      OBVIOUS
    <3> QED BY <1>1, <3>1, AttemptsGrow
  <2>3. Attempts(lines', synced', id) \in Nat /\ Attempts(lines', Len(lines'), id) \in Nat
    BY <1>1, AttemptsGrow
  <2> QED BY <2>1, <2>2, <2>3
<1>4. job[d] \in {"send", "waiting", "attempted"} =>
         /\ processorLock = d
         /\ intent[d].id \in Ids /\ sends[intent[d].id] \in Nat
  BY DEF Held, Transitions, Ids, TypeOK
<1>5. \A id : RecordedIn(lines, "queued", id) => RecordedIn(lines', "queued", id)
  <2>1. DOMAIN lines = 1 .. Len(lines) /\ DOMAIN lines' = 1 .. Len(lines')
    BY DEF TypeOK
  <2> QED BY <1>1, <2>1 DEF RecordedIn
<1> QED BY <1>2, <1>3, <1>4, <1>5 DEF Work
-----------------------------------------------------------------------------
(***************************************************************************)
(* Steps that leave the file alone.                                        *)
(***************************************************************************)
LEMMA QuietKept ==
    ASSUME TypeOK, TypeOK', Kept, UNCHANGED file,
           acknowledged \subseteq acknowledged',
           \A i \in written' : i \in written \/ QueuedBy(synced, i),
           \A id \in Ids : sends'[id] = sends[id] \/ sends'[id] <= Attempts(lines, synced, id),
           storeLock' \in Callers => storeLock' = storeLock
    PROVE  Kept'
<1>1. Whole' = Whole /\ lines' = lines /\ synced' = synced /\ tail' = tail
  BY DEF file, Whole
<1>2. \A i : QueuedBy(synced, i)' = QueuedBy(synced, i)
  BY <1>1 DEF QueuedBy
<1> QED BY <1>1, <1>2 DEF Kept

LEMMA QuietStep ==
    ASSUME Inv, TypeOK', UNCHANGED file, NEW c \in Callers,
           \A d \in Callers \ {c} :
              job'[d] = job[d] /\ step'[d] = step[d] /\ intent'[d] = intent[d],
           acknowledged \subseteq acknowledged',
           sends' = sends \/ processorLock = c,
           storeLock' = storeLock \/ storeLock = c \/ storeLock \notin Callers,
           processorLock' = processorLock \/ processorLock = c \/ processorLock \notin Callers,
           Kept', Held(c)', Work(c)'
    PROVE  Inv'
<1>1. Whole' = Whole /\ lines' = lines /\ synced' = synced
  BY DEF file, Whole
<1>2. synced \in Nat /\ Len(lines) \in Nat
  BY DEF Inv, TypeOK
<1>3. ASSUME NEW d \in Callers \ {c}
      PROVE  Held(d)' /\ Work(d)'
  <2>1. Held(d)'
    BY <1>3, BystanderHeld DEF Inv
  <2>2. Work(d)'
    BY <1>1, <1>2, <1>3, BystanderWork DEF Inv
  <2> QED BY <2>1, <2>2
<1> QED BY <1>3 DEF Inv

\* What the code that awaited a store operation does next.
LEMMA ContinuationFacts ==
    ASSUME NEW task \in StoreJobs, NEW outcome \in Steps
    PROVE  LET next == Continuation(task, outcome) IN
           /\ next \in {"idle", "failed", "send", "next", "leaving"}
           /\ next = "idle" <=> task = "enqueue"
           /\ next = "failed" => task = "completed"
           /\ next = "send" => task = "attempted" /\ outcome # "thrown"
BY DEF Continuation, StoreJobs, Transitions

LEMMA ResumeTypes ==
    ASSUME Inv, NEW c \in Callers, NEW outcome \in Steps, Resume(c, outcome),
           job[c] \in StoreJobs, {storeLock'} \subseteq Callers \cup {Free, Abandoned}
    PROVE  TypeOK'
<1> DEFINE next == Continuation(job[c], outcome)
<1>1. next \in Jobs /\ "calling" \in Steps
  BY ContinuationFacts DEF Jobs, StoreJobs, Transitions, Steps
<1>2. job[c] = "enqueue" => intent[c] \in Intents
  BY DEF Inv, Held
<1>3. job' = [job EXCEPT ![c] = next] /\ step' = [step EXCEPT ![c] = "calling"]
  BY DEF Resume, Do, To
<1>4. intent' = [intent EXCEPT ![c] = IF next \in {"send", "failed"} THEN @ ELSE NoIntent]
  BY DEF Resume
<1>5. written' = written \/ (written' = written \cup {intent[c]} /\ job[c] = "enqueue")
  BY DEF Resume
<1>6. present' = present \/ (present' = present \cup {intent[c]} /\ job[c] = "enqueue")
  BY DEF Resume
<1>7. UNCHANGED <<lines, tail, synced, processorLock, batch, sends, acknowledged>>
  BY DEF Resume, file
<1> HIDE DEF next
<1> QED BY <1>1, <1>2, <1>3, <1>4, <1>5, <1>6, <1>7 DEF Inv, TypeOK

\* The store operations that read, fail, or give the lock back.
LEMMA ReadingTypes ==
    ASSUME Inv, NEW c \in Callers,
           EnterFails(c) \/ FindPresent(c) \/ ReadPending(c) \/ Throw(c) \/ LeaveStore(c)
    PROVE  TypeOK'
<1> USE DEF Inv, TypeOK
<1>1. CASE EnterFails(c)
  BY <1>1, ResumeTypes DEF EnterFails, Steps
<1>2. CASE FindPresent(c)
  BY <1>2 DEF FindPresent, To, file, history, Steps
<1>3. CASE ReadPending(c)
  BY <1>3 DEF ReadPending, To, file, history, Steps, Pending
<1>4. CASE Throw(c)
  BY <1>4 DEF Throw, To, file, history, Steps
<1>5. CASE LeaveStore(c)
  <2>1. job[c] \in StoreJobs
    BY <1>5 DEF LeaveStore, Held
  <2> QED BY <1>5, <2>1, ResumeTypes DEF LeaveStore, Steps
<1> QED BY <1>1, <1>2, <1>3, <1>4, <1>5

\* What the processor does between its store operations.
LEMMA ProcessorTypes ==
    ASSUME Inv, NEW c \in Callers,
           \/ ProcessorStep(c)
           \/ \E i \in Intents : StartEnqueue(c, i)
           \/ Crash(c)
    PROVE  TypeOK'
<1> USE DEF Inv, TypeOK
<1>1. CASE EnterProcessor(c) \/ Quit(c)
  BY <1>1 DEF EnterProcessor, Quit, Do, file, history, Jobs, StoreJobs, Transitions
<1>7. CASE Begin(c)
  BY <1>7 DEF Begin, Do, file, history, Jobs, StoreJobs, Transitions
<1>8. CASE \E i \in Intents : StartEnqueue(c, i)
  BY <1>8 DEF StartEnqueue, Do, file, history, Jobs, StoreJobs, Transitions
<1>2. CASE LeaveProcessor(c)
  BY <1>2 DEF LeaveProcessor, Do, file, history, Jobs
<1>3. CASE Send(c)
  <2>1. intent[c].id \in Ids /\ sends[intent[c].id] + 1 \in Nat
    BY <1>3 DEF Send, Held, Ids
  <2>2. sends' \in [Ids -> Nat]
    BY <1>3, <2>1 DEF Send
  <2>3. job' \in [Callers -> Jobs]
    BY <1>3 DEF Send, Do, Jobs, StoreJobs, Transitions
  <2> QED BY <1>3, <2>2, <2>3 DEF Send, file
<1>4. CASE \E accepted \in BOOLEAN : Answer(c, accepted)
  BY <1>4 DEF Answer, Do, file, Jobs, StoreJobs, Transitions, Held, Ids
<1>5. CASE Crash(c)
  BY <1>5 DEF Crash, Die, Left, file, history, Jobs, Steps
<1> QED BY <1>1, <1>2, <1>3, <1>4, <1>5, <1>7, <1>8 DEF ProcessorStep

\* A caller learns that its line is there only after the synchronisation.
LEMMA ResumeInv ==
    ASSUME Inv, TypeOK', NEW c \in Callers, NEW outcome \in Steps, Resume(c, outcome),
           job[c] \in StoreJobs,
           storeLock' = storeLock \/ (storeLock = c /\ storeLock' \notin Callers),
           outcome = "thrown" \/ (outcome = step[c] /\ outcome \in {"returned", "present"})
    PROVE  Inv'
<1> DEFINE next == Continuation(job[c], outcome)
<1>1. /\ next \in {"idle", "failed", "send", "next", "leaving"}
      /\ next = "idle" <=> job[c] = "enqueue"
      /\ next = "failed" => job[c] = "completed"
      /\ next = "send" => job[c] = "attempted" /\ outcome # "thrown"
  BY ContinuationFacts
<1>2. /\ UNCHANGED file /\ lines' = lines /\ tail' = tail /\ synced' = synced
      /\ processorLock' = processorLock /\ sends' = sends /\ acknowledged' = acknowledged
  BY DEF Resume, file
<1>3. job' = [job EXCEPT ![c] = next] /\ step' = [step EXCEPT ![c] = "calling"]
  BY DEF Resume, Do, To
<1>4. intent' = [intent EXCEPT ![c] = IF next \in {"send", "failed"} THEN @ ELSE NoIntent]
  BY DEF Resume
<1>5. \A i \in written' : i \in written \/ QueuedBy(synced, i)
  <2>1. \/ written' = written
        \/ written' = written \cup {intent[c]} /\ job[c] = "enqueue" /\ outcome = "returned"
    BY DEF Resume
  <2>2. job[c] = "enqueue" /\ outcome = "returned" => QueuedBy(synced, intent[c])
    BY DEF Inv, Work
  <2> QED BY <2>1, <2>2
<1> HIDE DEF next
<1>6. /\ job'[c] = next /\ step'[c] = "calling"
      /\ next \in {"send", "failed"} => intent'[c] = intent[c]
      /\ \A d \in Callers \ {c} :
            job'[d] = job[d] /\ step'[d] = step[d] /\ intent'[d] = intent[d]
  BY <1>3, <1>4 DEF Inv, TypeOK
<1>7. Held(c)'
  <2>1. next # "idle" => processorLock = c
    BY <1>1 DEF Inv, Held, StoreJobs, Transitions
  <2>2. next \in {"send", "failed"} => intent[c] \in Intents
    BY <1>1 DEF Inv, Held, Transitions
  <2> QED BY <1>1, <1>2, <1>6, <2>1, <2>2 DEF Held, Transitions
<1>8. Work(c)'
  <2>1. Whole' = Whole
    BY <1>2 DEF Whole
  <2>2. next = "send" => job[c] = "attempted" /\ step[c] = "returned"
    BY <1>1 DEF Inv, Held
  <2> QED BY <1>1, <1>2, <1>6, <2>1, <2>2 DEF Work, Inv
<1>9. Kept'
  BY <1>2, <1>5, QuietKept DEF Inv
<1> QED BY <1>2, <1>6, <1>7, <1>8, <1>9, QuietStep

LEMMA ReadingInv ==
    ASSUME Inv, TypeOK', NEW c \in Callers,
           EnterFails(c) \/ FindPresent(c) \/ ReadPending(c) \/ Throw(c) \/ LeaveStore(c)
    PROVE  Inv'
<1>1. CASE EnterFails(c)
  BY <1>1, ResumeInv DEF EnterFails, Steps
<1>2. CASE LeaveStore(c)
  <2>1. job[c] \in StoreJobs
    BY <1>2 DEF LeaveStore, Inv, Held
  <2> QED BY <1>2, <2>1, ResumeInv, ReversalAssumption DEF LeaveStore, Steps
<1>3. CASE FindPresent(c) \/ ReadPending(c) \/ Throw(c)
  <2>1. /\ UNCHANGED file /\ lines' = lines /\ tail' = tail /\ synced' = synced
        /\ UNCHANGED <<storeLock, processorLock, job, intent, written, sends, acknowledged>>
        /\ storeLock = c
    BY <1>3 DEF FindPresent, ReadPending, Throw, Inside, file, history
  <2>2. PICK place \in {"present", "returned", "thrown"} :
           /\ step' = [step EXCEPT ![c] = place]
           /\ place = "present" => job[c] \in {"enqueue", "completed"}
           /\ place = "returned" => job[c] = "pending"
    BY <1>3 DEF FindPresent, ReadPending, Throw, To
  <2>3. step'[c] = place /\ \A d \in Callers \ {c} : step'[d] = step[d]
    BY <2>2 DEF Inv, TypeOK
  <2>4. job[c] \in StoreJobs
    BY <1>3 DEF FindPresent, ReadPending, Throw, Inside, Inv, Held
  <2>5. Held(c)'
    BY <2>1, <2>2, <2>3, <2>4 DEF Held, Inv
  <2>6. Work(c)'
    <3>1. Whole' = Whole
      BY <2>1 DEF Whole
    <3> QED BY <2>1, <2>2, <2>3, <3>1 DEF Work, Inv
  <2>7. Kept'
    BY <2>1, QuietKept DEF Inv
  <2> QED BY <2>1, <2>3, <2>5, <2>6, <2>7, QuietStep
<1> QED BY <1>1, <1>2, <1>3

\* The steps between store operations, and those of callers of enqueue.
LEMMA ProcessorInv ==
    ASSUME Inv, TypeOK', NEW c \in Callers,
           ProcessorStep(c) \/ \E i \in Intents : StartEnqueue(c, i)
    PROVE  Inv'
<1>1. /\ UNCHANGED file /\ lines' = lines /\ tail' = tail /\ synced' = synced
      /\ storeLock' = storeLock /\ step' = step /\ written' = written
      /\ job[c] \in {"idle", "next", "leaving", "send", "waiting"}
  BY DEF ProcessorStep, EnterProcessor, Begin, Quit, Send, LeaveProcessor, Answer,
         StartEnqueue, file, history
<1>2. step[c] = "calling" /\ Whole' = Whole
  BY <1>1 DEF Inv, Held, StoreJobs, Transitions, Whole
<1>3. /\ \A d \in Callers \ {c} : job'[d] = job[d] /\ intent'[d] = intent[d]
      /\ acknowledged \subseteq acknowledged'
  BY DEF ProcessorStep, EnterProcessor, Begin, Quit, Send, LeaveProcessor, Answer,
         StartEnqueue, Do, history, Inv, TypeOK
<1>4. job[c] # "idle" => processorLock = c
  BY <1>1 DEF Inv, Held
<1>5. CASE EnterProcessor(c) \/ \E i \in Intents : StartEnqueue(c, i)
  <2>1. /\ \/ job'[c] = "pending" /\ processorLock = Free /\ processorLock' = c
           \/ job'[c] = "enqueue" /\ intent'[c] \in Intents /\ processorLock' = processorLock
        /\ sends' = sends
    BY <1>5 DEF EnterProcessor, StartEnqueue, Do, history, Inv, TypeOK
  <2>2. Held(c)' /\ Work(c)'
    BY <1>1, <1>2, <2>1 DEF Held, Work, StoreJobs, Transitions
  <2>3. Kept'
    BY <1>1, <1>3, <2>1, QuietKept DEF Inv
  <2> QED BY <1>1, <1>3, <2>1, <2>2, <2>3, QuietStep, ReversalAssumption
<1>6. CASE Begin(c) \/ Quit(c) \/ LeaveProcessor(c)
  <2>1. /\ \/ job'[c] = "attempted" /\ intent'[c] \in Intents
           \/ job'[c] = "leaving"
           \/ job'[c] = "idle"
        /\ job'[c] # "idle" => processorLock' = processorLock
        /\ job[c] # "idle" /\ sends' = sends
    BY <1>6 DEF Begin, Quit, LeaveProcessor, Do, history, Inv, TypeOK
  <2>2. Held(c)' /\ Work(c)'
    BY <1>1, <1>2, <1>4, <2>1 DEF Held, Work, StoreJobs, Transitions
  <2>3. Kept'
    BY <1>1, <1>3, <2>1, QuietKept DEF Inv
  <2> QED BY <1>1, <1>3, <1>4, <2>1, <2>2, <2>3, QuietStep
<1>7. CASE Send(c)
  <2>1. /\ job[c] = "send" /\ processorLock = c /\ processorLock' = processorLock
        /\ intent' = intent /\ intent[c] \in Intents /\ intent[c].id \in Ids
        /\ \/ job'[c] = "failed" /\ sends' = sends
           \/ job'[c] = "waiting" /\ sends' = [sends EXCEPT ![intent[c].id] = @ + 1]
    BY <1>4, <1>7 DEF Send, Do, Inv, TypeOK, Held, Ids
  <2>2. sends[intent[c].id] < Attempts(lines, synced, intent[c].id)
    BY <2>1 DEF Inv, Work
  <2>3. Attempts(lines, synced, intent[c].id) \in Nat
    BY AttemptsGrow DEF Inv, TypeOK
  <2>4. \A id \in Ids : sends'[id] = sends[id] \/ sends'[id] <= Attempts(lines, synced, id)
    BY <2>1, <2>2, <2>3 DEF Inv, TypeOK
  <2>5. Held(c)'
    BY <1>1, <1>2, <2>1 DEF Held, StoreJobs, Transitions
  <2>6. Work(c)'
    BY <1>1, <1>2, <2>1 DEF Work, Inv
  <2>7. Kept'
    BY <1>1, <1>3, <2>4, QuietKept DEF Inv
  <2> QED BY <1>1, <1>3, <2>1, <2>5, <2>6, <2>7, QuietStep
<1>8. CASE \E accepted \in BOOLEAN : Answer(c, accepted)
  <2>1. /\ job[c] = "waiting" /\ processorLock = c /\ processorLock' = processorLock
        /\ intent' = intent /\ intent[c] \in Intents /\ sends' = sends
        /\ \/ job'[c] = "failed"
           \/ job'[c] = "completed" /\ intent[c].id \in acknowledged'
    BY <1>4, <1>8 DEF Answer, Do, Inv, TypeOK, Held, Ids
  <2>2. Held(c)' /\ Work(c)'
    BY <1>1, <1>2, <2>1 DEF Held, Work, StoreJobs, Transitions
  <2>3. Kept'
    BY <1>1, <1>3, <2>1, QuietKept DEF Inv
  <2> QED BY <1>1, <1>3, <2>1, <2>2, <2>3, QuietStep
<1> QED BY <1>5, <1>6, <1>7, <1>8 DEF ProcessorStep

\* A process that dies knows nothing any more.
LEMMA CrashInv ==
    ASSUME Inv, TypeOK', NEW c \in Callers, Crash(c)
    PROVE  Inv'
<1>1. /\ UNCHANGED file /\ lines' = lines /\ tail' = tail /\ synced' = synced
      /\ written' = written /\ sends' = sends /\ acknowledged' = acknowledged
      /\ job'[c] = "idle" /\ step'[c] = "calling"
      /\ \A d \in Callers \ {c} :
            job'[d] = job[d] /\ step'[d] = step[d] /\ intent'[d] = intent[d]
      /\ storeLock' = storeLock \/ (storeLock = c /\ storeLock' = Abandoned)
      /\ processorLock' = processorLock \/ processorLock = c
  BY DEF Crash, Die, Left, file, history
<1>2. Held(c)' /\ Work(c)'
  BY <1>1 DEF Held, Work, Transitions
<1>3. Kept'
  BY <1>1, QuietKept, ReversalAssumption DEF Inv
<1> QED BY <1>1, <1>2, <1>3, QuietStep

LEMMA RemoveLockInv ==
    ASSUME Inv, TypeOK', RemoveLock
    PROVE  Inv'
<1>1. /\ UNCHANGED file /\ lines' = lines /\ tail' = tail /\ synced' = synced
      /\ job' = job /\ step' = step /\ intent' = intent /\ written' = written
      /\ sends' = sends /\ acknowledged' = acknowledged
      /\ \A d \in Callers : (storeLock = d => storeLock' = d) /\ (processorLock = d => processorLock' = d)
      /\ storeLock' \in Callers => storeLock' = storeLock
  BY ReversalAssumption DEF RemoveLock, file, history, process
<1>2. Whole' = Whole
  BY <1>1 DEF Whole
<1>3. synced \in Nat /\ Len(lines) \in Nat
  BY DEF Inv, TypeOK
<1>4. ASSUME NEW d \in Callers
      PROVE  Held(d)' /\ Work(d)'
  <2>1. Held(d)'
    BY <1>1, BystanderHeld DEF Inv
  <2>2. Work(d)'
    BY <1>1, <1>2, <1>3, BystanderWork DEF Inv
  <2> QED BY <2>1, <2>2
<1>5. Kept'
  BY <1>1, QuietKept DEF Inv
<1> QED BY <1>4, <1>5 DEF Inv
-----------------------------------------------------------------------------
(***************************************************************************)
(* Steps that change the file.                                             *)
(***************************************************************************)
LEMMA FileKept ==
    ASSUME TypeOK, TypeOK', Kept,
           written' = written, sends' = sends, acknowledged' = acknowledged,
           synced <= synced', \A k \in 1 .. synced : lines'[k] = lines[k],
           Len(Whole') <= MaxEvents, Readable(Whole'),
           \A id \in Ids : RecordedIn(Whole', "completed", id) => id \in acknowledged,
           storeLock' \in Callers => tail' = NoTail
    PROVE  Kept'
<1>1. synced \in Nat /\ synced' \in Nat
  BY DEF TypeOK
<1>2. \A i : QueuedBy(synced, i) => QueuedBy(synced, i)'
  BY <1>1 DEF QueuedBy
<1>3. \A id \in Ids : sends[id] <= Attempts(lines', synced', id)
  <2> TAKE id \in Ids
  <2>1. \A k \in 1 .. synced : lines[k] = lines'[k]
    OBVIOUS
  <2>2. /\ Attempts(lines, synced, id) \in Nat
        /\ Attempts(lines, synced, id) <= Attempts(lines', synced', id)
    BY <1>1, <2>1, AttemptsGrow
  <2>3. Attempts(lines', synced', id) \in Nat
    BY <1>1, AttemptsGrow
  <2>4. sends[id] \in Nat /\ sends[id] <= Attempts(lines, synced, id)
    BY DEF TypeOK, Kept
  <2> QED BY <2>2, <2>3, <2>4
<1> QED BY <1>2, <1>3 DEF Kept

\* What is known of a line that is about to be written.
LEMMA LineFacts ==
    ASSUME Inv, NEW c \in Callers, NEW line \in Line(c)
    PROVE  /\ storeLock = c /\ step[c] = "inside" /\ tail = NoTail /\ Whole = lines
           /\ job[c] \in {"enqueue"} \cup Transitions
           /\ line \in Events /\ line.intent = intent[c] /\ intent[c] \in Intents
           /\ line = Event(line.type, intent[c])
           /\ line.type = IF job[c] = "enqueue" THEN "queued" ELSE job[c]
           /\ Len(lines) < MaxEvents
           /\ line.type = "queued" =>
                 \A k \in DOMAIN lines : lines[k].intent.id # intent[c].id
           /\ line.type # "queued" => PendingIn(lines, intent[c].id)
<1>1. Inside(c) /\ Allowed(c) /\ Len(lines) < MaxEvents
  BY DEF Line
<1>2. line = Event(IF job[c] = "enqueue" THEN "queued" ELSE job[c], intent[c])
  BY <1>1 DEF Line
<1>3. job[c] \in {"enqueue"} \cup Transitions
  BY <1>1 DEF Allowed
<1>4. intent[c] \in Intents /\ intent[c].id \in Ids
  BY <1>3 DEF Inv, Held, Transitions, Ids
<1>5. storeLock = c /\ step[c] = "inside" /\ tail = NoTail
  BY <1>1 DEF Inside, Inv, Kept
<1>6. Whole = lines
  BY <1>5, WholeFacts DEF Inv
<1>7. line.intent = intent[c] /\ line.type = IF job[c] = "enqueue" THEN "queued" ELSE job[c]
  BY <1>2, EventFields
<1>8. line \in Events /\ line = Event(line.type, intent[c])
  BY <1>2, <1>3, <1>4, <1>7 DEF Events, Event
<1>9. ASSUME line.type = "queued", NEW k \in DOMAIN lines, lines[k].intent.id = intent[c].id
      PROVE  FALSE
  <2>1. ~Recorded("queued", intent[c].id)
    BY <1>1, <1>3, <1>4, <1>7, <1>9 DEF Allowed, Records, Transitions
  <2>2. lines[k].type # "queued"
    BY <1>9, <2>1 DEF Recorded
  <2>3. lines \in Seq(Events)
    BY DEF Inv, TypeOK
  <2>4. PICK j \in 1 .. k - 1 : lines[j].intent.id = lines[k].intent.id /\ lines[j].type = "queued"
    BY <1>6, <2>2 DEF Inv, Kept, Readable
  <2>5. j \in DOMAIN lines
    BY <2>3
  <2> QED BY <1>9, <2>1, <2>4, <2>5 DEF Recorded
<1>10. line.type # "queued" => PendingIn(lines, intent[c].id)
  BY <1>1, <1>3, <1>7 DEF Allowed, Pending, Recorded, PendingIn, RecordedIn
<1> QED BY <1>1, <1>3, <1>4, <1>5, <1>6, <1>7, <1>8, <1>9, <1>10

\* The file with that line is readable, and the line ends what is pending only
\* if it is a completion, which the host's answer precedes.
LEMMA AppendedFacts ==
    ASSUME Inv, NEW c \in Callers, NEW line \in Line(c), NEW grown,
           grown = Append(lines, line)
    PROVE  /\ grown \in Seq(Events) /\ Len(grown) = Len(lines) + 1
           /\ Len(grown) <= MaxEvents
           /\ \A k \in 1 .. Len(lines) : grown[k] = lines[k]
           /\ grown[Len(lines) + 1] = line
           /\ Readable(grown)
           /\ \A id \in Ids : RecordedIn(grown, "completed", id) => id \in acknowledged
           /\ line.type # "completed" =>
                 \A id \in Ids : PendingIn(lines, id) => PendingIn(grown, id)
<1> DEFINE n == Len(lines)
<1>1. lines \in Seq(Events) /\ n \in Nat /\ MaxEvents \in Nat
  BY ReversalAssumption DEF Inv, TypeOK
<1>2. /\ Whole = lines /\ line \in Events /\ line.intent = intent[c] /\ n < MaxEvents
      /\ job[c] = "completed" <=> line.type = "completed"
      /\ line.type = "queued" => \A k \in DOMAIN lines : lines[k].intent.id # intent[c].id
      /\ line.type # "queued" => PendingIn(lines, intent[c].id)
  BY LineFacts DEF Transitions
<1>3. /\ grown \in Seq(Events) /\ Len(grown) = n + 1
      /\ \A k \in 1 .. n : grown[k] = lines[k]
      /\ grown[n + 1] = line
      /\ DOMAIN grown = 1 .. n + 1 /\ DOMAIN lines = 1 .. n
  BY <1>1, <1>2
<1> HIDE DEF n
<1>4. Readable(grown)
  <2>1. Readable(lines)
    BY <1>2 DEF Inv, Kept
  <2>2. ASSUME NEW m \in 1 .. n
        PROVE  /\ grown[m].type = "queued" =>
                     \A k \in 1 .. m - 1 : grown[k].intent.id # grown[m].intent.id
               /\ grown[m].type # "queued" =>
                     \E k \in 1 .. m - 1 : grown[k].intent.id = grown[m].intent.id
                                           /\ grown[k].type = "queued"
               /\ grown[m].type \notin {"queued", "completed"} =>
                     \A k \in 1 .. m - 1 :
                        grown[k].intent.id = grown[m].intent.id => grown[k].type # "completed"
    <3>1. \A k \in 1 .. m : grown[k] = lines[k]
      BY <1>1, <1>3
    <3> QED BY <1>1, <1>3, <2>1, <3>1 DEF Readable
  <2>3. /\ line.type = "queued" =>
             \A k \in 1 .. n : grown[k].intent.id # line.intent.id
        /\ line.type # "queued" =>
             \E k \in 1 .. n : grown[k].intent.id = line.intent.id /\ grown[k].type = "queued"
        /\ line.type # "queued" =>
             \A k \in 1 .. n :
                grown[k].intent.id = line.intent.id => grown[k].type # "completed"
    BY <1>2, <1>3 DEF PendingIn, RecordedIn
  <2> QED BY <1>1, <1>3, <2>2, <2>3 DEF Readable
<1>5. ASSUME NEW id \in Ids, RecordedIn(grown, "completed", id)
      PROVE  id \in acknowledged
  <2>1. PICK k \in 1 .. n + 1 : grown[k].type = "completed" /\ grown[k].intent.id = id
    BY <1>3, <1>5 DEF RecordedIn
  <2>2. CASE k \in 1 .. n
    <3>1. RecordedIn(lines, "completed", id)
      BY <1>3, <2>1, <2>2 DEF RecordedIn
    <3> QED BY <1>2, <3>1 DEF Inv, Kept
  <2>3. CASE k = n + 1
    BY <1>2, <1>3, <2>1, <2>3 DEF Inv, Work
  <2> QED BY <1>1, <2>2, <2>3
<1>6. line.type # "completed" =>
         \A id \in Ids : PendingIn(lines, id) => PendingIn(grown, id)
  BY <1>1, <1>3 DEF PendingIn, RecordedIn
<1> QED BY <1>1, <1>2, <1>3, <1>4, <1>5, <1>6 DEF n

LEMMA WriteInv ==
    ASSUME Inv, NEW c \in Callers, Write(c)
    PROVE  Inv'
<1>1. PICK line \in Line(c) : lines' = Append(lines, line)
  BY DEF Write
<1>2. /\ step' = [step EXCEPT ![c] = "written"]
      /\ UNCHANGED <<tail, synced, storeLock, processorLock, job, intent, batch>>
      /\ UNCHANGED <<written, present, sends, acknowledged>>
  BY DEF Write, To, history
<1>3. /\ storeLock = c /\ step[c] = "inside" /\ tail = NoTail /\ Whole = lines
      /\ job[c] \in {"enqueue"} \cup Transitions
      /\ line.intent = intent[c] /\ intent[c] \in Intents /\ intent[c].id \in Ids
      /\ line = Event(line.type, intent[c])
      /\ line.type = IF job[c] = "enqueue" THEN "queued" ELSE job[c]
      /\ line.type # "queued" => PendingIn(lines, intent[c].id)
  BY LineFacts DEF Ids
<1>4. /\ lines' \in Seq(Events) /\ Len(lines') = Len(lines) + 1
      /\ Len(lines') <= MaxEvents
      /\ \A k \in 1 .. Len(lines) : lines'[k] = lines[k]
      /\ lines'[Len(lines) + 1] = line
      /\ Readable(lines')
      /\ \A id \in Ids : RecordedIn(lines', "completed", id) => id \in acknowledged
      /\ line.type # "completed" =>
            \A id \in Ids : PendingIn(lines, id) => PendingIn(lines', id)
  BY <1>1, AppendedFacts
<1>5. Len(lines) \in Nat /\ synced \in Nat /\ synced <= Len(lines)
  BY DEF Inv, TypeOK
<1>6. TypeOK'
  BY <1>2, <1>4, <1>5 DEF Inv, TypeOK, Steps
<1>7. Whole' = lines'
  BY <1>2, <1>3 DEF Whole
<1>8. Kept'
  BY <1>2, <1>3, <1>4, <1>5, <1>6, <1>7, FileKept DEF Inv
<1>9. /\ step'[c] = "written" /\ \A d \in Callers \ {c} : step'[d] = step[d]
  BY <1>2 DEF Inv, TypeOK
<1>10. Held(c)'
  BY <1>2, <1>3, <1>9 DEF Held, Inv, StoreJobs, Transitions
<1>11. Work(c)'
  <2>1. job[c] = "enqueue" => QueuedBy(Len(lines), intent[c])'
    BY <1>2, <1>3, <1>4, <1>5 DEF QueuedBy
  <2>2. ASSUME job[c] = "attempted"
        PROVE  sends[intent[c].id] < Attempts(lines', Len(lines'), intent[c].id)
    <3>1. line.type = "attempted" /\ line.intent.id = intent[c].id
      BY <1>3, <2>2
    <3>2. \A k \in 1 .. synced : lines[k] = lines'[k]
      BY <1>4, <1>5
    <3>3. /\ Attempts(lines, synced, intent[c].id) \in Nat
          /\ Attempts(lines, synced, intent[c].id) < Attempts(lines', Len(lines'), intent[c].id)
      <4> DEFINE m == Len(lines')
                 id == intent[c].id
      <4>1. /\ m \in Nat /\ synced \in Nat /\ synced < m /\ synced <= m
            /\ lines'[m].type = "attempted" /\ lines'[m].intent.id = id
        BY <1>4, <1>5, <3>1
      <4> HIDE DEF m, id
      <4>2. Attempts(lines, synced, id) \in Nat /\ Attempts(lines, synced, id) < Attempts(lines', m, id)
        BY <3>2, <4>1, AttemptsGrow
      <4> QED BY <4>2 DEF m, id
    <3>4. Attempts(lines', Len(lines'), intent[c].id) \in Nat
      BY <1>4, <1>5, AttemptsGrow
    <3>5. /\ sends[intent[c].id] \in Nat
          /\ sends[intent[c].id] <= Attempts(lines, synced, intent[c].id)
      BY <1>3 DEF Inv, TypeOK, Kept
    <3> QED BY <3>3, <3>4, <3>5
  <2>3. job[c] = "attempted" =>
           RecordedIn(lines', "queued", intent[c].id) /\ PendingIn(Whole', intent[c].id)
    BY <1>3, <1>4, <1>7 DEF PendingIn
  <2> QED BY <1>2, <1>3, <1>9, <2>1, <2>2, <2>3 DEF Work, Inv, Transitions
<1>12. ASSUME NEW d \in Callers \ {c}
       PROVE  Held(d)' /\ Work(d)'
  <2>1. Held(d)'
    BY <1>2, <1>9, BystanderHeld DEF Inv
  <2>2. processorLock = d => line.type # "completed"
    BY <1>3, <1>12 DEF Inv, Held
  <2>3. Work(d)'
    BY <1>2, <1>3, <1>4, <1>5, <1>6, <1>7, <1>9, <2>2, BystanderWork DEF Inv
  <2> QED BY <2>1, <2>3
<1> QED BY <1>6, <1>8, <1>10, <1>11, <1>12 DEF Inv

\* A process that dies in its write leaves the store locked, and behind the
\* last newline the whole line, or a part that the next operation cuts off.
LEMMA CrashWritingInv ==
    ASSUME Inv, NEW c \in Callers, CrashWriting(c)
    PROVE  Inv'
<1>1. PICK line \in Line(c) : tail' \in {Torn, line}
  BY DEF CrashWriting
<1>2. /\ UNCHANGED <<lines, synced, written, present, sends, acknowledged>>
      /\ storeLock' = Left(storeLock, {c}) /\ processorLock' = Left(processorLock, {c})
      /\ job' = [d \in Callers |-> IF d \in {c} THEN "idle" ELSE job[d]]
      /\ step' = [d \in Callers |-> IF d \in {c} THEN "calling" ELSE step[d]]
      /\ intent' = [d \in Callers |-> IF d \in {c} THEN NoIntent ELSE intent[d]]
      /\ batch' = [d \in Callers |-> IF d \in {c} THEN {} ELSE batch[d]]
  BY DEF CrashWriting, Die, history
<1>3. /\ storeLock = c /\ tail = NoTail /\ Whole = lines
      /\ job[c] \in {"enqueue"} \cup Transitions /\ line \in Events
      /\ line.type = IF job[c] = "enqueue" THEN "queued" ELSE job[c]
  BY LineFacts
<1>4. storeLock' = Abandoned /\ (processorLock' = processorLock \/ processorLock = c)
      /\ processorLock' \in {processorLock, Abandoned}
  BY <1>2, <1>3 DEF Left
<1>5. PICK grown : grown = Append(lines, line)
  OBVIOUS
<1>6. /\ Len(grown) <= MaxEvents /\ Readable(grown)
      /\ \A id \in Ids : RecordedIn(grown, "completed", id) => id \in acknowledged
      /\ line.type # "completed" =>
            \A id \in Ids : PendingIn(lines, id) => PendingIn(grown, id)
  BY <1>5, AppendedFacts
<1>7. Whole' \in {lines, grown}
  BY <1>1, <1>2, <1>3, <1>5, TailKinds DEF Whole
<1>8. TypeOK'
  BY <1>1, <1>2, <1>3, <1>4 DEF Inv, TypeOK, Jobs, Steps
<1>9. synced \in Nat /\ Len(lines) \in Nat /\ synced <= Len(lines)
  BY DEF Inv, TypeOK
<1>10. Kept'
  <2>1. Len(Whole') <= MaxEvents /\ Readable(Whole')
    BY <1>3, <1>6, <1>7 DEF Inv, Kept
  <2>2. \A id \in Ids : RecordedIn(Whole', "completed", id) => id \in acknowledged
    BY <1>3, <1>6, <1>7 DEF Inv, Kept
  <2> QED BY <1>2, <1>4, <1>8, <1>9, <2>1, <2>2, FileKept, ReversalAssumption DEF Inv
<1>11. Held(c)' /\ Work(c)'
  BY <1>2 DEF Held, Work, Transitions
<1>12. ASSUME NEW d \in Callers \ {c}
       PROVE  Held(d)' /\ Work(d)'
  <2>1. Held(d)'
    BY <1>2, <1>3, <1>4, <1>12, BystanderHeld DEF Inv
  <2>2. processorLock = d => line.type # "completed"
    BY <1>3, <1>12 DEF Inv, Held
  <2>3. processorLock = d => \A id \in Ids : PendingIn(Whole, id) => PendingIn(Whole', id)
    BY <1>3, <1>6, <1>7, <2>2
  <2>4. Work(d)'
    BY <1>2, <1>8, <1>9, <1>12, <2>3, BystanderWork DEF Inv
  <2> QED BY <2>1, <2>4
<1> QED BY <1>8, <1>10, <1>11, <1>12 DEF Inv

\* The repair of the tail changes nothing the next operation would see.
LEMMA EnterStoreInv ==
    ASSUME Inv, NEW c \in Callers, EnterStore(c)
    PROVE  Inv'
<1>1. /\ job[c] \in StoreJobs /\ step[c] = "calling" /\ storeLock = Free /\ storeLock' = c
      /\ lines' = Whole /\ tail' = NoTail
      /\ synced' = IF tail = NoTail THEN synced ELSE Len(lines')
      /\ step' = [step EXCEPT ![c] = "inside"]
      /\ UNCHANGED <<processorLock, job, intent, batch, written, present, sends, acknowledged>>
  BY DEF EnterStore, RepairPartialTail, To, history, Whole
<1>2. /\ Whole \in Seq(Events) /\ Len(lines) <= Len(Whole)
      /\ \A n \in 1 .. Len(lines) : Whole[n] = lines[n]
  BY WholeFacts DEF Inv
<1>3. Whole' = Whole
  BY <1>1 DEF Whole
<1>4. /\ synced \in Nat /\ Len(lines) \in Nat /\ synced <= Len(lines) /\ Len(Whole) \in Nat
      /\ Len(Whole) <= MaxEvents
  BY <1>2 DEF Inv, TypeOK, Kept
<1>5. synced' \in 0 .. Len(lines') /\ synced <= synced'
  BY <1>1, <1>2, <1>4
<1>6. TypeOK'
  BY <1>1, <1>2, <1>4, <1>5 DEF Inv, TypeOK, Steps
<1>7. Kept'
  BY <1>1, <1>2, <1>3, <1>4, <1>5, <1>6, FileKept DEF Inv, Kept
<1>8. step'[c] = "inside" /\ \A d \in Callers \ {c} : step'[d] = step[d]
  BY <1>1 DEF Inv, TypeOK
<1>9. Held(c)' /\ Work(c)'
  BY <1>1, <1>8 DEF Inv, Held, Work, StoreJobs, Transitions
<1>10. ASSUME NEW d \in Callers \ {c}
       PROVE  Held(d)' /\ Work(d)'
  <2>1. Held(d)'
    BY <1>1, <1>8, BystanderHeld, ReversalAssumption DEF Inv
  <2>2. Work(d)'
    BY <1>1, <1>2, <1>3, <1>5, <1>6, <1>8, BystanderWork DEF Inv
  <2> QED BY <2>1, <2>2
<1> QED BY <1>6, <1>7, <1>9, <1>10 DEF Inv

LEMMA SyncInv ==
    ASSUME Inv, NEW c \in Callers, Sync(c)
    PROVE  Inv'
<1>1. /\ storeLock = c /\ step[c] = "written" /\ synced' = Len(lines)
      /\ step' = [step EXCEPT ![c] = "returned"]
      /\ UNCHANGED <<lines, tail, storeLock, processorLock, job, intent, batch>>
      /\ UNCHANGED <<written, present, sends, acknowledged>>
  BY DEF Sync, To, history
<1>2. Whole' = Whole
  BY <1>1 DEF Whole
<1>3. synced \in Nat /\ Len(lines) \in Nat /\ synced <= Len(lines)
  BY DEF Inv, TypeOK
<1>4. TypeOK'
  BY <1>1, <1>3 DEF Inv, TypeOK, Steps
<1>5. Kept'
  BY <1>1, <1>2, <1>3, <1>4, FileKept DEF Inv, Kept
<1>6. step'[c] = "returned" /\ \A d \in Callers \ {c} : step'[d] = step[d]
  BY <1>1 DEF Inv, TypeOK
<1>7. Held(c)'
  BY <1>1, <1>6 DEF Inv, Held
<1>8. Work(c)'
  <2>1. \A i : QueuedBy(Len(lines), i) => QueuedBy(synced, i)'
    BY <1>1 DEF QueuedBy
  <2>2. job[c] \in StoreJobs
    BY <1>1 DEF Inv, Held
  <2>3. \A id : Attempts(lines, Len(lines), id) = Attempts(lines, synced, id)'
    BY <1>1
  <2>4. Work(c)
    BY DEF Inv
  <2> QED BY <1>1, <1>2, <1>6, <2>1, <2>2, <2>3, <2>4 DEF Work, StoreJobs, Transitions
<1>9. ASSUME NEW d \in Callers \ {c}
      PROVE  Held(d)' /\ Work(d)'
  <2>1. Held(d)'
    BY <1>1, <1>6, BystanderHeld DEF Inv
  <2>2. Work(d)'
    BY <1>1, <1>2, <1>3, <1>4, <1>6, BystanderWork DEF Inv
  <2> QED BY <2>1, <2>2
<1> QED BY <1>4, <1>5, <1>7, <1>8, <1>9 DEF Inv

\* What a power loss leaves is a beginning of what the file held, with all that
\* was synchronised.
LEMMA PrefixReadable ==
    ASSUME NEW s \in Seq(Events), NEW t \in Seq(Events), Len(t) <= Len(s),
           \A k \in 1 .. Len(t) : t[k] = s[k], Readable(s)
    PROVE  /\ Readable(t)
           /\ \A id : RecordedIn(t, "completed", id) => RecordedIn(s, "completed", id)
<1>1. Len(t) \in Nat /\ Len(s) \in Nat /\ DOMAIN t = 1 .. Len(t) /\ DOMAIN s = 1 .. Len(s)
  OBVIOUS
<1>2. ASSUME NEW m \in 1 .. Len(t)
      PROVE  m \in 1 .. Len(s) /\ \A k \in 1 .. m : t[k] = s[k]
  BY <1>1
<1>3. Readable(t)
  BY <1>1, <1>2 DEF Readable
<1>4. \A id : RecordedIn(t, "completed", id) => RecordedIn(s, "completed", id)
  BY <1>1 DEF RecordedIn
<1> QED BY <1>3, <1>4

LEMMA PowerLossInv ==
    ASSUME Inv, PowerLoss
    PROVE  Inv'
<1>1. PICK n \in synced .. Len(lines) :
         /\ lines' = SubSeq(lines, 1, n) /\ synced' = n
         /\ tail' \in {NoTail, Torn} \cup
                        (IF n < Len(lines) THEN {lines[n + 1]} ELSE {tail})
  BY DEF PowerLoss
<1>2. /\ storeLock' \in {Free, Abandoned} /\ processorLock' \in {Free, Abandoned}
      /\ UNCHANGED <<written, present, sends, acknowledged>>
      /\ job' = [d \in Callers |-> "idle"] /\ step' = [d \in Callers |-> "calling"]
      /\ intent' = [d \in Callers |-> NoIntent] /\ batch' = [d \in Callers |-> {}]
  BY DEF PowerLoss, Die, history
<1>3. /\ lines \in Seq(Events) /\ Len(lines) \in Nat /\ synced \in Nat /\ n \in Nat
      /\ synced <= n /\ n <= Len(lines) /\ tail \in {NoTail, Torn} \cup Events
      /\ Len(lines) <= MaxEvents /\ MaxEvents \in Nat
  BY ReversalAssumption DEF Inv, TypeOK
<1>4. /\ lines' \in Seq(Events) /\ Len(lines') = n
      /\ \A k \in 1 .. n : lines'[k] = lines[k]
  BY <1>1, <1>3
<1>5. tail' \in {NoTail, Torn} \cup Events
  BY <1>1, <1>3
<1>6. TypeOK'
  BY <1>1, <1>2, <1>3, <1>4, <1>5 DEF Inv, TypeOK, Jobs, Steps
<1>7. /\ Whole \in Seq(Events) /\ Len(lines) <= Len(Whole)
      /\ \A k \in 1 .. Len(lines) : Whole[k] = lines[k]
      /\ tail \notin {NoTail, Torn} => Whole = Append(lines, tail) /\ Len(Whole) = Len(lines) + 1
  BY WholeFacts DEF Inv
<1>8. /\ Whole' \in Seq(Events) /\ Len(Whole') <= Len(Whole)
      /\ \A k \in 1 .. Len(Whole') : Whole'[k] = Whole[k]
  <2>1. CASE tail' \in {NoTail, Torn}
    BY <1>3, <1>4, <1>7, <2>1 DEF Whole
  <2>2. CASE tail' \notin {NoTail, Torn}
    <3>1. tail' \in Events /\ Whole' = Append(lines', tail')
      BY <1>5, <2>2 DEF Whole
    <3>2. /\ Whole' \in Seq(Events) /\ Len(Whole') = n + 1 /\ Whole'[n + 1] = tail'
          /\ \A k \in 1 .. n : Whole'[k] = lines[k]
      BY <1>3, <1>4, <3>1
    <3>3. \/ n < Len(lines) /\ tail' = lines[n + 1]
          \/ n = Len(lines) /\ tail' = tail
      BY <1>1, <1>3, <2>2
    <3>4. n + 1 <= Len(Whole) /\ Whole[n + 1] = tail'
      <4>1. CASE n < Len(lines) /\ tail' = lines[n + 1]
        BY <1>3, <1>7, <4>1
      <4>2. CASE n = Len(lines) /\ tail' = tail
        BY <1>3, <1>7, <2>2, <4>2
      <4> QED BY <3>3, <4>1, <4>2
    <3> QED BY <1>3, <1>7, <3>2, <3>4
  <2> QED BY <2>1, <2>2
<1>9. /\ Readable(Whole')
      /\ \A id : RecordedIn(Whole', "completed", id) => RecordedIn(Whole, "completed", id)
  BY <1>7, <1>8, PrefixReadable DEF Inv, Kept
<1>10. Len(Whole) \in Nat /\ Len(Whole') \in Nat
  BY <1>7, <1>8
<1>11. Len(Whole') <= MaxEvents
  BY <1>3, <1>8, <1>10 DEF Inv, Kept
<1>12. Kept'
  <2>1. \A id \in Ids : RecordedIn(Whole', "completed", id) => id \in acknowledged
    BY <1>9 DEF Inv, Kept
  <2>2. synced <= synced' /\ \A k \in 1 .. synced : lines'[k] = lines[k]
    BY <1>1, <1>3, <1>4
  <2>3. storeLock' \notin Callers
    BY <1>2, ReversalAssumption
  <2> QED BY <1>2, <1>6, <1>9, <1>11, <2>1, <2>2, <2>3, FileKept DEF Inv
<1>13. \A d \in Callers : Held(d)' /\ Work(d)'
  BY <1>2 DEF Held, Work, Transitions
<1> QED BY <1>6, <1>12, <1>13 DEF Inv
-----------------------------------------------------------------------------
LEMMA InitInv ==
    ASSUME Init
    PROVE  Inv
<1>1. /\ lines = <<>> /\ tail = NoTail /\ synced = 0 /\ storeLock = Free /\ processorLock = Free
      /\ job = [c \in Callers |-> "idle"] /\ step = [c \in Callers |-> "calling"]
      /\ intent = [c \in Callers |-> NoIntent] /\ batch = [c \in Callers |-> {}]
      /\ written = {} /\ present = {} /\ sends = [id \in Ids |-> 0] /\ acknowledged = {}
  BY DEF Init
<1>2. TypeOK
  BY <1>1, ReversalAssumption DEF TypeOK, Jobs, Steps
<1>3. Whole = <<>>
  BY <1>1 DEF Whole
<1>4. Kept
  <2>1. \A id : Attempts(lines, synced, id) \in Nat
    BY <1>1, AttemptsGrow
  <2>2. Readable(Whole) /\ \A id : ~RecordedIn(Whole, "completed", id)
    BY <1>3 DEF Readable, RecordedIn
  <2>3. Len(Whole) = 0 /\ 0 <= MaxEvents
    BY <1>3, ReversalAssumption
  <2> QED BY <1>1, <2>1, <2>2, <2>3, ReversalAssumption DEF Kept
<1>5. \A c \in Callers : Held(c) /\ Work(c)
  BY <1>1 DEF Held, Work, Transitions
<1> QED BY <1>2, <1>4, <1>5 DEF Inv

LEMMA NextInv ==
    ASSUME Inv, [Next]_vars
    PROVE  Inv'
<1>1. CASE UNCHANGED vars
  <2>1. /\ lines' = lines /\ tail' = tail /\ synced' = synced
        /\ UNCHANGED <<storeLock, processorLock, job, step, intent, batch>>
        /\ UNCHANGED <<written, present, sends, acknowledged>>
    BY <1>1 DEF vars, file, process, history
  <2>2. Whole' = Whole /\ \A n, i : QueuedBy(n, i)' = QueuedBy(n, i)
    BY <2>1 DEF Whole, QueuedBy
  <2> QED BY <2>1, <2>2 DEF Inv, TypeOK, Kept, Held, Work
<1>2. ASSUME NEW c \in Callers, StoreStep(c)
      PROVE  Inv'
  <2>1. CASE EnterStore(c)
    BY <2>1, EnterStoreInv
  <2>2. CASE Write(c)
    BY <2>2, WriteInv
  <2>3. CASE Sync(c)
    BY <2>3, SyncInv
  <2>4. CASE EnterFails(c) \/ FindPresent(c) \/ ReadPending(c) \/ Throw(c) \/ LeaveStore(c)
    BY <2>4, ReadingTypes, ReadingInv
  <2> QED BY <1>2, <2>1, <2>2, <2>3, <2>4 DEF StoreStep
<1>3. ASSUME NEW c \in Callers,
             ProcessorStep(c) \/ (\E i \in Intents : StartEnqueue(c, i))
      PROVE  Inv'
  BY <1>3, ProcessorTypes, ProcessorInv
<1>4. ASSUME NEW c \in Callers, Crash(c) \/ CrashWriting(c)
      PROVE  Inv'
  BY <1>4, ProcessorTypes, CrashInv, CrashWritingInv
<1>5. CASE PowerLoss
  BY <1>5, PowerLossInv
<1>6. CASE RemoveLock
  <2>1. TypeOK'
    BY <1>6 DEF RemoveLock, file, history, process, Inv, TypeOK
  <2> QED BY <1>6, <2>1, RemoveLockInv
<1> QED BY <1>1, <1>2, <1>3, <1>4, <1>5, <1>6 DEF Next

\* The inductive invariant of the store and its processor.
THEOREM SpecInv == Spec => []Inv
<1>1. Init => Inv
  BY InitInv
<1>2. Inv /\ [Next]_vars => Inv'
  BY NextInv
<1> QED BY <1>1, <1>2, PTL DEF Spec
-----------------------------------------------------------------------------
(***************************************************************************)
(* What it implies.                                                        *)
(***************************************************************************)
LEMMA LinesReadable ==
    ASSUME Inv
    PROVE  /\ lines \in Seq(Events) /\ Len(lines) \in Nat /\ DOMAIN lines = 1 .. Len(lines)
           /\ Readable(lines)
           /\ \A id : RecordedIn(lines, "completed", id) => RecordedIn(Whole, "completed", id)
<1>1. lines \in Seq(Events) /\ Len(lines) \in Nat /\ DOMAIN lines = 1 .. Len(lines)
  BY DEF Inv, TypeOK
<1>2. /\ Whole \in Seq(Events) /\ Len(lines) <= Len(Whole)
      /\ \A n \in 1 .. Len(lines) : lines[n] = Whole[n]
  BY WholeFacts DEF Inv
<1> QED BY <1>1, <1>2, PrefixReadable DEF Inv, Kept

LEMMA InvReadable == Inv => StoreReadable
<1> SUFFICES ASSUME Inv, NEW n \in DOMAIN lines
             PROVE  LET id == lines[n].intent.id
                        earlier == {k \in 1 .. n - 1 : lines[k].intent.id = id}
                    IN  IF lines[n].type = "queued"
                        THEN earlier = {}
                        ELSE /\ \E k \in earlier : lines[k].type = "queued"
                             /\ lines[n].type # "completed" =>
                                   \A k \in earlier : lines[k].type # "completed"
  BY DEF StoreReadable
<1>1. /\ lines[n].type = "queued" =>
            \A k \in 1 .. n - 1 : lines[k].intent.id # lines[n].intent.id
      /\ lines[n].type # "queued" =>
            \E k \in 1 .. n - 1 :
               lines[k].intent.id = lines[n].intent.id /\ lines[k].type = "queued"
      /\ lines[n].type \notin {"queued", "completed"} =>
            \A k \in 1 .. n - 1 :
               lines[k].intent.id = lines[n].intent.id => lines[k].type # "completed"
  BY LinesReadable DEF Readable
<1> QED BY <1>1

LEMMA InvNotLost == Inv => QueuedNotLost
<1> SUFFICES ASSUME Inv, NEW i \in written
             PROVE  InFile(i)
  BY DEF QueuedNotLost
<1>1. PICK k \in 1 .. synced : lines[k] = Event("queued", i)
  BY DEF Inv, Kept, QueuedBy
<1>2. synced \in Nat /\ synced <= Len(lines)
  BY DEF Inv, TypeOK
<1>3. k \in DOMAIN lines
  BY <1>2, LinesReadable
<1> QED BY <1>1, <1>3 DEF InFile

LEMMA InvSentAfterAttempt == Inv => SentAfterAttempt
BY DEF Inv, Kept, SentAfterAttempt, Attempts

LEMMA InvSendsOnlyPending == Inv => SendsOnlyPending
<1> SUFFICES ASSUME Inv, NEW c \in Callers, job[c] \in {"send", "waiting"}
             PROVE  intent[c].id \in Pending
  BY DEF SendsOnlyPending
<1>1. intent[c].id \in Ids
  BY DEF Inv, Held, Ids
<1>2. RecordedIn(lines, "queued", intent[c].id) /\ PendingIn(Whole, intent[c].id)
  BY DEF Inv, Work
<1>3. ~RecordedIn(lines, "completed", intent[c].id)
  BY <1>2, LinesReadable DEF PendingIn
<1> QED BY <1>1, <1>2, <1>3 DEF Pending, Recorded, RecordedIn

LEMMA InvAcknowledged == Inv => CompletedMeansAcknowledged
<1> SUFFICES ASSUME Inv, NEW id \in Ids, Recorded("completed", id)
             PROVE  id \in acknowledged
  BY DEF CompletedMeansAcknowledged
<1>1. RecordedIn(Whole, "completed", id)
  BY LinesReadable DEF Recorded, RecordedIn
<1> QED BY <1>1 DEF Inv, Kept

\* The file, the locks and the state of every process stay well formed, for
\* any number of processes, intents and limits; the file never passes the
\* limit of events, not even through the repair of its tail.
THEOREM SpecTypeOK == Spec => []TypeOK
BY SpecInv, PTL DEF Inv

\* No sequence of appends, torn writes, repairs and power losses leaves a file
\* that load of the reversal store refuses, and with it every reversal in it.
THEOREM SpecStoreReadable == Spec => []StoreReadable
BY SpecInv, InvReadable, PTL

\* What enqueue appended, synchronised and returned stays in the file.
THEOREM SpecQueuedNotLost == Spec => []QueuedNotLost
BY SpecInv, InvNotLost, PTL

\* process records, and synchronises, an attempt before each message it hands
\* to the transport; the file never shows fewer attempts than there were sends.
THEOREM SpecSentAfterAttempt == Spec => []SentAfterAttempt
BY SpecInv, InvSentAfterAttempt, PTL

\* A batch read long ago does not make process send what is completed by now.
THEOREM SpecSendsOnlyPending == Spec => []SendsOnlyPending
BY SpecInv, InvSendsOnlyPending, PTL

\* Only an answer the host accepted with completes a reversal, whatever was
\* torn, repaired or lost since.
THEOREM SpecCompletedMeansAcknowledged == Spec => []CompletedMeansAcknowledged
BY SpecInv, InvAcknowledged, PTL
=============================================================================

---------------------------- MODULE ReversalQueue ----------------------------
(***************************************************************************)
(* JsonlReversalStore and ReversalProcessor: reversals that must reach the *)
(* host, kept in an append-only file of events that several processes      *)
(* share, and sent by whichever process runs the processor.                *)
(*                                                                         *)
(* Each store operation runs under the store's file lock: repair the tail, *)
(* load, check, write one line, synchronise it, unlock.  A process may die *)
(* between any two of these, or half-way through the write; the machine    *)
(* may lose power, and with it the lines that were not synchronised.       *)
(* The locks are FileLock's, seen as what HostProofs shows they            *)
(* are: at most one process inside, and nobody after a crash until an      *)
(* operator removes the file.                                              *)
(***************************************************************************)
EXTENDS Integers, Sequences, FiniteSets

CONSTANTS
    Callers,      \* processes that use the store
    Intents,      \* records [id, data]: what may be enqueued
    MaxRecords,   \* limits of the store
    MaxEvents,
    MaxBatch      \* limit of one run of the processor

\* What a lock is when no process is inside: free, or its file left behind.
Free == "free"
Abandoned == "abandoned"

ASSUME ReversalAssumption ==
    /\ \A i \in Intents : DOMAIN i = {"id", "data"}
    /\ MaxRecords \in Nat /\ MaxEvents \in Nat /\ MaxBatch \in Nat
    /\ Free \notin Callers /\ Abandoned \notin Callers

Ids == {i.id : i \in Intents}

VARIABLES
    lines,          \* the complete lines of the file
    tail,           \* what follows the last newline
    synced,         \* so many lines survive a power loss
    storeLock,      \* Free, Abandoned or the process inside
    processorLock,
    job,            \* per process, what it is doing
    step,           \* per process, where it is in a store operation
    intent,         \* per process, the reversal it works on
    batch,          \* per process, the reversals still to be sent
    written,        \* the intents whose enqueue appended and returned
    present,        \* the intents whose enqueue found them there and returned
    sends,          \* per id, how often the message was handed to the transport
    acknowledged    \* the ids the host has acknowledged

file == <<lines, tail, synced>>
process == <<job, step, intent, batch>>
history == <<written, present, sends, acknowledged>>
vars == <<file, storeLock, processorLock, process, history>>

Event(type, of) == [type |-> type, intent |-> of]
NoTail == [type |-> "none"]
Torn == [type |-> "torn"]
NoIntent == [id |-> "none", data |-> "none"]

Transitions == {"attempted", "failed", "completed"}
StoreJobs == {"enqueue", "pending"} \cup Transitions
Jobs == StoreJobs \cup {"idle", "next", "send", "waiting", "leaving"}
Steps == {"calling", "inside", "written", "returned", "present", "thrown"}

Recorded(type, id) ==
    \E n \in DOMAIN lines : lines[n].type = type /\ lines[n].intent.id = id
Pending == {id \in Ids : Recorded("queued", id) /\ ~Recorded("completed", id)}
Records == {id \in Ids : Recorded("queued", id)}

Init ==
    /\ lines = <<>> /\ tail = NoTail /\ synced = 0
    /\ storeLock = Free /\ processorLock = Free
    /\ job = [c \in Callers |-> "idle"]
    /\ step = [c \in Callers |-> "calling"]
    /\ intent = [c \in Callers |-> NoIntent]
    /\ batch = [c \in Callers |-> {}]
    /\ written = {} /\ present = {}
    /\ sends = [id \in Ids |-> 0]
    /\ acknowledged = {}

Do(c, next) == job' = [job EXCEPT ![c] = next]
To(c, place) == step' = [step EXCEPT ![c] = place]
-----------------------------------------------------------------------------
(***************************************************************************)
(* One store operation (mutate).                                           *)
(***************************************************************************)

\* A complete last line gets its newline, an incomplete one is cut off.
RepairPartialTail ==
    /\ lines' = IF tail \in {NoTail, Torn} THEN lines ELSE Append(lines, tail)
    /\ tail' = NoTail
    /\ synced' = IF tail = NoTail THEN synced ELSE Len(lines')

EnterStore(c) ==
    /\ job[c] \in StoreJobs /\ step[c] = "calling"
    /\ storeLock = Free
    /\ storeLock' = c
    /\ RepairPartialTail
    /\ To(c, "inside")
    /\ UNCHANGED <<processorLock, job, intent, batch, history>>

Inside(c) == storeLock = c /\ step[c] = "inside"

\* Faulty variant: the status of the record is not looked at.
AllowedAfterAll(c) ==
    \/ job[c] = "enqueue" /\ intent[c].id \notin Records
       /\ Cardinality(Records) < MaxRecords
    \/ job[c] \in Transitions /\ intent[c].id \in Records

\* The checks of enqueue and transition before they append.
Allowed(c) ==
    \/ job[c] = "enqueue" /\ intent[c].id \notin Records
       /\ Cardinality(Records) < MaxRecords
    \/ job[c] \in Transitions /\ intent[c].id \in Pending

\* The line a process inside is about to append, if any.
Line(c) ==
    IF Inside(c) /\ Allowed(c) /\ Len(lines) < MaxEvents
    THEN {Event(IF job[c] = "enqueue" THEN "queued" ELSE job[c], intent[c])}
    ELSE {}

Write(c) ==
    /\ \E line \in Line(c) : lines' = Append(lines, line)
    /\ To(c, "written")
    /\ UNCHANGED <<tail, synced, storeLock, processorLock, job, intent, batch, history>>

\* Faulty variant: the line is left to the operating system.
SyncNothing(c) ==
    /\ storeLock = c /\ step[c] = "written"
    /\ To(c, "returned")
    /\ UNCHANGED <<file, storeLock, processorLock, job, intent, batch, history>>

Sync(c) ==
    /\ storeLock = c /\ step[c] = "written"
    /\ synced' = Len(lines)
    /\ To(c, "returned")
    /\ UNCHANGED <<lines, tail, storeLock, processorLock, job, intent, batch, history>>

\* An equal intent, or a completion, that is in the file already.
FindPresent(c) ==
    /\ Inside(c)
    /\ \/ job[c] = "enqueue" /\ Event("queued", intent[c]) \in {lines[n] : n \in DOMAIN lines}
       \/ job[c] = "completed" /\ Recorded("completed", intent[c].id)
    /\ To(c, "present")
    /\ UNCHANGED <<file, storeLock, processorLock, job, intent, batch, history>>

\* pending: in the order of their times of creation, which clocks of several
\* processes have written, so in any order.
ReadPending(c) ==
    /\ Inside(c) /\ job[c] = "pending"
    /\ \E ids \in SUBSET Pending :
          /\ Cardinality(ids) <= MaxBatch
          /\ Cardinality(ids) = MaxBatch \/ ids = Pending
          /\ batch' = [batch EXCEPT ![c] = ids]
    /\ To(c, "returned")
    /\ UNCHANGED <<file, storeLock, processorLock, job, intent, history>>

\* A check fails, or a call does: the line may have been written by then.
Throw(c) ==
    /\ storeLock = c /\ step[c] \in {"inside", "written"}
    /\ To(c, "thrown")
    /\ UNCHANGED <<file, storeLock, processorLock, job, intent, batch, history>>
-----------------------------------------------------------------------------
(***************************************************************************)
(* The callers: enqueue, and the loop of ReversalProcessor.process.        *)
(***************************************************************************)
StartEnqueue(c, i) ==
    /\ job[c] = "idle"
    /\ Do(c, "enqueue")
    /\ intent' = [intent EXCEPT ![c] = i]
    /\ UNCHANGED <<file, storeLock, processorLock, step, batch, history>>

\* Faulty variant: processors do not exclude each other.
EnterAnyProcessor(c) ==
    /\ job[c] = "idle"
    /\ processorLock' = c
    /\ Do(c, "pending")
    /\ UNCHANGED <<file, storeLock, step, intent, batch, history>>

\* process, once it has the processors' lock; without it, it just throws.
EnterProcessor(c) ==
    /\ job[c] = "idle"
    /\ processorLock = Free
    /\ processorLock' = c
    /\ Do(c, "pending")
    /\ UNCHANGED <<file, storeLock, step, intent, batch, history>>

\* What the awaiting code does with the outcome of its store operation.
Continuation(task, outcome) ==
    CASE task = "enqueue"                              -> "idle"
      [] task = "completed" /\ outcome = "thrown"      -> "failed"
      [] task = "attempted" /\ outcome # "thrown"      -> "send"
      [] task # "enqueue" /\ task # "attempted"
         /\ outcome # "thrown"                         -> "next"
      [] OTHER                                         -> "leaving"

Resume(c, outcome) ==
    LET next == Continuation(job[c], outcome) IN
    /\ Do(c, next)
    /\ To(c, "calling")
    /\ intent' = [intent EXCEPT ![c] = IF next \in {"send", "failed"} THEN @ ELSE NoIntent]
    /\ written' = IF job[c] = "enqueue" /\ outcome = "returned"
                  THEN written \cup {intent[c]} ELSE written
    /\ present' = IF job[c] = "enqueue" /\ outcome = "present"
                  THEN present \cup {intent[c]} ELSE present
    /\ UNCHANGED <<file, processorLock, batch, sends, acknowledged>>

\* Unlocked, or not: a failing unlock is what the caller gets to know.
LeaveStore(c) ==
    /\ storeLock = c /\ step[c] \in {"returned", "present", "thrown"}
    /\ \/ storeLock' = Free /\ Resume(c, step[c])
       \/ storeLock' = Abandoned /\ Resume(c, "thrown")

\* The store's lock was not free before the timeout.
EnterFails(c) ==
    /\ job[c] \in StoreJobs /\ step[c] = "calling"
    /\ Resume(c, "thrown")
    /\ UNCHANGED storeLock

\* Faulty variant: the attempt is not recorded before the message is sent.
BeginUnrecorded(c) ==
    /\ job[c] = "next"
    /\ \E i \in Intents :
          /\ i.id \in batch[c] /\ Event("queued", i) \in {lines[n] : n \in DOMAIN lines}
          /\ intent' = [intent EXCEPT ![c] = i]
          /\ batch' = [batch EXCEPT ![c] = @ \ {i.id}]
    /\ Do(c, "send")
    /\ UNCHANGED <<file, storeLock, processorLock, step, history>>

Begin(c) ==
    /\ job[c] = "next"
    /\ \E i \in Intents :
          /\ i.id \in batch[c] /\ Event("queued", i) \in {lines[n] : n \in DOMAIN lines}
          /\ intent' = [intent EXCEPT ![c] = i]
          /\ batch' = [batch EXCEPT ![c] = @ \ {i.id}]
    /\ Do(c, "attempted")
    /\ UNCHANGED <<file, storeLock, processorLock, step, history>>

\* The batch is done, or the signal aborted.
Quit(c) ==
    /\ job[c] = "next"
    /\ Do(c, "leaving")
    /\ UNCHANGED <<file, storeLock, processorLock, step, intent, batch, history>>

LeaveProcessor(c) ==
    /\ job[c] = "leaving"
    /\ processorLock' \in {Free, Abandoned}
    /\ Do(c, "idle")
    /\ batch' = [batch EXCEPT ![c] = {}]
    /\ UNCHANGED <<file, storeLock, step, intent, history>>

\* buildMessage, which may throw, and the exchange.
Send(c) ==
    /\ job[c] = "send"
    /\ \/ /\ Do(c, "waiting")
          /\ sends' = [sends EXCEPT ![intent[c].id] = @ + 1]
       \/ Do(c, "failed") /\ UNCHANGED sends
    /\ UNCHANGED <<file, storeLock, processorLock, step, intent, batch,
                   written, present, acknowledged>>

\* Faulty variant: any response completes the reversal.
AnswerUnchecked(c, accepted) ==
    /\ job[c] = "waiting"
    /\ acknowledged' = IF accepted THEN acknowledged \cup {intent[c].id} ELSE acknowledged
    /\ Do(c, "completed")
    /\ UNCHANGED <<file, storeLock, processorLock, step, intent, batch,
                   written, present, sends>>

\* An accepted response; any other, none, and an abort are failures.
Answer(c, accepted) ==
    /\ job[c] = "waiting"
    /\ acknowledged' = IF accepted THEN acknowledged \cup {intent[c].id} ELSE acknowledged
    /\ Do(c, IF accepted THEN "completed" ELSE "failed")
    /\ UNCHANGED <<file, storeLock, processorLock, step, intent, batch,
                   written, present, sends>>
-----------------------------------------------------------------------------
(***************************************************************************)
(* Crashes.                                                                *)
(***************************************************************************)
Left(lock, dead) == IF lock \in dead THEN Abandoned ELSE lock

\* A process that is started again knows nothing.
Die(dead) ==
    /\ job' = [c \in Callers |-> IF c \in dead THEN "idle" ELSE job[c]]
    /\ step' = [c \in Callers |-> IF c \in dead THEN "calling" ELSE step[c]]
    /\ intent' = [c \in Callers |-> IF c \in dead THEN NoIntent ELSE intent[c]]
    /\ batch' = [c \in Callers |-> IF c \in dead THEN {} ELSE batch[c]]
    /\ UNCHANGED history

Crash(c) ==
    /\ job[c] # "idle"
    /\ storeLock' = Left(storeLock, {c}) /\ processorLock' = Left(processorLock, {c})
    /\ Die({c})
    /\ UNCHANGED file

\* ... in the middle of the write: without its newline, or without more.
CrashWriting(c) ==
    /\ \E line \in Line(c) : tail' \in {Torn, line}
    /\ storeLock' = Left(storeLock, {c}) /\ processorLock' = Left(processorLock, {c})
    /\ Die({c})
    /\ UNCHANGED <<lines, synced>>

\* What was not synchronised may be gone, whole or in part; so may a lock
\* file's creation or removal.
PowerLoss ==
    /\ \E n \in synced .. Len(lines) :
          /\ lines' = SubSeq(lines, 1, n)
          /\ synced' = n
          /\ tail' \in {NoTail, Torn} \cup
                       (IF n < Len(lines) THEN {lines[n + 1]} ELSE {tail})
    /\ storeLock' \in {Free, Abandoned} /\ processorLock' \in {Free, Abandoned}
    /\ Die(Callers)

\* An operator removes an abandoned lock file.
RemoveLock ==
    /\ \/ storeLock = Abandoned /\ storeLock' = Free /\ UNCHANGED processorLock
       \/ processorLock = Abandoned /\ processorLock' = Free /\ UNCHANGED storeLock
    /\ UNCHANGED <<file, process, history>>

StoreStep(c) ==
    \/ EnterStore(c) \/ EnterFails(c) \/ Write(c) \/ Sync(c) \/ FindPresent(c)
    \/ ReadPending(c) \/ Throw(c) \/ LeaveStore(c)

ProcessorStep(c) ==
    \/ EnterProcessor(c) \/ Begin(c) \/ Quit(c) \/ Send(c) \/ LeaveProcessor(c)
    \/ \E accepted \in BOOLEAN : Answer(c, accepted)

Next ==
    \/ \E c \in Callers :
          \/ StoreStep(c) \/ ProcessorStep(c)
          \/ \E i \in Intents : StartEnqueue(c, i)
          \/ Crash(c) \/ CrashWriting(c)
    \/ PowerLoss
    \/ RemoveLock

Spec == Init /\ [][Next]_vars
-----------------------------------------------------------------------------
(***************************************************************************)
(* Correctness.                                                            *)
(***************************************************************************)
Events == [type : {"queued"} \cup Transitions, intent : Intents]

TypeOK ==
    /\ lines \in Seq(Events) /\ Len(lines) <= MaxEvents
    /\ tail \in {NoTail, Torn} \cup Events
    /\ synced \in 0 .. Len(lines)
    /\ {storeLock, processorLock} \subseteq Callers \cup {Free, Abandoned}
    /\ job \in [Callers -> Jobs]
    /\ step \in [Callers -> Steps]
    /\ intent \in [Callers -> Intents \cup {NoIntent}]
    /\ batch \in [Callers -> SUBSET Ids]
    /\ written \subseteq Intents /\ present \subseteq Intents
    /\ sends \in [Ids -> Nat]
    /\ acknowledged \subseteq Ids

\* load never finds a duplicate, an unknown id or a change after completion,
\* for each of which it would refuse the whole store from then on, with every
\* reversal in it.
StoreReadable ==
    \A n \in DOMAIN lines :
        LET id == lines[n].intent.id
            earlier == {k \in 1 .. n - 1 : lines[k].intent.id = id}
        IN  IF lines[n].type = "queued"
            THEN earlier = {}
            ELSE /\ \E k \in earlier : lines[k].type = "queued"
                 /\ lines[n].type # "completed" =>
                       \A k \in earlier : lines[k].type # "completed"

InFile(i) == Event("queued", i) \in {lines[n] : n \in DOMAIN lines}

\* An enqueue that appended its event and returned is never undone, by crashes,
\* power losses or repairs.
QueuedNotLost == \A i \in written : InFile(i)

\* The same of every enqueue that returned (docs/host-iso8583.md: the store
\* "synchronizes every appended event").
EnqueuedNotLost == \A i \in written \cup present : InFile(i)

\* Every message handed to the transport was preceded by an attempt that no
\* crash or power loss removes: the recorded attempts never understate what
\* the host may have received.
SentAfterAttempt ==
    \A id \in Ids :
        sends[id] <= Cardinality({n \in 1 .. synced :
            lines[n].type = "attempted" /\ lines[n].intent.id = id})

\* Only a pending reversal is sent, even though the batch was read long before:
\* nothing that is completed reaches the host again.
SendsOnlyPending ==
    \A c \in Callers : job[c] \in {"send", "waiting"} => intent[c].id \in Pending

\* A reversal leaves the queue only after the host has acknowledged it.
CompletedMeansAcknowledged ==
    \A id \in Ids : Recorded("completed", id) => id \in acknowledged
=============================================================================

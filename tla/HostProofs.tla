----------------------------- MODULE HostProofs -----------------------------
(***************************************************************************)
(* What TLAPS proves of the ISO 8583 adapter: of the trace numbers it      *)
(* takes, for any callers, crashes, failed writes, timeouts and operators  *)
(* and any cycle length; and of the authorizations it sends with them over *)
(* the framed transport, for any calls, categories, frames and pieces, and *)
(* a counter that does not come round while the calls last.                *)
(***************************************************************************)
EXTENDS HostExchange, StanAllocator, FiniteSetTheorems, TLAPS
-----------------------------------------------------------------------------
(***************************************************************************)
(* The allocator.  The state on disk grows by one with every allocation    *)
(* and is at most one rename ahead of the durable one; a number is         *)
(* returned only when it is durable; so the returned serials grow, and two *)
(* serials with the same number differ by a multiple of the cycle.         *)
(***************************************************************************)

\* The lock alone.
LockInv == LockTypeOK /\ LockExclusive

LEMMA LockInitInv ==
    ASSUME LockInit
    PROVE  LockInv
BY DEF LockInit, LockInv, LockTypeOK, LockExclusive, Places, Inside

\* Steps that put one caller outside and leave the file alone.
LEMMA LeavesInv ==
    ASSUME LockInv, NEW c \in Callers, NEW place \in Places \ Inside,
           at' = [at EXCEPT ![c] = place], lockFile' = lockFile
    PROVE  LockInv'
<1>1. LockTypeOK'
  BY DEF LockInv, LockTypeOK
<1>2. \A d \in Callers : at'[d] = IF d = c THEN place ELSE at[d]
  BY DEF LockInv, LockTypeOK
<1>3. LockExclusive'
  BY <1>2 DEF LockInv, LockExclusive
<1> QED
  BY <1>1, <1>3 DEF LockInv

\* The owner's steps from its creation of the file to its removal.
LEMMA OwnerInv ==
    ASSUME LockInv, NEW c \in Callers,
           Open(c) \/ WriteToken(c) \/ Verify(c) \/ Unlink(c)
    PROVE  LockInv'
<1>1. PICK place \in Places : at' = [at EXCEPT ![c] = place]
  BY DEF Open, WriteToken, Verify, Unlink, Move, Places, Inside
<1>2. \A d \in Callers : at'[d] = IF d = c THEN place ELSE at[d]
  BY <1>1 DEF LockInv, LockTypeOK
<1>3. LockTypeOK'
  BY <1>1 DEF LockInv, LockTypeOK, Open, WriteToken, Verify, Unlink
<1>4. \A d \in Callers \ {c} : at[d] \notin Inside
  <2>1. CASE Open(c)
    BY <2>1, CallersAssumption DEF Open, LockInv, LockExclusive, NoFile, NoToken
  <2>2. CASE WriteToken(c) \/ Verify(c) \/ Unlink(c)
    BY <2>2 DEF WriteToken, Verify, Unlink, Move, Inside, LockInv, LockExclusive
  <2> QED
    BY <2>1, <2>2
<1>5. place \in Inside => lockFile' = IF place = "opened" THEN NoToken ELSE c
  <2>1. place = at'[c]
    BY <1>2
  <2>2. CASE Open(c)
    BY <2>1, <2>2 DEF Open, Move, LockInv, LockTypeOK
  <2>3. CASE WriteToken(c) \/ Verify(c) \/ Unlink(c)
    BY <2>1, <2>3 DEF WriteToken, Verify, Unlink, Move, Inside, LockInv, LockTypeOK
  <2> QED
    BY <2>2, <2>3
<1>6. LockExclusive'
  BY <1>2, <1>4, <1>5 DEF LockExclusive
<1> QED
  BY <1>3, <1>6 DEF LockInv

\* Every step of the lock keeps it exclusive.
LEMMA LockStepInv ==
    ASSUME LockInv, [LockNext]_lockVars
    PROVE  LockInv'
<1>1. CASE UNCHANGED lockVars
  BY <1>1 DEF lockVars, LockInv, LockTypeOK, LockExclusive
<1>2. ASSUME NEW c \in Callers, LockStep(c)
      PROVE  LockInv'
  <2>1. CASE Open(c) \/ WriteToken(c) \/ Verify(c) \/ Unlink(c)
    BY <2>1, OwnerInv
  <2>2. CASE \/ Want(c) \/ GiveUp(c) \/ WriteTokenFails(c) \/ VerifyFails(c)
             \/ Crash(c) \/ Restart(c)
    <3>1. PICK place \in {"wanting", "out", "dead"} :
             at' = [at EXCEPT ![c] = place] /\ lockFile' = lockFile
      BY <2>2 DEF Want, GiveUp, WriteTokenFails, VerifyFails, Crash, Restart, Move
    <3>2. place \in Places \ Inside
      BY DEF Places, Inside
    <3> QED
      BY <3>1, <3>2, LeavesInv
  <2> QED
    BY <1>2, <2>1, <2>2 DEF LockStep
<1>3. CASE LockPowerLoss
  BY <1>3 DEF LockPowerLoss, LockInv, LockTypeOK, LockExclusive, Places, Inside
<1>4. CASE RemoveLock
  BY <1>4 DEF RemoveLock, LockInv, LockTypeOK, LockExclusive
<1> QED
  BY <1>1, <1>2, <1>3, <1>4 DEF LockNext
-----------------------------------------------------------------------------
(***************************************************************************)
(* The allocator under the lock.                                           *)
(***************************************************************************)
\* The number of a state follows from its serial.
OnCycle(s) == \E laps \in Nat : s.serial = laps * MaxStan + s.last

\* Where the operation of a caller with the lock has got to.
Working(c) ==
    /\ at[c] = "verified" => step[c] \in {"taken", "failed"}
    /\ at[c] \in {"holding", "verified"} =>
          /\ step[c] = "rename" => own[c] = NextState(disk)
          /\ step[c] = "sync" => own[c] = disk /\ durable.serial < disk.serial
          /\ step[c] = "taken" =>
                /\ own[c] = disk /\ own[c] = durable
                /\ \A i \in DOMAIN issued : issued[i].serial < own[c].serial

\* What has been returned is durable, and grows.
Issued ==
    /\ durable.serial <= disk.serial
    /\ \A i \in DOMAIN issued :
          OnCycle(issued[i]) /\ issued[i].serial <= durable.serial
    /\ \A i, j \in DOMAIN issued : i < j => issued[i].serial < issued[j].serial

StanInv ==
    /\ StanTypeOK
    /\ LockExclusive
    /\ OnCycle(disk) /\ OnCycle(durable)
    /\ Issued
    /\ \A c \in Callers : Working(c)
-----------------------------------------------------------------------------
LEMMA NextStateFacts ==
    ASSUME NEW s \in States, OnCycle(s)
    PROVE  /\ NextState(s) \in States
           /\ NextState(s).serial = s.serial + 1
           /\ OnCycle(NextState(s))
<1> DEFINE t == NextState(s)
<1>1. s.last \in 0 .. MaxStan /\ s.serial \in Nat /\ MaxStan \in Nat \ {0}
  BY StanAssumption DEF States
<1>2. t.serial = s.serial + 1
  BY DEF NextState
<1>3. CASE s.last = MaxStan
  <2>1. MaxStan % MaxStan = 0
    BY <1>1
  <2>2. t.last = 1
    BY <1>3, <2>1 DEF NextState
  <2>3. PICK laps \in Nat : s.serial = laps * MaxStan + s.last
    BY DEF OnCycle
  <2>4. (laps + 1) * MaxStan = laps * MaxStan + MaxStan
    BY <1>1
  <2>5. t.serial = (laps + 1) * MaxStan + t.last
    BY <1>1, <1>2, <1>3, <2>2, <2>3, <2>4
  <2>6. laps + 1 \in Nat
    OBVIOUS
  <2>7. OnCycle(t)
    BY <2>2, <2>5, <2>6 DEF OnCycle
  <2>8. t \in States
    BY <1>1, <2>2 DEF NextState, States
  <2> QED
    BY <1>2, <2>2, <2>7, <2>8
<1>4. CASE s.last # MaxStan
  <2>1. s.last % MaxStan = s.last
    BY <1>1, <1>4
  <2>2. t.last = s.last + 1
    BY <2>1 DEF NextState
  <2>3. PICK laps \in Nat : s.serial = laps * MaxStan + s.last
    BY DEF OnCycle
  <2>4. t.serial = laps * MaxStan + t.last
    BY <1>1, <1>2, <2>2, <2>3
  <2>5. OnCycle(t)
    BY <1>1, <2>2, <2>3, <2>4 DEF OnCycle
  <2>6. t \in States
    BY <1>1, <1>4, <2>1 DEF NextState, States
  <2> QED
    BY <1>2, <2>5, <2>6
<1> QED
  BY <1>3, <1>4

\* Two serials with the same number are a whole number of cycles apart.
LEMMA CycleDistance ==
    ASSUME NEW s \in States, NEW t \in States, OnCycle(s), OnCycle(t),
           s.last = t.last, s.serial < t.serial
    PROVE  t.serial - s.serial >= MaxStan
<1>1. PICK k \in Nat : s.serial = k * MaxStan + s.last
  BY DEF OnCycle
<1>2. PICK l \in Nat : t.serial = l * MaxStan + t.last
  BY DEF OnCycle
<1>3. MaxStan \in Nat \ {0} /\ s.last \in Nat /\ s.serial \in Nat /\ t.serial \in Nat
  BY StanAssumption DEF States
<1>4. k * MaxStan < l * MaxStan
  BY <1>1, <1>2, <1>3
<1>5. k < l
  BY <1>3, <1>4
<1>6. l * MaxStan = k * MaxStan + (l - k) * MaxStan
  BY <1>3
<1>7. (l - k) * MaxStan >= MaxStan
  BY <1>3, <1>5
<1> DEFINE a == k * MaxStan
           b == l * MaxStan
           d == (l - k) * MaxStan
<1>8. a \in Int /\ b \in Int /\ d \in Int
  BY <1>3
<1>9. b = a + d /\ d >= MaxStan /\ s.serial = a + s.last /\ t.serial = b + t.last
  BY <1>1, <1>2, <1>6, <1>7
<1> HIDE DEF a, b, d
<1> QED
  BY <1>3, <1>8, <1>9
-----------------------------------------------------------------------------
\* The lock's part of a step.
LEMMA StanLockInv ==
    ASSUME LockInv, [StanNext]_allStanVars
    PROVE  LockInv'
<1>1. [LockNext]_lockVars
  BY DEF StanNext, allStanVars, Enter, Read, Rename, SyncDirectory, Fails, Leave, Die,
         PowerLoss, Operate, LockNext, LockStep, lockVars
<1> QED
  BY <1>1, LockStepInv

\* Who does not hold the lock is in no operation.
LEMMA NotWorking ==
    ASSUME NEW c \in Callers, at[c] \notin {"holding", "verified"}
    PROVE  Working(c)
BY DEF Working

\* A caller that holds the lock is the only one.
LEMMA OthersIdle ==
    ASSUME StanInv, NEW c \in Callers, at[c] \in Inside, NEW d \in Callers \ {c},
           at'[d] = at[d]
    PROVE  Working(d)'
BY DEF StanInv, LockExclusive, Inside, Working

LEMMA StanInitInv ==
    ASSUME StanInit
    PROVE  StanInv
<1>1. LockInv
  BY LockInitInv DEF StanInit
<1>2. NoState \in States
  BY StanAssumption DEF NoState, States
<1>3. 0 \in Nat /\ 0 = 0 * MaxStan + 0
  BY StanAssumption
<1>4. OnCycle(NoState)
  BY <1>3 DEF OnCycle, NoState
<1>5. issued = <<>> /\ DOMAIN issued = {}
  BY DEF StanInit
<1>6. StanTypeOK
  BY <1>1, <1>2, <1>5 DEF StanInit, StanTypeOK, LockInv
<1>7. Issued
  BY <1>5 DEF StanInit, Issued, NoState
<1>8. \A c \in Callers : Working(c)
  BY DEF StanInit, LockInit, Working
<1> QED
  BY <1>1, <1>4, <1>6, <1>7, <1>8 DEF StanInv, StanInit, LockInv

\* Steps that leave the files and the returned numbers alone.
LEMMA FilesKept ==
    ASSUME StanInv, UNCHANGED <<disk, durable, issued>>
    PROVE  (OnCycle(disk) /\ OnCycle(durable) /\ Issued)'
BY DEF StanInv, OnCycle, Issued

LEMMA Bystander ==
    ASSUME NEW d \in Callers, Working(d), UNCHANGED <<disk, durable, issued>>,
           at'[d] = at[d], step'[d] = step[d], own'[d] = own[d]
    PROVE  Working(d)'
BY DEF Working, NextState

LEMMA OneMoves ==
    ASSUME LockTypeOK, NEW c \in Callers, LockStep(c)
    PROVE  \A d \in Callers \ {c} : at'[d] = at[d]
BY DEF LockTypeOK, LockStep, Want, Open, GiveUp, WriteToken, WriteTokenFails,
       Verify, VerifyFails, Unlink, Crash, Restart, Move

\* Getting the lock, or dying, starts over.
LEMMA EnterInv ==
    ASSUME StanInv, NEW c \in Callers, Enter(c) \/ Die(c), LockInv'
    PROVE  StanInv'
<1>1. /\ step' = [d \in Callers |-> IF d \in {c} THEN "read" ELSE step[d]]
      /\ own' = [d \in Callers |-> IF d \in {c} THEN NoState ELSE own[d]]
      /\ UNCHANGED <<disk, durable, issued>>
  BY DEF Enter, Die, Forget
<1>2. NoState \in States
  BY StanAssumption DEF NoState, States
<1>3. StanTypeOK'
  BY <1>1, <1>2 DEF StanInv, StanTypeOK, LockInv
<1>4. (OnCycle(disk) /\ OnCycle(durable) /\ Issued)'
  BY <1>1, FilesKept
<1>5. LockStep(c) /\ LockTypeOK
  BY DEF Enter, Die, LockStep, StanInv, StanTypeOK
<1>6. ASSUME NEW d \in Callers
      PROVE  Working(d)'
  <2>1. CASE d = c
    <3>1. step'[d] = "read"
      BY <1>1, <2>1
    <3>2. at'[d] # "verified"
      BY <2>1, <1>5 DEF Enter, Die, LockTypeOK, Want, Open, GiveUp, WriteToken,
                        WriteTokenFails, Crash, Restart, Move
    <3> QED
      BY <3>1, <3>2 DEF Working
  <2>2. CASE d # c
    <3>1. at'[d] = at[d] /\ step'[d] = step[d] /\ own'[d] = own[d]
      BY <1>1, <1>5, <2>2, OneMoves
    <3> QED
      BY <1>1, <3>1, Bystander DEF StanInv
  <2> QED
    BY <2>1, <2>2
<1> QED
  BY <1>3, <1>4, <1>6 DEF StanInv, LockInv

LEMMA ReadInv ==
    ASSUME StanInv, NEW c \in Callers, Read(c), LockInv'
    PROVE  StanInv'
<1>1. disk \in States /\ OnCycle(disk)
  BY DEF StanInv, StanTypeOK
<1>2. NextState(disk) \in States
  BY <1>1, NextStateFacts
<1>3. StanTypeOK'
  BY <1>2 DEF Read, StanInv, StanTypeOK, LockInv
<1>4. (OnCycle(disk) /\ OnCycle(durable) /\ Issued)'
  BY FilesKept DEF Read
<1>5. ASSUME NEW d \in Callers
      PROVE  Working(d)'
  <2>1. CASE d = c
    <3>1. at'[d] = "holding" /\ step'[d] = "rename" /\ own'[d] = NextState(disk)
          /\ disk' = disk
      BY <2>1 DEF Read, StanInv, StanTypeOK, lockVars
    <3> QED
      BY <3>1 DEF Working, NextState
  <2>2. CASE d # c
    BY <2>2, OthersIdle DEF Read, lockVars, Inside
  <2> QED
    BY <2>1, <2>2
<1> QED
  BY <1>3, <1>4, <1>5 DEF StanInv, LockInv

\* The state on disk gets one ahead of the durable one.
LEMMA RenameInv ==
    ASSUME StanInv, NEW c \in Callers, Rename(c), LockInv'
    PROVE  StanInv'
<1>1. disk \in States /\ durable \in States /\ OnCycle(disk) /\ own[c] = NextState(disk)
  BY DEF StanInv, StanTypeOK, Working, Rename
<1>2. disk' \in States /\ disk'.serial = disk.serial + 1 /\ OnCycle(disk')
  BY <1>1, NextStateFacts DEF Rename
<1>3. StanTypeOK'
  BY <1>2 DEF Rename, StanInv, StanTypeOK, LockInv
<1>4. durable.serial <= disk.serial /\ durable.serial \in Nat /\ disk.serial \in Nat
  BY <1>1 DEF StanInv, Issued, States
<1>5. durable.serial < disk'.serial
  BY <1>2, <1>4
<1>6. (OnCycle(disk) /\ OnCycle(durable))'
  BY <1>2 DEF Rename, StanInv, OnCycle
<1>7. Issued'
  BY <1>4, <1>5, <1>2 DEF Rename, StanInv, Issued, OnCycle
<1>8. ASSUME NEW d \in Callers
      PROVE  Working(d)'
  <2>1. CASE d = c
    <3>1. at'[d] = "holding" /\ step'[d] = "sync" /\ own'[d] = disk' /\ durable' = durable
      BY <2>1 DEF Rename, StanInv, StanTypeOK, lockVars
    <3> QED
      BY <1>5, <3>1 DEF Working
  <2>2. CASE d # c
    BY <2>2, OthersIdle DEF Rename, lockVars, Inside
  <2> QED
    BY <2>1, <2>2
<1> QED
  BY <1>3, <1>6, <1>7, <1>8 DEF StanInv, LockInv

\* The new number is durable, and above all returned ones.
LEMMA SyncInv ==
    ASSUME StanInv, NEW c \in Callers, SyncDirectory(c), LockInv'
    PROVE  StanInv'
<1>1. /\ disk \in States /\ durable \in States /\ issued \in Seq(States)
      /\ OnCycle(disk) /\ own[c] = disk /\ durable.serial < disk.serial
  BY DEF StanInv, StanTypeOK, Working, SyncDirectory
<1>2. StanTypeOK'
  BY <1>1 DEF SyncDirectory, StanInv, StanTypeOK, LockInv
<1>3. \A i \in DOMAIN issued : issued[i] \in States /\ issued[i].serial <= durable.serial
  BY <1>1 DEF StanInv, Issued
<1>4. \A i \in DOMAIN issued : issued[i].serial < disk.serial
  BY <1>1, <1>3 DEF States
<1>5. (OnCycle(disk) /\ OnCycle(durable))'
  BY <1>1 DEF SyncDirectory, OnCycle
<1>6. \A i \in DOMAIN issued : issued[i].serial <= disk.serial
  BY <1>1, <1>3, <1>4 DEF States
<1>7. disk.serial <= disk.serial
  BY <1>1 DEF States
<1>8. Issued'
  BY <1>6, <1>7 DEF SyncDirectory, StanInv, Issued, OnCycle
<1>9. ASSUME NEW d \in Callers
      PROVE  Working(d)'
  <2>1. CASE d = c
    <3>1. /\ at'[d] = "holding" /\ step'[d] = "taken" /\ own'[d] = disk'
          /\ durable' = disk' /\ issued' = issued /\ disk' = disk
      BY <1>1, <2>1 DEF SyncDirectory, StanInv, StanTypeOK, lockVars
    <3> QED
      BY <1>4, <3>1 DEF Working
  <2>2. CASE d # c
    BY <2>2, OthersIdle DEF SyncDirectory, lockVars, Inside
  <2> QED
    BY <2>1, <2>2
<1> QED
  BY <1>2, <1>5, <1>8, <1>9 DEF StanInv, LockInv

LEMMA FailsInv ==
    ASSUME StanInv, NEW c \in Callers, Fails(c), LockInv'
    PROVE  StanInv'
<1>1. StanTypeOK'
  BY DEF Fails, StanInv, StanTypeOK, LockInv
<1>2. (OnCycle(disk) /\ OnCycle(durable) /\ Issued)'
  BY FilesKept DEF Fails
<1>3. ASSUME NEW d \in Callers
      PROVE  Working(d)'
  <2>1. CASE d = c
    BY <2>1 DEF Fails, StanInv, StanTypeOK, lockVars, Working
  <2>2. CASE d # c
    BY <2>2, OthersIdle DEF Fails, lockVars, Inside
  <2> QED
    BY <2>1, <2>2
<1> QED
  BY <1>1, <1>2, <1>3 DEF StanInv, LockInv

\* A returned number is durable and larger than those before it.
LEMMA ReturnInv ==
    ASSUME StanInv, NEW c \in Callers, at[c] = "verified", step[c] = "taken",
           issued' = Append(issued, own[c]), UNCHANGED <<disk, durable>>
    PROVE  Issued' /\ issued' \in Seq(States)
<1>1. /\ own[c] = durable /\ OnCycle(own[c]) /\ own[c] \in States
      /\ \A i \in DOMAIN issued : issued[i].serial < own[c].serial
  BY DEF StanInv, Working, StanTypeOK
<1>2. issued \in Seq(States) /\ issued' \in Seq(States)
  BY <1>1 DEF StanInv, StanTypeOK
<1>3. /\ DOMAIN issued = 1 .. Len(issued) /\ DOMAIN issued' = 1 .. Len(issued) + 1
      /\ Len(issued) \in Nat
      /\ \A i \in 1 .. Len(issued) : issued'[i] = issued[i]
      /\ issued'[Len(issued) + 1] = own[c]
  BY <1>1, <1>2
<1>4. ASSUME NEW i \in DOMAIN issued'
      PROVE  OnCycle(issued'[i]) /\ issued'[i].serial <= durable.serial
  <2>1. CASE i = Len(issued) + 1
    BY <1>1, <1>3, <2>1 DEF States
  <2>2. CASE i \in DOMAIN issued
    BY <1>3, <2>2 DEF StanInv, Issued
  <2> QED
    BY <1>3, <2>1, <2>2
<1>5. ASSUME NEW i \in DOMAIN issued', NEW j \in DOMAIN issued', i < j
      PROVE  issued'[i].serial < issued'[j].serial
  <2>1. i \in DOMAIN issued
    BY <1>3, <1>5
  <2>2. CASE j = Len(issued) + 1
    BY <1>1, <1>3, <2>1, <2>2
  <2>3. CASE j \in DOMAIN issued
    BY <1>3, <1>5, <2>1, <2>3 DEF StanInv, Issued
  <2> QED
    BY <1>3, <2>2, <2>3
<1>6. \A i \in DOMAIN issued' : (OnCycle(issued[i]) /\ issued[i].serial <= durable.serial)'
  BY <1>4 DEF OnCycle
<1> QED
  BY <1>2, <1>5, <1>6 DEF Issued, StanInv

LEMMA LeaveInv ==
    ASSUME StanInv, NEW c \in Callers, Leave(c), LockInv'
    PROVE  StanInv'
<1>1. at[c] \in {"holding", "verified"} /\ LockStep(c) /\ LockTypeOK
  BY DEF Leave, Verify, VerifyFails, Unlink, Move, LockStep, StanInv, StanTypeOK
<1>2. (OnCycle(disk) /\ OnCycle(durable))'
  BY DEF Leave, StanInv, OnCycle
<1>3. Issued' /\ issued' \in Seq(States)
  <2>1. CASE at[c] = "verified" /\ step[c] = "taken"
    BY <2>1, ReturnInv DEF Leave
  <2>2. CASE ~(at[c] = "verified" /\ step[c] = "taken")
    BY <2>2, FilesKept DEF Leave, StanInv, StanTypeOK
  <2> QED
    BY <2>1, <2>2
<1>4. StanTypeOK'
  BY <1>3 DEF Leave, StanInv, StanTypeOK, LockInv
<1>5. ASSUME NEW d \in Callers
      PROVE  Working(d)'
  <2>1. CASE d = c /\ at'[c] = "verified"
    <3>1. at[c] = "holding" /\ UNCHANGED <<disk, durable, issued, step, own>>
      BY <1>1, <2>1 DEF Leave, Verify, VerifyFails, Unlink, Move, LockTypeOK
    <3>2. Working(c) /\ step[c] \in {"taken", "failed"}
      BY DEF StanInv, Leave
    <3> QED
      BY <2>1, <3>1, <3>2 DEF Working
  <2>2. CASE d = c /\ at'[c] # "verified"
    <3>1. at'[c] = "out"
      BY <1>1, <2>2 DEF Leave, Verify, VerifyFails, Unlink, Move, LockTypeOK
    <3> QED
      BY <2>2, <3>1 DEF Working
  <2>3. CASE d # c
    BY <1>1, <2>3, OneMoves, OthersIdle DEF Inside
  <2> QED
    BY <2>1, <2>2, <2>3
<1> QED
  BY <1>2, <1>3, <1>4, <1>5 DEF StanInv, LockInv

\* Whichever file survives, the returned numbers are at most at it.
LEMMA PowerLossInv ==
    ASSUME StanInv, PowerLoss, LockInv'
    PROVE  StanInv'
<1>1. NoState \in States
  BY StanAssumption DEF NoState, States
<1>2. /\ disk \in States /\ durable \in States /\ issued \in Seq(States)
      /\ disk' \in {disk, durable} /\ durable' = disk' /\ issued' = issued
  BY DEF StanInv, StanTypeOK, PowerLoss
<1>3. /\ step' = [c \in Callers |-> "read"]
      /\ own' = [c \in Callers |-> NoState]
      /\ at' = [c \in Callers |-> "dead"]
  BY DEF PowerLoss, Forget, LockPowerLoss
<1>4. StanTypeOK'
  BY <1>1, <1>2, <1>3 DEF StanTypeOK, LockInv
<1>5. (OnCycle(disk) /\ OnCycle(durable))'
  BY <1>2 DEF StanInv, OnCycle
<1>6. \A i \in DOMAIN issued : issued[i].serial <= disk'.serial
  <2>1. \A i \in DOMAIN issued : issued[i] \in States /\ issued[i].serial <= durable.serial
    BY <1>2 DEF StanInv, Issued
  <2>2. durable.serial <= disk'.serial
    BY <1>2 DEF StanInv, Issued, States
  <2>3. disk'.serial \in Nat /\ durable.serial \in Nat
    BY <1>2 DEF States
  <2> QED
    BY <2>1, <2>2, <2>3 DEF States
<1>7. durable'.serial <= disk'.serial
  BY <1>2 DEF States
<1>8. Issued'
  BY <1>2, <1>6, <1>7 DEF StanInv, Issued, OnCycle
<1>9. \A c \in Callers : Working(c)'
  BY <1>3 DEF Working
<1> QED
  BY <1>4, <1>5, <1>8, <1>9 DEF StanInv, LockInv

LEMMA OperateInv ==
    ASSUME StanInv, Operate \/ UNCHANGED allStanVars, LockInv'
    PROVE  StanInv'
<1>1. UNCHANGED stanVars /\ at' = at
  BY DEF Operate, RemoveLock, allStanVars, lockVars
<1>2. StanTypeOK'
  BY <1>1 DEF StanInv, StanTypeOK, stanVars, LockInv
<1>3. (OnCycle(disk) /\ OnCycle(durable) /\ Issued)'
  BY <1>1, FilesKept DEF stanVars
<1>4. \A d \in Callers : Working(d)'
  BY <1>1, Bystander DEF StanInv, stanVars
<1> QED
  BY <1>2, <1>3, <1>4 DEF StanInv, LockInv

LEMMA StanStepInv ==
    ASSUME StanInv, [StanNext]_allStanVars
    PROVE  StanInv'
<1>1. LockInv'
  BY StanLockInv DEF StanInv, StanTypeOK, LockInv
<1>2. ASSUME NEW c \in Callers,
             \/ Enter(c) \/ Read(c) \/ Rename(c) \/ SyncDirectory(c) \/ Fails(c)
             \/ Leave(c) \/ Die(c)
      PROVE  StanInv'
  BY <1>1, <1>2, EnterInv, ReadInv, RenameInv, SyncInv, FailsInv, LeaveInv
<1> QED
  BY <1>1, <1>2, PowerLossInv, OperateInv DEF StanNext

LEMMA StanInvariant == StanSpec => []StanInv
<1>1. StanInit => StanInv
  BY StanInitInv
<1>2. StanInv /\ [StanNext]_allStanVars => StanInv'
  BY StanStepInv
<1> QED
  BY <1>1, <1>2, PTL DEF StanSpec

\* Returned serials grow, so equal numbers are whole cycles apart.
LEMMA StanInvReuse ==
    ASSUME StanInv
    PROVE  ReusedAfterCycle
<1>1. SUFFICES ASSUME NEW i \in DOMAIN issued, NEW j \in DOMAIN issued,
                      i < j, issued[i].last = issued[j].last
               PROVE  issued[j].serial - issued[i].serial >= MaxStan
  BY DEF ReusedAfterCycle
<1>2. issued[i] \in States /\ issued[j] \in States
  BY DEF StanInv, StanTypeOK
<1>3. OnCycle(issued[i]) /\ OnCycle(issued[j]) /\ issued[i].serial < issued[j].serial
  BY <1>1 DEF StanInv, Issued
<1> QED
  BY <1>1, <1>2, <1>3, CycleDistance
-----------------------------------------------------------------------------
\* Every variable of the allocator and its lock has its type.
THEOREM SpecStanTypeOK == StanSpec => []StanTypeOK
<1>1. StanInv => StanTypeOK
  BY DEF StanInv
<1> QED
  BY <1>1, StanInvariant, PTL

\* No two callers are ever inside the lock (file-lock.ts), whatever crashes,
\* restarts, failed writes and operators do.
THEOREM SpecLockExclusive == StanSpec => []LockExclusive
<1>1. StanInv => LockExclusive
  BY DEF StanInv
<1> QED
  BY <1>1, StanInvariant, PTL

\* The same trace number is returned again only a full cycle later, for every
\* number of callers and every cycle length (stan-store.ts, next).
THEOREM SpecReusedAfterCycle == StanSpec => []ReusedAfterCycle
<1>1. StanInv => ReusedAfterCycle
  BY StanInvReuse
<1> QED
  BY <1>1, StanInvariant, PTL

-----------------------------------------------------------------------------
(***************************************************************************)
(* The exchange.                                                           *)
(***************************************************************************)
CallStates ==
    [phase : Live \cup {"idle", "answered", "done"},
     trace : 0 .. MaxTrace, received : 0 .. LengthBytes + MaxFrame,
     stream : Streams, timer : BOOLEAN, late : BOOLEAN, aborted : BOOLEAN,
     result : Results]

Typed ==
    /\ call \in [Calls -> CallStates]
    /\ trace \in 0 .. MaxTrace
    /\ host \in [Calls -> Categories \cup {"none", "asked"}]

\* The calls that have taken a trace number, or have given up without one.
Took == {c \in Calls : call[c].phase \notin {"idle", "tracing"}}

\* The counter has not come round, and no two calls share a number.
Numbered ==
    /\ trace <= Cardinality(Took)
    /\ \A c \in Calls : call[c].trace <= trace
    /\ \A c, d \in Calls : call[c].trace # 0 /\ call[c].trace = call[d].trace => c = d

\* A call is in one phase at a time: only an open connection has a timer, only
\* a finished call a result, and one that is answered was answered in time by
\* exactly one frame.
Framed(s) == s.received = LengthBytes + s.stream.declared /\ ~s.late
Phased(s) ==
    /\ s.phase \in {"idle", "tracing"} => s.trace = 0
    /\ s.phase \in {"connecting", "awaiting", "answered"} => s.trace # 0
    /\ s.timer => s.phase \in {"connecting", "awaiting"}
    /\ s.phase = "answered" =>
          s.stream.declared \in 1 .. MaxFrame /\ s.stream.form # "none" /\ Framed(s)
    /\ s.result # "none" => s.phase = "done"
    /\ s.result = "approved" => Framed(s)

\* The host is asked once a connection is there, and by a call with a number.
Asked ==
    \A c \in Calls :
        /\ call[c].phase \in {"idle", "tracing", "connecting"} => host[c] = "none"
        /\ host[c] # "none" => call[c].trace # 0

\* What the host writes it has decided, be it for another call.
Decided ==
    \A c \in Calls : call[c].stream.form # "none" =>
        \E d \in Calls : /\ host[d] \in Categories
                         /\ call[c].stream.says = host[d]
                         /\ call[c].stream.echo = call[d].trace

Approved == \A c \in Calls : call[c].result = "approved" => host[c] = "approved"

HostInv ==
    /\ Typed /\ Numbered /\ Asked /\ Decided /\ Approved
    /\ \A c \in Calls : Phased(call[c])

LEMMA InitHost == Init => HostInv
<1> SUFFICES ASSUME Init PROVE HostInv
  OBVIOUS
<1> USE HostAssumption DEF Init, NotCalled, NoStream
<1>1. NotCalled \in CallStates
  BY DEF CallStates, Live, Streams, Results
<1>2. Typed
  BY <1>1 DEF Typed
<1>3. Took = {} /\ Cardinality(Took) = 0
  <2>1. Took = {}
    BY DEF Took
  <2> QED BY <2>1, FS_EmptySet
<1>4. Numbered
  BY <1>3 DEF Numbered
<1>5. Asked /\ Decided /\ Approved /\ \A c \in Calls : Phased(call[c])
  BY DEF Asked, Decided, Approved, Phased
<1> QED BY <1>2, <1>4, <1>5 DEF HostInv

\* The fields of a call, one at a time.
LEMMA FieldSet ==
    ASSUME NEW s \in CallStates
    PROVE  /\ \A p \in Live \cup {"idle", "answered", "done"} :
                 [s EXCEPT !.phase = p] \in CallStates
           /\ \A n \in 0 .. MaxTrace : [s EXCEPT !.trace = n] \in CallStates
           /\ \A n \in 0 .. LengthBytes + MaxFrame : [s EXCEPT !.received = n] \in CallStates
           /\ \A frame \in Streams : [s EXCEPT !.stream = frame] \in CallStates
           /\ \A b \in BOOLEAN : /\ [s EXCEPT !.timer = b] \in CallStates
                                 /\ [s EXCEPT !.late = b] \in CallStates
                                 /\ [s EXCEPT !.aborted = b] \in CallStates
           /\ \A r \in Results : [s EXCEPT !.result = r] \in CallStates
BY DEF CallStates

\* Cardinalities of the calls that took a number.
LEMMA Counted ==
    /\ IsFiniteSet(Took) /\ Cardinality(Took) \in Nat
    /\ Took # Calls => Cardinality(Took) < MaxTrace
<1>1. Took \subseteq Calls
  BY DEF Took
<1>2. /\ IsFiniteSet(Took) /\ Cardinality(Took) <= Cardinality(Calls)
      /\ Cardinality(Calls) = Cardinality(Took) => Calls = Took
  BY <1>1, HostAssumption, FS_Subset
<1>3. Cardinality(Took) \in Nat /\ Cardinality(Calls) \in Nat
  BY <1>2, HostAssumption, FS_CardinalityType
<1> QED BY <1>2, <1>3, HostAssumption

LEMMA OldNumbers ==
    ASSUME HostInv, trace' = trace, Took \subseteq Took', IsFiniteSet(Took'),
           \A d \in Calls : call'[d].trace = call[d].trace
    PROVE  Numbered'
<1>1. Cardinality(Took) <= Cardinality(Took')
  BY FS_Subset
<1>2. Cardinality(Took) \in Nat /\ Cardinality(Took') \in Nat /\ trace \in Nat
  BY Counted, FS_CardinalityType, HostAssumption DEF HostInv, Typed
<1>3. trace' <= Cardinality(Took')
  BY <1>1, <1>2 DEF HostInv, Numbered
<1> QED BY <1>3 DEF HostInv, Numbered

\* The number a call takes is greater than those that are taken, also when
\* the call gives up at once.
LEMMA NewNumber ==
    ASSUME HostInv, NEW c \in Calls, call[c].phase = "tracing",
           trace' = (trace % MaxTrace) + 1, Took' = Took \cup {c},
           \A d \in Calls \ {c} : call'[d].trace = call[d].trace,
           call'[c].trace \in {0, trace'}
    PROVE  Numbered' /\ trace' = trace + 1 /\ trace' \in 0 .. MaxTrace
<1>1. c \notin Took /\ Took # Calls
  BY DEF Took
<1>2. Cardinality(Took') = Cardinality(Took) + 1
  BY <1>1, Counted, FS_AddElement
<1>3. trace \in Nat /\ trace < MaxTrace /\ MaxTrace \in Nat
  BY <1>1, Counted, HostAssumption DEF HostInv, Typed, Numbered
<1>4. trace % MaxTrace = trace
  BY <1>3
<1>5. trace' = trace + 1 /\ trace' \in 0 .. MaxTrace /\ trace' <= Cardinality(Took')
  BY <1>2, <1>3, <1>4, Counted DEF HostInv, Numbered
<1>6. \A d \in Calls : call[d].trace \in Nat /\ call[d].trace <= trace
  BY HostAssumption DEF HostInv, Typed, CallStates, Numbered
<1>7. \A d \in Calls : call'[d].trace <= trace'
  BY <1>3, <1>5, <1>6
<1>8. \A d, e \in Calls :
         call'[d].trace # 0 /\ call'[d].trace = call'[e].trace => d = e
  <2> SUFFICES ASSUME NEW d \in Calls, NEW e \in Calls,
                      call'[d].trace # 0, call'[d].trace = call'[e].trace
               PROVE  d = e
    OBVIOUS
  <2>1. CASE d # c /\ e # c
    BY <2>1 DEF HostInv, Numbered
  <2>2. CASE d = c \/ e = c
    BY <2>2, <1>3, <1>5, <1>6
  <2> QED BY <2>1, <2>2
<1> QED BY <1>5, <1>7, <1>8 DEF Numbered

\* A step of one call: it may ask the host for itself, and what it has read from
\* its connection the host has decided.
LEMMA CallKeeps ==
    ASSUME HostInv, NEW c \in Calls, NEW s \in CallStates,
           call' = [call EXCEPT ![c] = s], Phased(s),
           trace' \in 0 .. MaxTrace, Numbered',
           s.trace = call[c].trace \/ call[c].phase = "tracing",
           \/ host' = host
           \/ /\ call[c].phase = "connecting" /\ s.phase = "awaiting"
              /\ host' = [host EXCEPT ![c] = "asked"],
           host'[c] = "none" \/ s.phase \notin {"idle", "tracing", "connecting"},
           s.stream.form # "none" =>
              \E d \in Calls : /\ host[d] \in Categories
                               /\ s.stream.says = host[d] /\ s.stream.echo = call[d].trace,
           s.result = "approved" => host[c] = "approved"
    PROVE  HostInv'
<1> USE HostAssumption DEF HostInv
<1>1. /\ call'[c] = s /\ \A d \in Calls : d # c => call'[d] = call[d]
      /\ \A d \in Calls : host[d] # "none" => call'[d].trace = call[d].trace
  BY DEF Typed, Asked
<1>2. /\ \A d \in Calls : d # c => host'[d] = host[d]
      /\ \A d \in Calls : host[d] # "none" => host'[d] = host[d]
      /\ host'[c] = host[c] \/ s.phase = "awaiting"
  BY DEF Typed, Asked
<1>3. Typed'
  BY DEF Typed
<1>4. Asked'
  BY <1>1, <1>2 DEF Asked, Phased
<1>5. Decided'
  BY <1>1, <1>2 DEF Decided
<1>6. Approved'
  BY <1>1, <1>2 DEF Approved
<1>7. \A d \in Calls : Phased(call'[d])
  BY <1>1
<1>8. (\A d \in Calls : Phased(call[d]))'
  BY <1>7 DEF Phased, Framed
<1> QED BY <1>3, <1>4, <1>5, <1>6, <1>8

\* ... that takes no number.
LEMMA CallGoesOn ==
    ASSUME HostInv, NEW c \in Calls, NEW s \in CallStates,
           call' = [call EXCEPT ![c] = s], Phased(s), trace' = trace,
           s.trace = call[c].trace,
           s.phase \in {"idle", "tracing"} => call[c].phase \in {"idle", "tracing"},
           \/ host' = host
           \/ /\ call[c].phase = "connecting" /\ s.phase = "awaiting"
              /\ host' = [host EXCEPT ![c] = "asked"],
           host'[c] = "none" \/ s.phase \notin {"idle", "tracing", "connecting"},
           s.stream.form # "none" =>
              \E d \in Calls : /\ host[d] \in Categories
                               /\ s.stream.says = host[d] /\ s.stream.echo = call[d].trace,
           s.result = "approved" => host[c] = "approved"
    PROVE  HostInv'
<1>1. /\ call'[c] = s /\ \A d \in Calls : d # c => call'[d] = call[d]
      /\ \A d \in Calls : call'[d].trace = call[d].trace
  BY DEF HostInv, Typed
<1>2. Took \subseteq Took' /\ Took' \subseteq Took \cup {c}
  BY <1>1 DEF Took
<1>3. IsFiniteSet(Took')
  BY <1>2, Counted, FS_AddElement, FS_Subset
<1>4. Numbered'
  BY <1>1, <1>2, <1>3, OldNumbers
<1>5. trace' \in 0 .. MaxTrace
  BY DEF HostInv, Typed
<1> QED BY <1>4, <1>5, CallKeeps

\* A call that has rejected holds nothing but its number.
Rejected(c) == [NotCalled EXCEPT !.phase = "done", !.result = "threw",
                                 !.trace = call[c].trace]

LEMMA RejectedCall ==
    ASSUME HostInv, NEW c \in Calls
    PROVE  /\ Rejected(c) \in CallStates /\ Phased(Rejected(c))
           /\ Rejected(c).phase = "done" /\ Rejected(c).result = "threw"
           /\ Rejected(c).trace = call[c].trace /\ Rejected(c).stream.form = "none"
           /\ Threw(c) = [call EXCEPT ![c] = Rejected(c)]
<1>1. call[c].trace \in 0 .. MaxTrace
  BY DEF HostInv, Typed, CallStates
<1>2. NotCalled \in CallStates /\ NotCalled.stream.form = "none"
  <2>1. /\ 0 \in 0 .. MaxFrame + 1 /\ 0 \in 0 .. MaxTrace
        /\ 0 \in 0 .. LengthBytes + MaxFrame
    BY HostAssumption
  <2>2. NoStream \in Streams /\ NoStream.form = "none"
    BY <2>1, HostAssumption DEF NoStream, Streams
  <2> QED BY <2>1, <2>2 DEF NotCalled, CallStates, Results, Live
<1>3. Rejected(c) = [[[NotCalled EXCEPT !.phase = "done"] EXCEPT !.result = "threw"]
                        EXCEPT !.trace = call[c].trace]
  BY DEF Rejected
<1>4. Rejected(c) \in CallStates
  <2>1. [NotCalled EXCEPT !.phase = "done"] \in CallStates
    BY <1>2, FieldSet
  <2>2. [[NotCalled EXCEPT !.phase = "done"] EXCEPT !.result = "threw"] \in CallStates
    BY <2>1, FieldSet DEF Results
  <2> QED BY <1>1, <1>3, <2>2, FieldSet
<1>5. /\ Rejected(c).phase = "done" /\ Rejected(c).result = "threw"
      /\ Rejected(c).trace = call[c].trace /\ Rejected(c).stream.form = "none"
      /\ Rejected(c).timer = FALSE
  BY <1>2 DEF Rejected, NotCalled
<1>6. Threw(c) = [call EXCEPT ![c] = Rejected(c)]
  BY DEF Threw, Rejected
<1>7. Phased(Rejected(c))
  BY <1>5, HostAssumption DEF Phased
<1> QED BY <1>4, <1>5, <1>6, <1>7

LEMMA ThrewKeeps ==
    ASSUME HostInv, NEW c \in Calls, call' = Threw(c), UNCHANGED <<trace, host>>
    PROVE  HostInv'
<1> DEFINE s == Rejected(c)
<1>1. /\ s \in CallStates /\ Phased(s) /\ s.phase = "done" /\ s.result = "threw"
      /\ s.trace = call[c].trace /\ s.stream.form = "none"
      /\ call' = [call EXCEPT ![c] = s]
  BY RejectedCall
<1> HIDE DEF s
<1> QED BY <1>1, CallGoesOn

LEMMA TraceGivenKeeps ==
    ASSUME HostInv, NEW c \in Calls, TraceGiven(c)
    PROVE  HostInv'
<1>1. /\ call[c].phase = "tracing" /\ host' = host /\ host[c] = "none"
      /\ call[c].trace = 0 /\ call[c] \in CallStates
  BY DEF TraceGiven, HostInv, Asked, Phased, Typed
<1>2. ASSUME NEW s \in CallStates, call' = [call EXCEPT ![c] = s], Phased(s),
             trace' = (trace % MaxTrace) + 1, s.trace \in {0, trace'},
             s.phase \in {"connecting", "done"}, s.result # "approved",
             s.stream = call[c].stream \/ s.stream.form = "none"
      PROVE  HostInv'
  <2>1. /\ call'[c] = s /\ \A d \in Calls : d # c => call'[d] = call[d]
    BY <1>2 DEF HostInv, Typed
  <2>2. Took' = Took \cup {c}
    BY <1>2, <2>1 DEF Took
  <2>3. Numbered' /\ trace' \in 0 .. MaxTrace
    BY <1>1, <1>2, <2>1, <2>2, NewNumber
  <2>4. s.stream.form # "none" =>
           \E d \in Calls : /\ host[d] \in Categories
                            /\ s.stream.says = host[d] /\ s.stream.echo = call[d].trace
    BY <1>2 DEF HostInv, Decided
  <2> QED BY <1>1, <1>2, <2>3, <2>4, CallKeeps
<1>3. CASE call' = Threw(c) /\ UNCHANGED trace
  BY <1>1, <1>3, ThrewKeeps
<1>4. CASE call' = Threw(c) /\ trace' = (trace % MaxTrace) + 1
  <2> DEFINE s == Rejected(c)
  <2>1. /\ s \in CallStates /\ Phased(s) /\ s.phase = "done" /\ s.result = "threw"
        /\ s.trace = call[c].trace /\ s.stream.form = "none"
        /\ call' = [call EXCEPT ![c] = s]
    BY <1>4, RejectedCall
  <2>2. "threw" # "approved"
    OBVIOUS
  <2> HIDE DEF s
  <2> QED BY <1>1, <1>2, <1>4, <2>1, <2>2
<1>5. CASE /\ call' = [call EXCEPT ![c].phase = "connecting", ![c].timer = TRUE,
                                   ![c].trace = trace']
           /\ trace' = (trace % MaxTrace) + 1
  <2> DEFINE s == [call[c] EXCEPT !.phase = "connecting", !.timer = TRUE, !.trace = trace']
  <2>1. trace' \in 1 .. MaxTrace
    <3>1. trace \in Nat /\ MaxTrace \in Nat \ {0}
      BY HostAssumption DEF HostInv, Typed
    <3>2. trace % MaxTrace \in 0 .. MaxTrace - 1
      BY <3>1
    <3> QED BY <1>5, <3>1, <3>2
  <2>2. /\ s.phase = "connecting" /\ s.timer = TRUE /\ s.trace = trace'
        /\ s.result = call[c].result /\ s.stream = call[c].stream
        /\ s.received = call[c].received /\ s.late = call[c].late
    BY <1>1 DEF CallStates
  <2>6. s \in CallStates
    <3>1. [call[c] EXCEPT !.phase = "connecting"] \in CallStates
      BY <1>1, FieldSet DEF Live
    <3>2. [[call[c] EXCEPT !.phase = "connecting"] EXCEPT !.timer = TRUE] \in CallStates
      BY <3>1, FieldSet
    <3>3. trace' \in 0 .. MaxTrace
      BY <2>1
    <3> QED BY <3>2, <3>3, FieldSet
  <2>3. call[c].result = "none"
    BY <1>1 DEF HostInv, Phased
  <2>4. call' = [call EXCEPT ![c] = s]
    BY <1>5
  <2> HIDE DEF s
  <2>5. Phased(s)
    BY <2>1, <2>2, <2>3 DEF Phased
  <2> QED BY <1>2, <1>5, <2>2, <2>3, <2>4, <2>5, <2>6
<1> QED BY <1>3, <1>4, <1>5 DEF TraceGiven

\* A step of a call that keeps what it has read, and whose result is none.
LEMMA SameFrame ==
    ASSUME HostInv, NEW c \in Calls, NEW s \in CallStates,
           call' = [call EXCEPT ![c] = s], Phased(s), trace' = trace,
           s.trace = call[c].trace, s.stream = call[c].stream, s.result = "none",
           s.phase \in {"idle", "tracing"} => call[c].phase \in {"idle", "tracing"},
           \/ host' = host
           \/ /\ call[c].phase = "connecting" /\ s.phase = "awaiting"
              /\ host' = [host EXCEPT ![c] = "asked"],
           host'[c] = "none" \/ s.phase \notin {"idle", "tracing", "connecting"}
    PROVE  HostInv'
<1>1. s.stream.form # "none" =>
         \E d \in Calls : /\ host[d] \in Categories
                          /\ s.stream.says = host[d] /\ s.stream.echo = call[d].trace
  BY DEF HostInv, Decided
<1>2. s.result # "approved"
  OBVIOUS
<1> QED BY <1>1, <1>2, CallGoesOn

LEMMA EarlyStepsKeep ==
    ASSUME HostInv, NEW c \in Calls,
           Authorize(c) \/ Connected(c) \/ Abort(c) \/ Expire(c)
    PROVE  HostInv'
<1>1. call[c] \in CallStates /\ Phased(call[c])
  BY DEF HostInv, Typed
<1>2. CASE call' = Threw(c) /\ UNCHANGED <<trace, host>>
  BY <1>2, ThrewKeeps
<1>3. CASE /\ call[c].phase = "idle" /\ UNCHANGED <<trace, host>>
           /\ call' = [call EXCEPT ![c].phase = "tracing"]
  <2> DEFINE s == [call[c] EXCEPT !.phase = "tracing"]
  <2>1. s \in CallStates
    BY <1>1, FieldSet DEF Live
  <2>2. /\ s.phase = "tracing" /\ s.trace = call[c].trace /\ s.stream = call[c].stream
        /\ s.timer = call[c].timer /\ s.result = call[c].result
    BY <1>1 DEF CallStates
  <2>3. call' = [call EXCEPT ![c] = s]
    BY <1>3
  <2>4. host[c] = "none"
    BY <1>3 DEF HostInv, Asked
  <2> HIDE DEF s
  <2>5. Phased(s) /\ s.result = "none"
    BY <1>1, <1>3, <2>2 DEF Phased
  <2> QED BY <1>3, <2>1, <2>2, <2>3, <2>4, <2>5, SameFrame
<1>4. CASE /\ call[c].phase = "connecting" /\ trace' = trace
           /\ call' = [call EXCEPT ![c].phase = "awaiting", ![c].timer = TRUE]
           /\ host' = [host EXCEPT ![c] = "asked"]
  <2> DEFINE s == [[call[c] EXCEPT !.phase = "awaiting"] EXCEPT !.timer = TRUE]
  <2>1. s \in CallStates
    <3>1. [call[c] EXCEPT !.phase = "awaiting"] \in CallStates
      BY <1>1, FieldSet DEF Live
    <3> QED BY <3>1, FieldSet
  <2>2. /\ s.phase = "awaiting" /\ s.trace = call[c].trace /\ s.stream = call[c].stream
        /\ s.result = call[c].result
    BY <1>1 DEF CallStates
  <2>3. call' = [call EXCEPT ![c] = s]
    BY <1>4
  <2> HIDE DEF s
  <2>4. Phased(s) /\ s.result = "none"
    BY <1>1, <1>4, <2>2 DEF Phased
  <2> QED BY <1>4, <2>1, <2>2, <2>3, <2>4, SameFrame
<1>5. CASE /\ call[c].phase \in {"tracing", "answered"} /\ UNCHANGED <<trace, host>>
           /\ call' = [call EXCEPT ![c].aborted = TRUE]
  <2> DEFINE s == [call[c] EXCEPT !.aborted = TRUE]
  <2>1. s \in CallStates
    BY <1>1, FieldSet
  <2>2. /\ s.phase = call[c].phase /\ s.trace = call[c].trace /\ s.stream = call[c].stream
        /\ s.timer = call[c].timer /\ s.result = call[c].result
        /\ s.received = call[c].received /\ s.late = call[c].late
    BY <1>1 DEF CallStates
  <2>3. call' = [call EXCEPT ![c] = s]
    BY <1>5
  <2>4. host[c] = "none" \/ call[c].phase = "answered"
    BY <1>5 DEF HostInv, Asked
  <2> HIDE DEF s
  <2>5. Phased(s) /\ s.result = "none"
    BY <1>1, <1>5, <2>2 DEF Phased, Framed
  <2> QED BY <1>5, <2>1, <2>2, <2>3, <2>4, <2>5, SameFrame
<1>6. CASE /\ call[c].phase \in Live /\ UNCHANGED <<trace, host>>
           /\ call' = [call EXCEPT ![c].late = TRUE]
  <2> DEFINE s == [call[c] EXCEPT !.late = TRUE]
  <2>1. s \in CallStates
    BY <1>1, FieldSet
  <2>2. /\ s.phase = call[c].phase /\ s.trace = call[c].trace /\ s.stream = call[c].stream
        /\ s.timer = call[c].timer /\ s.result = call[c].result
    BY <1>1 DEF CallStates
  <2>3. call' = [call EXCEPT ![c] = s]
    BY <1>6
  <2>4. host[c] = "none" \/ call[c].phase = "awaiting"
    BY <1>6 DEF HostInv, Asked, Live
  <2> HIDE DEF s
  <2>5. Phased(s) /\ s.result = "none"
    BY <1>1, <1>6, <2>2 DEF Phased, Live
  <2> QED BY <1>6, <2>1, <2>2, <2>3, <2>4, <2>5, SameFrame DEF Live
<1>7. CASE Authorize(c)
  BY <1>2, <1>3, <1>7 DEF Authorize
<1>8. CASE Connected(c)
  BY <1>2, <1>4, <1>8 DEF Connected
<1>9. CASE Abort(c)
  BY <1>2, <1>5, <1>9 DEF Abort, Live
<1>10. CASE Expire(c)
  BY <1>6, <1>10 DEF Expire
<1> QED BY <1>7, <1>8, <1>9, <1>10

LEMMA HostDecidesKeeps ==
    ASSUME HostInv, NEW c \in Calls, HostDecides(c)
    PROVE  HostInv'
<1> USE HostAssumption DEF HostInv
<1>1. PICK category \in Categories : host' = [host EXCEPT ![c] = category]
  BY DEF HostDecides
<1>2. host[c] = "asked" /\ UNCHANGED <<call, trace>>
  BY DEF HostDecides
<1>3. Typed'
  BY <1>1, <1>2 DEF Typed
<1>4. /\ \A d \in Calls : d # c => host'[d] = host[d]
      /\ host[c] \notin Categories \cup {"none"} /\ host'[c] \in Categories
  BY <1>1, <1>2 DEF Typed
<1>5. Numbered' /\ \A d \in Calls : Phased(call[d])'
  BY <1>2 DEF Numbered, Took, Phased, Framed
<1>6. Asked' /\ Decided' /\ Approved'
  <2>1. call' = call
    BY <1>2
  <2>2. \A d \in Calls : host[d] \in Categories => host'[d] = host[d]
    BY <1>4
  <2>3. Decided'
    BY <2>1, <2>2 DEF Decided
  <2>4. Asked' /\ Approved'
    BY <1>4, <2>1 DEF Asked, Approved
  <2> QED BY <2>3, <2>4
<1> QED BY <1>3, <1>5, <1>6

LEMMA HostWritesKeeps ==
    ASSUME HostInv, NEW c \in Calls, HostWrites(c)
    PROVE  HostInv'
<1>1. PICK d \in Calls, declared \in 0 .. MaxFrame + 1,
           form \in {"valid", "malformed", "unprintable"} :
         /\ host[d] \in Categories
         /\ call' = [call EXCEPT ![c].stream =
                        [declared |-> declared, form |-> form,
                         says |-> host[d], echo |-> call[d].trace]]
  BY DEF HostWrites
<1>2. /\ call[c].phase = "awaiting" /\ UNCHANGED <<trace, host>>
      /\ call[c] \in CallStates /\ Phased(call[c])
      /\ call[d].trace \in 0 .. MaxTrace
  BY DEF HostWrites, HostInv, Typed, CallStates
<1> DEFINE frame == [declared |-> declared, form |-> form,
                     says |-> host[d], echo |-> call[d].trace]
           s == [call[c] EXCEPT !.stream = frame]
<1>3. frame \in Streams /\ frame.says = host[d] /\ frame.echo = call[d].trace
  BY <1>1, <1>2 DEF Streams
<1>4. call' = [call EXCEPT ![c] = s]
  BY <1>1
<1> HIDE DEF frame
<1>5. s \in CallStates
  BY <1>2, <1>3, FieldSet
<1>6. /\ s.phase = "awaiting" /\ s.trace = call[c].trace /\ s.stream = frame
      /\ s.timer = call[c].timer /\ s.result = call[c].result
  BY <1>2 DEF CallStates
<1> HIDE DEF s
<1>7. Phased(s) /\ s.result = "none"
  BY <1>2, <1>6 DEF Phased
<1> QED BY <1>1, <1>2, <1>3, <1>4, <1>5, <1>6, <1>7, CallGoesOn

LEMMA PieceKeeps ==
    ASSUME HostInv, NEW c \in Calls, NEW n \in 1 .. LengthBytes + MaxFrame + 1,
           Piece(c, n)
    PROVE  HostInv'
<1> DEFINE received == call[c].received + n
           declared == call[c].stream.declared
           whole == received >= LengthBytes /\ received = LengthBytes + declared
<1>1. /\ call[c].phase = "awaiting" /\ call[c].stream.form # "none"
      /\ UNCHANGED <<trace, host>>
      /\ call[c] \in CallStates /\ Phased(call[c])
  BY DEF Piece, HostInv, Typed
<1>2. CASE call' = Threw(c)
  BY <1>1, <1>2, ThrewKeeps
<1>3. CASE /\ call' = [call EXCEPT ![c].received = received,
                                   ![c].phase = IF whole THEN "answered" ELSE @,
                                   ![c].timer = ~whole]
           /\ ~(received > LengthBytes + MaxFrame)
           /\ whole => LengthValid(declared) /\ ~call[c].late
  <2> DEFINE phase == IF whole THEN "answered" ELSE call[c].phase
             s1 == [call[c] EXCEPT !.received = received]
             s2 == [s1 EXCEPT !.phase = phase]
             s == [s2 EXCEPT !.timer = ~whole]
  <2>1. received \in 0 .. LengthBytes + MaxFrame
    <3>1. call[c].received \in 0 .. LengthBytes + MaxFrame
      BY <1>1 DEF CallStates
    <3>2. LengthBytes \in Nat /\ MaxFrame \in Nat
      BY HostAssumption
    <3> QED BY <1>3, <3>1, <3>2
  <2>2. phase \in {"answered", "awaiting"} /\ (phase = "answered" <=> whole)
    BY <1>1
  <2>3. call' = [call EXCEPT ![c] = s]
    BY <1>3
  <2> HIDE DEF received, phase
  <2>4. s1 \in CallStates /\ s2 \in CallStates
    <3>1. s1 \in CallStates
      BY <1>1, <2>1, FieldSet
    <3> HIDE DEF s1
    <3> QED BY <2>2, <3>1, FieldSet DEF Live
  <2>5. (~whole) \in BOOLEAN
    OBVIOUS
  <2>6. /\ s.phase = phase /\ s.trace = call[c].trace /\ s.stream = call[c].stream
        /\ s.timer = (~whole) /\ s.result = call[c].result
        /\ s.received = received /\ s.late = call[c].late
    BY <1>1 DEF CallStates
  <2> HIDE DEF whole
  <2>7. s \in CallStates
    BY <2>4, <2>5, FieldSet
  <2>8. whole => received = LengthBytes + declared
    BY DEF whole
  <2> HIDE DEF s, s1, s2
  <2>9. Phased(s) /\ s.result = "none"
    BY <1>1, <1>3, <2>2, <2>6, <2>8 DEF Phased, Framed, LengthValid
  <2> QED BY <1>1, <2>2, <2>3, <2>6, <2>7, <2>9, SameFrame
<1> QED BY <1>2, <1>3 DEF Piece

\* The response that is believed echoes the number of the call, and no other
\* call has that number: it is the host's decision on this call.
LEMMA ResumeKeeps ==
    ASSUME HostInv, NEW c \in Calls, Resume(c)
    PROVE  HostInv'
<1>1. /\ call[c].phase = "answered" /\ UNCHANGED <<trace, host>>
      /\ call[c] \in CallStates /\ Phased(call[c])
  BY DEF Resume, HostInv, Typed
<1>2. CASE call' = Threw(c)
  BY <1>1, <1>2, ThrewKeeps
<1> DEFINE result == IF ResponseMatches(c) THEN call[c].stream.says ELSE "protocol"
<1>3. CASE call' = [call EXCEPT ![c].phase = "done", ![c].result = result]
  <2> DEFINE s1 == [call[c] EXCEPT !.phase = "done"]
             s == [s1 EXCEPT !.result = result]
  <2>1. PICK d \in Calls : /\ host[d] \in Categories
                           /\ call[c].stream.says = host[d]
                           /\ call[c].stream.echo = call[d].trace
    BY <1>1 DEF HostInv, Decided, Phased
  <2>2. result \in Results
    BY <2>1 DEF Results
  <2>3. result = "approved" => host[c] = "approved"
    <3> SUFFICES ASSUME result = "approved" PROVE host[c] = "approved"
      OBVIOUS
    <3>1. call[c].stream.echo = call[c].trace /\ host[d] = "approved"
      BY <2>1 DEF ResponseMatches
    <3>2. call[c].trace # 0
      BY <1>1 DEF Phased
    <3> QED BY <2>1, <3>1, <3>2 DEF HostInv, Numbered
  <2>4. call' = [call EXCEPT ![c] = s]
    BY <1>3
  <2> HIDE DEF result
  <2>5. s1 \in CallStates
    BY <1>1, FieldSet
  <2>6. s \in CallStates
    <3> HIDE DEF s1
    <3> QED BY <2>2, <2>5, FieldSet
  <2>7. /\ s.phase = "done" /\ s.trace = call[c].trace /\ s.stream = call[c].stream
        /\ s.timer = call[c].timer /\ s.result = result
        /\ s.received = call[c].received /\ s.late = call[c].late
    BY <1>1 DEF CallStates
  <2> HIDE DEF s, s1
  <2>8. Phased(s)
    BY <1>1, <2>7 DEF Phased, Framed
  <2> QED BY <1>1, <2>1, <2>3, <2>4, <2>6, <2>7, <2>8, CallGoesOn
<1> QED BY <1>2, <1>3 DEF Resume

LEMMA NextKeepsHost == HostInv /\ [Next]_vars => HostInv'
<1> SUFFICES ASSUME HostInv, [Next]_vars PROVE HostInv'
  OBVIOUS
<1>1. CASE UNCHANGED vars
  BY <1>1 DEF vars, HostInv, Typed, Numbered, Took, Asked, Decided, Approved, Phased, Framed
<1>2. ASSUME NEW c \in Calls,
             \/ Authorize(c) \/ TraceGiven(c) \/ Connected(c) \/ Abort(c) \/ Expire(c)
             \/ TimerFires(c) \/ SocketFails(c) \/ HostDecides(c) \/ HostWrites(c)
             \/ \E n \in 1 .. LengthBytes + MaxFrame + 1 : Piece(c, n)
             \/ Resume(c)
      PROVE  HostInv'
  <2>1. CASE Authorize(c) \/ Connected(c) \/ Abort(c) \/ Expire(c)
    BY <2>1, EarlyStepsKeep
  <2>2. CASE TraceGiven(c) \/ HostDecides(c) \/ HostWrites(c) \/ Resume(c)
    BY <2>2, TraceGivenKeeps, HostDecidesKeeps, HostWritesKeeps, ResumeKeeps
  <2>3. CASE TimerFires(c) \/ SocketFails(c)
    BY <2>3, ThrewKeeps DEF TimerFires, SocketFails
  <2>4. CASE \E n \in 1 .. LengthBytes + MaxFrame + 1 : Piece(c, n)
    BY <2>4, PieceKeeps
  <2> QED BY <1>2, <2>1, <2>2, <2>3, <2>4
<1> QED BY <1>1, <1>2 DEF Next

LEMMA SpecHost == Spec => []HostInv
BY InitHost, NextKeepsHost, PTL DEF Spec

\* The exchange keeps its types; in particular an answered call holds a frame of
\* a valid length, and its timer is stopped.
THEOREM SpecHostTypeOK == Spec => []TypeOK
<1>1. HostInv => TypeOK
  BY DEF HostInv, Typed, CallStates, Phased, TypeOK
<1> QED BY <1>1, SpecHost, PTL

\* Whatever responses the host writes on whatever connections, in whatever
\* pieces they arrive, and whoever aborts or comes late: the adapter reports
\* an approval only when the host has approved this very call.
THEOREM SpecApprovedByHost == Spec => []ApprovedByHost
<1>1. HostInv => ApprovedByHost
  BY DEF HostInv, Approved, Phased, Framed, ApprovedByHost
<1> QED BY <1>1, SpecHost, PTL
=============================================================================

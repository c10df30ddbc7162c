---------------------------- MODULE StanAllocator ----------------------------
(***************************************************************************)
(* DurableStanAllocator.next: a trace number that survives restarts, taken *)
(* under the file lock by reading the state file and replacing it.         *)
(*                                                                         *)
(* The state file's content is the last number and, as a history variable, *)
(* how many numbers were taken before and with it (serial).  The file is   *)
(* replaced by renaming a synchronised temporary file, so it is never      *)
(* torn; a power loss may undo a rename whose directory was not yet        *)
(* synchronised.                                                           *)
(***************************************************************************)
EXTENDS FileLock, Integers, Sequences

CONSTANTS
    MaxStan,     \* 999999
    MaxSerial    \* bound: how many numbers are taken at most

ASSUME StanAssumption == MaxStan \in Nat \ {0} /\ MaxSerial \in Nat

VARIABLES
    disk,      \* the state file as processes read it
    durable,   \* the state file as it is after a power loss
    step,      \* per caller, where in the operation it is
    own,       \* per caller, the state it read or wrote
    issued     \* the numbers next() has returned, in order

stanVars == <<disk, durable, step, own, issued>>
allStanVars == <<lockVars, stanVars>>

States == [last : 0 .. MaxStan, serial : Nat]
NoState == [last |-> 0, serial |-> 0]

StanInit ==
    /\ LockInit
    /\ disk = NoState
    /\ durable = NoState
    /\ step = [c \in Callers |-> "read"]
    /\ own = [c \in Callers |-> NoState]
    /\ issued = <<>>

\* The next number: 999999 is followed by 1.
NextState(state) ==
    [last |-> (state.last % MaxStan) + 1, serial |-> state.serial + 1]

\* readState, and the temporary file with the next state.
Read(c) ==
    /\ at[c] = "holding" /\ step[c] = "read"
    /\ disk.serial < MaxSerial
    /\ own' = [own EXCEPT ![c] = NextState(disk)]
    /\ step' = [step EXCEPT ![c] = "rename"]
    /\ UNCHANGED <<lockVars, disk, durable, issued>>

Rename(c) ==
    /\ at[c] = "holding" /\ step[c] = "rename"
    /\ disk' = own[c]
    /\ step' = [step EXCEPT ![c] = "sync"]
    /\ UNCHANGED <<lockVars, durable, own, issued>>

\* Faulty variant: the directory is not synchronised.
SyncNothing(c) ==
    /\ at[c] = "holding" /\ step[c] = "sync"
    /\ step' = [step EXCEPT ![c] = "taken"]
    /\ UNCHANGED <<lockVars, disk, durable, own, issued>>

\* syncParentDirectory: now the replacement survives a power loss.
SyncDirectory(c) ==
    /\ at[c] = "holding" /\ step[c] = "sync"
    /\ durable' = disk
    /\ step' = [step EXCEPT ![c] = "taken"]
    /\ UNCHANGED <<lockVars, disk, own, issued>>

\* Any of these calls may fail; next() then throws after the unlock.
Fails(c) ==
    /\ at[c] = "holding" /\ step[c] \in {"read", "rename", "sync"}
    /\ step' = [step EXCEPT ![c] = "failed"]
    /\ UNCHANGED <<lockVars, disk, durable, own, issued>>

\* What a caller knows is gone when its process dies, and new in every call.
Forget(callers) ==
    /\ step' = [c \in Callers |-> IF c \in callers THEN "read" ELSE step[c]]
    /\ own' = [c \in Callers |-> IF c \in callers THEN NoState ELSE own[c]]

\* The caller gets the lock, or not.
Enter(c) ==
    /\ Want(c) \/ Open(c) \/ GiveUp(c) \/ WriteToken(c) \/ WriteTokenFails(c)
    /\ Forget({c})
    /\ UNCHANGED <<disk, durable, issued>>

\* After the operation: next() returns the number once the lock is removed.
Leave(c) ==
    /\ step[c] \in {"taken", "failed"}
    /\ Verify(c) \/ VerifyFails(c) \/ Unlink(c)
    /\ issued' = IF at[c] = "verified" /\ step[c] = "taken"
                 THEN Append(issued, own[c]) ELSE issued
    /\ UNCHANGED <<disk, durable, step, own>>

Die(c) ==
    /\ Crash(c) \/ Restart(c)
    /\ Forget({c})
    /\ UNCHANGED <<disk, durable, issued>>

PowerLoss ==
    /\ LockPowerLoss
    /\ disk' \in {disk, durable}
    /\ durable' = disk'
    /\ Forget(Callers)
    /\ UNCHANGED issued

Operate == RemoveLock /\ UNCHANGED stanVars

StanNext ==
    \/ \E c \in Callers :
          Enter(c) \/ Read(c) \/ Rename(c) \/ SyncDirectory(c) \/ Fails(c)
          \/ Leave(c) \/ Die(c)
    \/ PowerLoss
    \/ Operate

StanSpec == StanInit /\ [][StanNext]_allStanVars
-----------------------------------------------------------------------------
StanTypeOK ==
    /\ LockTypeOK
    /\ {disk, durable} \subseteq States
    /\ step \in [Callers -> {"read", "rename", "sync", "taken", "failed"}]
    /\ own \in [Callers -> States]
    /\ issued \in Seq(States)

\* A trace number comes back only after a full cycle: two calls that return
\* the same one are at least 999999 allocations apart, across concurrent
\* callers, crashes, restarts and power losses (docs/host-iso8583.md:
\* "survives process restarts, serializes concurrent allocators, and wraps").
ReusedAfterCycle ==
    \A i, j \in DOMAIN issued :
        i < j /\ issued[i].last = issued[j].last =>
            issued[j].serial - issued[i].serial >= MaxStan
=============================================================================

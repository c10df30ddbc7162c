------------------------------ MODULE FileLock ------------------------------
(***************************************************************************)
(* withFileLock: exclusive use of a path by callers in any process, through *)
(* a lock file that is created exclusively, carries its owner's token, and  *)
(* is removed by the owner after the token has been verified.  A crash      *)
(* leaves the file behind; only an operator removes it then.                *)
(*                                                                         *)
(* A caller's token is random in the code and its own name here: the file   *)
(* of an earlier life of the caller keeps everybody out, so the two tokens  *)
(* never meet.                                                              *)
(***************************************************************************)
CONSTANT Callers

VARIABLES
    lockFile,   \* NoFile, NoToken (created, still empty) or the owner
    at          \* per caller, where in withFileLock it is

lockVars == <<lockFile, at>>

NoFile == "no file"
NoToken == "no token"

ASSUME CallersAssumption == NoFile \notin Callers /\ NoToken \notin Callers

\* Between the creation of the file and its removal.
Inside == {"opened", "holding", "verified"}
Places == {"out", "wanting", "dead"} \cup Inside

LockInit ==
    /\ lockFile = NoFile
    /\ at = [c \in Callers |-> "out"]

Move(c, from, to) ==
    /\ at[c] = from
    /\ at' = [at EXCEPT ![c] = to]

Want(c) == Move(c, "out", "wanting") /\ UNCHANGED lockFile

\* Faulty variant: the file is opened for writing, not created exclusively.
OpenAny(c) ==
    /\ Move(c, "wanting", "opened")
    /\ lockFile' = NoToken

\* open(lockPath, "wx") succeeds when there is no file.
Open(c) ==
    /\ lockFile = NoFile
    /\ Move(c, "wanting", "opened")
    /\ lockFile' = NoToken

\* The file exists until the timeout has passed, or the signal is aborted.
GiveUp(c) == Move(c, "wanting", "out") /\ UNCHANGED lockFile

\* Token written and synchronised: the operation may begin.
WriteToken(c) ==
    /\ Move(c, "opened", "holding")
    /\ lockFile' = c

\* The write fails: withFileLock throws, or tries again when the error looks
\* like contention; the file stays.
WriteTokenFails(c) ==
    /\ Move(c, "opened", "out") \/ Move(c, "opened", "wanting")
    /\ UNCHANGED lockFile

\* The operation is over: the token is read back and compared.
Verify(c) ==
    /\ lockFile = c
    /\ Move(c, "holding", "verified")
    /\ UNCHANGED lockFile

\* Lock ownership changed, the file cannot be read, or unlink fails.
VerifyFails(c) == Move(c, "holding", "out") /\ UNCHANGED lockFile

\* unlink, after which the result of the operation is returned.
Unlink(c) ==
    /\ Move(c, "verified", "out")
    /\ lockFile' = NoFile

\* The process dies where it is.
Crash(c) ==
    /\ at[c] # "dead"
    /\ at' = [at EXCEPT ![c] = "dead"]
    /\ UNCHANGED lockFile

Restart(c) == Move(c, "dead", "out") /\ UNCHANGED lockFile

\* The machine loses power: the directory's entry of the lock file was never
\* synchronised, so its creation or removal may be undone.
LockPowerLoss ==
    /\ at' = [c \in Callers |-> "dead"]
    /\ lockFile' \in Callers \cup {NoFile, NoToken}

\* An operator removes the file of a crashed owner, after verifying that no
\* process uses it (docs/host-iso8583.md).
RemoveLock ==
    /\ lockFile # NoFile
    /\ \A c \in Callers : at[c] \notin Inside
    /\ lockFile' = NoFile
    /\ UNCHANGED at

LockStep(c) ==
    \/ Want(c) \/ Open(c) \/ GiveUp(c)
    \/ WriteToken(c) \/ WriteTokenFails(c)
    \/ Verify(c) \/ VerifyFails(c) \/ Unlink(c)
    \/ Crash(c) \/ Restart(c)

LockNext == (\E c \in Callers : LockStep(c)) \/ LockPowerLoss \/ RemoveLock

LockTypeOK ==
    /\ lockFile \in Callers \cup {NoFile, NoToken}
    /\ at \in [Callers -> Places]

\* The file is there, and is the owner's, from its creation to its removal,
\* and no second caller is between the two, whatever crashes and retries
\* happen: the operations run under one lock exclude each other.
LockExclusive ==
    \A c \in Callers : at[c] \in Inside =>
        /\ lockFile = IF at[c] = "opened" THEN NoToken ELSE c
        /\ \A d \in Callers \ {c} : at[d] \notin Inside
=============================================================================

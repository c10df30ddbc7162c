----------------------------- MODULE JournalFile -----------------------------
(***************************************************************************)
(* The journals of the sessions of one terminal process on their way into  *)
(* one file.  RuntimeJournal.append stores an event and chains its append  *)
(* to the one before (pendingPersistence), so each session writes its own  *)
(* events one after the other while the sessions' writes interleave.  An   *)
(* append that rejects skips all later ones of its session.  Whoever stops *)
(* in the middle of a write leaves a line without its end behind, to which *)
(* the next append to the file is glued.                                   *)
(***************************************************************************)
EXTENDS JournalInspection

CONSTANTS
    Sessions,     \* session ids, each used once
    Scripts       \* the journals a session may come to write

\* A journal begins with the anchors of its runtime and of its flow.
ASSUME JournalAssumption ==
    /\ NoSession \notin Sessions
    /\ \A events \in Scripts :
          /\ events \in Seq(Entries(events))
          /\ Len(events) >= 2
          /\ events[1].type = "runtime.started"

VARIABLES
    script,       \* the journal each session is to write, <<>> before it starts
    told,         \* how many of its events RuntimeJournal.append has stored
    written,      \* how many appends to the file have resolved
    broken,       \* its pendingPersistence has been rejected, or its process died
    file,         \* the lines of the journal file
    terminated    \* the last line has its newline

journalVars == <<script, told, written, broken, file, terminated>>

JournalInit ==
    /\ script = [s \in Sessions |-> <<>>]
    /\ told = [s \in Sessions |-> 0]
    /\ written = [s \in Sessions |-> 0]
    /\ broken = [s \in Sessions |-> FALSE]
    /\ file = <<>>
    /\ terminated = TRUE

\* The n-th event of a session as it is written.
LineOf(s, n) == Line(IF n = 1 THEN NoSession ELSE s, n, script[s][n])

InFlight(s) == ~broken[s] /\ written[s] < told[s]

\* The lines of the file once text has been written behind them.
Written(line) ==
    IF terminated THEN Append(file, line)
                  ELSE [file EXCEPT ![Len(file)] = Garbled]

\* TerminalSessionManager.start: the runtime and the flow journal their anchors
\* in the same turn.
Begin(s, events) ==
    /\ script[s] = <<>>
    /\ script' = [script EXCEPT ![s] = events]
    /\ told' = [told EXCEPT ![s] = 2]
    /\ UNCHANGED <<written, broken, file, terminated>>

\* RuntimeJournal.append, called by the session's flow.
Tell(s) ==
    /\ told[s] < Len(script[s])
    /\ told' = [told EXCEPT ![s] = @ + 1]
    /\ UNCHANGED <<script, written, broken, file, terminated>>

\* The flow has returned: its session awaits the flush.
Flushing(s) == script[s] # <<>> /\ told[s] = Len(script[s])

\* JsonlJournalPersistence.append: the session's next line with its newline.
\* Faulty variant: the appends of a session are not chained.
AppendUnchained(s) ==
    /\ InFlight(s)
    /\ \E n \in 1 .. told[s] :
          /\ \A i \in DOMAIN file : file[i] # LineOf(s, n)
          /\ file' = Written(LineOf(s, n))
    /\ written' = [written EXCEPT ![s] = @ + 1]
    /\ terminated' = TRUE
    /\ UNCHANGED <<script, told, broken>>

\* Faulty variant: lines are separated instead of ended.
AppendUnended(s) ==
    /\ InFlight(s)
    /\ file' = Written(LineOf(s, written[s] + 1))
    /\ written' = [written EXCEPT ![s] = @ + 1]
    /\ UNCHANGED <<script, told, broken, terminated>>

AppendLine(s) ==
    /\ InFlight(s)
    /\ file' = Written(LineOf(s, written[s] + 1))
    /\ written' = [written EXCEPT ![s] = @ + 1]
    /\ terminated' = TRUE
    /\ UNCHANGED <<script, told, broken>>

\* What a write that does not come to its end leaves in the file: nothing, a
\* fragment of the line, or all of it but for the newline.
TornWrite(s) ==
    \/ UNCHANGED <<file, terminated>>
    \/ /\ file' = Written(Garbled)
       /\ terminated' = FALSE
    \/ /\ file' = Written(LineOf(s, written[s] + 1))
       /\ terminated' = FALSE

\* The append rejects (a full disk): the session's later appends are skipped.
AppendRejects(s) ==
    /\ InFlight(s)
    /\ TornWrite(s)
    /\ broken' = [broken EXCEPT ![s] = TRUE]
    /\ UNCHANGED <<script, told, written>>

\* The process dies with its sessions, perhaps in the middle of a write.
ProcessDies ==
    /\ \/ UNCHANGED <<file, terminated>>
       \/ \E s \in Sessions : InFlight(s) /\ TornWrite(s)
    /\ broken' = [s \in Sessions |-> broken[s] \/ script[s] # <<>>]
    /\ UNCHANGED <<script, told, written>>
=============================================================================

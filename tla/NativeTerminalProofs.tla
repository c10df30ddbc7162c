------------------------ MODULE NativeTerminalProofs ------------------------
(***************************************************************************)
(* Proofs about NativeTerminal, for any sessions, journals, connections    *)
(* and faults.                                                             *)
(*                                                                         *)
(* What the file holds is told by four inductive invariants: FileInv, that *)
(* each line is a session's own or garbled; Survived, that an ended write  *)
(* is there for good while no append has been refused; Budget, which       *)
(* counts what each fault may cost; and Untroubled, that without a fault   *)
(* every resolved append has its place, in the order of its session.       *)
(***************************************************************************)
EXTENDS NativeTerminal, FiniteSetTheorems, TLAPS

JournalEvents == UNION {Entries(events) : events \in Scripts}

Lines == {Line(s, n, e) : s \in Sessions \cup {NoSession}, n \in Nat,
                          e \in JournalEvents} \cup {Garbled}

\* Every variable of the journals keeps its type, and no session is told or has
\* written more than it has to say.
JournalsOK ==
    /\ script \in [Sessions -> Scripts \cup {<<>>}]
    /\ told \in [Sessions -> Nat]
    /\ written \in [Sessions -> Nat]
    /\ broken \in [Sessions -> BOOLEAN]
    /\ terminated \in BOOLEAN
    /\ file \in Seq(Lines)
    /\ result \in [Sessions -> {"none", "flushed", "failed"}]
    /\ faults \in Nat
    /\ \A s \in Sessions :
          /\ written[s] <= told[s]
          /\ told[s] <= Len(script[s])
          /\ script[s] # <<>> => told[s] >= 2
          /\ result[s] = "flushed" => written[s] = Len(script[s]) /\ script[s] # <<>>

\* Every line that can be read was written as it is by a session.
Genuine ==
    \A i \in DOMAIN file :
        file[i] # Garbled =>
            \E s \in Sessions : \E n \in 1 .. Len(script[s]) : file[i] = LineOf(s, n)

\* A last line without its end is nobody's, an anchor, or the one a session that
\* has failed was writing.
TornTail ==
    ~terminated =>
        /\ file # <<>>
        /\ \A s \in Sessions : \A n \in 2 .. Len(script[s]) :
              file[Len(file)] = LineOf(s, n) => broken[s] /\ written[s] < n
-----------------------------------------------------------------------------
(***************************************************************************)
(* Lines and files.                                                        *)
(***************************************************************************)
\* A line tells its number and, but for the anchor, its session; none is the
\* text a torn write leaves behind.
LEMMA LineFacts ==
    ASSUME NEW s \in Sessions, NEW n \in Nat \ {0}
    PROVE  /\ LineOf(s, n).seq = n
           /\ LineOf(s, n).event = script[s][n]
           /\ LineOf(s, n).session = (IF n = 1 THEN NoSession ELSE s)
           /\ LineOf(s, n) # Garbled
           /\ \A t \in Sessions, m \in Nat \ {0} :
                 LineOf(s, n) = LineOf(t, m) => n = m /\ (n # 1 => s = t)
<1>1. \A t \in Sessions, m \in Nat \ {0} :
         /\ LineOf(t, m).seq = m
         /\ LineOf(t, m).event = script[t][m]
         /\ LineOf(t, m).session = (IF m = 1 THEN NoSession ELSE t)
  BY DEF LineOf, Line
<1>2. Garbled.seq = 0
  BY DEF Garbled, Line
<1>3. ASSUME NEW t \in Sessions, NEW m \in Nat \ {0}, LineOf(s, n) = LineOf(t, m)
      PROVE  n = m /\ (n # 1 => s = t)
  <2>1. n = m
    BY <1>1, <1>3
  <2>2. n # 1 => LineOf(s, n).session = s /\ LineOf(t, m).session = t
    BY <1>1, <2>1
  <2> QED BY <1>3, <2>1, <2>2
<1> QED BY <1>1, <1>2, <1>3

\* What a session has to write are lines.
LEMMA LineType ==
    ASSUME script \in [Sessions -> Scripts \cup {<<>>}],
           NEW s \in Sessions, NEW n \in 1 .. Len(script[s])
    PROVE  LineOf(s, n) \in Lines /\ script[s] \in Scripts /\ script[s][n] \in JournalEvents
<1>1. script[s] # <<>>
  <2>1. SUFFICES ASSUME script[s] = <<>> PROVE FALSE
    OBVIOUS
  <2>2. Len(script[s]) = 0
    BY <2>1
  <2> QED BY <2>2
<1>2. script[s] \in Scripts
  BY <1>1
<1>3. script[s] \in Seq(Entries(script[s]))
  BY <1>2, JournalAssumption
<1>4. n \in DOMAIN script[s]
  BY <1>3
<1>5. script[s][n] \in Entries(script[s])
  BY <1>4 DEF Entries
<1>6. script[s][n] \in JournalEvents
  BY <1>2, <1>5 DEF JournalEvents
<1>7. n \in Nat
  BY <1>3
<1>8. \E r \in Sessions \cup {NoSession}, m \in Nat, e \in JournalEvents :
         LineOf(s, n) = Line(r, m, e)
  BY <1>6, <1>7 DEF LineOf
<1> QED BY <1>2, <1>6, <1>8 DEF Lines

\* What writing a line does to the file.
LEMMA WrittenFacts ==
    ASSUME file \in Seq(Lines), NEW line \in Lines,
           terminated \in BOOLEAN, ~terminated => file # <<>>
    PROVE  /\ Written(line) \in Seq(Lines)
           /\ Written(line) # <<>>
           /\ terminated =>
                 /\ Len(Written(line)) = Len(file) + 1
                 /\ Written(line)[Len(file) + 1] = line
                 /\ \A i \in 1 .. Len(file) : Written(line)[i] = file[i]
           /\ ~terminated =>
                 /\ Len(Written(line)) = Len(file)
                 /\ Len(file) \in Nat \ {0}
                 /\ Written(line)[Len(file)] = Garbled
                 /\ \A i \in 1 .. Len(file) - 1 : Written(line)[i] = file[i]
<1>1. CASE terminated
  <2>1. Written(line) = Append(file, line)
    BY <1>1 DEF Written
  <2> QED BY <1>1, <2>1
<1>2. CASE ~terminated
  <2>1. Written(line) = [file EXCEPT ![Len(file)] = Garbled]
    BY <1>2 DEF Written
  <2>2. Garbled \in Lines
    BY DEF Lines
  <2>3. Len(file) \in Nat \ {0}
    BY <1>2
  <2> QED BY <1>2, <2>1, <2>2, <2>3
<1> QED BY <1>1, <1>2
-----------------------------------------------------------------------------
(***************************************************************************)
(* What a step does to the journals.                                       *)
(***************************************************************************)
\* What can happen to the journals: a session starts, tells or writes, has its
\* result, is refused a write; the process dies or ends.
Resolves(s) ==
    /\ Flushing(s) /\ written[s] = told[s] /\ result[s] = "none"
    /\ result' = [result EXCEPT ![s] = "flushed"]
    /\ UNCHANGED <<journalVars, faults>>

Rejects(s) ==
    /\ Flushing(s)
    /\ AppendRejects(s)
    /\ result' = [result EXCEPT ![s] = "failed"]
    /\ faults' = faults + 1

Ends ==
    /\ \A s \in Sessions : ~InFlight(s)
    /\ broken' = [s \in Sessions |-> broken[s] \/ script[s] # <<>>]
    /\ UNCHANGED <<script, told, written, file, terminated, result, faults>>

JournalStep ==
    \/ \E s \in Sessions : \E events \in Scripts :
          Begin(s, events) /\ UNCHANGED <<result, faults>>
    \/ \E s \in Sessions : Tell(s) /\ UNCHANGED <<result, faults>>
    \/ \E s \in Sessions : AppendLine(s) /\ UNCHANGED <<result, faults>>
    \/ \E s \in Sessions : Resolves(s)
    \/ \E s \in Sessions : Rejects(s)
    \/ ProcessDies /\ faults' = faults + 1 /\ UNCHANGED result
    \/ Ends
    \/ UNCHANGED <<journalVars, result, faults>>

LEMMA StepIsJournalStep == [Next]_vars => JournalStep
<1> SUFFICES ASSUME [Next]_vars PROVE JournalStep
  OBVIOUS
<1>1. CASE UNCHANGED vars
  BY <1>1 DEF vars, JournalStep
<1>2. CASE Server
  BY <1>2 DEF Server, JournalStep
<1>3. CASE Crash
  BY <1>3 DEF Crash, JournalStep
<1>4. CASE Exit
  BY <1>4 DEF Exit, Ends, JournalStep
<1>5. CASE Restart
  BY <1>5 DEF Restart, JournalStep
<1>6. ASSUME NEW s \in Sessions, StartSession(s) PROVE JournalStep
  <2>1. PICK events \in Scripts : Begin(s, events)
    BY <1>6 DEF StartSession
  <2> QED BY <1>6, <2>1 DEF StartSession, JournalStep
<1>7. ASSUME NEW s \in Sessions, FlowAppends(s) PROVE JournalStep
  BY <1>7 DEF FlowAppends, JournalStep
<1>8. ASSUME NEW s \in Sessions, LineReachesFile(s) PROVE JournalStep
  BY <1>8 DEF LineReachesFile, JournalStep
<1>9. ASSUME NEW s \in Sessions, FlushResolves(s) PROVE JournalStep
  BY <1>9 DEF FlushResolves, Resolves, JournalStep
<1>10. ASSUME NEW s \in Sessions, FlushRejects(s) PROVE JournalStep
  BY <1>10 DEF FlushRejects, Rejects, JournalStep
<1> QED
  BY <1>1, <1>2, <1>3, <1>4, <1>5, <1>6, <1>7, <1>8, <1>9, <1>10 DEF Next

\* A write that does not come to its end: nothing, a fragment, or all of the
\* line but for its end.
LEMMA TornWriteFacts ==
    ASSUME JournalsOK, ~terminated => file # <<>>,
           NEW s \in Sessions, InFlight(s), TornWrite(s)
    PROVE  /\ written[s] + 1 \in 1 .. Len(script[s])
           /\ LineOf(s, written[s] + 1) \in Lines
           /\ \/ UNCHANGED <<file, terminated>>
              \/ \E line \in {Garbled, LineOf(s, written[s] + 1)} :
                    line \in Lines /\ file' = Written(line) /\ terminated' = FALSE
<1>1. written[s] + 1 \in 1 .. Len(script[s])
  <2>1. /\ written[s] \in Nat /\ told[s] \in Nat
        /\ written[s] < told[s] /\ told[s] <= Len(script[s])
    BY DEF JournalsOK, InFlight
  <2>2. Len(script[s]) \in Nat
    <3>1. script[s] \in Scripts \/ script[s] = <<>>
      BY DEF JournalsOK
    <3>2. CASE script[s] \in Scripts
      BY <3>2, JournalAssumption
    <3>3. CASE script[s] = <<>>
      BY <3>3
    <3> QED BY <3>1, <3>2, <3>3
  <2> QED BY <2>1, <2>2
<1>2. LineOf(s, written[s] + 1) \in Lines
  BY <1>1, LineType DEF JournalsOK
<1>3. Garbled \in Lines
  BY DEF Lines
<1> QED BY <1>1, <1>2, <1>3 DEF TornWrite

-----------------------------------------------------------------------------
(***************************************************************************)
(* The invariant of the journals.                                          *)
(***************************************************************************)
FileInv == JournalsOK /\ Genuine /\ TornTail

LEMMA ScriptLen ==
    ASSUME JournalsOK, NEW s \in Sessions
    PROVE  /\ Len(script[s]) \in Nat
           /\ script[s] # <<>> => script[s] \in Scripts /\ Len(script[s]) >= 2
<1>1. script[s] \in Scripts \/ script[s] = <<>>
  BY DEF JournalsOK
<1>2. CASE script[s] \in Scripts
  BY <1>2, JournalAssumption
<1>3. CASE script[s] = <<>>
  BY <1>3
<1> QED BY <1>1, <1>2, <1>3

LEMMA JournalsStart ==
    ASSUME FileInv, NEW s \in Sessions, NEW events \in Scripts, Begin(s, events),
           UNCHANGED <<result, faults>>
    PROVE  FileInv' /\ \A t \in Sessions : \A n : t # s => LineOf(t, n)' = LineOf(t, n)
<1>1. /\ script[s] = <<>>
      /\ script' = [script EXCEPT ![s] = events]
      /\ told' = [told EXCEPT ![s] = 2]
      /\ UNCHANGED <<written, broken, file, terminated, result, faults>>
  BY DEF Begin
<1>2. events \in Seq(Entries(events)) /\ Len(events) >= 2
  BY JournalAssumption
<1>3. Len(script[s]) = 0
  BY <1>1
<1>4. script[s]' = events /\ \A t \in Sessions : t # s => script[t]' = script[t]
  BY <1>1 DEF FileInv, JournalsOK
<1>5. told[s]' = 2 /\ \A t \in Sessions : t # s => told[t]' = told[t]
  BY <1>1 DEF FileInv, JournalsOK
<1>6. written[s] = 0 /\ result[s] # "flushed"
  BY <1>1, <1>3 DEF FileInv, JournalsOK
<1>7. JournalsOK'
  <2>1. ASSUME NEW t \in Sessions
        PROVE  /\ written[t]' <= told[t]'
               /\ told[t]' <= Len(script[t]')
               /\ script[t]' # <<>> => told[t]' >= 2
               /\ result[t]' = "flushed" => written[t]' = Len(script[t]') /\ script[t]' # <<>>
    <3>1. CASE t = s
      BY <1>1, <1>2, <1>4, <1>5, <1>6, <3>1
    <3>2. CASE t # s
      BY <1>1, <1>4, <1>5, <3>2 DEF FileInv, JournalsOK
    <3> QED BY <3>1, <3>2
  <2>2. /\ script' \in [Sessions -> Scripts \cup {<<>>}]
        /\ told' \in [Sessions -> Nat]
    BY <1>1 DEF FileInv, JournalsOK
  <2> QED BY <1>1, <2>1, <2>2 DEF FileInv, JournalsOK
<1>8. \A t \in Sessions : \A n : t # s => LineOf(t, n)' = LineOf(t, n)
  BY <1>4 DEF LineOf
<1>9. Genuine'
  <2> SUFFICES ASSUME NEW i \in DOMAIN file, file[i] # Garbled
               PROVE  \E t \in Sessions : \E n \in 1 .. Len(script[t]') : file[i] = LineOf(t, n)'
    BY <1>1 DEF Genuine
  <2>1. PICK t \in Sessions : \E n \in 1 .. Len(script[t]) : file[i] = LineOf(t, n)
    BY DEF FileInv, Genuine
  <2>2. t # s
    BY <1>3, <2>1
  <2> QED BY <1>4, <1>8, <2>1, <2>2
<1>10. TornTail'
  <2> SUFFICES ASSUME ~terminated
               PROVE  /\ file # <<>>
                      /\ \A t \in Sessions : \A n \in 2 .. Len(script[t]') :
                            file[Len(file)] = LineOf(t, n)' => broken[t] /\ written[t] < n
    BY <1>1 DEF TornTail
  <2>1. file # <<>>
    BY DEF FileInv, TornTail
  <2>2. ASSUME NEW t \in Sessions, NEW n \in 2 .. Len(script[t]'),
               file[Len(file)] = LineOf(t, n)'
        PROVE  broken[t] /\ written[t] < n
    <3>1. CASE t # s
      BY <1>4, <1>8, <2>2, <3>1 DEF FileInv, TornTail
    <3>2. CASE t = s
      <4>1. Len(file) \in DOMAIN file
        BY <2>1 DEF FileInv, JournalsOK
      <4>2. n \in 2 .. Len(events)
        BY <1>4, <2>2, <3>2
      <4>3. LineOf(t, n)'.session = s /\ LineOf(t, n)' # Garbled
        BY <1>2, <3>2, <4>2 DEF LineOf, Line, Garbled
      <4>4. PICK r \in Sessions : \E m \in 1 .. Len(script[r]) : file[Len(file)] = LineOf(r, m)
        BY <2>2, <4>1, <4>3 DEF FileInv, Genuine
      <4>5. r # s
        BY <1>3, <4>4
      <4>6. file[Len(file)].session \in {NoSession, r}
        BY <4>4 DEF LineOf, Line
      <4> QED BY <2>2, <4>3, <4>5, <4>6, JournalAssumption
    <3> QED BY <3>1, <3>2
  <2> QED BY <2>1, <2>2
<1> QED BY <1>7, <1>8, <1>9, <1>10 DEF FileInv

\* What is written is read as it is, or spoils the line it is glued to.
LEMMA WriteGenuine ==
    ASSUME FileInv, NEW line \in Lines, file' = Written(line), script' = script,
           line # Garbled =>
               \E s \in Sessions : \E n \in 1 .. Len(script[s]) : line = LineOf(s, n)
    PROVE  Genuine'
<1>1. /\ file \in Seq(Lines) /\ terminated \in BOOLEAN
      /\ ~terminated => file # <<>>
  BY DEF FileInv, JournalsOK, TornTail
<1>2. \A s \in Sessions : \A n : LineOf(s, n)' = LineOf(s, n)
  BY DEF LineOf
<1> SUFFICES ASSUME NEW i \in DOMAIN file', file'[i] # Garbled
             PROVE  \E s \in Sessions : \E n \in 1 .. Len(script[s]) : file'[i] = LineOf(s, n)
  BY <1>2 DEF Genuine
<1>3. \/ i \in DOMAIN file /\ file'[i] = file[i]
      \/ file'[i] = line
  <2>1. CASE terminated
    BY <1>1, <2>1, WrittenFacts
  <2>2. CASE ~terminated
    BY <1>1, <2>2, WrittenFacts
  <2> QED BY <2>1, <2>2
<1> QED BY <1>3 DEF FileInv, Genuine

LEMMA JournalsWrite ==
    ASSUME FileInv, NEW s \in Sessions, AppendLine(s), UNCHANGED <<result, faults>>
    PROVE  FileInv'
<1>1. /\ InFlight(s)
      /\ file' = Written(LineOf(s, written[s] + 1))
      /\ written' = [written EXCEPT ![s] = @ + 1]
      /\ terminated' = TRUE
      /\ UNCHANGED <<script, told, broken>>
  BY DEF AppendLine
<1>2. /\ file \in Seq(Lines) /\ terminated \in BOOLEAN
      /\ ~terminated => file # <<>>
  BY DEF FileInv, JournalsOK, TornTail
<1>3. /\ written[s] \in Nat /\ told[s] \in Nat /\ Len(script[s]) \in Nat
      /\ written[s] < told[s] /\ told[s] <= Len(script[s])
  BY <1>1, ScriptLen DEF FileInv, JournalsOK, InFlight
<1>4. written[s] + 1 \in 1 .. Len(script[s])
  BY <1>3
<1>5. LineOf(s, written[s] + 1) \in Lines
  BY <1>4, LineType DEF FileInv, JournalsOK
<1>6. JournalsOK'
  <2>1. file' \in Seq(Lines)
    BY <1>1, <1>2, <1>5, WrittenFacts
  <2>2. ASSUME NEW t \in Sessions
        PROVE  /\ written'[t] <= told[t]
               /\ result[t] = "flushed" => written'[t] = Len(script[t])
    <3>1. CASE t = s
      BY <1>1, <1>3, <3>1 DEF FileInv, JournalsOK
    <3>2. CASE t # s
      BY <1>1, <3>2 DEF FileInv, JournalsOK
    <3> QED BY <3>1, <3>2
  <2>3. written' \in [Sessions -> Nat]
    BY <1>1, <1>3 DEF FileInv, JournalsOK
  <2> QED BY <1>1, <2>1, <2>2, <2>3 DEF FileInv, JournalsOK
<1>7. Genuine'
  BY <1>1, <1>4, <1>5, WriteGenuine
<1>8. TornTail'
  BY <1>1 DEF TornTail
<1> QED BY <1>6, <1>7, <1>8 DEF FileInv

\* A torn write, by which the session that was writing is broken.
LEMMA JournalsTorn ==
    ASSUME FileInv, NEW s \in Sessions, InFlight(s), TornWrite(s),
           UNCHANGED <<script, told, written>>,
           broken' \in [Sessions -> BOOLEAN], broken'[s],
           \A t \in Sessions : broken[t] => broken'[t]
    PROVE  Genuine' /\ TornTail' /\ file' \in Seq(Lines) /\ terminated' \in BOOLEAN
<1>1. /\ file \in Seq(Lines) /\ terminated \in BOOLEAN
      /\ ~terminated => file # <<>>
  BY DEF FileInv, JournalsOK, TornTail
<1>2. \A t \in Sessions : \A n : LineOf(t, n)' = LineOf(t, n)
  BY DEF LineOf
<1>3. /\ written[s] + 1 \in 1 .. Len(script[s])
      /\ LineOf(s, written[s] + 1) \in Lines
      /\ \/ UNCHANGED <<file, terminated>>
         \/ \E line \in {Garbled, LineOf(s, written[s] + 1)} :
               line \in Lines /\ file' = Written(line) /\ terminated' = FALSE
  BY <1>1, TornWriteFacts DEF FileInv
<1>4. CASE UNCHANGED <<file, terminated>>
  <2>1. Genuine'
    BY <1>2, <1>4 DEF FileInv, Genuine
  <2>2. TornTail'
    BY <1>2, <1>4 DEF FileInv, TornTail
  <2> QED BY <1>1, <1>4, <2>1, <2>2
<1>5. ASSUME NEW line \in {Garbled, LineOf(s, written[s] + 1)},
             line \in Lines, file' = Written(line), terminated' = FALSE
      PROVE  Genuine' /\ TornTail' /\ file' \in Seq(Lines) /\ terminated' \in BOOLEAN
  <2>1. Genuine'
    BY <1>3, <1>5, WriteGenuine
  <2>2. /\ file' \in Seq(Lines) /\ file' # <<>>
        /\ file'[Len(file')] \in {Garbled, line}
    <3>1. CASE terminated
      BY <1>1, <1>5, <3>1, WrittenFacts
    <3>2. CASE ~terminated
      BY <1>1, <1>5, <3>2, WrittenFacts
    <3> QED BY <3>1, <3>2, <1>1
  <2>3. ASSUME NEW t \in Sessions, NEW n \in 2 .. Len(script[t]),
               file'[Len(file')] = LineOf(t, n)
        PROVE  broken'[t] /\ written[t] < n
    <3>0. n \in Nat \ {0} /\ n # 1 /\ written[s] + 1 \in Nat \ {0} /\ written[s] \in Nat
      BY <1>3, ScriptLen DEF FileInv, JournalsOK
    <3>1. LineOf(t, n) # Garbled
      BY <3>0, LineFacts
    <3>2. LineOf(t, n) = LineOf(s, written[s] + 1)
      BY <1>5, <2>2, <2>3, <3>1
    <3>3. n = written[s] + 1 /\ t = s
      BY <3>0, <3>2, LineFacts
    <3> QED BY <3>0, <3>3
  <2>4. TornTail'
    BY <1>2, <2>2, <2>3 DEF TornTail
  <2> QED BY <1>5, <2>1, <2>2, <2>4
<1> QED BY <1>3, <1>4, <1>5

LEMMA FileInvStep == FileInv /\ JournalStep => FileInv'
<1> SUFFICES ASSUME FileInv, JournalStep PROVE FileInv'
  OBVIOUS
<1>1. ASSUME NEW s \in Sessions, NEW events \in Scripts,
             Begin(s, events), UNCHANGED <<result, faults>>
      PROVE  FileInv'
  BY <1>1, JournalsStart
<1>2. ASSUME NEW s \in Sessions, Tell(s), UNCHANGED <<result, faults>>
      PROVE  FileInv'
  <2>1. /\ told[s] < Len(script[s])
        /\ told' = [told EXCEPT ![s] = @ + 1]
        /\ UNCHANGED <<script, written, broken, file, terminated, result, faults>>
    BY <1>2 DEF Tell
  <2>2. told' \in [Sessions -> Nat]
    BY <2>1 DEF FileInv, JournalsOK
  <2>3. ASSUME NEW t \in Sessions
        PROVE  /\ written[t] <= told'[t]
               /\ told'[t] <= Len(script[t])
               /\ script[t] # <<>> => told'[t] >= 2
    <3>1. CASE t = s
      <4>1. told'[s] = told[s] + 1 /\ told[s] \in Nat /\ written[s] \in Nat
        BY <2>1 DEF FileInv, JournalsOK
      <4> QED BY <2>1, <3>1, <4>1, ScriptLen DEF FileInv, JournalsOK
    <3>2. CASE t # s
      BY <2>1, <3>2 DEF FileInv, JournalsOK
    <3> QED BY <3>1, <3>2
  <2>4. JournalsOK'
    BY <2>1, <2>2, <2>3 DEF FileInv, JournalsOK
  <2>5. \A t \in Sessions : \A n : LineOf(t, n)' = LineOf(t, n)
    BY <2>1 DEF LineOf
  <2>6. Genuine' /\ TornTail'
    BY <2>1, <2>5 DEF FileInv, Genuine, TornTail
  <2> QED BY <2>4, <2>6 DEF FileInv
<1>3. ASSUME NEW s \in Sessions, AppendLine(s), UNCHANGED <<result, faults>>
      PROVE  FileInv'
  BY <1>3, JournalsWrite
<1>4. ASSUME NEW s \in Sessions, Resolves(s)
      PROVE  FileInv'
  <2>1. /\ script[s] # <<>> /\ told[s] = Len(script[s]) /\ written[s] = told[s]
        /\ result' = [result EXCEPT ![s] = "flushed"]
        /\ UNCHANGED <<script, told, written, broken, file, terminated, faults>>
    BY <1>4 DEF Resolves, Flushing, journalVars
  <2>2. JournalsOK'
    BY <2>1 DEF FileInv, JournalsOK
  <2>3. \A t \in Sessions : \A n : LineOf(t, n)' = LineOf(t, n)
    BY <2>1 DEF LineOf
  <2>4. Genuine' /\ TornTail'
    BY <2>1, <2>3 DEF FileInv, Genuine, TornTail
  <2> QED BY <2>2, <2>4 DEF FileInv
<1>5. ASSUME NEW s \in Sessions, Rejects(s)
      PROVE  FileInv'
  <2>1. /\ InFlight(s) /\ TornWrite(s)
        /\ broken' = [broken EXCEPT ![s] = TRUE]
        /\ UNCHANGED <<script, told, written>>
        /\ result' = [result EXCEPT ![s] = "failed"]
        /\ faults' = faults + 1
    BY <1>5 DEF Rejects, AppendRejects
  <2>2. /\ broken' \in [Sessions -> BOOLEAN] /\ broken'[s]
        /\ \A t \in Sessions : broken[t] => broken'[t]
    BY <2>1 DEF FileInv, JournalsOK
  <2>3. Genuine' /\ TornTail' /\ file' \in Seq(Lines) /\ terminated' \in BOOLEAN
    BY <2>1, <2>2, JournalsTorn
  <2>4. JournalsOK'
    BY <2>1, <2>2, <2>3 DEF FileInv, JournalsOK
  <2> QED BY <2>3, <2>4 DEF FileInv
<1>6. ASSUME ProcessDies, faults' = faults + 1, UNCHANGED result
      PROVE  FileInv'
  <2>1. /\ broken' = [s \in Sessions |-> broken[s] \/ script[s] # <<>>]
        /\ UNCHANGED <<script, told, written>>
    BY <1>6 DEF ProcessDies
  <2>2. /\ broken' \in [Sessions -> BOOLEAN]
        /\ \A t \in Sessions : broken[t] => broken'[t]
    BY <2>1 DEF FileInv, JournalsOK
  <2>3. Genuine' /\ TornTail' /\ file' \in Seq(Lines) /\ terminated' \in BOOLEAN
    <3>1. CASE UNCHANGED <<file, terminated>>
      <4>1. \A t \in Sessions : \A n : LineOf(t, n)' = LineOf(t, n)
        BY <2>1 DEF LineOf
      <4> QED BY <2>1, <2>2, <3>1, <4>1 DEF FileInv, Genuine, TornTail, JournalsOK
    <3>2. ASSUME NEW s \in Sessions, InFlight(s), TornWrite(s)
          PROVE  Genuine' /\ TornTail' /\ file' \in Seq(Lines) /\ terminated' \in BOOLEAN
      <4>1. script[s] # <<>>
        <5>1. SUFFICES ASSUME script[s] = <<>> PROVE FALSE
          OBVIOUS
        <5>2. Len(script[s]) = 0
          BY <5>1
        <5> QED BY <3>2, <5>2 DEF FileInv, JournalsOK, InFlight
      <4>2. broken'[s]
        BY <2>1, <4>1
      <4> QED BY <2>1, <2>2, <3>2, <4>2, JournalsTorn
    <3> QED BY <1>6, <3>1, <3>2 DEF ProcessDies
  <2>4. JournalsOK'
    BY <1>6, <2>1, <2>2, <2>3 DEF FileInv, JournalsOK
  <2> QED BY <2>3, <2>4 DEF FileInv
<1>7. ASSUME Ends
      PROVE  FileInv'
  <2>1. /\ broken' = [s \in Sessions |-> broken[s] \/ script[s] # <<>>]
        /\ UNCHANGED <<script, told, written, file, terminated, result, faults>>
    BY <1>7 DEF Ends
  <2>2. /\ broken' \in [Sessions -> BOOLEAN]
        /\ \A t \in Sessions : broken[t] => broken'[t]
    BY <2>1 DEF FileInv, JournalsOK
  <2>3. \A t \in Sessions : \A n : LineOf(t, n)' = LineOf(t, n)
    BY <2>1 DEF LineOf
  <2>4. Genuine' /\ TornTail'
    BY <2>1, <2>2, <2>3 DEF FileInv, Genuine, TornTail
  <2>5. JournalsOK'
    BY <2>1, <2>2 DEF FileInv, JournalsOK
  <2> QED BY <2>4, <2>5 DEF FileInv
<1>8. ASSUME UNCHANGED <<journalVars, result, faults>>
      PROVE  FileInv'
  <2>1. \A t \in Sessions : \A n : LineOf(t, n)' = LineOf(t, n)
    BY <1>8 DEF LineOf, journalVars
  <2> QED BY <1>8, <2>1 DEF FileInv, JournalsOK, Genuine, TornTail, journalVars
<1> QED
  BY <1>1, <1>2, <1>3, <1>4, <1>5, <1>6, <1>7, <1>8 DEF JournalStep

LEMMA InitFileInv == Init => FileInv
<1> SUFFICES ASSUME Init PROVE FileInv
  OBVIOUS
<1>1. /\ script = [s \in Sessions |-> <<>>]
      /\ told = [s \in Sessions |-> 0] /\ written = [s \in Sessions |-> 0]
      /\ broken = [s \in Sessions |-> FALSE]
      /\ file = <<>> /\ terminated = TRUE
      /\ result = [s \in Sessions |-> "none"] /\ faults = 0
  BY DEF Init, JournalInit
<1>2. \A s \in Sessions : Len(script[s]) = 0
  BY <1>1
<1>3. JournalsOK
  BY <1>1, <1>2 DEF JournalsOK
<1>4. Genuine /\ TornTail
  BY <1>1 DEF Genuine, TornTail
<1> QED BY <1>3, <1>4 DEF FileInv

\* The journals and the file keep their types, whatever fails or crashes: what
\* can be read in the file was written so by a session, and no session writes
\* behind its own failure.
THEOREM SpecFileInv == Spec => []FileInv
<1>1. FileInv /\ [Next]_vars => FileInv'
  BY StepIsJournalStep, FileInvStep
<1> QED BY InitFileInv, <1>1, PTL DEF Spec
-----------------------------------------------------------------------------
(***************************************************************************)
(* The process and its connections.                                        *)
(***************************************************************************)
\* close() settles only when no connection is left, whatever clients do and
\* however often the process is started again (superviseNativeServer,
\* finishIfClosed).
THEOREM SpecClosedMeansClosed == Spec => []ClosedMeansClosed
<1>1. Init => ClosedMeansClosed
  BY DEF Init, ShutdownInit, ClosedMeansClosed
<1>2. ClosedMeansClosed /\ [Next]_vars => ClosedMeansClosed'
  <2> SUFFICES ASSUME ClosedMeansClosed, [Next]_vars PROVE ClosedMeansClosed'
    OBVIOUS
  <2>1. CASE UNCHANGED shutdownVars
    BY <2>1 DEF shutdownVars, ClosedMeansClosed, Sockets
  <2>2. CASE FirstSignal \/ GraceEnds
    BY <2>2 DEF FirstSignal, GraceEnds, ClosedMeansClosed
  <2>3. CASE Settle
    <3>1. conns' = conns /\ (process' = "settled" => Sockets = {}) /\ process' # "exited"
      BY <2>3 DEF Settle
    <3> QED BY <3>1 DEF ClosedMeansClosed, Sockets
  <2>4. ASSUME NEW c \in Conns, Connect(c) PROVE ClosedMeansClosed'
    BY <2>4 DEF Connect, ClosedMeansClosed
  <2>5. ASSUME NEW c \in Conns, Answered(c) \/ Requested(c) \/ ConnectionCloses(c)
        PROVE  ClosedMeansClosed'
    <3>1. c \in Sockets /\ process' = process
      BY <2>5 DEF Answered, Requested, ConnectionCloses, Sockets, Serving
    <3> QED BY <3>1 DEF ClosedMeansClosed
  <2>6. CASE Exits
    BY <2>6 DEF Exits, ClosedMeansClosed, Sockets
  <2>7. CASE Dies
    BY <2>7 DEF Dies, ClosedMeansClosed
  <2>8. CASE Started
    BY <2>8 DEF Started, ClosedMeansClosed
  <2>9. CASE Server
    BY <2>2, <2>3, <2>4, <2>5, <2>9 DEF Server
  <2>10. CASE Crash \/ Exit \/ Restart
    BY <2>6, <2>7, <2>8, <2>10 DEF Crash, Exit, Restart
  <2>11. CASE UNCHANGED vars
    BY <2>1, <2>11 DEF vars
  <2>12. ASSUME NEW s \in Sessions,
                \/ StartSession(s) \/ FlowAppends(s) \/ LineReachesFile(s)
                \/ FlushResolves(s) \/ FlushRejects(s)
         PROVE  ClosedMeansClosed'
    BY <2>1, <2>12 DEF StartSession, FlowAppends, LineReachesFile, FlushResolves,
       FlushRejects
  <2> QED BY <2>9, <2>10, <2>11, <2>12 DEF Next
<1> QED BY <1>1, <1>2, PTL DEF Spec
-----------------------------------------------------------------------------
(***************************************************************************)
(* What was shown is in the file.                                          *)
(***************************************************************************)
\* As long as no session has failed by itself: every event whose append resolved
\* is in the file, but for anchors, and what a crash left behind is only met by
\* sessions that have not written yet.
Survived ==
    (\A s \in Sessions : result[s] # "failed") =>
        /\ \A s \in Sessions : \A n \in 2 .. written[s] : InFile(LineOf(s, n))
        /\ ~terminated => \A s \in Sessions : broken[s] \/ written[s] = 0

\* A write spoils at most an unfinished last line.
LEMMA WriteKeeps ==
    ASSUME FileInv, NEW line \in Lines, file' = Written(line),
           NEW old, InFile(old),
           terminated \/ file[Len(file)] # old
    PROVE  InFile(old)'
<1>1. /\ file \in Seq(Lines) /\ terminated \in BOOLEAN
      /\ ~terminated => file # <<>>
  BY DEF FileInv, JournalsOK, TornTail
<1>2. PICK i \in DOMAIN file : file[i] = old
  BY DEF InFile
<1>3. i \in DOMAIN file' /\ file'[i] = old
  <2>1. CASE terminated
    BY <1>1, <1>2, <2>1, WrittenFacts
  <2>2. CASE ~terminated
    <3>1. i # Len(file)
      BY <1>2, <2>2
    <3>2. i \in 1 .. Len(file) - 1 /\ i \in 1 .. Len(file)
      BY <1>1, <1>2, <3>1
    <3>3. /\ file' \in Seq(Lines) /\ Len(file') = Len(file)
          /\ \A k \in 1 .. Len(file) - 1 : file'[k] = file[k]
      BY <1>1, <2>2, WrittenFacts
    <3> QED BY <1>2, <3>2, <3>3
  <2> QED BY <2>1, <2>2
<1> QED BY <1>3 DEF InFile

\* A torn write leaves the lines whose append had resolved alone.
LEMMA TornKeeps ==
    ASSUME FileInv, NEW s \in Sessions, InFlight(s), TornWrite(s), UNCHANGED script,
           NEW t \in Sessions, NEW n \in 2 .. written[t], InFile(LineOf(t, n))
    PROVE  InFile(LineOf(t, n))'
<1>1. LineOf(t, n)' = LineOf(t, n)
  BY DEF LineOf
<1>2. ~terminated => file # <<>>
  BY DEF FileInv, TornTail
<1>3. \/ UNCHANGED <<file, terminated>>
      \/ \E line \in {Garbled, LineOf(s, written[s] + 1)} :
            line \in Lines /\ file' = Written(line)
  BY <1>2, TornWriteFacts DEF FileInv
<1>4. CASE UNCHANGED file
  BY <1>1, <1>4 DEF InFile
<1>5. ASSUME NEW line \in Lines, file' = Written(line)
      PROVE  InFile(LineOf(t, n))'
  <2>1. /\ written[t] \in Nat /\ told[t] \in Nat /\ Len(script[t]) \in Nat
        /\ written[t] <= told[t] /\ told[t] <= Len(script[t])
    BY ScriptLen DEF FileInv, JournalsOK
  <2>2. n \in 2 .. Len(script[t]) /\ ~(written[t] < n)
    BY <2>1
  <2>3. terminated \/ file[Len(file)] # LineOf(t, n)
    BY <2>2 DEF FileInv, TornTail
  <2> QED BY <1>1, <1>5, <2>3, WriteKeeps
<1> QED BY <1>3, <1>4, <1>5

LEMMA SurvivedStep == FileInv /\ Survived /\ JournalStep => Survived'
<1> SUFFICES ASSUME FileInv, Survived, JournalStep PROVE Survived'
  OBVIOUS
<1>0. /\ script \in [Sessions -> Scripts \cup {<<>>}]
      /\ told \in [Sessions -> Nat] /\ written \in [Sessions -> Nat]
      /\ broken \in [Sessions -> BOOLEAN] /\ terminated \in BOOLEAN
      /\ result \in [Sessions -> {"none", "flushed", "failed"}]
  BY DEF FileInv, JournalsOK
<1>1. ASSUME NEW s \in Sessions, NEW events \in Scripts,
             Begin(s, events), UNCHANGED <<result, faults>>
      PROVE  Survived'
  <2>1. /\ script[s] = <<>>
        /\ UNCHANGED <<written, broken, file, terminated, result>>
    BY <1>1 DEF Begin
  <2>2. Len(script[s]) = 0
    BY <2>1
  <2>3. written[s] = 0
    BY <2>2 DEF FileInv, JournalsOK
  <2>4. \A t \in Sessions : \A n : t # s => LineOf(t, n)' = LineOf(t, n)
    BY <1>1, JournalsStart
  <2> QED BY <2>1, <2>3, <2>4 DEF Survived, InFile
<1>2. ASSUME NEW s \in Sessions, Tell(s), UNCHANGED <<result, faults>>
      PROVE  Survived'
  BY <1>2 DEF Tell, Survived, InFile, LineOf
<1>3. ASSUME NEW s \in Sessions, AppendLine(s), UNCHANGED <<result, faults>>,
             \A t \in Sessions : result[t] # "failed"
      PROVE  Survived'
  <2>1. /\ InFlight(s)
        /\ file' = Written(LineOf(s, written[s] + 1))
        /\ written' = [written EXCEPT ![s] = @ + 1]
        /\ terminated' = TRUE
        /\ UNCHANGED <<script, told, broken>>
    BY <1>3 DEF AppendLine
  <2>2. /\ file \in Seq(Lines)
        /\ ~terminated => file # <<>>
    BY DEF FileInv, JournalsOK, TornTail
  <2>3. /\ written[s] \in Nat /\ written[s] + 1 \in 1 .. Len(script[s])
    BY <2>1, ScriptLen DEF FileInv, JournalsOK, InFlight
  <2>4. LineOf(s, written[s] + 1) \in Lines
    BY <2>3, LineType DEF FileInv, JournalsOK
  <2>5. ASSUME NEW t \in Sessions, NEW n \in 2 .. written[t]
        PROVE  InFile(LineOf(t, n))'
    <3>1. /\ written[t] \in Nat /\ told[t] \in Nat /\ Len(script[t]) \in Nat
          /\ written[t] <= told[t] /\ told[t] <= Len(script[t])
      BY ScriptLen DEF FileInv, JournalsOK
    <3>2. n \in 2 .. Len(script[t]) /\ ~(written[t] < n)
      BY <3>1
    <3>3. terminated \/ file[Len(file)] # LineOf(t, n)
      BY <3>2 DEF FileInv, TornTail
    <3>4. InFile(LineOf(t, n))
      BY <1>3 DEF Survived
    <3>5. LineOf(t, n)' = LineOf(t, n)
      BY <2>1 DEF LineOf
    <3> QED BY <2>1, <2>4, <3>3, <3>4, <3>5, WriteKeeps
  <2>6. ASSUME NEW n \in Nat, n = written[s] + 1, n >= 2
        PROVE  InFile(LineOf(s, n))'
    <3>1. terminated
      BY <1>3, <2>1, <2>3, <2>6 DEF Survived, InFlight
    <3>2. /\ file' \in Seq(Lines) /\ Len(file') = Len(file) + 1
          /\ file'[Len(file) + 1] = LineOf(s, n)
      BY <1>0, <2>1, <2>2, <2>4, <2>6, <3>1, WrittenFacts
    <3>3. Len(file) + 1 \in DOMAIN file'
      BY <2>2, <3>2
    <3>4. LineOf(s, n)' = LineOf(s, n)
      BY <2>1 DEF LineOf
    <3> QED BY <3>2, <3>3, <3>4 DEF InFile
  <2>7. ASSUME NEW t \in Sessions, NEW n \in 2 .. written'[t]
        PROVE  InFile(LineOf(t, n))'
    <3>1. CASE n \in 2 .. written[t]
      BY <2>5, <3>1
    <3>2. CASE n \notin 2 .. written[t]
      <4>1. t = s
        BY <1>0, <2>1, <2>7, <3>2
      <4>2. n = written[s] + 1 /\ n \in Nat /\ n >= 2
        BY <1>0, <2>1, <2>7, <3>2, <4>1
      <4> QED BY <2>6, <4>1, <4>2
    <3> QED BY <3>1, <3>2
  <2> QED BY <2>1, <2>7 DEF Survived
<1>4. ASSUME NEW s \in Sessions, Resolves(s), \A t \in Sessions : result[t] # "failed"
      PROVE  Survived'
  <2>1. UNCHANGED <<script, written, broken, file, terminated>>
    BY <1>4 DEF Resolves, journalVars
  <2> QED BY <1>4, <2>1 DEF Survived, InFile, LineOf
<1>5. ASSUME NEW s \in Sessions, Rejects(s)
      PROVE  Survived'
  <2>1. result'[s] = "failed"
    BY <1>0, <1>5 DEF Rejects
  <2> QED BY <2>1 DEF Survived
<1>6. ASSUME ProcessDies, UNCHANGED result, \A t \in Sessions : result[t] # "failed"
      PROVE  Survived'
  <2>1. /\ broken' = [s \in Sessions |-> broken[s] \/ script[s] # <<>>]
        /\ UNCHANGED <<script, told, written>>
    BY <1>6 DEF ProcessDies
  <2>2. ASSUME NEW t \in Sessions
        PROVE  broken'[t] \/ written[t] = 0
    <3>1. script[t] = <<>> => Len(script[t]) = 0
      OBVIOUS
    <3>2. /\ written[t] \in Nat /\ told[t] \in Nat
          /\ written[t] <= told[t] /\ told[t] <= Len(script[t])
      BY DEF FileInv, JournalsOK
    <3>3. script[t] # <<>> => broken'[t]
      BY <2>1
    <3> QED BY <3>1, <3>2, <3>3
  <2>3. ASSUME NEW t \in Sessions, NEW n \in 2 .. written[t]
        PROVE  InFile(LineOf(t, n))'
    <3>1. InFile(LineOf(t, n))
      BY <1>6 DEF Survived
    <3>2. CASE UNCHANGED <<file, terminated>>
      BY <2>1, <3>1, <3>2 DEF InFile, LineOf
    <3>3. ASSUME NEW s \in Sessions, InFlight(s), TornWrite(s)
          PROVE  InFile(LineOf(t, n))'
      BY <2>1, <3>1, <3>3, TornKeeps
    <3> QED BY <1>6, <3>2, <3>3 DEF ProcessDies
  <2> QED BY <2>1, <2>2, <2>3 DEF Survived
<1>7. ASSUME Ends, \A t \in Sessions : result[t] # "failed"
      PROVE  Survived'
  <2>1. /\ broken' = [s \in Sessions |-> broken[s] \/ script[s] # <<>>]
        /\ UNCHANGED <<script, written, file, terminated>>
    BY <1>7 DEF Ends
  <2>2. \A t \in Sessions : broken[t] => broken'[t]
    BY <1>0, <2>1
  <2> QED BY <1>7, <2>1, <2>2 DEF Survived, InFile, LineOf
<1>8. ASSUME UNCHANGED <<journalVars, result, faults>>
      PROVE  Survived'
  BY <1>8 DEF Survived, InFile, LineOf, journalVars
<1>9. ASSUME NEW t \in Sessions, result[t] = "failed"
      PROVE  Survived'
  <2>1. result'[t] = "failed"
    <3>1. \A s \in Sessions : Resolves(s) => result[s] = "none"
      BY DEF Resolves
    <3> QED BY <1>0, <1>9, <3>1 DEF JournalStep, Resolves, Rejects, Ends
  <2> QED BY <2>1 DEF Survived
<1> QED
  BY <1>1, <1>2, <1>3, <1>4, <1>5, <1>6, <1>7, <1>8, <1>9 DEF JournalStep

\* Crashes, however many, do not undo a session whose result is set: as long as no
\* session was refused a write its events stay in the file, whatever is written
\* after them (JsonlJournalPersistence.append, RuntimeJournal.flush).
THEOREM SpecShownMeansPersisted == Spec => []ShownMeansPersisted
<1>1. Init => FileInv /\ Survived
  <2>1. Init => \A s \in Sessions : written[s] = 0
    BY DEF Init, JournalInit
  <2>2. Init => terminated
    BY DEF Init, JournalInit
  <2> QED BY <2>1, <2>2, InitFileInv DEF Survived
<1>2. FileInv /\ Survived /\ [Next]_vars => (FileInv /\ Survived)'
  BY StepIsJournalStep, FileInvStep, SurvivedStep
<1>3. FileInv /\ Survived => ShownMeansPersisted
  BY DEF FileInv, JournalsOK, Survived, ShownMeansPersisted
<1> QED BY <1>1, <1>2, <1>3, PTL DEF Spec
-----------------------------------------------------------------------------
(***************************************************************************)
(* The lines of a set in the order of the file.                            *)
(***************************************************************************)
\* A set of numbers that is not empty has a least element.
LEMMA LeastNat ==
    ASSUME NEW T \in SUBSET Nat, T # {}
    PROVE  \E x \in T : \A y \in T : x <= y
<1> DEFINE Below == {ss \in Nat \X Nat : ss[1] < ss[2]}
<1>1. IsWellFoundedOn(Below, Nat)
  BY NatLessThanWellFounded DEF OpToRel
<1>2. PICK x \in T : \A y \in T : ~(<<y, x>> \in Below)
  <2> HIDE DEF Below
  <2> QED BY <1>1, WFMin
<1>3. \A y \in T : ~(y < x)
  BY <1>2
<1> QED BY <1>3

\* The number of a set's elements up to one of them grows with it.
LEMMA RankGrows ==
    ASSUME NEW S \in SUBSET Nat, IsFiniteSet(S), NEW i \in S, NEW k \in S, i < k
    PROVE  Cardinality({j \in S : j <= i}) < Cardinality({j \in S : j <= k})
<1> DEFINE A == {j \in S : j <= i}
           B == {j \in S : j <= k}
<1>1. A \in SUBSET B /\ k \in B /\ k \notin A
  <2>1. S \subseteq Int /\ i \in Int /\ k \in Int
    OBVIOUS
  <2>2. \A j \in S : j <= i => j <= k
    BY <2>1
  <2>3. k <= k /\ ~(k <= i)
    BY <2>1
  <2> QED BY <2>2, <2>3
<1>2. IsFiniteSet(B)
  <2>1. B \in SUBSET S
    OBVIOUS
  <2> HIDE DEF B
  <2> QED BY <2>1, FS_Subset
<1>3. IsFiniteSet(A) /\ Cardinality(A) <= Cardinality(B) /\ Cardinality(A) # Cardinality(B)
  <2> HIDE DEF A, B
  <2> QED BY <1>1, <1>2, FS_Subset
<1>4. Cardinality(A) \in Nat /\ Cardinality(B) \in Nat
  <2> HIDE DEF A, B
  <2> QED BY <1>2, <1>3, FS_CardinalityType
<1> HIDE DEF A, B
<1>5. Cardinality(A) < Cardinality(B)
  BY <1>3, <1>4
<1> QED BY <1>5 DEF A, B

\* InOrder enumerates a finite set in ascending order.
LEMMA InOrderEnumerates ==
    ASSUME NEW S \in SUBSET Nat, IsFiniteSet(S)
    PROVE  /\ Cardinality(S) \in Nat
           /\ InOrder(S) \in [1 .. Cardinality(S) -> S]
           /\ \A k \in 1 .. Cardinality(S) :
                 Cardinality({j \in S : j <= InOrder(S)[k]}) = k
           /\ \A i \in S : \E k \in 1 .. Cardinality(S) : InOrder(S)[k] = i
           /\ \A k, m \in 1 .. Cardinality(S) : k < m => InOrder(S)[k] < InOrder(S)[m]
<1> DEFINE n == Cardinality(S)
           rank == [i \in S |-> Cardinality({j \in S : j <= i})]
<1>1. n \in Nat
  BY FS_CardinalityType
<1>2. \A i, k \in S : i < k => rank[i] < rank[k]
  BY RankGrows
<1>3. ASSUME NEW i \in S PROVE rank[i] \in 1 .. n
  <2> DEFINE A == {j \in S : j <= i}
  <2>1. A \in SUBSET S /\ i \in A
    OBVIOUS
  <2>2. rank[i] = Cardinality(A)
    OBVIOUS
  <2> HIDE DEF A
  <2>3. IsFiniteSet(A) /\ Cardinality(A) <= n
    BY <2>1, FS_Subset
  <2>4. Cardinality(A) \in Nat /\ Cardinality(A) # 0
    BY <2>1, <2>3, FS_CardinalityType, FS_EmptySet
  <2> QED BY <1>1, <2>2, <2>3, <2>4
<1>4. rank \in [S -> 1 .. n]
  BY <1>3
<1>5. \A i, k \in S : rank[i] = rank[k] => i = k
  <2> SUFFICES ASSUME NEW i \in S, NEW k \in S, rank[i] = rank[k], i # k PROVE FALSE
    OBVIOUS
  <2>1. i < k \/ k < i
    OBVIOUS
  <2>2. rank[i] < rank[k] \/ rank[k] < rank[i]
    BY <1>2, <2>1
  <2> HIDE DEF rank
  <2> QED BY <1>4, <2>2
<1>6. rank \in Injection(S, 1 .. n)
  <2> HIDE DEF rank
  <2> QED BY <1>4, <1>5 DEF Injection, IsInjective
<1>7. IsFiniteSet(1 .. n) /\ Cardinality(1 .. n) = n
  BY <1>1, FS_Interval
<1>8. rank \in Surjection(S, 1 .. n)
  <2> HIDE DEF rank
  <2>1. Cardinality(S) = Cardinality(1 .. n)
    BY <1>7
  <2> QED BY <1>6, <1>7, <2>1, FS_Injection
<1>9. \A k \in 1 .. n : \E i \in S : rank[i] = k
  <2> HIDE DEF rank
  <2> QED BY <1>8 DEF Surjection
<1>10. \A k \in 1 .. n : InOrder(S)[k] \in S /\ rank[InOrder(S)[k]] = k
  <2> SUFFICES ASSUME NEW k \in 1 .. n
               PROVE  InOrder(S)[k] \in S /\ rank[InOrder(S)[k]] = k
    OBVIOUS
  <2>1. \E i \in S : Cardinality({j \in S : j <= i}) = k
    BY <1>9
  <2>2. InOrder(S)[k] = CHOOSE i \in S : Cardinality({j \in S : j <= i}) = k
    BY DEF InOrder
  <2> QED BY <2>1, <2>2
<1>11. InOrder(S) \in [1 .. n -> S]
  BY <1>10 DEF InOrder
<1>12. ASSUME NEW i \in S PROVE \E k \in 1 .. n : InOrder(S)[k] = i
  <2>1. rank[i] \in 1 .. n
    BY <1>3
  <2>2. InOrder(S)[rank[i]] \in S /\ rank[InOrder(S)[rank[i]]] = rank[i]
    <3> HIDE DEF rank
    <3> QED BY <1>10, <2>1
  <2>3. InOrder(S)[rank[i]] = i
    <3> HIDE DEF rank
    <3> QED BY <1>5, <2>2
  <2> HIDE DEF rank
  <2> QED BY <2>1, <2>3
<1>13. ASSUME NEW k \in 1 .. n, NEW m \in 1 .. n, k < m
       PROVE  InOrder(S)[k] < InOrder(S)[m]
  <2> HIDE DEF rank
  <2> DEFINE i == InOrder(S)[k]
             j == InOrder(S)[m]
  <2>1. i \in S /\ j \in S /\ rank[i] = k /\ rank[j] = m
    BY <1>10
  <2> HIDE DEF i, j
  <2>2. i # j /\ ~(j < i)
    <3>1. j < i => rank[j] < rank[i]
      BY <1>2, <2>1
    <3> QED BY <1>13, <1>1, <2>1, <3>1
  <2>3. i < j
    BY <2>1, <2>2
  <2> QED BY <2>3 DEF i, j
<1>14. \A k \in 1 .. n : Cardinality({j \in S : j <= InOrder(S)[k]}) = k
  BY <1>10
<1> QED BY <1>1, <1>11, <1>12, <1>13, <1>14

\* Numbers that begin with 2 and leave no gap are the numbers from 2 on.
LEMMA GaplessFromTwo ==
    ASSUME NEW n \in Nat, NEW f, f[1] = 2,
           \A k \in 1 .. n - 1 : f[k + 1] = f[k] + 1
    PROVE  \A k \in 1 .. n : f[k] = k + 1
<1> DEFINE T == {k \in 1 .. n : f[k] # k + 1}
<1> SUFFICES ASSUME T # {} PROVE FALSE
  OBVIOUS
<1>1. PICK x \in T : \A y \in T : x <= y
  <2>1. T \in SUBSET Nat
    OBVIOUS
  <2> HIDE DEF T
  <2> QED BY <2>1, LeastNat
<1>2. x # 1
  OBVIOUS
<1>3. x - 1 \in 1 .. n /\ x - 1 \in 1 .. n - 1 /\ x - 1 \notin T
  BY <1>1, <1>2
<1>4. f[x - 1] = x
  BY <1>3
<1>5. f[x] = f[x - 1] + 1
  BY <1>3
<1> QED BY <1>4, <1>5

\* A line of a session in the file is the event its number tells of.
LEMMA LinesOfSession ==
    ASSUME FileInv, NEW s, s # NoSession, NEW i \in Of(file, s)
    PROVE  /\ s \in Sessions
           /\ file[i].seq \in 2 .. Len(script[s])
           /\ file[i] = LineOf(s, file[i].seq)
<1>1. i \in DOMAIN file /\ file[i] # Garbled /\ file[i].session = s
  BY DEF Of, Records
<1>2. PICK t \in Sessions : \E m \in 1 .. Len(script[t]) : file[i] = LineOf(t, m)
  BY <1>1 DEF FileInv, Genuine
<1>3. PICK m \in 1 .. Len(script[t]) : file[i] = LineOf(t, m)
  BY <1>2
<1>4. Len(script[t]) \in Nat /\ m \in Nat \ {0}
  BY ScriptLen DEF FileInv
<1>5. /\ file[i].seq = m
      /\ file[i].session = (IF m = 1 THEN NoSession ELSE t)
  BY <1>3, <1>4, LineFacts
<1>6. m # 1 /\ t = s
  BY <1>1, <1>5
<1> QED BY <1>3, <1>4, <1>5, <1>6

LEMMA OfIsFinite ==
    ASSUME FileInv, NEW s
    PROVE  /\ Of(file, s) \in SUBSET Nat
           /\ Of(file, s) \in SUBSET (1 .. Len(file))
           /\ IsFiniteSet(Of(file, s))
<1>1. Len(file) \in Nat /\ DOMAIN file = 1 .. Len(file)
  BY DEF FileInv, JournalsOK
<1>2. Of(file, s) \in SUBSET (1 .. Len(file))
  BY <1>1 DEF Of, Records
<1>3. IsFiniteSet(1 .. Len(file))
  BY <1>1, FS_Interval
<1> QED BY <1>1, <1>2, <1>3, FS_Subset

\* What strict inspection accepts of a session begins with the event of number
\* two and leaves none out, so it is what the session wrote, however many torn
\* writes and crashes the file has seen (inspectJournalText, validateSequence).
LEMMA FaithfulFile == FileInv => ValidMeansFaithful
<1> SUFFICES ASSUME FileInv, NEW s \in SessionsIn(file),
                    SessionValid(file, s, "strict")
             PROVE  \A k \in DOMAIN InOrder(Of(file, s)) :
                       file[InOrder(Of(file, s))[k]] = LineOf(s, k + 1)
  BY DEF ValidMeansFaithful
<1> DEFINE S       == Of(file, s)
           n       == Cardinality(S)
           order   == InOrder(S)
           records == [k \in DOMAIN order |-> file[order[k]]]
           scoped  == [k \in DOMAIN order |-> records[k].event]
           state   == ReplayScoped(scoped)
           late    == {"ANCHOR_ORDER_INVALID" : x \in Misplaced(file) \cap {s}}
           begin   == IF /\ Head(scoped).type = "flow.loaded"
                         /\ Head(records).seq # 2
                      THEN {"SESSION_SEQUENCE_START"} ELSE {}
           missing == CompletenessErrors(state, scoped) \cup late \cup begin
           gaps    == IF Gapless(records) THEN {} ELSE {Issue("error", "SEQUENCE_GAP")}
<1>1. s # NoSession /\ S # {}
  BY DEF SessionsIn, Of
<1>2. /\ n \in Nat
      /\ order \in [1 .. n -> S]
      /\ \A i \in S : \E k \in 1 .. n : order[k] = i
  BY OfIsFinite, InOrderEnumerates
<1>3. n # 0 /\ 1 \in 1 .. n
  BY <1>1, <1>2
<1>4. SessionIssues(file, s, "strict") =
         {Issue("error", code) : code \in state.errors} \cup
         {Issue("error", code) : code \in missing} \cup gaps
  BY DEF SessionIssues, Completeness
<1>5. Errors(SessionIssues(file, s, "strict")) = {}
  BY DEF SessionValid
<1>6. missing = {} /\ gaps = {}
  <2>1. \A x \in SessionIssues(file, s, "strict") : x.severity # "error"
    BY <1>5 DEF Errors
  <2>2. \A code : Issue("error", code).severity = "error"
    BY DEF Issue
  <2> HIDE DEF missing, gaps, state
  <2>3. missing = {}
    BY <1>4, <2>1, <2>2
  <2>4. gaps = {}
    <3>1. SUFFICES ASSUME gaps # {} PROVE FALSE
      OBVIOUS
    <3>2. Issue("error", "SEQUENCE_GAP") \in gaps
      BY <3>1 DEF gaps
    <3> QED BY <1>4, <2>1, <2>2, <3>2
  <2> QED BY <2>3, <2>4
<1>7. Gapless(records)
  BY <1>6
<1>8. /\ DOMAIN order = 1 .. n
      /\ Len(records) = n /\ Head(records) = records[1]
      /\ Len(scoped) = n /\ Head(scoped) = scoped[1] /\ scoped # <<>>
  <2>1. DOMAIN order = 1 .. n
    BY <1>2
  <2>2. DOMAIN records = 1 .. n /\ DOMAIN scoped = 1 .. n
    BY <2>1
  <2> HIDE DEF order, n
  <2> QED BY <1>2, <1>3, <2>1, <2>2
<1>9. records[1].seq = 2
  <2>1. "SESSION_ANCHOR_MISSING" \notin CompletenessErrors(state, scoped)
    BY <1>6
  <2>2. Head(scoped).type = "flow.loaded"
    BY <2>1 DEF CompletenessErrors
  <2>3. begin = {}
    BY <1>6
  <2>4. Head(records).seq = 2
    BY <2>2, <2>3
  <2> QED BY <1>8, <2>4
<1>10. \A k \in 1 .. n - 1 : records[k + 1].seq = records[k].seq + 1
  BY <1>7, <1>8 DEF Gapless
<1>11. \A k \in 1 .. n : records[k].seq = k + 1
  <2> DEFINE f == [k \in 1 .. n |-> records[k].seq]
  <2> HIDE DEF records
  <2>1. f[1] = 2
    BY <1>3, <1>9
  <2>2. \A k \in 1 .. n - 1 : f[k + 1] = f[k] + 1
    BY <1>2, <1>10
  <2>3. \A k \in 1 .. n : f[k] = k + 1
    <3>1. n \in Nat
      BY <1>2
    <3> HIDE DEF f, n
    <3> QED BY <2>1, <2>2, <3>1, GaplessFromTwo
  <2> QED BY <2>3
<1> SUFFICES ASSUME NEW k \in 1 .. n PROVE file[order[k]] = LineOf(s, k + 1)
  BY <1>8
<1>12. order[k] \in S /\ records[k] = file[order[k]]
  BY <1>2, <1>8
<1>13. file[order[k]] = LineOf(s, file[order[k]].seq)
  BY <1>1, <1>12, LinesOfSession
<1> QED BY <1>11, <1>12, <1>13

\* The strict inspection never accepts a session that is not told as it happened.
THEOREM SpecValidMeansFaithful == Spec => []ValidMeansFaithful
BY SpecFileInv, FaithfulFile, PTL
-----------------------------------------------------------------------------
(***************************************************************************)
(* What failed writes cost.                                                *)
(***************************************************************************)
\* The appends that resolved; of them the events lost, and the sessions begun.
Resolved == UNION {{s} \X (1 .. written[s]) : s \in Sessions}
Lost == {r \in Resolved : r[2] > 1 /\ ~InFile(LineOf(r[1], r[2]))}
Begun == {r \in Resolved : r[2] = 1}

IsAnchor(line) ==
    line # Garbled /\ ~Malformed(line.event) /\ line.session = NoSession

\* What the next write will cost: it spoils itself, and an anchor without its end.
Owed == IF terminated THEN 0 ELSE IF IsAnchor(file[Len(file)]) THEN 2 ELSE 1

Budget ==
    /\ IsFiniteSet(Resolved)
    /\ Cardinality(Lost) + Cardinality(Begun) + Owed
          <= Cardinality(Anchors(file)) + faults

LEMMA AnchorLines ==
    ASSUME FileInv, NEW s \in Sessions, NEW n \in 1 .. Len(script[s])
    PROVE  IsAnchor(LineOf(s, n)) <=> n = 1
<1>1. n \in Nat \ {0}
  BY ScriptLen DEF FileInv
<1>2. /\ LineOf(s, n) # Garbled
      /\ LineOf(s, n).event = script[s][n]
      /\ LineOf(s, n).session = (IF n = 1 THEN NoSession ELSE s)
  BY <1>1, LineFacts
<1>3. CASE n = 1
  <2>1. script[s] \in Scripts
    BY LineType DEF FileInv, JournalsOK
  <2>2. script[s][1].type = "runtime.started"
    BY <2>1, JournalAssumption
  <2>3. ~Malformed(script[s][1])
    BY <2>2 DEF Malformed, NamingTypes, TerminalTypes
  <2> QED BY <1>2, <1>3, <2>3 DEF IsAnchor
<1>4. CASE n # 1
  BY <1>2, <1>4, JournalAssumption DEF IsAnchor
<1> QED BY <1>3, <1>4

LEMMA AnchorsOf ==
    ASSUME NEW lines PROVE Anchors(lines) = {i \in DOMAIN lines : IsAnchor(lines[i])}
BY DEF Anchors, Of, Records, IsAnchor

\* A write adds an anchor, or spoils one that had no end.
LEMMA AnchorsWritten ==
    ASSUME FileInv, NEW line \in Lines
    PROVE  /\ Cardinality(Anchors(file)) \in Nat
           /\ terminated => Cardinality(Anchors(Written(line))) =
                 Cardinality(Anchors(file)) + (IF IsAnchor(line) THEN 1 ELSE 0)
           /\ ~terminated => Cardinality(Anchors(Written(line))) =
                 Cardinality(Anchors(file)) -
                    (IF IsAnchor(file[Len(file)]) THEN 1 ELSE 0)
<1> DEFINE n     == Len(file)
           after == Written(line)
<1>1. /\ file \in Seq(Lines) /\ terminated \in BOOLEAN
      /\ ~terminated => file # <<>>
  BY DEF FileInv, JournalsOK, TornTail
<1>2. n \in Nat /\ DOMAIN file = 1 .. n
  BY <1>1
<1>3. /\ IsFiniteSet(Anchors(file))
      /\ Anchors(file) \in SUBSET (1 .. n)
      /\ Cardinality(Anchors(file)) \in Nat
  BY OfIsFinite, FS_CardinalityType DEF Anchors
<1>4. ~IsAnchor(Garbled)
  BY DEF IsAnchor
<1>5. ASSUME terminated
      PROVE  Cardinality(Anchors(after)) =
                Cardinality(Anchors(file)) + (IF IsAnchor(line) THEN 1 ELSE 0)
  <2>1. /\ DOMAIN after = 1 .. n + 1
        /\ after[n + 1] = line
        /\ \A i \in 1 .. n : after[i] = file[i]
    BY <1>1, <1>2, <1>5, WrittenFacts
  <2>2. n + 1 \notin Anchors(file)
    BY <1>2, <1>3
  <2> HIDE DEF after, n
  <2>3. \A i : i \in 1 .. n + 1 <=> i \in 1 .. n \/ i = n + 1
    BY <1>2
  <2>4. Anchors(after) = IF IsAnchor(line) THEN Anchors(file) \cup {n + 1} ELSE Anchors(file)
    <3>1. /\ Anchors(after) = {i \in 1 .. n + 1 : IsAnchor(after[i])}
          /\ Anchors(file) = {i \in 1 .. n : IsAnchor(file[i])}
      BY <1>2, <2>1, AnchorsOf
    <3> QED BY <2>1, <2>3, <3>1
  <2> QED BY <1>3, <2>2, <2>4, FS_AddElement
<1>6. ASSUME ~terminated
      PROVE  Cardinality(Anchors(after)) =
                Cardinality(Anchors(file)) - (IF IsAnchor(file[n]) THEN 1 ELSE 0)
  <2>1. /\ DOMAIN after = 1 .. n /\ n \in 1 .. n
        /\ after[n] = Garbled
        /\ \A i \in 1 .. n - 1 : after[i] = file[i]
    <3>1. /\ after \in Seq(Lines) /\ Len(after) = n /\ n \in Nat \ {0}
          /\ after[n] = Garbled
          /\ \A i \in 1 .. n - 1 : after[i] = file[i]
      BY <1>1, <1>6, WrittenFacts
    <3> HIDE DEF after, n
    <3> QED BY <3>1
  <2>2. n \in Anchors(file) <=> IsAnchor(file[n])
    BY <1>2, <2>1, AnchorsOf
  <2> HIDE DEF after, n
  <2>3. \A i : i \in 1 .. n <=> i \in 1 .. n - 1 \/ i = n
    BY <1>2, <2>1
  <2>4. \A i \in 1 .. n - 1 : i # n
    BY <1>2
  <2>5. Anchors(after) = Anchors(file) \ {n}
    <3>1. /\ Anchors(after) = {i \in 1 .. n : IsAnchor(after[i])}
          /\ Anchors(file) = {i \in 1 .. n : IsAnchor(file[i])}
      BY <1>2, <2>1, AnchorsOf
    <3> QED BY <1>4, <2>1, <2>3, <2>4, <3>1
  <2>6. Cardinality(Anchors(file) \ {n}) =
           IF n \in Anchors(file) THEN Cardinality(Anchors(file)) - 1
                                  ELSE Cardinality(Anchors(file))
    BY <1>3, FS_RemoveElement
  <2> QED BY <1>3, <2>2, <2>5, <2>6
<1> QED BY <1>3, <1>5, <1>6

\* Lost events and begun sessions are finite in number.
LEMMA BudgetTypes ==
    ASSUME IsFiniteSet(Resolved)
    PROVE  /\ IsFiniteSet(Lost) /\ Cardinality(Lost) \in Nat
           /\ IsFiniteSet(Begun) /\ Cardinality(Begun) \in Nat
<1>1. Lost \in SUBSET Resolved /\ Begun \in SUBSET Resolved
  BY DEF Lost, Begun
<1> QED BY <1>1, FS_Subset, FS_CardinalityType

LEMMA ResolvedPairs ==
    /\ \A r : r \in Resolved <=>
          \E s \in Sessions : \E n \in 1 .. written[s] : r = <<s, n>>
    /\ \A s \in Sessions : \A n : <<s, n>> \in Resolved <=> n \in 1 .. written[s]
BY DEF Resolved

\* Of what had resolved a write spoils nothing.
LEMMA WriteSparesResolved ==
    ASSUME FileInv, NEW line \in Lines, file' = Written(line), script' = script,
           NEW t \in Sessions, NEW n \in 1 .. written[t], n > 1, InFile(LineOf(t, n))
    PROVE  InFile(LineOf(t, n))'
<1>1. /\ written[t] \in Nat /\ told[t] \in Nat /\ Len(script[t]) \in Nat
      /\ written[t] <= told[t] /\ told[t] <= Len(script[t])
  BY ScriptLen DEF FileInv, JournalsOK
<1>2. n \in 2 .. Len(script[t]) /\ ~(written[t] < n)
  BY <1>1
<1>3. terminated \/ file[Len(file)] # LineOf(t, n)
  BY <1>2 DEF FileInv, TornTail
<1>4. LineOf(t, n)' = LineOf(t, n)
  BY DEF LineOf
<1> QED BY <1>3, <1>4, WriteKeeps

\* The next append of a session, glued to what a torn write left or not.
LEMMA BudgetWrite ==
    ASSUME FileInv, Budget, NEW s \in Sessions, AppendLine(s), UNCHANGED <<result, faults>>
    PROVE  Budget'
<1>1. /\ InFlight(s)
      /\ file' = Written(LineOf(s, written[s] + 1))
      /\ written' = [written EXCEPT ![s] = @ + 1]
      /\ terminated' = TRUE
      /\ UNCHANGED <<script, told, broken>>
  BY DEF AppendLine
<1>2. /\ file \in Seq(Lines) /\ terminated \in BOOLEAN
      /\ ~terminated => file # <<>>
      /\ written \in [Sessions -> Nat] /\ faults \in Nat
  BY DEF FileInv, JournalsOK, TornTail
<1>3. PICK n \in Nat : n = written[s] + 1
  BY <1>2
<1>4. n \in 1 .. Len(script[s])
  BY <1>1, <1>2, <1>3, ScriptLen DEF FileInv, JournalsOK, InFlight
<1>5. LineOf(s, n) \in Lines /\ file' = Written(LineOf(s, n))
  BY <1>1, <1>3, <1>4, LineType DEF FileInv, JournalsOK
<1>6. \A t \in Sessions : \A m : LineOf(t, m)' = LineOf(t, m)
  BY <1>1 DEF LineOf
<1> DEFINE p == <<s, n>>
<1>7. Resolved' = Resolved \cup {p}
  <2>1. written'[s] = n /\ \A t \in Sessions : t # s => written'[t] = written[t]
    BY <1>1, <1>2, <1>3
  <2>2. \A m : m \in 1 .. n <=> m \in 1 .. written[s] \/ m = n
    BY <1>2, <1>3
  <2>3. \A r : r \in Resolved' <=>
           \E t \in Sessions : \E m \in 1 .. written'[t] : r = <<t, m>>
    BY DEF Resolved
  <2>4. ASSUME NEW r \in Resolved' PROVE r \in Resolved \cup {p}
    <3>1. PICK t \in Sessions : \E m \in 1 .. written'[t] : r = <<t, m>>
      BY <2>3
    <3>2. PICK m \in 1 .. written'[t] : r = <<t, m>>
      BY <3>1
    <3>3. CASE t = s
      BY <2>1, <2>2, <3>2, <3>3, ResolvedPairs
    <3>4. CASE t # s
      BY <2>1, <3>2, <3>4, ResolvedPairs
    <3> QED BY <3>3, <3>4
  <2>5. p \in Resolved'
    BY <1>4, <2>1, <2>2, <2>3
  <2>6. ASSUME NEW r \in Resolved PROVE r \in Resolved'
    <3>1. PICK t \in Sessions : \E m \in 1 .. written[t] : r = <<t, m>>
      BY ResolvedPairs
    <3>2. PICK m \in 1 .. written[t] : r = <<t, m>>
      BY <3>1
    <3>3. m \in 1 .. written'[t]
      BY <1>2, <2>1, <2>2, <3>2
    <3> QED BY <2>3, <3>2, <3>3
  <2> QED BY <2>4, <2>5, <2>6
<1>8. IsFiniteSet(Resolved')
  BY <1>7, FS_AddElement DEF Budget
<1>9. \A r \in Resolved : r[2] > 1 /\ InFile(LineOf(r[1], r[2])) => InFile(LineOf(r[1], r[2]))'
  <2> SUFFICES ASSUME NEW r \in Resolved, r[2] > 1, InFile(LineOf(r[1], r[2]))
               PROVE  InFile(LineOf(r[1], r[2]))'
    OBVIOUS
  <2>1. PICK t \in Sessions : \E m \in 1 .. written[t] : r = <<t, m>>
    BY ResolvedPairs
  <2>2. PICK m \in 1 .. written[t] : r = <<t, m>>
    BY <2>1
  <2>3. InFile(LineOf(t, m))'
    BY <1>1, <1>5, <2>2, WriteSparesResolved
  <2>4. InFile(LineOf(t, m)) /\ m > 1
    BY <2>2
  <2>5. r[1] = t /\ r[2] = m
    BY <2>2
  <2> QED BY <2>3, <2>5
<1>10. Lost' \subseteq Lost \cup {p} /\ (n = 1 => Lost' \subseteq Lost)
  <2>1. ASSUME NEW r \in Lost' PROVE r \in Lost \/ (r = p /\ n # 1)
    <3>1. r \in Resolved' /\ r[2] > 1 /\ ~InFile(LineOf(r[1], r[2]))'
      BY DEF Lost
    <3>2. CASE r \in Resolved
      BY <1>9, <3>1, <3>2 DEF Lost
    <3>3. CASE r = p
      BY <3>1, <3>3
    <3> QED BY <1>7, <3>1, <3>2, <3>3
  <2> QED BY <2>1
<1>11. Begun' \subseteq Begun \cup {p} /\ (n # 1 => Begun' \subseteq Begun)
  BY <1>7 DEF Begun
<1>12. terminated => Lost' \subseteq Lost
  <2> SUFFICES ASSUME terminated, NEW r \in Lost' PROVE r \in Lost
    OBVIOUS
  <2>1. /\ file' \in Seq(Lines) /\ Len(file') = Len(file) + 1
        /\ file'[Len(file) + 1] = LineOf(s, n)
    BY <1>2, <1>5, WrittenFacts
  <2>2. Len(file) + 1 \in DOMAIN file'
    BY <1>2, <2>1
  <2>3. InFile(LineOf(s, n))'
    BY <1>6, <2>1, <2>2 DEF InFile
  <2>4. r # p
    <3>1. r = p => r[1] = s /\ r[2] = n
      OBVIOUS
    <3>2. ~InFile(LineOf(r[1], r[2]))'
      BY DEF Lost
    <3> QED BY <2>3, <3>1, <3>2
  <2> QED BY <1>10, <2>4
<1> HIDE DEF p
<1>13. /\ IsFiniteSet(Lost) /\ Cardinality(Lost) \in Nat
       /\ IsFiniteSet(Begun) /\ Cardinality(Begun) \in Nat
  BY BudgetTypes DEF Budget
<1>14. /\ Cardinality(Lost') \in Nat /\ Cardinality(Lost') <= Cardinality(Lost) + 1
       /\ n = 1 \/ terminated => Cardinality(Lost') <= Cardinality(Lost)
  <2>0. /\ IsFiniteSet(Lost \cup {p})
        /\ Cardinality(Lost \cup {p}) =
              IF p \in Lost THEN Cardinality(Lost) ELSE Cardinality(Lost) + 1
    BY <1>13, FS_AddElement
  <2>1. /\ IsFiniteSet(Lost \cup {p})
        /\ Cardinality(Lost \cup {p}) <= Cardinality(Lost) + 1
        /\ Cardinality(Lost \cup {p}) \in Nat
    BY <1>13, <2>0
  <2>2. IsFiniteSet(Lost') /\ Cardinality(Lost') <= Cardinality(Lost \cup {p})
        /\ Cardinality(Lost') \in Nat
    BY <1>10, <2>1, FS_Subset, FS_CardinalityType
  <2>3. Lost' \subseteq Lost => Cardinality(Lost') <= Cardinality(Lost)
    BY <1>13, FS_Subset
  <2> QED BY <1>10, <1>12, <1>13, <2>1, <2>2, <2>3
<1>15. /\ Cardinality(Begun') \in Nat /\ Cardinality(Begun') <= Cardinality(Begun) + 1
       /\ n # 1 => Cardinality(Begun') <= Cardinality(Begun)
  <2>0. /\ IsFiniteSet(Begun \cup {p})
        /\ Cardinality(Begun \cup {p}) =
              IF p \in Begun THEN Cardinality(Begun) ELSE Cardinality(Begun) + 1
    BY <1>13, FS_AddElement
  <2>1. /\ IsFiniteSet(Begun \cup {p})
        /\ Cardinality(Begun \cup {p}) <= Cardinality(Begun) + 1
        /\ Cardinality(Begun \cup {p}) \in Nat
    BY <1>13, <2>0
  <2>2. IsFiniteSet(Begun') /\ Cardinality(Begun') <= Cardinality(Begun \cup {p})
        /\ Cardinality(Begun') \in Nat
    BY <1>11, <2>1, FS_Subset, FS_CardinalityType
  <2>3. Begun' \subseteq Begun => Cardinality(Begun') <= Cardinality(Begun)
    BY <1>13, FS_Subset
  <2> QED BY <1>11, <1>13, <2>1, <2>2, <2>3
<1>16. IsAnchor(LineOf(s, n)) <=> n = 1
  BY <1>4, AnchorLines
<1>17. /\ Cardinality(Anchors(file)) \in Nat
       /\ terminated => Cardinality(Anchors(file')) =
             Cardinality(Anchors(file)) + (IF IsAnchor(LineOf(s, n)) THEN 1 ELSE 0)
       /\ ~terminated => Cardinality(Anchors(file')) =
             Cardinality(Anchors(file)) - (IF IsAnchor(file[Len(file)]) THEN 1 ELSE 0)
  BY <1>5, AnchorsWritten
<1>18. Owed' = 0 /\ faults' = faults
  BY <1>1 DEF Owed
<1>19. Cardinality(Lost) + Cardinality(Begun) + Owed <= Cardinality(Anchors(file)) + faults
  BY DEF Budget
<1>20. Cardinality(Lost') + Cardinality(Begun') + Owed'
          <= Cardinality(Anchors(file')) + faults'
  <2>0. Owed = IF terminated THEN 0 ELSE IF IsAnchor(file[Len(file)]) THEN 2 ELSE 1
    BY DEF Owed
  <2>1. CASE terminated /\ n = 1
    BY <1>2, <1>13, <1>14, <1>15, <1>16, <1>17, <1>18, <1>19, <2>0, <2>1
  <2>2. CASE terminated /\ n # 1
    BY <1>2, <1>13, <1>14, <1>15, <1>16, <1>17, <1>18, <1>19, <2>0, <2>2
  <2>3. CASE ~terminated /\ n = 1
    BY <1>2, <1>13, <1>14, <1>15, <1>17, <1>18, <1>19, <2>0, <2>3
  <2>4. CASE ~terminated /\ n # 1
    BY <1>2, <1>13, <1>14, <1>15, <1>17, <1>18, <1>19, <2>0, <2>4
  <2> QED BY <2>1, <2>2, <2>3, <2>4
<1> QED BY <1>8, <1>20 DEF Budget

\* A fault costs one, now or with the next write.
LEMMA BudgetTorn ==
    ASSUME FileInv, Budget, NEW s \in Sessions, InFlight(s), TornWrite(s),
           UNCHANGED <<script, written>>, faults' = faults + 1
    PROVE  Budget'
<1>1. /\ file \in Seq(Lines) /\ terminated \in BOOLEAN
      /\ ~terminated => file # <<>>
      /\ faults \in Nat
  BY DEF FileInv, JournalsOK, TornTail
<1>2. /\ written[s] + 1 \in 1 .. Len(script[s])
      /\ \/ UNCHANGED <<file, terminated>>
         \/ \E line \in {Garbled, LineOf(s, written[s] + 1)} :
               line \in Lines /\ file' = Written(line) /\ terminated' = FALSE
  BY <1>1, TornWriteFacts DEF FileInv
<1>3. Resolved' = Resolved /\ Begun' = Begun
  BY DEF Resolved, Begun
<1>4. \A t \in Sessions : \A m : LineOf(t, m)' = LineOf(t, m)
  BY DEF LineOf
<1>5. /\ IsFiniteSet(Lost) /\ Cardinality(Lost) \in Nat
      /\ IsFiniteSet(Begun) /\ Cardinality(Begun) \in Nat
      /\ IsFiniteSet(Resolved)
      /\ Cardinality(Lost) + Cardinality(Begun) + Owed
             <= Cardinality(Anchors(file)) + faults
  BY BudgetTypes DEF Budget
<1>6. CASE UNCHANGED <<file, terminated>>
  <2>1. Lost' = Lost
    <3>1. \A r \in Resolved : InFile(LineOf(r[1], r[2]))' <=> InFile(LineOf(r[1], r[2]))
      BY <1>6 DEF InFile, LineOf
    <3> QED BY <1>3, <3>1 DEF Lost
  <2>2. Owed' = Owed /\ Anchors(file)' = Anchors(file) /\ Owed \in Nat
        /\ Cardinality(Anchors(file)) \in Nat
    BY <1>6, OfIsFinite, FS_CardinalityType DEF Owed, Anchors
  <2> QED BY <1>1, <1>3, <1>5, <2>1, <2>2 DEF Budget
<1>7. ASSUME NEW line \in {Garbled, LineOf(s, written[s] + 1)},
             line \in Lines, file' = Written(line), terminated' = FALSE
      PROVE  Budget'
  <2>1. Lost' \subseteq Lost
    <3> SUFFICES ASSUME NEW r \in Lost' PROVE r \in Lost
      OBVIOUS
    <3>1. r \in Resolved /\ r[2] > 1 /\ ~InFile(LineOf(r[1], r[2]))'
      BY <1>3 DEF Lost
    <3>2. PICK t \in Sessions : \E m \in 1 .. written[t] : r = <<t, m>>
      BY <3>1, ResolvedPairs
    <3>3. PICK m \in 1 .. written[t] : r = <<t, m>>
      BY <3>2
    <3>4. r[1] = t /\ r[2] = m
      BY <3>3
    <3>5. ~InFile(LineOf(t, m))
      <4>1. ~InFile(LineOf(t, m))'
        BY <3>1, <3>4
      <4>2. m > 1
        BY <3>1, <3>4
      <4> QED BY <1>7, <4>1, <4>2, WriteSparesResolved
    <3> QED BY <3>1, <3>4, <3>5 DEF Lost
  <2>2. Cardinality(Lost') \in Nat /\ Cardinality(Lost') <= Cardinality(Lost)
    BY <1>5, <2>1, FS_Subset, FS_CardinalityType
  <2>3. ~IsAnchor(Garbled)
    BY DEF IsAnchor
  <2>4. /\ Cardinality(Anchors(file)) \in Nat
        /\ terminated => Cardinality(Anchors(file')) =
              Cardinality(Anchors(file)) + (IF IsAnchor(line) THEN 1 ELSE 0)
        /\ ~terminated => Cardinality(Anchors(file')) =
              Cardinality(Anchors(file)) - (IF IsAnchor(file[Len(file)]) THEN 1 ELSE 0)
    BY <1>7, AnchorsWritten
  <2>5. /\ terminated => file'[Len(file')] = line
        /\ ~terminated => file'[Len(file')] = Garbled
    BY <1>1, <1>7, WrittenFacts
  <2>6. /\ Owed' = IF IsAnchor(file'[Len(file')]) THEN 2 ELSE 1
        /\ Owed = IF terminated THEN 0 ELSE IF IsAnchor(file[Len(file)]) THEN 2 ELSE 1
    BY <1>7 DEF Owed, IsAnchor
  <2>7. Cardinality(Lost') + Cardinality(Begun') + Owed'
           <= Cardinality(Anchors(file')) + faults'
    <3>1. CASE terminated
      BY <1>1, <1>3, <1>5, <2>2, <2>4, <2>5, <2>6, <3>1
    <3>2. CASE ~terminated
      BY <1>1, <1>3, <1>5, <2>2, <2>3, <2>4, <2>5, <2>6, <3>2
    <3> QED BY <3>1, <3>2
  <2> QED BY <1>3, <1>5, <2>7 DEF Budget
<1> QED BY <1>2, <1>6, <1>7

LEMMA BudgetStep == FileInv /\ Budget /\ JournalStep => Budget'
<1> SUFFICES ASSUME FileInv, Budget, JournalStep PROVE Budget'
  OBVIOUS
<1>0. /\ IsFiniteSet(Resolved)
      /\ Cardinality(Lost) + Cardinality(Begun) + Owed <= Cardinality(Anchors(file)) + faults
      /\ faults \in Nat
      /\ Cardinality(Lost) \in Nat /\ Cardinality(Begun) \in Nat
      /\ Cardinality(Anchors(file)) \in Nat /\ Owed \in Nat
  BY BudgetTypes, OfIsFinite, FS_CardinalityType DEF Budget, FileInv, JournalsOK, Anchors, Owed
<1>1. ASSUME NEW s \in Sessions, NEW events \in Scripts,
             Begin(s, events), UNCHANGED <<result, faults>>
      PROVE  Budget'
  <2>1. script[s] = <<>> /\ UNCHANGED <<written, file, terminated>>
    BY <1>1 DEF Begin
  <2>2. Len(script[s]) = 0
    BY <2>1
  <2>3. written[s] = 0
    BY <2>2 DEF FileInv, JournalsOK
  <2>4. Resolved' = Resolved /\ Begun' = Begun /\ Anchors(file)' = Anchors(file) /\ Owed' = Owed
    BY <2>1 DEF Resolved, Begun, Owed
  <2>5. \A r \in Resolved : InFile(LineOf(r[1], r[2]))' <=> InFile(LineOf(r[1], r[2]))
    <3> SUFFICES ASSUME NEW r \in Resolved
                 PROVE  InFile(LineOf(r[1], r[2]))' <=> InFile(LineOf(r[1], r[2]))
      OBVIOUS
    <3>1. PICK t \in Sessions : \E m \in 1 .. written[t] : r = <<t, m>>
      BY ResolvedPairs
    <3>2. PICK m \in 1 .. written[t] : r = <<t, m>>
      BY <3>1
    <3>3. t # s
      BY <2>3, <3>2
    <3>4. LineOf(t, m)' = LineOf(t, m)
      BY <1>1, <3>3, JournalsStart
    <3>5. InFile(LineOf(t, m))' <=> InFile(LineOf(t, m))
      BY <2>1, <3>4 DEF InFile
    <3> QED BY <3>2, <3>5
  <2>6. Lost' = Lost
    BY <2>4, <2>5 DEF Lost
  <2> QED BY <1>0, <1>1, <2>4, <2>6 DEF Budget
<1>2. ASSUME NEW s \in Sessions, AppendLine(s), UNCHANGED <<result, faults>>
      PROVE  Budget'
  BY <1>2, BudgetWrite
<1>3. ASSUME NEW s \in Sessions, Rejects(s)
      PROVE  Budget'
  BY <1>3, BudgetTorn DEF Rejects, AppendRejects
<1>4. ASSUME UNCHANGED <<script, written, file, terminated>>, faults' \in {faults, faults + 1}
      PROVE  Budget'
  <2>1. Resolved' = Resolved /\ Begun' = Begun /\ Lost' = Lost /\ Owed' = Owed
        /\ Anchors(file)' = Anchors(file)
    BY <1>4 DEF Resolved, Begun, Lost, Owed, InFile, LineOf
  <2> QED BY <1>0, <1>4, <2>1 DEF Budget
<1>5. ASSUME ProcessDies, faults' = faults + 1
      PROVE  Budget'
  <2>1. UNCHANGED <<script, told, written>>
    BY <1>5 DEF ProcessDies
  <2>2. CASE UNCHANGED <<file, terminated>>
    BY <1>4, <1>5, <2>1, <2>2
  <2>3. ASSUME NEW s \in Sessions, InFlight(s), TornWrite(s) PROVE Budget'
    BY <1>5, <2>1, <2>3, BudgetTorn
  <2> QED BY <1>5, <2>2, <2>3 DEF ProcessDies
<1>6. ASSUME NEW s \in Sessions, (Tell(s) /\ UNCHANGED faults) \/ Resolves(s)
      PROVE  Budget'
  BY <1>4, <1>6 DEF Tell, Resolves, journalVars
<1>7. ASSUME Ends \/ UNCHANGED <<journalVars, result, faults>>
      PROVE  Budget'
  BY <1>4, <1>7 DEF Ends, journalVars
<1> QED
  BY <1>1, <1>2, <1>3, <1>5, <1>6, <1>7 DEF JournalStep

LEMMA InitBudget == Init => Budget
<1> SUFFICES ASSUME Init PROVE Budget
  OBVIOUS
<1>1. /\ written = [s \in Sessions |-> 0] /\ file = <<>> /\ terminated /\ faults = 0
  BY DEF Init, JournalInit
<1>2. Resolved = {}
  BY <1>1 DEF Resolved
<1>3. Lost = {} /\ Begun = {} /\ Anchors(file) = {} /\ Owed = 0
  BY <1>1, <1>2 DEF Lost, Begun, Owed, Anchors, Of, Records
<1> QED BY <1>1, <1>2, <1>3, FS_EmptySet DEF Budget

\* However the sessions' writes interleave, every fault costs at most one event
\* whose append had resolved (JsonlJournalPersistence.append: a write that is
\* not ended spoils itself and the next one).
THEOREM SpecDamageBounded == Spec => []DamageBounded
<1>1. Init => FileInv /\ Budget
  BY InitFileInv, InitBudget
<1>2. FileInv /\ Budget /\ [Next]_vars => (FileInv /\ Budget)'
  BY StepIsJournalStep, FileInvStep, BudgetStep
<1>3. FileInv /\ Budget => DamageBounded
  <2> SUFFICES ASSUME FileInv, Budget PROVE DamageBounded
    OBVIOUS
  <2>1. /\ Cardinality(Lost) + Cardinality(Begun) + Owed <= Cardinality(Anchors(file)) + faults
        /\ faults \in Nat /\ Owed \in Nat
        /\ Cardinality(Lost) \in Nat /\ Cardinality(Begun) \in Nat
        /\ Cardinality(Anchors(file)) \in Nat
    BY BudgetTypes, OfIsFinite, FS_CardinalityType DEF Budget, FileInv, JournalsOK, Anchors, Owed
  <2>2. Cardinality(Lost) + Cardinality(Begun) <= Cardinality(Anchors(file)) + faults
    BY <2>1
  <2> QED BY <2>2 DEF DamageBounded, Lost, Begun, Resolved
<1> QED BY <1>1, <1>2, <1>3, PTL DEF Spec
-----------------------------------------------------------------------------
(***************************************************************************)
(* A terminal nothing has gone wrong with.                                 *)
(***************************************************************************)
\* An enumeration of a set in ascending order is the order of the file.
LEMMA InOrderIs ==
    ASSUME NEW S \in SUBSET Nat, NEW m \in Nat, NEW g \in [1 .. m -> S],
           \A i \in S : \E k \in 1 .. m : g[k] = i,
           \A j, k \in 1 .. m : j < k => g[j] < g[k]
    PROVE  IsFiniteSet(S) /\ Cardinality(S) = m /\ InOrder(S) = g
<1>1. ASSUME NEW n \in 0 .. m, NEW T, T = {g[k] : k \in 1 .. n}
      PROVE  IsFiniteSet(T) /\ Cardinality(T) = n
  <2> DEFINE h == [k \in 1 .. n |-> g[k]]
  <2>0. \A k \in 1 .. n : k \in 1 .. m
    OBVIOUS
  <2>1. h \in [1 .. n -> T]
    BY <1>1
  <2>2. \A t \in T : \E k \in 1 .. n : h[k] = t
    BY <1>1
  <2>3. \A j, k \in 1 .. n : h[j] = h[k] => j = k
    <3> SUFFICES ASSUME NEW j \in 1 .. n, NEW k \in 1 .. n, g[j] = g[k], j # k PROVE FALSE
      OBVIOUS
    <3>1. g[j] \in Nat /\ g[k] \in Nat
      BY <2>0
    <3>2. j < k \/ k < j
      OBVIOUS
    <3>3. g[j] < g[k] \/ g[k] < g[j]
      BY <2>0, <3>2
    <3> QED BY <3>1, <3>3
  <2>4. h \in Bijection(1 .. n, T)
    <3> HIDE DEF h
    <3> QED BY <2>1, <2>2, <2>3 DEF Bijection, Injection, Surjection, IsInjective
  <2>5. ExistsBijection(1 .. n, T) /\ n \in Nat
    BY <2>4 DEF ExistsBijection
  <2> QED BY <2>5, FS_NatBijection, FS_CountingElements
<1>2. S = {g[k] : k \in 1 .. m}
  OBVIOUS
<1>3. IsFiniteSet(S) /\ Cardinality(S) = m
  <2>1. m \in 0 .. m
    OBVIOUS
  <2> QED BY <1>1, <1>2, <2>1
<1>4. InOrder(S) \in [1 .. m -> S]
  BY <1>3, InOrderEnumerates
<1>5. ASSUME NEW k \in 1 .. m PROVE InOrder(S)[k] = g[k]
  <2>1. {j \in S : j <= g[k]} = {g[j] : j \in 1 .. k}
    <3>1. ASSUME NEW j \in 1 .. m PROVE g[j] <= g[k] <=> j <= k
      <4>1. g[j] \in Nat /\ g[k] \in Nat
        OBVIOUS
      <4>2. j < k => g[j] < g[k]
        OBVIOUS
      <4>3. k < j => g[k] < g[j]
        OBVIOUS
      <4> QED BY <4>1, <4>2, <4>3
    <3>2. \A j \in 1 .. k : j \in 1 .. m /\ j <= k
      OBVIOUS
    <3>3. \A j \in 1 .. m : j <= k => j \in 1 .. k
      OBVIOUS
    <3> QED BY <1>2, <3>1, <3>2, <3>3
  <2>2. Cardinality({j \in S : j <= g[k]}) = k
    BY <1>1, <2>1
  <2>3. PICK n \in 1 .. m : InOrder(S)[n] = g[k]
    BY <1>3, InOrderEnumerates
  <2>4. Cardinality({j \in S : j <= InOrder(S)[n]}) = n
    BY <1>3, InOrderEnumerates
  <2>5. n = k
    BY <2>2, <2>3, <2>4
  <2> QED BY <2>3, <2>5
<1> QED BY <1>3, <1>4, <1>5

\* The place of every resolved append in the file: each has its own line, which
\* is written as it is, and those of a session come in order.
Places(pos) ==
    /\ pos \in [Resolved -> 1 .. Len(file)]
    /\ \A i \in 1 .. Len(file) : \E r \in Resolved : pos[r] = i
    /\ \A r, q \in Resolved : pos[r] = pos[q] => r = q
    /\ \A r \in Resolved : file[pos[r]] = LineOf(r[1], r[2])
    /\ \A s \in Sessions : \A m, n \in 1 .. written[s] :
          m < n => pos[<<s, m>>] < pos[<<s, n>>]

Untroubled == faults = 0 => terminated /\ \E pos : Places(pos)

\* A resolved append is followed by a line of its own.
LEMMA UntroubledWrite ==
    ASSUME FileInv, terminated, NEW pos, Places(pos), NEW s \in Sessions, AppendLine(s)
    PROVE  terminated' /\ \E p : Places(p)'
<1>1. /\ InFlight(s)
      /\ file' = Append(file, LineOf(s, written[s] + 1))
      /\ written' = [written EXCEPT ![s] = @ + 1]
      /\ terminated' = TRUE
      /\ UNCHANGED <<script, told, broken>>
  BY DEF AppendLine, Written
<1>2. file \in Seq(Lines) /\ written \in [Sessions -> Nat]
  BY DEF FileInv, JournalsOK
<1>3. PICK n \in Nat, len \in Nat : n = written[s] + 1 /\ len = Len(file)
  BY <1>2
<1>4. LineOf(s, n) \in Lines
  <2>1. n \in 1 .. Len(script[s])
    BY <1>1, <1>2, <1>3, ScriptLen DEF FileInv, JournalsOK, InFlight
  <2> QED BY <2>1, LineType DEF FileInv, JournalsOK
<1>5. /\ Len(file') = len + 1
      /\ file'[len + 1] = LineOf(s, n)
      /\ \A i \in 1 .. len : file'[i] = file[i]
  BY <1>1, <1>2, <1>3, <1>4
<1>6. \A t \in Sessions : \A m : LineOf(t, m)' = LineOf(t, m)
  BY <1>1 DEF LineOf
<1>7. written'[s] = n /\ \A t \in Sessions : t # s => written'[t] = written[t]
  BY <1>1, <1>2, <1>3
<1>8. \A t \in Sessions : \A m : <<t, m>> \in Resolved' <=>
         <<t, m>> \in Resolved \/ (t = s /\ m = n)
  <2>1. \A m : m \in 1 .. n <=> m \in 1 .. written[s] \/ m = n
    BY <1>2, <1>3
  <2>2. \A t \in Sessions : \A m : <<t, m>> \in Resolved' <=> m \in 1 .. written'[t]
    BY DEF Resolved
  <2>3. \A t \in Sessions : \A m : <<t, m>> \in Resolved <=> m \in 1 .. written[t]
    BY ResolvedPairs
  <2> QED BY <1>7, <2>1, <2>2, <2>3
<1>9. \A r : r \in Resolved' <=> r \in Resolved \/ r = <<s, n>>
  <2>1. \A r : r \in Resolved' => \E t \in Sessions : \E m : r = <<t, m>>
    BY DEF Resolved
  <2>2. \A r : r \in Resolved => \E t \in Sessions : \E m : r = <<t, m>>
    BY ResolvedPairs
  <2> QED BY <1>8, <2>1, <2>2
<1>10. <<s, n>> \notin Resolved
  BY <1>2, <1>3, ResolvedPairs
<1>11. PICK p : p = [r \in Resolved \cup {<<s, n>>} |->
                        IF r = <<s, n>> THEN len + 1 ELSE pos[r]]
  OBVIOUS
<1>12. /\ p[<<s, n>>] = len + 1
       /\ \A r \in Resolved : p[r] = pos[r] /\ pos[r] \in 1 .. len
  BY <1>3, <1>10, <1>11 DEF Places
<1>13. \A i : i \in 1 .. len + 1 <=> i \in 1 .. len \/ i = len + 1
  BY <1>3
<1>14. len + 1 \notin 1 .. len
  BY <1>3
<1>15. Resolved' = Resolved \cup {<<s, n>>}
  BY <1>9
<1>16. p \in [Resolved' -> 1 .. Len(file')]
  BY <1>5, <1>11, <1>12, <1>13, <1>15
<1>17. \A i \in 1 .. Len(file') : \E r \in Resolved' : p[r] = i
  BY <1>3, <1>5, <1>9, <1>12, <1>13 DEF Places
<1>18. \A r, q \in Resolved' : p[r] = p[q] => r = q
  BY <1>9, <1>12, <1>14 DEF Places
<1>19. \A r \in Resolved' : file'[p[r]] = LineOf(r[1], r[2])'
  <2>1. ASSUME NEW r \in Resolved PROVE file'[p[r]] = LineOf(r[1], r[2])'
    <3>1. PICK t \in Sessions : \E m \in 1 .. written[t] : r = <<t, m>>
      BY ResolvedPairs
    <3>2. PICK m \in 1 .. written[t] : r = <<t, m>>
      BY <3>1
    <3>3. file[pos[r]] = LineOf(r[1], r[2])
      BY DEF Places
    <3>4. file'[p[r]] = LineOf(t, m)
      BY <1>5, <1>12, <3>2, <3>3
    <3>5. LineOf(t, m)' = LineOf(t, m)
      BY <1>6
    <3> QED BY <3>2, <3>4, <3>5
  <2>2. file'[p[<<s, n>>]] = LineOf(s, n)'
    BY <1>5, <1>6, <1>12
  <2> QED BY <1>9, <2>1, <2>2
<1>20. ASSUME NEW t \in Sessions, NEW k \in 1 .. written'[t], NEW m \in 1 .. written'[t], k < m
       PROVE  p[<<t, k>>] < p[<<t, m>>]
  <2>1. written'[t] \in Nat /\ written[t] \in Nat
    BY <1>2, <1>3, <1>7
  <2>2. CASE m \in 1 .. written[t]
    <3>1. k \in 1 .. written[t]
      BY <1>2, <2>1, <2>2, <1>20
    <3>2. <<t, k>> \in Resolved /\ <<t, m>> \in Resolved
      BY <2>2, <3>1, ResolvedPairs
    <3> QED BY <1>12, <1>20, <2>2, <3>1, <3>2 DEF Places
  <2>3. CASE m \notin 1 .. written[t]
    <3>1. t = s /\ m = n /\ k \in 1 .. written[t]
      BY <1>2, <1>3, <1>7, <1>20, <2>1, <2>3
    <3>2. <<t, k>> \in Resolved
      BY <3>1, ResolvedPairs
    <3>3. p[<<t, k>>] \in 1 .. len
      BY <1>12, <3>2
    <3> QED BY <1>3, <1>12, <3>1, <3>3
  <2> QED BY <2>2, <2>3
<1>21. Places(p)'
  BY <1>16, <1>17, <1>18, <1>19, <1>20 DEF Places
<1> QED BY <1>1, <1>21

LEMMA UntroubledStep == FileInv /\ Untroubled /\ JournalStep => Untroubled'
<1> SUFFICES ASSUME FileInv, Untroubled, JournalStep, faults' = 0
             PROVE  terminated' /\ \E p : Places(p)'
  BY DEF Untroubled
<1>1. CASE faults' = faults + 1
  BY <1>1 DEF FileInv, JournalsOK
<1>2. CASE UNCHANGED faults
  <2>1. PICK pos : terminated /\ Places(pos)
    BY <1>2 DEF Untroubled
  <2>2. ASSUME NEW s \in Sessions, AppendLine(s)
        PROVE  terminated' /\ \E p : Places(p)'
    BY <2>1, <2>2, UntroubledWrite
  <2>3. ASSUME NEW s \in Sessions, NEW events \in Scripts,
               Begin(s, events), UNCHANGED <<result, faults>>
        PROVE  terminated' /\ \E p : Places(p)'
    <3>1. script[s] = <<>> /\ UNCHANGED <<written, file, terminated>>
      BY <2>3 DEF Begin
    <3>2. Len(script[s]) = 0
      BY <3>1
    <3>3. written[s] = 0
      BY <3>2 DEF FileInv, JournalsOK
    <3>4. \A r \in Resolved : LineOf(r[1], r[2])' = LineOf(r[1], r[2])
      <4> SUFFICES ASSUME NEW r \in Resolved
                   PROVE  LineOf(r[1], r[2])' = LineOf(r[1], r[2])
        OBVIOUS
      <4>1. PICK t \in Sessions : \E m \in 1 .. written[t] : r = <<t, m>>
        BY ResolvedPairs
      <4>2. PICK m \in 1 .. written[t] : r = <<t, m>>
        BY <4>1
      <4>3. t # s
        BY <3>3, <4>2
      <4>4. LineOf(t, m)' = LineOf(t, m)
        BY <2>3, <4>3, JournalsStart
      <4> QED BY <4>2, <4>4
    <3>5. Resolved' = Resolved
      BY <3>1 DEF Resolved
    <3>6. Places(pos)'
      BY <2>1, <3>1, <3>4, <3>5 DEF Places
    <3> QED BY <2>1, <3>1, <3>6
  <2>4. ASSUME UNCHANGED <<script, written, file, terminated>>
        PROVE  terminated' /\ \E p : Places(p)'
    <3>1. Places(pos)'
      BY <2>1, <2>4 DEF Places, Resolved, LineOf
    <3> QED BY <2>1, <2>4, <3>1
  <2>5. ASSUME NEW s \in Sessions, Tell(s) \/ Resolves(s)
        PROVE  UNCHANGED <<script, written, file, terminated>>
    BY <2>5 DEF Tell, Resolves, journalVars
  <2>6. ASSUME Ends \/ UNCHANGED <<journalVars, result, faults>>
        PROVE  UNCHANGED <<script, written, file, terminated>>
    BY <2>6 DEF Ends, journalVars
  <2>7. ASSUME NEW s \in Sessions PROVE ~Rejects(s)
    BY <1>2 DEF Rejects, FileInv, JournalsOK
  <2>8. faults' # faults + 1
    BY <1>2 DEF FileInv, JournalsOK
  <2> QED BY <2>2, <2>3, <2>4, <2>5, <2>6, <2>7, <2>8 DEF JournalStep
<1>3. faults' = faults + 1 \/ UNCHANGED faults
  BY DEF JournalStep, Rejects, Resolves, Ends
<1> QED BY <1>1, <1>2, <1>3

LEMMA InitUntroubled == Init => Untroubled
<1> SUFFICES ASSUME Init PROVE terminated /\ \E pos : Places(pos)
  BY DEF Untroubled
<1>1. written = [s \in Sessions |-> 0] /\ file = <<>> /\ terminated
  BY DEF Init, JournalInit
<1>2. Resolved = {}
  BY <1>1 DEF Resolved
<1>3. PICK pos : pos = [r \in {} |-> 1]
  OBVIOUS
<1>4. Len(file) = 0 /\ 1 .. Len(file) = {}
  BY <1>1
<1>5. \A s \in Sessions : 1 .. written[s] = {}
  BY <1>1
<1>6. Places(pos)
  BY <1>2, <1>3, <1>4, <1>5 DEF Places
<1> QED BY <1>1, <1>6

\* A journal that is accepted alone: what replay finds in it and up to each event.
LEMMA ScriptFacts ==
    ASSUME NEW events \in Scripts
    PROVE  /\ Len(events) \in Nat /\ Len(events) >= 2
           /\ events \in Seq(Entries(events))
           /\ \A n \in 1 .. Len(events) : ~Malformed(events[n])
           /\ \A n \in 1 .. Len(events) : ReplayScoped(SubSeq(events, 2, n)).errors = {}
           /\ CompletenessErrors(ReplayScoped(Tail(events)), Tail(events)) = {}
           /\ events[1].type = "runtime.started"
           /\ events[2].type = "flow.loaded"
<1>1. /\ Len(events) \in Nat /\ Len(events) >= 2
      /\ events \in Seq(Entries(events))
      /\ events[1].type = "runtime.started"
  BY JournalAssumption
<1>2. ReplayErrors(events) = {}
  BY ScriptsAssumption DEF ReplayValid
<1>3. /\ CompletenessErrors(ReplayScoped(Tail(events)), Tail(events)) = {}
      /\ {"INVALID_PAYLOAD_FIELD" : e \in {e \in Entries(events) : Malformed(e)}} = {}
  BY <1>2 DEF ReplayErrors, Replay
<1>4. ASSUME NEW n \in 1 .. Len(events) PROVE ~Malformed(events[n])
  <2>1. events[n] \in Entries(events)
    BY <1>1 DEF Entries
  <2>2. SUFFICES ASSUME Malformed(events[n]) PROVE FALSE
    OBVIOUS
  <2>3. "INVALID_PAYLOAD_FIELD" \in
           {"INVALID_PAYLOAD_FIELD" : e \in {e \in Entries(events) : Malformed(e)}}
    BY <2>1, <2>2
  <2> QED BY <1>3, <2>3
<1>5. Head(Tail(events)).type = "flow.loaded"
  BY <1>3 DEF CompletenessErrors
<1>6. Head(Tail(events)) = events[2]
  BY <1>1
<1> QED BY <1>1, <1>3, <1>4, <1>5, <1>6, ScriptsAssumption

\* Every line of the file is a resolved append.
LEMMA PlacedLines ==
    ASSUME FileInv, NEW pos, Places(pos)
    PROVE  /\ \A s \in Sessions : written[s] \in Nat /\ Len(script[s]) \in Nat
                                  /\ written[s] <= Len(script[s])
           /\ \A s \in Sessions : \A n \in 1 .. written[s] :
                 /\ pos[<<s, n>>] \in 1 .. Len(file)
                 /\ script[s] \in Scripts /\ n \in 1 .. Len(script[s])
                 /\ file[pos[<<s, n>>]].seq = n
                 /\ file[pos[<<s, n>>]].event = script[s][n]
                 /\ file[pos[<<s, n>>]].session = (IF n = 1 THEN NoSession ELSE s)
                 /\ file[pos[<<s, n>>]] # Garbled
                 /\ ~Malformed(file[pos[<<s, n>>]].event)
           /\ \A i \in 1 .. Len(file) : \E s \in Sessions : \E n \in 1 .. written[s] :
                 i = pos[<<s, n>>]
           /\ \A s, t \in Sessions : \A n \in 1 .. written[s], m \in 1 .. written[t] :
                 pos[<<s, n>>] = pos[<<t, m>>] => s = t /\ n = m
           /\ DOMAIN file = 1 .. Len(file) /\ Len(file) \in Nat
           /\ Records(file) = 1 .. Len(file)
<1>1. ASSUME NEW s \in Sessions
      PROVE  /\ written[s] \in Nat /\ Len(script[s]) \in Nat /\ written[s] <= Len(script[s])
             /\ script[s] # <<>> => script[s] \in Scripts
  <2>1. /\ written[s] \in Nat /\ told[s] \in Nat
        /\ written[s] <= told[s] /\ told[s] <= Len(script[s])
    BY DEF FileInv, JournalsOK
  <2> QED BY <2>1, ScriptLen DEF FileInv
<1>2. ASSUME NEW s \in Sessions, NEW n \in 1 .. written[s]
      PROVE  /\ pos[<<s, n>>] \in 1 .. Len(file)
             /\ script[s] \in Scripts /\ n \in 1 .. Len(script[s])
             /\ file[pos[<<s, n>>]].seq = n
             /\ file[pos[<<s, n>>]].event = script[s][n]
             /\ file[pos[<<s, n>>]].session = (IF n = 1 THEN NoSession ELSE s)
             /\ file[pos[<<s, n>>]] # Garbled
             /\ ~Malformed(file[pos[<<s, n>>]].event)
  <2>1. n \in 1 .. Len(script[s]) /\ n \in Nat \ {0}
    BY <1>1
  <2>2. script[s] \in Scripts
    BY <2>1, LineType DEF FileInv, JournalsOK
  <2>3. <<s, n>> \in Resolved
    BY ResolvedPairs
  <2>4. file[pos[<<s, n>>]] = LineOf(s, n) /\ pos[<<s, n>>] \in 1 .. Len(file)
    BY <2>3 DEF Places
  <2>5. ~Malformed(script[s][n])
    BY <2>1, <2>2, ScriptFacts
  <2>6. /\ LineOf(s, n).seq = n
        /\ LineOf(s, n).event = script[s][n]
        /\ LineOf(s, n).session = (IF n = 1 THEN NoSession ELSE s)
        /\ LineOf(s, n) # Garbled
    BY <2>1, LineFacts
  <2> QED BY <2>1, <2>2, <2>4, <2>5, <2>6
<1>3. ASSUME NEW i \in 1 .. Len(file)
      PROVE  \E s \in Sessions : \E n \in 1 .. written[s] : i = pos[<<s, n>>]
  <2>1. PICK r \in Resolved : pos[r] = i
    BY DEF Places
  <2>2. \E s \in Sessions : \E n \in 1 .. written[s] : r = <<s, n>>
    BY ResolvedPairs
  <2> QED BY <2>1, <2>2
<1>4. ASSUME NEW s \in Sessions, NEW t \in Sessions,
             NEW n \in 1 .. written[s], NEW m \in 1 .. written[t],
             pos[<<s, n>>] = pos[<<t, m>>]
      PROVE  s = t /\ n = m
  <2>1. <<s, n>> \in Resolved /\ <<t, m>> \in Resolved
    BY ResolvedPairs
  <2>2. <<s, n>> = <<t, m>>
    BY <1>4, <2>1 DEF Places
  <2> QED BY <2>2
<1>5. DOMAIN file = 1 .. Len(file) /\ Len(file) \in Nat
  BY DEF FileInv, JournalsOK
<1>6. Records(file) = 1 .. Len(file)
  <2>1. ASSUME NEW i \in 1 .. Len(file)
        PROVE  file[i] # Garbled /\ ~Malformed(file[i].event)
    <3>1. PICK s \in Sessions : \E n \in 1 .. written[s] : i = pos[<<s, n>>]
      BY <1>3
    <3>2. PICK n \in 1 .. written[s] : i = pos[<<s, n>>]
      BY <3>1
    <3>3. file[pos[<<s, n>>]] # Garbled /\ ~Malformed(file[pos[<<s, n>>]].event)
      BY <1>2
    <3> QED BY <3>2, <3>3
  <2> QED BY <1>5, <2>1 DEF Records
<1> QED BY <1>1, <1>2, <1>3, <1>4, <1>5, <1>6

\* Whose lines they are.
LEMMA PlacedRecords ==
    ASSUME FileInv, NEW pos, Places(pos)
    PROVE  /\ \A s \in Sessions : \A i : i \in Of(file, s) <=>
                 \E n \in 2 .. written[s] : i = pos[<<s, n>>]
           /\ \A i : i \in Anchors(file) <=>
                 \E s \in Sessions : written[s] >= 1 /\ i = pos[<<s, 1>>]
           /\ SessionsIn(file) = {s \in Sessions : written[s] >= 2}
<1>0. \A s \in Sessions : s # NoSession
  BY JournalAssumption
<1>1. \A s \in Sessions : written[s] \in Nat
  BY PlacedLines
<1>2. ASSUME NEW s \in Sessions, NEW n \in 1 .. written[s]
      PROVE  /\ pos[<<s, n>>] \in Records(file)
             /\ n = 1 => file[pos[<<s, n>>]].session = NoSession
             /\ n # 1 => file[pos[<<s, n>>]].session = s
  <2>1. /\ pos[<<s, n>>] \in 1 .. Len(file)
        /\ file[pos[<<s, n>>]].session = (IF n = 1 THEN NoSession ELSE s)
    BY PlacedLines
  <2>2. Records(file) = 1 .. Len(file)
    BY PlacedLines
  <2> QED BY <2>1, <2>2
<1>3. ASSUME NEW i \in Records(file)
      PROVE  \E s \in Sessions : \E n \in 1 .. written[s] : i = pos[<<s, n>>]
  <2>1. Records(file) = 1 .. Len(file)
    BY PlacedLines
  <2>2. i \in 1 .. Len(file)
    BY <2>1
  <2> QED BY <2>2, PlacedLines
<1>4. \A s \in Sessions : \A n : n \in 2 .. written[s] <=> n \in 1 .. written[s] /\ n # 1
  BY <1>1
<1>5. \A s \in Sessions : 1 \in 1 .. written[s] <=> written[s] >= 1
  BY <1>1
<1>6. ASSUME NEW s \in Sessions, NEW i
      PROVE  i \in Of(file, s) <=> \E n \in 2 .. written[s] : i = pos[<<s, n>>]
  <2>1. ASSUME i \in Of(file, s)
        PROVE  \E n \in 2 .. written[s] : i = pos[<<s, n>>]
    <3>1. i \in Records(file) /\ file[i].session = s
      BY <2>1 DEF Of
    <3>2. PICK t \in Sessions : \E n \in 1 .. written[t] : i = pos[<<t, n>>]
      BY <1>3, <3>1
    <3>3. PICK n \in 1 .. written[t] : i = pos[<<t, n>>]
      BY <3>2
    <3>4. n # 1 /\ t = s
      BY <1>0, <1>2, <3>1, <3>3
    <3> QED BY <1>4, <3>3, <3>4
  <2>2. ASSUME NEW n \in 2 .. written[s], i = pos[<<s, n>>]
        PROVE  i \in Of(file, s)
    <3>1. n \in 1 .. written[s] /\ n # 1
      BY <1>4
    <3> QED BY <1>2, <2>2, <3>1 DEF Of
  <2> QED BY <2>1, <2>2
<1>7. ASSUME NEW i
      PROVE  i \in Anchors(file) <=>
                \E s \in Sessions : written[s] >= 1 /\ i = pos[<<s, 1>>]
  <2>1. ASSUME i \in Anchors(file)
        PROVE  \E s \in Sessions : written[s] >= 1 /\ i = pos[<<s, 1>>]
    <3>1. i \in Records(file) /\ file[i].session = NoSession
      BY <2>1 DEF Of, Anchors
    <3>2. PICK t \in Sessions : \E n \in 1 .. written[t] : i = pos[<<t, n>>]
      BY <1>3, <3>1
    <3>3. PICK n \in 1 .. written[t] : i = pos[<<t, n>>]
      BY <3>2
    <3>4. n = 1
      BY <1>0, <1>2, <3>1, <3>3
    <3> QED BY <1>5, <3>3, <3>4
  <2>2. ASSUME NEW s \in Sessions, written[s] >= 1, i = pos[<<s, 1>>]
        PROVE  i \in Anchors(file)
    BY <1>2, <1>5, <2>2 DEF Of, Anchors
  <2> QED BY <2>1, <2>2
<1>8. ASSUME NEW s
      PROVE  s \in SessionsIn(file) <=> s \in Sessions /\ written[s] >= 2
  <2>1. s \in Sessions => (written[s] >= 2 <=> 2 \in 2 .. written[s])
    BY <1>1
  <2>2. s \in Sessions /\ written[s] >= 2 => 2 \in 1 .. written[s]
    BY <1>1
  <2>3. ASSUME s \in Sessions, written[s] >= 2 PROVE s \in SessionsIn(file)
    <3>1. pos[<<s, 2>>] \in Records(file) /\ file[pos[<<s, 2>>]].session = s
      BY <1>2, <2>2, <2>3
    <3> QED BY <1>0, <2>3, <3>1 DEF SessionsIn
  <2>4. ASSUME s \in SessionsIn(file) PROVE s \in Sessions /\ written[s] >= 2
    <3>1. PICK i \in Records(file) : file[i].session = s /\ s # NoSession
      BY <2>4 DEF SessionsIn
    <3>2. PICK t \in Sessions : \E n \in 1 .. written[t] : i = pos[<<t, n>>]
      BY <1>3
    <3>3. PICK n \in 1 .. written[t] : i = pos[<<t, n>>]
      BY <3>2
    <3>4. n # 1 /\ s = t
      BY <1>2, <3>1, <3>3
    <3> QED BY <1>1, <3>3, <3>4
  <2> QED BY <2>3, <2>4
<1> QED BY <1>6, <1>7, <1>8

\* A session's lines in the order of the file are its events in their order.
LEMMA PlacedSession ==
    ASSUME FileInv, NEW pos, Places(pos), NEW s \in Sessions, written[s] >= 2
    PROVE  /\ InOrder(Of(file, s)) = [k \in 1 .. written[s] - 1 |-> pos[<<s, k + 1>>]]
           /\ FirstLine(file, s) = pos[<<s, 2>>]
<1> DEFINE S == Of(file, s)
           g == [k \in 1 .. written[s] - 1 |-> pos[<<s, k + 1>>]]
<1>1. PICK w \in Nat : w = written[s] /\ w >= 2
  BY PlacedLines
<1>2. \A i : i \in S <=> \E n \in 2 .. w : i = pos[<<s, n>>]
  <2>1. \A r \in Sessions : \A i : i \in Of(file, r) <=>
           \E n \in 2 .. written[r] : i = pos[<<r, n>>]
    BY PlacedRecords
  <2> QED BY <1>1, <2>1
<1>3. S \in SUBSET Nat
  BY OfIsFinite
<1>4. \A k \in 1 .. w - 1 : k + 1 \in 2 .. w
  BY <1>1
<1>5. g \in [1 .. w - 1 -> S]
  BY <1>1, <1>2, <1>4
<1>6. ASSUME NEW i \in S PROVE \E k \in 1 .. w - 1 : g[k] = i
  <2>1. PICK n \in 2 .. w : i = pos[<<s, n>>]
    BY <1>2
  <2>2. n - 1 \in 1 .. w - 1 /\ (n - 1) + 1 = n
    BY <1>1
  <2> QED BY <1>1, <2>1, <2>2
<1>7. \A m, n \in 2 .. w : m < n => pos[<<s, m>>] < pos[<<s, n>>]
  <2>1. \A m \in 2 .. w : m \in 1 .. w
    BY <1>1
  <2> QED BY <1>1, <2>1 DEF Places
<1>8. \A j, k \in 1 .. w - 1 : j < k => g[j] < g[k]
  <2>1. \A j, k \in 1 .. w - 1 : j < k => j + 1 < k + 1
    BY <1>1
  <2> QED BY <1>1, <1>4, <1>7, <2>1
<1>9. w - 1 \in Nat
  BY <1>1
<1>10. InOrder(S) = g
  <2> HIDE DEF g, S
  <2> QED BY <1>3, <1>5, <1>6, <1>8, <1>9, InOrderIs
<1>11. 2 \in 2 .. w
  BY <1>1
<1>12. pos[<<s, 2>>] \in S /\ \A i \in S : pos[<<s, 2>>] <= i
  <2>1. \A n \in 2 .. w : n = 2 \/ 2 < n
    BY <1>1
  <2>2. pos[<<s, 2>>] \in Nat
    BY <1>2, <1>3, <1>11
  <2>3. ASSUME NEW i \in S PROVE pos[<<s, 2>>] <= i
    <3>1. PICK n \in 2 .. w : i = pos[<<s, n>>]
      BY <1>2
    <3>2. i \in Nat
      BY <1>3
    <3> QED BY <1>7, <1>11, <2>1, <2>2, <3>1, <3>2
  <2> QED BY <1>2, <1>11, <2>3
<1>13. \A x \in S : (\A i \in S : x <= i) => x = pos[<<s, 2>>]
  <2> SUFFICES ASSUME NEW x \in S, \A i \in S : x <= i PROVE x = pos[<<s, 2>>]
    OBVIOUS
  <2>1. x <= pos[<<s, 2>>] /\ pos[<<s, 2>>] <= x /\ x \in Nat /\ pos[<<s, 2>>] \in Nat
    BY <1>3, <1>12
  <2> QED BY <2>1
<1>14. Min(S) = pos[<<s, 2>>]
  BY <1>12, <1>13 DEF Min
<1> QED BY <1>10, <1>14 DEF FirstLine

\* Every session's first line is behind its own anchor, so the k-th of them is
\* behind k anchors.
LEMMA NoneMisplaced ==
    ASSUME FileInv, NEW pos, Places(pos)
    PROVE  Misplaced(file) = {}
<1> DEFINE A      == Anchors(file)
           F      == {FirstLine(file, s) : s \in SessionsIn(file)}
           anchors == InOrder(A)
           firsts  == InOrder(F)
<1>1. /\ A \in SUBSET Nat /\ IsFiniteSet(A)
      /\ A \in SUBSET (1 .. Len(file)) /\ Len(file) \in Nat
  BY OfIsFinite, PlacedLines DEF Anchors
<1>2. ASSUME NEW f \in F
      PROVE  \E s \in Sessions : written[s] >= 2 /\ f = pos[<<s, 2>>]
  BY PlacedRecords, PlacedSession
<1>3. ASSUME NEW s \in Sessions, written[s] >= 2
      PROVE  /\ 1 \in 1 .. written[s] /\ 2 \in 1 .. written[s]
             /\ pos[<<s, 1>>] \in A
             /\ pos[<<s, 1>>] \in 1 .. Len(file) /\ pos[<<s, 2>>] \in 1 .. Len(file)
             /\ pos[<<s, 1>>] < pos[<<s, 2>>]
  <2>1. written[s] \in Nat
    BY PlacedLines
  <2>2. 1 \in 1 .. written[s] /\ 2 \in 1 .. written[s] /\ written[s] >= 1
    BY <1>3, <2>1
  <2>3. pos[<<s, 1>>] < pos[<<s, 2>>]
    BY <2>2 DEF Places
  <2> QED BY <2>2, <2>3, PlacedLines, PlacedRecords
<1>4. F \in SUBSET (1 .. Len(file)) /\ F \in SUBSET Nat
  <2>1. ASSUME NEW f \in F PROVE f \in 1 .. Len(file) /\ f \in Nat
    <3> HIDE DEF F, A
    <3>1. PICK s \in Sessions : written[s] >= 2 /\ f = pos[<<s, 2>>]
      BY <1>2
    <3>2. pos[<<s, 2>>] \in 1 .. Len(file)
      BY <1>3, <3>1
    <3> QED BY <1>1, <3>1, <3>2
  <2> QED BY <2>1
<1>5. IsFiniteSet(1 .. Len(file))
  BY <1>1, FS_Interval
<1>6. IsFiniteSet(F)
  BY <1>4, <1>5, FS_Subset
<1>7. /\ DOMAIN anchors = 1 .. Cardinality(A) /\ DOMAIN firsts = 1 .. Cardinality(F)
      /\ \A k \in 1 .. Cardinality(A) : anchors[k] \in A /\
            Cardinality({j \in A : j <= anchors[k]}) = k
      /\ \A k \in 1 .. Cardinality(F) : firsts[k] \in F /\
            Cardinality({j \in F : j <= firsts[k]}) = k
  <2> HIDE DEF A, F
  <2> QED BY <1>1, <1>4, <1>6, InOrderEnumerates
<1>8. ASSUME NEW k \in Nat, k \in DOMAIN anchors, k \in DOMAIN firsts, anchors[k] >= firsts[k]
      PROVE  FALSE
  <2> DEFINE a == anchors[k]
             f == firsts[k]
             U == {j \in F : j <= f}
             V == {j \in A : j <= a}
  <2>1. /\ a \in A /\ a \in Nat /\ f \in F /\ f \in Nat /\ f <= a
        /\ Cardinality(U) = k /\ Cardinality(V) = k
    BY <1>1, <1>4, <1>7, <1>8
  <2> HIDE DEF a, f, F, A
  <2>2. V \in SUBSET A /\ a \in V
    BY <1>1, <2>1
  <2>3. IsFiniteSet(V) /\ IsFiniteSet(V \ {a})
    BY <1>1, <2>2, FS_Subset, FS_RemoveElement
  <2>4. Cardinality(V \ {a}) = k - 1
    <3> HIDE DEF V
    <3>1. Cardinality(V \ {a}) = Cardinality(V) - 1
      BY <2>2, <2>3, FS_RemoveElement
    <3> QED BY <2>1, <3>1
  <2> DEFINE Own(j) == CHOOSE s \in Sessions : written[s] >= 2 /\ j = pos[<<s, 2>>]
             h == [j \in U |-> pos[<<Own(j), 1>>]]
  <2>5. ASSUME NEW j \in U
        PROVE  /\ Own(j) \in Sessions /\ written[Own(j)] >= 2 /\ j = pos[<<Own(j), 2>>]
               /\ h[j] \in V \ {a}
    <3>1. \E s \in Sessions : written[s] >= 2 /\ j = pos[<<s, 2>>]
      BY <1>2 DEF F
    <3>2. Own(j) \in Sessions /\ written[Own(j)] >= 2 /\ j = pos[<<Own(j), 2>>]
      BY <3>1
    <3> HIDE DEF Own
    <3>3. h[j] = pos[<<Own(j), 1>>]
      OBVIOUS
    <3>4. h[j] \in A /\ h[j] \in Nat /\ h[j] < j
      BY <1>1, <1>3, <3>2, <3>3 DEF A
    <3>5. j \in Nat /\ j <= f
      BY <1>4 DEF F
    <3>6. h[j] < a
      BY <2>1, <3>4, <3>5
    <3>7. h[j] <= a /\ h[j] # a
      BY <2>1, <3>4, <3>6
    <3> QED BY <3>2, <3>4, <3>7
  <2>6. ASSUME NEW i \in U, NEW j \in U, h[i] = h[j] PROVE i = j
    <3>1. /\ Own(i) \in Sessions /\ written[Own(i)] >= 2 /\ i = pos[<<Own(i), 2>>]
          /\ Own(j) \in Sessions /\ written[Own(j)] >= 2 /\ j = pos[<<Own(j), 2>>]
      BY <2>5
    <3> HIDE DEF Own
    <3>2. pos[<<Own(i), 1>>] = pos[<<Own(j), 1>>]
      BY <2>6
    <3>3. 1 \in 1 .. written[Own(i)] /\ 1 \in 1 .. written[Own(j)]
      BY <1>3, <3>1
    <3>4. Own(i) = Own(j)
      BY <3>1, <3>2, <3>3, PlacedLines
    <3> QED BY <3>1, <3>4
  <2> HIDE DEF h, U, V
  <2>7. h \in [U -> V \ {a}]
    <3>1. h = [j \in U |-> h[j]]
      BY DEF h
    <3> QED BY <2>5, <3>1
  <2>8. h \in Injection(U, V \ {a})
    BY <2>6, <2>7 DEF Injection, IsInjective
  <2>9. Cardinality(U) <= Cardinality(V \ {a})
    BY <2>3, <2>8, FS_Injection
  <2> QED BY <2>1, <2>4, <2>9
<1>9. \A k : k \in DOMAIN firsts => k \in Nat
  BY <1>7
<1> HIDE DEF anchors, firsts
<1>10. {k \in DOMAIN anchors \cap DOMAIN firsts : anchors[k] >= firsts[k]} = {}
  BY <1>8, <1>9
<1> QED BY <1>10 DEF Misplaced, anchors, firsts

\* Nothing is the matter with a session whose lines are its events up to some
\* event, but that its end is missing where it has not come to it.
LEMMA SessionAccepted ==
    ASSUME FileInv, NEW pos, Places(pos), NEW s \in Sessions, written[s] >= 2,
           NEW mode, mode = "partial" \/ (mode = "strict" /\ written[s] = Len(script[s]))
    PROVE  SessionValid(file, s, mode)
<1> DEFINE w       == written[s]
           order   == InOrder(Of(file, s))
           records == [k \in DOMAIN order |-> file[order[k]]]
           scoped  == [k \in DOMAIN order |-> records[k].event]
           state   == ReplayScoped(scoped)
           start   == IF /\ Head(scoped).type = "flow.loaded"
                         /\ Head(records).seq # 2
                      THEN {"SESSION_SEQUENCE_START"} ELSE {}
           missing == CompletenessErrors(state, scoped)
                      \cup {"ANCHOR_ORDER_INVALID" : r \in Misplaced(file) \cap {s}}
                      \cup start
<1>1. w \in Nat /\ w >= 2 /\ w <= Len(script[s]) /\ w \in 1 .. w
  BY PlacedLines
<1>2. script[s] \in Scripts
  BY <1>1, PlacedLines
<1>3. /\ script[s] \in Seq(Entries(script[s])) /\ w \in 1 .. Len(script[s])
      /\ script[s][2].type = "flow.loaded"
      /\ ReplayScoped(SubSeq(script[s], 2, w)).errors = {}
      /\ CompletenessErrors(ReplayScoped(Tail(script[s])), Tail(script[s])) = {}
  BY <1>1, <1>2, ScriptFacts
<1>4. order = [k \in 1 .. w - 1 |-> pos[<<s, k + 1>>]]
  BY PlacedSession
<1>5. \A k \in 1 .. w - 1 : k + 1 \in 1 .. w
  BY <1>1
<1>6. DOMAIN order = 1 .. w - 1 /\ \A k \in 1 .. w - 1 : order[k] = pos[<<s, k + 1>>]
  BY <1>4
<1> HIDE DEF order
<1>7. ASSUME NEW k \in 1 .. w - 1
      PROVE  records[k].seq = k + 1 /\ records[k].event = script[s][k + 1]
  <2>1. records[k] = file[pos[<<s, k + 1>>]]
    BY <1>6
  <2> QED BY <1>5, <2>1, PlacedLines
<1>8. scoped = [k \in 1 .. w - 1 |-> script[s][k + 1]]
  BY <1>6, <1>7
<1>9. SubSeq(script[s], 2, w) = [k \in 1 .. w - 1 |-> script[s][k + 1]]
  BY <1>1, <1>3
<1>10. scoped = SubSeq(script[s], 2, w)
  BY <1>8, <1>9
<1>11. state.errors = {}
  BY <1>3, <1>10
<1>12. DOMAIN records = 1 .. w - 1 /\ w - 1 \in Nat
  BY <1>1, <1>6
<1>13. Len(records) = w - 1
  <2>1. records = [k \in 1 .. w - 1 |-> file[order[k]]]
    BY <1>6
  <2> HIDE DEF records
  <2> QED BY <1>1, <2>1
<1> HIDE DEF records
<1>14. Gapless(records)
  <2>1. \A k \in 1 .. (w - 1) - 1 : k \in 1 .. w - 1 /\ k + 1 \in 1 .. w - 1
    BY <1>1
  <2>2. ASSUME NEW k \in 1 .. (w - 1) - 1 PROVE records[k + 1].seq = records[k].seq + 1
    BY <1>1, <1>7, <2>1
  <2> QED BY <1>13, <2>2 DEF Gapless
<1>15. start = {}
  <2>1. 1 \in 1 .. w - 1
    BY <1>1
  <2>2. records[1].seq = 2
    BY <1>7, <2>1
  <2>3. Head(records) = records[1]
    OBVIOUS
  <2> QED BY <2>2, <2>3
<1>16. Misplaced(file) = {}
  BY NoneMisplaced
<1>17. missing = CompletenessErrors(state, scoped)
  BY <1>15, <1>16
<1>18. mode = "strict" => missing = {}
  <2>1. Tail(script[s]) = SubSeq(script[s], 2, Len(script[s]))
    BY <1>1, <1>3
  <2> QED BY <1>3, <1>10, <1>17, <2>1
<1>19. SessionIssues(file, s, mode) =
          {Issue("error", code) : code \in state.errors} \cup
          {Issue(Completeness(mode), code) : code \in missing} \cup
          (IF Gapless(records) THEN {} ELSE {Issue("error", "SEQUENCE_GAP")})
  BY DEF SessionIssues, order, records
<1> HIDE DEF missing, state, scoped
<1>20. SessionIssues(file, s, mode) = {Issue(Completeness(mode), code) : code \in missing}
  BY <1>11, <1>14, <1>19
<1>21. CASE mode = "partial"
  <2>1. Completeness(mode) = "warning"
    BY <1>21 DEF Completeness
  <2>2. \A i \in SessionIssues(file, s, mode) : i.severity = "warning"
    BY <1>20, <2>1 DEF Issue
  <2> QED BY <2>2 DEF SessionValid, Errors
<1>22. CASE mode = "strict"
  BY <1>18, <1>20, <1>22 DEF SessionValid, Errors
<1> QED BY <1>21, <1>22

\* Nothing is the matter with the lines of the file.
LEMMA LinesAccepted ==
    ASSUME FileInv, NEW pos, Places(pos)
    PROVE  /\ \A i \in DOMAIN file : file[i] # Garbled /\ ~Malformed(file[i].event)
           /\ \A i \in Anchors(file) :
                 file[i].event.type = "runtime.started" /\ file[i].seq = 1
<1>1. ASSUME NEW i \in DOMAIN file
      PROVE  file[i] # Garbled /\ ~Malformed(file[i].event)
  <2>1. i \in Records(file)
    BY PlacedLines
  <2> QED BY <2>1 DEF Records
<1>2. ASSUME NEW i \in Anchors(file)
      PROVE  file[i].event.type = "runtime.started" /\ file[i].seq = 1
  <2>1. \A a : a \in Anchors(file) <=>
           \E s \in Sessions : written[s] >= 1 /\ a = pos[<<s, 1>>]
    BY PlacedRecords
  <2>2. PICK s \in Sessions : written[s] >= 1 /\ i = pos[<<s, 1>>]
    BY <2>1
  <2>3. written[s] \in Nat /\ 1 \in 1 .. written[s]
    BY <2>2, PlacedLines
  <2>4. /\ file[i].seq = 1 /\ file[i].event = script[s][1]
        /\ script[s] \in Scripts
    BY <2>2, <2>3, PlacedLines
  <2> QED BY <2>4, ScriptFacts
<1> QED BY <1>1, <1>2

\* Where every session has written all, there are as many anchors as sessions.
LEMMA AnchorPerSession ==
    ASSUME FileInv, NEW pos, Places(pos),
           \A s \in Sessions : script[s] # <<>> => written[s] = Len(script[s])
    PROVE  Cardinality(Anchors(file)) = Cardinality(SessionsIn(file))
<1> DEFINE A == Anchors(file)
           T == SessionsIn(file)
<1>1. T = {s \in Sessions : written[s] >= 2}
  BY PlacedRecords
<1>2. \A i : i \in A <=> \E s \in Sessions : written[s] >= 1 /\ i = pos[<<s, 1>>]
  BY PlacedRecords
<1>3. ASSUME NEW s \in Sessions, written[s] >= 1
      PROVE  s \in T /\ 1 \in 1 .. written[s]
  <2>1. written[s] \in Nat /\ written[s] <= Len(script[s]) /\ Len(script[s]) \in Nat
    BY PlacedLines
  <2>2. 1 \in 1 .. written[s]
    BY <1>3, <2>1
  <2>3. script[s] \in Scripts
    BY <2>2, PlacedLines
  <2>4. Len(script[s]) >= 2
    BY <2>3, ScriptFacts
  <2>5. script[s] # <<>>
    <3>1. SUFFICES ASSUME script[s] = <<>> PROVE FALSE
      OBVIOUS
    <3>2. Len(script[s]) = 0
      BY <3>1
    <3> QED BY <2>4, <3>2
  <2>6. written[s] >= 2
    BY <2>4, <2>5
  <2> QED BY <1>1, <2>2, <2>6
<1>4. ASSUME NEW s \in T
      PROVE  s \in Sessions /\ written[s] >= 1 /\ 1 \in 1 .. written[s] /\ pos[<<s, 1>>] \in A
  <2>1. s \in Sessions /\ written[s] >= 2 /\ written[s] \in Nat
    BY <1>1, PlacedLines
  <2>2. written[s] >= 1 /\ 1 \in 1 .. written[s]
    BY <2>1
  <2> QED BY <1>2, <2>1, <2>2
<1>5. IsFiniteSet(A)
  BY OfIsFinite DEF Anchors
<1> DEFINE h == [s \in T |-> pos[<<s, 1>>]]
<1> HIDE DEF A, T
<1>6. h \in [T -> A]
  BY <1>4
<1>7. \A r, s \in T : h[r] = h[s] => r = s
  <2> SUFFICES ASSUME NEW r \in T, NEW s \in T, pos[<<r, 1>>] = pos[<<s, 1>>] PROVE r = s
    OBVIOUS
  <2> QED BY <1>4, PlacedLines
<1>8. \A a \in A : \E s \in T : h[s] = a
  <2> SUFFICES ASSUME NEW a \in A PROVE \E s \in T : pos[<<s, 1>>] = a
    OBVIOUS
  <2> QED BY <1>2, <1>3
<1> HIDE DEF h
<1>9. h \in Injection(T, A) /\ h \in Surjection(T, A)
  BY <1>6, <1>7, <1>8 DEF Injection, Surjection, IsInjective
<1>10. Cardinality(T) = Cardinality(A)
  BY <1>5, <1>9, FS_Injection
<1> QED BY <1>10 DEF A, T

\* What replay, the strict inspection and the partial one say of the file of a
\* terminal nothing has gone wrong with.
LEMMA UntroubledFile == FileInv /\ Untroubled => NoFalseAlarm
<1> SUFFICES ASSUME FileInv, Untroubled, faults = 0
             PROVE  /\ FileValid(file, "partial")
                    /\ (/\ \E s \in Sessions : result[s] = "flushed"
                        /\ \A s \in Sessions : script[s] # <<>> => result[s] = "flushed")
                       => FileValid(file, "strict")
  BY DEF NoFalseAlarm
<1>1. PICK pos : Places(pos)
  BY DEF Untroubled
<1>2. \A s \in SessionsIn(file) : s \in Sessions /\ written[s] >= 2
  BY <1>1, PlacedRecords
<1>3. /\ \A i \in DOMAIN file : file[i] # Garbled /\ ~Malformed(file[i].event)
      /\ \A i \in Anchors(file) :
            file[i].event.type = "runtime.started" /\ file[i].seq = 1
  BY <1>1, LinesAccepted
<1>4. FileValid(file, "partial")
  <2>1. ASSUME NEW i \in FileIssues(file, "partial") PROVE i.severity # "error"
    BY <1>3 DEF FileIssues, Issue, Completeness
  <2>2. ASSUME NEW s \in SessionsIn(file) PROVE SessionValid(file, s, "partial")
    BY <1>1, <1>2, SessionAccepted
  <2> QED BY <2>1, <2>2 DEF FileValid, Errors
<1>5. ASSUME NEW r \in Sessions, result[r] = "flushed",
             \A s \in Sessions : script[s] # <<>> => result[s] = "flushed"
      PROVE  FileValid(file, "strict")
  <2>1. \A s \in Sessions : script[s] # <<>> => written[s] = Len(script[s])
    BY <1>5 DEF FileInv, JournalsOK
  <2>2. script[r] # <<>> /\ written[r] = Len(script[r])
    BY <1>5 DEF FileInv, JournalsOK
  <2>3. written[r] >= 2 /\ written[r] \in Nat
    BY <2>2, ScriptLen DEF FileInv
  <2>4. r \in SessionsIn(file)
    BY <1>1, <2>3, PlacedRecords
  <2>5. file # <<>>
    <3>1. 1 \in 1 .. written[r]
      BY <2>3
    <3>2. pos[<<r, 1>>] \in 1 .. Len(file)
      BY <1>1, <3>1, PlacedLines
    <3>3. SUFFICES ASSUME file = <<>> PROVE FALSE
      OBVIOUS
    <3>4. Len(file) = 0
      BY <3>3
    <3> QED BY <3>2, <3>4
  <2>6. Cardinality(Anchors(file)) = Cardinality(SessionsIn(file))
    BY <1>1, <2>1, AnchorPerSession
  <2>7. ASSUME NEW i \in FileIssues(file, "strict") PROVE FALSE
    BY <1>3, <2>4, <2>5, <2>6, <2>7 DEF FileIssues
  <2>8. ASSUME NEW s \in SessionsIn(file) PROVE SessionValid(file, s, "strict")
    <3>1. s \in Sessions /\ written[s] >= 2 /\ written[s] \in Nat
      BY <1>1, <1>2, PlacedLines
    <3>2. script[s] # <<>>
      <4>1. SUFFICES ASSUME script[s] = <<>> PROVE FALSE
        OBVIOUS
      <4>2. Len(script[s]) = 0
        BY <4>1
      <4> QED BY <1>1, <3>1, <4>2, PlacedLines
    <3>3. written[s] = Len(script[s])
      BY <2>1, <3>1, <3>2
    <3> QED BY <1>1, <3>1, <3>3, SessionAccepted
  <2> QED BY <2>7, <2>8 DEF FileValid, Errors
<1> QED BY <1>4, <1>5

\* While no write has failed and no process has died, no inspection at any
\* moment reports an error, and once every session has ended and is flushed the
\* strict one accepts the file, for any number of sessions and any interleaving
\* of their appends (inspectJournalText, its pairing of anchors and sessions).
THEOREM SpecNoFalseAlarm == Spec => []NoFalseAlarm
<1>1. Init => FileInv /\ Untroubled
  BY InitFileInv, InitUntroubled
<1>2. FileInv /\ Untroubled /\ [Next]_vars => (FileInv /\ Untroubled)'
  BY StepIsJournalStep, FileInvStep, UntroubledStep
<1>3. FileInv /\ Untroubled => NoFalseAlarm
  BY UntroubledFile
<1> QED BY <1>1, <1>2, <1>3, PTL DEF Spec
=============================================================================

-------------------------- MODULE JournalInspection --------------------------
(***************************************************************************)
(* inspectJournalText: the inspection of a journal file, to which any      *)
(* number of sessions may have appended, several of them at a time.  A     *)
(* line of the file is the event RuntimeJournal.append numbered, with the  *)
(* session it belongs to (the runtime.started anchor names none), or text  *)
(* that is no JSON.  Limits of size, clocks and empty lines are left out.  *)
(***************************************************************************)
EXTENDS JournalReplay

NoSession == "unscoped"

Line(session, seq, event) == [session |-> session, seq |-> seq, event |-> event]

\* A torn line, or two events on one line.
Garbled == Line(NoSession, 0, Event("garbled", NoTransaction, NoCode))

Issue(severity, code) == [severity |-> severity, code |-> code]
Errors(issues) == {i \in issues : i.severity = "error"}

\* The lines that hold an event to replay.
Records(lines) == {i \in DOMAIN lines : lines[i] # Garbled /\ ~Malformed(lines[i].event)}

Of(lines, session) == {i \in Records(lines) : lines[i].session = session}
Anchors(lines) == Of(lines, NoSession)
SessionsIn(lines) == {lines[i].session : i \in Records(lines)} \ {NoSession}
FirstLine(lines, session) == Min(Of(lines, session))

\* The lines of a set in the order of the file: the k-th has k of them up to it.
InOrder(indices) ==
    [k \in 1 .. Cardinality(indices) |->
        CHOOSE i \in indices : Cardinality({j \in indices : j <= i}) = k]

\* The sessions that begin before the anchor of their rank: the anchors and the
\* sessions' first lines are paired in the order of the file.
Misplaced(lines) ==
    LET anchors == InOrder(Anchors(lines))
        firsts  == InOrder({FirstLine(lines, s) : s \in SessionsIn(lines)})
    IN  {lines[firsts[k]].session :
            k \in {k \in DOMAIN anchors \cap DOMAIN firsts : anchors[k] >= firsts[k]}}

\* What a missing beginning or end counts for: nothing serious where a journal
\* is inspected while it is written.
Completeness(mode) == IF mode = "partial" THEN "warning" ELSE "error"

\* The sequence numbers of a session's records leave no gap.
Gapless(records) ==
    \A k \in 1 .. Len(records) - 1 : records[k + 1].seq = records[k].seq + 1

\* Faulty variant: gaps are not looked for.
IssuesWithoutGaps(lines, session, mode) ==
    LET records == [k \in DOMAIN InOrder(Of(lines, session)) |->
                       lines[InOrder(Of(lines, session))[k]]]
        scoped  == [k \in DOMAIN records |-> records[k].event]
        state   == ReplayScoped(scoped)
    IN  {Issue("error", code) : code \in state.errors} \cup
        {Issue(Completeness(mode), code) : code \in CompletenessErrors(state, scoped)}

\* replaySessionRecords, with the pairing of the anchors: the issues about one
\* session.
SessionIssues(lines, session, mode) ==
    LET order   == InOrder(Of(lines, session))
        records == [k \in DOMAIN order |-> lines[order[k]]]
        scoped  == [k \in DOMAIN order |-> records[k].event]
        state   == ReplayScoped(scoped)
        missing == CompletenessErrors(state, scoped)
                   \cup {"ANCHOR_ORDER_INVALID" : s \in Misplaced(lines) \cap {session}}
                   \cup (IF /\ Head(scoped).type = "flow.loaded"
                            /\ Head(records).seq # 2
                         THEN {"SESSION_SEQUENCE_START"} ELSE {})
    IN  {Issue("error", code) : code \in state.errors} \cup
        {Issue(Completeness(mode), code) : code \in missing} \cup
        (IF Gapless(records) THEN {} ELSE {Issue("error", "SEQUENCE_GAP")})

\* The issues about the file.
FileIssues(lines, mode) ==
    LET found(code) ==
            CASE code = "INVALID_JSON" ->
                   \E i \in DOMAIN lines : lines[i] = Garbled
              [] code = "INVALID_PAYLOAD_FIELD" ->
                   \E i \in DOMAIN lines : Malformed(lines[i].event)
              [] code = "UNSCOPED_EVENT" ->
                   \E i \in Anchors(lines) : lines[i].event.type # "runtime.started"
              [] code = "EMPTY_JOURNAL" -> lines = <<>>
              [] code = "NO_SESSIONS" -> lines # <<>> /\ SessionsIn(lines) = {}
              [] code = "RUNTIME_SESSION_MISMATCH" ->
                   Cardinality(Anchors(lines)) # Cardinality(SessionsIn(lines))
              [] OTHER -> \* INVALID_RUNTIME_ANCHOR
                   \E i \in Anchors(lines) : lines[i].seq # 1
        reported(severity, codes) ==
            {Issue(severity, code) : code \in {code \in codes : found(code)}}
    IN  reported("error", {"INVALID_JSON", "INVALID_PAYLOAD_FIELD", "UNSCOPED_EVENT"})
        \cup reported(Completeness(mode),
                      {"EMPTY_JOURNAL", "NO_SESSIONS", "RUNTIME_SESSION_MISMATCH",
                       "INVALID_RUNTIME_ANCHOR"})

\* The verdicts of the report, and the status it gives a session.
SessionValid(lines, session, mode) ==
    Errors(SessionIssues(lines, session, mode)) = {}

FileValid(lines, mode) ==
    /\ Errors(FileIssues(lines, mode)) = {}
    /\ \A s \in SessionsIn(lines) : SessionValid(lines, s, mode)

StatusIn(lines, session) ==
    LET order == InOrder(Of(lines, session))
    IN  ReplayScoped([k \in DOMAIN order |-> lines[order[k]].event]).status
=============================================================================

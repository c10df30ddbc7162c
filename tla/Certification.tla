---------------------------- MODULE Certification ----------------------------
(***************************************************************************)
(* One case of the certification harness: a scenario that has been         *)
(* executed is checked against what its profile expects, its journal is    *)
(* replayed strictly and the recovery is classified.  Evidence digests,    *)
(* size limits, the required and forbidden events and the amounts before a *)
(* transaction are left out.                                               *)
(***************************************************************************)
EXTENDS JournalReplay, RecoveryPolicy, TerminalSummary

\* evaluateChecks and the replay's verdict: the checks that do not pass.  An
\* expectation may leave the failure code open (NoExpectation).
NoExpectation == "any"

FailedChecks(expected, events, summary) ==
    {check \in {"outcome.status", "outcome.journal_status",
                "outcome.summary_matches_journal",
                "outcome.failure_summary_matches_journal",
                "recovery.action", "outcome.failure_code", "journal.valid"} :
       CASE check = "outcome.status" -> expected.status # summary.status
         [] check = "outcome.journal_status" ->
              expected.status # JournalOutcome(events)
         [] check = "outcome.summary_matches_journal" ->
              JournalOutcome(events) # summary.status
         [] check = "outcome.failure_summary_matches_journal" ->
              TerminalFailureCode(events) # summary.failureCode
         [] check = "recovery.action" ->
              expected.recovery # ClassifyRecovery(events)
         [] check = "outcome.failure_code" ->
              /\ expected.failureCode # NoExpectation
              /\ expected.failureCode # TerminalFailureCode(events)
         [] OTHER -> ~ReplayValid(events)}

\* runScenario: the case passes when every check does.
CasePasses(expected, events, summary) ==
    FailedChecks(expected, events, summary) = {}
=============================================================================

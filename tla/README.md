# Cashblocks verification project

TLA+ models of Cashblocks, the TLC runs that check them on small instances, and
TLAPS proofs of what matters most for every instance. Paths such as
`atm-modules:394` abbreviate `src/packages/atm-modules/src/index.ts:394`;
`PROJECT.json` maps every definition to the lines it models.

Contents: 1 the system, 2 the modules and how they correspond to the code,
3 the runs, 4 fairness, 5 proofs, 6 findings, 7 what is not modelled, 8 plan.

## 1. The system

Cashblocks runs ATM sessions. A *flow* asks a customer questions and calls
*modules*; modules call *terminal adapters* (host, dispenser, acceptor, card
reader, printer) and append to a *journal*; after a failure the journal is
*replayed* and *classified* into a recommended recovery. Around that sit the
production parts: adapters that reach devices and hosts, and stores that survive
crashes.

| Component | State | Operations | Hard behaviour | What makes it correct |
| --- | --- | --- | --- | --- |
| ATM modules (`atm-modules`) | `CoreSession`, `Customer`, open adapter calls | one `Execute` per transaction, customer prompts, `callAdapter` with its timer | a device acts after the timer; books are written after an await; a receipt fails after the cash is out | outcome in the journal is true of the cash; no cash without approval; one outcome |
| Basic ATM flow and flow SDK (`examples/atm-basic`, `flow-sdk`) | where the flow waits | `OnIdle`, `runFlow`, failure of a flow | callbacks that throw anywhere | every session ends in an outcome or `flow.failed` |
| Simulator and simulated adapters (`runtime-core`) | accounts, terminal cash, cash units | reserve, dispense, accept, adjust | two counts of the same cash, recycling at capacity | books and cash agree |
| Journal and replay (`runtime-core`, `journal-replay`) | event list; the chain of its appends; one file for all sessions; derived lifecycle, status, ledger | append, flush, strict and partial inspection | journals cut short by exceptions and stops; sessions that interleave in one file; torn lines | replay reconstructs what happened, rejects what is incomplete and raises no false alarm |
| Certification harness | none | `classifyRecovery`, the checks of a case | order of its questions; a second reader of the journal | recommended recovery is safe for the real state of the cash; what happened passes its certification |
| Terminal shell (`apps/terminal-shell/src/simulation.ts`) | none | summary of a session's events | a third reader of the journal, live and persisted | the screen tells what happened |
| Device gateway (`device-gateway`) | one exchange: socket, timers, signal | `execute`, `exchange` | abort, deadline, garbled answer after the send | retry only what never left |
| XFS4IoT client (`xfs4iot-client`) | pending commands, sockets, shared connect promise | `execute`, `cancel`, `close`, reconnection | settled while waiting to connect; half-closed sockets; late answers | safe-to-retry only what was not sent; every command settles; the client can always reconnect |
| STAN store and file lock (`host-iso8583`) | lock file, state file, what of it is durable | `withFileLock`, `next` | crashes inside the lock, power loss between rename and directory sync | exclusion; a number comes back only after a full cycle |
| Reversal store and processor (`host-iso8583`) | append-only file, what of it is durable, two locks | `enqueue`, transitions, tail repair, `processPending` | torn writes, failed syncs, power loss, several processors | an accepted reversal is not lost; sends are recorded first; completion means the host agreed |
| ISO 8583 host adapter and framed transport | one connection per authorization | `authorize`, `exchange` | frames in pieces, silence, answers on the wrong connection | approval only from the host's own, whole, timely answer |
| Terminal sessions and customer terminal server | live sessions, prompts, flows; history and streams of display events | start, answer, expire, flush, `presentCard`, `publish` | answers that arrive late or twice, expiry during a prompt, capacity | a prompt can always be answered; no answer meets another prompt; abandoned sessions end |
| Customer page (`public/app.js`) | stage, request under way, `EventSource` | requests, replies, display events | broken streams and requests, replayed events, reloads | the prompt on the screen is pending; no screen without a button stays |
| Native launcher (`apps/native-terminal`) | process, connections, grace timer | signals, supervised close, restart | connections that never end, writes in flight at the end, crashes | a signal ends the process; what was shown is in the file |

Interaction: the flow awaits modules and the customer; modules await adapters;
an adapter is the simulator (a synchronous change of shared accounts and cash),
or the gateway, XFS4IoT or ISO 8583 client (messages). The journal is shared by
all of them, is written to one file for all sessions of a terminal, and is read
after the fact by replay, classifier and summary. The customer's page reaches
the flows through the session manager, and hears of presented cards through a
stream of events. STAN store and reversal store are shared between processes
through lock files.

## 2. Modules

| Module | Models | Notes |
| --- | --- | --- |
| `Journal` | event types and payloads, `Entries` | only the fields some reader looks at |
| `CashAllocation` | `allocateCash`: which notes pay an amount | its table of amounts as a recursive function over the bundles; an entry holds the notes the code reads back from it |
| `AtmSession` | one session: flow, modules, adapters, simulator | an action is the code between two awaits; uses `CashAllocation` |
| `JournalReplay` | `replaySession` | folds over the journal; one fold per reader |
| `RecoveryPolicy` | `classifyRecovery` and helpers | pure operators over the journal |
| `TerminalSummary` | the terminal shell's summary of a session | for live and for persisted journals |
| `Certification` | the checks of one certification case | uses replay, policy and summary |
| `CashDevice` | abstract promise of a cash request | implemented by session, gateway and XFS4IoT client |
| `AtmAudit` | composition: session, the readers of its journal, `CashDevice` twice | properties that relate journal and reality |
| `DeviceGateway` | `DeviceGatewayClient.execute` and one websocket exchange | instantiates `CashDevice` |
| `FileLock` | `withFileLock` for any number of callers | used by `StanAllocator` |
| `StanAllocator` | `DurableStanAllocator.next` over `FileLock` | page cache and durable copy apart |
| `ReversalQueue` | store, tail repair and processor | locks as `HostProofs` shows them to exclude |
| `TerminalSessions` | session manager, prompts, flows, `presentCard` | composition of two packages |
| `CustomerPage` | the page, its requests and its stream of display events | composed with `TerminalSessions`, whose actions its server steps take |
| `XfsClient` | `Xfs4IotClient` | instantiates `CashDevice` in `MCXfsClient` |
| `HostExchange` | `authorize` over `FramedIso8583Transport.exchange` | several calls, one connection each |
| `JournalInspection` | `inspectJournalText`, strict and partial, over many sessions | extends `JournalReplay` |
| `JournalFile` | the chained appends of concurrent sessions into one file, with failed and torn writes | over `JournalInspection` |
| `NativeShutdown` | `superviseNativeServer`: signals, connections, grace period | |
| `NativeTerminal` | the launcher's process: sessions, journal file and shutdown composed, with crashes and restarts | over `JournalFile` and `NativeShutdown` |
| `MC*` | constants and instances for TLC; `MCAtmWorlds`, `MCCustomerPage` and `MCHost` run two worlds, or two halves, in one run | |
| `*Proofs` | theorems (section 5) | |

How to read a model against the code:

* **Awaits are the interleaving points.** JavaScript runs to completion between
  them. `AtmSession` has one action per stretch (`DispenseSettled` is
  everything between the dispenser's answer and the next await, journal
  entries, bookings and the next adapter call included). Sockets, timers,
  signals and other processes act between.
- **Adapter calls.** `req[k]` is what became of the request of operation `k`:
  idle, open, `"ok"` (the device did it) or the code of a refusal. With `Remote`
  the service acts on an open request at any time, also after `TimesOut` or
  `Lost` has settled the call. Without it the simulated adapter decides at once.
- **Faulty variants.** Operators introduced as "Faulty" are plausible mistakes
  (a dropped check, a swapped order). They are never used by a specification;
  substituted for the real operator they must break the property that
  `PROJECT.json` names, which shows that the property depends on the code.

Fidelity notes, where the models take a side:

* *Session.* The handlers of the shipped flow do not throw; `FlowMayThrow`
  covers the callbacks other flows supply. A `TOUCH` customer skips the choice
  of transaction; `Local` and `Unknown` customers behave as `OnUs`, so
  one value stands for them. `Throws` leaves the request open, which
  over-approximates adapters that throw before sending. The cash unit holds
  notes of several denominations, whose choice is `allocateCash`'s; deposits are
  decomposed by the acceptor's own list of denominations. The cap of 100,000 on
  amounts is `MaxTransactionAmount`: the planner has no plan above it, and no limit
  of a profile exceeds it.
* *Readers.* A terminal that stops leaves a prefix of the journal in its file, so
  what is said of replay, classifier and summary is said of every prefix. Of the
  summary only status, failure, reported money and the step "Authorize and
  operate devices" are kept.
* *Journal file.* A line is an event with its session and number, or text that is
  no JSON: a torn line and what is glued to it. The runtime's anchor names no
  session. A rejected append ends the process (an unhandled rejection) unless the
  session already awaits the flush.
* *Native terminal.* `close()` settles in a turn of the event loop without
  connections; clients may keep a connection as long as they like.
* *Gateway.* `execute` goes on in the turn in which the exchange settles.
* *Stores.* Each file has the content processes see and the content a power loss
  leaves. A rename is durable with the directory's synchronisation (platforms
  that have none, where the code ignores EPERM, are not modelled). Power loss
  may undo the creation or removal of a lock file. A crashed process is an idle
  process. Lock tokens are the names of the callers. In `ReversalQueue` a power
  loss keeps a prefix of the file, its directory entry is durable with the first
  synchronised line, and pending records come in any order (they are sorted by
  clocks). Writes of one line are torn or whole, never short without an error: the
  store ignores the `bytesWritten` of its write (`reversal-store.ts:185`), so a short
  write that succeeds would lose a reversal, and this is assumed not to happen.
* *Sessions.* `LongWork` allows flows that work longer than the time to live.
  It is FALSE in the run: the shipped terminal uses simulated adapters and
  fifteen minutes. With TRUE, an expired flow without a prompt stays alive and
  its next prompt cannot be answered; the hazard list says so.
* *Page.* The server runs without development controls and nobody but the page
  sends requests; the server does not restart under the page. A reply may be
  lost before or after the server has acted. `MaxEvents` bounds the events ever
  published and `MaxFaults` the broken streams and requests and the reloads.
* *XFS4IoT.* Request ids are never reused (the counter wraps at 2^31-1). A
  continuation that is due may run after any other event, which is more than
  the microtask queue allows. Messages are parsed or not. Past the bound on
  connect promises every connection fails at once. `cancelOnAbort` is the
  default, true.
* *Host.* Trace numbers of calls in flight differ, which is `StanAllocator`'s
  theorem (or the in-memory counter, within one process). A call that rejects
  forgets its frame.

## 3. Runs

| Run | Question | Instance, and why it is enough |
| --- | --- | --- |
| `worlds` | is the journal true of the cash, do its readers agree on every prefix of it, is the recommended recovery safe? | two accounts and notes of two denominations; the simulated world with a fractional, an unpayable and payable amounts, amounts above each limit and one above the cap of the simulator (40; the notes looked at by `AllocationExact` are worth up to 56, so it meets amounts on both sides); the remote world with two amounts and adapters that answer, refuse, are silent or act late |
| `simulated` | do terminal cash, notes and accounts agree where the adapter moves the cash and the module books it later? | the simulated world of `worlds`, with adjustments and recycling at capacity |
| `funds_checked`, `approval_failure_reversed` | findings (section 6) | as above |
| `gateway` | does a reply ever permit a harmful repetition? | every operation, with default, custom and unlisted commands; one exchange is all the state a client has |
| `gateway_review` | finding | as above |
| `reversals` | can an accepted reversal be lost, sent unrecorded, or wrongly completed? | two intents, two processes, four events (full store reached), batches of one; symmetric in both |
| `reversal_retry` | finding | as above |
| `sessions` | do prompts, flows, expiry and the page fit together? | any clients: three sessions, room for two, two of them with two prompts, one without; the page: two sessions, three events with a history of two (so one is dropped), one fault |
| `xfs_client` | does the client keep `CashDevice`'s promise while reconnecting? | a dispense and a status command, their cancellations, three sockets (stale, current, next), two connect promises of two attempts |
| `host` | do trace numbers come back early after crashes, and does approval mean the host approved? | allocator: three callers, cycle of 2 and 3 allocations, so a number comes back, at just the distance of a cycle; exchange: two calls, two-byte header that can be split, payloads of 0 to 3 bytes with limit 2 |
| `native_terminal` | what is in the journal file, and does a signal end the process? | two concurrent sessions of two kinds (failed flow, withdrawal), one connection, two faults among failed writes and crashes, restarts over the same file |

What the properties say, by run:

* `worlds`: `OutcomeTruthful` (a completed transaction moved its cash and booked
  it once, a failed one has moved nothing and never will, a cancelled one has
  touched nothing), `AllocationExact` (an amount up to the cap gets a plan just
  when some choice of the notes at hand is worth it, and the plan is one; a larger
  amount gets none: `allocateCash` against its definition for every inventory
  within the bounds), `ReadersAgree` (replay,
  classifier and summary agree on outcome, failure and open host requests),
  `ScreenTruthful` (what the summary calls cancelled was never asked for, what it
  calls declined or refused cannot move cash any more, and of completed sessions its
  cash and balances are so; of the cash of other sessions it says nothing, section 6),
  `LedgerRecovered` (replayed balances are the real ones), `RecoverySound` (no
  recommendation repeats a movement or reverses a completed one),
  `RejectedJournalsGoToAnOperator`, `EndedSessionsCertify` (a session that ended
  passes the certification case its requests call for), `OneOutcome`,
  `NoReissue`, `ExecuteEnds`, `MovesAreCashRequests` (dispense and accept
  implement `CashDevice`).
* `simulated`: `BooksBalance` (terminal cash and accounts changed by what the
  requests moved, except inside the call that moves it; the notes in the cash
  units are worth the cash, each unit within its capacity).
* `gateway`: `RetriedOnlyUnsent`, `ThrownOnlyUnsent`, `IsCashRequest`.
* `reversals`: `StoreReadable`, `QueuedNotLost`, `SentAfterAttempt`,
  `SendsOnlyPending`, `CompletedMeansAcknowledged`.
* `sessions`: `PromptAnswerable`, `AnswersInOrder` (the k-th answer a session accepts
  bears the id of its k-th prompt; a flow that goes on has had an answer to each
  prompt, one that waits lacks just the last), `DisplayAlone` (a card
  starts a session only where no flow is under way; a cardless start does not ask, so
  the display may be shared later), `AbandonedEnds`;
  `ShownPromptIsPending` and `PageNeverStuck` at the terminal's page (whose boot
  screen, while campaigns load, is outside the latter's scope).
* `xfs_client`: `SentIsHeard` (a pending command was sent on a socket whose loss
  the client hears), `ConnectNeverStuck` (a connect promise that is over will be
  cleared), `DispenseIsCashRequest` (with `CashDevice`'s liveness: the owner is
  told something in the end).
* `host`: `LockExclusive` (no two callers inside the file lock), `ReusedAfterCycle`
  (equal trace numbers are a cycle apart, whatever power loss undoes),
  `ApprovedByHost`, `AuthorizeEnds`.
* `native_terminal`: `NoFalseAlarm` (a file nothing went wrong with is accepted at
  any moment, however sessions interleave), `ValidMeansFaithful` (what strict
  inspection accepts is what happened), `DamageBounded` (one failed write costs at
  most one acknowledged event), `ShownMeansPersisted`, `ClosedMeansClosed`,
  `ShutdownEnds`.

The type invariants `TypeOK` are theorems, and are not checked again by the runs;
so are `Phase`, `DispenseAuthorized` and `RetrySafe`.

Bounds that cut behaviour off: `MaxSerial` (allocations), `MaxEvents` and
`MaxRecords` of the reversal store (they are in the code too), `MaxPrompts`,
`MaxSockets`, `MaxRounds`, `MaxCount` (notes of a denomination), the page's
`MaxEvents`, and `MaxFaults`. A session, an exchange and a call are finite by themselves.
Deadlock is not checked where a finite conversation ends, that is in every run.
Symmetry is used only in runs without liveness.

## 4. Fairness

* `AtmSession`: the simulator answers, an answer or the adapter timer settles
  the call (`setTimeout`). Nothing is assumed of devices, hosts or customers.
* `DeviceGateway`: the exchange is started and both timers fire.
* `TerminalSessions`: flows that are not paused go on, flushes end, pruning runs
  (a timer of the server and every request), and time passes for sessions whose
  customer has gone for good (`gone`); customers owe nothing.
* `XfsClient`: the timer every command gets in `execute` fires.
* `HostExchange`: the trace store answers or rejects, timers fire, a resolved
  await goes on.
* `CustomerPage`: a request is served and replied to, the browser opens a broken
  stream again and handles what it is sent (`EventSource`), flows go on and their
  journals are flushed or fail. Nothing is assumed of the customer or of cards.
* `NativeTerminal`: writes end one way or the other, the grace timer fires,
  destroyed sockets close, a process with nothing left to do exits. Clients may
  hold their connections for ever: `ShutdownEnds` rests on the timer.
* `StanAllocator`, `ReversalQueue`: none; their properties are safety.

## 5. Proofs

All theorems are checked by `tlapm` without trusted leaves; the constants have
the named assumptions of their modules: `AllocationAssumption` (a
positive cap on amounts), `SessionAssumption` (positive amounts, a valid profile of
denominations and limits within the cap, initial cash equal to the
worth of the initial notes), `GatewayAssumption`
(cash commands are listed as indeterminate, print commands as non-idempotent),
`CallersAssumption` and `StanAssumption` (a positive cycle), `ReversalAssumption`
(bounds are numbers, an intent is its id and its data), `ClientAssumption`
(positive limits), `SessionsAssumption` (room for a session, natural numbers of
prompts), `PageAssumption` (positive bounds), `HostAssumption` (fewer calls than
trace numbers, positive sizes), `JournalAssumption` (a journal begins with the anchors
of its runtime and its flow), `FaultsAssumption` and
`ScriptsAssumption` (what a session has to say is the journal of a flow that ran to
its end, and that journal alone in a file passes strict inspection: TLC
evaluates this on the journals of the run, and `worlds` checks replay itself). TLC evaluates them in the runs.

* `AtmAuditProofs`, the session, for any accounts, amounts, limits, remote or
  simulated. `SpecTypeOK` rests on lemmas about `Entries` and event shapes and one
  lemma per action. The inductive invariant `Safe`: the safety properties are
  not inductive by themselves: that a failed transaction moved nothing needs to
  know, at every await, which requests were made, which answers are still
  possible, what the journal says and what was booked. `Safe` relates `pc`,
  `req`, the journal and the accounts in that way (`Phase` is its readable
  part). One lemma per handler shows it preserved; from it follow `SpecPhase`,
  `SpecDispenseAuthorized`, `SpecCompletedMeansMoved`,
  `SpecFailedMeansNotMoved`, `SpecCancelledMeansUntouched`, `SpecOutcomeTruthful`
  (their conjunction, which the run checks), and the action property
  `SpecOneOutcome`. `Asked` (an operation that lies ahead of `pc` has not been
  asked for) gives the action property `SpecNoReissue`, and `OwnAnswers` (a request
  ends in an answer of its own operation) rests on it.
* `AtmAuditProofs`, the classifier: `SpecRecoverySound`, for every journal a session
  can have written and every prefix of it. `Trail` ties each entry of the journal
  to what is true now: an outcome to the verdict it stands for and a failure to the
  cash it leaves alone, and the outcome entry is the last of its kind. The lemmas
  about `classifyRecovery` (`DecidingPosition`, `ReversalNeedsApproval`,
  `DecidedRecovery`) find the entry its answer was read from by the least number
  with a property, which the prover does reach.
* `AtmAuditProofs`, the summary: `SpecScreenTruthful`, again for every prefix, with
  the scope of the property: of the cash, completed sessions only.
  `Screen` says of each entry what the summary reads from it and that it is still
  so (the transaction selected is the one under way, the reported balances and
  cash are those of now), and that the session has written what it has done
  (`Wrote`), for what the summary concludes from the lack of an entry.
* `AtmAuditProofs`, the replay: `SpecLedgerRecovered`. The replay's state after each
  event is a function (`ReplayStates`), which `ReplayUnfolds` shows to exist by the
  least event it could fail at; `LedgerRead` says in the same way what its ledger
  holds after all of them (`LedgerIs`). `Told` says of the session that what has
  changed of accounts and cash is reported, or about to be.
* `AtmAuditProofs`, the readers against each other: `SpecReadersAgree` and
  `SpecRejectedJournalsGoToAnOperator`. What makes the readers agree is not in any
  of them but in the order in which a session writes (`WellOrdered`, part of the
  inductive invariant `Ordered`): every event names the transaction it has to,
  each request and answer of the host and each start is written once and the answer
  after the request, a transaction that was started ends by being completed, and
  only a flow failure without a code follows an outcome, that of a failed
  transaction. A prefix of such a journal is one too (`OrderOfPrefix`), and it has
  one of three ends (`ThreeEnds`), for each of which the lemmas say what replay,
  classifier and summary make of it. The host requests are counted by two loops,
  which `CountsAgree` takes through the events side by side; `ReplayIsClean` shows
  that the replay has no error to report before its end, and `OutcomeReplays` that
  a journal with an outcome has none at its end.
* `AtmAuditProofs`, the certification: `SpecEndedSessionsCertify`. What a case
  expects is read from the requests (`Deserved`), what it is compared with from the
  journal alone; `Concluded` ties the two together: the last event of a session that
  ran to its end is one of three kinds of end (`EndFits`: nothing was asked for,
  one device was asked for cash, or the host alone was asked), each with the state
  of the requests and of the account that goes with it, and every request the host
  got is answered, unless it is under way or the flow failed (`AllAnswered`). With
  the order of the journal no request is pending at its end (`NothingPending`), so
  it replays; `OutcomeRecovery` and `ApprovalFound` say what the classifier makes of
  it, and `ExpectedPasses` that a case that expects just this passes.
* `AtmCashProofs`, the planner of cash: `SpecAllocationExact`, for any denominations,
  any notes in the cash units and any cap, exact for every amount up to the cap and
  without a plan for every larger one, where the run looks at two denominations
  of at most four notes. What notes are worth is a fold over a set in an order the
  definition leaves open (`Worth`); `WorthOfAny` shows that any denomination may
  be taken out first, so that a note more is worth just its value (`TotalPlus`). The
  argument of the planner: a bundle is at most one note larger than the notes of its
  denomination bundled before it (`Grows`), so a choice that the notes before it
  cannot make needs at least as many notes as the bundle has and is the bundle and a
  choice that they can make. Hence after each bundle the table holds just the
  amounts that some choice of the notes bundled so far is worth, each with such a
  choice (`TableOf`, kept by `TableGrows`), and all bundles together hold the notes
  the amount can need (`BundlesPack`). The recursive functions are shown to exist,
  and their tables to be so after every bundle, by the least index at which they
  were not; induction over the subsets of the denominations goes by their least
  cardinality (`AllSubsets`).
* `AtmCashProofs`, the books: `SpecBooksBalance`. `Stock` says what the notes in the
  cash units are worth; it is kept because a plan is worth its amount and takes no
  more notes than there are (`DispensePlanPays`, `DepositPlanPays`, from the planner's
  theorem), for the requests of customers and the adjustments of operators. `Books`
  adds, for the simulated world, that a request is open only while the session
  awaits it, so that the adapter has moved the cash before the module resumes and
  nothing moves after it; with `Phase` this ties cash to the requests (`Moved`) at
  every await, and the account to them at every await but the two that move cash.
* `AtmAuditProofs`, the refinement: `SessionImplementsCashDevice` (every step of the
  session is, for the dispenser and for the acceptor, a step of the abstract
  device or a stutter) and from it `SessionToldTheTruth`.
* `DeviceGatewayProofs`: type, `SpecRetriedOnlyUnsent`, `SpecThrownOnlyUnsent`,
  and `GatewayImplementsCashDevice`: for every command table and policy each step
  is a step of the abstract device or a stutter (safety part of the refinement).
* `HostProofs`, the allocator: the lock excludes for any callers
  (invariant: the lock file names the one caller inside, or nobody is inside);
  the allocator's invariant `StanInv` says that every number lies on the cycle
  where its serial puts it, that what a caller works with agrees with the file
  while it is inside the lock, and that issued numbers are durable and have
  increasing serials, from which `SpecReusedAfterCycle` follows for any cycle
  length.
* `ReversalQueueProofs`: `SpecTypeOK`, `SpecStoreReadable`, `SpecQueuedNotLost`,
  `SpecSentAfterAttempt`, `SpecSendsOnlyPending` and
  `SpecCompletedMeansAcknowledged`, for any intents, processes, limits and batch
  sizes, with power losses and crashes anywhere. The invariant has three parts:
  `Kept` about the file (what is on it with its tail reads as a history of intents,
  and what was accepted, attempted or acknowledged is among the lines a power
  loss leaves), `Held` about the lock (its holder is in the middle of the work the
  lock is for) and `Work` about each caller: what it remembers of the file it read
  is still so while it holds the lock. The tail is what makes this hard: a torn
  line is cut off by the next writer, a whole one without a newline is taken over.
* `NativeTerminalProofs`: `SpecClosedMeansClosed`, `SpecShownMeansPersisted`,
  `SpecValidMeansFaithful`, `SpecDamageBounded` and `SpecNoFalseAlarm`, for any
  sessions, journals, connections and number of faults. `FileInv` says of each line
  whose it is, `Survived` that a write that ended is there for good as long as no
  append was refused, `Budget` counts what each fault may cost, and
  `Untroubled` places every resolved append in the order of its session. That a
  file without trouble is accepted needs two counts: no line is missing and none
  is misplaced, so the lines of a session are an enumeration of its journal.
* `XfsClientProofs`: `SpecTypeOK` (with the limit of the pending map),
  `SpecRetrySafe`, `SpecSentIsHeard` and `SpecConnectNeverStuck`, for any
  commands, limits, sockets and connect promises. `ClientInv` adds to the
  properties where things are: only a socket that was opened is sent on
  (`Opening`; so an attempt never reuses the socket of a request), a closed client
  has nothing pending (`Closed`), a cancellation is not made before its command
  has ended (`Untouched`), and whoever stops to wait for the connect promise
  leaves it to a callback or to another waiter (`Awaited`).
  `ClientImplementsCashDevice`: each state-changing command takes the steps of
  the abstract device only, and `ClientToldTheTruth` follows from the same
  invariant. Each step is one of six things for a request (`Shape`: left alone,
  made, sent, settled without an answer, acted on, answered); `RequestInv` ties
  the record of a request to what the service did with it, and a cancellation to
  a command that was sent.
* `CustomerPageProofs`, assuming that no flow works past the time to live
  (`~LongWork`): `SpecSessionsTypeOK`, `SpecPromptAnswerable`,
  `SpecAnswersInOrder` and `SpecDisplayAlone` for the manager and any
  clients. `ManagerInv` adds that an active flow has a place in the map, a working
  one a fresh one (`Placed`), and that the map is finite, so that a count below
  one means that it is empty. The order of the answers is inductive as it stands:
  only a flow that has had all its answers asks again, only one that lacks its last
  answer accepts one, and every other step, pruning included, leaves the answers
  alone and starts or ends flows at most (`OrderStays`). For the terminal: `PageUsesManager` (page, requests
  and stream only take steps the manager's specification allows: a refinement),
  `PageSpecPromptsAnswered`, and `PageSpecShownPromptIsPending`. The last needs
  `PageInv`: a prompt is known to the page from its screen, from the reply to its
  request or from one event it has yet to handle, never from two of them, and
  each of them offers it as it is (`Offered`); what the server publishes it
  publishes for sessions the page does not know yet.
* `HostProofs`, the exchange: `SpecHostTypeOK` and `SpecApprovedByHost`. `HostInv` says
  that the counter has not come round (it is bounded by the number of calls that
  took a number), that no two calls share a number, that what came in on a
  connection is a decision of the host under the number of the call it was made
  for, and what each phase of a call owns. A believed response echoes the call's
  number, hence was made for it.

Model-checked only:

* All liveness (`ExecuteEnds`, `AbandonedEnds`, `AuthorizeEnds`, `PageNeverStuck`,
  `ShutdownEnds` and the fair parts of the refinements `MovesAreCashRequests`,
  `IsCashRequest` and `DispenseIsCashRequest`) and anything about ENABLED, which
  are outside the prover. The safety parts of all three refinements are theorems.

Every safety invariant and every action property of the passing runs is a theorem,
under the assumptions named above. `RetrySafe` is proved and not run: in the run,
`DispenseIsCashRequest` implies it for the dispense command.

## 6. Findings

1. `funds_checked` (`runtime-core:1066`): the simulated host looks at the
   balance only for transactions whose name contains "Withdrawal"; a FastCash
   above the balance is approved, against `docs/concepts.md:77`.
2. `approval_failure_reversed` (`certification-harness:209`): after an approval,
   an exception ends the session with `flow.failed` only and the classifier says
   `operator_review`, against `docs/certification-harness.md:45`.
3. `gateway_review` (`device-gateway:327`): an abort after the send throws for a
   configured non-idempotent command, against `docs/device-gateway.md:147`.
4. `reversal_retry` (`reversal-store.ts:72`): an enqueue whose synchronisation
   failed is repeated, answered from the page cache and never synchronised; a
   power loss then removes an accepted reversal, against
   `docs/host-iso8583.md:124`.

Observed, without a document that says otherwise: the close event of an XFS4IoT
socket that was already replaced rejects the commands sent on the new one
(`client.ts:518`; conservative: they become indeterminate), and a crash of the
token write leaves a lock file only an operator may remove (`file-lock.ts:17`). The
persisted summary says "Authorization approved and cash dispensed." also of
sessions that failed with a code it does not list and of sessions in progress, and
"No device action required." of a cardless withdrawal; `ScreenTruthful` states what
it gets right. A certification case of a flow that failed by itself cannot pass:
the summary gives it a failure code that the journal does not have. A transaction
of an unknown kind leaves a journal that strict replay calls incomplete. One line
torn by a failed write makes `readAll` throw for every session of the file, and a
process that survives a failed write can lose an acknowledged line of another
session (`DamageBounded`). At the page, a second card or a cardless start while a
session starts leaves that session without a screen until it expires. A reversal
store full of attempts refuses every further change. With flows that work past the
time to live `PromptAnswerable` and `DisplayAlone` do not hold.

## 7. Not modelled

* The terminal shell's browser page renders the summary it fetches and keeps no
  protocol state. Scripts, fixtures and packaging are build and test tooling.
* Customer page: texts, languages, campaigns, keypads, the layout of results and the
  development control. Customer terminal server: static files, parsing of requests,
  origin checks, and its restart under an open page.
* Native launcher: command line, configuration and the checks of directories.
* XFS4IoT client: `connect()` without a command, the routing of unsolicited events
  and their bounded backlog; in `protocol.ts` the parsing of messages.
* Runtime core: scratch pad, properties, diagnostic loggers, and the simulator's older
  mode without cash units (`usesLegacyScalarCash`: terminal cash given as one number,
  no notes, no limits), which only tests construct. Flow SDK: packaging and
  the validation of manifests. Certification: digests, required and forbidden
  events, the report of a suite.
* Everywhere: parsing, JSON budgets and schema validation, configuration validation,
  TLS details, the ISO 8583 codec and minor units, formatting and diagnostics.
  Where they can fail, the failure is an outcome of the action that calls them.

## 8. Plan

Order of work, most important behaviour first: session and journal; recovery
policy; device gateway; stores; terminal sessions; XFS4IoT client; host exchange;
the other readers of the journal; the journal file and the native terminal; the
customer page. All of these exist. Left:

1. Journals of several transactions, for the classifier's "last occurrence".
2. The event backlog of the XFS4IoT client, and a restart of the customer terminal
   server under an open page.

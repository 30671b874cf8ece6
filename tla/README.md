# A TLA+ model of agentic-trader's trading core

agentic-trader is a trading copilot. It scans markets, records trade cards, lets an
operator (or a sweep, on paper accounts) turn a card into a broker order, watches
the orders and positions, and closes them. Several tasks and processes share one
database and one broker account: the daemon's loops, Telegram handlers and CLI
commands. A research side registers trading rules and measures them on data that
must not be looked at twice. This directory models the parts in which these parties
can disagree about money or about evidence. TLC checks them on small instances, and
TLAPS proves the safety properties for any number of parties, items and faults: all of
them but three, which section 6 names. The entry queue is proved to implement its
abstract specification.

All paths below are relative to `src/agentic_trader/`.

## 1. The system and its parts

| Part | Source | State it owns | Module |
|---|---|---|---|
| Entry queue and dispatcher; halt, panic, resume | `storage/workflow.py`, `execution/entries.py`, `agent/copilot.py` | work items with token and lease, event journal, halt flag | `EntryWorkflow` (implements `EntryReservation`) |
| Admission against the book | `execution/capacity.py`, `execution/admission.py`, `risk/rules.py`, `broker/alpaca.py` | reservations, the evidence of one preflight | `EntryRisk` |
| Order journal and projection | `storage/workflow.py`, `broker/alpaca.py` | `ORDER_OBSERVED` events, order views | `OrderProjection` |
| Notification outbox | `storage/workflow.py`, `notifier/outbox.py` | notices with token, lease, attempts | `Outbox` |
| Position close | `execution/closing.py`, `storage/db.py`, `broker/alpaca.py` | close requests, the signal's exit link | `PositionClose` |
| Release exit | `execution/release_exit.py` | the day's pass, owed closes | `ReleaseExit` |
| Resting-entry cancellation | `execution/lifetimes.py`, `storage/lifetimes.py` | the cancellation work item | `EntryCancel` |
| Trailing stops | `agent/copilot.py`, `broker/alpaca.py`, `storage/db.py` | the recorded stop | `TrailingStops` |
| Scans and card rationing | `agent/copilot.py`, `agent/scan_journal.py` | the scan lock, cards, ranking journal | `CardScan` |
| Trade cards | `agent/copilot.py`, `execution/auto_entry.py`, `execution/freshness.py`, `storage/db.py` | signal rows, auto-entry journal | `CardLifecycle` |
| Insider watch | `data/insider_capture.py`, `agent/insider_watch.py` | captured filing dates, decisions | `InsiderWatch` |
| Account ledger | `accounting/`, `storage/ledger.py` | imported activities, checkpoint, risk history | `AccountLedger` |
| Incidents and quiet hours | `diagnostics/incidents.py`, `diagnostics/monitor.py`, `storage/operations.py` | incident rows, summary decisions | `Incidents` |
| Bounded reads and provider fallback | `resilience/` | thread slots, unfinished reads | `ProviderReads` |
| Alpha registry and paper probes | `storage/alpha.py`, `storage/probe_state.py` | registry lists, enrolments | `AlphaRegistry` |
| Trials and holdouts | `storage/alpha.py` | reservations, consumed intervals | `ResearchBudget` |
| Daily campaign | `storage/alpha_daily.py` | decisions, outcomes, residual state | `DailyCampaign` |
| Session decisions | `research/alpha/decisions.py`, `storage/alpha.py` | cursor, claims, gaps | `SessionDecisions` |
| Pooled campaigns | `research/pooled/`, `storage/alpha.py` | charges, consumed windows | `PooledCampaign` |

How the parts meet. A scan records a card (a signal in `PENDING`). A tap or the
auto-entry sweep authorizes it: `enqueue_entry` reserves capacity by moving the signal
to `SUBMITTING` and queues one work item. A dispatcher claims the oldest item, has the
ledger import the account, reads the broker's book, commits `SUBMITTING` on the item,
sends one POST and stores the outcome. A lost outcome is looked up by client order id
and never sent again. The monitor journals what the broker says of orders, releases
entries that ended unfilled, cancels resting entries, ratchets stops, books exits and
recovers closes. Every change an operator must hear of becomes a notice in the outbox.
`PROJECT.json` lists the parts with their status and the hazards, each at its source line.

## 2. Conventions common to the modules

- A database transaction is one step. Each takes the scope lock (`workflow.py:207`; the
  research store has its own), so transactions do not interleave. A remote call lies
  between two steps, and anything may happen there.
- A token is written as the party that holds it. The code draws a fresh UUID per claim,
  and a party has one claim at a time and forgets it when it crashes. (The ledger's
  tokens are numbers: there a superseded importer lives on.)
- A lease is `live` or `lapsed`. A lapse under a live holder, a crash, or a failed call
  counts against `MaxFaults`; a lapse under a holder that is gone is free.
- What a module does not own (a strategy's verdict, a price, a statistic, a readiness
  check) is a nondeterministic choice, at the point where the code asks.
- The broker and EDGAR are external. They are modelled from how the code uses them: a
  POST may be lost before or after it takes effect, answered late, or refused, and an
  order may fill or end at any time. The transport does not retry a POST.
- A definition called "Mutant" is a plausible bug in the definition after it. No
  specification uses it. It serves to show that a property can fail.

## 3. Modules

An `MC` module instantiates one or more of these for TLC. Parts that share no state in
these models are put on one instance with a selector variable (`active`, `facts`, `job`,
`about`, `service`, `lane`): a behaviour is about one part, and the others stay in their
initial states. This asks the same questions as one run per part. The parts do not
interleave, and nothing is claimed of their composition. Where names allow it the `MC` module
extends the parts, so that TLC evaluates their assumptions and the property a run checks is
the very definition a theorem is about. Their specifications then have names of their own
(`LedgerSpec`, `WatchSpec`, `ScanSpec`, `TrailSpec`, ...).

| `MC` module | Parts |
|---|---|
| `MCEntryBook` | `EntryWorkflow` (through `MCEntryWorkflow`), `EntryRisk` |
| `MCSettling` | `EntryWorkflow`, `EntryCancel` (liveness) |
| `MCStore` | `Outbox`, `OrderProjection` |
| `MCDaemon` | `EntryCancel`, `CardScan`, `InsiderWatch` (safety) |
| `MCCards` | `CardLifecycle`, `CardScan`, `InsiderWatch` (liveness) |
| `MCDesk` | `AccountLedger`, `Incidents`, `ReleaseExit`, `TrailingStops`, `ProviderReads` |
| `MCResearch` | `AlphaRegistry`, `DailyCampaign`, `PooledCampaign`, `SessionDecisions`, `ResearchBudget` |
| `MCPositionClose`, `MCCardLifecycle`, `MCProbe` | one part each |

### EntryReservation and EntryWorkflow

`EntryReservation` is the promise, without queue, lease or worker: authorization reserves,
the reservation carries one authority to send, and capacity is released only when no order
can exist. `EntryWorkflow` is the code.

| Action | Code |
|---|---|
| `EnqueueEntry` | `enqueue_entry`, `workflow.py:738` |
| `ClaimEntry` | `claim_entry`, `workflow.py:854`: oldest blocking item, queued or checking with a lapsed lease |
| `PreflightPasses`, `PreflightRejects` | `_preflight`, `entries.py:65` |
| `BeginSubmission`, `BeginRefuses` | `begin_submission`, `workflow.py:936`, fenced by token, status and halt |
| `PostOrder`, `LocalRefusal`, `Answer` | `submit_entry_order` of the Alpaca adapter |
| `ResolveOwnEntry` | `resolve_entry`, `workflow.py:1027`; an uncertain result also sets the halt |
| `FindEntryOrder`, `ResolveFoundEntry` | `recover`, `entries.py:168` |
| `ObserveTerminalOrder` | `observe_orders`' release of an unfilled entry, `workflow.py:1257` |
| `PanicHalt`, `PanicCancelAll`, `ResumeChecks`, `ResumeClears` | `copilot.py:5018`, `5151` |

`list_work` and the lookup that follows are one step. A 404 from the lookup changes
nothing. `resume_trading`'s own `recover` call is one of the recoverers.

### EntryRisk

The data behind the refusals that `EntryWorkflow` leaves open. `dispatch_one` imports the
account, reads the reservations and captures account, positions and orders with six
requests, which the code brackets: positions and orders are read twice and compared, and so
is the account's cash. `assess_entry_capacity` reconciles each reservation with its exact
order, its holding and its stop, refuses anything untracked, and applies the limits;
`begin_submission` asks again under the lock, on the newest import. One dispatching task is
modelled, since leases are `EntryWorkflow`'s. A mark and the equity are free when they are
read. A fill is assumed to change the account's cash. Limits on notional, asset class and
correlation bound the same sums and counts and are left out, and so are rules about the
candidate alone.

### OrderProjection, Outbox

`OrderProjection` has one order, whose versions at the broker are a sequence. `ObserveOrder`
takes any version, old or new, with or without the parent link, and does what
`observe_orders` does: append to the journal, project, release. Two versions may carry the
same timestamp. `RebuildOrderViews` replays the journal. In `Outbox`, `AddNotification`,
`ClaimNotification`, `BuryExhausted`, `Deliver`, `FinishNotification` and
`RequeueNotification` are the methods of the same names. The message may arrive while its
acknowledgement is lost. Backoff is the flag `due`.

### PositionClose, ReleaseExit

`PositionClose` has one position, its protective bracket (one order in the model), and close
requests. The broker's close is a sequence of steps, as in `submit_position_close`:
preflight, cancel protection, confirm, recheck, POST. Saving the result is two transactions
(`SaveLink`, `SaveStatus`; `closing.py:64`), as in the code. `RecoverClose` is the exact
lookup, `ReconcilePosition` and `AccountExit` book the exit. A process is one copilot, whose
reconciliation lock makes it do one thing at a time; two processes are serialised only by
the database. `ReleaseExit` is the tick that closes equity positions before their
company's earnings release, with the evidence of the report date taken as any set of exits and
the close itself summarised: its request is keyed by the day (`dayRequest`), and `noted` is
what a process remembers of the date. With two processes, a journaled `refused` or `error` of
one may precede the other's submission, so an outcome is only promised to be true when it says
submitted.

### EntryCancel, TrailingStops

`EntryCancel` has one resting entry with its exits. `BeginCancel` commits the item before
the single DELETE of `SubmitCancel`; `PollCancel` and `RecoverCancel` read, and
`ResolveCancel` judges (`storage/lifetimes.py:86`, `223`). `ClaimClose` is a close starting
on the same symbol. Order states only move forward, so their rank stands for the observation
time. The two exits are one status, and the review of a group whose legs were replaced is
left out. `TrailingStops` has one long position; prices are half cents of a small set and a
short position is the mirror image. The card's stop is recorded as it was computed and the
bracket's leg is posted at the cent (`_price`, halves to even), so the recorded stop may lie up
to half a cent above the leg until a cycle saves a confirmed price; `Covers` allows this for
the card's own stop only.

### CardScan, CardLifecycle

`CardScan` is `run_scan` under the scan lock: the budgets read back from the recorded cards,
the ranked candidates with each refusal in its order, the record, the bookkeeping, the
ranking journal; suggestion scans, re-evaluations and requested background scans; restarts
anywhere. A card that replaces another names it (`reprices`), and such a card spends no
allowance. One daemon process is modelled (a CLI `scan` has a lock of its own, so budgets are
per process) and the language model is in use. Left out: the intraday scan, which
neither sends a card nor journals, once-per-date notices, digests, and the outbox entry of a scan's result, whose
failure is logged and lost. A re-evaluation of a setup that is not carried over the session
can race a suggestion scan and leave two live cards; `OneLiveCard` is about carried setups.

`CardLifecycle` has cards from recording to entry: taps, dismissal, assessment, re-pricing,
re-evaluation, the expiry job and the auto-entry sweep, which reads its cards, calls the same
path as a tap, then reads the outcome and journals it (`copilot.py:4625`). `elapsed` is the
clock as the card policies see it. Card freshness is taken as enabled. `clear_all_signals`
and the refusal of non-paper accounts are left out.

### InsiderWatch

The capture walks filing dates in order, holds a date whose index or documents are not there
yet, infers a closure from a later index, and journals each date once under the scope of the
running release. A decision merges the release's archive with the captures and stops at the
first gap, error or foreign scope. Assumed of EDGAR: indexes appear in date order (an index
published after its closure was inferred would be lost). Documents of one date are read in
one step, one worker process captures, and no decision runs over midnight. The history cached
per date is recomputed identically, so it is no variable. The event rule, eligibility and
plausibility checks are left out.

### AccountLedger, Incidents, ProviderReads

`AccountLedger` is `refresh` in its steps: begin (a new token), snapshot, bind, activity
listing, snapshot, reconcile, commit or fail; the listing lags behind the account's books and
may be revised. Inventory is one number; lots are left out. `Incidents` is one pass of the
monitor in its transactions, over a clock with alert windows and quiet hours. The query
behind the morning summary also bounds the time of recording, with an hour's margin around the
quiet period; the model leaves that bound out, which is right for passes shorter than an hour. `ProviderReads`
has callers with deadlines, retries and a cascade over threads that cannot be interrupted.

### The research modules

`AlphaRegistry`: who may take risk on an instrument; a probe's end by time or losses is
derived, not stored. `DailyCampaign`: claims with windows and late workers. `PooledCampaign`:
charges, the freeze, the one use of a confirmation window, cancellation and recovery. What
is computed from prices is a free choice in all of them.

`SessionDecisions` polls in the steps of `run_once`: the clock is read (`PollStarts`), expired
claims end by that time (`expire_session_decisions`), the registry and the cursor are read
(`ReadCursor`), and the plan commits or is refused. The two reads are one step: a registry that
moves between them is seen by `plan_session_decisions`, which refuses the poll. Windows belong
to sessions and sessions to dates; the calendar of a poll is the last `HistoryDays` dates
(`Start`, `Calendar`), only windows of its sessions are due, and a gap older than the calendar
ends at the first midnight of it.

The promise on windows has a condition, `Prompt`: the window becomes available by the midnight
that ends its session's date. `decision_delay_seconds` may be as large as 86400
(`market/bars.py:30`, `46`), and a window that its clock makes available a day later is lost
without a record or a gap when its session leaves the calendar before a poll: the session is
no longer in the calendar, and the named gap ends at the calendar's first midnight, before the
window became available. TLC finds this when the condition is dropped, with the second window
of `MCResearch`, which is not prompt. `docs/alpha-session-decisions.md:101` says that gaps
beyond the calendar horizon are retained as unknown intervals.

`ResearchBudget` has mining runs (reserve, download, mine, record, qualify), diagnostics and
the `alpha test` command. A run's bars are split into discovery and holdout (`Frames`). Marked
as observed are the holdouts that are consumed and the days of diagnostics and tests, not the
discovery days of a mining run. So `HoldoutUnseen` covers the mining of the same run and leaves
out the mining of others: a run with a short lookback and then one with a longer lookback may
put the discovery days of the first into the holdout of the second (TLC finds this when all
mining is counted as seen). The benchmark does mark its discovery, so that "a later run cannot
reuse inspected discovery as fresh qualification data" (`benchmark_workflow.py:82`). A repeated
identical `alpha test` is not charged again and computes the same trial; the trial count
therefore covers distinct trials.

## 4. What TLC checks

| Run | Instance | Result |
|---|---|---|
| `entry_safety` | queue: 2 cards, 2 workers, 1 recoverer, 2 faults; book: 3 cards of 2 symbols, 2 positions | passes |
| `settling` | queue: 2 cards, 1 worker, 1 recoverer, 2 faults; cancellation: 1 process, 2 faults | passes |
| `resume_race` | 2 cards, 1 worker, 1 recoverer, no fault | counterexample |
| `store` | 2 notices, 2 consumers, 2 attempts, 1 requeue, 1 fault; an order of quantity 2 with 3 versions | passes |
| `close` | 2 requests, 2 processes, 1 fault | passes |
| `close_link_race` | 2 requests, 2 processes, no fault | counterexample |
| `daemon_safety` | cancellation: 2 processes, 2 faults; scans: 3 setups, 2 dates, 2 scans and a request; watch: 5 dates, 2 filings, 2 releases | passes |
| `card` | a card and its replacement, 1 client and the sweep, 1 fault; 1 scan and 2 requests; 5 dates, 1 filing | passes |
| `card_crash` | 1 card, 1 client and the sweep, 1 fault | counterexample |
| `desk` | 2 importers, 4 activities; 1 check over two alert windows; 2 processes; 3 stop orders; 2 callers, 2 providers, 2 threads | passes |
| `research` | 3 versions; 2 sessions; 2 campaigns; 3 windows of 2 sessions, 2 services, 4 polls; 2 studies and a diagnostic or a test | passes |
| `probe_kill` | 1 probe, 2 positions | counterexample |

Why the bounds are enough to be interesting. Two workers and two faults allow a lease to lapse
under a live worker, the item to be claimed again, and either of them to crash after the
commit. Three cards, two of one symbol, make the symbol rule and the risk budget refuse, the
latter also because a mark moved away from its stop. Two requests are the least for a second
close to race the first one's late result. Two attempts make the first retry and the exhausted
budget both happen. Two cards are a card and its re-priced successor; the sweep taps through
the same code as a client, so it is the second actor. With every allowance at one card, two
scans and a request on two dates are the least that can overdraw one. Five dates hold a
closure, a weekend, a filing in each cohort and a release change between them. Two importers
are the one that is fenced out and the one that fences; the ledger's amounts are signed powers
of two, so that no two unlisted activities cancel in the account's cash. Larger numbers are not
claimed, except where section 6 proves them.

What the runs establish:

- **Entries.** One POST per command (`OnePostPerEntry`); the reservation holds as long as an
  order may exist (`ExposureIsReserved`); orders leave in authorization order
  (`PostsInQueueOrder`); after a halt is stored at most one order still leaves
  (`HaltBoundsPosts`); the queue implements `EntryReservation` (`ReservationPromise`); every
  authorized entry settles unless a submission is abandoned (`EntriesSettle`).
- **Admission.** An order is authorised only on a book that was really there, wholly owned
  and protected, within the risk budget of the latest import (`BookAdmitted`).
- **Orders.** Late, repeated and reordered observations never move the view back
  (`NeverRollsBack`); a rebuild changes nothing and only an unfilled entry is released
  (`ProjectionIsTrue`), and it is released (`DeadEntryReleased`).
- **Outbox.** Delivered means received, retries stay in the budget and a late result does not
  disturb a newer claim (`ClaimsHold`); every notice ends (`NoticesSettle`).
- **Close.** Open sell orders never exceed the holding (`SellsCovered`); what is recorded of
  an exit, a failure and the protection is true (`CloseIsTrue`); a filled close is booked
  (`FilledCloseAccounted`). On a release, each owed close is sent at most once and accounted
  for (`ReleaseAccounted`).
- **Cancel.** One DELETE and no overlap with a close (`OneCancel`), true verdicts
  (`SettledIsTrue`), and every intent is resolved (`CancelSettles`).
- **Stops.** The broker's stop makes good the recorded one, to the cent for the card's stop and
  exactly afterwards, and neither is loosened (`ProtectionRatchets`).
- **Scans and cards.** The ration of cards (`CardsRationed`), a true ranking journal
  (`ScanAccounted`), one live card per carried setup (`OneLiveCard`), an answer to every
  accepted request (`RequestAnswered`); one entry per thesis (`OneEntryPerThesis`), a
  dismissal is a veto (`VetoKept`), follow-ups say what happened (`FollowUpIsTrue`), every
  card ends (`CardEnds`).
- **Insider watch.** No decision on a partial history (`WatchComplete`), and a capture that
  catches up (`CaptureCatchesUp`).
- **Account.** Drawdown counts trading only (`DrawdownIsTrading`), evidence never goes back in
  time and a refresh that was overtaken changes nothing any more, whether it commits or fails
  (`EvidenceNeverOlder`), a risk history is kept (`RiskHistoryKept`).
- **Operations.** Each incident is told as one story, paged on time, and nothing held back in
  quiet hours is lost (`OperatorTold`); late reads keep their slots (`ReadsBounded`).
- **Research.** One owner per instrument and probes within their slots (`OneOwner`); one
  residual lineage and no hindsight (`CampaignSound`); every prompt window decided once or named
  as a gap (`DecisionsSound`); confirmation windows used once and recoverable, charges counted once
  (`LaneSound`); holdouts consumed once, unseen by qualifications, diagnostics, tests and their
  own run's mining (`HoldoutUnseen`).

### Four disagreements

The counterexample runs show the code departing from what its own text says. Each is
described in `PROJECT.json` under `findings` with the quoted line.

- `resume_race`: `resume_trading` checks for unresolved submissions and clears the halt in
  separate transactions. A submission may turn unknown in between, and the halt its
  ambiguous outcome stored is cleared (`UnknownKeepsHalt`).
- `close_link_race`: the exit link and the request status are saved in two transactions.
  Another process may fail the request in between, and the late save links the signal to a
  failed close, which then refuses later closes (`FailedCloseReleased`). This is why
  `FilledCloseAccounted` excepts a signal left in that state.
- `card_crash`: the card is expired in one transaction and its strike queued in a later one.
  A crash or a failed write in between leaves the card without its strike
  (`ExpiredCardStruck`).
- `probe_kill`: the "sticky" kill of a probe is recomputed from the sum of its closes, so a
  later profit revives it (`KillIsSticky`). `OneOwner` sets such versions aside.

A smaller one has no run: a summary decision that fails once and is made by a later pass of
the window moves the alert clock later, where `diagnostics/monitor.py:73` says never later.
`PageOnTime`, a part of `OperatorTold`, is therefore about windows whose summary was read.

### Deadlock

`entry_safety` and `resume_race` check deadlock. The other instances come to rest once every
item is settled and the bounds are used up; the system then waits for new work, so their
configurations say `CHECK_DEADLOCK FALSE`.

## 5. Fairness

Liveness is checked under weak fairness of the steps that the code repeats or bounds:

- dispatch, recovery and delivery: `_run_worker` calls them every
  `worker_interval_seconds`, also after an exception;
- the monitor's recover, reconcile and observe: the minute job;
- the auto-entry sweep (every minute) and card expiry (every five minutes, also under a halt);
- the steps of a running scan, and a background scan's attempt to take the lock: it waits
  with a timeout;
- the capture worker's polls, and EDGAR's filings and indexes (never a document's body);
- the end of a remote request: the transport has a timeout;
- the clock: leases lapse, windows close, cards age.

Strong fairness appears in `PositionClose`, for booking the exit and for looking up one
request. A process does one thing at a time, so these are enabled again and again rather
than continuously, and the monitor runs each of them on every tick. Nothing is assumed of
an operator, of the order in which the broker fills, or of crashes.

`EntriesSettle` excepts one case that the code leaves to the operator: a process dies
between its commit and the POST. Lookups then find nothing, and nothing may send again.

## 6. What is proved

Eight modules hold theorems. Each is about every value of the module's constants: any cards,
workers, processes, clients, requests, notices, importers and activities, any quantity and any
bound on faults. The assumptions are the named `ASSUME`s of the modules: the bounds and the
order's quantity are natural numbers, the attempt budget and the position's size are positive,
scanned cards are cards, the sweep is no client, and the value that stands for nobody or
nothing (`NoOne`, `NoRequest`, `NoCard`, `NoAccount`) is outside the sets it is used with.
Times, dates, amounts and prices are integers. A decision window becomes available after the
one before it, and there are finitely many of them, as of setups. A campaign proposes at least
one formula and freezes only what it proposed. A filing is of an EDGAR business day, and the
kill rule is a loss. Each `ASSUME` is evaluated on the instances of section 4. The safety
properties are not inductive as they stand. Each proof has an inductive invariant that says
what every party may rely on between its transactions, one lemma per part of it and one step
per action.

### EntryWorkflowProofs

| Theorem | Statement |
|---|---|
| `Inductive` | `Spec => []IndInv` |
| `TypeCorrect` | `Spec => []TypeOK` |
| `AtMostOnePost` | `Spec => []OnePostPerEntry` |
| `ReservedWhileExposed` | `Spec => []ExposureIsReserved` |
| `SerialSubmission` | `Spec => []HeadSerialises` |
| `HaltIsTight` | `Spec => []HaltBoundsPosts` |
| `OneStory` | `Spec => []RecordsAgree` |
| `NoResubmission` | `Spec => NeverResubmitted` |
| `QueueOrder` | `Spec => PostsInQueueOrder` |
| `KeepsPromise` | `Spec => ReservationPromise` |

"At most one POST", for instance, needs to know that a worker about to POST still owns the
token, that its item is `submitting`, and that no POST was made for it; that in turn needs the
item not to be claimable by anyone else. `IndInv` collects:

- `StatusKnowledge`: what an item's status says of its signal, its commit and its order;
- `WorkerKnowledge`: past `begin_submission` the token stays the worker's own and its reply
  is true of the order; before it, a row that names the worker is still being checked;
- `LookupKnowledge`: a lookup's answer stays true until it is applied;
- `QueueKnowledge`: event ids order the rows totally, and only the oldest blocking row is
  worked on;
- `HaltKnowledge`: under a halt a submission is either still to leave or already counted.

`OneSubmitter`, that two workers are never both between commit and POST, follows from the
queue and the token parts and is what bounds the POSTs after a halt.

`KeepsPromise` is the refinement of `EntryReservation`. `MappedInit` maps the initial states,
`MappedNext` every step under `IndInv`: authorization, commit, POST, refusal, outcome and
release are steps of the promise, and claims, preflights, lapses, crashes and lookups are
stutters. The hard steps are the ones that change one card's exposure while another's is
untouched (`ExposureKept`, `ExposureMoves`).

### ExitProofs: EntryCancel, ReleaseExit, TrailingStops

| Theorem | Statement |
|---|---|
| `CancelInductive` | `Spec => []CancelInv` |
| `AtMostOneDelete` | `Spec => []OneCancel` |
| `VerdictsAreTrue` | `Spec => []SettledIsTrue` |
| `ReadingsNeverAhead` | `Spec => []ReadingsArePast` |
| `ReleaseIsAccounted` | `ReleaseSpec => []ReleaseAccounted` |
| `ProtectionOnlyRatchets` | `TrailSpec => ProtectionRatchets` |

`OneOwner`: the process that may still send the DELETE owns the one item, and none was sent
before. `ReadingsArePast`: what is journaled of the bracket, or was read and is yet to be
journaled, is a state the bracket was in. A terminal state is never left, so a terminal
reading is the present, however late it is applied; the verdicts follow.

`ReleaseInv`: a process at the closes works on the recorded pass and still has to do every owed
close that has no outcome (`FitPass`); a process at the broker holds the claim of a request
that has no order yet, and no other process does (`FitPost`, `OnePoster`); what a position's
request, outcome and notices say of each other is `FitDay`.

`TrailInv`: the order in force is where the replacement links end. It is defined by a
recursion; links lead to later orders only, so there is one function that satisfies it
(`EndsAt`). At most that order rests, at most one replacement of it is pending, and that one is
tighter (`OneResting`, `PatchesTighten`); what the desk is about to save is bounded by the
order in force (`SavesConfirmed`), which also makes good the card's stop while it is recorded.

### PositionCloseProofs

| Theorem | Statement |
|---|---|
| `CloseInductive` | `Spec => []CloseInv` |
| `SalesAreCovered` | `Spec => []SellsCovered` |
| `RecordsAreTrue` | `Spec => []CloseIsTrue` |
| `ChecksStayGood` | `Spec => []ClearWhilePosting` |

The POST of a close relies on checks made before it, without a lock, while other processes
run. `ClearWhilePosting` says that they still hold: the bracket is over, the position is whole
and no other close lives. That rests on `OwnersKnown` (an unposted request is claimed, and is
known to its process alone), `ClaimsKnown` (one active request; a request whose order can sell
is active) and `SalesKnown` (what was sold, and by which order). `ResultsKnown` carries the
truth of a broker's answer over the two transactions that save it.

### CardProofs: CardLifecycle, InsiderWatch

| Theorem | Statement |
|---|---|
| `CardInductive` | `Spec => []CardInv` |
| `OneEntry` | `Spec => []OneEntryPerThesis` |
| `VetoIsFinal` | `Spec => VetoKept` |
| `FollowUpsAreTrue` | `Spec => []FollowUpIsTrue` |
| `WatchHistoryComplete` | `WatchSpec => []WatchComplete` |

The sweep selects its cards in one transaction and journals each outcome in a later one.
`SweepKnown` says what still holds in between: a selected card is an original and marked one,
with no attempt journaled, and an outcome `entered` that is still to be journaled is the
sweep's own entry. `RowsKnown` ties a card's entry, status, replacement and notices together.

`WatchInv`: a captured date names every document of its scope, as read or as an error, and a
date recorded without an index had no filing (`FitEvent`). The second rests on EDGAR's indexes
having no holes (`FitEdgar`), and on what a pass holds: only dates before the one it has
reached, all of them behind the day it began on (`FitPass`).

### CardScanProofs

| Theorem | Statement |
|---|---|
| `CardsAreRationed` | `ScanSpec => []CardsRationed` |
| `ScanIsAccounted` | `ScanSpec => []ScanAccounted` |
| `LiveCardIsOne` | `ScanSpec => []OneLiveCard` |

A scan reads once what it may still spend, for the date at that time, and then counts for
itself while the clock, the taps and the repriced cards go on. `Rationed` says that the cards
recorded since that date and what the scan has left stay together within each limit, which also
covers a scan that runs over midnight. `Passed` says that the refusals the candidate
has passed still hold when its card is recorded: the live cards can change only by a tap, by
the end of a card or by a replacement, none of which adds one to a setup without a live card.
`Told` says that the outcomes of the loop are the cards it recorded. Counts are cardinalities
of sets of card numbers, and a new card adds one element to the sets it belongs to.

### StoreProofs: AccountLedger, Outbox, OrderProjection

| Theorem | Statement |
|---|---|
| `OutboxInductive` | `Spec => []OutboxInv` |
| `ClaimsAreHeld` | `Spec => ClaimsHold` |
| `ProjectionInductive` | `OrderSpec => []ProjectionInv` |
| `ProjectionTrue` | `OrderSpec => []ProjectionIsTrue` |
| `NeverBack` | `OrderSpec => NeverRollsBack` |
| `OneAccountTheorem` | `LedgerSpec => []OneAccount` |
| `ReplayTheorem` | `LedgerSpec => []JournalAgrees` |
| `EvidenceTheorem` | `LedgerSpec => EvidenceNeverOlder` |
| `RiskHistoryTheorem` | `LedgerSpec => RiskHistoryKept` |

`requeue_notification` resets the row's count, so the row does not show what a notice has
spent. `BudgetSpent` does: at most the whole budget for each earlier round, and the row's
count for the present one. `ConsumerKnowledge` says that a consumer reports success only of a
message the chat has.

That a rebuild gives the stored view is an induction over the journal. It is made along the
behaviour instead. `ReplayKnown` says that some function satisfies the recursion of `Replay`,
and that every function which does ends in the stored view; a step appends at most one event,
so it extends such a function by one value. A repeated payload finds its old event and must be
refused again, which is `EventsApplied`. That an entry is released only if no fill can follow
uses `VersionsKnown`: only the last version is final.

Of the ledger's constants it is assumed that amounts are integers (not zero unless revised),
that every activity has one of the four kinds, and that the opening activities are activities.
`commit` compares neither the account nor the age of what it stores; it compares the token.
That this is enough rests on `LedgerInv`: tokens are handed out once (`TokensFence`), so the
owner of the current one read after everything stored (`RowNewest`), and one that was overtaken
owns nothing (`OvertakenIsQuiet`); a refresh past `bind` reads the bound
account (`ReadsAreBound`); row, projection and journal agree (`JournalAgrees`), which is what
lets `rebuild` keep all of it.

### DecisionProofs: DailyCampaign, SessionDecisions

| Theorem | Statement |
|---|---|
| `DailyCampaignSound` | `DailySpec => []CampaignSound` |
| `SessionDecisionsSound` | `SessionSpec => DecisionsSound` |

A daily decision joins the residual lineage when it is committed, possibly late. That it joins
at the end rests on `LineageHead`: the campaign points at the last link, and the one claim in
flight is after every link. `DecisionSound` and `OutcomeSound` say that what is committed was
claimed in order and in its window, and that an outcome followed.

A session poll plans with a cursor it read earlier. The compare-and-set of
`plan_session_decisions` makes it the present one, and between the old and the new cursor every
prompt window is a claim of the plan or lies in the gap the plan names (`PlanCovers`), also when
the poll takes only the first windows that are due: a prompt window that became available after
the calendar's first midnight is of a session in the calendar (`CalendarCovers`).
`WindowsAccounted` is inductive with the types and `ServiceSound`: a poll's time is not ahead of
the clock, and past `_capture` a service has a window whose exposure is durable.

### ResearchProofs: PooledCampaign, AlphaRegistry, ResearchBudget, ProviderReads

| Theorem | Statement |
|---|---|
| `PooledLaneSound` | `PooledSpec => []LaneSound` |
| `RegistryHasOneOwner` | `Spec => []OneOwner` |
| `HoldoutIsUnseen` | `BudgetSpec => HoldoutUnseen` |
| `ReadsStayBounded` | `ReadSpec => []ReadsBounded` |

- `PooledInv`: a write of a run, also one that commits after its caller gave up, relies on what
  earlier writes have journaled (`WriteReady`), and the journal only grows (`JournalGrows`); a
  consumed window has at most one run that is about to open it or did (`OpenedInv`).
- `RegistryInv`: time and losses take owners away and never add one; only a promotion or an
  enrolment does, and it checks the owners of that moment. A version at the kill rule is among
  those that ever were (`KillNoted`).
- `BudgetInv`: whatever was looked at lies in an interval of the journal (`DaysSpokenFor`), what
  a run mined lies before its holdout (`MinedApart`), and no run computes more than it reserved
  (`TrialsCharged`). The family's count is a sum over an
  unbounded set of runs: it is stated as the size of a set with one token per trial.
- `ReadsInv`: a call under way has left its unfinished reads behind at earlier providers, but
  for the one it waits for (`ReadsBehind`).

### Induction

The induction theorems of the library take an operator as a parameter, which these provers
cannot instantiate. Where a proof needs induction over the natural numbers (the greatest
element of a finite set, the last order on which two functions differ, the last date of a
journal) it takes the least counterexample: a set of natural numbers that is not empty has a
least element, which follows from the well-foundedness of `<` without such a parameter.

### What is left to TLC

- Liveness (`EntriesSettle`, `NoticesSettle`, `DeadEntryReleased`, `FilledCloseAccounted`,
  `CancelSettles`, `RequestAnswered`, `CardEnds`, `CaptureCatchesUp`): fairness is defined with
  `ENABLED`, which these provers do not handle.
- `DrawdownIsTrading`: it does not hold for all amounts, since unlisted activities may cancel in
  the account's cash and `reconcile` then cannot see them. It needs amounts of which no two sets
  have the same sum, as in the instance, and sums over sets, which are recursive over data.
- `BookAdmitted`: it compares two sums of risk over a book, which again are recursive over data.
- `OperatorTold`: it has no proof yet. Its clock arithmetic is modulo the day, and the state
  machine it is about is one large definition by cases.

Only proved, and not the property of a run: the inductive invariants, `RecordsAgree`,
`NeverResubmitted`, `HeadSerialises`, `ReadingsArePast`, `ClearWhilePosting`, `OneAccount` and
`JournalAgrees`.

## 7. Not modelled

Most of the source is numeric or presentational, and has no state that two parties share:

- `research/`, `backtest/`, `screeners/`, `options/`, `pairs/`, `telemetry/`: statistics,
  simulation and pricing. Their claims and journals are modelled (section 3); what they
  compute is a free choice. Floating-point results are out of TLC's reach.
- `cli/`, `notifier/telegram_bot.py`: wiring, parsing and rendering. A command's effect is
  the action of the module it calls.
- strategies, regime, language-model calls, indicators, sizing: a verdict, chosen freely.
- provider I/O and the other capture workers (filings, earnings, corporate actions), which
  append under a key and never revise.
- readiness checks: read-only, the arbitrary flags of `Incidents`.
- `broker/redundant.py`, a circuit breaker around two brokers that keeps no durable state; the
  hazard of a second submission after a lost answer is listed in `PROJECT.json`.
- the simulated brokers and the slicer they use; schema, migrations and maintenance.

Within modelled parts: `consume_lane_confirmation`, the deadline arithmetic of
`lifetime_policy`, the websocket's reconnection, limits on notional, asset class and
correlation, book sizing and the gates at scan time. A process that dies between a close's
claim and its POST leaves the request to the operator, as the documentation says.

## 8. Plan

- A symbol-level composition of entry, cancellation, close and trailing stop.
- Several components per instance of `Incidents`, and lots in `AccountLedger`.
- Proofs of `OperatorTold` and `BookAdmitted`.

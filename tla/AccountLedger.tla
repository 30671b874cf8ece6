--------------------------- MODULE AccountLedger ---------------------------
(***************************************************************************)
(* The account ledger: the importer of accounting/service.py, the fenced   *)
(* checkpoint row, activity projection and journal of storage/ledger.py,   *)
(* reconcile of accounting/ledger.py and the cash-flow-adjusted risk       *)
(* history of accounting/risk.py.  The monitor, every entry's preflight    *)
(* and the command line import concurrently, from processes of their own;  *)
(* each import is three remote reads that nothing holds still.             *)
(***************************************************************************)
EXTENDS Integers, FiniteSetsExt

CONSTANTS
    Activities,     \* activity ids
    Kind,           \* the activity_type of each: "fill", "transfer", "journal" or "fee"
    Amount,         \* its amount: signed net_amount, or the cost of a fill
    Revised,        \* its amount after a correction by the broker; 0 removes it
    Opening,        \* activities that may be on the books before the first import
    Accounts,       \* account ids a broker connection may answer for
    NoAccount,      \* the empty account_id of an unbound ledger
    Marks,          \* unrealized P/L of the positions
    Importers,      \* processes that import
    MaxChanges,     \* bound on the changes at the broker
    MaxBegins,      \* bound on imports and rebuilds
    MaxAge          \* AccountingConfig.max_age_seconds, in changes at the broker

ASSUME AmountAssumption ==
    /\ Amount \in [Activities -> Int \ {0}]
    /\ Revised \in [Activities -> Int]
ASSUME KindAssumption == Kind \in [Activities -> {"fill", "transfer", "journal", "fee"}]
ASSUME BoundAssumption == MaxChanges \in Nat /\ MaxBegins \in Nat /\ MaxAge \in Nat
ASSUME AccountAssumption == NoAccount \notin Accounts
ASSUME OpeningAssumption == Opening \subseteq Activities

VARIABLES
    posted,         \* the broker's books: the amount of each activity, 0 when there is none
    listed,         \* the activities the broker lists, which may lag behind the books
    mark,           \* unrealized P/L now
    now,            \* changes at the broker so far: the time
    row,            \* LedgerCheckpointRecord: token (0: no row), account, payload
    views,          \* ActivityProjectionRecord: pairs of id and amount
    ledgerEvents,   \* the ledger's events, folded in order: account, views, checkpoint
    begins,         \* tokens handed out
    imp             \* the state of each importer's refresh

ledgerVars == <<posted, listed, mark, now, row, views, ledgerEvents, begins, imp>>

-----------------------------------------------------------------------------
(* Evidence. *)

Entries(books) == {<<a, books[a]>> : a \in {b \in Activities : books[b] # 0}}
OfKind(acts, kind) == {e \in acts : Kind[e[1]] = kind}
Total(acts) == MapThenSumSet(LAMBDA e : e[2], acts)
CashOf(acts) == Total(acts) - 2 * Total(OfKind(acts, "fill"))
InventoryOf(acts) == Total(OfKind(acts, "fill"))

\* account_snapshot: gain is a history variable, the trading result the account has made.
Snapshot(account) ==
    LET books == Entries(posted) IN
    [account |-> account, cash |-> CashOf(books), inventory |-> InventoryOf(books),
     unrealized |-> mark, at |-> now, gain |-> mark + Total(OfKind(books, "fee"))]

accounting_identity(snapshot) == <<snapshot.account, snapshot.cash, snapshot.inventory>>

\* reconcile: the activities explain the cash and the quantities of the snapshot.
Reconciled(acts, snapshot) ==
    CashOf(acts) = snapshot.cash /\ InventoryOf(acts) = snapshot.inventory

Equity(snapshot) == snapshot.cash + snapshot.inventory + snapshot.unrealized

NoRisk == [at |-> -1]
NoSnapshot == [at |-> -1]

\* The checkpoint: the import's error, its report and snapshot, and the risk fields.
Payload(error, ready, snapshot, risk, riskError, invalidated) ==
    [error |-> error, ready |-> ready, snapshot |-> snapshot,
     risk |-> risk, riskError |-> riskError, invalidated |-> invalidated]
NoCheckpoint == Payload(FALSE, FALSE, NoSnapshot, NoRisk, FALSE, FALSE)

\* Mutant: journals are not compared.
HistoryRevisedUnjournalled(prior, acts) == ~ (prior.transfers \subseteq OfKind(acts, "transfer"))

\* _RiskHistoryInvalidation: a journal changed, or an accepted transfer was revised or removed.
HistoryRevised(prior, acts) ==
    \/ OfKind(acts, "journal") # prior.journals
    \/ ~ (prior.transfers \subseteq OfKind(acts, "transfer"))

\* The baseline is the first good observation; baseGain is its trading result (history).
NextRisk(prior, snapshot, acts) ==
    LET equity == Equity(snapshot)
        flows == Total(OfKind(acts, "transfer"))
        first == prior = NoRisk
        baseFlows == IF first THEN flows ELSE prior.baseFlows
        adjusted == equity - (flows - baseFlows)
    IN  [at |-> snapshot.at,
         baseEquity |-> IF first THEN equity ELSE prior.baseEquity,
         baseFlows |-> baseFlows,
         baseGain |-> IF first THEN snapshot.gain ELSE prior.baseGain,
         adjusted |-> adjusted,
         highWater |-> IF first \/ adjusted > prior.highWater THEN adjusted ELSE prior.highWater,
         transfers |-> OfKind(acts, "transfer"),
         journals |-> IF first THEN OfKind(acts, "journal") ELSE prior.journals]

\* A checkpoint that yields no new risk keeps the last good one.
RiskUnusable(prior, ready, snapshot) ==
    \/ ~ ready
    \/ prior # NoRisk /\ snapshot.at < prior.at
    \/ prior = NoRisk /\ Equity(snapshot) <= 0

\* The payload of a commit: an invalidation is permanent, and a revision of the accepted
\* history invalidates it.
advance_risk_checkpoint(previous, ready, snapshot, acts) ==
    LET prior == previous.risk
        Imported(risk, riskError, invalidated) ==
            Payload(FALSE, ready, snapshot, risk, riskError, invalidated)
    IN  IF previous.invalidated THEN Imported(prior, TRUE, TRUE)
        ELSE IF RiskUnusable(prior, ready, snapshot) THEN Imported(prior, TRUE, FALSE)
        ELSE IF prior # NoRisk /\ HistoryRevised(prior, acts) THEN Imported(prior, TRUE, TRUE)
        ELSE Imported(NextRisk(prior, snapshot, acts), FALSE, FALSE)

\* require_risk_checkpoint, as an entry's admission calls it through current_risk.
RiskAvailable ==
    LET check == row.payload IN
    /\ ~ check.invalidated /\ ~ check.riskError /\ ~ check.error /\ check.ready
    /\ check.risk # NoRisk
    /\ check.risk.at = check.snapshot.at
    /\ now - check.risk.at <= MaxAge

-----------------------------------------------------------------------------

\* A refresh: its token, the identity of the first snapshot, the activities, the second
\* snapshot and the readiness of their report.
Refresh(pc, token, before, acts, after, ready) ==
    [pc |-> pc, token |-> token, before |-> before, acts |-> acts, after |-> after, ready |-> ready]
Idle == Refresh("idle", 0, <<>>, {}, NoSnapshot, FALSE)
Failing(token) == Refresh("fail", token, <<>>, {}, NoSnapshot, FALSE)
NoRow == [token |-> 0, account |-> NoAccount, payload |-> NoCheckpoint]

LedgerInit ==
    /\ \E opened \in SUBSET Opening :
          posted = [a \in Activities |-> IF a \in opened THEN Amount[a] ELSE 0]
    /\ listed = posted
    /\ mark \in Marks
    /\ now = 0
    /\ row = NoRow
    /\ views = {}
    /\ ledgerEvents = [account |-> NoAccount, views |-> {}, payload |-> NoCheckpoint]
    /\ begins = 0
    /\ imp = [p \in Importers |-> Idle]

(* The broker. *)

BrokerMoves ==
    /\ now < MaxChanges
    /\ now' = now + 1
    /\ UNCHANGED <<row, views, ledgerEvents, begins, imp>>

\* A fill, a transfer, a journal or a fee reaches the books; it may be listed later.
Post(a) ==
    /\ BrokerMoves
    /\ posted[a] = 0
    /\ posted' = [posted EXCEPT ![a] = Amount[a]]
    /\ \E isListed \in BOOLEAN :
          listed' = IF isListed THEN [listed EXCEPT ![a] = Amount[a]] ELSE listed
    /\ UNCHANGED mark

\* The broker corrects or removes an activity.
Revise(a) ==
    /\ BrokerMoves
    /\ posted[a] = Amount[a]
    /\ posted' = [posted EXCEPT ![a] = Revised[a]]
    /\ \E isListed \in BOOLEAN :
          listed' = IF isListed THEN [listed EXCEPT ![a] = Revised[a]] ELSE listed
    /\ UNCHANGED mark

ListingCatchesUp ==
    /\ BrokerMoves
    /\ listed # posted
    /\ listed' = posted
    /\ UNCHANGED <<posted, mark>>

MarkMoves ==
    /\ BrokerMoves
    /\ mark' \in Marks \ {mark}
    /\ UNCHANGED <<posted, listed>>

-----------------------------------------------------------------------------
(* LedgerStore: each operation is one transaction under LEDGER_LOCK. *)

unchangedBroker == UNCHANGED <<posted, listed, mark, now>>

\* begin: a new token fences every refresh that is already running.
begin(p) ==
    /\ imp[p].pc = "idle"
    /\ begins < MaxBegins
    /\ begins' = begins + 1
    /\ row' = [row EXCEPT !.token = begins + 1]
    /\ imp' = [imp EXCEPT ![p] = Refresh("begun", begins + 1, <<>>, {}, NoSnapshot, FALSE)]
    /\ UNCHANGED <<views, ledgerEvents>>
    /\ unchangedBroker

\* Mutant: any begun refresh owns the row.
OwnsTokenUnfenced(p) == row.token # 0

OwnsToken(p) == row.token = imp[p].token

ReadBefore(p) ==
    /\ imp[p].pc = "begun"
    /\ \E account \in Accounts :
          imp' = [imp EXCEPT ![p] =
                    Refresh("bind", @.token, accounting_identity(Snapshot(account)), {}, NoSnapshot, FALSE)]
    /\ UNCHANGED <<row, views, ledgerEvents, begins>>
    /\ unchangedBroker

\* bind: the first account is journalled; any other raises, as a superseded token does.
BindAccepts(p) == OwnsToken(p) /\ row.account \in {NoAccount, imp[p].before[1]}

bind(p) ==
    /\ imp[p].pc = "bind"
    /\ \/ /\ BindAccepts(p)
          /\ row' = [row EXCEPT !.account = imp[p].before[1]]
          /\ ledgerEvents' = [ledgerEvents EXCEPT !.account = imp[p].before[1]]
          /\ imp' = [imp EXCEPT ![p] = Refresh("list", @.token, @.before, {}, NoSnapshot, FALSE)]
       \/ /\ ~ BindAccepts(p)
          /\ imp' = [imp EXCEPT ![p] = Failing(@.token)]
          /\ UNCHANGED <<row, ledgerEvents>>
    /\ UNCHANGED <<views, begins>>
    /\ unchangedBroker

ReadActivities(p) ==
    /\ imp[p].pc = "list"
    /\ imp' = [imp EXCEPT ![p] = Refresh("after", @.token, @.before, Entries(listed), NoSnapshot, FALSE)]
    /\ UNCHANGED <<row, views, ledgerEvents, begins>>
    /\ unchangedBroker

\* reconcile, with the issue refresh adds when the account moved between the reads.
ReportReady(before, acts, after) ==
    Reconciled(acts, after) /\ before = accounting_identity(after)

\* The second snapshot and the report; another account raises before anything is stored.
ReadAfter(p) ==
    /\ imp[p].pc = "after"
    /\ \E account \in Accounts :
          LET after == Snapshot(account) IN
          imp' = [imp EXCEPT ![p] =
                    IF account = @.before[1]
                    THEN Refresh("commit", @.token, <<>>, @.acts, after, ReportReady(@.before, @.acts, after))
                    ELSE Failing(@.token)]
    /\ UNCHANGED <<row, views, ledgerEvents, begins>>
    /\ unchangedBroker

\* Any of the remote reads raises.
ReadFails(p) ==
    /\ imp[p].pc \in {"begun", "list", "after"}
    /\ imp' = [imp EXCEPT ![p] = Failing(@.token)]
    /\ UNCHANGED <<row, views, ledgerEvents, begins>>
    /\ unchangedBroker

CommittedPayload(p) ==
    advance_risk_checkpoint(row.payload, imp[p].ready, imp[p].after, imp[p].acts)

\* commit: the changed activities are observed, the missing ones retracted, then the checkpoint.
commit(p) ==
    /\ imp[p].pc = "commit"
    /\ \/ /\ OwnsToken(p)
          /\ LET acts == imp[p].acts
                 observed == acts \ views
                 named(es) == {e[1] : e \in es}
                 retracted == named(views) \ named(acts)
             IN  /\ ledgerEvents' = [ledgerEvents EXCEPT
                       !.views = {e \in @ : e[1] \notin retracted \cup named(observed)} \cup observed,
                       !.payload = CommittedPayload(p)]
                 /\ views' = acts
          /\ row' = [row EXCEPT !.payload = CommittedPayload(p)]
          /\ imp' = [imp EXCEPT ![p] = Idle]
       \/ /\ ~ OwnsToken(p)
          /\ imp' = [imp EXCEPT ![p] = Failing(@.token)]
          /\ UNCHANGED <<row, views, ledgerEvents>>
    /\ UNCHANGED begins
    /\ unchangedBroker

\* Mutant: a failure starts a new payload.
FailedPayloadFresh(payload) ==
    Payload(TRUE, payload.ready, payload.snapshot, NoRisk, payload.riskError, payload.invalidated)

FailedPayload(payload) ==
    Payload(TRUE, payload.ready, payload.snapshot, payload.risk, payload.riskError, payload.invalidated)

\* Mutant: fail does not look at the token.
FailOwnsAny(p) == row.token # 0

\* fail's own check of the token.
FailOwns(p) == OwnsToken(p)

\* fail: a superseded importer records nothing.
fail(p) ==
    /\ imp[p].pc = "fail"
    /\ imp' = [imp EXCEPT ![p] = Idle]
    /\ \/ /\ FailOwns(p)
          /\ row' = [row EXCEPT !.payload = FailedPayload(@)]
          /\ ledgerEvents' = [ledgerEvents EXCEPT !.payload = FailedPayload(row.payload)]
       \/ ~ FailOwns(p) /\ UNCHANGED <<row, ledgerEvents>>
    /\ UNCHANGED <<views, begins>>
    /\ unchangedBroker

\* The process dies: its refresh leaves no trace.
ImporterCrashes(p) ==
    /\ imp[p].pc # "idle"
    /\ imp' = [imp EXCEPT ![p] = Idle]
    /\ UNCHANGED <<row, views, ledgerEvents, begins>>
    /\ unchangedBroker

\* rebuild: drop row and projection and replay the events under a fresh token.
rebuild ==
    /\ begins < MaxBegins
    /\ begins' = begins + 1
    /\ row' = IF ledgerEvents.account = NoAccount /\ ledgerEvents.payload = NoCheckpoint
              THEN NoRow
              ELSE [token |-> begins + 1, account |-> ledgerEvents.account, payload |-> ledgerEvents.payload]
    /\ views' = ledgerEvents.views
    /\ UNCHANGED <<ledgerEvents, imp>>
    /\ unchangedBroker

LedgerNext ==
    \/ \E a \in Activities : Post(a) \/ Revise(a)
    \/ ListingCatchesUp
    \/ MarkMoves
    \/ \E p \in Importers :
          \/ begin(p) \/ ReadBefore(p) \/ bind(p) \/ ReadActivities(p) \/ ReadAfter(p)
          \/ ReadFails(p) \/ commit(p) \/ fail(p) \/ ImporterCrashes(p)
    \/ rebuild

LedgerSpec == LedgerInit /\ [][LedgerNext]_ledgerVars

-----------------------------------------------------------------------------
(* Properties. *)

\* What admission reads is the trading result since the baseline, whatever was deposited,
\* withdrawn or journalled meanwhile and however the listing lagged behind the books
\* (refresh, reconcile and advance_risk_checkpoint together).
DrawdownIsTrading ==
    RiskAvailable =>
        LET risk == row.payload.risk IN
        /\ risk.adjusted - risk.baseEquity = row.payload.snapshot.gain - risk.baseGain
        /\ risk.highWater >= risk.adjusted /\ risk.highWater >= risk.baseEquity

\* The stored evidence never goes back in time, and a refresh that a later begin or a rebuild
\* overtook changes nothing any more, wherever it stands: it neither binds an account, nor
\* overwrites, nor marks as failed what the later one stored (token of begin, bind, commit, fail).
EvidenceNeverOlder ==
    [][/\ row'.payload.snapshot.at >= row.payload.snapshot.at
       /\ \A p \in Importers :
             imp[p].pc # "idle" /\ imp[p].token < begins /\ imp'[p] # imp[p] =>
                 UNCHANGED <<row, views, ledgerEvents>>]_ledgerVars

\* A risk history is for ever: no import, failure, crash or rebuild moves its baseline, lowers
\* its high-water mark, drops it, or clears an invalidation (advance_risk_checkpoint).
RiskHistoryKept ==
    [][/\ row.payload.invalidated => row'.payload.invalidated
       /\ row.payload.risk # NoRisk =>
             /\ row'.payload.risk # NoRisk
             /\ row'.payload.risk.baseEquity = row.payload.risk.baseEquity
             /\ \/ row'.payload.risk.highWater = row.payload.risk.highWater
                \/ row'.payload.risk.highWater > row.payload.risk.highWater]_ledgerVars

\* A ledger holds one account: the stored snapshot and every activity set came from the
\* account first bound, although commit itself compares neither (bind, refresh).
OneAccount ==
    row.payload.snapshot # NoSnapshot => row.payload.snapshot.account = row.account

=============================================================================

----------------------------- MODULE StoreProofs ----------------------------
(***************************************************************************)
(* Theorems about what the store keeps: AccountLedger for any number of    *)
(* importers, activities, accounts and imports; Outbox for any notices,    *)
(* consumers, budgets and bounds on retries and faults; OrderProjection    *)
(* for any quantity and number of versions.                                *)
(*                                                                         *)
(* Outbox: the budget of claims is not inductive: what a notice has spent  *)
(* is what its earlier rounds may have spent and what the row counts in    *)
(* this one (BudgetSpent).  That a delivered notice reached the chat needs *)
(* what each consumer knows between the send and its transaction           *)
(* (ConsumerKnowledge).                                                    *)
(*                                                                         *)
(* OrderProjection: that a rebuild changes nothing is an induction over    *)
(* the journal.  It is made along the behaviour instead: at every moment   *)
(* some function satisfies the recursion of Replay, and every function     *)
(* that does ends in the stored view (ReplayKnown).  A repeated payload    *)
(* finds an old event, which must then be refused again: each journaled    *)
(* event is either not after the view's or older than the view             *)
(* (EventsApplied).                                                        *)
(***************************************************************************)
EXTENDS AccountLedger, Outbox, OrderProjection, TLAPS

(* The account ledger. *)

OneEntryEach(acts) == \A e, f \in acts : e[1] = f[1] => e = f

\* The row and the projection are what the journal replays to (begin, bind, commit, fail, rebuild).
JournalAgrees ==
    /\ row.payload = ledgerEvents.payload
    /\ row.account = ledgerEvents.account
    /\ views = ledgerEvents.views
    /\ OneEntryEach(views)

\* Tokens are handed out once, and the owner's second snapshot is no older than the stored one.
TokensFence ==
    /\ begins \in Nat /\ now \in Nat
    /\ row.token \in 0..begins
    /\ row.payload.snapshot.at \in Int /\ row.payload.snapshot.at <= now
    /\ \A p \in Importers :
          /\ imp[p].token \in 0..begins
          /\ imp[p].pc # "idle" => imp[p].token # 0
          /\ \A q \in Importers : p # q /\ imp[p].token = imp[q].token => imp[p].token = 0
          /\ imp[p].pc = "commit" =>
                /\ imp[p].after.at \in Int /\ imp[p].after.at <= now
                /\ imp[p].token = row.token => row.payload.snapshot.at <= imp[p].after.at

\* What a bound refresh has read belongs to the bound account.
ReadsAreBound ==
    /\ row.payload.snapshot # NoSnapshot => row.account # NoAccount
    /\ \A p \in Importers :
          /\ OneEntryEach(imp[p].acts)
          /\ imp[p].pc = "bind" => imp[p].before[1] \in Accounts
          /\ imp[p].pc \in {"list", "after"} => imp[p].before[1] = row.account /\ row.account # NoAccount
          /\ imp[p].pc = "commit" => imp[p].after.account = row.account /\ row.account # NoAccount

IsPayload(r) ==
    r = [error |-> r.error, ready |-> r.ready, snapshot |-> r.snapshot,
         risk |-> r.risk, riskError |-> r.riskError, invalidated |-> r.invalidated]

IsRefresh(r) ==
    r = [pc |-> r.pc, token |-> r.token, before |-> r.before,
         acts |-> r.acts, after |-> r.after, ready |-> r.ready]

\* The fields of the records; their values are left open.
Shape ==
    /\ row = [token |-> row.token, account |-> row.account, payload |-> row.payload]
    /\ ledgerEvents = [account |-> ledgerEvents.account, views |-> ledgerEvents.views, payload |-> ledgerEvents.payload]
    /\ IsPayload(row.payload)
    /\ imp = [p \in Importers |-> imp[p]]
    /\ \A p \in Importers : IsRefresh(imp[p])

LedgerInv == Shape /\ JournalAgrees /\ TokensFence /\ ReadsAreBound /\ OneAccount

-----------------------------------------------------------------------------

\* A step that leaves the ledger and the importers alone (BrokerMoves) keeps the invariant.
LEMMA BrokerStep ==
    ASSUME LedgerInv, BrokerMoves
    PROVE  LedgerInv'
<1>1. now' = now + 1 /\ row' = row /\ views' = views /\ ledgerEvents' = ledgerEvents /\ begins' = begins /\ imp' = imp
  BY Zenon DEF BrokerMoves
<1>2. now \in Nat /\ now' \in Nat
  BY <1>1 DEF LedgerInv, TokensFence
<1>3. Shape' /\ JournalAgrees' /\ ReadsAreBound' /\ OneAccount'
  BY Zenon, <1>1 DEF LedgerInv, Shape, JournalAgrees, ReadsAreBound, OneAccount, IsPayload, IsRefresh, OneEntryEach
<1>4. TokensFence'
  BY <1>1, <1>2 DEF LedgerInv, TokensFence
<1>. QED BY Zenon, <1>3, <1>4 DEF LedgerInv

\* The listing of the books has one entry per activity (Entries).
LEMMA EntriesOnce == \A books : OneEntryEach(Entries(books))
BY DEF OneEntryEach, Entries

\* Initially there is no row and every importer is idle (LedgerInit).
LEMMA InitInv == LedgerInit => LedgerInv
<1>. SUFFICES ASSUME LedgerInit PROVE LedgerInv OBVIOUS
<1>1. Shape
  BY Zenon DEF LedgerInit, Shape, NoRow, NoCheckpoint, Payload, IsPayload, IsRefresh, Idle, Refresh
<1>2. JournalAgrees
  BY Zenon DEF LedgerInit, JournalAgrees, NoRow, OneEntryEach
<1>3. TokensFence
  BY DEF LedgerInit, TokensFence, NoRow, NoCheckpoint, Payload, NoSnapshot, Idle, Refresh
<1>4. ReadsAreBound /\ OneAccount
  BY Zenon DEF LedgerInit, ReadsAreBound, OneAccount, NoRow, NoCheckpoint, Payload, NoSnapshot, Idle, Refresh, OneEntryEach
<1>. QED BY Zenon, <1>1, <1>2, <1>3, <1>4 DEF LedgerInv

\* begin keeps the invariant: the new token exceeds every token in use.
LEMMA BeginStep ==
    ASSUME LedgerInv, NEW p \in Importers, begin(p)
    PROVE  LedgerInv'
<1>1. row' = [token |-> begins + 1, account |-> row.account, payload |-> row.payload]
  BY Zenon DEF begin, LedgerInv, Shape
<1>2. \A q \in Importers : imp'[q] = IF q = p THEN imp'[p] ELSE imp[q]
  BY Zenon DEF begin, LedgerInv, Shape
<1>3. imp'[p] = [pc |-> "begun", token |-> begins + 1, before |-> <<>>, acts |-> {}, after |-> NoSnapshot, ready |-> FALSE]
  BY Zenon DEF begin, LedgerInv, Shape, Refresh
<1>4. begins' = begins + 1 /\ views' = views /\ ledgerEvents' = ledgerEvents /\ now' = now
  BY Zenon DEF begin, unchangedBroker
<1>5. Shape'
  BY Zenon, <1>1, <1>2, <1>3, <1>4 DEF begin, LedgerInv, Shape, IsPayload, IsRefresh
<1>6. JournalAgrees'
  BY Zenon, <1>1, <1>4 DEF LedgerInv, JournalAgrees, OneEntryEach
<1>7. TokensFence'
  <2>1. begins \in Nat /\ now \in Nat /\ TokensFence
    BY Zenon DEF LedgerInv, TokensFence
  <2>2. ASSUME NEW q \in Importers, q # p PROVE imp'[q] = imp[q] /\ imp[q].token \in 0..begins
    BY Zenon, <1>2, <2>1, <2>2 DEF TokensFence
  <2>3. imp'[p].token = begins + 1 /\ imp'[p].pc = "begun"
    BY <1>3
  <2>4. row'.token = begins + 1 /\ row'.payload = row.payload
    BY Zenon, <1>1
  <2>5. ASSUME NEW q \in Importers
        PROVE  /\ imp'[q].token \in 0..(begins + 1)
               /\ imp'[q].pc # "idle" => imp'[q].token # 0
               /\ \A r \in Importers : q # r /\ imp'[q].token = imp'[r].token => imp'[q].token = 0
    BY <2>1, <2>2, <2>3 DEF TokensFence
  <2>6. ASSUME NEW q \in Importers, imp'[q].pc = "commit"
        PROVE  /\ imp'[q].after.at \in Int /\ imp'[q].after.at <= now
               /\ imp'[q].token # row'.token
    BY <2>1, <2>2, <2>3, <2>4, <2>6 DEF TokensFence
  <2> QED
    BY <1>4, <2>1, <2>4, <2>5, <2>6 DEF TokensFence
<1>8. ReadsAreBound' /\ OneAccount'
  BY <1>1, <1>2, <1>3 DEF LedgerInv, ReadsAreBound, OneAccount, OneEntryEach
<1>. QED BY Zenon, <1>5, <1>6, <1>7, <1>8 DEF LedgerInv

\* A step of one importer that leaves the stored ledger alone keeps the invariant, provided
\* what the importer now holds is in order.
LEMMA LocalStep ==
    ASSUME LedgerInv, NEW p \in Importers,
           imp' = [imp EXCEPT ![p] = imp'[p]], IsRefresh(imp'[p]),
           imp'[p].token \in {0, imp[p].token},
           imp'[p].pc # "idle" => imp'[p].token # 0,
           OneEntryEach(imp'[p].acts),
           imp'[p].pc = "bind" => imp'[p].before[1] \in Accounts,
           imp'[p].pc \in {"list", "after"} => imp'[p].before[1] = row.account /\ row.account # NoAccount,
           imp'[p].pc = "commit" =>
              /\ imp'[p].after.account = row.account /\ row.account # NoAccount
              /\ imp'[p].after.at = now,
           UNCHANGED <<row, views, ledgerEvents, begins, now>>
    PROVE  LedgerInv'
<1>1. \A q \in Importers : q # p => imp'[q] = imp[q]
  BY Zenon DEF LedgerInv, Shape
<1>5. Shape'
  BY <1>1 DEF LedgerInv, Shape, IsPayload, IsRefresh
<1>6. JournalAgrees'
  BY Zenon DEF LedgerInv, JournalAgrees, OneEntryEach
<1>7. TokensFence'
  <2>. USE DEF LedgerInv, TokensFence
  <2>1. begins' \in Nat /\ now' \in Nat /\ row'.token \in 0..begins'
        /\ row'.payload.snapshot.at \in Int /\ row'.payload.snapshot.at <= now'
    BY Zenon
  <2>2. ASSUME NEW q \in Importers
        PROVE  /\ imp'[q].token \in 0..begins'
               /\ imp'[q].pc # "idle" => imp'[q].token # 0
               /\ \A r \in Importers : q # r /\ imp'[q].token = imp'[r].token => imp'[q].token = 0
    BY <1>1
  <2>3. ASSUME NEW q \in Importers, imp'[q].pc = "commit"
        PROVE  /\ imp'[q].after.at \in Int /\ imp'[q].after.at <= now'
               /\ imp'[q].token = row'.token => row'.payload.snapshot.at <= imp'[q].after.at
    <3>1. CASE q = p BY <1>1, <2>3, <3>1
    <3>2. CASE q # p BY <1>1, <2>3, <3>2
    <3>. QED BY Zenon, <3>1, <3>2
  <2>. QED BY Zenon, <2>1, <2>2, <2>3
<1>8. ReadsAreBound' /\ OneAccount'
  BY <1>1 DEF LedgerInv, ReadsAreBound, OneAccount, OneEntryEach
<1>. QED BY Zenon, <1>5, <1>6, <1>7, <1>8 DEF LedgerInv

\* The reads of a refresh, its failures before a transaction and its crash (refresh) change
\* only the importer.
LEMMA ReadSteps ==
    ASSUME LedgerInv, NEW p \in Importers,
           ReadBefore(p) \/ ReadActivities(p) \/ ReadAfter(p) \/ ReadFails(p) \/ ImporterCrashes(p)
    PROVE  LedgerInv'
<1>0. /\ imp[p].pc # "idle" => imp[p].token # 0
      /\ OneEntryEach(imp[p].acts) /\ OneEntryEach({})
      /\ imp = [q \in Importers |-> imp[q]]
      /\ imp[p] = [pc |-> imp[p].pc, token |-> imp[p].token, before |-> imp[p].before,
                   acts |-> imp[p].acts, after |-> imp[p].after, ready |-> imp[p].ready]
  BY Zenon DEF LedgerInv, Shape, TokensFence, ReadsAreBound, OneEntryEach, IsRefresh
<1>1. UNCHANGED <<row, views, ledgerEvents, begins, now>>
  BY Zenon DEF ReadBefore, ReadActivities, ReadAfter, ReadFails, ImporterCrashes, unchangedBroker
<1>2. CASE ReadBefore(p)
  <2>1. PICK account \in Accounts :
            imp' = [imp EXCEPT ![p] =
                      Refresh("bind", imp[p].token, accounting_identity(Snapshot(account)), {}, NoSnapshot, FALSE)]
    BY Zenon, <1>2 DEF ReadBefore
  <2>2. accounting_identity(Snapshot(account))[1] = account
    BY Zenon DEF accounting_identity, Snapshot
  <2>. DEFINE identity == accounting_identity(Snapshot(account))
  <2>. HIDE DEF identity
  <2>3. imp' = [imp EXCEPT ![p] = Refresh("bind", imp[p].token, identity, {}, NoSnapshot, FALSE)]
    BY Zenon, <2>1 DEF identity
  <2>4. imp'[p] = [pc |-> "bind", token |-> imp[p].token, before |-> identity,
                   acts |-> {}, after |-> NoSnapshot, ready |-> FALSE]
    BY Zenon, <1>0, <2>3 DEF Refresh
  <2>5. imp[p].pc = "begun"
    BY Zenon, <1>2 DEF ReadBefore
  <2>6. IsRefresh(imp'[p]) /\ imp' = [imp EXCEPT ![p] = imp'[p]]
    BY Zenon, <1>0, <2>3, <2>4 DEF IsRefresh
  <2>7. identity[1] = account
    BY Zenon, <2>2 DEF identity
  <2>9. /\ imp'[p].token \in {0, imp[p].token}
        /\ imp'[p].pc # "idle" => imp'[p].token # 0
        /\ OneEntryEach(imp'[p].acts)
        /\ imp'[p].pc = "bind" => imp'[p].before[1] \in Accounts
        /\ imp'[p].pc \in {"list", "after"} => imp'[p].before[1] = row.account /\ row.account # NoAccount
        /\ imp'[p].pc = "commit" =>
              /\ imp'[p].after.account = row.account /\ row.account # NoAccount
              /\ imp'[p].after.at = now
    BY <1>0, <1>1, <2>4, <2>5, <2>6, <2>7
  <2>. QED BY Zenon, <1>0, <1>1, <2>4, <2>5, <2>6, <2>7, <2>9, LocalStep
<1>3. CASE ReadActivities(p)
  <2>1. imp' = [imp EXCEPT ![p] = Refresh("after", imp[p].token, imp[p].before, Entries(listed), NoSnapshot, FALSE)]
    BY Zenon, <1>3 DEF ReadActivities
  <2>2. imp'[p] = [pc |-> "after", token |-> imp[p].token, before |-> imp[p].before,
                   acts |-> Entries(listed), after |-> NoSnapshot, ready |-> FALSE]
    BY Zenon, <1>0, <2>1 DEF Refresh
  <2>3. imp[p].pc = "list"
    BY Zenon, <1>3 DEF ReadActivities
  <2>4. imp[p].before[1] = row.account /\ row.account # NoAccount
    BY Zenon, <2>3 DEF LedgerInv, ReadsAreBound
  <2>5. IsRefresh(imp'[p]) /\ imp' = [imp EXCEPT ![p] = imp'[p]]
    BY Zenon, <1>0, <2>1, <2>2 DEF IsRefresh
  <2>6. OneEntryEach(Entries(listed))
    BY Zenon, EntriesOnce
  <2>9. /\ imp'[p].token \in {0, imp[p].token}
        /\ imp'[p].pc # "idle" => imp'[p].token # 0
        /\ OneEntryEach(imp'[p].acts)
        /\ imp'[p].pc = "bind" => imp'[p].before[1] \in Accounts
        /\ imp'[p].pc \in {"list", "after"} => imp'[p].before[1] = row.account /\ row.account # NoAccount
        /\ imp'[p].pc = "commit" =>
              /\ imp'[p].after.account = row.account /\ row.account # NoAccount
              /\ imp'[p].after.at = now
    BY <1>0, <1>1, <2>2, <2>3, <2>4, <2>5, <2>6
  <2>. QED BY Zenon, <1>0, <1>1, <2>2, <2>3, <2>4, <2>5, <2>6, <2>9, LocalStep
<1>4. CASE ReadAfter(p)
  <2>1. imp[p].pc = "after"
    BY Zenon, <1>4 DEF ReadAfter
  <2>2. PICK account \in Accounts :
            imp' = [imp EXCEPT ![p] =
                      IF account = imp[p].before[1]
                      THEN Refresh("commit", imp[p].token, <<>>, imp[p].acts, Snapshot(account),
                                   ReportReady(imp[p].before, imp[p].acts, Snapshot(account)))
                      ELSE Failing(imp[p].token)]
    BY Zenon, <1>4 DEF ReadAfter
  <2>3. imp[p].before[1] = row.account /\ row.account # NoAccount
    BY Zenon, <2>1 DEF LedgerInv, ReadsAreBound
  <2>4. Snapshot(account).account = account /\ Snapshot(account).at = now
    BY Zenon DEF Snapshot
  <2>5. CASE account = imp[p].before[1]
    <3>. DEFINE ready == ReportReady(imp[p].before, imp[p].acts, Snapshot(account))
    <3>. HIDE DEF ready
    <3>1. imp' = [imp EXCEPT ![p] =
                    Refresh("commit", imp[p].token, <<>>, imp[p].acts, Snapshot(account), ready)]
      BY Zenon, <2>2, <2>5 DEF ready
    <3>2. imp'[p] = [pc |-> "commit", token |-> imp[p].token, before |-> <<>>,
                     acts |-> imp[p].acts, after |-> Snapshot(account), ready |-> ready]
      BY Zenon, <1>0, <3>1 DEF Refresh
    <3>3. IsRefresh(imp'[p]) /\ imp' = [imp EXCEPT ![p] = imp'[p]]
      BY Zenon, <1>0, <3>1, <3>2 DEF IsRefresh
    <3>9. /\ imp'[p].token \in {0, imp[p].token}
          /\ imp'[p].pc # "idle" => imp'[p].token # 0
          /\ OneEntryEach(imp'[p].acts)
          /\ imp'[p].pc = "bind" => imp'[p].before[1] \in Accounts
          /\ imp'[p].pc \in {"list", "after"} => imp'[p].before[1] = row.account /\ row.account # NoAccount
          /\ imp'[p].pc = "commit" =>
                /\ imp'[p].after.account = row.account /\ row.account # NoAccount
                /\ imp'[p].after.at = now
      BY <1>0, <1>1, <2>1, <2>3, <2>4, <2>5, <3>2, <3>3
    <3>. QED BY Zenon, <1>0, <1>1, <2>1, <2>3, <2>4, <2>5, <3>2, <3>3, <3>9, LocalStep
  <2>6. CASE account # imp[p].before[1]
    <3>1. imp' = [imp EXCEPT ![p] = Failing(imp[p].token)]
      BY Zenon, <2>2, <2>6
    <3>2. imp'[p] = [pc |-> "fail", token |-> imp[p].token, before |-> <<>>,
                     acts |-> {}, after |-> NoSnapshot, ready |-> FALSE]
      BY Zenon, <1>0, <3>1 DEF Failing, Refresh
    <3>3. IsRefresh(imp'[p]) /\ imp' = [imp EXCEPT ![p] = imp'[p]]
      BY Zenon, <1>0, <3>1, <3>2 DEF IsRefresh
    <3>9. /\ imp'[p].token \in {0, imp[p].token}
          /\ imp'[p].pc # "idle" => imp'[p].token # 0
          /\ OneEntryEach(imp'[p].acts)
          /\ imp'[p].pc = "bind" => imp'[p].before[1] \in Accounts
          /\ imp'[p].pc \in {"list", "after"} => imp'[p].before[1] = row.account /\ row.account # NoAccount
          /\ imp'[p].pc = "commit" =>
                /\ imp'[p].after.account = row.account /\ row.account # NoAccount
                /\ imp'[p].after.at = now
      BY <1>0, <1>1, <2>1, <3>2, <3>3
    <3>. QED BY Zenon, <1>0, <1>1, <2>1, <3>2, <3>3, <3>9, LocalStep
  <2>. QED BY Zenon, <2>5, <2>6
<1>5. CASE ReadFails(p)
  <2>1. imp' = [imp EXCEPT ![p] = Failing(imp[p].token)] /\ imp[p].pc # "idle"
    BY Zenon, <1>5 DEF ReadFails
  <2>2. imp'[p] = [pc |-> "fail", token |-> imp[p].token, before |-> <<>>,
                   acts |-> {}, after |-> NoSnapshot, ready |-> FALSE]
    BY Zenon, <1>0, <2>1 DEF Failing, Refresh
  <2>3. IsRefresh(imp'[p]) /\ imp' = [imp EXCEPT ![p] = imp'[p]]
    BY Zenon, <1>0, <2>1, <2>2 DEF IsRefresh
  <2>4. /\ imp'[p].token \in {0, imp[p].token}
        /\ imp'[p].pc = "fail" /\ imp'[p].token # 0
        /\ OneEntryEach(imp'[p].acts)
    <3>1. imp[p].token # 0
      BY Zenon, <1>0, <2>1
    <3>. QED BY <1>0, <2>2, <3>1
  <2>. QED BY Zenon, <1>1, <2>3, <2>4, LocalStep
<1>6. CASE ImporterCrashes(p)
  <2>1. imp' = [imp EXCEPT ![p] = Idle]
    BY Zenon, <1>6 DEF ImporterCrashes
  <2>2. imp'[p] = [pc |-> "idle", token |-> 0, before |-> <<>>,
                   acts |-> {}, after |-> NoSnapshot, ready |-> FALSE]
    BY Zenon, <1>0, <2>1 DEF Idle, Refresh
  <2>3. IsRefresh(imp'[p]) /\ imp' = [imp EXCEPT ![p] = imp'[p]]
    BY Zenon, <1>0, <2>1, <2>2 DEF IsRefresh
  <2>9. /\ imp'[p].token \in {0, imp[p].token}
        /\ imp'[p].pc # "idle" => imp'[p].token # 0
        /\ OneEntryEach(imp'[p].acts)
        /\ imp'[p].pc = "bind" => imp'[p].before[1] \in Accounts
        /\ imp'[p].pc \in {"list", "after"} => imp'[p].before[1] = row.account /\ row.account # NoAccount
        /\ imp'[p].pc = "commit" =>
              /\ imp'[p].after.account = row.account /\ row.account # NoAccount
              /\ imp'[p].after.at = now
    BY <1>0, <1>1, <2>2, <2>3
  <2>. QED BY Zenon, <1>0, <1>1, <2>2, <2>3, <2>9, LocalStep
<1>. QED BY Zenon, <1>2, <1>3, <1>4, <1>5, <1>6

\* bind keeps the invariant: an account is bound once, and by the owner of the token only.
LEMMA BindStep ==
    ASSUME LedgerInv, NEW p \in Importers, bind(p)
    PROVE  LedgerInv'
<1>0. /\ imp[p].pc = "bind" /\ imp[p].token # 0 /\ imp[p].before[1] \in Accounts
      /\ imp = [q \in Importers |-> imp[q]] /\ OneEntryEach({})
  BY Zenon DEF bind, LedgerInv, Shape, TokensFence, ReadsAreBound, OneEntryEach
<1>1. UNCHANGED <<views, begins, now>>
  BY Zenon DEF bind, unchangedBroker
<1>2. CASE BindAccepts(p)
  <2>. DEFINE account == imp[p].before[1]
  <2>1. row' = [token |-> row.token, account |-> account, payload |-> row.payload]
    BY <1>2 DEF bind, LedgerInv, Shape
  <2>2. ledgerEvents' = [account |-> account, views |-> ledgerEvents.views, payload |-> ledgerEvents.payload]
    BY Zenon, <1>2 DEF bind, LedgerInv, Shape
  <2>3. imp' = [imp EXCEPT ![p] = Refresh("list", imp[p].token, imp[p].before, {}, NoSnapshot, FALSE)]
    BY Zenon, <1>2 DEF bind
  <2>4. imp'[p] = [pc |-> "list", token |-> imp[p].token, before |-> imp[p].before,
                   acts |-> {}, after |-> NoSnapshot, ready |-> FALSE]
    BY Zenon, <1>0, <2>3 DEF Refresh
  <2>5. \A q \in Importers : q # p => imp'[q] = imp[q]
    BY Zenon, <1>0, <2>3
  <2>6. row.account \in {NoAccount, account} /\ account # NoAccount
    BY Zenon, <1>0, <1>2, AccountAssumption DEF BindAccepts
  <2>7. row.account # NoAccount => row'.account = row.account
    BY Zenon, <2>1, <2>6
  <2>8. Shape'
    BY Zenon, <1>0, <2>1, <2>2, <2>3, <2>4, <2>5 DEF LedgerInv, Shape, IsPayload, IsRefresh
  <2>9. JournalAgrees'
    BY Zenon, <1>1, <2>1, <2>2 DEF LedgerInv, JournalAgrees, OneEntryEach
  <2>10. TokensFence'
    BY <1>1, <2>1, <2>4, <2>5, <1>0 DEF LedgerInv, TokensFence
  <2>11. ReadsAreBound'
    <3>1. ASSUME NEW q \in Importers, q # p
          PROVE  /\ OneEntryEach(imp'[q].acts)
                 /\ imp'[q].pc = "bind" => imp'[q].before[1] \in Accounts
                 /\ imp'[q].pc \in {"list", "after"} => imp'[q].before[1] = row'.account /\ row'.account # NoAccount
                 /\ imp'[q].pc = "commit" => imp'[q].after.account = row'.account /\ row'.account # NoAccount
      BY <2>5, <2>7, <3>1 DEF LedgerInv, ReadsAreBound
    <3>2. /\ OneEntryEach(imp'[p].acts) /\ imp'[p].pc = "list"
          /\ imp'[p].before[1] = row'.account /\ row'.account # NoAccount
      BY <1>0, <2>1, <2>4, <2>6
    <3>. QED BY Zenon, <2>1, <2>6, <3>1, <3>2 DEF ReadsAreBound, OneEntryEach
  <2>12. OneAccount'
    BY Zenon, <2>1, <2>6, <2>7 DEF LedgerInv, ReadsAreBound, OneAccount
  <2>. QED BY Zenon, <2>8, <2>9, <2>10, <2>11, <2>12 DEF LedgerInv
<1>3. CASE ~ BindAccepts(p)
  <2>1. imp' = [imp EXCEPT ![p] = Failing(imp[p].token)] /\ UNCHANGED <<row, ledgerEvents>>
    BY Zenon, <1>3 DEF bind
  <2>2. imp'[p] = [pc |-> "fail", token |-> imp[p].token, before |-> <<>>,
                   acts |-> {}, after |-> NoSnapshot, ready |-> FALSE]
    BY Zenon, <1>0, <2>1 DEF Failing, Refresh
  <2>3. IsRefresh(imp'[p]) /\ imp' = [imp EXCEPT ![p] = imp'[p]]
    BY Zenon, <1>0, <2>1, <2>2 DEF IsRefresh
  <2>4. /\ imp'[p].token \in {0, imp[p].token}
        /\ imp'[p].pc = "fail" /\ imp'[p].token # 0
        /\ OneEntryEach(imp'[p].acts)
    BY <1>0, <2>2
  <2>. QED BY Zenon, <1>1, <2>1, <2>3, <2>4, LocalStep
<1>. QED BY Zenon, <1>2, <1>3

\* Observing the changed entries and retracting the missing ones replays to the imported
\* activities (commit).
LEMMA ObservedAndRetracted ==
    ASSUME NEW acts, NEW old, OneEntryEach(acts), OneEntryEach(old)
    PROVE  {e \in old : e[1] \notin ({f[1] : f \in old} \ {f[1] : f \in acts}) \cup {f[1] : f \in acts \ old}}
              \cup (acts \ old) = acts
BY DEF OneEntryEach

\* What advance_risk_checkpoint returns: the new snapshot; an invalidation and a risk history
\* of the previous checkpoint survive.
LEMMA Advance ==
    ASSUME NEW previous, NEW ready, NEW snapshot, NEW acts,
           NEW payload, payload = advance_risk_checkpoint(previous, ready, snapshot, acts)
    PROVE  /\ IsPayload(payload)
           /\ payload.snapshot = snapshot
           /\ previous.invalidated => payload.invalidated
           /\ payload.risk = previous.risk \/ payload.risk = NextRisk(previous.risk, snapshot, acts)
BY Zenon DEF advance_risk_checkpoint, Payload, IsPayload

\* commit keeps the invariant.
LEMMA CommitStep ==
    ASSUME LedgerInv, NEW p \in Importers, commit(p)
    PROVE  LedgerInv'
<1>0. /\ imp[p].pc = "commit" /\ imp[p].token # 0
      /\ imp[p].after.account = row.account /\ row.account # NoAccount
      /\ imp[p].after.at \in Int /\ imp[p].after.at <= now
      /\ OneEntryEach(imp[p].acts) /\ OneEntryEach({}) /\ OneEntryEach(views)
      /\ imp = [q \in Importers |-> imp[q]]
  BY Zenon DEF commit, LedgerInv, Shape, TokensFence, ReadsAreBound, JournalAgrees, OneEntryEach
<1>1. UNCHANGED <<begins, now>>
  BY Zenon DEF commit, unchangedBroker
<1>2. CASE OwnsToken(p)
  <2>. DEFINE payload == CommittedPayload(p)
  <2>1. IsPayload(payload) /\ payload.snapshot = imp[p].after
    BY Advance DEF CommittedPayload
  <2>. HIDE DEF payload
  <2>2. row' = [token |-> row.token, account |-> row.account, payload |-> payload]
    BY Zenon, <1>2 DEF commit, LedgerInv, Shape, payload
  <2>3. ledgerEvents' = [account |-> ledgerEvents.account, views |-> ledgerEvents'.views, payload |-> payload]
    BY Zenon, <1>2 DEF commit, LedgerInv, Shape, payload
  <2>4. ledgerEvents'.views = imp[p].acts /\ views' = imp[p].acts
    <3>1. views' = imp[p].acts /\ ledgerEvents.views = views
      BY Zenon, <1>2 DEF commit, LedgerInv, JournalAgrees
    <3>2. ledgerEvents'.views =
            {e \in views : e[1] \notin ({f[1] : f \in views} \ {f[1] : f \in imp[p].acts})
                                        \cup {f[1] : f \in imp[p].acts \ views}}
              \cup (imp[p].acts \ views)
      BY Zenon, <1>2, <3>1 DEF commit, LedgerInv, Shape
    <3>. QED BY <1>0, <3>1, <3>2, ObservedAndRetracted
  <2>5. imp' = [imp EXCEPT ![p] = Idle]
    BY Zenon, <1>2 DEF commit
  <2>6. imp'[p] = [pc |-> "idle", token |-> 0, before |-> <<>>,
                   acts |-> {}, after |-> NoSnapshot, ready |-> FALSE]
    BY Zenon, <1>0, <2>5 DEF Idle, Refresh
  <2>7. \A q \in Importers : q # p => imp'[q] = imp[q]
    BY Zenon, <1>0, <2>5
  <2>8. Shape'
    BY <1>0, <2>1, <2>2, <2>3, <2>5, <2>6, <2>7 DEF LedgerInv, Shape, IsRefresh
  <2>9. JournalAgrees'
    BY <1>0, <2>2, <2>3, <2>4 DEF LedgerInv, JournalAgrees
  <2>10. TokensFence'
    <3>1. \A q \in Importers : q # p => imp[q].token # row.token \/ imp[q].pc = "idle"
      BY <1>0, <1>2 DEF OwnsToken, LedgerInv, TokensFence
    <3>2. /\ row'.token = row.token /\ row'.payload.snapshot = imp[p].after
          /\ imp'[p].token = 0 /\ imp'[p].pc = "idle"
      BY <2>1, <2>2, <2>6
    <3>. QED BY <1>0, <1>1, <2>7, <3>1, <3>2 DEF LedgerInv, TokensFence
  <2>11. ReadsAreBound'
    <3>1. row'.account = row.account /\ imp'[p].pc = "idle" /\ imp'[p].acts = {}
      BY <2>2, <2>6
    <3>. QED BY <1>0, <2>7, <3>1 DEF LedgerInv, ReadsAreBound, OneEntryEach
  <2>12. OneAccount'
    BY Zenon, <1>0, <2>1, <2>2 DEF OneAccount
  <2>. QED BY Zenon, <2>8, <2>9, <2>10, <2>11, <2>12 DEF LedgerInv
<1>3. CASE ~ OwnsToken(p)
  <2>1. imp' = [imp EXCEPT ![p] = Failing(imp[p].token)] /\ UNCHANGED <<row, views, ledgerEvents>>
    BY Zenon, <1>3 DEF commit
  <2>2. imp'[p] = [pc |-> "fail", token |-> imp[p].token, before |-> <<>>,
                   acts |-> {}, after |-> NoSnapshot, ready |-> FALSE]
    BY Zenon, <1>0, <2>1 DEF Failing, Refresh
  <2>3. IsRefresh(imp'[p]) /\ imp' = [imp EXCEPT ![p] = imp'[p]]
    BY Zenon, <1>0, <2>1, <2>2 DEF IsRefresh
  <2>4. /\ imp'[p].token \in {0, imp[p].token}
        /\ imp'[p].pc = "fail" /\ imp'[p].token # 0
        /\ OneEntryEach(imp'[p].acts)
    BY <1>0, <2>2
  <2>. QED BY Zenon, <1>1, <2>1, <2>3, <2>4, LocalStep
<1>. QED BY Zenon, <1>2, <1>3

\* fail keeps the invariant: it changes the error of the owner's checkpoint only.
LEMMA FailStep ==
    ASSUME LedgerInv, NEW p \in Importers, fail(p)
    PROVE  LedgerInv'
<1>0. /\ imp = [q \in Importers |-> imp[q]] /\ OneEntryEach({}) /\ IsPayload(row.payload)
  BY Zenon DEF LedgerInv, Shape, OneEntryEach
<1>1. UNCHANGED <<views, begins, now>> /\ imp' = [imp EXCEPT ![p] = Idle]
  BY Zenon DEF fail, unchangedBroker
<1>2. imp'[p] = [pc |-> "idle", token |-> 0, before |-> <<>>,
                 acts |-> {}, after |-> NoSnapshot, ready |-> FALSE]
  BY Zenon, <1>0, <1>1 DEF Idle, Refresh
<1>3. \A q \in Importers : q # p => imp'[q] = imp[q]
  BY Zenon, <1>0, <1>1
<1>4. CASE FailOwns(p)
  <2>. DEFINE payload == FailedPayload(row.payload)
  <2>1. IsPayload(payload) /\ payload.snapshot = row.payload.snapshot
    BY Zenon DEF FailedPayload, Payload, IsPayload
  <2>. HIDE DEF payload
  <2>2. row' = [token |-> row.token, account |-> row.account, payload |-> payload]
    BY <1>4 DEF fail, LedgerInv, Shape, payload
  <2>3. ledgerEvents' = [account |-> ledgerEvents.account, views |-> ledgerEvents.views, payload |-> payload]
    BY Zenon, <1>4 DEF fail, LedgerInv, Shape, payload
  <2>4. Shape'
    BY <1>0, <1>1, <1>2, <1>3, <2>1, <2>2, <2>3 DEF LedgerInv, Shape, IsRefresh
  <2>5. JournalAgrees'
    BY Zenon, <1>1, <2>2, <2>3 DEF LedgerInv, JournalAgrees, OneEntryEach
  <2>6. /\ row'.token = row.token /\ row'.account = row.account
        /\ row'.payload.snapshot = row.payload.snapshot
        /\ imp'[p].token = 0 /\ imp'[p].pc = "idle" /\ imp'[p].acts = {}
    BY <1>2, <2>1, <2>2
  <2>7. TokensFence'
    BY <1>1, <1>3, <2>6 DEF LedgerInv, TokensFence
  <2>8. ReadsAreBound' /\ OneAccount'
    BY <1>0, <1>3, <2>6 DEF LedgerInv, ReadsAreBound, OneAccount, OneEntryEach
  <2>. QED BY Zenon, <2>4, <2>5, <2>7, <2>8 DEF LedgerInv
<1>5. CASE ~ FailOwns(p)
  <2>1. UNCHANGED <<row, ledgerEvents>>
    BY Zenon, <1>5 DEF fail
  <2>2. IsRefresh(imp'[p]) /\ imp' = [imp EXCEPT ![p] = imp'[p]]
    BY Zenon, <1>0, <1>1, <1>2 DEF IsRefresh
  <2>3. imp'[p].token = 0 /\ imp'[p].pc = "idle" /\ OneEntryEach(imp'[p].acts)
    BY <1>0, <1>2
  <2>. QED BY Zenon, <1>1, <2>1, <2>2, <2>3, LocalStep
<1>. QED BY Zenon, <1>4, <1>5

\* rebuild keeps the invariant: it installs what the journal replays to under a fresh token.
LEMMA RebuildStep ==
    ASSUME LedgerInv, rebuild
    PROVE  LedgerInv' /\ row'.payload = row.payload /\ row'.account = row.account /\ views' = views
<1>1. /\ row.payload = ledgerEvents.payload /\ row.account = ledgerEvents.account /\ views = ledgerEvents.views
      /\ begins' = begins + 1 /\ views' = views /\ UNCHANGED <<ledgerEvents, imp, now>>
  BY Zenon DEF rebuild, unchangedBroker, LedgerInv, JournalAgrees
<1>2. /\ row' = [token |-> row'.token, account |-> row.account, payload |-> row.payload]
      /\ row'.token \in {0, begins + 1}
  <2>1. CASE ledgerEvents.account = NoAccount /\ ledgerEvents.payload = NoCheckpoint
    BY Zenon, <1>1, <2>1 DEF rebuild, NoRow
  <2>2. CASE ~ (ledgerEvents.account = NoAccount /\ ledgerEvents.payload = NoCheckpoint)
    BY Zenon, <1>1, <2>2 DEF rebuild
  <2>. QED BY Zenon, <2>1, <2>2
<1>3. row'.account = row.account /\ row'.payload = row.payload
  BY <1>2
<1>4. Shape'
  BY <1>1, <1>2 DEF LedgerInv, Shape, IsPayload, IsRefresh
<1>5. JournalAgrees'
  BY Zenon, <1>1, <1>3 DEF LedgerInv, JournalAgrees, OneEntryEach
<1>6. TokensFence'
  BY <1>1, <1>2, <1>3 DEF LedgerInv, TokensFence
<1>7. ReadsAreBound' /\ OneAccount'
  BY <1>1, <1>3 DEF LedgerInv, ReadsAreBound, OneAccount, OneEntryEach
<1>. QED BY Zenon, <1>1, <1>3, <1>4, <1>5, <1>6, <1>7 DEF LedgerInv

\* Every step keeps the invariant.
LEMMA StepInv == LedgerInv /\ [LedgerNext]_ledgerVars => LedgerInv'
<1>. SUFFICES ASSUME LedgerInv, [LedgerNext]_ledgerVars PROVE LedgerInv' OBVIOUS
<1>1. ASSUME NEW a \in Activities, Post(a) \/ Revise(a) PROVE LedgerInv'
  BY Zenon, <1>1, BrokerStep DEF Post, Revise
<1>2. CASE ListingCatchesUp \/ MarkMoves
  BY Zenon, <1>2, BrokerStep DEF ListingCatchesUp, MarkMoves
<1>3. ASSUME NEW p \in Importers,
             \/ begin(p) \/ ReadBefore(p) \/ bind(p) \/ ReadActivities(p) \/ ReadAfter(p)
             \/ ReadFails(p) \/ commit(p) \/ fail(p) \/ ImporterCrashes(p)
      PROVE  LedgerInv'
  BY Zenon, <1>3, BeginStep, ReadSteps, BindStep, CommitStep, FailStep
<1>4. CASE rebuild
  BY Zenon, <1>4, RebuildStep
<1>5. CASE UNCHANGED ledgerVars
  BY <1>5 DEF ledgerVars, LedgerInv, Shape, JournalAgrees, TokensFence, ReadsAreBound, OneAccount,
              IsPayload, IsRefresh, OneEntryEach
<1>. QED BY Zenon, <1>1, <1>2, <1>3, <1>4, <1>5 DEF LedgerNext

-----------------------------------------------------------------------------

\* One account: whatever importers, crashes and rebuilds do, the stored evidence belongs to
\* the account first bound (bind, refresh).
THEOREM OneAccountTheorem == LedgerSpec => []OneAccount
<1>1. LedgerInv => OneAccount BY DEF LedgerInv
<1>. QED BY InitInv, StepInv, <1>1, PTL DEF LedgerSpec

\* The journal is enough: at any time a replay gives the row's account and checkpoint and the
\* activity projection back (rebuild).
THEOREM ReplayTheorem == LedgerSpec => []JournalAgrees
<1>1. LedgerInv => JournalAgrees BY DEF LedgerInv
<1>. QED BY InitInv, StepInv, <1>1, PTL DEF LedgerSpec

\* Only commit and fail of the token's owner change the checkpoint.
LEMMA PayloadChanges ==
    ASSUME LedgerInv, [LedgerNext]_ledgerVars
    PROVE  \/ row'.payload = row.payload
           \/ \E p \in Importers :
                 /\ imp[p].pc = "commit" /\ imp[p].token = row.token
                 /\ row'.payload = CommittedPayload(p)
           \/ row'.payload = FailedPayload(row.payload)
<1>0. row = [token |-> row.token, account |-> row.account, payload |-> row.payload]
  BY Zenon DEF LedgerInv, Shape
<1>1. ASSUME NEW a \in Activities, Post(a) \/ Revise(a) PROVE row' = row
  BY Zenon, <1>1 DEF Post, Revise, BrokerMoves
<1>2. CASE ListingCatchesUp \/ MarkMoves
  BY Zenon, <1>2 DEF ListingCatchesUp, MarkMoves, BrokerMoves
<1>3. ASSUME NEW p \in Importers,
             ReadBefore(p) \/ ReadActivities(p) \/ ReadAfter(p) \/ ReadFails(p) \/ ImporterCrashes(p)
      PROVE  row' = row
  BY Zenon, <1>3 DEF ReadBefore, ReadActivities, ReadAfter, ReadFails, ImporterCrashes
<1>4. ASSUME NEW p \in Importers, begin(p) \/ bind(p) PROVE row'.payload = row.payload
  BY Zenon, <1>0, <1>4 DEF begin, bind
<1>5. ASSUME NEW p \in Importers, commit(p)
      PROVE  \/ row' = row
             \/ /\ imp[p].pc = "commit" /\ imp[p].token = row.token
                /\ row'.payload = CommittedPayload(p)
  BY Zenon, <1>0, <1>5 DEF commit, OwnsToken
<1>6. ASSUME NEW p \in Importers, fail(p)
      PROVE  row' = row \/ row'.payload = FailedPayload(row.payload)
  BY Zenon, <1>0, <1>6 DEF fail
<1>7. CASE rebuild
  BY Zenon, <1>7, RebuildStep
<1>8. CASE UNCHANGED ledgerVars
  BY Zenon, <1>8 DEF ledgerVars
<1>. QED BY Zenon, <1>1, <1>2, <1>3, <1>4, <1>5, <1>6, <1>7, <1>8 DEF LedgerNext

\* The row carries the newest token handed out, or there is no row (begin, rebuild).
RowNewest == begins \in Nat /\ row.token \in {0, begins}

\* Every step keeps the newest token in the row.
LEMMA RowNewestNext == LedgerInv /\ RowNewest /\ [LedgerNext]_ledgerVars => RowNewest'
<1>. SUFFICES ASSUME LedgerInv, RowNewest, [LedgerNext]_ledgerVars PROVE RowNewest' OBVIOUS
<1>0. row = [token |-> row.token, account |-> row.account, payload |-> row.payload]
  BY Zenon DEF LedgerInv, Shape
<1>a. begins \in Nat /\ begins + 1 \in Nat
  BY DEF RowNewest
<1>1. ASSUME NEW a \in Activities, Post(a) \/ Revise(a) PROVE row'.token = row.token /\ begins' = begins
  BY Zenon, <1>1 DEF Post, Revise, BrokerMoves
<1>2. CASE ListingCatchesUp \/ MarkMoves
  BY Zenon, <1>2 DEF ListingCatchesUp, MarkMoves, BrokerMoves, RowNewest
<1>3. ASSUME NEW p \in Importers,
             \/ ReadBefore(p) \/ bind(p) \/ ReadActivities(p) \/ ReadAfter(p)
             \/ ReadFails(p) \/ commit(p) \/ fail(p) \/ ImporterCrashes(p)
      PROVE  row'.token = row.token /\ begins' = begins
  BY Zenon, <1>0, <1>3 DEF ReadBefore, bind, ReadActivities, ReadAfter, ReadFails, commit, fail, ImporterCrashes
<1>4. ASSUME NEW p \in Importers, begin(p) PROVE row'.token = begins + 1 /\ begins' = begins + 1
  BY Zenon, <1>0, <1>4 DEF begin
<1>5. CASE rebuild
  <2>1. row'.token \in {0, begins + 1} /\ begins' = begins + 1
    BY <1>5 DEF rebuild, NoRow
  <2>. QED BY Zenon, <1>a, <2>1 DEF RowNewest
<1>6. CASE UNCHANGED ledgerVars
  BY Zenon, <1>6 DEF ledgerVars, RowNewest
<1>. QED BY Zenon, <1>a, <1>1, <1>2, <1>3, <1>4, <1>5, <1>6 DEF LedgerNext, RowNewest

\* A refresh whose token is not the newest changes neither row nor projection nor journal
\* (bind, commit, fail).
LEMMA OvertakenIsQuiet ==
    ASSUME LedgerInv, RowNewest, [LedgerNext]_ledgerVars, NEW p \in Importers,
           imp[p].pc # "idle", imp[p].token < begins, imp'[p] # imp[p]
    PROVE  UNCHANGED <<row, views, ledgerEvents>>
<1>0. imp = [q \in Importers |-> imp[q]] /\ imp[p].token # 0
  BY Zenon DEF LedgerInv, Shape, TokensFence
<1>1. imp[p].token # row.token
  BY <1>0 DEF RowNewest
<1>2. ~ OwnsToken(p) /\ ~ FailOwns(p) /\ ~ BindAccepts(p)
  BY Zenon, <1>1 DEF OwnsToken, FailOwns, BindAccepts
<1>3. ASSUME NEW q \in Importers, q # p,
             \/ begin(q) \/ ReadBefore(q) \/ bind(q) \/ ReadActivities(q) \/ ReadAfter(q)
             \/ ReadFails(q) \/ commit(q) \/ fail(q) \/ ImporterCrashes(q)
      PROVE  imp'[p] = imp[p]
  <2>1. PICK new : imp' = [imp EXCEPT ![q] = new]
    BY Zenon, <1>3 DEF begin, ReadBefore, bind, ReadActivities, ReadAfter, ReadFails, commit, fail, ImporterCrashes
  <2>. QED BY Zenon, <1>0, <1>3, <2>1
<1>4. CASE \/ begin(p) \/ ReadBefore(p) \/ ReadActivities(p) \/ ReadAfter(p)
           \/ ReadFails(p) \/ ImporterCrashes(p)
  BY Zenon, <1>4 DEF begin, ReadBefore, ReadActivities, ReadAfter, ReadFails, ImporterCrashes
<1>5. CASE bind(p) \/ commit(p) \/ fail(p)
  BY Zenon, <1>2, <1>5 DEF bind, commit, fail
<1>6. CASE \/ \E a \in Activities : Post(a) \/ Revise(a)
           \/ ListingCatchesUp \/ MarkMoves \/ rebuild \/ UNCHANGED ledgerVars
  BY Zenon, <1>6 DEF Post, Revise, ListingCatchesUp, MarkMoves, BrokerMoves, rebuild, ledgerVars
<1>. QED BY Zenon, <1>3, <1>4, <1>5, <1>6 DEF LedgerNext

\* The stored evidence never goes back in time, and an overtaken refresh changes nothing (the
\* token of begin, bind, commit and fail).
THEOREM EvidenceTheorem == LedgerSpec => EvidenceNeverOlder
<1>. DEFINE Fenced ==
        \A p \in Importers :
            imp[p].pc # "idle" /\ imp[p].token < begins /\ imp'[p] # imp[p] =>
                UNCHANGED <<row, views, ledgerEvents>>
<1>2. LedgerInv /\ RowNewest /\ [LedgerNext]_ledgerVars => [Fenced]_ledgerVars
  BY Zenon, OvertakenIsQuiet
<1>3. LedgerInit => RowNewest
  BY DEF LedgerInit, NoRow, RowNewest
<1>1. LedgerInv /\ [LedgerNext]_ledgerVars => [row'.payload.snapshot.at >= row.payload.snapshot.at]_ledgerVars
  <2>. SUFFICES ASSUME LedgerInv, [LedgerNext]_ledgerVars
                PROVE  row'.payload.snapshot.at >= row.payload.snapshot.at
    BY Zenon
  <2>0. row.payload.snapshot.at \in Int
    BY Zenon DEF LedgerInv, TokensFence
  <2>1. CASE row'.payload = row.payload
    BY <2>0, <2>1
  <2>2. ASSUME NEW p \in Importers, imp[p].pc = "commit", imp[p].token = row.token,
               row'.payload = CommittedPayload(p)
        PROVE  row'.payload.snapshot.at >= row.payload.snapshot.at
    <3>1. row'.payload.snapshot = imp[p].after
      BY <2>2, Advance DEF CommittedPayload
    <3>2. imp[p].after.at \in Int /\ row.payload.snapshot.at <= imp[p].after.at
      BY Zenon, <2>2 DEF LedgerInv, TokensFence
    <3>. QED BY Zenon, <2>0, <3>1, <3>2
  <2>3. CASE row'.payload = FailedPayload(row.payload)
    BY <2>0, <2>3 DEF FailedPayload, Payload
  <2>. QED BY Zenon, <2>1, <2>2, <2>3, PayloadChanges
<1>4. [row'.payload.snapshot.at >= row.payload.snapshot.at]_ledgerVars /\ [Fenced]_ledgerVars =>
         [/\ row'.payload.snapshot.at >= row.payload.snapshot.at
          /\ Fenced]_ledgerVars
  BY Zenon
<1>. QED BY InitInv, StepInv, RowNewestNext, <1>1, <1>2, <1>3, <1>4, PTL DEF LedgerSpec, EvidenceNeverOlder

\* A risk history is for ever: its baseline, its high-water mark and an invalidation survive
\* every import, failure, crash and rebuild (advance_risk_checkpoint, fail, rebuild).
THEOREM RiskHistoryTheorem == LedgerSpec => RiskHistoryKept
<1>. DEFINE Kept ==
        /\ row.payload.invalidated => row'.payload.invalidated
        /\ row.payload.risk # NoRisk =>
              /\ row'.payload.risk # NoRisk
              /\ row'.payload.risk.baseEquity = row.payload.risk.baseEquity
              /\ \/ row'.payload.risk.highWater = row.payload.risk.highWater
                 \/ row'.payload.risk.highWater > row.payload.risk.highWater
<1>1. LedgerInv /\ [LedgerNext]_ledgerVars => [Kept]_ledgerVars
  <2>. SUFFICES ASSUME LedgerInv, [LedgerNext]_ledgerVars PROVE Kept
    BY Zenon
  <2>1. CASE row'.payload = row.payload
    BY Zenon, <2>1
  <2>2. ASSUME NEW p \in Importers, row'.payload = CommittedPayload(p)
        PROVE  Kept
    <3>. DEFINE prior == row.payload.risk
                new == row'.payload.risk
    <3>1. /\ row.payload.invalidated => row'.payload.invalidated
          /\ new = prior \/ new = NextRisk(prior, imp[p].after, imp[p].acts)
      BY <2>2, Advance DEF CommittedPayload
    <3>2. ASSUME prior # NoRisk, new = NextRisk(prior, imp[p].after, imp[p].acts)
          PROVE  /\ new # NoRisk
                 /\ new.baseEquity = prior.baseEquity
                 /\ new.highWater = prior.highWater \/ new.highWater > prior.highWater
      BY SMTT(20), <3>2 DEF NextRisk, NoRisk
    <3>. QED BY Zenon, <3>1, <3>2
  <2>3. CASE row'.payload = FailedPayload(row.payload)
    BY SMTT(20), <2>3 DEF FailedPayload, Payload
  <2>. QED BY Zenon, <2>1, <2>2, <2>3, PayloadChanges
<1>. QED BY InitInv, StepInv, <1>1, PTL DEF LedgerSpec, RiskHistoryKept

-----------------------------------------------------------------------------
(* The outbox. *)

\* requeue_notification resets row.attempts, and only a buried row is requeued: every round of
\* claims before the present one used at most the whole budget.
BudgetSpent ==
    \A n \in Notices :
        /\ attempts[n] <= MaxAttempts
        /\ claims[n] <= MaxAttempts * requeues[n] + attempts[n]
        /\ status[n] = "dead" => attempts[n] = MaxAttempts
        /\ status[n] = "none" => attempts[n] = 0 /\ claims[n] = 0

\* A consumer inside dispatch_one holds the notice it claimed; it reports success only of a
\* message the chat has, and so does the row.
ConsumerKnowledge ==
    /\ \A c \in Consumers : step[c] # "idle" => holding[c] \in Notices
    /\ \A c \in Consumers : step[c] = "acknowledged" => holding[c] \in received
    /\ \A n \in Notices : status[n] = "delivered" => n \in received

ValuesOK ==
    /\ status \in [Notices -> NoticeStatus]
    /\ token \in [Notices -> Consumers \cup {NoOne}]
    /\ lease \in [Notices -> {"none", "live", "lapsed"}]
    /\ attempts \in [Notices -> Nat]
    /\ sequence \in [Notices -> Nat]
    /\ nextEvent \in Nat
    /\ claims \in [Notices -> Nat]
    /\ requeues \in [Notices -> 0..MaxRequeues]
    /\ step \in [Consumers -> {"idle", "sending", "acknowledged", "failed"}]
    /\ holding \in [Consumers -> Notices \cup {NoOne}]
    /\ received \subseteq Notices
    /\ faults \in 0..MaxFaults

DueOK == due \in [Notices -> BOOLEAN]

OutboxInv == TypeOK /\ BudgetSpent /\ ConsumerKnowledge

-----------------------------------------------------------------------------
\* The rows' types, with the Boolean column apart: the two are proved by different provers.
LEMMA TypeSplit == TypeOK <=> ValuesOK /\ DueOK
  BY Zenon DEF TypeOK, ValuesOK, DueOK

\* One more round is one more budget.
LEMMA OneMoreRound ==
  ASSUME NEW m \in Nat, NEW k \in Nat
  PROVE  m * (k + 1) = m * k + m /\ m * k \in Nat
  OBVIOUS

\* An empty outbox and idle consumers (add_notification has not run).
LEMMA OutboxInit == Init => OutboxInv
<1> SUFFICES ASSUME Init PROVE OutboxInv
  BY Zenon
<1> USE NoOneAssumption, MaxAttemptsAssumption, BoundsAssumption DEF Init
<1>1. ValuesOK
  BY DEF ValuesOK, NoticeStatus
<1>2. DueOK
  BY Zenon DEF DueOK
<1>3. BudgetSpent
  <2>1. ASSUME NEW n \in Notices PROVE claims[n] <= MaxAttempts * requeues[n] + attempts[n]
    <3>1. claims[n] = 0 /\ requeues[n] = 0 /\ attempts[n] = 0
      BY Zenon
    <3>2. MaxAttempts * 0 + 0 = 0
      OBVIOUS
    <3> QED
      BY <3>1, <3>2
  <2>2. \A n \in Notices : attempts[n] = 0 /\ claims[n] = 0 /\ status[n] = "none"
    BY Zenon
  <2>3. 0 <= MaxAttempts
    OBVIOUS
  <2> HIDE DEF Init
  <2> QED
    BY Zenon, <2>1, <2>2, <2>3 DEF BudgetSpent
<1>4. ConsumerKnowledge
  BY Zenon DEF ConsumerKnowledge
<1> QED
  BY Zenon, <1>1, <1>2, <1>3, <1>4, TypeSplit DEF OutboxInv

\* row.available_at only moves between past and future.
LEMMA DueNext == DueOK /\ [Next]_vars => DueOK'
<1> SUFFICES ASSUME DueOK, [Next]_vars PROVE DueOK'
  BY Zenon
<1> USE DEF DueOK
<1>1. ASSUME NEW n \in Notices, AddNotification(n) \/ RequeueNotification(n) \/ BackoffEnds(n) \/ LeaseLapses(n)
      PROVE DueOK'
  BY Zenon, <1>1 DEF AddNotification, RequeueNotification, BackoffEnds, LeaseLapses
<1>2. ASSUME NEW c \in Consumers, FinishNotification(c) PROVE DueOK'
  BY Zenon, <1>2 DEF FinishNotification
<1>3. ASSUME NEW c \in Consumers, Deliver(c) \/ ConsumerCrashes(c) PROVE DueOK'
  BY Zenon, <1>3 DEF Deliver, ConsumerCrashes, rowVars
<1>4. ASSUME NEW c \in Consumers, NEW n \in Notices, ClaimNotification(c, n) \/ BuryExhausted(c, n)
      PROVE DueOK'
  BY Zenon, <1>4 DEF ClaimNotification, BuryExhausted
<1>5. CASE UNCHANGED vars
  BY Zenon, <1>5 DEF vars, rowVars
<1> QED
  BY Zenon, <1>1, <1>2, <1>3, <1>4, <1>5 DEF Next

\* One step per operation of storage/workflow.py and of dispatch_one, for each conjunct.
LEMMA OutboxNext == OutboxInv /\ [Next]_vars => ValuesOK' /\ BudgetSpent' /\ ConsumerKnowledge'
<1> SUFFICES ASSUME ValuesOK, BudgetSpent, ConsumerKnowledge, [Next]_vars
             PROVE  ValuesOK' /\ BudgetSpent' /\ ConsumerKnowledge'
  BY Zenon, TypeSplit DEF OutboxInv
<1> USE NoOneAssumption, MaxAttemptsAssumption, BoundsAssumption DEF ValuesOK, NoticeStatus
<1>1. ASSUME NEW n \in Notices, AddNotification(n) PROVE ValuesOK' /\ BudgetSpent' /\ ConsumerKnowledge'
  BY <1>1 DEF AddNotification, BudgetSpent, ConsumerKnowledge
<1>2. ASSUME NEW n \in Notices, RequeueNotification(n) PROVE ValuesOK' /\ BudgetSpent' /\ ConsumerKnowledge'
  <2>1. ValuesOK' /\ ConsumerKnowledge'
    BY <1>2 DEF RequeueNotification, ConsumerKnowledge
  <2>2. claims[n] <= MaxAttempts * requeues[n] + MaxAttempts
    BY Zenon, <1>2 DEF RequeueNotification, BudgetSpent
  <2>3. claims[n] <= MaxAttempts * (requeues[n] + 1)
    BY <2>2, OneMoreRound
  <2>4. BudgetSpent'
    BY <1>2, <2>3 DEF RequeueNotification, BudgetSpent
  <2> QED
    BY Zenon, <2>1, <2>4
<1>3. ASSUME NEW n \in Notices, BackoffEnds(n) \/ LeaseLapses(n)
      PROVE ValuesOK' /\ BudgetSpent' /\ ConsumerKnowledge'
  BY <1>3 DEF BackoffEnds, LeaseLapses, BudgetSpent, ConsumerKnowledge
<1>4. ASSUME NEW c \in Consumers, Deliver(c) PROVE ValuesOK' /\ BudgetSpent' /\ ConsumerKnowledge'
  BY <1>4 DEF Deliver, rowVars, BudgetSpent, ConsumerKnowledge
<1>5. ASSUME NEW c \in Consumers, FinishNotification(c) PROVE ValuesOK' /\ BudgetSpent' /\ ConsumerKnowledge'
  <2>1. PICK n \in Notices : n = holding[c]
    BY Zenon, <1>5 DEF FinishNotification, ConsumerKnowledge
  <2>2. PICK s \in {"queued", "delivered", "dead"} : s = FinishedStatus(n, step[c])
    BY Zenon DEF FinishedStatus
  <2>3. /\ s = "delivered" => n \in received
        /\ s = "dead" => attempts[n] >= MaxAttempts
    BY Zenon, <1>5, <2>1, <2>2 DEF FinishedStatus, FinishNotification, ConsumerKnowledge
  <2>4. /\ status' = status \/ (status[n] = "checking" /\ status' = [status EXCEPT ![n] = s])
        /\ step' = [step EXCEPT ![c] = "idle"]
        /\ holding' = [holding EXCEPT ![c] = NoOne]
        /\ UNCHANGED <<attempts, claims, requeues, received>>
    BY Zenon, <1>5, <2>1, <2>2 DEF FinishNotification, OwnsClaim
  <2>5. lease' \in [Notices -> {"none", "live", "lapsed"}]
    BY Zenon, <1>5, <2>1 DEF FinishNotification
  <2>6. UNCHANGED <<token, sequence, nextEvent, faults>>
    BY Zenon, <1>5 DEF FinishNotification
  <2>7. ValuesOK'
    BY <2>4, <2>5, <2>6
  <2>8. ConsumerKnowledge'
    BY <2>3, <2>4 DEF ConsumerKnowledge
  <2>9. BudgetSpent'
    <3> SUFFICES ASSUME NEW m \in Notices
                 PROVE  /\ attempts[m] <= MaxAttempts
                        /\ claims[m] <= MaxAttempts * requeues[m] + attempts[m]
                        /\ status'[m] = "dead" => attempts[m] = MaxAttempts
                        /\ status'[m] = "none" => attempts[m] = 0 /\ claims[m] = 0
      BY Zenon, <2>4 DEF BudgetSpent
    <3>1. /\ attempts[m] <= MaxAttempts
          /\ claims[m] <= MaxAttempts * requeues[m] + attempts[m]
      BY Zenon DEF BudgetSpent
    <3>2. /\ status[m] = "dead" => attempts[m] = MaxAttempts
          /\ status[m] = "none" => attempts[m] = 0 /\ claims[m] = 0
      BY Zenon DEF BudgetSpent
    <3>3. status'[m] = status[m] \/ (m = n /\ status'[m] = s)
      BY <2>4
    <3>4. attempts[m] \in Nat /\ MaxAttempts \in Nat
      OBVIOUS
    <3>5. status'[m] = "dead" => attempts[m] = MaxAttempts
      BY <2>3, <3>1, <3>2, <3>3, <3>4
    <3> QED
      BY Zenon, <3>1, <3>2, <3>3, <3>5
  <2> QED
    BY Zenon, <2>7, <2>8, <2>9
<1>6. ASSUME NEW c \in Consumers, ConsumerCrashes(c) PROVE ValuesOK' /\ BudgetSpent' /\ ConsumerKnowledge'
  BY <1>6 DEF ConsumerCrashes, rowVars, BudgetSpent, ConsumerKnowledge
<1>7. ASSUME NEW c \in Consumers, NEW n \in Notices, ClaimNotification(c, n)
      PROVE ValuesOK' /\ BudgetSpent' /\ ConsumerKnowledge'
  <2>1. ValuesOK' /\ ConsumerKnowledge'
    BY <1>7 DEF ClaimNotification, ConsumerKnowledge
  <2>2. BudgetSpent'
    BY SMTT(20), <1>7, OneMoreRound DEF ClaimNotification, NextNotice, Eligible, BudgetLeft, BudgetSpent
  <2> QED
    BY Zenon, <2>1, <2>2
<1>8. ASSUME NEW c \in Consumers, NEW n \in Notices, BuryExhausted(c, n)
      PROVE ValuesOK' /\ BudgetSpent' /\ ConsumerKnowledge'
  <2>1. ValuesOK' /\ ConsumerKnowledge'
    BY Zenon, <1>8 DEF BuryExhausted, ConsumerKnowledge
  <2>2. attempts[n] = MaxAttempts
    <3>1. ~(attempts[n] < MaxAttempts)
      BY Zenon, <1>8 DEF BuryExhausted, BudgetLeft
    <3>2. attempts[n] \in Nat
      BY Zenon
    <3>3. attempts[n] <= MaxAttempts
      BY Zenon DEF BudgetSpent
    <3> HIDE DEF ValuesOK
    <3> QED
      BY <3>1, <3>2, <3>3
  <2>3. BudgetSpent'
    BY <1>8, <2>2 DEF BuryExhausted, BudgetSpent
  <2> QED
    BY Zenon, <2>1, <2>3
<1>9. CASE UNCHANGED vars
  BY <1>9 DEF vars, rowVars, BudgetSpent, ConsumerKnowledge
<1> QED
  BY Zenon, <1>1, <1>2, <1>3, <1>4, <1>5, <1>6, <1>7, <1>8, <1>9 DEF Next

\* What the row counts and what its consumers know, through every claim, send, late result,
\* lapsed lease, crash and operator retry (claim_notification, finish_notification).
THEOREM OutboxInductive == Spec => []OutboxInv
<1>1. OutboxInv /\ [Next]_vars => OutboxInv'
  <2> SUFFICES ASSUME OutboxInv, [Next]_vars PROVE OutboxInv'
    BY Zenon
  <2>1. ValuesOK' /\ BudgetSpent' /\ ConsumerKnowledge'
    BY Zenon, OutboxNext
  <2>2. DueOK'
    BY Zenon, DueNext, TypeSplit DEF OutboxInv
  <2>3. TypeOK'
    BY Zenon, <2>1, <2>2 DEF TypeOK, ValuesOK, DueOK
  <2> QED
    BY Zenon, <2>1, <2>3 DEF OutboxInv
<1> QED
  BY <1>1, OutboxInit, PTL DEF Spec

\* What an operator reads off the rows: the budget of AttemptBudget.
LEMMA BudgetFollows == OutboxInv => AttemptBudget
<1> SUFFICES ASSUME OutboxInv PROVE AttemptBudget
  BY Zenon
<1>1. ASSUME NEW n \in Notices
      PROVE  /\ attempts[n] <= MaxAttempts
             /\ claims[n] <= MaxAttempts * (requeues[n] + 1)
             /\ status[n] = "dead" => attempts[n] = MaxAttempts
             /\ status[n] = "delivered" => n \in received
  <2>1. /\ attempts[n] \in Nat /\ claims[n] \in Nat /\ requeues[n] \in Nat
        /\ attempts[n] <= MaxAttempts /\ claims[n] <= MaxAttempts * requeues[n] + attempts[n]
        /\ status[n] = "dead" => attempts[n] = MaxAttempts
        /\ status[n] = "delivered" => n \in received
    BY <1>1, TypeSplit, BoundsAssumption DEF OutboxInv, BudgetSpent, ConsumerKnowledge, ValuesOK
  <2> QED
    BY <2>1, OneMoreRound, MaxAttemptsAssumption
<1> QED
  BY Zenon, <1>1 DEF AttemptBudget, OutboxInv

\* A live claim is taken away by nobody but its own consumer.
LEMMA ClaimKept ==
  ASSUME OutboxInv, [Next]_vars, NEW c \in Consumers, NEW n \in Notices, LiveClaim(c, n)
  PROVE  token'[n] = c /\ status'[n] = "checking"
<1> USE NoOneAssumption DEF LiveClaim, OutboxInv
<1>0. ValuesOK
  BY Zenon, TypeSplit
<1> USE DEF ValuesOK
<1>1. ASSUME NEW m \in Notices, AddNotification(m) \/ RequeueNotification(m) \/ BackoffEnds(m) \/ LeaseLapses(m)
      PROVE token'[n] = c /\ status'[n] = "checking"
  BY Zenon, <1>0, <1>1 DEF AddNotification, RequeueNotification, BackoffEnds, LeaseLapses
<1>2. ASSUME NEW d \in Consumers, FinishNotification(d) PROVE token'[n] = c /\ status'[n] = "checking"
  <2>1. CASE d = c
    BY Zenon, <1>0, <1>2, <2>1 DEF FinishNotification
  <2>2. CASE d # c
    BY <1>0, <1>2, <2>2 DEF FinishNotification, OwnsClaim
  <2> QED
    BY Zenon, <2>1, <2>2
<1>3. ASSUME NEW d \in Consumers, Deliver(d) \/ ConsumerCrashes(d)
      PROVE token'[n] = c /\ status'[n] = "checking"
  BY Zenon, <1>0, <1>3 DEF Deliver, ConsumerCrashes, rowVars
<1>4. ASSUME NEW d \in Consumers, NEW m \in Notices, ClaimNotification(d, m) \/ BuryExhausted(d, m)
      PROVE token'[n] = c /\ status'[n] = "checking"
  <2>1. m # n
    BY Zenon, <1>0, <1>4 DEF ClaimNotification, BuryExhausted, NextNotice, Eligible
  <2> QED
    BY Zenon, <1>0, <1>4, <2>1 DEF ClaimNotification, BuryExhausted
<1>5. CASE UNCHANGED vars
  BY Zenon, <1>0, <1>5 DEF vars, rowVars
<1> QED
  BY Zenon, <1>1, <1>2, <1>3, <1>4, <1>5 DEF Next

\* For any number of consumers and notices: the attempt budget bounds the sends of a notice,
\* nothing is buried with attempts left, a delivered notice reached the chat, and a consumer
\* keeps its claim while the lease is live (claim_notification, finish_notification).
THEOREM ClaimsAreHeld == Spec => ClaimsHold
<1> DEFINE Kept == \A c \in Consumers, n \in Notices : LiveClaim(c, n) => token'[n] = c /\ status'[n] = "checking"
<1>1. OutboxInv /\ OutboxInv' /\ [Next]_vars => [AttemptBudget' /\ Kept]_vars
  <2>1. OutboxInv' => AttemptBudget'
    BY BudgetFollows, PTL
  <2>2. OutboxInv /\ [Next]_vars => Kept
    BY Zenon, ClaimKept
  <2> QED
    BY Zenon, <2>1, <2>2
<1> QED
  BY <1>1, OutboxInductive, PTL DEF Spec, ClaimsHold

-----------------------------------------------------------------------------
(* The order projection. *)

Statuses == LiveStatus \cup BROKER_TERMINAL_STATUSES \cup {"filled"}
ObservationType == [at : Nat, filled : 0..Quantity, status : Statuses, parent : Parents]

\* Only the last version of an order can be final.
VersionsKnown ==
    /\ versions \in Seq(VersionType) /\ Len(versions) > 0
    /\ \A n \in 1..Len(versions) : n < Len(versions) => versions[n].status \in LiveStatus

\* Every event describes a version of the order.
JournalKnown ==
    /\ journal \in Seq(ObservationType)
    /\ \A k \in 1..Len(journal) :
          \E n \in 1..Len(versions), parent \in Parents : journal[k] = Observation(versions[n], parent)

\* The view is its event's payload, but for the parent link.
ViewKnown ==
    IF Len(journal) = 0 THEN view = NoView
    ELSE /\ view = [event |-> view.event, obs |-> view.obs]
         /\ view.event \in 1..Len(journal)
         /\ view.obs \in ObservationType
         /\ view.obs.at = journal[view.event].at
         /\ view.obs.filled = journal[view.event].filled
         /\ view.obs.status = journal[view.event].status

EventsApplied ==
    \A k \in 1..Len(journal) :
        k <= view.event \/ journal[k].at < view.obs.at \/ journal[k].filled < view.obs.filled

\* f is the replay of the journal.
Replays(f) ==
    f = [n \in 0..Len(journal) |-> IF n = 0 THEN NoView ELSE Project(f[n - 1], n, journal[n])]

ReplayKnown ==
    /\ \E f : Replays(f)
    /\ \A f : Replays(f) => f[Len(journal)] = view

SignalKnown ==
    /\ signal \in {"SUBMITTING", "EXECUTED", "FAILED"} /\ executed_at \in {"none", "set"}
    /\ FailedOnlyUnfilled

ProjectionInv ==
    VersionsKnown /\ JournalKnown /\ ViewKnown /\ EventsApplied /\ ReplayKnown /\ SignalKnown

-----------------------------------------------------------------------------
(* The projection. *)

\* A view that exists is told from NoView by its payload.
LEMMA SomeView ==
  ASSUME JournalKnown, ViewKnown, Len(journal) # 0
  PROVE  view # NoView
<1>1. view.event # 0
  BY DEF ViewKnown, JournalKnown
<1> QED
  BY <1>1 DEF NoView

\* An observation of a version has a payload's type (_observation).
LEMMA ObservationOK ==
  ASSUME VersionsKnown, NEW n \in 1..Len(versions), NEW parent \in Parents
  PROVE  /\ Observation(versions[n], parent) \in ObservationType
         /\ Observation(versions[n], parent).at = versions[n].at
         /\ Observation(versions[n], parent).filled = versions[n].filled
         /\ Observation(versions[n], parent).status = versions[n].status
<1>1. versions[n] \in VersionType
  BY DEF VersionsKnown
<1> QED
  BY Zenon, <1>1 DEF Observation, VersionType, ObservationType, Statuses

\* A merged parent link changes nothing else.
LEMMA WithParentIs ==
  ASSUME NEW o \in ObservationType, NEW old \in ObservationType
  PROVE  /\ WithParent(o, old) \in ObservationType
         /\ WithParent(o, old).at = o.at
         /\ WithParent(o, old).filled = o.filled
         /\ WithParent(o, old).status = o.status
         /\ old.parent = "known" => WithParent(o, old).parent = "known"
  BY Zenon DEF WithParent, ObservationType, Parents

\* _project_order of an event with payload o: refused, or newer in every respect.
LEMMA ProjectIs ==
  ASSUME JournalKnown, ViewKnown, NEW id \in Nat, NEW o \in ObservationType
  PROVE  \/ /\ Len(journal) = 0
            /\ Project(view, id, o) = [event |-> id, obs |-> o]
         \/ /\ Len(journal) # 0
            /\ id <= view.event \/ o.at < view.obs.at \/ o.filled < view.obs.filled
            /\ Project(view, id, o) = view
         \/ /\ Len(journal) # 0
            /\ id > view.event /\ o.at >= view.obs.at /\ o.filled >= view.obs.filled
            /\ Project(view, id, o) = [event |-> id, obs |-> WithParent(o, view.obs)]
<1>1. CASE Len(journal) = 0
  BY Zenon, <1>1 DEF ViewKnown, Project
<1>2. CASE Len(journal) # 0
  <2>1. view # NoView
    BY Zenon, <1>2, SomeView
  <2>2. view.event \in Nat /\ view.obs.at \in Nat /\ view.obs.filled \in Nat
    BY <1>2 DEF ViewKnown, JournalKnown, ObservationType
  <2>3. o.at \in Nat /\ o.filled \in Nat
    BY DEF ObservationType
  <2> QED
    BY SMTT(20), <1>2, <2>1, <2>2, <2>3 DEF Project
<1> QED
  BY Zenon, <1>1, <1>2

\* An event that is in the journal was applied: projecting it again changes nothing.
LEMMA KnownEvent ==
  ASSUME JournalKnown, ViewKnown, EventsApplied, NEW k \in 1..Len(journal)
  PROVE  Project(view, k, journal[k]) = view
<1>1. Len(journal) # 0 /\ k \in Nat /\ journal[k] \in ObservationType
  BY DEF JournalKnown
<1>2. k <= view.event \/ journal[k].at < view.obs.at \/ journal[k].filled < view.obs.filled
  BY Zenon DEF EventsApplied
<1>3. view # NoView
  BY Zenon, <1>1, SomeView
<1> QED
  BY Zenon, <1>2, <1>3 DEF Project

\* Replay is the recursion's solution.
LEMMA ReplayIsView ==
  ASSUME ReplayKnown
  PROVE  Replay = view
<1> DEFINE f == CHOOSE g : Replays(g)
<1>1. Replays(f)
  BY Zenon DEF ReplayKnown
<1>2. f[Len(journal)] = view
  BY Zenon, <1>1 DEF ReplayKnown
<1>3. Replay = f[Len(journal)]
  BY Zenon DEF Replay, Replays
<1> QED
  BY Zenon, <1>2, <1>3

-----------------------------------------------------------------------------
(* The steps. *)

\* observe_orders: a repeated payload leaves the journal and the view; a new one is appended
\* and projected.  A reservation is released on the stored view.
LEMMA ObserveIs ==
  ASSUME VersionsKnown, JournalKnown, ViewKnown, EventsApplied,
         NEW n \in 1..Len(versions), NEW parent \in Parents, NEW cancelling \in BOOLEAN,
         ObserveOrder(versions[n], parent, cancelling)
  PROVE  /\ \/ Len(journal) # 0 /\ UNCHANGED <<journal, view>>
            \/ /\ journal' = Append(journal, Observation(versions[n], parent))
               /\ view' = Project(view, Len(journal) + 1, Observation(versions[n], parent))
         /\ \/ signal' = signal
            \/ /\ signal' = "FAILED" /\ signal = "EXECUTED" /\ executed_at = "none"
               /\ view'.obs.status \in BROKER_TERMINAL_STATUSES /\ view'.obs.filled = 0
         /\ UNCHANGED <<versions, executed_at>>
<1> DEFINE o == Observation(versions[n], parent)
           known == \E k \in DOMAIN journal : journal[k] = o
           key == CHOOSE k \in DOMAIN journal : journal[k] = o
           v == Project(view, IF known THEN key ELSE Len(journal) + 1, o)
<1>1. /\ journal' = IF known THEN journal ELSE Append(journal, o)
      /\ view' = v
      /\ signal' = (IF Releases(v) /\ ~cancelling THEN "FAILED" ELSE signal)
      /\ UNCHANGED <<versions, executed_at>>
  BY Zenon DEF ObserveOrder
<1>2. \/ signal' = signal
      \/ /\ signal' = "FAILED" /\ signal = "EXECUTED" /\ executed_at = "none"
         /\ view'.obs.status \in BROKER_TERMINAL_STATUSES /\ view'.obs.filled = 0
  <2>1. signal' = signal \/ (signal' = "FAILED" /\ Releases(v))
    BY <1>1, Zenon
  <2>2. Releases(v) => /\ signal = "EXECUTED" /\ executed_at = "none"
                       /\ view'.obs.status \in BROKER_TERMINAL_STATUSES /\ view'.obs.filled = 0
    BY Zenon, <1>1 DEF Releases
  <2> QED
    BY Zenon, <2>1, <2>2
<1>3. CASE known
  <2>1. key \in 1..Len(journal) /\ journal[key] = o
    BY <1>3 DEF JournalKnown
  <2>2. Project(view, key, o) = view
    BY Zenon, <2>1, KnownEvent
  <2> QED
    BY SMTT(20), <1>1, <1>2, <1>3, <2>1, <2>2
<1>4. CASE ~known
  BY Zenon, <1>1, <1>2, <1>4
<1> QED
  BY Zenon, <1>3, <1>4

\* A new event at the end of the journal; the older ones keep their place.
Appends(o) ==
    /\ o \in ObservationType
    /\ journal' = Append(journal, o)
    /\ view' = Project(view, Len(journal) + 1, o)

\* Append keeps what was journaled (observe_orders).
LEMMA Appended ==
  ASSUME JournalKnown, NEW o \in ObservationType, journal' = Append(journal, o)
  PROVE  /\ Len(journal) \in Nat /\ Len(journal') = Len(journal) + 1
         /\ journal' \in Seq(ObservationType)
         /\ \A k \in 1..Len(journal) : journal'[k] = journal[k]
         /\ journal'[Len(journal) + 1] = o
  BY DEF JournalKnown

\* The view stays the payload of its event.
LEMMA ViewNext ==
  ASSUME JournalKnown, ViewKnown, EventsApplied, NEW o, Appends(o)
  PROVE  ViewKnown' /\ EventsApplied'
<1> DEFINE id == Len(journal) + 1
<1>1. /\ o \in ObservationType /\ id \in Nat /\ Len(journal) \in Nat
      /\ journal' = Append(journal, o) /\ view' = Project(view, id, o)
  BY DEF Appends, JournalKnown
<1>2. /\ Len(journal') = id /\ journal'[id] = o
      /\ \A k \in 1..Len(journal) : journal'[k] = journal[k]
  BY Zenon, <1>1, Appended
<1>3. /\ o.at \in Nat /\ o.filled \in Nat
      /\ \A k \in 1..Len(journal) : journal[k].at \in Nat /\ journal[k].filled \in Nat
  <2>1. \A p \in ObservationType : p.at \in Nat /\ p.filled \in Nat
    BY DEF ObservationType
  <2>2. \A k \in 1..Len(journal) : journal[k] \in ObservationType
    BY DEF JournalKnown
  <2> QED
    BY Zenon, <1>1, <2>1, <2>2
<1>4. CASE Len(journal) = 0
  <2>1. view' = [event |-> id, obs |-> o]
    BY Zenon, <1>1, <1>4, ProjectIs
  <2> QED
    BY <1>1, <1>2, <1>4, <2>1 DEF ViewKnown, EventsApplied
<1>5. CASE Len(journal) # 0
  <2>1. /\ view = [event |-> view.event, obs |-> view.obs]
        /\ view.event \in 1..Len(journal) /\ view.obs \in ObservationType
        /\ view.obs.at = journal[view.event].at
        /\ view.obs.filled = journal[view.event].filled
        /\ view.obs.status = journal[view.event].status
        /\ view.obs.at \in Nat /\ view.obs.filled \in Nat
    BY <1>1, <1>5 DEF ViewKnown, ObservationType
  <2>2. CASE view' = view
    <3>1. o.at < view.obs.at \/ o.filled < view.obs.filled
      BY <1>1, <1>5, <2>1, <2>2, ProjectIs
    <3>2. ViewKnown'
      BY SMTT(20), <1>1, <1>2, <2>1, <2>2 DEF ViewKnown
    <3>3. EventsApplied'
      BY SMTT(20), <1>1, <1>2, <2>2, <3>1 DEF EventsApplied
    <3> QED
      BY Zenon, <3>2, <3>3
  <2>3. CASE view' = [event |-> id, obs |-> WithParent(o, view.obs)]
    <3>1. /\ WithParent(o, view.obs) \in ObservationType
          /\ WithParent(o, view.obs).at = o.at
          /\ WithParent(o, view.obs).filled = o.filled
          /\ WithParent(o, view.obs).status = o.status
      BY Zenon, <1>1, <2>1, WithParentIs
    <3>2. view'.event = id /\ view'.obs = WithParent(o, view.obs)
      BY <2>3
    <3>3. ViewKnown'
      BY SMTT(20), <1>1, <1>2, <2>3, <3>1, <3>2 DEF ViewKnown
    <3>4. EventsApplied'
      BY SMTT(20), <1>1, <1>2, <3>2 DEF EventsApplied
    <3> QED
      BY Zenon, <3>3, <3>4
  <2> QED
    BY Zenon, <1>1, <1>5, <2>2, <2>3, ProjectIs
<1> QED
  BY <1>4, <1>5

\* The replay of the longer journal ends in the projection of the new event.
LEMMA ReplayNext ==
  ASSUME JournalKnown, ReplayKnown, NEW o, Appends(o)
  PROVE  ReplayKnown'
<1> DEFINE L == Len(journal)
<1>1. /\ o \in ObservationType /\ journal' = Append(journal, o)
      /\ view' = Project(view, L + 1, o)
  BY DEF Appends
<1>2. /\ L \in Nat /\ Len(journal') = L + 1 /\ journal'[L + 1] = o
      /\ \A k \in 1..L : journal'[k] = journal[k]
  BY Zenon, <1>1, Appended
<1>3. \E g : Replays(g)'
  <2>1. PICK f : Replays(f)
    BY Zenon DEF ReplayKnown
  <2> DEFINE g == [n \in 0..(L + 1) |-> IF n = L + 1 THEN Project(f[L], L + 1, o) ELSE f[n]]
  <2>2. \A n \in 0..L : g[n] = f[n]
    BY <1>2
  <2>3. ASSUME NEW n \in 0..(L + 1)
        PROVE  g[n] = IF n = 0 THEN NoView ELSE Project(g[n - 1], n, journal'[n])
    <3>1. CASE n = L + 1
      <4>1. g[n] = Project(f[L], L + 1, o) /\ g[n - 1] = f[L] /\ n # 0
        BY <1>2, <2>2, <3>1
      <4> QED
        BY Zenon, <1>2, <3>1, <4>1
    <3>2. CASE n # L + 1 /\ n # 0
      <4>1. n \in 1..L /\ n - 1 \in 0..L
        BY <1>2, <3>2
      <4>2. f[n] = Project(f[n - 1], n, journal[n])
        BY <2>1, <3>2, <4>1 DEF Replays
      <4>3. g[n] = f[n] /\ g[n - 1] = f[n - 1] /\ journal'[n] = journal[n]
        BY SMTT(20), <1>2, <2>2, <4>1
      <4> QED
        BY Zenon, <3>2, <4>2, <4>3
    <3>3. CASE n = 0
      <4>1. f[0] = NoView
        BY SMTT(20), <1>2, <2>1 DEF Replays
      <4> QED
        BY SMTT(20), <1>2, <2>2, <3>3, <4>1
    <3> QED
      BY Zenon, <3>1, <3>2, <3>3
  <2>4. g = [n \in 0..(L + 1) |-> IF n = 0 THEN NoView ELSE Project(g[n - 1], n, journal'[n])]
    BY Zenon, <2>3
  <2>5. PICK h : h = [n \in 0..(L + 1) |-> IF n = 0 THEN NoView ELSE Project(h[n - 1], n, journal'[n])]
    <3> HIDE DEF g
    <3> QED
      BY Zenon, <2>4
  <2>6. Replays(h)'
    BY Zenon, <1>2, <2>5 DEF Replays, Project
  <2> QED
    BY Zenon, <2>6
<1>4. ASSUME NEW g, Replays(g)' PROVE g[L + 1] = view'
  <2>1. g = [n \in 0..(L + 1) |-> IF n = 0 THEN NoView ELSE Project(g[n - 1], n, journal'[n])]
    BY Zenon, <1>2, <1>4 DEF Replays, Project
  <2> DEFINE f == [n \in 0..L |-> g[n]]
  <2>2. ASSUME NEW n \in 0..L
        PROVE  f[n] = IF n = 0 THEN NoView ELSE Project(f[n - 1], n, journal[n])
    <3>1. CASE n = 0
      BY <1>2, <2>1, <3>1
    <3>2. CASE n # 0
      <4>1. n \in 1..L /\ n - 1 \in 0..L /\ n \in 0..(L + 1)
        BY <1>2, <3>2
      <4>2. g[n] = Project(g[n - 1], n, journal'[n])
        BY Zenon, <2>1, <3>2, <4>1
      <4>3. f[n] = g[n] /\ f[n - 1] = g[n - 1] /\ journal'[n] = journal[n]
        BY Zenon, <1>2, <4>1
      <4> QED
        BY Zenon, <3>2, <4>2, <4>3
    <3> QED
      BY Zenon, <3>1, <3>2
  <2>3. Replays(f)
    BY Zenon, <2>2 DEF Replays
  <2>4. f[L] = view
    BY Zenon, <2>3 DEF ReplayKnown
  <2>5. g[L] = view /\ L + 1 \in 0..(L + 1) /\ L + 1 # 0 /\ (L + 1) - 1 = L
    BY <1>2, <2>4
  <2>6. g[L + 1] = Project(g[L], L + 1, journal'[L + 1])
    BY Zenon, <2>1, <2>5
  <2> QED
    BY Zenon, <1>1, <1>2, <2>5, <2>6
<1> QED
  BY Zenon, <1>2, <1>3, <1>4 DEF ReplayKnown

-----------------------------------------------------------------------------
(* The invariant. *)

\* The broker's order as it is before anything was observed.
LEMMA ProjectionInit ==
  ASSUME OrderInit
  PROVE  ProjectionInv
<1> DEFINE first == [at |-> 0, filled |-> 0, status |-> "new"]
<1>1. versions = <<first>> /\ journal = <<>> /\ view = NoView
      /\ signal = "SUBMITTING" /\ executed_at = "none"
  BY Zenon DEF OrderInit
<1>2. VersionsKnown
  <2>1. first \in VersionType
    BY QuantityAssumption DEF VersionType, LiveStatus
  <2> QED
    BY <1>1, <2>1 DEF VersionsKnown
<1>3. JournalKnown /\ ViewKnown /\ EventsApplied
  BY SMTT(20), <1>1 DEF JournalKnown, ViewKnown, EventsApplied
<1>4. ReplayKnown
  <2>1. Len(journal) = 0 /\ 0..0 = {0}
    BY <1>1
  <2> DEFINE f == [n \in {0} |-> NoView]
  <2>2. Replays(f)
    BY Zenon, <2>1 DEF Replays
  <2>3. ASSUME NEW g, Replays(g) PROVE g[0] = NoView
    BY Zenon, <2>1, <2>3 DEF Replays
  <2> QED
    BY Zenon, <1>1, <2>1, <2>2, <2>3 DEF ReplayKnown
<1>5. SignalKnown
  BY Zenon, <1>1 DEF SignalKnown, FailedOnlyUnfilled
<1> QED
  BY Zenon, <1>2, <1>3, <1>4, <1>5 DEF ProjectionInv

\* Nothing is replayed differently while the journal stays (rebuild_order_views).
LEMMA JournalStays ==
  ASSUME ViewKnown, EventsApplied, ReplayKnown, UNCHANGED <<journal, view>>
  PROVE  ViewKnown' /\ EventsApplied' /\ ReplayKnown'
<1>1. ViewKnown' /\ EventsApplied'
  BY Zenon DEF ViewKnown, EventsApplied
<1>2. ASSUME NEW f PROVE Replays(f)' <=> Replays(f)
  BY Zenon DEF Replays, Project
<1>3. ReplayKnown'
  BY Zenon, <1>2 DEF ReplayKnown
<1> QED
  BY Zenon, <1>1, <1>3

\* A version that is final is the order, and it stays so.
LEMMA FinalVersion ==
  ASSUME VersionsKnown, NEW n \in 1..Len(versions), versions[n].status \in BROKER_TERMINAL_STATUSES
  PROVE  Order = versions[n]
<1>1. n = Len(versions)
  BY DEF VersionsKnown, LiveStatus, BROKER_TERMINAL_STATUSES
<1> QED
  BY <1>1 DEF Order

\* A change of the order adds a version.
LEMMA ChangeNext ==
  ASSUME ProjectionInv, OrderChanges
  PROVE  ProjectionInv'
<1>1. /\ VersionsKnown /\ JournalKnown /\ ViewKnown /\ EventsApplied /\ ReplayKnown /\ SignalKnown
      /\ Order.status \in LiveStatus /\ UNCHANGED <<journal, view, signal, executed_at>>
  BY Zenon DEF ProjectionInv, OrderChanges
<1>2. Order.at \in Nat /\ Order.filled \in Nat /\ Len(versions) \in Nat
  <2>1. Len(versions) \in Nat /\ Order \in VersionType
    BY <1>1 DEF VersionsKnown, Order
  <2> QED
    BY <2>1 DEF VersionType
<1>3. PICK w \in VersionType : versions' = Append(versions, w)
  <2>1. PICK tick \in {0, 1}, live \in LiveStatus \cup {"canceled"}, fill \in {0, 1} :
           /\ Order.filled + fill <= Quantity
           /\ versions' = Append(versions,
                [at |-> Order.at + tick,
                 filled |-> Order.filled + fill,
                 status |-> IF Order.filled + fill = Quantity THEN "filled" ELSE live])
    BY Zenon DEF OrderChanges
  <2>2. Order.at + tick \in Nat /\ Order.filled + fill \in 0..Quantity
    BY <1>2, <2>1
  <2>3. (IF Order.filled + fill = Quantity THEN "filled" ELSE live) \in Statuses
    BY DEF Statuses, BROKER_TERMINAL_STATUSES
  <2> QED
    BY Zenon, <2>1, <2>2, <2>3 DEF VersionType, Statuses
<1>4. /\ versions' \in Seq(VersionType) /\ Len(versions') = Len(versions) + 1
      /\ \A n \in 1..Len(versions) : versions'[n] = versions[n]
  BY SMTT(20), <1>1, <1>3 DEF VersionsKnown
<1>5. VersionsKnown'
  BY <1>1, <1>2, <1>4 DEF VersionsKnown, Order
<1>6. JournalKnown'
  <2>1. ASSUME NEW k \in 1..Len(journal)
        PROVE  \E n \in 1..Len(versions'), parent \in Parents : journal'[k] = Observation(versions'[n], parent)
    <3>1. PICK n \in 1..Len(versions), parent \in Parents : journal[k] = Observation(versions[n], parent)
      BY <1>1 DEF JournalKnown
    <3>2. n \in 1..Len(versions') /\ versions'[n] = versions[n]
      BY <1>2, <1>4
    <3> QED
      BY Zenon, <1>1, <3>1, <3>2
  <2>2. journal' \in Seq(ObservationType) /\ Len(journal') = Len(journal)
    BY Zenon, <1>1 DEF JournalKnown
  <2> QED
    BY Zenon, <2>1, <2>2 DEF JournalKnown, Observation
<1>7. ViewKnown' /\ EventsApplied' /\ ReplayKnown'
  BY Zenon, <1>1, JournalStays
<1>8. SignalKnown'
  BY Zenon, <1>1 DEF SignalKnown, FailedOnlyUnfilled, LiveStatus, BROKER_TERMINAL_STATUSES
<1> QED
  BY Zenon, <1>5, <1>6, <1>7, <1>8 DEF ProjectionInv

\* An observation, new or repeated, late or not (observe_orders).
LEMMA ObserveNext ==
  ASSUME ProjectionInv, NEW n \in 1..Len(versions), NEW parent \in Parents, NEW cancelling \in BOOLEAN,
         ObserveOrder(versions[n], parent, cancelling)
  PROVE  ProjectionInv'
<1> DEFINE o == Observation(versions[n], parent)
<1>1. VersionsKnown /\ JournalKnown /\ ViewKnown /\ EventsApplied /\ ReplayKnown /\ SignalKnown
  BY DEF ProjectionInv
<1>2. o \in ObservationType
  BY Zenon, <1>1, ObservationOK
<1>3. UNCHANGED <<versions, executed_at>>
  BY Zenon, <1>1, ObserveIs
<1>4. VersionsKnown'
  BY Zenon, <1>1, <1>3 DEF VersionsKnown
<1>5. (Len(journal) # 0 /\ UNCHANGED <<journal, view>>) \/ Appends(o)
  BY Zenon, <1>1, <1>2, ObserveIs DEF Appends
<1>6. JournalKnown'
  <2>1. CASE journal' = journal
    <3>1. \A k \in 1..Len(journal') :
             \E m \in 1..Len(versions'), p \in Parents : journal'[k] = Observation(versions'[m], p)
      BY Zenon, <1>1, <1>3, <2>1 DEF JournalKnown
    <3>2. journal' \in Seq(ObservationType)
      BY Zenon, <1>1, <2>1 DEF JournalKnown
    <3> QED
      BY Zenon, <3>1, <3>2 DEF JournalKnown, Observation
  <2>2. CASE Appends(o)
    <3>1. journal' = Append(journal, o)
      BY Zenon, <2>2 DEF Appends
    <3>2. /\ Len(journal) \in Nat /\ Len(journal') = Len(journal) + 1 /\ journal' \in Seq(ObservationType)
          /\ \A k \in 1..Len(journal) : journal'[k] = journal[k]
          /\ journal'[Len(journal) + 1] = o
      BY Zenon, <1>1, <1>2, <3>1, Appended
    <3>3. ASSUME NEW k \in 1..Len(journal')
          PROVE  \E m \in 1..Len(versions), p \in Parents : journal'[k] = Observation(versions[m], p)
      <4>1. CASE k \in 1..Len(journal)
        BY Zenon, <1>1, <3>2, <4>1 DEF JournalKnown
      <4>2. CASE k = Len(journal) + 1
        BY Zenon, <3>2, <4>2
      <4> QED
        BY <3>2, <4>1, <4>2
    <3> QED
      BY Zenon, <1>3, <3>2, <3>3 DEF JournalKnown, Observation
  <2> QED
    BY Zenon, <1>5, <2>1, <2>2
<1>7. ViewKnown' /\ EventsApplied' /\ ReplayKnown'
  <2>1. CASE UNCHANGED <<journal, view>>
    BY Zenon, <1>1, <2>1, JournalStays
  <2>2. CASE Appends(o)
    BY Zenon, <1>1, <2>2, ViewNext, ReplayNext
  <2> QED
    BY Zenon, <1>5, <2>1, <2>2
<1>8. SignalKnown'
  <2>1. CASE signal' = signal
    BY Zenon, <1>1, <1>3, <2>1 DEF SignalKnown, FailedOnlyUnfilled, Order
  <2>2. CASE /\ signal' = "FAILED" /\ signal = "EXECUTED" /\ executed_at = "none"
             /\ view'.obs.status \in BROKER_TERMINAL_STATUSES /\ view'.obs.filled = 0
    <3>1. Len(journal') # 0
      <4>1. CASE Appends(o)
        BY SMTT(20), <1>1, <1>2, <4>1, Appended DEF Appends
      <4>2. CASE Len(journal) # 0 /\ UNCHANGED journal
        BY Zenon, <4>2
      <4> QED
        BY Zenon, <1>5, <4>1, <4>2
    <3>2. PICK k \in 1..Len(journal') :
             view'.obs.filled = journal'[k].filled /\ view'.obs.status = journal'[k].status
      BY Zenon, <1>7, <3>1 DEF ViewKnown
    <3>3. PICK m \in 1..Len(versions'), p \in Parents : journal'[k] = Observation(versions'[m], p)
      BY Zenon, <1>6 DEF JournalKnown, Observation
    <3>4. m \in 1..Len(versions) /\ journal'[k] = Observation(versions[m], p)
      BY Zenon, <1>3, <3>3
    <3>5. versions[m].status \in BROKER_TERMINAL_STATUSES /\ versions[m].filled = 0
      BY Zenon, <1>1, <2>2, <3>2, <3>4, ObservationOK
    <3>6. Order = versions[m]
      BY Zenon, <1>1, <3>4, <3>5, FinalVersion
    <3>7. Order' = Order
      BY Zenon, <1>3 DEF Order
    <3> QED
      BY Zenon, <1>3, <2>2, <3>5, <3>6, <3>7 DEF SignalKnown, FailedOnlyUnfilled
  <2> QED
    BY Zenon, <1>1, <2>1, <2>2, ObserveIs
<1> QED
  BY Zenon, <1>4, <1>6, <1>7, <1>8 DEF ProjectionInv

\* Every step keeps the invariant (OrderNext).
LEMMA ProjectionNext ==
  ASSUME ProjectionInv, [OrderNext]_orderVars
  PROVE  ProjectionInv'
<1>0. VersionsKnown /\ JournalKnown /\ ViewKnown /\ EventsApplied /\ ReplayKnown /\ SignalKnown
  BY Zenon DEF ProjectionInv
<1>1. ASSUME NEW n \in DOMAIN versions, NEW parent \in Parents, NEW cancelling \in BOOLEAN,
             ObserveOrder(versions[n], parent, cancelling)
      PROVE  ProjectionInv'
  <2>1. n \in 1..Len(versions)
    BY <1>0 DEF VersionsKnown
  <2> QED
    BY Zenon, <1>1, <2>1, ObserveNext
<1>2. ASSUME UNCHANGED <<versions, journal, view>>, SignalKnown' PROVE ProjectionInv'
  <2>1. VersionsKnown' /\ JournalKnown'
    <3>1. journal' \in Seq(ObservationType)
          /\ \A k \in 1..Len(journal') :
                \E n \in 1..Len(versions'), p \in Parents : journal'[k] = Observation(versions'[n], p)
      BY Zenon, <1>0, <1>2 DEF JournalKnown
    <3>2. JournalKnown'
      BY Zenon, <3>1 DEF JournalKnown, Observation
    <3> QED
      BY Zenon, <1>0, <1>2, <3>2 DEF VersionsKnown
  <2> QED
    BY Zenon, <1>0, <1>2, <2>1, JournalStays DEF ProjectionInv
<1>3. CASE RebuildOrderViews
  <2>1. UNCHANGED <<versions, journal, view, signal, executed_at>>
    BY Zenon, <1>0, <1>3, ReplayIsView DEF RebuildOrderViews
  <2>2. SignalKnown'
    BY Zenon, <1>0, <2>1 DEF SignalKnown, FailedOnlyUnfilled, Order
  <2> QED
    BY Zenon, <1>2, <2>1, <2>2
<1>4. CASE EntryAccepted
  BY Zenon, <1>0, <1>2, <1>4 DEF EntryAccepted, SignalKnown, FailedOnlyUnfilled
<1>5. CASE SyncEntryExecution
  BY Zenon, <1>0, <1>2, <1>5 DEF SyncEntryExecution, SignalKnown, FailedOnlyUnfilled
<1>6. CASE UNCHANGED orderVars
  <2>1. SignalKnown'
    BY Zenon, <1>0, <1>6 DEF orderVars, SignalKnown, FailedOnlyUnfilled, Order
  <2> QED
    BY Zenon, <1>2, <1>6, <2>1 DEF orderVars
<1> QED
  BY Zenon, <1>1, <1>3, <1>4, <1>5, <1>6, ChangeNext DEF OrderNext

\* The journal, the stored view, its replay and the released reservation stay in step from the
\* first observation on, for late, repeated and reordered ones (observe_orders, _project_order).
THEOREM ProjectionInductive == OrderSpec => []ProjectionInv
<1>1. OrderInit => ProjectionInv
  BY Zenon, ProjectionInit
<1>2. ProjectionInv /\ [OrderNext]_orderVars => ProjectionInv'
  BY Zenon, ProjectionNext
<1> QED
  BY <1>1, <1>2, PTL DEF OrderSpec

\* rebuild_order_views changes nothing, and a reservation is released only of an order that
\* ended unfilled, however stale the observation that released it.
THEOREM ProjectionTrue == OrderSpec => []ProjectionIsTrue
<1>1. ProjectionInv => ProjectionIsTrue
  <2> SUFFICES ASSUME ProjectionInv PROVE ProjectionIsTrue
    BY Zenon
  <2>1. VersionsKnown /\ JournalKnown /\ ViewKnown /\ ReplayKnown /\ SignalKnown
    BY Zenon DEF ProjectionInv
  <2>2. DOMAIN journal = 1..Len(journal) /\ DOMAIN versions = 1..Len(versions) /\ versions # <<>>
    BY <2>1 DEF JournalKnown, VersionsKnown
  <2>3. view = NoView \/ (view.event \in DOMAIN journal /\ view.obs.at = journal[view.event].at)
    BY Zenon, <2>1, <2>2 DEF ViewKnown
  <2>4. OrderTypeOK
    BY Zenon, <2>1, <2>2, <2>3 DEF OrderTypeOK, VersionsKnown, JournalKnown, SignalKnown
  <2>5. view = Replay
    BY Zenon, <2>1, ReplayIsView
  <2> QED
    BY Zenon, <2>1, <2>4, <2>5 DEF ProjectionIsTrue, RebuildAgrees, SignalKnown
<1> QED
  BY <1>1, ProjectionInductive, PTL

\* No step moves the view back in time or quantity or loses a parent link (_project_order).
THEOREM NeverBack == OrderSpec => NeverRollsBack
<1> DEFINE Kept == view # NoView =>
                     /\ view'.obs.at >= view.obs.at
                     /\ view'.obs.filled >= view.obs.filled
                     /\ view.obs.parent = "known" => view'.obs.parent = "known"
<1>1. ProjectionInv /\ [OrderNext]_orderVars => [Kept]_orderVars
  <2> SUFFICES ASSUME ProjectionInv, [OrderNext]_orderVars, view # NoView
               PROVE  /\ view'.obs.at >= view.obs.at
                      /\ view'.obs.filled >= view.obs.filled
                      /\ view.obs.parent = "known" => view'.obs.parent = "known"
    BY Zenon
  <2>1. VersionsKnown /\ JournalKnown /\ ViewKnown /\ EventsApplied /\ ReplayKnown
    BY Zenon DEF ProjectionInv
  <2>2. Len(journal) # 0 /\ Len(journal) \in Nat
    BY <2>1 DEF ViewKnown, JournalKnown
  <2>3. view.obs \in ObservationType /\ view.obs.at \in Nat /\ view.obs.filled \in Nat
    BY <2>1, <2>2 DEF ViewKnown, ObservationType
  <2>4. CASE view' = view
    BY <2>3, <2>4
  <2>5. ASSUME NEW n \in DOMAIN versions, NEW parent \in Parents, NEW cancelling \in BOOLEAN,
               ObserveOrder(versions[n], parent, cancelling), view' # view
        PROVE  /\ view'.obs.at >= view.obs.at
               /\ view'.obs.filled >= view.obs.filled
               /\ view.obs.parent = "known" => view'.obs.parent = "known"
    <3> DEFINE o == Observation(versions[n], parent)
    <3>1. n \in 1..Len(versions)
      BY <2>1 DEF VersionsKnown
    <3>2. o \in ObservationType
      BY Zenon, <2>1, <3>1, ObservationOK
    <3>3. view' = Project(view, Len(journal) + 1, o)
      BY Zenon, <2>1, <2>5, <3>1, ObserveIs
    <3>4. /\ o.at >= view.obs.at /\ o.filled >= view.obs.filled
          /\ view' = [event |-> Len(journal) + 1, obs |-> WithParent(o, view.obs)]
      <4>1. Len(journal) + 1 \in Nat
        BY <2>2
      <4>2. Project(view, Len(journal) + 1, o) # view
        BY Zenon, <2>5, <3>3
      <4>3. /\ o.at >= view.obs.at /\ o.filled >= view.obs.filled
            /\ Project(view, Len(journal) + 1, o) = [event |-> Len(journal) + 1, obs |-> WithParent(o, view.obs)]
        BY Zenon, <2>1, <2>2, <3>2, <4>1, <4>2, ProjectIs
      <4> QED
        BY Zenon, <3>3, <4>3
    <3>5. view'.obs = WithParent(o, view.obs)
      BY Zenon, <3>4
    <3> QED
      BY Zenon, <2>3, <3>2, <3>4, <3>5, WithParentIs
  <2>6. CASE RebuildOrderViews
    BY Zenon, <2>1, <2>4, <2>6, ReplayIsView DEF RebuildOrderViews
  <2>7. CASE OrderChanges \/ EntryAccepted \/ SyncEntryExecution \/ UNCHANGED orderVars
    BY Zenon, <2>4, <2>7 DEF OrderChanges, EntryAccepted, SyncEntryExecution, orderVars
  <2> QED
    BY Zenon, <2>4, <2>5, <2>6, <2>7 DEF OrderNext
<1> QED
  BY <1>1, ProjectionInductive, PTL DEF OrderSpec, NeverRollsBack
=============================================================================

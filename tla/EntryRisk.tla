----------------------------- MODULE EntryRisk -----------------------------
(***************************************************************************)
(* Admission of an entry against the book: reservation_rejection of        *)
(* execution/admission.py over the rules of risk/rules.py, and             *)
(* assess_entry_capacity of execution/capacity.py over the evidence that   *)
(* broker/alpaca.py captures with several requests, as enqueue_entry,      *)
(* dispatch_one and begin_submission call them.  Meanwhile orders fill,    *)
(* protection is cancelled or replaced, positions end, the ledger is       *)
(* imported again, and somebody trades by hand.  A mark and the equity are *)
(* whatever the market makes them when they are read.                      *)
(*                                                                         *)
(* EntryWorkflow has the queue's leases, crashes and halt; here one        *)
(* dispatching task serves it.  A rule about the candidate alone (its      *)
(* reward, its own caps, its quote, its age) refuses for a reason outside  *)
(* the model.  Notional, asset-class and correlation limits bound the same *)
(* sums and counts as stop risk and positions, and are left out.           *)
(***************************************************************************)
EXTENDS Integers, Sequences, FiniteSets, FiniteSetsExt

CONSTANTS
    Signals,
    SymbolOf,       \* signal -> contract
    RiskOf,         \* signal -> planned stop risk
    MaxPositions,   \* max_concurrent_positions
    Equities,       \* observed equity, as the aggregate stop risk it affords
    Distances       \* distance of a market mark from the stop, in units of risk

VARIABLES
    status,         \* signal and its ENTRY item: see Reserved
    queue,          \* entry items by sequence, from the first that is unresolved
    worker,         \* dispatch_one: its step and the evidence it holds
    account,        \* equity of the ledger's latest risk checkpoint
    order,          \* entry order group at the broker
    foreign,        \* an order or position that no signal owns
    seen            \* the broker's book when the capture first listed the orders (history)

riskVars == <<status, queue, worker, account, order, foreign, seen>>

Symbols == {SymbolOf[s] : s \in Signals}
Submitting == {"queued", "checking", "committed"}   \* SignalStatus.SUBMITTING
Protected == {"held", "rearmed"}                    \* filled, with its exact live stop; rearmed: another stop
Holding == Protected \cup {"partial", "exposed"}
Live == Holding \cup {"working"}
NoBook == [order |-> <<>>, foreign |-> "none"]
NoSignal == "none"

\* The locals of dispatch_one, _preflight and entry_market_context.
Idle ==
    [step |-> "idle", signal |-> NoSignal, risk |-> 0, current |-> FALSE,  \* risk and whether it is the latest import
     rows |-> <<>>, equity |-> 0, cash |-> FALSE,                            \* the account; cash: unchanged since account_before
     positions |-> <<>>, orders |-> <<>>, marks |-> <<>>]

Init ==
    /\ status = [s \in Signals |-> "pending"]
    /\ queue = <<>>
    /\ worker = Idle
    /\ account \in Equities
    /\ order = [s \in Signals |-> "none"]
    /\ foreign = "none"
    /\ seen = NoBook

-----------------------------------------------------------------------------
(* The rules. *)

\* Mutant: only executed entries count.
ReservedExecuted(s) == {r \in Signals \ {s} : status[r] = "executed"}

\* reservations and the reads of enqueue_entry and begin_submission.
Reserved(s) == {r \in Signals \ {s} : status[r] \in Submitting \cup {"executed"}}

\* The reservations as rows, with the status they had when they were read.
Rows(s) == [r \in Reserved(s) |-> status[r]]

\* An executed row has its broker_order_id.
Tracked(rows) == {r \in DOMAIN rows : rows[r] = "executed"}

\* admission_gates: aggregate_stop_risk, concurrent_positions, same_symbol.
admission_gates(s, book, risk, budget) ==
    /\ MapThenSumSet(LAMBDA r : risk[r], book) + RiskOf[s] <= budget
    /\ Cardinality(book) < MaxPositions
    /\ \A r \in book : SymbolOf[r] # SymbolOf[s]

\* Mutant: a position that no reservation covers is overlooked.
NoCheckUntracked(tracked, context) == TRUE

\* The end of _exposure: every holding and every live order belongs to a reservation.
NoneUntracked(tracked, context) ==
    /\ ~ context.positions.foreign /\ ~ context.orders.foreign
    /\ \A y \in Symbols : context.positions.own[y] # "none" =>
          \E r \in tracked : SymbolOf[r] = y /\ context.orders.own[r] \in Protected
    /\ \A r \in Signals \ tracked : context.orders.own[r] \notin Live

\* _exposure: a reservation without an order id counts as planned; one with an id has a pending
\* bracket, or a whole holding with its exact stop, and then counts at the worse of plan and mark.
_exposure(rows, context) ==
    /\ \A r \in Tracked(rows) :
          \/ context.orders.own[r] = "working" /\ context.positions.own[SymbolOf[r]] = "none"
          \/ /\ context.orders.own[r] \in Protected /\ context.positions.own[SymbolOf[r]] = "full"
             /\ context.marks[SymbolOf[r]] > 0
    /\ NoneUntracked(Tracked(rows), context)

\* Mutant: a holding counts with its planned risk, wherever its mark is.
PlannedRisk(r, rows, context) == RiskOf[r]

RowRisk(r, rows, context) ==
    IF r \in Tracked(rows) /\ context.orders.own[r] \in Protected
    THEN Max({RiskOf[r], context.marks[SymbolOf[r]]}) ELSE RiskOf[r]

assess_entry_capacity(s, rows, context, risk) ==
    /\ _exposure(rows, context)
    /\ admission_gates(s, DOMAIN rows, [r \in DOMAIN rows |-> RowRisk(r, rows, context)],
                       Min({context.equity, risk}))

-----------------------------------------------------------------------------
(* The broker and the ledger. *)

\* A fill changes the account's cash, which inventory_identity compares.
CashMoves == worker' = [worker EXCEPT !.cash = FALSE]

Fills(s) ==
    /\ \/ order[s] = "working" /\ order' = [order EXCEPT ![s] = "partial"]
       \/ order[s] \in {"working", "partial"} /\ order' = [order EXCEPT ![s] = "held"]
       \/ order[s] \in Protected \cup {"exposed"} /\ order' = [order EXCEPT ![s] = "exited"]
    /\ CashMoves
    /\ UNCHANGED <<status, queue, account, foreign>>

\* An entry ends unfilled; protection is cancelled, and replaced by another order.
Ends(s) ==
    /\ \/ order[s] = "working" /\ order' = [order EXCEPT ![s] = "dead"]
       \/ order[s] = "held" /\ order' = [order EXCEPT ![s] = "exposed"]
       \/ order[s] = "exposed" /\ order' = [order EXCEPT ![s] = "rearmed"]
    /\ UNCHANGED <<status, queue, worker, account, foreign>>

\* Somebody trades by hand.
ForeignMoves ==
    /\ \/ foreign = "none" /\ foreign' = "order" /\ UNCHANGED worker
       \/ foreign = "order" /\ foreign' = "gone" /\ UNCHANGED worker
       \/ foreign \in {"none", "order"} /\ foreign' = "holding" /\ CashMoves
       \/ foreign = "holding" /\ foreign' = "gone" /\ CashMoves
    /\ UNCHANGED <<status, queue, account, order>>

\* Another importer commits: the checkpoint's fingerprint is not the one the task read.
AccountImport ==
    /\ account' \in Equities
    /\ worker' = [worker EXCEPT !.current = FALSE]
    /\ UNCHANGED <<status, queue, order, foreign>>

\* close_position on an exit's evidence; observe_orders for an entry that ended unfilled.
SyncBook(s) ==
    /\ status[s] = "executed" /\ order[s] \in {"exited", "dead"}
    /\ status' = [status EXCEPT ![s] = IF order[s] = "dead" THEN "failed" ELSE "closed"]
    /\ UNCHANGED <<queue, worker, account, order, foreign>>

-----------------------------------------------------------------------------
(* The desk. *)

brokerSide == <<order, foreign>>

enqueue_entry(s) ==
    /\ status[s] = "pending"
    /\ admission_gates(s, Reserved(s), RiskOf, account)
    /\ status' = [status EXCEPT ![s] = "queued"]
    /\ queue' = Append(queue, s)
    /\ UNCHANGED <<worker, account, brokerSide>>

\* claim_entry; then refresh and current_risk, which leave the task's own import the latest.
claim_entry ==
    /\ worker = Idle /\ queue # <<>> /\ status[Head(queue)] = "queued"
    /\ status' = [status EXCEPT ![Head(queue)] = "checking"]
    /\ account' \in Equities
    /\ worker' = [Idle EXCEPT !.step = "preflight", !.signal = Head(queue), !.current = TRUE, !.risk = account']
    /\ UNCHANGED <<queue, brokerSide>>

taskOnly == <<status, queue, account, brokerSide>>

\* _preflight reads the reservations, entry_market_context the account.
_preflight ==
    /\ worker.step = "preflight"
    /\ worker' = [worker EXCEPT !.step = "positions", !.rows = Rows(worker.signal), !.cash = TRUE]
    /\ UNCHANGED taskOnly

_entry_positions ==
    [foreign |-> foreign = "holding",
     own |-> [y \in Symbols |->
        LET held == {order[s] : s \in {t \in Signals : SymbolOf[t] = y}} \cap Holding IN
        IF held = {} THEN "none" ELSE IF held = {"partial"} THEN "part" ELSE "full"]]

\* The open orders, and the exact entry orders of the reservations that have one.
_entry_orders ==
    [foreign |-> foreign = "order",
     own |-> [s \in Signals |->
        IF s \in Tracked(worker.rows) \/ order[s] \in Live THEN order[s] ELSE "none"]]

\* entry_market_context: positions, orders, positions and orders again, the account again.
ReadPositions ==
    /\ worker.step = "positions"
    /\ worker' = [worker EXCEPT !.step = "orders", !.positions = _entry_positions]
    /\ UNCHANGED taskOnly

ReadOrders ==
    /\ worker.step = "orders"
    /\ worker' = [worker EXCEPT !.step = "positions again", !.orders = _entry_orders]
    /\ UNCHANGED taskOnly

\* Mutant: the second reads are not compared with the first.
AnyInventory(before, after) == TRUE

\* The capture raises when anything changed while it was read.
SameInventory(before, after) == before = after

\* Marks come with the second listing of positions; a symbol not held has none (1).
ReadPositionsAgain ==
    /\ worker.step = "positions again" /\ SameInventory(worker.positions, _entry_positions)
    /\ \E marks \in [Symbols -> Distances] :
          /\ \A y \in Symbols : _entry_positions.own[y] = "none" => marks[y] = 1
          /\ worker' = [worker EXCEPT !.step = "orders again", !.positions = _entry_positions, !.marks = marks]
    /\ UNCHANGED taskOnly

ReadOrdersAgain ==
    /\ worker.step = "orders again" /\ SameInventory(worker.orders, _entry_orders)
    /\ worker' = [worker EXCEPT !.step = "account", !.orders = _entry_orders]
    /\ UNCHANGED taskOnly

\* Mutant: cash may move during the capture.
AnyAccount == TRUE

SameAccount == worker.cash

\* equity: the lower of the two readings of the account.
ReadAccount ==
    /\ worker.step = "account" /\ SameAccount
    /\ \E equity \in Equities :
          LET context == [worker EXCEPT !.step = "begin", !.equity = equity, !.rows = <<>>, !.cash = FALSE] IN
          /\ assess_entry_capacity(worker.signal, worker.rows, context, worker.risk)
          /\ worker' = context
    /\ UNCHANGED taskOnly

\* Mutant: a newer import does not refuse.
AnyFingerprint == TRUE

SameFingerprint == worker.current

\* begin_submission: the fingerprint and the book once more, under the lock.
begin_submission ==
    /\ worker.step = "begin"
    /\ SameFingerprint
    /\ assess_entry_capacity(worker.signal, Rows(worker.signal), worker, account)
    /\ status' = [status EXCEPT ![worker.signal] = "committed"]
    /\ worker' = [Idle EXCEPT !.step = "post", !.signal = worker.signal]
    /\ UNCHANGED <<queue, account, brokerSide>>

\* Any refusal before the commit: resolve_entry rejects the item.
Refused ==
    /\ worker.step \notin {"idle", "post"}
    /\ status' = [status EXCEPT ![worker.signal] = "failed"]
    /\ queue' = Tail(queue) /\ worker' = Idle
    /\ UNCHANGED <<account, brokerSide>>

\* execute_order and resolve_entry: accepted, refused, or an answer that is lost.
Post ==
    /\ worker.step = "post" /\ worker' = Idle
    /\ \/ /\ order' = [order EXCEPT ![worker.signal] = "working"]
          /\ \/ status' = [status EXCEPT ![worker.signal] = "executed"] /\ queue' = Tail(queue)
             \/ UNCHANGED <<status, queue>>
       \/ /\ status' = [status EXCEPT ![worker.signal] = "failed"] /\ queue' = Tail(queue)
          /\ UNCHANGED order
    /\ UNCHANGED <<account, foreign>>

\* recover: the exact order is found.
recover(s) ==
    /\ status[s] = "committed" /\ order[s] # "none"
    /\ status' = [status EXCEPT ![s] = IF order[s] = "dead" THEN "failed" ELSE "executed"]
    /\ queue' = Tail(queue)
    /\ UNCHANGED <<worker, account, brokerSide>>

Step ==
    \/ \E s \in Signals : Fills(s) \/ Ends(s) \/ SyncBook(s) \/ enqueue_entry(s) \/ recover(s)
    \/ ForeignMoves \/ AccountImport
    \/ claim_entry \/ _preflight \/ ReadPositions \/ ReadOrders \/ ReadPositionsAgain \/ ReadOrdersAgain \/ ReadAccount
    \/ begin_submission \/ Refused \/ Post

Next ==
    /\ Step
    /\ seen' = IF worker.step = "orders" /\ worker'.step = "positions again" THEN [order |-> order, foreign |-> foreign]
               ELSE IF worker'.step \in {"idle", "post"} THEN NoBook ELSE seen

Spec == Init /\ [][Next]_riskVars

-----------------------------------------------------------------------------
(* Properties. *)

\* An order is authorised only on a book that was really there.  When begin_submission commits,
\* the broker had, as the capture first listed its orders, no position and no order but those
\* of the desk's reservations, whole and with their stops live; and their risk at the later
\* marks with the candidate's stays within the budget of the latest import, however the reads
\* interleave with fills, exits, manual trades and imports (entry_market_context,
\* assess_entry_capacity).  So the broker never has more live entries than the limit, nor two of
\* one symbol.
BookAdmitted ==
    [][/\ (\E s \in Signals : status[s] = "checking" /\ status'[s] = "committed") =>
             LET book == {r \in Signals \ {worker.signal} : status[r] \in Submitting \cup {"executed"}}
                 risk(r) == IF seen.order[r] \in Protected THEN Max({RiskOf[r], worker.marks[SymbolOf[r]]}) ELSE RiskOf[r] IN
             /\ seen.foreign \notin {"order", "holding"}
             /\ \A r \in Signals : seen.order[r] \in Live =>
                   r \in book /\ status[r] = "executed" /\ seen.order[r] \in Protected \cup {"working"}
             /\ MapThenSumSet(risk, book) + RiskOf[worker.signal] <= account
       /\ LET live == {s \in Signals : order'[s] \in Live} IN
          /\ Cardinality(live) <= MaxPositions
          /\ \A s, t \in live : SymbolOf[s] = SymbolOf[t] => s = t]_riskVars

=============================================================================

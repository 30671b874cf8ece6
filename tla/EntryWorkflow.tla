--------------------------- MODULE EntryWorkflow ---------------------------
(***************************************************************************)
(* The durable entry queue: storage/workflow.py (enqueue_entry,            *)
(* claim_entry, begin_submission, resolve_entry, observe_orders), the      *)
(* application service execution/entries.py that drives it, the halt and   *)
(* resume commands of agent/copilot.py, and the broker as these use it.    *)
(*                                                                         *)
(* Every database transaction takes the scope lock, so a transaction is    *)
(* one step; a remote call lies between two steps.  A worker is any task   *)
(* that calls dispatch_one (the daemon's loop, a Telegram tap, a CLI       *)
(* process), a recoverer any task that calls EntryExecutionService.recover.*)
(* Conditions owned by other components (alpha registry, account risk,     *)
(* capacity, cancellations, closes, deadlines) may refuse an entry at the  *)
(* points where the code asks them; a refusal is a nondeterministic choice.*)
(***************************************************************************)
EXTENDS Naturals, FiniteSets

CONSTANTS
    Signals,        \* the cards; each has at most one entry command
    Workers,        \* tasks that run dispatch_one
    Recoverers,     \* tasks that run recover
    NoOne,          \* "no token", "no item"
    MaxFaults       \* bound on crashes and on leases that lapse under a live worker

ASSUME NoOneAssumption == NoOne \notin Signals \cup Workers
ASSUME MaxFaultsAssumption == MaxFaults \in Nat

VARIABLES
    signal,         \* SignalRecord.status
    work,           \* WorkItemRecord.status of the signal's ENTRY item
    token,          \* the worker whose claim the row's token names
    lease,          \* row.lease_until compared with the clock
    sequence,       \* row.sequence: the id of the ENTRY_QUEUED event
    nextEvent,      \* the next journal event id
    begun,          \* how many ENTRY_SUBMITTING events the item's stream has
    halted,         \* SystemStateKey.TRADING_HALTED
    step,           \* where each worker is in dispatch_one
    item,           \* the item it claimed
    reply,          \* the OrderResult it holds
    lookItem,       \* the item a recoverer looked up
    lookReply,      \* what find_entry_order returned
    broker,         \* the order of each client order id at the broker
    posts,          \* how often an order was handed to the transport
    resuming,       \* resume_trading is past its checks
    panicking,      \* emergency_panic_halt is between its halt and cancel_all_orders
    postsHalted,    \* orders handed to the transport since the halt was engaged
    faults

dbVars == <<signal, work, token, lease, sequence, nextEvent, begun>>
workerVars == <<step, item, reply>>
lookVars == <<lookItem, lookReply>>
brokerVars == <<broker, posts>>
operatorVars == <<resuming, panicking>>
vars == <<dbVars, halted, workerVars, lookVars, brokerVars, operatorVars, postsHalted, faults>>

SignalStatus == {"PENDING", "SUBMITTING", "EXECUTED", "FAILED", "EXPIRED", "DISMISSED"}
WorkStatus == {"none", "queued", "checking", "submitting", "unknown", "accepted", "rejected"}
ENTRY_BLOCKING == {"queued", "checking", "submitting", "unknown"}
Unresolved == {"submitting", "unknown"}
Results == {"accepted", "rejected", "uncertain"}

\* "absent": no order and none on the way; "inflight": the POST is on the wire;
\* "refused": answered 4xx, no order exists; "filled": any quantity filled;
\* "dead": canceled, rejected or expired with nothing filled.
BrokerStatus == {"absent", "inflight", "refused", "working", "filled", "dead"}
Arrived == {"working", "filled", "dead"}

RowsOK ==
    /\ signal \in [Signals -> SignalStatus]
    /\ work \in [Signals -> WorkStatus]
    /\ token \in [Signals -> Workers \cup {NoOne}]
    /\ lease \in [Signals -> {"none", "live", "lapsed"}]
    /\ sequence \in [Signals -> Nat]
    /\ nextEvent \in Nat
    /\ begun \in [Signals -> Nat]

TasksOK ==
    /\ step \in [Workers -> {"idle", "checking", "cleared", "refused", "submitting", "waiting", "answered"}]
    /\ item \in [Workers -> Signals \cup {NoOne}]
    /\ reply \in [Workers -> Results]
    /\ lookItem \in [Recoverers -> Signals \cup {NoOne}]
    /\ lookReply \in [Recoverers -> Results]

FlagsOK == halted \in BOOLEAN /\ resuming \in BOOLEAN /\ panicking \in BOOLEAN

TypeOK ==
    /\ RowsOK /\ TasksOK /\ FlagsOK
    /\ broker \in [Signals -> BrokerStatus]
    /\ posts \in [Signals -> Nat]
    /\ postsHalted \in Nat
    /\ faults \in 0..MaxFaults

Init ==
    /\ signal = [s \in Signals |-> "PENDING"]
    /\ work = [s \in Signals |-> "none"]
    /\ token = [s \in Signals |-> NoOne]
    /\ lease = [s \in Signals |-> "none"]
    /\ sequence = [s \in Signals |-> 0]
    /\ nextEvent = 1
    /\ begun = [s \in Signals |-> 0]
    /\ halted = FALSE
    /\ step = [w \in Workers |-> "idle"]
    /\ item = [w \in Workers |-> NoOne]
    /\ reply = [w \in Workers |-> "uncertain"]
    /\ lookItem = [r \in Recoverers |-> NoOne]
    /\ lookReply = [r \in Recoverers |-> "uncertain"]
    /\ broker = [s \in Signals |-> "absent"]
    /\ posts = [s \in Signals |-> 0]
    /\ resuming = FALSE
    /\ panicking = FALSE
    /\ postsHalted = 0
    /\ faults = 0

-----------------------------------------------------------------------------
(* Cards and authorization. *)

\* expire_signal, expire_stale_signals and the expiry half of replace_signal.
ExpireSignal(s) ==
    /\ signal[s] = "PENDING"
    /\ signal' = [signal EXCEPT ![s] = "EXPIRED"]
    /\ UNCHANGED <<work, token, lease, sequence, nextEvent, begun, halted, workerVars, lookVars,
                   brokerVars, operatorVars, postsHalted, faults>>

DismissSignal(s) ==
    /\ signal[s] = "PENDING"
    /\ signal' = [signal EXCEPT ![s] = "DISMISSED"]
    /\ UNCHANGED <<work, token, lease, sequence, nextEvent, begun, halted, workerVars, lookVars,
                   brokerVars, operatorVars, postsHalted, faults>>

\* A refusal writes nothing but an audit row; a second tap returns the existing item.
EnqueueEntry(s) ==
    /\ work[s] = "none"
    /\ ~halted
    /\ signal[s] = "PENDING"
    /\ work' = [work EXCEPT ![s] = "queued"]
    /\ signal' = [signal EXCEPT ![s] = "SUBMITTING"]
    /\ sequence' = [sequence EXCEPT ![s] = nextEvent]
    /\ nextEvent' = nextEvent + 1
    /\ UNCHANGED <<token, lease, begun, halted, workerVars, lookVars, brokerVars, operatorVars,
                   postsHalted, faults>>

-----------------------------------------------------------------------------
(* dispatch_one. *)

Blocking(s) == work[s] \in ENTRY_BLOCKING

\* The row claim_entry selects: the oldest blocking item.
QueueHead(s) ==
    /\ Blocking(s)
    /\ \A t \in Signals : Blocking(t) => sequence[s] <= sequence[t]

\* Mutants of Claimable: any row instead of the oldest, no check for an unresolved
\* submission, and no reclaim of a lapsed claim.
ClaimableAnyRow(s) == work[s] = "queued" \/ (work[s] = "checking" /\ lease[s] = "lapsed")
ClaimableUnresolved(s) == QueueHead(s) /\ ~(work[s] = "checking" /\ lease[s] = "live")
ClaimableOnce(s) == QueueHead(s) /\ work[s] = "queued"

\* Only the head, never a committed submission, a checking row once its lease is over.
Claimable(s) ==
    /\ QueueHead(s)
    /\ work[s] \notin Unresolved
    /\ ~(work[s] = "checking" /\ lease[s] = "live")

\* The clock is read before the lock is taken, so the claim may lapse at once.
ClaimEntry(w, s) ==
    /\ step[w] = "idle"
    /\ Claimable(s)
    /\ work' = [work EXCEPT ![s] = "checking"]
    /\ token' = [token EXCEPT ![s] = w]
    /\ lease' = [lease EXCEPT ![s] = "live"]
    /\ step' = [step EXCEPT ![w] = "checking"]
    /\ item' = [item EXCEPT ![w] = s]
    /\ UNCHANGED <<signal, sequence, nextEvent, begun, halted, reply, lookVars, brokerVars,
                   operatorVars, postsHalted, faults>>

\* The ledger refresh and _preflight, outside any transaction.
PreflightPasses(w) ==
    /\ step[w] = "checking"
    /\ signal[item[w]] = "SUBMITTING"
    /\ ~halted
    /\ step' = [step EXCEPT ![w] = "cleared"]
    /\ UNCHANGED <<dbVars, halted, item, reply, lookVars, brokerVars, operatorVars, postsHalted, faults>>

PreflightRejects(w) ==
    /\ step[w] = "checking"
    /\ step' = [step EXCEPT ![w] = "refused"]
    /\ UNCHANGED <<dbVars, halted, item, reply, lookVars, brokerVars, operatorVars, postsHalted, faults>>

\* Mutant: the claim's token is not compared.
MayBeginUnfenced(w, s) ==
    ~halted /\ work[s] = "checking" /\ lease[s] = "live" /\ signal[s] = "SUBMITTING"

\* What begin_submission re-checks under the scope lock.
MayBegin(w, s) ==
    /\ ~halted
    /\ work[s] = "checking"
    /\ token[s] = w
    /\ lease[s] = "live"
    /\ signal[s] = "SUBMITTING"

BeginSubmission(w) ==
    /\ step[w] = "cleared"
    /\ MayBegin(w, item[w])
    /\ work' = [work EXCEPT ![item[w]] = "submitting"]
    /\ lease' = [lease EXCEPT ![item[w]] = "none"]
    /\ begun' = [begun EXCEPT ![item[w]] = @ + 1]
    /\ step' = [step EXCEPT ![w] = "submitting"]
    /\ UNCHANGED <<signal, token, sequence, nextEvent, halted, item, reply, lookVars,
                   brokerVars, operatorVars, postsHalted, faults>>

\* Any check of begin_submission, those of MayBegin and the others', may refuse.
BeginRefuses(w) ==
    /\ step[w] = "cleared"
    /\ step' = [step EXCEPT ![w] = "refused"]
    /\ UNCHANGED <<dbVars, halted, item, reply, lookVars, brokerVars, operatorVars, postsHalted, faults>>

\* execute_order -> submit_entry_order: the POST leaves.
PostOrder(w) ==
    /\ step[w] = "submitting"
    /\ step' = [step EXCEPT ![w] = "waiting"]
    /\ posts' = [posts EXCEPT ![item[w]] = @ + 1]
    /\ broker' = [broker EXCEPT ![item[w]] = IF @ = "absent" THEN "inflight" ELSE @]
    /\ postsHalted' = IF halted THEN postsHalted + 1 ELSE postsHalted
    /\ UNCHANGED <<dbVars, halted, item, reply, lookVars, operatorVars, faults>>

\* No connection, an unsupported request or disabled slicing: refused before any POST.
LocalRefusal(w) ==
    /\ step[w] = "submitting"
    /\ step' = [step EXCEPT ![w] = "answered"]
    /\ reply' = [reply EXCEPT ![w] = "rejected"]
    /\ UNCHANGED <<dbVars, halted, item, lookVars, brokerVars, operatorVars, postsHalted, faults>>

\* An acknowledgement, a definite 4xx, or anything else: a timeout, 5xx, an exception,
\* an acknowledgement without an order id.
Answer(w, result) ==
    /\ step[w] = "waiting"
    /\ \/ result = "accepted" /\ broker[item[w]] \in Arrived
       \/ result = "rejected" /\ broker[item[w]] = "refused"
       \/ result = "uncertain"
    /\ step' = [step EXCEPT ![w] = "answered"]
    /\ reply' = [reply EXCEPT ![w] = result]
    /\ UNCHANGED <<dbVars, halted, item, lookVars, brokerVars, operatorVars, postsHalted, faults>>

-----------------------------------------------------------------------------
(* resolve_entry. *)

ResolvedStatus(result) ==
    IF result = "accepted" THEN "accepted"
    ELSE IF result = "uncertain" THEN "unknown" ELSE "rejected"

\* Mutant: an uncertain result releases the reservation.
ResolvedSignalEager(s, result) == IF result = "accepted" THEN "EXECUTED" ELSE "FAILED"

ResolvedSignal(s, result) ==
    IF signal[s] # "SUBMITTING" \/ result = "uncertain" THEN signal[s]
    ELSE IF result = "accepted" THEN "EXECUTED" ELSE "FAILED"

\* The transaction's writes once the row is found.
SaveResult(s, result) ==
    /\ work' = [work EXCEPT ![s] = ResolvedStatus(result)]
    /\ signal' = [signal EXCEPT ![s] = ResolvedSignal(s, result)]
    /\ halted' = (halted \/ result = "uncertain")
    /\ postsHalted' = IF result = "uncertain" /\ ~halted THEN 0 ELSE postsHalted
    /\ UNCHANGED <<token, lease, sequence, nextEvent, begun>>

\* The worker's own result needs its token, not a particular status or a live lease.
OwnsResult(w, s) == Blocking(s) /\ token[s] = w

ResolveOwnEntry(w) ==
    /\ step[w] \in {"refused", "answered"}
    /\ LET s == item[w]
           result == IF step[w] = "refused" THEN "rejected" ELSE reply[w]
       IN IF OwnsResult(w, s)
          THEN SaveResult(s, result)
          ELSE UNCHANGED <<dbVars, halted, postsHalted>>
    /\ step' = [step EXCEPT ![w] = "idle"]
    /\ item' = [item EXCEPT ![w] = NoOne]
    /\ reply' = [reply EXCEPT ![w] = "uncertain"]
    /\ UNCHANGED <<lookVars, brokerVars, operatorVars, faults>>

Recoverable(s) == work[s] \in Unresolved

\* recover: list_work, then find_entry_order by client order id; a 404 changes nothing.
FindEntryOrder(r, s) ==
    /\ lookItem[r] = NoOne
    /\ work[s] \in Unresolved
    /\ broker[s] \in Arrived
    /\ lookItem' = [lookItem EXCEPT ![r] = s]
    /\ lookReply' = [lookReply EXCEPT ![r] = IF broker[s] = "dead" THEN "rejected" ELSE "accepted"]
    /\ UNCHANGED <<dbVars, halted, workerVars, brokerVars, operatorVars, postsHalted, faults>>

ResolveFoundEntry(r) ==
    /\ lookItem[r] # NoOne
    /\ IF Recoverable(lookItem[r])
       THEN SaveResult(lookItem[r], lookReply[r])
       ELSE UNCHANGED <<dbVars, halted, postsHalted>>
    /\ lookItem' = [lookItem EXCEPT ![r] = NoOne]
    /\ lookReply' = [lookReply EXCEPT ![r] = "uncertain"]
    /\ UNCHANGED <<workerVars, brokerVars, operatorVars, faults>>

\* observe_orders: a journalled terminal order without a fill fails its signal.
ObserveTerminalOrder(s) ==
    /\ broker[s] = "dead"
    /\ signal[s] = "EXECUTED"
    /\ signal' = [signal EXCEPT ![s] = "FAILED"]
    /\ UNCHANGED <<work, token, lease, sequence, nextEvent, begun, halted, workerVars, lookVars,
                   brokerVars, operatorVars, postsHalted, faults>>

-----------------------------------------------------------------------------
(* Operator commands. *)

\* emergency_panic_halt: the halt is stored first.
PanicHalt ==
    /\ ~panicking
    /\ halted' = TRUE
    /\ panicking' = TRUE
    /\ postsHalted' = IF halted THEN postsHalted ELSE 0
    /\ UNCHANGED <<dbVars, workerVars, lookVars, brokerVars, resuming, faults>>

\* Then cancel_all_orders (which may fail), then the halt is stored again.
PanicCancelAll ==
    /\ panicking
    /\ panicking' = FALSE
    /\ halted' = TRUE
    /\ postsHalted' = IF halted THEN postsHalted ELSE 0
    /\ \/ broker' = [s \in Signals |-> IF broker[s] = "working" THEN "dead" ELSE broker[s]]
       \/ UNCHANGED broker
    /\ UNCHANGED <<dbVars, workerVars, lookVars, posts, resuming, faults>>

\* resume_trading reads the unresolved submissions in a transaction of its own ...
ResumeChecks ==
    /\ ~resuming
    /\ \A s \in Signals : work[s] \notin Unresolved
    /\ resuming' = TRUE
    /\ UNCHANGED <<dbVars, halted, workerVars, lookVars, brokerVars, panicking, postsHalted, faults>>

\* ... and clears the halt in a later one.
ResumeClears ==
    /\ resuming
    /\ resuming' = FALSE
    /\ halted' = FALSE
    /\ UNCHANGED <<dbVars, workerVars, lookVars, brokerVars, panicking, postsHalted, faults>>

-----------------------------------------------------------------------------
(* The environment: the broker, the clock and crashes. *)

OrderArrives(s) ==
    /\ broker[s] = "inflight"
    /\ \E result \in {"working", "filled", "dead", "refused", "absent"} :
           broker' = [broker EXCEPT ![s] = result]
    /\ UNCHANGED <<dbVars, halted, workerVars, lookVars, posts, operatorVars, postsHalted, faults>>

OrderEnds(s) ==
    /\ broker[s] = "working"
    /\ \E result \in {"filled", "dead"} : broker' = [broker EXCEPT ![s] = result]
    /\ UNCHANGED <<dbVars, halted, workerVars, lookVars, posts, operatorVars, postsHalted, faults>>

\* The claim's worker is still at work on it.
Attended(s) == \E w \in Workers : token[s] = w /\ item[w] = s

LeaseLapses(s) ==
    /\ work[s] = "checking"
    /\ lease[s] = "live"
    /\ Attended(s) => faults < MaxFaults
    /\ lease' = [lease EXCEPT ![s] = "lapsed"]
    /\ faults' = IF Attended(s) THEN faults + 1 ELSE faults
    /\ UNCHANGED <<signal, work, token, sequence, nextEvent, begun, halted, workerVars, lookVars,
                   brokerVars, operatorVars, postsHalted>>

\* The process dies or the task is cancelled, between any two steps.
WorkerCrashes(w) ==
    /\ step[w] # "idle"
    /\ faults < MaxFaults
    /\ faults' = faults + 1
    /\ step' = [step EXCEPT ![w] = "idle"]
    /\ item' = [item EXCEPT ![w] = NoOne]
    /\ reply' = [reply EXCEPT ![w] = "uncertain"]
    /\ UNCHANGED <<dbVars, halted, lookVars, brokerVars, operatorVars, postsHalted>>

-----------------------------------------------------------------------------
WorkerStep(w) ==
    \/ PreflightPasses(w) \/ PreflightRejects(w)
    \/ BeginSubmission(w) \/ BeginRefuses(w)
    \/ PostOrder(w) \/ LocalRefusal(w)
    \/ \E result \in Results : Answer(w, result)
    \/ ResolveOwnEntry(w)

Next ==
    \/ \E s \in Signals :
          \/ ExpireSignal(s) \/ DismissSignal(s) \/ EnqueueEntry(s)
          \/ ObserveTerminalOrder(s)
          \/ OrderArrives(s) \/ OrderEnds(s) \/ LeaseLapses(s)
    \/ \E w \in Workers : WorkerStep(w) \/ WorkerCrashes(w) \/ \E s \in Signals : ClaimEntry(w, s)
    \/ \E r \in Recoverers : ResolveFoundEntry(r) \/ \E s \in Signals : FindEntryOrder(r, s)
    \/ PanicHalt \/ PanicCancelAll \/ ResumeChecks \/ ResumeClears

Spec == Init /\ [][Next]_vars

(***************************************************************************)
(* Fairness: the daemon's loops keep running (_run_worker retries every    *)
(* worker_interval_seconds), the bounded transport ends every request, the *)
(* clock advances.  Nothing makes an operator act.                         *)
(***************************************************************************)
Fairness ==
    /\ \A w \in Workers : WF_vars(WorkerStep(w))
    /\ WF_vars(\E w \in Workers, s \in Signals : ClaimEntry(w, s))
    /\ \A r \in Recoverers : WF_vars(ResolveFoundEntry(r))
    /\ \A s \in Signals : /\ WF_vars(\E r \in Recoverers : FindEntryOrder(r, s))
                          /\ WF_vars(OrderArrives(s))
                          /\ WF_vars(LeaseLapses(s))

FairSpec == Spec /\ Fairness

-----------------------------------------------------------------------------
(* Properties. *)

\* An entry command is handed to the broker at most once, whatever crashes, lapsed
\* leases, reclaims and lookups happen: begin_submission's fenced commit before POST.
OnePostPerEntry == \A s \in Signals : posts[s] <= 1

\* A worker is past begin_submission and has not sent its order yet.
MayStillPost(s) == \E w \in Workers : step[w] = "submitting" /\ item[w] = s

\* While an order may exist, is on the wire or may still be sent, its signal holds the
\* reservation: no refusal, late result or lookup of resolve_entry or observe_orders
\* releases capacity under a live order.
ExposureIsReserved ==
    \A s \in Signals :
        MayStillPost(s) \/ broker[s] \in {"inflight", "working", "filled"}
            => signal[s] \in {"SUBMITTING", "EXECUTED"}

\* claim_entry's FIFO head serialises submissions: an item that is being checked, or
\* whose submission is unresolved, is the oldest blocking item, so there is only one.
HeadSerialises ==
    \A s \in Signals : work[s] \in {"checking"} \cup Unresolved => QueueHead(s)

\* Once the halt is stored at most one order, committed before it, still leaves.
HaltBoundsPosts == postsHalted <= 1

\* The work item, the signal and the broker tell one story: the reservation lasts exactly
\* as long as the item blocks the queue, and a recorded order exists at the broker.
RecordsAgree ==
    \A s \in Signals :
        /\ Blocking(s) <=> signal[s] = "SUBMITTING"
        /\ work[s] = "none" <=> signal[s] \in {"PENDING", "EXPIRED", "DISMISSED"}
        /\ signal[s] = "EXECUTED" => work[s] = "accepted" /\ broker[s] \in Arrived

\* An ambiguous outcome persists a halt (resolve_entry) and resume_trading refuses
\* unresolved submissions, so an unknown entry is found only under a halt.
UnknownKeepsHalt == \A s \in Signals : work[s] = "unknown" => halted

\* A committed submission never returns to a state from which a worker could claim and
\* submit it again, and a settled entry stays settled.
NeverResubmitted ==
    [][\A s \in Signals :
          /\ work[s] \in Unresolved => work'[s] \in Unresolved \cup {"accepted", "rejected"}
          /\ work[s] \in {"accepted", "rejected"} => work'[s] = work[s]]_vars

\* Orders leave in the order of authorization (row.sequence), never past an older entry
\* that still blocks the queue.
PostsInQueueOrder ==
    [][\A s \in Signals : posts'[s] # posts[s] => QueueHead(s)]_vars

\* A submission whose order the broker does not know and that no worker attends: lookups
\* answer 404 for ever and nothing may repeat the POST.
Abandoned(s) ==
    /\ work[s] \in Unresolved
    /\ broker[s] \in {"absent", "refused"}
    /\ \A w \in Workers : item[w] # s

\* Every authorized entry is settled, across crashes, unless a submission is abandoned:
\* only that blocks the queue for good.
EntriesSettle ==
    \A s \in Signals :
        work[s] = "queued" ~> (work[s] \in {"accepted", "rejected"} \/ \E t \in Signals : Abandoned(t))

-----------------------------------------------------------------------------
(* The inductive invariant of the proofs, one part for each party's knowledge. *)

\* What the item's status says of its signal, its submission and its order.
StatusKnowledge ==
    \A s \in Signals :
        /\ work[s] = "none" <=> signal[s] \in {"PENDING", "EXPIRED", "DISMISSED"}
        /\ Blocking(s) <=> signal[s] = "SUBMITTING"
        /\ signal[s] = "EXECUTED" => work[s] = "accepted"
        /\ signal[s] = "FAILED" => broker[s] \in {"absent", "refused", "dead"}
        /\ work[s] = "accepted" => broker[s] \in Arrived
        /\ work[s] \in {"none", "queued", "checking"} => begun[s] = 0
        /\ begun[s] <= 1 /\ posts[s] <= begun[s]
        /\ posts[s] = 0 => broker[s] = "absent"

\* What a worker may rely on: past begin_submission the token stays its own and its
\* reply describes the order; before it, a row that names it is still being checked.
WorkerKnowledge ==
    \A w \in Workers :
        /\ step[w] = "idle" <=> item[w] = NoOne
        /\ item[w] # NoOne => work[item[w]] # "none"
        /\ step[w] \in {"checking", "cleared", "refused"} /\ token[item[w]] = w
               => work[item[w]] = "checking"
        /\ step[w] = "submitting" => work[item[w]] = "submitting" /\ posts[item[w]] = 0
        /\ step[w] \in {"submitting", "waiting", "answered"}
               => token[item[w]] = w /\ begun[item[w]] = 1
        /\ step[w] = "answered" /\ reply[w] = "accepted" => broker[item[w]] \in Arrived
        /\ step[w] = "answered" /\ reply[w] = "rejected" => broker[item[w]] \in {"absent", "refused"}

\* A lookup's answer stays true of the order until it is applied.
LookupKnowledge ==
    \A r \in Recoverers :
        lookItem[r] # NoOne =>
            /\ broker[lookItem[r]] \in Arrived
            /\ lookReply[r] \in {"accepted", "rejected"}
            /\ lookReply[r] = "rejected" => broker[lookItem[r]] = "dead"

\* Event ids order the rows totally, and only the oldest blocking row is worked on.
QueueKnowledge ==
    /\ \A s \in Signals : work[s] # "none" => sequence[s] < nextEvent
    /\ \A s, t \in Signals :
          work[s] # "none" /\ work[t] # "none" /\ sequence[s] = sequence[t] => s = t
    /\ HeadSerialises

\* Under a halt a submission is either still to leave or already counted.
HaltKnowledge ==
    /\ HaltBoundsPosts
    /\ halted /\ postsHalted = 1 => \A w \in Workers : step[w] # "submitting"

\* The conjunction of TypeOK and the five parts: what dispatch_one, recover,
\* resolve_entry and the halt rely on between their transactions.
IndInv ==
    /\ TypeOK /\ StatusKnowledge /\ WorkerKnowledge /\ LookupKnowledge /\ QueueKnowledge
    /\ HaltKnowledge

-----------------------------------------------------------------------------
(* The queue implements EntryReservation. *)

Reservation ==
    [s \in Signals |->
        IF signal[s] = "PENDING" THEN "open"
        ELSE IF signal[s] \in {"EXPIRED", "DISMISSED"} THEN "withdrawn"
        ELSE IF signal[s] = "SUBMITTING" THEN "reserved"
        ELSE IF signal[s] = "EXECUTED" THEN "placed" ELSE "released"]

Authority == [s \in Signals |-> IF begun[s] = 0 THEN "unused" ELSE "spent"]

Exposure ==
    [s \in Signals |->
        IF broker[s] \in {"working", "filled"} THEN "live"
        ELSE IF broker[s] = "dead" THEN "over"
        ELSE IF broker[s] = "inflight" \/ (broker[s] = "absent" /\ MayStillPost(s)) THEN "possible"
        ELSE "none"]

Promise == INSTANCE EntryReservation
             WITH reservation <- Reservation, authority <- Authority, exposure <- Exposure

\* The queue with its leases, reclaims, crashes and lookups keeps the promise that
\* authority is spent once and capacity is released only without exposure.
ReservationPromise == Promise!ASpec

=============================================================================

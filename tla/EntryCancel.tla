----------------------------- MODULE EntryCancel -----------------------------
(***************************************************************************)
(* Cancelling one resting entry: begin_cancel and resolve_cancel of        *)
(* storage/lifetimes.py, driven by cancel_resting_entry, _reconcile_signal *)
(* and _recover_cancel of execution/lifetimes.py, with the order           *)
(* projection, the signal row, the close claim on the same symbol and the  *)
(* entry's bracket at the broker.  A process is one copilot; the daemon's  *)
(* monitor and an operator's CLI command may run side by side.             *)
(***************************************************************************)
EXTENDS Naturals

CONSTANTS
    Processes,
    MaxFaults       \* bound on crashes and on failed lookups

ASSUME MaxFaultsAssumption == MaxFaults \in Nat

VARIABLES
    item,           \* the signal's entry_cancel work item: its status
    refusal,        \* the transport_error stored in its result
    window,         \* the owner's transport and confirmation window, by created_at
    signal,         \* SignalRecord.status
    executedAt,     \* SignalRecord.executed_at is set
    halted,
    closing,        \* a close request is active on the symbol
    view,           \* the order projections of the parent and of its exits
    step,           \* where each process is
    owner,          \* the process claimed the item and sends the DELETE
    seen,           \* the group it read and has yet to journal, or Resting
    failedRead,     \* its lookup failed
    error,          \* the DELETE it sent raised
    patient,        \* resolve_cancel's allow_pending, as the process computed it
    late,           \* its confirmation deadline has passed
    parent,         \* the entry order at the broker
    exits,          \* its two protective exits
    asked,          \* the broker accepted the DELETE
    deletes,        \* how many DELETEs were sent
    faults

rowVars == <<item, refusal, window, signal, executedAt, halted, closing, view>>
processVars == <<step, owner, seen, failedRead, error, patient, late>>
brokerVars == <<parent, exits, asked>>
vars == <<rowVars, processVars, brokerVars, deletes, faults>>

ParentStatus == {"working", "partial", "filled", "canceled", "canceled_partial"}
ExitStatus == {"pending", "protecting", "canceled", "filled"}
Group == [parent : ParentStatus, exits : ExitStatus]

\* The broker's order states only move forward, so a later observation has a higher rank.
ParentRank(s) == CASE s = "working" -> 0 [] s = "partial" -> 1 [] OTHER -> 2
ExitRank(s) == CASE s = "pending" -> 0 [] s = "protecting" -> 1 [] OTHER -> 2

TypeOK ==
    /\ item \in {"none", "submitting", "unknown", "accepted", "rejected"}
    /\ refusal \in BOOLEAN
    /\ window \in {"open", "lapsed"}
    /\ signal \in {"EXECUTED", "FAILED"}
    /\ executedAt \in BOOLEAN
    /\ halted \in BOOLEAN
    /\ closing \in BOOLEAN
    /\ view \in Group
    /\ step \in [Processes -> {"idle", "sighted", "claiming", "deleting", "polling",
                               "observing", "resolving"}]
    /\ owner \in [Processes -> BOOLEAN]
    /\ seen \in [Processes -> Group]
    /\ failedRead \in [Processes -> BOOLEAN]
    /\ error \in [Processes -> BOOLEAN]
    /\ patient \in [Processes -> BOOLEAN]
    /\ late \in [Processes -> BOOLEAN]
    /\ parent \in ParentStatus
    /\ exits \in ExitStatus
    /\ asked \in BOOLEAN
    /\ deletes \in Nat
    /\ faults \in 0..MaxFaults

Resting == [parent |-> "working", exits |-> "pending"]
BrokerGroup == [parent |-> parent, exits |-> exits]

Init ==
    /\ item = "none"
    /\ refusal = FALSE
    /\ window = "open"
    /\ signal = "EXECUTED"
    /\ executedAt = FALSE
    /\ halted = FALSE
    /\ closing = FALSE
    /\ view = Resting
    /\ step = [p \in Processes |-> "idle"]
    /\ owner = [p \in Processes |-> FALSE]
    /\ seen = [p \in Processes |-> Resting]
    /\ failedRead = [p \in Processes |-> FALSE]
    /\ error = [p \in Processes |-> FALSE]
    /\ patient = [p \in Processes |-> FALSE]
    /\ late = [p \in Processes |-> FALSE]
    /\ parent = "working"
    /\ exits = "pending"
    /\ asked = FALSE
    /\ deletes = 0
    /\ faults = 0

-----------------------------------------------------------------------------
(* The journal.                                                            *)

\* _project_order: each order keeps its newest observation.
Merge(old, new) ==
    [parent |-> IF ParentRank(new.parent) >= ParentRank(old.parent) THEN new.parent ELSE old.parent,
     exits  |-> IF ExitRank(new.exits) >= ExitRank(old.exits) THEN new.exits ELSE old.exits]

\* unresolved_cancellation.
Unresolved == item \in {"submitting", "unknown"}

\* Mutant: a partly filled entry is released.
ReleasesPartial(v) ==
    /\ v.parent \in {"canceled", "canceled_partial"}
    /\ signal = "EXECUTED" /\ ~executedAt /\ ~Unresolved

\* observe_orders releases an unfilled terminal entry, unless a cancellation owns it.
Releases(v) ==
    /\ v.parent = "canceled"
    /\ signal = "EXECUTED"
    /\ ~executedAt
    /\ ~Unresolved

\* observe_orders on the group a process read.
Observe(p) ==
    LET new == Merge(view, seen[p])
    IN  /\ view' = new
        /\ signal' = IF Releases(new) THEN "FAILED" ELSE signal

-----------------------------------------------------------------------------
(* Claiming the one cancellation.                                          *)

\* cancel_resting_entry and _reconcile_signal: the signal rests, no cancellation exists,
\* and the group is read from the broker.
ReadForCancel(p) ==
    /\ step[p] = "idle"
    /\ item = "none"
    /\ signal = "EXECUTED" /\ ~executedAt
    /\ ~closing
    /\ seen' = [seen EXCEPT ![p] = BrokerGroup]
    /\ step' = [step EXCEPT ![p] = "sighted"]
    /\ UNCHANGED <<rowVars, owner, failedRead, error, patient, late, brokerVars, deletes, faults>>

\* The group is journaled, then assessed: only a wholly unfilled working parent goes on.
\* A deadline found with a partial fill goes to review, which stores a halt.
AssessResting(p) ==
    /\ step[p] = "sighted"
    /\ Observe(p)
    /\ \/ /\ seen[p] = Resting
          /\ step' = [step EXCEPT ![p] = "claiming"]
          /\ UNCHANGED halted
       \/ /\ step' = [step EXCEPT ![p] = "idle"]
          /\ halted' \in IF seen[p].parent \in {"partial", "canceled_partial"}
                         THEN {halted, TRUE} ELSE {halted}
    /\ seen' = [seen EXCEPT ![p] = Resting]
    /\ UNCHANGED <<item, refusal, window, executedAt, closing, owner, failedRead, error,
                   patient, late, brokerVars, deletes, faults>>

\* Mutants: the dedup lookup is dropped; an active close is overlooked.
MayCancelAgain == signal = "EXECUTED" /\ ~executedAt /\ view = Resting /\ ~closing
MayCancelClosing == item = "none" /\ signal = "EXECUTED" /\ ~executedAt /\ view = Resting

\* begin_cancel: no earlier item, the signal still rests, the projections show no fill, and
\* no close request is active on the symbol.
MayCancel ==
    /\ item = "none"
    /\ signal = "EXECUTED"
    /\ ~executedAt
    /\ view = Resting
    /\ ~closing

\* It also refuses a deadline that is not due, a changed policy and a foreign order.
BeginCancel(p) ==
    /\ step[p] = "claiming"
    /\ \/ /\ MayCancel
          /\ item' = "submitting"
          /\ window' = "open"
          /\ owner' = [owner EXCEPT ![p] = TRUE]
          /\ step' = [step EXCEPT ![p] = "deleting"]
       \/ /\ step' = [step EXCEPT ![p] = "idle"]
          /\ UNCHANGED <<item, window, owner>>
    /\ UNCHANGED <<refusal, signal, executedAt, halted, closing, view, seen, failedRead, error,
                   patient, late, brokerVars, deletes, faults>>

\* _submit_cancel: the one DELETE.  It is accepted and acknowledged, accepted with its
\* answer lost, refused because the order is terminal, or lost on the way.
SubmitCancel(p) ==
    /\ step[p] = "deleting"
    /\ deletes' = deletes + 1
    /\ \/ /\ parent \in {"working", "partial"}
          /\ asked' = TRUE
          /\ error' \in {error, [error EXCEPT ![p] = TRUE]}
       \/ /\ error' = [error EXCEPT ![p] = TRUE]
          /\ UNCHANGED asked
    /\ late' = [late EXCEPT ![p] = FALSE]
    /\ step' = [step EXCEPT ![p] = "polling"]
    /\ UNCHANGED <<rowVars, owner, seen, failedRead, patient, parent, exits, faults>>

-----------------------------------------------------------------------------
(* Confirming and recovering by exact reads.                               *)

\* The lookup of _recover_cancel, with the allow_pending computed before it.  It may fail.
Lookup(p, pending) ==
    /\ patient' = [patient EXCEPT ![p] = pending]
    /\ \/ /\ seen' = [seen EXCEPT ![p] = BrokerGroup]
          /\ failedRead' = [failedRead EXCEPT ![p] = FALSE]
          /\ step' = [step EXCEPT ![p] = "observing"]
          /\ UNCHANGED faults
       \/ /\ faults < MaxFaults
          /\ faults' = faults + 1
          /\ failedRead' = [failedRead EXCEPT ![p] = TRUE]
          /\ step' = [step EXCEPT ![p] = "resolving"]
          /\ UNCHANGED seen
    /\ UNCHANGED <<rowVars, owner, error, late, brokerVars, deletes>>

\* The owner polls until its deadline.
PollCancel(p) == step[p] = "polling" /\ Lookup(p, ~late[p])

\* Mutant: an unknown verdict is not looked at again.
LookedUpOnce == item = "submitting"

\* The statuses that recover lists.
LookedUp == Unresolved

\* recover: a cancellation without its owner is only looked up; the window is the owner's.
RecoverCancel(p) ==
    /\ step[p] = "idle"
    /\ LookedUp
    /\ Lookup(p, item = "submitting" /\ window = "open")

ObserveGroup(p) ==
    /\ step[p] = "observing"
    /\ Observe(p)
    /\ seen' = [seen EXCEPT ![p] = Resting]
    /\ step' = [step EXCEPT ![p] = "resolving"]
    /\ UNCHANGED <<item, refusal, window, executedAt, halted, closing, owner, failedRead,
                   error, patient, late, brokerVars, deletes, faults>>

\* Every order of the group ended without a fill.
Complete == view = [parent |-> "canceled", exits |-> "canceled"]

\* Mutant: a full fill is enough.
FilledFirstUnprotected(p) ==
    ~failedRead[p] /\ (error[p] \/ refusal) /\ view.parent = "filled"

\* filled_before_cancel after a DELETE that raised: the parent filled and its exits protect it.
FilledFirst(p) ==
    /\ ~failedRead[p]
    /\ error[p] \/ refusal
    /\ view = [parent |-> "filled", exits |-> "protecting"]

\* Mutant: uncertainty is never declared.
OutcomeHopeful(p) ==
    IF Complete THEN "accepted" ELSE IF FilledFirst(p) THEN "rejected" ELSE "pending"

Outcome(p) ==
    IF Complete THEN "accepted"
    ELSE IF FilledFirst(p) THEN "rejected"
    ELSE IF patient[p] THEN "pending"
    ELSE "unknown"

\* Accepted and rejected items keep their status.
Settled == item \in {"accepted", "rejected"}

\* resolve_cancel.
ResolveCancel(p) ==
    /\ step[p] = "resolving"
    /\ LET outcome == Outcome(p)
       IN  IF outcome = "pending"
           THEN /\ step' = [step EXCEPT ![p] = IF owner[p] THEN "polling" ELSE "idle"]
                /\ UNCHANGED <<item, refusal, signal, halted, owner, error>>
           ELSE /\ IF Settled
                   THEN UNCHANGED <<item, refusal, signal, halted>>
                   ELSE /\ item' = outcome
                        /\ refusal' = (refusal \/ error[p])
                        /\ signal' = IF outcome = "accepted" /\ ~executedAt
                                     THEN "FAILED" ELSE signal
                        /\ halted' = (halted \/ outcome = "unknown")
                /\ step' = [step EXCEPT ![p] = "idle"]
                /\ owner' = [owner EXCEPT ![p] = FALSE]
                /\ error' = [error EXCEPT ![p] = FALSE]
    /\ failedRead' = [failedRead EXCEPT ![p] = FALSE]
    /\ patient' = [patient EXCEPT ![p] = FALSE]
    /\ late' = [late EXCEPT ![p] = @ /\ step'[p] = "polling"]
    /\ UNCHANGED <<window, executedAt, closing, view, seen, brokerVars, deletes, faults>>

\* The clock: created_at leaves the owner's window, a poller's deadline passes.
WindowLapses ==
    /\ item = "submitting" /\ window = "open"
    /\ window' = "lapsed"
    /\ UNCHANGED <<item, refusal, signal, executedAt, halted, closing, view, processVars,
                   brokerVars, deletes, faults>>

DeadlinePasses(p) ==
    /\ step[p] \in {"polling", "observing", "resolving"}
    /\ owner[p] /\ ~late[p]
    /\ late' = [late EXCEPT ![p] = TRUE]
    /\ UNCHANGED <<rowVars, step, owner, seen, failedRead, error, patient, brokerVars, deletes, faults>>

ProcessCrashes(p) ==
    /\ faults < MaxFaults
    /\ step[p] # "idle"
    /\ faults' = faults + 1
    /\ step' = [step EXCEPT ![p] = "idle"]
    /\ owner' = [owner EXCEPT ![p] = FALSE]
    /\ error' = [error EXCEPT ![p] = FALSE]
    /\ seen' = [seen EXCEPT ![p] = Resting]
    /\ failedRead' = [failedRead EXCEPT ![p] = FALSE]
    /\ patient' = [patient EXCEPT ![p] = FALSE]
    /\ late' = [late EXCEPT ![p] = FALSE]
    /\ UNCHANGED <<rowVars, brokerVars, deletes>>

-----------------------------------------------------------------------------
(* The parts that share the symbol.                                        *)

\* sync_entry_executions records a fill in full.
SyncEntryExecution ==
    /\ parent = "filled" /\ signal = "EXECUTED" /\ ~executedAt
    /\ executedAt' = TRUE
    /\ UNCHANGED <<item, refusal, window, signal, halted, closing, view, processVars,
                   brokerVars, deletes, faults>>

\* claim_close_request refuses while a cancellation is unresolved on the symbol.
MayClose == ~closing /\ ~Unresolved

\* A close of whatever the broker holds (flatten closes partial entries' positions too).
ClaimClose ==
    /\ parent \in {"partial", "filled", "canceled_partial"}
    /\ signal = "EXECUTED"
    /\ MayClose
    /\ closing' = TRUE
    /\ UNCHANGED <<item, refusal, window, signal, executedAt, halted, view, processVars,
                   brokerVars, deletes, faults>>

\* The close failed without a fill (module PositionClose).
CloseFails ==
    /\ closing
    /\ closing' = FALSE
    /\ UNCHANGED <<item, refusal, window, signal, executedAt, halted, view, processVars,
                   brokerVars, deletes, faults>>

-----------------------------------------------------------------------------
(* The broker.                                                             *)

ParentFills ==
    /\ \/ parent = "working" /\ parent' \in {"partial", "filled"}
       \/ parent = "partial" /\ parent' = "filled"
    /\ UNCHANGED <<rowVars, processVars, exits, asked, deletes, faults>>

\* The accepted DELETE takes effect, or the order ends by itself.
ParentEnds ==
    /\ \/ parent = "working" /\ parent' = "canceled"
       \/ parent = "partial" /\ parent' = "canceled_partial"
    /\ UNCHANGED <<rowVars, processVars, exits, asked, deletes, faults>>

\* The exits start to protect a full fill, fill themselves, or end with the entry.
ExitsMove ==
    /\ \/ parent = "filled" /\ exits = "pending" /\ exits' = "protecting"
       \/ exits = "protecting" /\ exits' \in {"filled", "canceled"}
       \/ parent \in {"canceled", "canceled_partial"} /\ exits = "pending" /\ exits' = "canceled"
    /\ UNCHANGED <<rowVars, processVars, parent, asked, deletes, faults>>

-----------------------------------------------------------------------------

Next ==
    \/ \E p \in Processes :
          \/ ReadForCancel(p) \/ AssessResting(p) \/ BeginCancel(p) \/ SubmitCancel(p)
          \/ PollCancel(p) \/ RecoverCancel(p) \/ ObserveGroup(p) \/ ResolveCancel(p)
          \/ DeadlinePasses(p) \/ ProcessCrashes(p)
    \/ WindowLapses
    \/ SyncEntryExecution \/ ClaimClose \/ CloseFails
    \/ ParentFills \/ ParentEnds \/ ExitsMove

Spec == Init /\ [][Next]_vars

\* A process runs on to its next await, the monitor repeats recover every minute, the clock
\* advances, and an order whose cancellation the broker accepted ends or fills.
Fairness ==
    /\ \A p \in Processes :
          /\ WF_vars(AssessResting(p) \/ BeginCancel(p) \/ SubmitCancel(p) \/ PollCancel(p)
                     \/ ObserveGroup(p) \/ ResolveCancel(p))
          /\ SF_vars(RecoverCancel(p))
          /\ WF_vars(DeadlinePasses(p))
    /\ WF_vars(WindowLapses)
    /\ WF_vars(asked /\ (ParentEnds \/ ParentFills))
    /\ WF_vars(ExitsMove /\ exits = "pending")

FairSpec == Spec /\ Fairness

-----------------------------------------------------------------------------
(* Properties.                                                             *)

\* A settled cancellation says what happened: accepted is a group that ended unfilled, rejected
\* is a fill whose exits were protecting it (resolve_cancel's complete and filled_first), and
\* an entry is failed, and its capacity released, only when its order ended without a fill
\* (observe_orders).
SettledIsTrue ==
    /\ TypeOK
    /\ item = "accepted" => BrokerGroup = [parent |-> "canceled", exits |-> "canceled"]
    /\ item = "rejected" => parent = "filled" /\ exits # "pending"
    /\ signal = "FAILED" => parent = "canceled"

\* One DELETE per entry, whoever asks and whoever crashes: begin_cancel commits the one item
\* before the DELETE, and recovery only reads.  A symbol never has an unresolved cancellation
\* and an active close at the same time (begin_cancel and claim_close_request look at each
\* other under the scope lock).
OneCancel == deletes <= 1 /\ ~(Unresolved /\ closing)

\* An intent never stays in submitting: its owner or, after a crash, the monitor resolves it
\* (the window and the deadline of _recover_cancel).
IntentResolved == item = "submitting" ~> item # "submitting"

\* A cancellation whose order ended unfilled is accepted and its reservation released, also
\* after an unknown verdict (recover re-reads unknown items).
UnfilledCancelSettles ==
    (Unresolved /\ parent = "canceled") ~> (item = "accepted" /\ signal = "FAILED")

\* Both: a cancellation comes to its end across crashes and unknown verdicts (recover).
CancelSettles == IntentResolved /\ UnfilledCancelSettles
=============================================================================

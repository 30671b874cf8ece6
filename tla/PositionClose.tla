---------------------------- MODULE PositionClose ----------------------------
(***************************************************************************)
(* Closing one tracked position: PositionCloseService of                   *)
(* execution/closing.py, the close_requests table and the signal's exit    *)
(* link of storage/db.py, and the cancel-recheck-submit workflow of        *)
(* AlpacaBroker.submit_position_close.  A process is one copilot (the      *)
(* daemon or a CLI command): its reconciliation lock makes it do one thing *)
(* at a time, and nothing but the database serialises two processes.       *)
(* Requests carry fresh client order ids, so a request names its order.    *)
(***************************************************************************)
EXTENDS Integers

CONSTANTS
    Requests,       \* close_requests ids, each also a client order id
    Processes,
    NoRequest,
    Quantity,       \* the position's size
    MaxFaults       \* bound on crashes

ASSUME NoRequestAssumption == NoRequest \notin Requests
ASSUME QuantityAssumption == Quantity \in Nat \ {0}
ASSUME MaxFaultsAssumption == MaxFaults \in Nat

VARIABLES
    status,         \* CloseRequestRecord.status, "none" before the claim
    report,         \* what the stored detail says of the protective orders
    exitLink,       \* SignalRecord.broker_exit_order_id; NoRequest also for a bracket leg's id
    signal,         \* SignalRecord.status
    accounted,      \* how many POSITION_CLOSED events were journaled
    step,           \* where each process is
    request,        \* the request it works on
    result,         \* the OrderResult it has yet to save
    touched,        \* cancellation_attempts is not empty
    held,           \* the broker's position; negative once the account is short
    order,          \* the market close order at the broker
    filled,         \* its filled quantity
    guard,          \* the protective bracket at the broker
    guardFilled,
    deleted,        \* the requests that sent a DELETE for a protective order
    faults

rowVars == <<status, report, exitLink, signal, accounted>>
processVars == <<step, request, result, touched>>
brokerVars == <<held, order, filled, guard, guardFilled, deleted>>
vars == <<rowVars, processVars, brokerVars, faults>>

CloseRequestStatus == {"claimed", "submitted", "unknown", "completed", "failed"}
Steps == {"idle", "claiming", "preflight", "cancelling", "confirming", "rechecking",
          "posting", "awaiting", "linking", "saving", "accounting"}

\* An OrderResult: its close status, whether it carries an order id, and what its message
\* says of the protective orders.
Results == [status : CloseRequestStatus, id : {"given", "missing"},
            says : {"nothing", "untouched", "uncertain"}]
NoResult == [status |-> "unknown", id |-> "missing", says |-> "nothing"]

TypeOK ==
    /\ status \in [Requests -> CloseRequestStatus \cup {"none"}]
    /\ report \in [Requests -> {"nothing", "untouched", "uncertain"}]
    /\ exitLink \in Requests \cup {NoRequest}
    /\ signal \in {"EXECUTED", "CLOSED"}
    /\ accounted \in Nat
    /\ step \in [Processes -> Steps]
    /\ request \in [Processes -> Requests \cup {NoRequest}]
    /\ result \in [Processes -> Results]
    /\ touched \in [Processes -> BOOLEAN]
    /\ held \in Int
    /\ order \in [Requests -> {"none", "inflight", "working", "filled", "canceled"}]
    /\ filled \in [Requests -> 0..Quantity]
    /\ guard \in {"working", "pending_cancel", "canceled", "filled"}
    /\ guardFilled \in 0..Quantity
    /\ deleted \in SUBSET Requests
    /\ faults \in 0..MaxFaults

GuardLive == guard \in {"working", "pending_cancel"}
Arrived(r) == order[r] \in {"working", "filled", "canceled"}

Init ==
    /\ status = [r \in Requests |-> "none"]
    /\ report = [r \in Requests |-> "nothing"]
    /\ exitLink = NoRequest
    /\ signal = "EXECUTED"
    /\ accounted = 0
    /\ step = [p \in Processes |-> "idle"]
    /\ request = [p \in Processes |-> NoRequest]
    /\ result = [p \in Processes |-> NoResult]
    /\ touched = [p \in Processes |-> FALSE]
    /\ held = Quantity
    /\ order = [r \in Requests |-> "none"]
    /\ filled = [r \in Requests |-> 0]
    /\ guard = "working"
    /\ guardFilled = 0
    /\ deleted = {}
    /\ faults = 0

-----------------------------------------------------------------------------
(* The durable claim.                                                      *)

\* Mutant: an uncertain outcome no longer holds the symbol.
ActiveForgetsUnknown(r) == status[r] \in {"claimed", "submitted"}

\* ACTIVE_CLOSE_STATUSES, the condition of the partial unique index.
Active(r) == status[r] \in {"claimed", "submitted", "unknown"}

\* close_signal, flatten: the signal is open, has no recorded exit, and the broker holds
\* exactly its quantity.  The claim is a later transaction.
CheckPosition(p) ==
    /\ step[p] = "idle"
    /\ signal = "EXECUTED"
    /\ exitLink = NoRequest
    /\ held = Quantity
    /\ step' = [step EXCEPT ![p] = "claiming"]
    /\ UNCHANGED <<rowVars, request, result, touched, brokerVars, faults>>

\* claim_close_request: a new id, refused while another request is active.  It also refuses
\* while an entry or a cancellation is unresolved on the symbol, and a repeated stable id.
ClaimCloseRequest(p) ==
    /\ step[p] = "claiming"
    /\ \/ /\ \A r \in Requests : ~Active(r)
          /\ \E r \in Requests :
                /\ status[r] = "none"
                /\ status' = [status EXCEPT ![r] = "claimed"]
                /\ request' = [request EXCEPT ![p] = r]
          /\ step' = [step EXCEPT ![p] = "preflight"]
          /\ touched' = [touched EXCEPT ![p] = FALSE]
       \/ /\ step' = [step EXCEPT ![p] = "idle"]
          /\ UNCHANGED <<status, request, touched>>
    /\ UNCHANGED <<report, exitLink, signal, accounted, result, brokerVars, faults>>

-----------------------------------------------------------------------------
(* submit_position_close.                                                  *)

\* Mutant: the message trusts the absence of an acknowledged DELETE.
SaysOfGuardTrusting(p, submitting) ==
    IF submitting THEN "nothing" ELSE "untouched"

\* The end of the error message: a DELETE that was attempted may have been applied.
SaysOfGuard(p, submitting) ==
    IF touched[p] THEN "uncertain"
    ELSE IF submitting THEN "nothing" ELSE "untouched"

\* The except branch: a refusal or an error before the POST is a failure without an order,
\* an error after it leaves the outcome uncertain, and so does a failed write of the audit
\* record of either, which close() catches itself.
Abort(p, submitting) ==
    /\ \E verdict \in {[status |-> IF submitting THEN "unknown" ELSE "failed",
                        id     |-> "missing",
                        says   |-> SaysOfGuard(p, submitting)], NoResult} :
          result' = [result EXCEPT ![p] = verdict]
    /\ step' = [step EXCEPT ![p] = "linking"]

Advance(p, next) ==
    /\ step' = [step EXCEPT ![p] = next]
    /\ UNCHANGED result

\* check_position, check_session, the tracked entry's checks and the open-order list: any of
\* them may refuse, and they pass only on the exact position with no working market order.
Preflight(p) ==
    /\ step[p] = "preflight"
    /\ \/ /\ held = Quantity
          /\ guardFilled = 0
          /\ \A r \in Requests : order[r] # "working"
          /\ Advance(p, IF GuardLive THEN "cancelling" ELSE "rechecking")
       \/ Abort(p, FALSE)
    /\ UNCHANGED <<rowVars, request, touched, brokerVars, faults>>

\* DELETE of each protective order that is not terminal.  The attempt is noted before the
\* request; an API error is suppressed, a transport error aborts, and in either case the
\* broker may have applied it.
CancelProtection(p) ==
    /\ step[p] = "cancelling"
    /\ IF GuardLive
       THEN /\ touched' = [touched EXCEPT ![p] = TRUE]
            /\ deleted' = deleted \cup {request[p]}
            /\ guard' \in {guard, "pending_cancel"}
            /\ Advance(p, "confirming")
       ELSE /\ Advance(p, "confirming")
            /\ UNCHANGED <<touched, deleted, guard>>
    /\ UNCHANGED <<rowVars, request, held, order, filled, guardFilled, faults>>

\* Poll until every cancelled order is terminal; a fill, the deadline or an error aborts.
ConfirmCancellation(p) ==
    /\ step[p] = "confirming"
    /\ \/ /\ guard = "canceled"
          /\ guardFilled = 0
          /\ Advance(p, "rechecking")
       \/ Abort(p, FALSE)
    /\ UNCHANGED <<rowVars, request, touched, brokerVars, faults>>

\* No open order is left and the whole position is available.
ClearToPost ==
    /\ ~GuardLive
    /\ \A r \in Requests : order[r] # "working"
    /\ held = Quantity

\* The second open-order, position and session checks.
Recheck(p) ==
    /\ step[p] = "rechecking"
    /\ \/ ClearToPost /\ Advance(p, "posting")
       \/ Abort(p, FALSE)
    /\ UNCHANGED <<rowVars, request, touched, brokerVars, faults>>

\* submit_order with the request's id as client order id; the SDK does not retry a POST.
PostClose(p) ==
    /\ step[p] = "posting"
    /\ order' = [order EXCEPT ![request[p]] = "inflight"]
    /\ Advance(p, "awaiting")
    /\ UNCHANGED <<rowVars, request, touched, held, filled, guard, guardFilled, deleted, faults>>

\* Mutant: a cancelled order counts as failed whatever it filled.
CloseStatusIgnoresFills(r) ==
    CASE order[r] = "filled" -> "completed" [] order[r] = "canceled" -> "failed"
      [] OTHER -> "submitted"

\* _close_result, and _save_result's demand for a full fill.
CloseStatus(r) ==
    CASE order[r] = "filled"                      -> "completed"
      [] order[r] = "canceled" /\ filled[r] = 0   -> "failed"
      [] order[r] = "canceled" /\ filled[r] > 0   -> "unknown"
      [] OTHER                                    -> "submitted"

CloseResult(r) == [status |-> CloseStatus(r), id |-> "given", says |-> "nothing"]

\* The POST's response: the order as it is now, or an error of any kind.
Answer(p) ==
    /\ step[p] = "awaiting"
    /\ \/ /\ Arrived(request[p])
          /\ result' = [result EXCEPT ![p] = CloseResult(request[p])]
          /\ step' = [step EXCEPT ![p] = "linking"]
       \/ Abort(p, TRUE)
    /\ UNCHANGED <<rowVars, request, touched, brokerVars, faults>>

-----------------------------------------------------------------------------
(* _save_result: two transactions, the signal's link and then the request.  *)

\* record_exit_request links the order; clear_failed_exit_request unlinks it if it is linked.
SavedLink(p) ==
    IF result[p].id = "missing" \/ signal # "EXECUTED" THEN exitLink
    ELSE IF result[p].status # "failed" THEN request[p]
    ELSE IF exitLink = request[p] THEN NoRequest ELSE exitLink

SaveLink(p) ==
    /\ step[p] = "linking"
    /\ exitLink' = SavedLink(p)
    /\ step' = [step EXCEPT ![p] = "saving"]
    /\ UNCHANGED <<status, report, signal, accounted, request, result, touched,
                   brokerVars, faults>>

\* update_close_request changes active rows only.
Storable(r) == Active(r)

\* update_close_request.
SaveStatus(p) ==
    /\ step[p] = "saving"
    /\ IF Storable(request[p])
       THEN /\ status' = [status EXCEPT ![request[p]] = result[p].status]
            /\ report' = [report EXCEPT ![request[p]] = result[p].says]
       ELSE UNCHANGED <<status, report>>
    /\ step' = [step EXCEPT ![p] = "idle"]
    /\ request' = [request EXCEPT ![p] = NoRequest]
    /\ result' = [result EXCEPT ![p] = NoResult]
    /\ UNCHANGED <<exitLink, signal, accounted, touched, brokerVars, faults>>

-----------------------------------------------------------------------------
(* Recovery and accounting, run by the monitor and before every close.      *)

\* Mutant: a claim whose owner crashed is not looked up.
LookedUpSubmitted(r) == status[r] \in {"submitted", "unknown"}

\* active_close_requests.
LookedUp(r) == Active(r)

\* recover: look an active request up by its client order id; a 404 changes nothing.
RecoverClose(p, r) ==
    /\ step[p] = "idle"
    /\ LookedUp(r)
    /\ Arrived(r)
    /\ request' = [request EXCEPT ![p] = r]
    /\ result' = [result EXCEPT ![p] = CloseResult(r)]
    /\ step' = [step EXCEPT ![p] = "linking"]
    /\ UNCHANGED <<rowVars, touched, brokerVars, faults>>

\* Mutant: a partly filled exit closes the signal.
ExitEvidenceAnyFill ==
    \/ guardFilled > 0
    \/ exitLink # NoRequest /\ filled[exitLink] > 0

\* reconcile_positions: a bracket leg, or the recorded exit, filled for the whole quantity.
ExitEvidence ==
    \/ guard = "filled"
    \/ exitLink # NoRequest /\ order[exitLink] = "filled"

\* The broker's reads for the open signals; the legs are looked at before the recorded exit.
ReconcilePosition(p) ==
    /\ step[p] = "idle"
    /\ signal = "EXECUTED"
    /\ ExitEvidence
    /\ request' = [request EXCEPT ![p] = IF guard = "filled" THEN NoRequest ELSE exitLink]
    /\ step' = [step EXCEPT ![p] = "accounting"]
    /\ UNCHANGED <<rowVars, result, touched, brokerVars, faults>>

\* The WHERE clause of close_position.
OpenSignal == signal = "EXECUTED"

\* process_reconciliation_event and db.close_position.
AccountExit(p) ==
    /\ step[p] = "accounting"
    /\ IF OpenSignal
       THEN /\ signal' = "CLOSED"
            /\ accounted' = accounted + 1
            /\ exitLink' = request[p]
       ELSE UNCHANGED <<signal, accounted, exitLink>>
    /\ step' = [step EXCEPT ![p] = "idle"]
    /\ request' = [request EXCEPT ![p] = NoRequest]
    /\ UNCHANGED <<status, report, result, touched, brokerVars, faults>>

ProcessCrashes(p) ==
    /\ faults < MaxFaults
    /\ step[p] # "idle"
    /\ faults' = faults + 1
    /\ step' = [step EXCEPT ![p] = "idle"]
    /\ request' = [request EXCEPT ![p] = NoRequest]
    /\ result' = [result EXCEPT ![p] = NoResult]
    /\ touched' = [touched EXCEPT ![p] = FALSE]
    /\ UNCHANGED <<rowVars, brokerVars>>

-----------------------------------------------------------------------------
(* The broker.                                                              *)

\* A POST reaches the broker, or never will.
OrderArrives(r) ==
    /\ order[r] = "inflight"
    /\ order' \in {[order EXCEPT ![r] = "working"], [order EXCEPT ![r] = "none"]}
    /\ UNCHANGED <<rowVars, processVars, held, filled, guard, guardFilled, deleted, faults>>

OrderFills(r) ==
    /\ order[r] = "working"
    /\ filled' = [filled EXCEPT ![r] = @ + 1]
    /\ held' = held - 1
    /\ order' = IF filled[r] + 1 = Quantity THEN [order EXCEPT ![r] = "filled"] ELSE order
    /\ UNCHANGED <<rowVars, processVars, guard, guardFilled, deleted, faults>>

\* Cancelled by panic or at the broker, rejected, or expired.
OrderEnds(r) ==
    /\ order[r] = "working"
    /\ order' = [order EXCEPT ![r] = "canceled"]
    /\ UNCHANGED <<rowVars, processVars, held, filled, guard, guardFilled, deleted, faults>>

\* A stop or a target fills, cancelling its sibling; a pending cancellation may lose the race.
GuardFills ==
    /\ GuardLive
    /\ guardFilled' = guardFilled + 1
    /\ held' = held - 1
    /\ guard' = IF guardFilled + 1 = Quantity THEN "filled" ELSE guard
    /\ UNCHANGED <<rowVars, processVars, order, filled, deleted, faults>>

GuardEnds ==
    /\ GuardLive
    /\ guard' = "canceled"
    /\ UNCHANGED <<rowVars, processVars, held, order, filled, guardFilled, deleted, faults>>

-----------------------------------------------------------------------------

Next ==
    \/ \E p \in Processes :
          \/ CheckPosition(p) \/ ClaimCloseRequest(p)
          \/ Preflight(p) \/ CancelProtection(p) \/ ConfirmCancellation(p)
          \/ Recheck(p) \/ PostClose(p) \/ Answer(p)
          \/ SaveLink(p) \/ SaveStatus(p)
          \/ \E r \in Requests : RecoverClose(p, r)
          \/ ReconcilePosition(p) \/ AccountExit(p)
          \/ ProcessCrashes(p)
    \/ \E r \in Requests : OrderArrives(r) \/ OrderFills(r) \/ OrderEnds(r)
    \/ GuardFills \/ GuardEnds

Spec == Init /\ [][Next]_vars

\* A process runs its code to the next await, some process's monitor repeats recovery and
\* reconciliation every minute, and a request in flight ends; nobody must ask for a close.
Fairness ==
    /\ \A p \in Processes :
          WF_vars(\/ ClaimCloseRequest(p) \/ Preflight(p) \/ CancelProtection(p)
                  \/ ConfirmCancellation(p) \/ Recheck(p) \/ PostClose(p) \/ Answer(p)
                  \/ SaveLink(p) \/ SaveStatus(p) \/ AccountExit(p))
    /\ SF_vars(\E p \in Processes : ReconcilePosition(p))
    /\ \A r \in Requests : SF_vars(\E p \in Processes : RecoverClose(p, r))
    /\ \A r \in Requests : WF_vars(OrderArrives(r))

FairSpec == Spec /\ Fairness

-----------------------------------------------------------------------------
(* Properties.                                                             *)

Live(r) == order[r] \in {"inflight", "working"}

\* At most one order can still sell, and never more than the account holds: the market close
\* of submit_position_close goes out only after every protective order is terminal, and the
\* unique index holds off a second close until the first one's outcome is known.
SellsCovered ==
    /\ \A r \in Requests : Live(r) =>
          /\ ~GuardLive
          /\ Quantity - filled[r] <= held
          /\ \A q \in Requests \ {r} : ~Live(q)
    /\ GuardLive => Quantity - guardFilled <= held
    /\ held >= 0

\* What is recorded is true.  A signal is closed, and its exit journaled, once and only after an
\* exit of the whole quantity, whoever reads the evidence first (reconcile_positions,
\* db.close_position).  A failed request sold nothing and never will, as _save_result may call a
\* close failed only when no order was posted or the exact order ended unfilled; and the
\* operator is told that protection was left unchanged only by a request that sent no DELETE
\* (the cancellation_attempts of submit_position_close).
CloseIsTrue ==
    /\ TypeOK
    /\ signal = "CLOSED" => held = 0
    /\ accounted = (IF signal = "CLOSED" THEN 1 ELSE 0)
    /\ \A r \in Requests :
          /\ status[r] = "failed" => filled[r] = 0 /\ ~Live(r)
          /\ report[r] = "untouched" => r \notin deleted

\* A confirmed unfilled end of a close leaves the signal free for another one: the exit link
\* never names a failed request (clear_failed_exit_request).
FailedCloseReleased ==
    \A r \in Requests : status[r] = "failed" => exitLink # r

\* A fully filled close is accounted for, also when the process that posted it crashed before
\* it saved the order id (recover, then reconcile_positions), unless the signal was left linked
\* to a failed close.
FilledCloseAccounted ==
    (\E r \in Requests : order[r] = "filled") ~> (signal = "CLOSED" \/ ~FailedCloseReleased)
=============================================================================

------------------------- MODULE PositionCloseProofs ------------------------
(***************************************************************************)
(* Theorems about PositionClose, for any close requests, processes,        *)
(* position size and bound on crashes.                                     *)
(*                                                                         *)
(* Neither property is inductive.  That sales are covered rests on what    *)
(* the account sold so far (SalesKnown), on what a process may assume      *)
(* between its last check and its POST (ClearWhilePosting), on the claim   *)
(* of the request being exclusive until the order is out (OwnersKnown) and *)
(* on a request staying active while its order can sell (ClaimsKnown).     *)
(* That the records are true rests on what a result says between the       *)
(* broker's answer and the two transactions that save it (ResultsKnown).   *)
(***************************************************************************)
EXTENDS PositionClose, TLAPS

Own == {"preflight", "cancelling", "confirming", "rechecking", "posting"}
Pending == {"linking", "saving"}

\* The process refused the close, or failed, before its POST.
Refused(p) == step[p] \in Pending /\ result[p].status = "failed" /\ result[p].id = "missing"
Unposted(p) == step[p] \in Own \/ Refused(p)

\* An order's status tells its fills, and the account holds what neither the bracket nor one
\* market close has sold: nothing is posted once anything was sold (ClearToPost).
SalesKnown ==
    /\ \A r \in Requests :
          /\ order[r] \in {"none", "inflight"} => filled[r] = 0
          /\ order[r] = "working" => filled[r] < Quantity
          /\ order[r] = "filled" => filled[r] = Quantity
          /\ filled[r] > 0 => /\ guardFilled = 0
                              /\ held = Quantity - filled[r]
                              /\ \A q \in Requests \ {r} : filled[q] = 0
    /\ GuardLive => guardFilled < Quantity
    /\ guard = "filled" => guardFilled = Quantity
    /\ guardFilled > 0 => held = Quantity - guardFilled
    /\ guardFilled = 0 /\ (\A r \in Requests : filled[r] = 0) => held = Quantity

\* A close that can sell is the only one, its request is still active, and the bracket is over;
\* while the bracket works, no close was ever posted.
OneSeller ==
    /\ \A r \in Requests : Live(r) =>
          /\ Active(r) /\ ~GuardLive /\ guardFilled = 0
          /\ \A q \in Requests \ {r} : ~Live(q) /\ filled[q] = 0
    /\ GuardLive => \A r \in Requests : order[r] = "none"

\* What the second checks of submit_position_close found still holds at the POST.
ClearWhilePosting ==
    \A p \in Processes : step[p] = "posting" =>
        ~GuardLive /\ held = Quantity /\ \A r \in Requests : ~Live(r)

\* The rows: the unique index, ids that are fresh until claimed, failures that sold nothing, the
\* exit link, and reports of untouched protection.
ClaimsKnown ==
    /\ \A r, q \in Requests : Active(r) /\ Active(q) => r = q
    /\ \A r \in Requests :
          /\ status[r] = "none" => order[r] = "none" /\ r # exitLink /\ r \notin deleted
          /\ status[r] = "failed" => order[r] \in {"none", "canceled"} /\ filled[r] = 0
          /\ report[r] = "untouched" => status[r] = "failed" /\ r \notin deleted
    /\ exitLink # NoRequest => Arrived(exitLink)

\* A request that was not posted is claimed and known to its process alone.
OwnerKnown(p) ==
    /\ request[p] # NoRequest => status[request[p]] # "none"
    /\ step[p] \in {"idle", "claiming"} => request[p] = NoRequest
    /\ step[p] \notin {"idle", "claiming", "accounting"} => request[p] \in Requests
    /\ Unposted(p) =>
          /\ status[request[p]] = "claimed"
          /\ order[request[p]] = "none"
          /\ \A q \in Processes \ {p} : request[q] # request[p]
OwnersKnown == \A p \in Processes : OwnerKnown(p)

\* A result that is yet to be saved tells the truth, and goes on doing so.
ResultKnown(p) ==
    /\ step[p] \in Pending =>
          /\ result[p].id = "given" => Arrived(request[p])
          /\ result[p].status = "completed" => order[request[p]] = "filled"
          /\ result[p].status = "failed" /\ result[p].id = "given" =>
                order[request[p]] = "canceled" /\ filled[request[p]] = 0
          /\ result[p].says = "untouched" => Refused(p) /\ request[p] \notin deleted
    /\ step[p] \in Own /\ request[p] \in deleted => touched[p]
    /\ step[p] = "accounting" =>
          IF request[p] = NoRequest THEN guard = "filled" ELSE order[request[p]] = "filled"
ResultsKnown == \A p \in Processes : ResultKnown(p)

SignalKnown ==
    /\ signal = "CLOSED" => held = 0
    /\ accounted = (IF signal = "CLOSED" THEN 1 ELSE 0)

CloseInv ==
    /\ TypeOK /\ SalesKnown /\ OneSeller /\ ClearWhilePosting /\ ClaimsKnown /\ OwnersKnown
    /\ ResultsKnown /\ SignalKnown

-----------------------------------------------------------------------------
\* The columns' types, with the Boolean ones apart: the two go to different provers.
RowsOK ==
    /\ status \in [Requests -> CloseRequestStatus \cup {"none"}]
    /\ report \in [Requests -> {"nothing", "untouched", "uncertain"}]
    /\ exitLink \in Requests \cup {NoRequest}
    /\ signal \in {"EXECUTED", "CLOSED"}
    /\ accounted \in Nat
TasksOK ==
    /\ step \in [Processes -> Steps]
    /\ request \in [Processes -> Requests \cup {NoRequest}]
    /\ faults \in 0..MaxFaults
OrdersOK ==
    /\ held \in Int
    /\ order \in [Requests -> {"none", "inflight", "working", "filled", "canceled"}]
    /\ filled \in [Requests -> 0..Quantity]
    /\ guard \in {"working", "pending_cancel", "canceled", "filled"}
    /\ guardFilled \in 0..Quantity
    /\ deleted \in SUBSET Requests
TouchedOK == touched \in [Processes -> BOOLEAN]
ResultsOK == result \in [Processes -> Results]

\* The same conjuncts, regrouped.
LEMMA TypeSplit == TypeOK <=> RowsOK /\ TasksOK /\ OrdersOK /\ TouchedOK /\ ResultsOK
  BY DEF TypeOK, RowsOK, TasksOK, OrdersOK, TouchedOK, ResultsOK

-----------------------------------------------------------------------------
(* What a result says. *)

\* _close_result: a completed close filled, a failed one ended without a fill.
LEMMA CloseStatusIs ==
  ASSUME NEW r \in Requests, Arrived(r), filled[r] \in 0..Quantity
  PROVE  /\ CloseStatus(r) \in CloseRequestStatus
         /\ CloseStatus(r) = "completed" => order[r] = "filled"
         /\ CloseStatus(r) = "failed" => order[r] = "canceled" /\ filled[r] = 0
<1> USE QuantityAssumption
<1>1. CASE order[r] = "filled"
  <2>1. order[r] # "canceled"
    BY <1>1
  <2>2. CloseStatus(r) = "completed"
    BY <1>1, <2>1, Zenon DEF CloseStatus
  <2> QED
    BY <1>1, <2>2 DEF CloseRequestStatus
<1>2. CASE order[r] = "working"
  <2>1. order[r] # "canceled" /\ order[r] # "filled"
    BY <1>2
  <2>2. CloseStatus(r) = "submitted"
    BY <2>1, Zenon DEF CloseStatus
  <2> QED
    BY <2>2 DEF CloseRequestStatus
<1>3. CASE order[r] = "canceled" /\ filled[r] = 0
  <2>1. order[r] # "filled" /\ ~(filled[r] > 0)
    BY <1>3
  <2>2. CloseStatus(r) = "failed"
    BY <1>3, <2>1, Zenon DEF CloseStatus
  <2> QED
    BY <1>3, <2>2 DEF CloseRequestStatus
<1>4. CASE order[r] = "canceled" /\ filled[r] # 0
  <2>1. order[r] # "filled" /\ filled[r] > 0
    BY <1>4
  <2>2. CloseStatus(r) = "unknown"
    BY <1>4, <2>1, Zenon DEF CloseStatus
  <2> QED
    BY <2>2 DEF CloseRequestStatus
<1> QED
  BY <1>1, <1>2, <1>3, <1>4 DEF Arrived

\* What a process may save of request r: a verdict on an order that arrived.
TrueOf(v, r) ==
    /\ v.id = "given" => Arrived(r)
    /\ v.status = "completed" => order[r] = "filled"
    /\ v.status = "failed" /\ v.id = "given" => order[r] = "canceled" /\ filled[r] = 0

\* The result of a lookup or of an answer carries the order's id and its status.
LEMMA CloseResultIs ==
  ASSUME NEW r \in Requests, Arrived(r), filled[r] \in 0..Quantity
  PROVE  /\ CloseResult(r) \in Results /\ TrueOf(CloseResult(r), r)
         /\ CloseResult(r).id = "given" /\ CloseResult(r).says = "nothing"
  BY CloseStatusIs DEF CloseResult, Results, TrueOf

\* A failure before the POST carries no order id, and calls the protective orders untouched
\* only if no DELETE was attempted.
RefusalOf(v, p) ==
    /\ v \in Results /\ v.id = "missing" /\ v.status \in {"failed", "unknown"}
    /\ v.says = "untouched" => ~touched[p] /\ v.status = "failed"

\* The verdicts of the except branch before the POST.
LEMMA AbortsBefore ==
  ASSUME NEW p \in Processes, Abort(p, FALSE)
  PROVE  /\ \E v : RefusalOf(v, p) /\ result' = [result EXCEPT ![p] = v]
         /\ step' = [step EXCEPT ![p] = "linking"]
<1>1. PICK v \in {[status |-> "failed", id |-> "missing", says |-> SaysOfGuard(p, FALSE)], NoResult} :
           result' = [result EXCEPT ![p] = v]
  BY Zenon DEF Abort
<1>2. SaysOfGuard(p, FALSE) = IF touched[p] THEN "uncertain" ELSE "untouched"
  BY DEF SaysOfGuard
<1>3. RefusalOf(v, p)
  <2>1. CASE v = NoResult
    BY <2>1 DEF NoResult, Results, CloseRequestStatus, RefusalOf
  <2>2. CASE v # NoResult /\ touched[p]
    <3>1. v = [status |-> "failed", id |-> "missing", says |-> "uncertain"]
      BY Zenon, <1>1, <1>2, <2>2
    <3> QED
      BY <3>1 DEF Results, CloseRequestStatus, RefusalOf
  <2>3. CASE v # NoResult /\ ~touched[p]
    <3>1. v = [status |-> "failed", id |-> "missing", says |-> "untouched"]
      BY Zenon, <1>1, <1>2, <2>3
    <3> QED
      BY <2>3, <3>1 DEF Results, CloseRequestStatus, RefusalOf
  <2> QED
    BY <2>1, <2>2, <2>3
<1> QED
  BY Zenon, <1>1, <1>3 DEF Abort

\* A failure after the POST leaves the outcome unknown and says nothing reassuring.
LEMMA AbortsAfter ==
  ASSUME NEW p \in Processes, Abort(p, TRUE)
  PROVE  /\ \E v \in Results : /\ v.id = "missing" /\ v.status = "unknown" /\ v.says # "untouched"
                               /\ result' = [result EXCEPT ![p] = v]
         /\ step' = [step EXCEPT ![p] = "linking"]
<1>1. PICK v \in {[status |-> "unknown", id |-> "missing", says |-> SaysOfGuard(p, TRUE)], NoResult} :
           result' = [result EXCEPT ![p] = v]
  BY Zenon DEF Abort
<1>2. SaysOfGuard(p, TRUE) = IF touched[p] THEN "uncertain" ELSE "nothing"
  BY DEF SaysOfGuard
<1>3. v \in Results /\ v.id = "missing" /\ v.status = "unknown" /\ v.says # "untouched"
  <2>1. CASE v = NoResult
    BY <2>1 DEF NoResult, Results, CloseRequestStatus
  <2>2. CASE v # NoResult
    <3>1. PICK s \in {"uncertain", "nothing"} : v = [status |-> "unknown", id |-> "missing", says |-> s]
      BY Zenon, <1>1, <1>2, <2>2
    <3> QED
      BY <3>1 DEF Results, CloseRequestStatus
  <2> QED
    BY <2>1, <2>2
<1> QED
  BY Zenon, <1>1, <1>3 DEF Abort

-----------------------------------------------------------------------------
(* What the steps do. *)

\* A check before the POST goes on to the next one, or refuses.
Checks(p) ==
    /\ step[p] \in Own
    /\ \/ UNCHANGED result /\ \E next \in Own : step' = [step EXCEPT ![p] = next]
       \/ /\ \E v : RefusalOf(v, p) /\ result' = [result EXCEPT ![p] = v]
          /\ step' = [step EXCEPT ![p] = "linking"]
    /\ UNCHANGED <<status, report, exitLink, signal, accounted, request, touched>>
    /\ UNCHANGED <<held, order, filled, guard, guardFilled, deleted, faults>>

\* Preflight, the cancellation's confirmation and the second checks have this shape.
LEMMA CheckSteps ==
  ASSUME NEW p \in Processes, Preflight(p) \/ ConfirmCancellation(p) \/ Recheck(p)
  PROVE  Checks(p)
<1>1. CASE Preflight(p)
  <2>1. step[p] = "preflight" /\ UNCHANGED <<rowVars, request, touched, brokerVars, faults>>
    BY <1>1 DEF Preflight
  <2>2. CASE Abort(p, FALSE)
    BY <2>1, <2>2, AbortsBefore, Zenon DEF Checks, rowVars, brokerVars, Own
  <2>3. CASE Advance(p, IF GuardLive THEN "cancelling" ELSE "rechecking")
    <3>1. UNCHANGED result /\ \E next \in {"cancelling", "rechecking"} : step' = [step EXCEPT ![p] = next]
      BY Zenon, <2>3 DEF Advance
    <3> QED
      BY Zenon, <2>1, <3>1 DEF Checks, rowVars, brokerVars, Own
  <2> QED
    BY <1>1, <2>2, <2>3, Zenon DEF Preflight
<1>2. CASE ConfirmCancellation(p)
  <2>1. step[p] = "confirming" /\ UNCHANGED <<rowVars, request, touched, brokerVars, faults>>
    BY <1>2 DEF ConfirmCancellation
  <2>2. CASE Abort(p, FALSE)
    BY <2>1, <2>2, AbortsBefore, Zenon DEF Checks, rowVars, brokerVars, Own
  <2>3. CASE Advance(p, "rechecking")
    BY <2>1, <2>3 DEF Advance, Checks, rowVars, brokerVars, Own
  <2> QED
    BY <1>2, <2>2, <2>3, Zenon DEF ConfirmCancellation
<1>3. CASE Recheck(p)
  <2>1. step[p] = "rechecking" /\ UNCHANGED <<rowVars, request, touched, brokerVars, faults>>
    BY <1>3 DEF Recheck
  <2>2. CASE Abort(p, FALSE)
    BY <2>1, <2>2, AbortsBefore, Zenon DEF Checks, rowVars, brokerVars, Own
  <2>3. CASE Advance(p, "posting")
    BY <2>1, <2>3 DEF Advance, Checks, rowVars, brokerVars, Own
  <2> QED
    BY <1>3, <2>2, <2>3, Zenon DEF Recheck
<1> QED
  BY <1>1, <1>2, <1>3

\* The answer to the POST, or a later lookup, leaves a true result to be saved.
Learns(p, r) ==
    /\ \E v \in Results : /\ TrueOf(v, r) /\ v.says # "untouched"
                          /\ v.status = "failed" => v.id = "given"
                          /\ result' = [result EXCEPT ![p] = v]
    /\ step' = [step EXCEPT ![p] = "linking"]
    /\ request' = [request EXCEPT ![p] = r]
    /\ UNCHANGED <<status, report, exitLink, signal, accounted, touched>>
    /\ UNCHANGED <<held, order, filled, guard, guardFilled, deleted, faults>>

\* submit_order's response, of any kind.
LEMMA AnswerStep ==
  ASSUME TasksOK, OrdersOK, OwnersKnown, NEW p \in Processes, Answer(p)
  PROVE  request[p] \in Requests /\ step[p] = "awaiting" /\ Learns(p, request[p])
<1>1. step[p] = "awaiting" /\ UNCHANGED <<rowVars, request, touched, brokerVars, faults>>
  BY DEF Answer
<1>2. request[p] \in Requests /\ filled[request[p]] \in 0..Quantity
  BY <1>1 DEF OwnersKnown, OwnerKnown, OrdersOK
<1>3. request' = [request EXCEPT ![p] = request[p]]
  BY <1>1 DEF TasksOK
<1>4. CASE Abort(p, TRUE)
  <2>1. PICK v \in Results : /\ v.id = "missing" /\ v.status = "unknown" /\ v.says # "untouched"
                             /\ result' = [result EXCEPT ![p] = v]
    BY <1>4, AbortsAfter, Zenon
  <2>2. TrueOf(v, request[p]) /\ v.status # "failed"
    BY <2>1 DEF TrueOf
  <2>3. step' = [step EXCEPT ![p] = "linking"]
    BY <1>4, AbortsAfter, Zenon
  <2>4. UNCHANGED <<status, report, exitLink, signal, accounted, touched, held, order, filled, guard,
                    guardFilled, deleted, faults>>
    BY <1>1 DEF rowVars, brokerVars
  <2> HIDE DEF OwnersKnown
  <2> QED
    BY <1>1, <1>2, <1>3, <2>1, <2>2, <2>3, <2>4, Zenon DEF Learns
<1>5. CASE ~Abort(p, TRUE)
  <2>1. /\ Arrived(request[p]) /\ result' = [result EXCEPT ![p] = CloseResult(request[p])]
        /\ step' = [step EXCEPT ![p] = "linking"]
    BY <1>5, Zenon DEF Answer
  <2>2. /\ CloseResult(request[p]) \in Results /\ TrueOf(CloseResult(request[p]), request[p])
        /\ CloseResult(request[p]).id = "given" /\ CloseResult(request[p]).says = "nothing"
    BY <1>2, <2>1, CloseResultIs
  <2>3. CloseResult(request[p]).says # "untouched"
    BY <2>2
  <2>4. UNCHANGED <<status, report, exitLink, signal, accounted, touched, held, order, filled, guard,
                    guardFilled, deleted, faults>>
    BY <1>1 DEF rowVars, brokerVars
  <2> QED
    BY <1>1, <1>2, <1>3, <2>1, <2>2, <2>3, <2>4, Zenon DEF Learns
<1> QED
  BY Zenon, <1>4, <1>5

\* recover finds the order of an active request.
LEMMA RecoverStep ==
  ASSUME OrdersOK, NEW p \in Processes, NEW r \in Requests, RecoverClose(p, r)
  PROVE  step[p] = "idle" /\ Active(r) /\ Arrived(r) /\ Learns(p, r)
<1>1. /\ step[p] = "idle" /\ Active(r) /\ Arrived(r) /\ result' = [result EXCEPT ![p] = CloseResult(r)]
      /\ step' = [step EXCEPT ![p] = "linking"] /\ request' = [request EXCEPT ![p] = r]
      /\ UNCHANGED <<rowVars, touched, brokerVars, faults>>
  BY DEF RecoverClose, LookedUp
<1>2. /\ CloseResult(r) \in Results /\ TrueOf(CloseResult(r), r)
      /\ CloseResult(r).id = "given" /\ CloseResult(r).says = "nothing"
  BY <1>1, CloseResultIs DEF OrdersOK
<1>3. CloseResult(r).says # "untouched"
  BY <1>2
<1> QED
  BY <1>1, <1>2, <1>3, Zenon DEF Learns, rowVars, brokerVars

\* Only a process's own state changes.
Private ==
    /\ UNCHANGED <<status, report, exitLink, signal, accounted>>
    /\ UNCHANGED <<held, order, filled, guard, guardFilled, deleted>>

\* Every step is private to a process, or one of those that write the rows or reach the broker.
LEMMA StepKinds ==
  ASSUME [Next]_vars
  PROVE  \/ Private
         \/ \E p \in Processes : \/ ClaimCloseRequest(p) \/ SaveLink(p) \/ SaveStatus(p) \/ AccountExit(p)
                                 \/ CancelProtection(p) \/ PostClose(p)
         \/ \E r \in Requests : OrderArrives(r) \/ OrderFills(r) \/ OrderEnds(r)
         \/ GuardFills \/ GuardEnds
<1>1. ASSUME NEW p \in Processes, Preflight(p) \/ ConfirmCancellation(p) \/ Recheck(p) PROVE Private
  BY <1>1, CheckSteps DEF Checks, Private
<1>2. ASSUME NEW p \in Processes, CheckPosition(p) \/ ReconcilePosition(p) \/ ProcessCrashes(p) PROVE Private
  BY <1>2 DEF CheckPosition, ReconcilePosition, ProcessCrashes, Private, rowVars, brokerVars
<1>3. ASSUME NEW p \in Processes, Answer(p) PROVE Private
  BY <1>3, Zenon DEF Answer, Private, rowVars, brokerVars
<1>4. ASSUME NEW p \in Processes, NEW r \in Requests, RecoverClose(p, r) PROVE Private
  BY <1>4 DEF RecoverClose, Private, rowVars, brokerVars
<1>5. CASE UNCHANGED vars
  BY <1>5 DEF vars, Private, rowVars, brokerVars
<1> QED
  BY <1>1, <1>2, <1>3, <1>4, <1>5 DEF Next

\* A process's step leaves the others' state alone.
OthersWait(p) ==
    \A q \in Processes \ {p} :
        /\ step'[q] = step[q] /\ request'[q] = request[q]
        /\ result'[q] = result[q] /\ touched'[q] = touched[q]
NobodyMoves == UNCHANGED <<step, request, result, touched>>

\* Each step of each process.
LEMMA OneAtATime ==
  ASSUME TasksOK, OrdersOK, OwnersKnown, TouchedOK, ResultsOK, NEW p \in Processes,
         \/ CheckPosition(p) \/ ClaimCloseRequest(p) \/ Checks(p) \/ CancelProtection(p) \/ PostClose(p)
         \/ (\E r \in Requests : Learns(p, r))
         \/ SaveLink(p) \/ SaveStatus(p) \/ ReconcilePosition(p) \/ AccountExit(p) \/ ProcessCrashes(p)
  PROVE  OthersWait(p)
<1> USE DEF TasksOK, TouchedOK, ResultsOK, OthersWait
<1>1. CASE CheckPosition(p) \/ SaveLink(p) \/ ReconcilePosition(p) \/ AccountExit(p)
  BY <1>1 DEF CheckPosition, SaveLink, ReconcilePosition, AccountExit
<1>2. CASE ClaimCloseRequest(p)
  BY <1>2 DEF ClaimCloseRequest
<1>3. CASE CancelProtection(p)
  BY <1>3 DEF CancelProtection, Advance
<1>4. CASE PostClose(p) \/ SaveStatus(p)
  BY <1>4 DEF PostClose, SaveStatus, Advance
<1>5. CASE Checks(p)
  BY <1>5 DEF Checks
<1>6. CASE \E r \in Requests : Learns(p, r)
  BY <1>6 DEF Learns
<1>7. CASE ProcessCrashes(p)
  BY <1>7 DEF ProcessCrashes
<1> QED
  BY <1>1, <1>2, <1>3, <1>4, <1>5, <1>6, <1>7

\* The broker's steps, and steps that change nothing.
LEMMA BrokerAlone ==
  ASSUME \/ \E r \in Requests : OrderArrives(r) \/ OrderFills(r) \/ OrderEnds(r)
         \/ GuardFills \/ GuardEnds \/ UNCHANGED vars
  PROVE  NobodyMoves /\ UNCHANGED <<status, report, exitLink, signal, accounted, deleted, faults>>
  BY DEF OrderArrives, OrderFills, OrderEnds, GuardFills, GuardEnds, vars, processVars, rowVars,
         brokerVars, NobodyMoves

\* Every step, by what it does to the processes.
LEMMA TaskKinds ==
  ASSUME TasksOK, OrdersOK, OwnersKnown, [Next]_vars
  PROVE  \/ NobodyMoves /\ UNCHANGED <<status, report, exitLink, signal, accounted, deleted, faults>>
         \/ \E p \in Processes :
               \/ CheckPosition(p) \/ ClaimCloseRequest(p) \/ Checks(p) \/ CancelProtection(p) \/ PostClose(p)
               \/ SaveLink(p) \/ SaveStatus(p) \/ ReconcilePosition(p) \/ AccountExit(p) \/ ProcessCrashes(p)
               \/ \E r \in Requests : /\ Learns(p, r)
                                      /\ \/ step[p] = "awaiting" /\ r = request[p]
                                         \/ step[p] = "idle" /\ Active(r) /\ Arrived(r)
<1>1. ASSUME NEW p \in Processes, Preflight(p) \/ ConfirmCancellation(p) \/ Recheck(p) PROVE Checks(p)
  BY <1>1, CheckSteps
<1>2. ASSUME NEW p \in Processes, Answer(p)
      PROVE  \E r \in Requests : Learns(p, r) /\ step[p] = "awaiting" /\ r = request[p]
  BY <1>2, AnswerStep
<1>3. ASSUME NEW p \in Processes, NEW r \in Requests, RecoverClose(p, r)
      PROVE  Learns(p, r) /\ step[p] = "idle" /\ Active(r) /\ Arrived(r)
  BY <1>3, RecoverStep
<1> QED
  BY <1>1, <1>2, <1>3, BrokerAlone DEF Next

-----------------------------------------------------------------------------
(* Types. *)

\* The rows keep their types.
LEMMA RowsNext ==
  ASSUME RowsOK, TasksOK, ResultsOK, OwnersKnown, [Next]_vars
  PROVE  RowsOK'
<1> USE DEF RowsOK, CloseRequestStatus
<1>1. CASE Private
  BY <1>1 DEF Private
<1>2. ASSUME NEW p \in Processes, ClaimCloseRequest(p) PROVE RowsOK'
  BY <1>2 DEF ClaimCloseRequest
<1>3. ASSUME NEW p \in Processes, SaveLink(p) PROVE RowsOK'
  BY <1>3 DEF SaveLink, SavedLink, TasksOK
<1>4. ASSUME NEW p \in Processes, SaveStatus(p) PROVE RowsOK'
  <2>1. result[p].status \in CloseRequestStatus /\ result[p].says \in {"nothing", "untouched", "uncertain"}
    BY DEF ResultsOK, Results
  <2> QED
    BY <1>4, <2>1 DEF SaveStatus
<1>5. ASSUME NEW p \in Processes, AccountExit(p) PROVE RowsOK'
  BY <1>5 DEF AccountExit, TasksOK
<1>6. ASSUME NEW p \in Processes, CancelProtection(p) \/ PostClose(p) PROVE RowsOK'
  BY <1>6 DEF CancelProtection, PostClose, rowVars
<1>7. CASE \/ \E r \in Requests : OrderArrives(r) \/ OrderFills(r) \/ OrderEnds(r)
           \/ GuardFills \/ GuardEnds
  BY <1>7, BrokerAlone
<1> QED
  BY <1>1, <1>2, <1>3, <1>4, <1>5, <1>6, <1>7, StepKinds

\* So does the broker's side.
LEMMA OrdersNext ==
  ASSUME OrdersOK, TasksOK, SalesKnown, OwnersKnown, [Next]_vars
  PROVE  OrdersOK'
<1> USE QuantityAssumption DEF OrdersOK
<1>1. CASE Private
  BY <1>1 DEF Private
<1>2. ASSUME NEW p \in Processes, ClaimCloseRequest(p) \/ SaveLink(p) \/ SaveStatus(p) \/ AccountExit(p)
      PROVE  OrdersOK'
  BY <1>2 DEF ClaimCloseRequest, SaveLink, SaveStatus, AccountExit, brokerVars
<1>3. ASSUME NEW p \in Processes, CancelProtection(p) PROVE OrdersOK'
  <2>1. request[p] \in Requests
    BY <1>3 DEF CancelProtection, OwnersKnown, OwnerKnown
  <2> QED
    BY <1>3, <2>1 DEF CancelProtection
<1>4. ASSUME NEW p \in Processes, PostClose(p) PROVE OrdersOK'
  BY Zenon, <1>4 DEF PostClose
<1>5. ASSUME NEW r \in Requests, OrderArrives(r) \/ OrderEnds(r) PROVE OrdersOK'
  BY <1>5 DEF OrderArrives, OrderEnds
<1>6. ASSUME NEW r \in Requests, OrderFills(r) PROVE OrdersOK'
  <2>1. filled[r] < Quantity
    BY <1>6 DEF OrderFills, SalesKnown
  <2> QED
    BY <1>6, <2>1 DEF OrderFills
<1>7. CASE GuardFills
  <2>1. guardFilled < Quantity
    BY <1>7 DEF GuardFills, SalesKnown
  <2> QED
    BY <1>7, <2>1 DEF GuardFills
<1>8. CASE GuardEnds
  BY <1>8 DEF GuardEnds
<1> QED
  BY <1>1, <1>2, <1>3, <1>4, <1>5, <1>6, <1>7, <1>8, StepKinds

\* And the processes' state.
LEMMA TasksNext ==
  ASSUME RowsOK, TasksOK, OrdersOK, TouchedOK, ResultsOK, OwnersKnown, [Next]_vars
  PROVE  TasksOK' /\ TouchedOK' /\ ResultsOK'
<1> USE MaxFaultsAssumption DEF TasksOK, TouchedOK, ResultsOK, Steps
<1>1. CASE NobodyMoves /\ UNCHANGED faults
  BY <1>1 DEF NobodyMoves
<1>2. ASSUME NEW p \in Processes, CheckPosition(p) \/ SaveLink(p) \/ AccountExit(p)
      PROVE  TasksOK' /\ TouchedOK' /\ ResultsOK'
  BY <1>2 DEF CheckPosition, SaveLink, AccountExit
<1>3. ASSUME NEW p \in Processes, ReconcilePosition(p) PROVE TasksOK' /\ TouchedOK' /\ ResultsOK'
  BY <1>3 DEF ReconcilePosition, RowsOK
<1>4. ASSUME NEW p \in Processes, ClaimCloseRequest(p) PROVE TasksOK' /\ TouchedOK' /\ ResultsOK'
  <2>1. TasksOK'
    BY <1>4 DEF ClaimCloseRequest
  <2>2. TouchedOK' /\ ResultsOK'
    BY Zenon, <1>4 DEF ClaimCloseRequest
  <2> QED
    BY <2>1, <2>2
<1>5. ASSUME NEW p \in Processes, CancelProtection(p) PROVE TasksOK' /\ TouchedOK' /\ ResultsOK'
  BY Zenon, <1>5 DEF CancelProtection, Advance
<1>6. ASSUME NEW p \in Processes, PostClose(p) PROVE TasksOK' /\ TouchedOK' /\ ResultsOK'
  BY <1>6 DEF PostClose, Advance
<1>7. ASSUME NEW p \in Processes, Checks(p) PROVE TasksOK' /\ TouchedOK' /\ ResultsOK'
  BY <1>7 DEF Checks, Own, RefusalOf
<1>8. ASSUME NEW p \in Processes, NEW r \in Requests, Learns(p, r) PROVE TasksOK' /\ TouchedOK' /\ ResultsOK'
  BY <1>8 DEF Learns
<1>9. NoResult \in Results
  BY DEF NoResult, Results, CloseRequestStatus
<1>10. ASSUME NEW p \in Processes, SaveStatus(p) PROVE TasksOK' /\ TouchedOK' /\ ResultsOK'
  BY <1>9, <1>10 DEF SaveStatus
<1>11. ASSUME NEW p \in Processes, ProcessCrashes(p) PROVE TasksOK' /\ TouchedOK' /\ ResultsOK'
  BY <1>9, <1>11 DEF ProcessCrashes
<1> QED
  BY <1>1, <1>2, <1>3, <1>4, <1>5, <1>6, <1>7, <1>8, <1>10, <1>11, TaskKinds

-----------------------------------------------------------------------------
(* What the account sold. *)

\* A full position means that nothing was sold.
LEMMA NothingSold ==
  ASSUME OrdersOK, SalesKnown, held = Quantity
  PROVE  guardFilled = 0 /\ \A r \in Requests : filled[r] = 0
<1>1. guardFilled > 0 => held = Quantity - guardFilled
  BY Zenon DEF SalesKnown
<1>2. \A r \in Requests : filled[r] > 0 => held = Quantity - filled[r]
  BY Zenon DEF SalesKnown
<1> QED
  BY <1>1, <1>2, QuantityAssumption DEF OrdersOK

\* The POST is of the process's own claim.
LEMMA PostsOwnClaim ==
  ASSUME OwnersKnown, NEW p \in Processes, PostClose(p)
  PROVE  /\ request[p] \in Requests /\ status[request[p]] = "claimed" /\ order[request[p]] = "none"
         /\ order' = [order EXCEPT ![request[p]] = "inflight"]
         /\ UNCHANGED <<status, report, exitLink, signal, accounted, held, filled, guard, guardFilled, deleted>>
  BY DEF PostClose, OwnersKnown, OwnerKnown, Unposted, Own, rowVars

\* The position is what one seller left of it: a fill belongs to the bracket, or to the only close.
LEMMA SalesNext ==
  ASSUME OrdersOK, SalesKnown, OneSeller, OwnersKnown, [Next]_vars
  PROVE  SalesKnown'
<1> USE QuantityAssumption DEF OrdersOK
<1>1. CASE Private
  BY <1>1 DEF Private, SalesKnown, GuardLive
<1>2. ASSUME NEW p \in Processes, ClaimCloseRequest(p) \/ SaveLink(p) \/ SaveStatus(p) \/ AccountExit(p)
      PROVE  SalesKnown'
  <2>1. UNCHANGED <<held, order, filled, guard, guardFilled>>
    BY <1>2 DEF ClaimCloseRequest, SaveLink, SaveStatus, AccountExit, brokerVars
  <2> QED
    BY <2>1 DEF SalesKnown, GuardLive
<1>3. ASSUME NEW p \in Processes, CancelProtection(p) PROVE SalesKnown'
  <2>1. /\ UNCHANGED <<held, order, filled, guardFilled>>
        /\ guard' = guard \/ (GuardLive /\ guard' = "pending_cancel")
    BY <1>3 DEF CancelProtection
  <2> QED
    BY <2>1 DEF SalesKnown, GuardLive
<1>4. ASSUME NEW p \in Processes, PostClose(p) PROVE SalesKnown'
  BY <1>4, PostsOwnClaim DEF SalesKnown, GuardLive
<1>5. ASSUME NEW r \in Requests, OrderArrives(r) PROVE SalesKnown'
  BY <1>5 DEF OrderArrives, SalesKnown, GuardLive
<1>6. ASSUME NEW r \in Requests, OrderEnds(r) PROVE SalesKnown'
  BY <1>6 DEF OrderEnds, SalesKnown, GuardLive
<1>7. ASSUME NEW r \in Requests, OrderFills(r) PROVE SalesKnown'
  <2>1. /\ ~GuardLive /\ guardFilled = 0
        /\ \A q \in Requests \ {r} : filled[q] = 0
    BY <1>7 DEF OrderFills, OneSeller, Live
  <2>2. filled[r] < Quantity /\ held = Quantity - filled[r]
    BY <1>7, <2>1 DEF OrderFills, SalesKnown
  <2>3. filled' = [filled EXCEPT ![r] = filled[r] + 1] /\ held' = held - 1 /\ UNCHANGED <<guard, guardFilled>>
    BY <1>7 DEF OrderFills
  <2>4. order' = IF filled[r] + 1 = Quantity THEN [order EXCEPT ![r] = "filled"] ELSE order
    BY <1>7 DEF OrderFills
  <2>5. order[r] = "working"
    BY <1>7 DEF OrderFills
  <2>6. /\ filled'[r] = filled[r] + 1 /\ \A q \in Requests \ {r} : filled'[q] = 0 /\ order'[q] = order[q]
        /\ order'[r] = IF filled[r] + 1 = Quantity THEN "filled" ELSE "working"
    BY <2>1, <2>3, <2>4, <2>5
  <2>7. /\ UNCHANGED <<guard, guardFilled>> /\ held' = Quantity - filled'[r] /\ filled'[r] > 0
        /\ filled'[r] <= Quantity
    BY <2>2, <2>3, <2>6
  <2>8. ASSUME NEW q \in Requests
        PROVE  /\ order'[q] \in {"none", "inflight"} => filled'[q] = 0
               /\ order'[q] = "working" => filled'[q] < Quantity
               /\ order'[q] = "filled" => filled'[q] = Quantity
               /\ filled'[q] > 0 => /\ guardFilled' = 0
                                    /\ held' = Quantity - filled'[q]
                                    /\ \A t \in Requests \ {q} : filled'[t] = 0
    <3>1. CASE q = r
      BY <2>1, <2>2, <2>6, <2>7, <3>1
    <3>2. CASE q # r
      <4>1. filled'[q] = 0 /\ order'[q] = order[q] /\ filled[q] = 0
        BY <2>1, <2>6, <3>2
      <4>2. order[q] = "filled" => filled[q] = Quantity
        BY Zenon DEF SalesKnown
      <4> QED
        BY <4>1, <4>2
    <3> QED
      BY <3>1, <3>2
  <2>9. ~GuardLive' /\ (guard' = "filled" => guardFilled' = Quantity) /\ guardFilled' = 0
    BY <2>1, <2>7 DEF SalesKnown, GuardLive
  <2>10. ~(\A q \in Requests : filled'[q] = 0)
    BY <2>7
  <2> QED
    BY <2>8, <2>9, <2>10 DEF SalesKnown
<1>8. CASE GuardFills
  <2>1. \A r \in Requests : order[r] = "none" /\ filled[r] = 0
    BY <1>8 DEF GuardFills, OneSeller, SalesKnown
  <2>2. guardFilled < Quantity /\ held = Quantity - guardFilled
    BY <1>8, <2>1 DEF GuardFills, SalesKnown
  <2> QED
    BY <1>8, <2>1, <2>2 DEF GuardFills, SalesKnown, GuardLive
<1>9. CASE GuardEnds
  BY <1>9 DEF GuardEnds, SalesKnown, GuardLive
<1> QED
  BY <1>1, <1>2, <1>3, <1>4, <1>5, <1>6, <1>7, <1>8, <1>9, StepKinds

\* No second order can sell: the POST finds nothing alive, and its request stays active until its
\* end is known.
LEMMA OneSellerNext ==
  ASSUME OrdersOK, RowsOK, ResultsOK, SalesKnown, OneSeller, ClearWhilePosting,
         OwnersKnown, ResultsKnown, [Next]_vars
  PROVE  OneSeller'
<1> USE DEF OrdersOK, RowsOK
<1>1. CASE Private
  BY <1>1 DEF Private, OneSeller, Live, Active, GuardLive
<1>2. ASSUME NEW p \in Processes, SaveLink(p) \/ AccountExit(p) PROVE OneSeller'
  BY <1>2 DEF SaveLink, AccountExit, brokerVars, OneSeller, Live, Active, GuardLive
<1>3. ASSUME NEW p \in Processes, ClaimCloseRequest(p) PROVE OneSeller'
  <2>1. UNCHANGED <<held, order, filled, guard, guardFilled>>
        /\ \A r \in Requests : Active(r) => Active(r)'
    BY <1>3 DEF ClaimCloseRequest, brokerVars, Active
  <2> QED
    BY <2>1 DEF OneSeller, Live, GuardLive
<1>4. ASSUME NEW p \in Processes, SaveStatus(p) PROVE OneSeller'
  <2>1. /\ step[p] = "saving" /\ request[p] \in Requests
        /\ UNCHANGED <<order, filled, guard, guardFilled>>
    BY <1>4 DEF SaveStatus, brokerVars, OwnersKnown, OwnerKnown
  <2>2. Live(request[p]) => result[p].status # "completed" /\ result[p].status # "failed"
    <3>1. result[p].id \in {"given", "missing"}
      BY DEF ResultsOK, Results
    <3> QED
      BY <2>1, <3>1 DEF ResultsKnown, ResultKnown, Pending, Live, OwnersKnown, OwnerKnown, Unposted, Refused
  <2>3. result[p].status \in CloseRequestStatus
    BY DEF ResultsOK, Results
  <2>4. \A r \in Requests : Live(r) => Active(r)'
    <3>1. status' = status \/ status' = [status EXCEPT ![request[p]] = result[p].status]
      BY <1>4 DEF SaveStatus
    <3> QED
      BY <2>1, <2>2, <2>3, <3>1 DEF OneSeller, Active, CloseRequestStatus
  <2> QED
    BY <2>1, <2>4 DEF OneSeller, Live, GuardLive
<1>5. ASSUME NEW p \in Processes, CancelProtection(p) PROVE OneSeller'
  <2>1. /\ UNCHANGED <<held, order, filled, guardFilled, status>>
        /\ guard' = guard \/ (GuardLive /\ guard' = "pending_cancel")
    BY <1>5 DEF CancelProtection, rowVars
  <2> QED
    BY <2>1 DEF OneSeller, Live, Active, GuardLive
<1>6. ASSUME NEW p \in Processes, PostClose(p) PROVE OneSeller'
  <2>1. ~GuardLive /\ held = Quantity /\ \A r \in Requests : ~Live(r)
    BY <1>6 DEF PostClose, ClearWhilePosting
  <2>2. guardFilled = 0 /\ \A r \in Requests : filled[r] = 0
    BY <2>1, NothingSold
  <2> QED
    BY <1>6, <2>1, <2>2, PostsOwnClaim DEF OneSeller, Live, Active, GuardLive
<1>7. ASSUME NEW r \in Requests, OrderArrives(r) PROVE OneSeller'
  BY <1>7 DEF OrderArrives, rowVars, OneSeller, Live, Active, GuardLive
<1>8. ASSUME NEW r \in Requests, OrderEnds(r) PROVE OneSeller'
  BY <1>8 DEF OrderEnds, rowVars, OneSeller, Live, Active, GuardLive
<1>9. ASSUME NEW r \in Requests, OrderFills(r) PROVE OneSeller'
  BY <1>9 DEF OrderFills, rowVars, OneSeller, Live, Active, GuardLive
<1>10. CASE GuardFills
  <2>1. \A r \in Requests : order'[r] = "none"
    BY <1>10 DEF GuardFills, OneSeller
  <2> QED
    BY <2>1 DEF OneSeller, Live
<1>11. CASE GuardEnds
  BY <1>11 DEF GuardEnds, rowVars, OneSeller, Live, Active, GuardLive
<1> QED
  BY <1>1, <1>2, <1>3, <1>4, <1>5, <1>6, <1>7, <1>8, <1>9, <1>10, <1>11, StepKinds

\* What the last checks found lasts until the POST: nobody else owns a claim, so nobody else posts.
LEMMA ClearNext ==
  ASSUME TasksOK, RowsOK, OrdersOK, ResultsOK, TouchedOK, OneSeller,
         ClearWhilePosting, ClaimsKnown, OwnersKnown, [Next]_vars
  PROVE  ClearWhilePosting'
<1> USE DEF TasksOK
<1>1. ASSUME NEW p \in Processes, Recheck(p) PROVE ClearWhilePosting'
  <2>1. UNCHANGED <<guard, held, order>> /\ step[p] = "rechecking"
    BY <1>1 DEF Recheck, brokerVars
  <2>2. CASE step' = [step EXCEPT ![p] = "linking"]
    BY <2>1, <2>2 DEF ClearWhilePosting, GuardLive, Live
  <2>3. CASE ClearToPost /\ step' = [step EXCEPT ![p] = "posting"]
    <3>1. status[request[p]] = "claimed" /\ order[request[p]] = "none" /\ request[p] \in Requests
      BY <2>1 DEF OwnersKnown, OwnerKnown, Unposted, Own
    <3>2. ASSUME NEW r \in Requests PROVE ~Live(r)
      <4>1. Live(r) => r = request[p]
        BY <3>1 DEF OneSeller, ClaimsKnown, Active
      <4> QED
        BY <3>1, <4>1 DEF Live
    <3> QED
      BY <2>1, <2>3, <3>2 DEF ClearToPost, ClearWhilePosting, GuardLive, Live
  <2> QED
    BY <1>1, <2>2, <2>3, AbortsBefore, Zenon DEF Recheck, Advance
<1>2. ASSUME NEW p \in Processes, Preflight(p) \/ ConfirmCancellation(p) PROVE ClearWhilePosting'
  <2>1. step[p] \in {"preflight", "confirming"} /\ UNCHANGED <<guard, held, order>>
    BY <1>2, Zenon DEF Preflight, ConfirmCancellation, brokerVars
  <2>2. \E next \in {"cancelling", "rechecking", "linking"} : step' = [step EXCEPT ![p] = next]
    BY <1>2, AbortsBefore, Zenon DEF Preflight, ConfirmCancellation, Advance
  <2> QED
    BY <2>1, <2>2 DEF ClearWhilePosting, GuardLive, Live
<1>3. ASSUME NEW p \in Processes, Answer(p) \/ \E r \in Requests : RecoverClose(p, r)
      PROVE  ClearWhilePosting'
  <2>1. UNCHANGED <<guard, held, order>> /\ step' = [step EXCEPT ![p] = "linking"]
    BY <1>3, AnswerStep, RecoverStep DEF Learns
  <2> QED
    BY <2>1 DEF ClearWhilePosting, GuardLive, Live
<1>4. ASSUME NEW p \in Processes,
             CheckPosition(p) \/ ClaimCloseRequest(p) \/ ReconcilePosition(p) \/ ProcessCrashes(p)
      PROVE  ClearWhilePosting'
  <2>1. UNCHANGED <<guard, held, order>>
    BY <1>4 DEF CheckPosition, ClaimCloseRequest, ReconcilePosition, ProcessCrashes, brokerVars
  <2>2. \E next \in {"claiming", "preflight", "idle", "accounting"} : step' = [step EXCEPT ![p] = next]
    BY <1>4 DEF CheckPosition, ClaimCloseRequest, ReconcilePosition, ProcessCrashes
  <2> QED
    BY <2>1, <2>2 DEF ClearWhilePosting, GuardLive, Live
<1>5. ASSUME NEW p \in Processes, SaveLink(p) \/ SaveStatus(p) \/ AccountExit(p)
      PROVE  ClearWhilePosting'
  BY <1>5 DEF SaveLink, SaveStatus, AccountExit, brokerVars, ClearWhilePosting, GuardLive, Live
<1>6. ASSUME NEW p \in Processes, CancelProtection(p) PROVE ClearWhilePosting'
  BY <1>6 DEF CancelProtection, Advance, ClearWhilePosting, GuardLive, Live
<1>7. ASSUME NEW p \in Processes, PostClose(p) PROVE ClearWhilePosting'
  <2>1. \A q \in Processes \ {p} : step[q] # "posting"
    <3> SUFFICES ASSUME NEW q \in Processes \ {p}, step[q] = "posting" PROVE FALSE
      OBVIOUS
    <3>1. Unposted(p) /\ Unposted(q)
      BY <1>7 DEF PostClose, Unposted, Own
    <3>2. request[p] \in Requests /\ request[q] \in Requests
      BY <1>7 DEF PostClose, OwnersKnown, OwnerKnown
    <3>3. request[q] = request[p]
      BY <3>1, <3>2 DEF OwnersKnown, OwnerKnown, ClaimsKnown, Active
    <3> QED
      BY <3>1, <3>3 DEF OwnersKnown, OwnerKnown
  <2>2. step' = [step EXCEPT ![p] = "awaiting"]
    BY <1>7 DEF PostClose, Advance
  <2> QED
    BY <2>1, <2>2 DEF ClearWhilePosting
<1>8. ASSUME NEW r \in Requests, OrderArrives(r) \/ OrderEnds(r) \/ OrderFills(r)
      PROVE  ClearWhilePosting'
  BY <1>8, BrokerAlone DEF NobodyMoves, OrderArrives, OrderEnds, OrderFills, ClearWhilePosting, GuardLive, Live
<1>9. CASE GuardFills \/ GuardEnds
  BY <1>9, BrokerAlone DEF NobodyMoves, GuardFills, GuardEnds, ClearWhilePosting, GuardLive, Live
<1>10. CASE UNCHANGED vars
  BY <1>10 DEF vars, processVars, brokerVars, ClearWhilePosting, GuardLive, Live
<1> QED
  BY <1>1, <1>2, <1>3, <1>4, <1>5, <1>6, <1>7, <1>8, <1>9, <1>10 DEF Next

-----------------------------------------------------------------------------
(* The rows. *)

\* The unique index, update_close_request and the exit link keep the rows true.
LEMMA ClaimsNext ==
  ASSUME OrdersOK, RowsOK, ResultsOK, SalesKnown, ClaimsKnown, OwnersKnown,
         ResultsKnown, [Next]_vars
  PROVE  ClaimsKnown'
<1> USE NoRequestAssumption DEF OrdersOK, RowsOK
<1>1. CASE Private
  BY <1>1 DEF Private, ClaimsKnown, Active, Arrived
<1>2. ASSUME NEW p \in Processes, ClaimCloseRequest(p) PROVE ClaimsKnown'
  <2>1. UNCHANGED <<report, exitLink, order, filled, deleted>>
    BY <1>2 DEF ClaimCloseRequest, brokerVars
  <2>2. CASE UNCHANGED status
    BY <2>1, <2>2 DEF ClaimsKnown, Active, Arrived
  <2>3. CASE status' # status
    <3>1. PICK r \in Requests : status[r] = "none" /\ status' = [status EXCEPT ![r] = "claimed"]
      BY <1>2, <2>3 DEF ClaimCloseRequest
    <3>2. \A q \in Requests : ~Active(q)
      BY <1>2, <2>3 DEF ClaimCloseRequest
    <3>3. \A q \in Requests : Active(q)' => q = r
      BY <3>1, <3>2 DEF Active
    <3>4. \A q \in Requests : q # r => status'[q] = status[q]
      BY <3>1
    <3>5. status'[r] = "claimed" /\ report[r] # "untouched"
      BY <3>1 DEF ClaimsKnown
    <3> QED
      BY <2>1, <3>3, <3>4, <3>5 DEF ClaimsKnown, Arrived
  <2> QED
    BY <2>2, <2>3
<1>3. ASSUME NEW p \in Processes, SaveLink(p) PROVE ClaimsKnown'
  <2>1. request[p] \in Requests /\ status[request[p]] # "none"
    BY <1>3 DEF SaveLink, OwnersKnown, OwnerKnown
  <2>a. result[p].id \in {"given", "missing"}
    BY DEF ResultsOK, Results
  <2>2. exitLink' \in {exitLink, NoRequest} \/ (exitLink' = request[p] /\ Arrived(request[p]))
    <3>1. CASE result[p].id = "missing" \/ signal # "EXECUTED"
      BY Zenon, <1>3, <3>1 DEF SaveLink, SavedLink
    <3>2. CASE result[p].id = "given" /\ signal = "EXECUTED"
      <4>1. Arrived(request[p])
        BY Zenon, <1>3, <3>2 DEF SaveLink, ResultsKnown, ResultKnown, Pending
      <4>2. exitLink' = IF result[p].status # "failed" THEN request[p]
                        ELSE IF exitLink = request[p] THEN NoRequest ELSE exitLink
        BY <1>3, <3>2 DEF SaveLink, SavedLink
      <4> QED
        BY <4>1, <4>2
    <3> QED
      BY <2>a, <3>1, <3>2
  <2>3. UNCHANGED <<status, report, order, filled, deleted>>
    BY <1>3 DEF SaveLink, brokerVars
  <2> QED
    BY <2>1, <2>2, <2>3 DEF ClaimsKnown, Active, Arrived
<1>4. ASSUME NEW p \in Processes, SaveStatus(p) PROVE ClaimsKnown'
  <2> DEFINE s == request[p]
  <2>1. s \in Requests /\ step[p] = "saving" /\ result[p].status \in CloseRequestStatus
    BY <1>4 DEF SaveStatus, OwnersKnown, OwnerKnown, ResultsOK, Results
  <2>2. result[p].status = "failed" => order[s] \in {"none", "canceled"} /\ filled[s] = 0
    <3>a. result[p].id \in {"given", "missing"}
      BY DEF ResultsOK, Results
    <3>1. CASE result[p].id = "given"
      BY <2>1, <3>1 DEF ResultsKnown, ResultKnown, Pending
    <3>2. CASE result[p].id = "missing" /\ result[p].status = "failed"
      <4>1. order[s] = "none"
        BY <2>1, <3>2 DEF OwnersKnown, OwnerKnown, Unposted, Refused, Pending
      <4>2. order[s] = "none" => filled[s] = 0
        BY <2>1 DEF SalesKnown
      <4> QED
        BY <4>1, <4>2
    <3> QED
      BY <3>a, <3>1, <3>2
  <2>3. result[p].says = "untouched" => result[p].status = "failed" /\ s \notin deleted
    BY <2>1 DEF ResultsKnown, ResultKnown, Pending, Refused
  <2>4. CASE ~Active(s)
    BY <1>4, <2>4 DEF SaveStatus, Storable, brokerVars, ClaimsKnown, Active, Arrived
  <2>5. CASE Active(s)
    <3>1. /\ status' = [status EXCEPT ![s] = result[p].status]
          /\ report' = [report EXCEPT ![s] = result[p].says]
          /\ UNCHANGED <<exitLink, order, filled, deleted>>
      BY <1>4, <2>5, Zenon DEF SaveStatus, Storable, brokerVars
    <3>2. \A r, q \in Requests : Active(r)' /\ Active(q)' => r = q
      BY <2>1, <2>5, <3>1 DEF ClaimsKnown, Active
    <3>3. ASSUME NEW r \in Requests
          PROVE  /\ status'[r] = "none" => order'[r] = "none" /\ r # exitLink' /\ r \notin deleted'
                 /\ status'[r] = "failed" => order'[r] \in {"none", "canceled"} /\ filled'[r] = 0
                 /\ report'[r] = "untouched" => status'[r] = "failed" /\ r \notin deleted'
      <4>1. CASE r = s
        <5>1. status'[r] = result[p].status /\ report'[r] = result[p].says
          BY <2>1, <3>1, <4>1
        <5> QED
          BY <2>1, <2>2, <2>3, <3>1, <4>1, <5>1 DEF CloseRequestStatus
      <4>2. CASE r # s
        <5>1. status'[r] = status[r] /\ report'[r] = report[r]
          BY <3>1, <4>2
        <5>2. /\ status[r] = "none" => order[r] = "none" /\ r # exitLink /\ r \notin deleted
              /\ status[r] = "failed" => order[r] \in {"none", "canceled"} /\ filled[r] = 0
              /\ report[r] = "untouched" => status[r] = "failed" /\ r \notin deleted
          BY Zenon DEF ClaimsKnown
        <5> HIDE DEF OrdersOK, RowsOK
        <5> QED
          BY <3>1, <5>1, <5>2
      <4> QED
        BY <4>1, <4>2
    <3> QED
      BY <3>1, <3>2, <3>3 DEF ClaimsKnown, Arrived
  <2> QED
    BY <2>4, <2>5
<1>5. ASSUME NEW p \in Processes, AccountExit(p) PROVE ClaimsKnown'
  <2>1. exitLink' = exitLink \/ exitLink' = request[p]
    BY <1>5 DEF AccountExit
  <2>2. request[p] # NoRequest => order[request[p]] = "filled" /\ status[request[p]] # "none"
    BY Zenon, <1>5 DEF AccountExit, ResultsKnown, ResultKnown, OwnersKnown, OwnerKnown
  <2>3. UNCHANGED <<status, report, order, filled, deleted>>
    BY <1>5 DEF AccountExit, brokerVars
  <2>4. exitLink' # NoRequest => Arrived(exitLink') /\ status[exitLink'] # "none"
    <3>1. exitLink # NoRequest => Arrived(exitLink) /\ status[exitLink] # "none"
      BY DEF ClaimsKnown
    <3>2. request[p] # NoRequest => Arrived(request[p])
      BY <2>2 DEF Arrived
    <3> QED
      BY <2>1, <2>2, <3>1, <3>2
  <2>5. /\ \A r, q \in Requests : Active(r)' /\ Active(q)' => r = q
        /\ exitLink' # NoRequest => Arrived(exitLink)'
    BY <2>3, <2>4 DEF ClaimsKnown, Active, Arrived
  <2>6. ASSUME NEW r \in Requests
        PROVE  /\ status'[r] = "none" => order'[r] = "none" /\ r # exitLink' /\ r \notin deleted'
               /\ status'[r] = "failed" => order'[r] \in {"none", "canceled"} /\ filled'[r] = 0
               /\ report'[r] = "untouched" => status'[r] = "failed" /\ r \notin deleted'
    <3>1. /\ status[r] = "none" => order[r] = "none" /\ r # exitLink /\ r \notin deleted
          /\ status[r] = "failed" => order[r] \in {"none", "canceled"} /\ filled[r] = 0
          /\ report[r] = "untouched" => status[r] = "failed" /\ r \notin deleted
      BY Zenon DEF ClaimsKnown
    <3> HIDE DEF OrdersOK, RowsOK
    <3> QED
      BY <2>3, <2>4, <3>1, NoRequestAssumption
  <2> HIDE DEF OrdersOK, RowsOK
  <2> QED
    BY Zenon, <2>5, <2>6 DEF ClaimsKnown
<1>6. ASSUME NEW p \in Processes, CancelProtection(p) PROVE ClaimsKnown'
  <2>1. request[p] \in Requests /\ status[request[p]] = "claimed"
    BY <1>6 DEF CancelProtection, OwnersKnown, OwnerKnown, Unposted, Own
  <2> QED
    <3>1. UNCHANGED <<status, report, exitLink, order, filled>> /\ deleted' \in {deleted, deleted \cup {request[p]}}
      BY Zenon, <1>6 DEF CancelProtection, rowVars
    <3>2. report[request[p]] # "untouched"
      BY <2>1 DEF ClaimsKnown
    <3> QED
      BY <2>1, <3>1, <3>2 DEF ClaimsKnown, Active, Arrived
<1>7. ASSUME NEW p \in Processes, PostClose(p) PROVE ClaimsKnown'
  BY <1>7, PostsOwnClaim DEF ClaimsKnown, Active, Arrived
<1>8. ASSUME NEW r \in Requests, OrderArrives(r) PROVE ClaimsKnown'
  <2>1. UNCHANGED <<status, report, exitLink, deleted>>
    BY <1>8, BrokerAlone
  <2> QED
    BY <1>8, <2>1 DEF OrderArrives, ClaimsKnown, Active, Arrived
<1>9. ASSUME NEW r \in Requests, OrderEnds(r) PROVE ClaimsKnown'
  <2>1. UNCHANGED <<status, report, exitLink, deleted>>
    BY <1>9, BrokerAlone
  <2> QED
    BY <1>9, <2>1 DEF OrderEnds, ClaimsKnown, Active, Arrived
<1>10. ASSUME NEW r \in Requests, OrderFills(r) PROVE ClaimsKnown'
  <2>1. UNCHANGED <<status, report, exitLink, deleted>>
    BY <1>10, BrokerAlone
  <2> QED
    BY <1>10, <2>1 DEF OrderFills, ClaimsKnown, Active, Arrived
<1>11. CASE GuardFills \/ GuardEnds
  BY <1>11 DEF GuardFills, GuardEnds, rowVars, ClaimsKnown, Active, Arrived
<1> QED
  BY <1>1, <1>2, <1>3, <1>4, <1>5, <1>6, <1>7, <1>8, <1>9, <1>10, <1>11, StepKinds

-----------------------------------------------------------------------------
(* The owners of the claims. *)

\* Another process's claim survives a step that leaves its order and its row alone.
LEMMA OwnerKept ==
  ASSUME TasksOK, OwnersKnown, NEW p \in Processes, NEW q \in Processes \ {p}, OthersWait(p),
         \A r \in Requests : status[r] # "none" => status'[r] # "none",
         Unposted(q) => /\ status'[request[q]] = "claimed" /\ order'[request[q]] = "none"
                        /\ request'[p] # request[q]
  PROVE  OwnerKnown(q)'
<1>1. step'[q] = step[q] /\ request'[q] = request[q] /\ result'[q] = result[q]
  BY Zenon DEF OthersWait
<1>2. Unposted(q)' <=> Unposted(q)
  BY <1>1 DEF Unposted, Refused
<1>3. OwnerKnown(q) /\ request[q] \in Requests \cup {NoRequest}
  BY DEF OwnersKnown, TasksOK
<1>4. Unposted(q) => \A t \in Processes \ {q} : request'[t] # request'[q]
  BY <1>1, <1>3 DEF OwnerKnown, OthersWait
<1> QED
  BY Zenon, <1>1, <1>2, <1>3, <1>4 DEF OwnerKnown

\* In particular a step that changes no row and no order, and takes up no unposted request.
LEMMA OwnerUndisturbed ==
  ASSUME TasksOK, OwnersKnown, NEW p \in Processes, OthersWait(p), UNCHANGED <<status, order>>,
         request'[p] # request[p] /\ request'[p] # NoRequest => order[request'[p]] # "none",
         OwnerKnown(p)'
  PROVE  OwnersKnown'
<1> SUFFICES ASSUME NEW q \in Processes \ {p} PROVE OwnerKnown(q)'
  BY DEF OwnersKnown
<1>1. OwnerKnown(q) /\ (Unposted(q) => request[q] \in Requests)
  BY DEF OwnersKnown, OwnerKnown, Unposted, Refused, Own, Pending
<1>2. Unposted(q) => request'[p] # request[q]
  BY Zenon, <1>1, NoRequestAssumption DEF OwnerKnown
<1> QED
  BY Zenon, <1>1, <1>2, OwnerKept DEF OwnerKnown

\* The claim of an unposted request belongs to one process, whatever the others recover or
\* reconcile.
LEMMA OwnersNext ==
  ASSUME TasksOK, OrdersOK, RowsOK, TouchedOK, ResultsOK, ClaimsKnown, OwnersKnown, [Next]_vars
  PROVE  OwnersKnown'
<1> USE DEF TasksOK
<1>1. CASE NobodyMoves /\ UNCHANGED status /\ \A r \in Requests : order[r] = "none" => order'[r] = "none"
  <2> SUFFICES ASSUME NEW p \in Processes PROVE OwnerKnown(p)'
    BY DEF OwnersKnown
  <2>1. Unposted(p)' <=> Unposted(p)
    BY Zenon, <1>1 DEF NobodyMoves, Unposted, Refused
  <2>2. Unposted(p) => request[p] \in Requests
    BY DEF OwnersKnown, OwnerKnown, Unposted, Refused, Own, Pending
  <2> QED
    BY Zenon, <1>1, <2>1, <2>2 DEF NobodyMoves, OwnersKnown, OwnerKnown
<1>2. ASSUME NEW p \in Processes, CheckPosition(p) \/ AccountExit(p) PROVE OwnersKnown'
  <2>1. OwnerKnown(p)'
    <3>1. step'[p] \in {"idle", "claiming"} /\ request'[p] = NoRequest
      BY <1>2 DEF CheckPosition, AccountExit, OwnersKnown, OwnerKnown
    <3> QED
      BY <3>1 DEF OwnerKnown, Unposted, Refused, Own, Pending
  <2>2. UNCHANGED <<status, order>> /\ (request'[p] \in {request[p], NoRequest})
    BY <1>2 DEF CheckPosition, AccountExit, rowVars, brokerVars, OwnersKnown, OwnerKnown
  <2> QED
    BY Zenon, <1>2, <2>1, <2>2, OneAtATime, OwnerUndisturbed
<1>3. ASSUME NEW p \in Processes, ProcessCrashes(p) PROVE OwnersKnown'
  <2>1. OwnerKnown(p)'
    <3>1. step'[p] \in {"idle", "claiming"} /\ request'[p] = NoRequest
      BY <1>3 DEF ProcessCrashes
    <3> QED
      BY <3>1 DEF OwnerKnown, Unposted, Refused, Own, Pending
  <2>2. UNCHANGED <<status, order>> /\ (request'[p] \in {request[p], NoRequest})
    BY <1>3 DEF ProcessCrashes, rowVars, brokerVars
  <2> QED
    BY Zenon, <1>3, <2>1, <2>2, OneAtATime, OwnerUndisturbed
<1>4. ASSUME NEW p \in Processes, Checks(p) PROVE OwnersKnown'
  <2>1. OwnerKnown(p)'
    <3>1. step[p] \in Own /\ request[p] \in Requests /\ UNCHANGED <<status, order, request>>
      BY Zenon, <1>4 DEF Checks, Own, OwnersKnown, OwnerKnown
    <3>2. step'[p] \in Own \cup {"linking"}
      BY <1>4 DEF Checks
    <3> QED
      BY Zenon, <3>1, <3>2 DEF OwnersKnown, OwnerKnown, Unposted, Own
  <2>2. UNCHANGED <<status, order>> /\ (request'[p] \in {request[p], NoRequest})
    BY <1>4 DEF Checks
  <2> QED
    BY Zenon, <1>4, <2>1, <2>2, OneAtATime, OwnerUndisturbed
<1>5. ASSUME NEW p \in Processes, SaveLink(p) PROVE OwnersKnown'
  <2>1. OwnerKnown(p)'
    <3>1. step[p] = "linking" /\ step'[p] = "saving" /\ UNCHANGED <<status, order, request, result>>
      BY <1>5 DEF SaveLink, brokerVars
    <3> QED
      BY <3>1 DEF OwnersKnown, OwnerKnown, Unposted, Refused, Own, Pending
  <2>2. UNCHANGED <<status, order>> /\ (request'[p] \in {request[p], NoRequest})
    BY <1>5 DEF SaveLink, brokerVars
  <2> QED
    BY Zenon, <1>5, <2>1, <2>2, OneAtATime, OwnerUndisturbed
<1>6. ASSUME NEW p \in Processes,
             NEW r \in Requests, Learns(p, r), (r = request[p]) \/ (Active(r) /\ Arrived(r))
      PROVE  OwnersKnown'
  <2>0. request[p] # NoRequest => status[request[p]] # "none"
    BY Zenon DEF OwnersKnown, OwnerKnown
  <2>1. status[r] # "none"
    BY <1>6, <2>0, NoRequestAssumption DEF Active
  <2>2. step'[p] = "linking" /\ request'[p] = r /\ UNCHANGED <<status, order>>
    BY <1>6 DEF Learns
  <2>3. ~Refused(p)'
    BY <1>6 DEF Learns, Refused, ResultsOK
  <2>4. OwnerKnown(p)'
    BY <2>1, <2>2, <2>3, NoRequestAssumption DEF OwnerKnown, Unposted, Own
  <2>5. OthersWait(p)
    BY <1>6, OneAtATime
  <2> QED
    BY Zenon, <1>6, <2>2, <2>4, <2>5, OwnerUndisturbed DEF Arrived
<1>7. ASSUME NEW p \in Processes, ReconcilePosition(p) PROVE OwnersKnown'
  <2>1. request'[p] \in {NoRequest, exitLink} /\ step'[p] = "accounting" /\ UNCHANGED <<status, order>>
    BY <1>7 DEF ReconcilePosition, rowVars, brokerVars
  <2>2. exitLink # NoRequest => Arrived(exitLink) /\ status[exitLink] # "none"
    BY Zenon DEF ClaimsKnown, RowsOK
  <2>3. OwnerKnown(p)'
    BY Zenon, <2>1, <2>2 DEF OwnerKnown, Unposted, Refused, Own, Pending
  <2>4. OthersWait(p)
    BY <1>7, OneAtATime
  <2> QED
    BY Zenon, <2>1, <2>2, <2>3, <2>4, OwnerUndisturbed DEF Arrived
<1>8. ASSUME NEW p \in Processes, CancelProtection(p) PROVE OwnersKnown'
  <2>1. OwnerKnown(p)'
    <3>1. step[p] = "cancelling" /\ step'[p] = "confirming" /\ UNCHANGED <<status, order, request>>
      BY <1>8 DEF CancelProtection, Advance, rowVars
    <3> QED
      BY <3>1 DEF OwnersKnown, OwnerKnown, Unposted, Own
  <2>2. UNCHANGED <<status, order>> /\ (request'[p] \in {request[p], NoRequest})
    BY <1>8 DEF CancelProtection, rowVars
  <2> QED
    BY Zenon, <1>8, <2>1, <2>2, OneAtATime, OwnerUndisturbed
<1>9. ASSUME NEW p \in Processes, PostClose(p) PROVE OwnersKnown'
  <2>1. step[p] = "posting" /\ step'[p] = "awaiting" /\ UNCHANGED <<status, request>>
    BY <1>9 DEF PostClose, Advance, rowVars
  <2>2. OwnerKnown(p)'
    BY <2>1 DEF OwnersKnown, OwnerKnown, Unposted, Refused, Own, Pending
  <2>3. ASSUME NEW q \in Processes \ {p} PROVE OwnerKnown(q)'
    <3>1. Unposted(q) => request[q] \in Requests /\ request[p] # request[q]
      BY DEF OwnersKnown, OwnerKnown, Unposted, Refused, Own, Pending
    <3>2. Unposted(q) => order'[request[q]] = "none"
      BY <1>9, <3>1, PostsOwnClaim DEF OrdersOK, OwnersKnown, OwnerKnown
    <3>3. Unposted(q) => status'[request[q]] = "claimed"
      BY <2>1 DEF OwnersKnown, OwnerKnown
    <3> QED
      BY Zenon, <1>9, <2>1, <3>1, <3>2, <3>3, OneAtATime, OwnerKept
  <2> QED
    BY <2>2, <2>3 DEF OwnersKnown
<1>10. ASSUME NEW p \in Processes, SaveStatus(p) PROVE OwnersKnown'
  <2>1. /\ step[p] = "saving" /\ request[p] \in Requests /\ UNCHANGED order
        /\ step'[p] = "idle" /\ request'[p] = NoRequest
        /\ status' = status \/ status' = [status EXCEPT ![request[p]] = result[p].status]
    BY Zenon, <1>10 DEF SaveStatus, OwnersKnown, OwnerKnown, brokerVars
  <2>2. result[p].status # "none"
    BY DEF ResultsOK, Results, CloseRequestStatus
  <2>3. OwnerKnown(p)'
    BY <2>1 DEF OwnerKnown, Unposted, Refused, Own, Pending
  <2>4. ASSUME NEW q \in Processes \ {p} PROVE OwnerKnown(q)'
    <3>1. Unposted(q) => request[q] \in Requests /\ request[p] # request[q]
      BY DEF OwnersKnown, OwnerKnown, Unposted, Refused, Own, Pending
    <3>2. Unposted(q) => status'[request[q]] = "claimed" /\ order'[request[q]] = "none"
      BY <2>1, <3>1 DEF RowsOK, OwnersKnown, OwnerKnown
    <3>3. \A r \in Requests : status[r] # "none" => status'[r] # "none"
      BY <2>1, <2>2 DEF RowsOK
    <3> QED
      BY Zenon, <1>10, <2>1, <3>1, <3>2, <3>3, OneAtATime, OwnerKept, NoRequestAssumption
  <2> QED
    BY <2>3, <2>4 DEF OwnersKnown
<1>11. ASSUME NEW p \in Processes, ClaimCloseRequest(p) PROVE OwnersKnown'
  <2>0. OthersWait(p) /\ UNCHANGED order
    BY <1>11, OneAtATime DEF ClaimCloseRequest, brokerVars
  <2>1. CASE step'[p] = "idle" /\ UNCHANGED <<status, request>>
    <3>1. OwnerKnown(p)'
      BY Zenon, <1>11, <2>1 DEF ClaimCloseRequest, OwnersKnown, OwnerKnown, Unposted, Refused, Own, Pending
    <3> QED
      BY <2>0, <2>1, <3>1, OwnerUndisturbed
  <2>2. ASSUME NEW r \in Requests, status[r] = "none", status' = [status EXCEPT ![r] = "claimed"],
               request' = [request EXCEPT ![p] = r], step'[p] = "preflight"
        PROVE  OwnersKnown'
    <3>0. \A q \in Processes : request[q] # NoRequest => status[request[q]] # "none"
      BY Zenon DEF OwnersKnown, OwnerKnown
    <3>1. order[r] = "none" /\ \A q \in Processes : request[q] # r
      BY Zenon, <2>2, <3>0, NoRequestAssumption DEF ClaimsKnown
    <3>2. status'[r] = "claimed" /\ \A s \in Requests \ {r} : status'[s] = status[s]
      BY <2>2 DEF RowsOK
    <3>3. OwnerKnown(p)'
      BY <2>0, <2>2, <3>1, <3>2, NoRequestAssumption DEF OwnerKnown, Unposted, Refused, Own, Pending
    <3>4. ASSUME NEW q \in Processes \ {p} PROVE OwnerKnown(q)'
      <4>1. Unposted(q) => request[q] \in Requests \ {r} /\ status[request[q]] = "claimed" /\ order[request[q]] = "none"
        BY <3>1 DEF OwnersKnown, OwnerKnown, Unposted, Refused, Own, Pending
      <4>2. Unposted(q) => status'[request[q]] = "claimed" /\ order'[request[q]] = "none" /\ request'[p] # request[q]
        BY <2>0, <2>2, <3>1, <3>2, <4>1
      <4>3. \A s \in Requests : status[s] # "none" => status'[s] # "none"
        BY <3>2
      <4> QED
        BY Zenon, <2>0, <4>2, <4>3, OwnerKept
    <3> QED
      BY <3>3, <3>4 DEF OwnersKnown
  <2> QED
    BY <1>11, <2>1, <2>2 DEF ClaimCloseRequest
<1>a. ASSUME NobodyMoves, UNCHANGED <<status, report, exitLink, signal, accounted, deleted, faults>>
      PROVE  OwnersKnown'
  <2>1. \A r \in Requests : order[r] = "none" => order'[r] = "none"
    <3>1. ASSUME NEW p \in Processes, PostClose(p) PROVE FALSE
      BY <1>a, <3>1 DEF PostClose, Advance, NobodyMoves
    <3>2. CASE Private
      BY <3>2 DEF Private
    <3>3. ASSUME NEW r \in Requests, OrderArrives(r) \/ OrderFills(r) \/ OrderEnds(r)
          PROVE  \A s \in Requests : order[s] = "none" => order'[s] = "none"
      BY <3>3 DEF OrderArrives, OrderFills, OrderEnds, OrdersOK
    <3>4. ASSUME NEW p \in Processes,
                 ClaimCloseRequest(p) \/ SaveLink(p) \/ SaveStatus(p) \/ AccountExit(p) \/ CancelProtection(p)
          PROVE  UNCHANGED order
      BY Zenon, <3>4 DEF ClaimCloseRequest, SaveLink, SaveStatus, AccountExit, CancelProtection, brokerVars
    <3>5. CASE GuardFills \/ GuardEnds
      BY <3>5 DEF GuardFills, GuardEnds
    <3> QED
      BY <3>1, <3>2, <3>3, <3>4, <3>5, StepKinds
  <2> QED
    BY Zenon, <1>a, <1>1, <2>1
<1> QED
  BY Zenon, <1>1, <1>2, <1>3, <1>4, <1>5, <1>6, <1>7, <1>8, <1>9, <1>10, <1>11, <1>a, TaskKinds

-----------------------------------------------------------------------------
(* What is saved. *)

\* The broker's side only moves forward: an order that arrived stays arrived, and ends for good.
Forward ==
    /\ \A r \in Requests :
          /\ Arrived(r) => Arrived(r)'
          /\ order[r] = "filled" => order'[r] = "filled"
          /\ order[r] = "canceled" => order'[r] = "canceled" /\ filled'[r] = filled[r]
    /\ guard = "filled" => guard' = "filled"

\* No step takes an arrived order, its end or the bracket's fill back (get_order_by_client_id).
LEMMA BrokerForward ==
  ASSUME OrdersOK, OwnersKnown, [Next]_vars
  PROVE  Forward
<1> USE DEF OrdersOK
<1>1. CASE Private
  BY <1>1 DEF Private, Forward, Arrived
<1>2. ASSUME NEW p \in Processes, ClaimCloseRequest(p) \/ SaveLink(p) \/ SaveStatus(p) \/ AccountExit(p)
      PROVE  Forward
  BY Zenon, <1>2 DEF ClaimCloseRequest, SaveLink, SaveStatus, AccountExit, brokerVars, Forward, Arrived
<1>3. ASSUME NEW p \in Processes, CancelProtection(p) PROVE Forward
  BY Zenon, <1>3 DEF CancelProtection, GuardLive, Forward, Arrived
<1>4. ASSUME NEW p \in Processes, PostClose(p) PROVE Forward
  BY <1>4, PostsOwnClaim DEF Forward, Arrived
<1>5. ASSUME NEW r \in Requests, OrderArrives(r) PROVE Forward
  BY <1>5 DEF OrderArrives, Forward, Arrived
<1>6. ASSUME NEW r \in Requests, OrderFills(r) \/ OrderEnds(r) PROVE Forward
  BY <1>6 DEF OrderFills, OrderEnds, Forward, Arrived
<1>7. CASE GuardFills \/ GuardEnds
  BY <1>7 DEF GuardFills, GuardEnds, GuardLive, Forward, Arrived
<1> QED
  BY <1>1, <1>2, <1>3, <1>4, <1>5, <1>6, <1>7, StepKinds

\* What a process knows of its result survives the steps of the others.
LEMMA ResultKept ==
  ASSUME TasksOK, OwnersKnown, NEW p \in Processes, ResultKnown(p), Forward,
         step'[p] = step[p], request'[p] = request[p], result'[p] = result[p], touched'[p] = touched[p],
         deleted' = deleted \/ (\E q \in Processes \ {p} : Unposted(q) /\ deleted' = deleted \cup {request[q]})
  PROVE  ResultKnown(p)'
<1>1. step[p] \in Pending => request[p] \in Requests
  BY Zenon DEF OwnersKnown, OwnerKnown, Pending
<1>2. request[p] \in deleted' => request[p] \in deleted
  BY DEF OwnersKnown, OwnerKnown
<1>3. Refused(p)' <=> Refused(p)
  BY Zenon DEF Refused
<1>4. request[p] \in Requests \cup {NoRequest}
  BY DEF TasksOK
<1>5. step[p] \in Pending /\ result[p].id = "given" => Arrived(request[p])'
  BY Zenon, <1>1 DEF ResultKnown, Forward
<1>6. step[p] \in Pending =>
        /\ result[p].status = "completed" => order'[request[p]] = "filled"
        /\ result[p].status = "failed" /\ result[p].id = "given" =>
              order'[request[p]] = "canceled" /\ filled'[request[p]] = 0
  BY <1>1 DEF ResultKnown, Forward
<1>7. step[p] = "accounting" =>
        IF request[p] = NoRequest THEN guard' = "filled" ELSE order'[request[p]] = "filled"
  BY Zenon, <1>4 DEF ResultKnown, Forward
<1>8. step[p] \in Pending /\ result[p].says = "untouched" => Refused(p) /\ request[p] \notin deleted
  BY Zenon DEF ResultKnown
<1>9. step[p] \in Own /\ request[p] \in deleted => touched[p]
  BY DEF ResultKnown
<1> QED
  BY Zenon, <1>2, <1>3, <1>5, <1>6, <1>7, <1>8, <1>9 DEF ResultKnown, Arrived

\* So a step of process p has only its own result to answer for.
LEMMA OwnResult ==
  ASSUME TasksOK, OrdersOK, OwnersKnown, ResultsKnown, [Next]_vars, NEW p \in Processes, OthersWait(p),
         deleted' = deleted \/ (Unposted(p) /\ deleted' = deleted \cup {request[p]}),
         ResultKnown(p)'
  PROVE  ResultsKnown'
<1> SUFFICES ASSUME NEW q \in Processes \ {p} PROVE ResultKnown(q)'
  BY DEF ResultsKnown
<1> QED
  BY Zenon, BrokerForward, ResultKept DEF OthersWait, ResultsKnown

\* Between the answer and its two transactions, a result is overtaken by nothing that makes it false.
LEMMA ResultsKnownNext ==
  ASSUME TasksOK, OrdersOK, RowsOK, TouchedOK, ResultsOK, ClaimsKnown, OwnersKnown,
         ResultsKnown, [Next]_vars
  PROVE  ResultsKnown'
<1> USE DEF TasksOK
<1>1. CASE NobodyMoves /\ UNCHANGED deleted
  <2> SUFFICES ASSUME NEW q \in Processes PROVE ResultKnown(q)'
    BY DEF ResultsKnown
  <2> QED
    BY <1>1, BrokerForward, ResultKept DEF NobodyMoves, ResultsKnown
<1>2. ASSUME NEW p \in Processes, CheckPosition(p) \/ SaveStatus(p) \/ AccountExit(p) \/ ProcessCrashes(p)
      PROVE  ResultsKnown'
  <2>1. ResultKnown(p)'
    <3>1. step'[p] \in {"idle", "claiming"}
      BY <1>2 DEF CheckPosition, SaveStatus, AccountExit, ProcessCrashes
    <3> QED
      BY <3>1 DEF ResultKnown, Own, Pending
  <2>2. UNCHANGED deleted
    BY Zenon, <1>2 DEF CheckPosition, SaveStatus, AccountExit, ProcessCrashes, brokerVars
  <2> QED
    BY <1>2, <2>1, <2>2, OneAtATime, OwnResult
<1>3. ASSUME NEW p \in Processes, ClaimCloseRequest(p) PROVE ResultsKnown'
  <2>1. ResultKnown(p)'
    <3>1. CASE step'[p] = "idle"
      BY <3>1 DEF ResultKnown, Own, Pending
    <3>2. ASSUME NEW r \in Requests, status[r] = "none", request'[p] = r, step'[p] = "preflight"
          PROVE  ResultKnown(p)'
      <4>1. r \notin deleted /\ UNCHANGED deleted
        BY Zenon, <1>3, <3>2 DEF ClaimCloseRequest, ClaimsKnown, brokerVars
      <4> QED
        BY <3>2, <4>1 DEF ResultKnown, Own, Pending
    <3> QED
      BY <1>3, <3>1, <3>2 DEF ClaimCloseRequest
  <2>2. UNCHANGED deleted
    BY <1>3 DEF ClaimCloseRequest, brokerVars
  <2> QED
    BY <1>3, <2>1, <2>2, OneAtATime, OwnResult
<1>4. ASSUME NEW p \in Processes, Checks(p) PROVE ResultsKnown'
  <2>1. ResultKnown(p)'
    <3>1. step[p] \in Own /\ UNCHANGED <<request, deleted, touched>>
      BY <1>4 DEF Checks
    <3>2. request[p] \in deleted => touched[p]
      BY Zenon, <3>1 DEF ResultsKnown, ResultKnown
    <3>3. CASE step'[p] \in Own
      BY Zenon, <3>1, <3>2, <3>3 DEF ResultKnown, Own, Pending
    <3>4. CASE step'[p] \notin Own
      <4>1. PICK v : RefusalOf(v, p) /\ result' = [result EXCEPT ![p] = v]
        BY Zenon, <1>4, <3>4 DEF Checks
      <4>2. step'[p] = "linking"
        BY <1>4, <3>4 DEF Checks
      <4>3. result'[p] = v
        BY <4>1 DEF ResultsOK
      <4>4. /\ result'[p].id = "missing" /\ result'[p].status \in {"failed", "unknown"}
            /\ result'[p].says = "untouched" => ~touched[p] /\ result'[p].status = "failed"
        BY <4>1, <4>3 DEF RefusalOf
      <4>5. result'[p].says = "untouched" => Refused(p)' /\ request'[p] \notin deleted'
        BY <3>1, <3>2, <4>2, <4>4 DEF Refused, Pending
      <4> QED
        BY Zenon, <4>2, <4>4, <4>5 DEF ResultKnown, Own
    <3> QED
      BY <3>3, <3>4
  <2>2. UNCHANGED deleted
    BY <1>4 DEF Checks
  <2> QED
    BY <1>4, <2>1, <2>2, OneAtATime, OwnResult
<1>5. ASSUME NEW p \in Processes, CancelProtection(p) PROVE ResultsKnown'
  <2>1. step'[p] = "confirming" /\ UNCHANGED request /\ step[p] = "cancelling"
    BY <1>5 DEF CancelProtection, Advance
  <2>2. request[p] \in deleted => touched[p]
    BY <2>1 DEF ResultsKnown, ResultKnown, Own
  <2>3. request[p] \in deleted' => touched'[p]
    BY <1>5, <2>2 DEF CancelProtection, TouchedOK
  <2>4. ResultKnown(p)'
    BY <2>1, <2>3 DEF ResultKnown, Own, Pending
  <2>5. deleted' = deleted \/ (Unposted(p) /\ deleted' = deleted \cup {request[p]})
    BY <1>5 DEF CancelProtection, Unposted, Own
  <2> QED
    BY <1>5, <2>4, <2>5, OneAtATime, OwnResult
<1>6. ASSUME NEW p \in Processes, PostClose(p) PROVE ResultsKnown'
  <2>1. ResultKnown(p)'
    <3>1. step'[p] = "awaiting"
      BY <1>6 DEF PostClose, Advance
    <3> QED
      BY <3>1 DEF ResultKnown, Own, Pending
  <2>2. UNCHANGED deleted
    BY <1>6 DEF PostClose
  <2> QED
    BY <1>6, <2>1, <2>2, OneAtATime, OwnResult
<1>7. ASSUME NEW p \in Processes, NEW r \in Requests, Learns(p, r) PROVE ResultsKnown'
  <2>1. ResultKnown(p)'
    <3>1. PICK v \in Results : /\ TrueOf(v, r) /\ v.says # "untouched"
                               /\ result' = [result EXCEPT ![p] = v]
      BY Zenon, <1>7 DEF Learns
    <3>2. step'[p] = "linking" /\ request'[p] = r /\ UNCHANGED <<order, filled>>
      BY <1>7 DEF Learns
    <3>3. result'[p] = v
      BY <3>1 DEF ResultsOK
    <3> QED
      BY Zenon, <3>1, <3>2, <3>3 DEF ResultKnown, TrueOf, Arrived, Own
  <2>2. UNCHANGED deleted
    BY <1>7 DEF Learns
  <2> QED
    BY <1>7, <2>1, <2>2, OneAtATime, OwnResult
<1>8. ASSUME NEW p \in Processes, SaveLink(p) PROVE ResultsKnown'
  <2>1. ResultKnown(p)'
    <3>1. step[p] = "linking" /\ step'[p] = "saving" /\ UNCHANGED <<request, result, order, filled, deleted>>
      BY <1>8 DEF SaveLink, brokerVars
    <3> QED
      BY Zenon, <3>1 DEF ResultsKnown, ResultKnown, Refused, Own, Pending, Arrived
  <2>2. UNCHANGED deleted
    BY <1>8 DEF SaveLink, brokerVars
  <2> QED
    BY <1>8, <2>1, <2>2, OneAtATime, OwnResult
<1>9. ASSUME NEW p \in Processes, ReconcilePosition(p) PROVE ResultsKnown'
  <2>1. ResultKnown(p)'
    <3>1. /\ step'[p] = "accounting" /\ UNCHANGED <<guard, order>>
          /\ request'[p] = IF guard = "filled" THEN NoRequest ELSE exitLink
      BY <1>9 DEF ReconcilePosition, brokerVars
    <3>2. guard # "filled" => exitLink # NoRequest /\ order[exitLink] = "filled"
      BY <1>9 DEF ReconcilePosition, ExitEvidence
    <3> QED
      BY <3>1, <3>2 DEF ResultKnown, Own, Pending
  <2>2. UNCHANGED deleted
    BY <1>9 DEF ReconcilePosition, brokerVars
  <2> QED
    BY <1>9, <2>1, <2>2, OneAtATime, OwnResult
<1> QED
  BY <1>1, <1>2, <1>3, <1>4, <1>5, <1>6, <1>7, <1>8, <1>9, TaskKinds

\* close_position's WHERE clause accounts for one exit; afterwards nothing is left to sell.
LEMMA SignalNext ==
  ASSUME RowsOK, TasksOK, OrdersOK, SalesKnown, OneSeller, ResultsKnown, SignalKnown, [Next]_vars
  PROVE  SignalKnown'
<1> USE QuantityAssumption DEF OrdersOK
<1>1. CASE UNCHANGED <<signal, accounted, held>>
  BY <1>1 DEF SignalKnown
<1>2. ASSUME NEW p \in Processes, AccountExit(p) PROVE SignalKnown'
  <2>1. CASE OpenSignal
    <3>1. signal' = "CLOSED" /\ accounted' = accounted + 1 /\ signal = "EXECUTED" /\ UNCHANGED held
      BY <1>2, <2>1 DEF AccountExit, OpenSignal, RowsOK, brokerVars
    <3>2. (request[p] = NoRequest /\ guard = "filled") \/ (request[p] # NoRequest /\ order[request[p]] = "filled")
      BY Zenon, <1>2 DEF AccountExit, ResultsKnown, ResultKnown
    <3>3. CASE guard = "filled"
      <4>1. guardFilled = Quantity /\ (guardFilled > 0 => held = Quantity - guardFilled)
        BY <3>3 DEF SalesKnown
      <4>2. held = 0
        BY <4>1
      <4> QED
        BY <3>1, <4>2 DEF SignalKnown
    <3>4. CASE request[p] # NoRequest /\ order[request[p]] = "filled"
      <4>1. request[p] \in Requests
        BY <3>4 DEF TasksOK
      <4>2. filled[request[p]] = Quantity /\ (filled[request[p]] > 0 => held = Quantity - filled[request[p]])
        BY <3>4, <4>1 DEF SalesKnown
      <4>3. held = 0
        BY <4>2
      <4> QED
        BY <3>1, <4>3 DEF SignalKnown
    <3> QED
      BY <3>2, <3>3, <3>4
  <2>2. CASE ~OpenSignal
    BY <1>2, <2>2 DEF AccountExit, OpenSignal, SignalKnown, brokerVars
  <2> QED
    BY <2>1, <2>2
<1>3. ASSUME NEW r \in Requests, OrderFills(r) PROVE SignalKnown'
  <2>1. guardFilled = 0 /\ \A q \in Requests \ {r} : filled[q] = 0
    BY <1>3 DEF OrderFills, OneSeller, Live
  <2>2. filled[r] < Quantity /\ held = Quantity - filled[r]
    BY <1>3, <2>1 DEF OrderFills, SalesKnown
  <2>3. held # 0
    BY <2>2
  <2> QED
    BY <1>3, <2>3 DEF OrderFills, SignalKnown, rowVars
<1>4. CASE GuardFills
  <2>1. \A r \in Requests : order[r] = "none" /\ filled[r] = 0
    BY <1>4 DEF GuardFills, OneSeller, SalesKnown
  <2>2. guardFilled < Quantity /\ held = Quantity - guardFilled
    BY <1>4, <2>1 DEF GuardFills, SalesKnown
  <2>3. held # 0
    BY <2>2
  <2> QED
    BY <1>4, <2>3 DEF GuardFills, SignalKnown, rowVars
<1>5. ASSUME NEW p \in Processes,
             ClaimCloseRequest(p) \/ SaveLink(p) \/ SaveStatus(p) \/ CancelProtection(p) \/ PostClose(p)
      PROVE  SignalKnown'
  BY Zenon, <1>5, <1>1 DEF ClaimCloseRequest, SaveLink, SaveStatus, CancelProtection, PostClose, brokerVars, rowVars
<1>6. ASSUME NEW r \in Requests, OrderArrives(r) \/ OrderEnds(r) PROVE SignalKnown'
  BY <1>6, <1>1 DEF OrderArrives, OrderEnds, rowVars
<1>7. CASE GuardEnds
  BY <1>7, <1>1 DEF GuardEnds, rowVars
<1>8. CASE Private
  BY <1>8, <1>1 DEF Private
<1> QED
  BY <1>1, <1>2, <1>3, <1>4, <1>5, <1>6, <1>7, <1>8, StepKinds

-----------------------------------------------------------------------------
(* The theorems. *)

\* A protected position, no request and idle processes.
LEMMA CloseInit == Init => CloseInv
<1> SUFFICES ASSUME Init PROVE CloseInv
  OBVIOUS
<1> USE NoRequestAssumption, QuantityAssumption, MaxFaultsAssumption DEF Init
<1>1. RowsOK /\ OrdersOK
  BY DEF RowsOK, OrdersOK
<1>2. TasksOK /\ TouchedOK
  BY DEF TasksOK, TouchedOK, Steps
<1>3. ResultsOK
  BY DEF ResultsOK, NoResult, Results, CloseRequestStatus
<1>4. SalesKnown /\ OneSeller
  BY DEF SalesKnown, OneSeller, Live, GuardLive
<1>5. ClearWhilePosting /\ ClaimsKnown
  BY DEF ClearWhilePosting, ClaimsKnown, Active, Arrived
<1>6. OwnersKnown
  BY DEF OwnersKnown, OwnerKnown, Unposted, Refused, Own, Pending
<1>7. ResultsKnown /\ SignalKnown
  BY DEF ResultsKnown, ResultKnown, SignalKnown, Own, Pending
<1> QED
  BY <1>1, <1>2, <1>3, <1>4, <1>5, <1>6, <1>7, TypeSplit DEF CloseInv

\* What the rows, the processes and the broker know of each other holds in every reachable
\* state, whatever crashes or overtakes (submit_position_close, recover, reconcile_positions).
THEOREM CloseInductive == Spec => []CloseInv
<1>1. CloseInv /\ [Next]_vars => CloseInv'
  <2> SUFFICES ASSUME CloseInv, [Next]_vars PROVE CloseInv'
    OBVIOUS
  <2>0. /\ RowsOK /\ TasksOK /\ OrdersOK /\ TouchedOK /\ ResultsOK /\ SalesKnown /\ OneSeller
        /\ ClearWhilePosting /\ ClaimsKnown /\ OwnersKnown /\ ResultsKnown /\ SignalKnown
    BY TypeSplit DEF CloseInv
  <2>1. RowsOK' /\ TasksOK' /\ OrdersOK' /\ TouchedOK' /\ ResultsOK'
    BY <2>0, RowsNext, TasksNext, OrdersNext
  <2>2. TypeOK'
    BY <2>1 DEF TypeOK, RowsOK, TasksOK, OrdersOK, TouchedOK, ResultsOK
  <2>3. SalesKnown' /\ OneSeller' /\ ClearWhilePosting'
    BY <2>0, SalesNext, OneSellerNext, ClearNext
  <2>4. ClaimsKnown' /\ OwnersKnown'
    BY <2>0, ClaimsNext, OwnersNext
  <2>5. ResultsKnown' /\ SignalKnown'
    BY <2>0, ResultsKnownNext, SignalNext
  <2> QED
    BY <2>2, <2>3, <2>4, <2>5 DEF CloseInv
<1> QED
  BY <1>1, CloseInit, PTL DEF Spec

\* For any position size and any number of processes and requests, at most one order can still
\* sell, and never more than the account holds (submit_position_close, claim_close_request).
THEOREM SalesAreCovered == Spec => []SellsCovered
<1>1. CloseInv => SellsCovered
  <2> SUFFICES ASSUME CloseInv PROVE SellsCovered
    OBVIOUS
  <2>0. OrdersOK /\ SalesKnown /\ OneSeller
    BY TypeSplit DEF CloseInv
  <2> USE <2>0, QuantityAssumption DEF OrdersOK
  <2>1. ASSUME NEW r \in Requests, Live(r)
        PROVE  ~GuardLive /\ Quantity - filled[r] <= held /\ \A q \in Requests \ {r} : ~Live(q)
    <3>1. /\ ~GuardLive /\ guardFilled = 0
          /\ \A q \in Requests \ {r} : ~Live(q) /\ filled[q] = 0
      BY <2>1 DEF OneSeller
    <3>2. held = Quantity - filled[r]
      BY <3>1 DEF SalesKnown
    <3> QED
      BY <3>1, <3>2
  <2>2. GuardLive => Quantity - guardFilled <= held
    <3>1. GuardLive => \A r \in Requests : filled[r] = 0
      BY Zenon DEF OneSeller, SalesKnown
    <3> QED
      BY <3>1 DEF SalesKnown
  <2>3. held >= 0
    <3>1. CASE guardFilled > 0
      BY <3>1 DEF SalesKnown
    <3>2. CASE \E r \in Requests : filled[r] > 0
      BY <3>2 DEF SalesKnown
    <3>3. CASE guardFilled = 0 /\ \A r \in Requests : filled[r] = 0
      BY <3>3 DEF SalesKnown
    <3> QED
      BY <3>1, <3>2, <3>3
  <2> QED
    BY <2>1, <2>2, <2>3 DEF SellsCovered
<1> QED
  BY <1>1, CloseInductive, PTL

\* What the rows record is true: one exit of the whole quantity per closed signal, failed
\* requests that sold nothing, and no false report of untouched protection (_save_result,
\* db.close_position, cancellation_attempts).
THEOREM RecordsAreTrue == Spec => []CloseIsTrue
<1>1. CloseInv => CloseIsTrue
  BY DEF CloseInv, SignalKnown, ClaimsKnown, Live, CloseIsTrue
<1> QED
  BY <1>1, CloseInductive, PTL

\* What the last checks of submit_position_close saw is what the POST meets: a full position, no
\* protective order and no other close.
THEOREM ChecksStayGood == Spec => []ClearWhilePosting
<1>1. CloseInv => ClearWhilePosting
  BY DEF CloseInv
<1> QED
  BY <1>1, CloseInductive, PTL
=============================================================================

-------------------------- MODULE OrderProjection --------------------------
(***************************************************************************)
(* The broker order journal and its projection for one order:              *)
(* observe_orders, _project_order and rebuild_order_views of               *)
(* storage/workflow.py, with the signal whose entry the order is.          *)
(* REST snapshots (observe_orders and read_entry_group of the broker) and  *)
(* stream events describe versions of the order; they may be applied late, *)
(* twice and in any order, by the monitor, the stream handler, the         *)
(* lifetime service and other processes.                                   *)
(***************************************************************************)
EXTENDS Naturals, Sequences

CONSTANTS
    Quantity,       \* the order's quantity
    MaxVersions     \* bound on the order's changes at the broker

ASSUME QuantityAssumption == Quantity \in Nat

VARIABLES
    versions,       \* the order at the broker: its versions, oldest first
    journal,        \* ORDER_OBSERVED events of the order; the index is the event id
    view,           \* OrderProjectionRecord: event id and payload, or NoView
    signal,         \* SignalRecord.status
    executed_at     \* SignalRecord.executed_at: "none" or "set"

orderVars == <<versions, journal, view, signal, executed_at>>

LiveStatus == {"new", "partially_filled", "pending_cancel"}
BROKER_TERMINAL_STATUSES == {"canceled", "rejected", "expired"}

NoView == [event |-> 0]

Order == versions[Len(versions)]

Parents == {"none", "known"}

\* What a read or a stream event of a version yields; for a bracket leg only nested REST
\* reads and read_entry_group know the parent order.
Observation(version, parent) ==
    [at |-> version.at, filled |-> version.filled, status |-> version.status, parent |-> parent]

VersionType ==
    [at : Nat, filled : 0..Quantity, status : LiveStatus \cup BROKER_TERMINAL_STATUSES \cup {"filled"}]

OrderTypeOK ==
    /\ versions \in Seq(VersionType) /\ versions # <<>>
    /\ \A k \in DOMAIN journal :
          \E n \in DOMAIN versions, parent \in Parents : journal[k] = Observation(versions[n], parent)
    /\ view = NoView \/ (view.event \in DOMAIN journal /\ view.obs.at = journal[view.event].at)
    /\ signal \in {"SUBMITTING", "EXECUTED", "FAILED"}
    /\ executed_at \in {"none", "set"}

OrderInit ==
    /\ versions = <<[at |-> 0, filled |-> 0, status |-> "new"]>>
    /\ journal = <<>>
    /\ view = NoView
    /\ signal = "SUBMITTING"
    /\ executed_at = "none"

-----------------------------------------------------------------------------
(* The broker. *)

\* A fill, a pending cancellation or an end; a fill of the whole quantity is final.  Two
\* versions may carry the same updated_at.
OrderChanges ==
    /\ Len(versions) < MaxVersions
    /\ Order.status \in LiveStatus
    /\ \E tick \in {0, 1}, status \in LiveStatus \cup {"canceled"}, fill \in {0, 1} :
          /\ Order.filled + fill <= Quantity
          /\ status = "new" => Order.status = "new" /\ Order.filled + fill = 0
          /\ status = "partially_filled" => Order.filled + fill > 0
          /\ status = "canceled" => fill = 0
          /\ versions' = Append(versions,
                [at |-> Order.at + tick,
                 filled |-> Order.filled + fill,
                 status |-> IF Order.filled + fill = Quantity THEN "filled" ELSE status])
          /\ versions'[Len(versions')] # Order
    /\ UNCHANGED <<journal, view, signal, executed_at>>

-----------------------------------------------------------------------------
(* The journal. *)

\* A known parent link survives an observation without one.
WithParent(o, old) == IF o.parent = "none" THEN [o EXCEPT !.parent = old.parent] ELSE o

\* Mutants: the event id is not compared; neither the time nor the cumulative quantity is.
ProjectAnyEvent(v, id, o) ==
    IF v = NoView THEN [event |-> id, obs |-> o]
    ELSE IF o.at < v.obs.at \/ o.filled < v.obs.filled THEN v
    ELSE [event |-> id, obs |-> WithParent(o, v.obs)]
ProjectAnyTime(v, id, o) ==
    IF v = NoView THEN [event |-> id, obs |-> o]
    ELSE IF id <= v.event THEN v
    ELSE [event |-> id, obs |-> o]

\* _project_order: keep the view unless the event is newer in every respect.
Project(v, id, o) ==
    IF v = NoView THEN [event |-> id, obs |-> o]
    ELSE IF id <= v.event \/ o.at < v.obs.at \/ o.filled < v.obs.filled THEN v
    ELSE [event |-> id, obs |-> WithParent(o, v.obs)]

\* Mutants: fills are ignored; only a changed projection is acted on.
ReleasesFilled(v) == v.obs.status \in BROKER_TERMINAL_STATUSES /\ signal = "EXECUTED" /\ executed_at = "none"
ReleasesOnChange(v) ==
    /\ v # view
    /\ v.obs.status \in BROKER_TERMINAL_STATUSES /\ v.obs.filled = 0
    /\ signal = "EXECUTED" /\ executed_at = "none"

Releases(v) ==
    /\ v.obs.status \in BROKER_TERMINAL_STATUSES /\ v.obs.filled = 0
    /\ signal = "EXECUTED" /\ executed_at = "none"

\* The journal's key is the hash of the payload: a repeated payload finds its event.
\* An unresolved cancellation of the symbol, which another service owns, defers the release.
ObserveOrder(version, parent, cancelling) ==
    LET o == Observation(version, parent)
        known == \E k \in DOMAIN journal : journal[k] = o
        id == IF known THEN CHOOSE k \in DOMAIN journal : journal[k] = o ELSE Len(journal) + 1
        v == Project(view, id, o)
    IN /\ journal' = IF known THEN journal ELSE Append(journal, o)
       /\ view' = v
       /\ signal' = IF Releases(v) /\ ~cancelling THEN "FAILED" ELSE signal
       /\ UNCHANGED <<versions, executed_at>>

\* What rebuild_order_views computes from the journal alone.
Replay ==
    LET replayed[n \in 0..Len(journal)] ==
            IF n = 0 THEN NoView ELSE Project(replayed[n - 1], n, journal[n])
    IN replayed[Len(journal)]

RebuildOrderViews ==
    /\ view' = Replay
    /\ UNCHANGED <<versions, journal, signal, executed_at>>

-----------------------------------------------------------------------------
(* The signal. *)

\* resolve_entry with an accepted result links the order to the signal.
EntryAccepted ==
    /\ signal = "SUBMITTING"
    /\ signal' = "EXECUTED"
    /\ UNCHANGED <<versions, journal, view, executed_at>>

\* sync_entry_executions and update_signal_execution: the whole quantity is filled.
SyncEntryExecution ==
    /\ signal = "EXECUTED" /\ executed_at = "none"
    /\ Order.status = "filled"
    /\ executed_at' = "set"
    /\ UNCHANGED <<versions, journal, view, signal>>

OrderNext ==
    \/ OrderChanges
    \/ \E n \in DOMAIN versions, parent \in Parents, cancelling \in BOOLEAN :
          ObserveOrder(versions[n], parent, cancelling)
    \/ RebuildOrderViews \/ EntryAccepted \/ SyncEntryExecution

OrderSpec == OrderInit /\ [][OrderNext]_orderVars

\* The monitor keeps polling the tracked order, resolves the entry, and a cancellation of
\* the symbol does not stay unresolved.
OrderFairness ==
    /\ WF_orderVars(EntryAccepted)
    /\ WF_orderVars(ObserveOrder(Order, "none", FALSE))

FairOrderSpec == OrderSpec /\ OrderFairness

-----------------------------------------------------------------------------
(* Properties. *)

\* Replaying the journal gives the projection that was maintained event by event, whatever
\* duplicates and stale observations were applied: rebuild_order_views changes nothing.
RebuildAgrees == OrderTypeOK /\ view = Replay

\* The reservation is released only if the order really ended without a fill, however
\* stale the observation that released it: no later fill can surface.
FailedOnlyUnfilled ==
    signal = "FAILED" => Order.status \in BROKER_TERMINAL_STATUSES /\ Order.filled = 0 /\ executed_at = "none"

\* The stored projection and the reservation it decides on are what the journal and the broker
\* say (observe_orders, rebuild_order_views).
ProjectionIsTrue == RebuildAgrees /\ FailedOnlyUnfilled

\* No step, a rebuild included, moves the projection back in time or quantity or loses
\* the link to the parent order.
NeverRollsBack ==
    [][view # NoView =>
          /\ view'.obs.at >= view.obs.at
          /\ view'.obs.filled >= view.obs.filled
          /\ view.obs.parent = "known" => view'.obs.parent = "known"]_orderVars

\* An accepted entry whose order ended without a fill is released, even when its end was
\* journalled before resolve_entry linked the order to the signal (observe_orders).  The
\* broker's updated_at must tell the versions apart: on a tie a stale read may be kept.
DeadEntryReleased ==
    (/\ signal = "EXECUTED" /\ Order.status \in BROKER_TERMINAL_STATUSES /\ Order.filled = 0
     /\ \A n \in 2..Len(versions) : versions[n - 1].at < versions[n].at)
        ~> signal = "FAILED"

=============================================================================

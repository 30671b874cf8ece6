--------------------------- MODULE TrailingStops ---------------------------
(***************************************************************************)
(* The trailing stop of a long equity position: manage_trailing_stops of   *)
(* agent/copilot.py, modify_order_stop of broker/alpaca.py and             *)
(* update_position_stop of storage/db.py.  The broker replaces the resting *)
(* stop asynchronously, may reject the replacement, and may fill or cancel *)
(* the stop at any time; a request whose reply was lost may still arrive.  *)
(* Prices are in half cents, the unit of a stop at the broker is the cent. *)
(* The desk's cycles run one at a time, under the reconciliation lock.     *)
(***************************************************************************)
EXTENDS Integers, Sequences

CONSTANTS
    Prices,             \* last prices the data fetcher may return
    EntryPrice,
    InitialStop,        \* the card's stop, a computed price and not rounded, below EntryPrice
    BreakevenTrigger,   \* breakeven_trigger_r and trail_trigger_r, times the initial risk
    BreakevenBuffer,
    TrailTrigger,
    TrailDistance,
    TrailStep,
    MaxStops            \* bound on stop orders at the broker

ASSUME TrailAssumption ==
    /\ Prices \subseteq Int
    /\ {EntryPrice, InitialStop, BreakevenTrigger, BreakevenBuffer, TrailTrigger, TrailDistance, TrailStep} \subseteq Int

VARIABLES
    alphaPolicy,        \* the position trails by an alpha's policy
    recorded,           \* stop_loss of the signal
    stops,              \* the broker's stop orders, the bracket's leg first
    patches,            \* replacement requests on their way
    cycle               \* the cycle under way for this position

trailVars == <<alphaPolicy, recorded, stops, patches, cycle>>

NoStop == 0
NoCycle == [step |-> "idle", target |-> 0, order |-> NoStop]

\* _price rounds to the cent, halves to even.
_price(p) ==
    IF p % 2 = 0 THEN p ELSE IF (p - 1) % 4 = 0 THEN p - 1 ELSE p + 1

\* The target of a cycle: breakeven, then the trail where it gains more than the step; an
\* alpha's trailing_price instead of both.
NativeTarget(current, stop) ==
    LET breakeven == EntryPrice + BreakevenBuffer
        first == IF current - EntryPrice >= BreakevenTrigger /\ breakeven > stop THEN breakeven ELSE stop
        trail == current - TrailDistance
    IN  IF current - EntryPrice >= TrailTrigger /\ trail - first > TrailStep THEN trail ELSE first

trailing_price(current, stop) ==
    IF current - EntryPrice >= TrailTrigger /\ current - TrailDistance > stop
    THEN current - TrailDistance ELSE stop

-----------------------------------------------------------------------------
(* The broker's side. *)

\* _current_order: the replacement links followed from an order to the one in force.
Current(i) ==
    LET next[j \in DOMAIN stops] ==
            IF stops[j].replaced_by = NoStop THEN j ELSE next[stops[j].replaced_by]
    IN  next[i]

InForce == Current(1)

\* Mutant: an accepted replacement counts as resting.
WorkingOrAccepted(status) == status \in {"new", "pending_new"}

\* NEW and HELD: the statuses that the desk takes for a resting stop.
Working(status) == status = "new"

\* The card's stop is recorded as it was computed; the bracket's leg is posted at the cent.
TrailInit ==
    /\ alphaPolicy \in BOOLEAN
    /\ recorded = InitialStop
    /\ stops = <<[price |-> _price(InitialStop), status |-> "new", replaced_by |-> NoStop]>>
    /\ patches = {}
    /\ cycle = NoCycle

\* The broker takes a replacement of a resting stop and answers with the new order; the reply
\* may be lost, and a request of an earlier cycle has nobody waiting for it.
PatchAccepted(r) ==
    /\ r \in patches /\ stops[r.order].status = "new" /\ Len(stops) < MaxStops
    /\ patches' = patches \ {r}
    /\ stops' = Append([stops EXCEPT ![r.order].status = "pending_replace"],
                       [price |-> r.price, status |-> "pending_new", replaced_by |-> NoStop])
    /\ \/ cycle' = cycle
       \/ /\ cycle.step = "patching" /\ cycle.order = r.order /\ _price(cycle.target) = r.price
          /\ cycle' = [cycle EXCEPT !.step = "polling", !.order = Len(stops) + 1]
    /\ UNCHANGED <<alphaPolicy, recorded>>

PatchLost(r) ==
    /\ r \in patches
    /\ patches' = patches \ {r}
    /\ UNCHANGED <<alphaPolicy, recorded, stops, cycle>>

\* A pending replacement takes the place of its order, or is rejected and the order stands.
Replacement(i, j) ==
    /\ stops[i].status = "pending_replace" /\ j = Len(stops) /\ stops[j].status = "pending_new"
    /\ stops' = [stops EXCEPT ![i].status = "replaced", ![i].replaced_by = j, ![j].status = "new"]
    /\ UNCHANGED <<alphaPolicy, recorded, patches, cycle>>

ReplacementRejected(i, j) ==
    /\ stops[i].status = "pending_replace" /\ j = Len(stops) /\ stops[j].status = "pending_new"
    /\ stops' = [stops EXCEPT ![i].status = "new", ![j].status = "rejected"]
    /\ UNCHANGED <<alphaPolicy, recorded, patches, cycle>>

\* The stop triggers, or a close of the position cancels it; a replacement under way goes with it.
StopEnds(i) ==
    /\ i = InForce /\ stops[i].status \in {"new", "pending_replace"}
    /\ \E end \in {"filled", "canceled"} :
          stops' = [j \in DOMAIN stops |->
                IF j = i THEN [stops[j] EXCEPT !.status = end]
                ELSE IF stops[j].status = "pending_new" THEN [stops[j] EXCEPT !.status = "canceled"]
                ELSE stops[j]]
    /\ UNCHANGED <<alphaPolicy, recorded, patches, cycle>>

-----------------------------------------------------------------------------
(* The desk's cycle. *)

\* manage_trailing_stops up to the call: the tracked stop, a price, and a target that differs.
manage_trailing_stops ==
    /\ cycle = NoCycle
    /\ \E current \in Prices :
          LET target == IF alphaPolicy THEN trailing_price(current, recorded)
                        ELSE NativeTarget(current, recorded)
          IN  /\ target # recorded
              /\ cycle' = [step |-> "reading", target |-> target, order |-> NoStop]
    /\ UNCHANGED <<alphaPolicy, recorded, stops, patches>>

\* Mutant: any other price replaces the stop.
TighterAny(price, current) == price # current

\* modify_order_stop: a stop that is not resting is left alone; one that is as tight already is
\* the confirmed one; a looser one is replaced.
Tighter(price, current) == price > current

ReadStop ==
    /\ cycle.step = "reading"
    /\ LET i == InForce
           price == _price(cycle.target)
       IN  IF ~ Working(stops[i].status)
           THEN cycle' = NoCycle /\ UNCHANGED patches
           ELSE IF Tighter(price, stops[i].price)
           THEN /\ cycle' = [cycle EXCEPT !.step = "patching", !.order = i]
                /\ patches' = patches \cup {[order |-> i, price |-> price]}
           ELSE /\ cycle' = [cycle EXCEPT !.step = "saving", !.target = stops[i].price]
                /\ UNCHANGED patches
    /\ UNCHANGED <<alphaPolicy, recorded, stops>>

\* The read back: the replacement rests at the price asked for, or it ended; else it is read again.
PollStop ==
    /\ cycle.step = "polling"
    /\ LET stop == stops[Current(cycle.order)] IN
       \/ /\ Working(stop.status) /\ stop.price = _price(cycle.target)
          /\ cycle' = [cycle EXCEPT !.step = "saving", !.target = stop.price]
       \/ /\ stop.status \in {"filled", "canceled", "rejected"}
          /\ cycle' = NoCycle
    /\ UNCHANGED <<alphaPolicy, recorded, stops, patches>>

\* update_position_stop: the confirmed price, never a looser one than the recorded.
update_position_stop ==
    /\ cycle.step = "saving"
    /\ recorded' = IF recorded < cycle.target THEN cycle.target ELSE recorded
    /\ cycle' = NoCycle
    /\ UNCHANGED <<alphaPolicy, stops, patches>>

\* An exception, the deadline of the read back, or the end of the process: what was asked of
\* the broker stays asked.
CycleFails ==
    /\ cycle # NoCycle
    /\ cycle' = NoCycle
    /\ UNCHANGED <<alphaPolicy, recorded, stops, patches>>

TrailNext ==
    \/ \E r \in patches : PatchAccepted(r) \/ PatchLost(r)
    \/ \E i, j \in DOMAIN stops : Replacement(i, j) \/ ReplacementRejected(i, j)
    \/ \E i \in DOMAIN stops : StopEnds(i)
    \/ manage_trailing_stops \/ ReadStop \/ PollStop \/ update_position_stop \/ CycleFails

TrailSpec == TrailInit /\ [][TrailNext]_trailVars

-----------------------------------------------------------------------------
(* Properties. *)

\* An order at `price` makes a recorded stop good: the stop is no tighter, or it is the card's own,
\* which the bracket posted at the cent.
Covers(price, stop) == stop <= price \/ (stop = InitialStop /\ _price(stop) <= price)

\* "saving only acknowledged broker stop prices": the stop in force at the broker makes good the
\* recorded one, on which the desk reckons its open risk, to the cent for the card's stop and
\* exactly for one that a cycle saved; and neither is ever loosened, whatever was lost, late or
\* rejected (manage_trailing_stops, modify_order_stop).
ProtectionRatchets ==
    [][ /\ Covers(stops'[InForce'].price, recorded')
        /\ recorded' >= recorded
        /\ stops'[InForce'].price >= stops[InForce].price ]_trailVars
=============================================================================

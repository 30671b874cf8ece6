------------------------- MODULE EntryReservation -------------------------
(***************************************************************************)
(* What the entry queue promises about each card, with no queue, lease,    *)
(* worker or lookup: authorization reserves capacity, the reservation      *)
(* carries a single authority to send an order, and capacity is released   *)
(* only while no order can exist.                                          *)
(***************************************************************************)
CONSTANT Signals

VARIABLES
    reservation,    \* the card's claim on capacity
    authority,      \* the authority to send its order
    exposure        \* what the broker may hold for it

avars == <<reservation, authority, exposure>>

ReservationTypeOK ==
    /\ reservation \in [Signals -> {"open", "withdrawn", "reserved", "placed", "released"}]
    /\ authority \in [Signals -> {"unused", "spent"}]
    /\ exposure \in [Signals -> {"none", "possible", "live", "over"}]

AInit ==
    /\ reservation = [s \in Signals |-> "open"]
    /\ authority = [s \in Signals |-> "unused"]
    /\ exposure = [s \in Signals |-> "none"]

\* The card expires, is replaced or is dismissed before anyone authorizes it.
Withdraw(s) ==
    /\ reservation[s] = "open"
    /\ reservation' = [reservation EXCEPT ![s] = "withdrawn"]
    /\ UNCHANGED <<authority, exposure>>

Reserve(s) ==
    /\ reservation[s] = "open"
    /\ reservation' = [reservation EXCEPT ![s] = "reserved"]
    /\ UNCHANGED <<authority, exposure>>

\* The authority is spent once, while no other card's order may be on its way.
Commit(s) ==
    /\ reservation[s] = "reserved"
    /\ authority[s] = "unused"
    /\ \A t \in Signals : exposure[t] # "possible"
    /\ authority' = [authority EXCEPT ![s] = "spent"]
    /\ exposure' = [exposure EXCEPT ![s] = "possible"]
    /\ UNCHANGED reservation

\* What may be on its way arrives, or never will.
Settle(s) ==
    /\ exposure[s] = "possible"
    /\ \E e \in {"none", "live", "over"} : exposure' = [exposure EXCEPT ![s] = e]
    /\ UNCHANGED <<reservation, authority>>

\* Orders end unfilled at the broker; one request may cancel several.
End(S) ==
    /\ \A s \in S : exposure[s] = "live"
    /\ exposure' = [s \in Signals |-> IF s \in S THEN "over" ELSE exposure[s]]
    /\ UNCHANGED <<reservation, authority>>

Place(s) ==
    /\ reservation[s] = "reserved"
    /\ exposure[s] \in {"live", "over"}
    /\ reservation' = [reservation EXCEPT ![s] = "placed"]
    /\ UNCHANGED <<authority, exposure>>

Release(s) ==
    /\ reservation[s] \in {"reserved", "placed"}
    /\ exposure[s] \in {"none", "over"}
    /\ reservation[s] = "placed" => exposure[s] = "over"
    /\ reservation' = [reservation EXCEPT ![s] = "released"]
    /\ UNCHANGED <<authority, exposure>>

ANext ==
    \/ \E s \in Signals : Withdraw(s) \/ Reserve(s) \/ Commit(s) \/ Settle(s) \/ Place(s) \/ Release(s)
    \/ \E S \in SUBSET Signals : End(S)

ASpec == AInit /\ [][ANext]_avars

=============================================================================

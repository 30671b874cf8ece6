---------------------------- MODULE ReleaseExit ----------------------------
(***************************************************************************)
(* The release exit of execution/release_exit.py on one trading day: a     *)
(* pass journaled once, then one close per position that reports before    *)
(* the next open, each with its journaled outcome.  Ticks come every five  *)
(* minutes from processes that may stop at any await and start again, in   *)
(* either mode.  close_signal is the close service as the pass sees it: a  *)
(* refusal, or one request under the ID of the day, whose broker step may  *)
(* end in doubt.                                                           *)
(***************************************************************************)
EXTENDS Integers, FiniteSets

CONSTANTS
    Positions,      \* tracked EXECUTED equity positions
    Native,         \* those of them in the native scope; the others are exempt
    Daemons,        \* processes that run the tick
    MaxRestarts

Early == 0          \* before close - minutes_before_close
Window == 1         \* from there to the close
AfterClose == 2     \* up to NOTICE_BOUND_AFTER_CLOSE
PastBound == 3

VARIABLES
    hour,           \* Early .. PastBound
    daemon,         \* each process: its memory and where it is in a tick
    dayPass,        \* release-exit/<date>: status by position, or NoPass
    outcomes,       \* release-exit/<date>/<signal>: outcome by position
    told,           \* notices queued
    dayRequest,     \* the day's close request of a position
    holding,        \* open, exiting by another close or exit order, or closed
    closes,         \* close orders posted for the day's request (history)
    restarts

releaseVars == <<hour, daemon, dayPass, outcomes, told, dayRequest, holding, closes, restarts>>

NoPass == [p \in Positions |-> "none"]
NoEntry == "none"
Started(mode) ==
    [step |-> "idle", mode |-> mode, noted |-> {}, at |-> Early,
     entries |-> NoPass, todo |-> {}, entry |-> NoEntry, raised |-> "no"]
Stopped == [Started("off") EXCEPT !.step = "down"]
\* What survives a tick in memory: whether the date is settled, failed or reported.
Ticked(d, note) == [Started(d.mode) EXCEPT !.noted = d.noted \cup note]

ReleaseInit ==
    /\ hour = Early
    /\ daemon \in [Daemons -> {Started("preview"), Started("enforce")}]
    /\ dayPass = NoPass
    /\ outcomes = [p \in Positions |-> "none"]
    /\ told = {}
    /\ dayRequest = [p \in Positions |-> "none"]
    /\ holding = [p \in Positions |-> "open"]
    /\ closes = [p \in Positions |-> 0]
    /\ restarts = 0

unchangedClose == UNCHANGED <<dayRequest, holding, closes>>

HourPasses ==
    /\ hour < PastBound
    /\ hour' = hour + 1
    /\ UNCHANGED <<daemon, dayPass, outcomes, told, restarts>> /\ unchangedClose

-----------------------------------------------------------------------------
(* One tick. *)

\* _finish_closes: nothing outside enforce; else the owed closes without a journaled result.
Owed(entries) == {p \in Positions : entries[p] = "close"}

FinishCloses(d, entries) ==
    IF d.mode # "enforce" \/ Owed(entries) = {}
    THEN Ticked(d, {"settled"})
    ELSE [d EXCEPT !.step = "closing", !.entries = entries,
                   !.todo = {p \in Owed(entries) : outcomes[p] = "none"}]

\* decide for each position: it reports before the next open, or it does not, or nothing is
\* known, which never closes; an exempt position is never closed.
PassEntry(mode, p, exits) ==
    IF p \notin Native THEN "exempt"
    ELSE IF p \notin exits THEN "kept"
    ELSE IF mode = "preview" THEN "would_close" ELSE "close"

\* _run from the top to the first write: a recorded pass is finished, a date past its close is
\* missed, and otherwise the evidence is read.
Tick(q) ==
    LET d == [daemon[q] EXCEPT !.at = hour] IN
    /\ d.step = "idle" /\ "settled" \notin d.noted /\ hour # Early
    /\ \/ /\ dayPass # NoPass
          /\ daemon' = [daemon EXCEPT ![q] = FinishCloses(d, dayPass)]
          /\ UNCHANGED told
       \/ /\ dayPass = NoPass /\ hour = Window
          /\ \E exits \in SUBSET Positions :
                daemon' = [daemon EXCEPT ![q] =
                   [d EXCEPT !.step = "journaling", !.entries = [p \in Positions |->
                       IF holding[p] = "closed" THEN "gone" ELSE PassEntry(d.mode, p, exits)]]]
          /\ UNCHANGED told
       \/ /\ dayPass = NoPass /\ hour > Window   \* _missed
          /\ "failed" \in d.noted /\ "reported" \notin d.noted
          /\ daemon' = [daemon EXCEPT ![q] = Ticked(d, {"reported"})]
          /\ told' = IF hour = AfterClose THEN told \cup {<<"unavailable", NoEntry>>} ELSE told
    /\ UNCHANGED <<hour, dayPass, outcomes, restarts>> /\ unchangedClose

\* record_pass, and the payload the process goes on with: its own, or the one that was first.
record_pass(q) ==
    LET d == daemon[q]
        payload == IF dayPass = NoPass THEN d.entries ELSE dayPass
    IN  /\ d.step = "journaling"
        /\ dayPass' = payload
        /\ told' = IF dayPass = NoPass
                   THEN told \cup {<<"would_close", p>> : p \in {p \in Positions : payload[p] = "would_close"}}
                   ELSE told
        /\ daemon' = [daemon EXCEPT ![q] = FinishCloses(d, payload)]
        /\ UNCHANGED <<hour, outcomes, restarts>> /\ unchangedClose

\* Every owed close has been gone through.
Settle(q) ==
    /\ daemon[q].step = "closing" /\ daemon[q].todo = {}
    /\ daemon' = [daemon EXCEPT ![q] = Ticked(daemon[q], {"settled"})]
    /\ UNCHANGED <<hour, dayPass, outcomes, told, restarts>> /\ unchangedClose

-----------------------------------------------------------------------------
(* One close. *)

\* Mutant: the ID of a failed request may be claimed again.
ClaimableIfInactive(p) == dayRequest[p] \in {"none", "failed"} /\ holding[p] = "open"

\* claim_close_request under the day's request ID: the ID is taken once, whatever became of it.
Claimable(p) == dayRequest[p] = "none" /\ holding[p] = "open"

\* close_signal up to the broker: the claim, or a refusal, or an exception before the claim.
close_signal(q, p) ==
    /\ daemon[q].step = "closing" /\ p \in daemon[q].todo
    /\ \/ /\ Claimable(p)
          /\ dayRequest' = [dayRequest EXCEPT ![p] = "claimed"]
          /\ daemon' = [daemon EXCEPT ![q].step = "posting", ![q].entry = p]
       \/ /\ \E raised \in {"no", "yes"} :
                daemon' = [daemon EXCEPT ![q].step = "recording", ![q].entry = p, ![q].raised = raised]
          /\ UNCHANGED dayRequest
    /\ UNCHANGED <<hour, dayPass, outcomes, told, holding, closes, restarts>>

\* submit_position_close and _save_result: refused before the order, or posted with an answer,
\* in doubt, or with its result not saved.
SubmitClose(q) ==
    LET p == daemon[q].entry IN
    /\ daemon[q].step = "posting"
    /\ \/ closes' = closes /\ dayRequest' = [dayRequest EXCEPT ![p] = "failed"]
       \/ /\ closes' = [closes EXCEPT ![p] = @ + 1]
          /\ \E status \in {"submitted", "unknown", "failed", "claimed"} :
                dayRequest' = [dayRequest EXCEPT ![p] = status]
    /\ daemon' = [daemon EXCEPT ![q].step = "recording",
                                ![q].raised = IF dayRequest'[p] = "claimed" THEN "yes" ELSE "no"]
    /\ UNCHANGED <<hour, dayPass, outcomes, told, holding, restarts>>

ActiveRequest(p) == dayRequest[p] \in {"claimed", "submitted", "unknown"}

\* The end of _close: the outcome from the dayRequest's record, journaled once with its notice.
CloseOutcome(p, raised) ==
    IF dayRequest[p] \in {"submitted", "completed"} THEN "submitted"
    ELSE IF dayRequest[p] = "none" /\ holding[p] # "open" THEN "already_exiting"
    ELSE IF raised = "yes" THEN "error"
    ELSE IF dayRequest[p] = "none" THEN "refused" ELSE "failed"

record_close(q) ==
    LET d == daemon[q]
        p == d.entry
        outcome == CloseOutcome(p, d.raised)
        notify == d.at <= AfterClose /\ outcome \in {"refused", "failed", "error"}
    IN  /\ d.step = "recording"
        /\ outcomes' = [outcomes EXCEPT ![p] = IF @ = "none" THEN outcome ELSE @]
        /\ told' = IF notify THEN told \cup {<<"failed", p>>} ELSE told
        /\ daemon' = [daemon EXCEPT ![q] = [d EXCEPT !.step = "closing", !.todo = d.todo \ {p},
                                                     !.entry = NoEntry, !.raised = "no"]]
        /\ UNCHANGED <<hour, dayPass, restarts>> /\ unchangedClose

-----------------------------------------------------------------------------
(* The rest of the desk, and faults. *)

\* recover of the close service finds the posted order, now or on a later day, or never.
CloseResolved(p) ==
    /\ ActiveRequest(p) /\ closes[p] > 0
    /\ \E status \in {"submitted", "completed", "failed"} :
          /\ dayRequest' = [dayRequest EXCEPT ![p] = status]
          /\ holding' = IF status = "completed" THEN [holding EXCEPT ![p] = "closed"] ELSE holding
    /\ UNCHANGED <<hour, daemon, dayPass, outcomes, told, closes, restarts>>

\* Another close of the position, or its own stop or target; a failed close lets go of it.
OtherExit(p) ==
    /\ \/ holding[p] = "open" /\ ~ ActiveRequest(p) /\ holding' = [holding EXCEPT ![p] = "exiting"]
       \/ holding[p] = "exiting" /\ \E h \in {"open", "closed"} : holding' = [holding EXCEPT ![p] = h]
    /\ UNCHANGED <<hour, daemon, dayPass, outcomes, told, dayRequest, closes, restarts>>

\* A read or a write raises: run notes the failure and the next tick starts over.
TickFails(q) ==
    /\ daemon[q].step \in {"idle", "journaling", "closing", "recording"}
    /\ daemon[q].step = "idle" => "settled" \notin daemon[q].noted /\ hour # Early
    /\ daemon' = [daemon EXCEPT ![q] = Ticked(daemon[q], {"failed"})]
    /\ UNCHANGED <<hour, dayPass, outcomes, told, restarts>> /\ unchangedClose

ProcessStops(q) ==
    /\ daemon[q] # Stopped /\ restarts < MaxRestarts
    /\ daemon' = [daemon EXCEPT ![q] = Stopped]
    /\ restarts' = restarts + 1
    /\ UNCHANGED <<hour, dayPass, outcomes, told>> /\ unchangedClose

ProcessStarts(q) ==
    /\ daemon[q] = Stopped
    /\ \E mode \in {"preview", "enforce"} : daemon' = [daemon EXCEPT ![q] = Started(mode)]
    /\ UNCHANGED <<hour, dayPass, outcomes, told, restarts>> /\ unchangedClose

ReleaseNext ==
    \/ HourPasses
    \/ \E q \in Daemons :
          \/ Tick(q) \/ record_pass(q) \/ Settle(q) \/ SubmitClose(q) \/ record_close(q)
          \/ TickFails(q) \/ ProcessStops(q) \/ ProcessStarts(q)
          \/ \E p \in Positions : close_signal(q, p)
    \/ \E p \in Positions : CloseResolved(p) \/ OtherExit(p)

ReleaseSpec == ReleaseInit /\ [][ReleaseNext]_releaseVars

-----------------------------------------------------------------------------
(* Properties. *)

\* "a repeated close_signal is a no-op": over ticks, failures, restarts and a second process a
\* position is sent to the broker at most once on the day; and no owed close is forgotten: a
\* process that enforces is done with the date only when each has a journaled outcome, which
\* says submitted only of a close that was, and of which the operator is told in market hours
\* when it is not (release_request_id, _finish_closes, _close).
ReleaseAccounted ==
    /\ \A p \in Positions : closes[p] <= 1 /\ (outcomes[p] = "submitted" => closes[p] = 1)
    /\ \A p \in Positions :
          outcomes[p] \in {"refused", "failed", "error"} => <<"failed", p>> \in told \/ hour = PastBound
    /\ \A q \in Daemons : "settled" \in daemon[q].noted /\ daemon[q].mode = "enforce" =>
          \A p \in Owed(dayPass) : outcomes[p] # "none"
=============================================================================

--------------------------- MODULE DailyCampaign ---------------------------
(***************************************************************************)
(* A prospective daily campaign: storage/alpha_daily.py as the worker of   *)
(* research/alpha/daily_observations.py uses it.  Each session gets one    *)
(* decision, claimed once, computed from the campaign's residual state and *)
(* committed inside its window; then one outcome.  Workers overlap, stall  *)
(* past their windows, die, and repeat a completion; every step is one     *)
(* transaction under the alpha lock with the database's clock, which may   *)
(* be set back.                                                            *)
(***************************************************************************)
EXTENDS Integers, FiniteSets

CONSTANTS
    Sessions,       \* session dates, numbered in order
    Comparisons,    \* comparison protocols that may be enrolled
    NativeClose,    \* session -> native_close
    Available,      \* session -> available_at
    Expires,        \* session -> expires_at
    OutcomeFrom,    \* session -> outcome_available_at
    OutcomeUntil,   \* session -> outcome_expires_at
    LastTime        \* bound on the database clock

ASSUME DailyAssumption ==
    /\ Sessions \subseteq Nat \ {0} /\ LastTime \in Nat
    /\ \A s \in Sessions :
          /\ NativeClose[s] \in Int /\ Available[s] \in Int /\ Expires[s] \in Int
          /\ OutcomeFrom[s] \in Int /\ OutcomeUntil[s] \in Int

VARIABLES
    time,           \* the database clock
    campaign,       \* daily-campaign/: enrolment, state pointer and generation, cursor, claim in flight
    enrolledAt,     \* daily-comparison/: comparison -> enrolled_at
    decision,       \* daily-decision/: session -> claim and completion
    outcome,        \* daily-outcome/: session -> claim and completion
    late,           \* daily-late/: completions kept as forensic evidence only
    deciding,       \* sessions whose decision claim a live worker holds
    measuring       \* sessions whose outcome claim a live worker holds

dailyVars == <<time, campaign, enrolledAt, decision, outcome, late, deciding, measuring>>

Never == -1
NoSession == 0
NoState == 0            \* no state artifact; the campaign's initial state

NoDecision ==
    [status |-> "none", generation |-> Never, parent |-> NoState, pins |-> {},
     claimed |-> Never, recorded |-> Never, state |-> NoState, scored |-> {}]
NoOutcome == [status |-> "none", claimed |-> Never, complete |-> {}]

DailyInit ==
    /\ time = 0
    /\ campaign = [enrolled |-> Never, state |-> NoState, generation |-> 0,
                   inflight |-> NoSession, last |-> NoSession]
    /\ enrolledAt = [c \in Comparisons |-> Never]
    /\ decision = [s \in Sessions |-> NoDecision]
    /\ outcome = [s \in Sessions |-> NoOutcome]
    /\ late = {}
    /\ deciding = {}
    /\ measuring = {}

ClockMoves ==
    /\ time' \in 0..LastTime \ {time}
    /\ UNCHANGED <<campaign, enrolledAt, decision, outcome, late, deciding, measuring>>

enroll ==
    /\ campaign.enrolled = Never
    /\ campaign' = [campaign EXCEPT !.enrolled = time]
    /\ UNCHANGED <<time, enrolledAt, decision, outcome, late, deciding, measuring>>

enroll_comparison(c) ==
    /\ campaign.enrolled # Never /\ enrolledAt[c] = Never
    /\ time >= campaign.enrolled
    /\ enrolledAt' = [enrolledAt EXCEPT ![c] = time]
    /\ UNCHANGED <<time, campaign, decision, outcome, late, deciding, measuring>>

\* _expire_decision, on a campaign record and on the decisions.
Interrupted(record, now) == [record EXCEPT !.status = "interrupted", !.recorded = now]
Released(record, s) == [record EXCEPT !.inflight = IF @ = s THEN NoSession ELSE @]

\* The order claim_decision asks of a session's times.
Ordered(s) ==
    /\ NativeClose[s] <= Available[s] /\ Available[s] < Expires[s]
    /\ Expires[s] < OutcomeFrom[s] /\ OutcomeFrom[s] < OutcomeUntil[s]

\* Mutant: any enrolled comparison is pinned.
PinnedEnrolled(s) == {c \in Comparisons : enrolledAt[c] # Never}

Pinned(s) == {c \in Comparisons : enrolledAt[c] # Never /\ enrolledAt[c] < NativeClose[s]}

\* claim_decision: a claim in flight that has expired gives way, one that has not blocks.
claim_decision(s) ==
    LET other == campaign.inflight
        missed == \/ campaign.enrolled >= NativeClose[s]
                  \/ time >= Expires[s]
                  \/ s <= campaign.last
        claim == [NoDecision EXCEPT !.status = IF missed THEN "missed" ELSE "claimed",
                                    !.generation = campaign.generation, !.parent = campaign.state,
                                    !.pins = Pinned(s), !.claimed = time]
    IN  /\ Ordered(s)
        /\ campaign.enrolled # Never /\ decision[s] = NoDecision
        /\ time >= campaign.enrolled /\ time >= Available[s]
        /\ other # NoSession => time >= Expires[other]
        /\ decision' = [t \in Sessions |->
              IF t = s THEN claim
              ELSE IF t = other THEN Interrupted(decision[t], time) ELSE decision[t]]
        /\ campaign' = [campaign EXCEPT !.last = IF s > @ THEN s ELSE @,
                                        !.inflight = IF missed THEN NoSession ELSE s]
        /\ deciding' = IF missed THEN deciding ELSE deciding \cup {s}
        /\ UNCHANGED <<time, enrolledAt, outcome, late, measuring>>

\* A completion of the decision: scored or unavailable, with the comparisons it scored; anything
\* scored has a resulting state, an unavailable one may have.
Completions(s) ==
    {c \in [status : {"scored", "unavailable"}, state : {NoState, s}, scored : SUBSET decision[s].pins] :
        c.status = "scored" \/ c.scored # {} => c.state # NoState}

\* Mutant: no end of the window.
InWindowUntilRead(s) == decision[s].claimed <= time

InWindow(s) == decision[s].claimed <= time /\ time < Expires[s]

\* finish_decision by the holder of the claim, the first time or again.
Completable(s) == decision[s].status = "claimed"

\* Mutant: only a scored decision moves the campaign's state.
AdvancesScored(completion) == completion.status = "scored"

\* A decision with a resulting state moves the campaign to it.
Advances(completion) == completion.state # NoState

CommitDecision(s, completion) ==
    /\ Completable(s) /\ InWindow(s)
    /\ campaign.generation = decision[s].generation /\ campaign.state = decision[s].parent
    /\ campaign.inflight = s
    /\ decision' = [decision EXCEPT ![s].status = completion.status, ![s].state = completion.state,
                                    ![s].scored = completion.scored, ![s].recorded = time]
    /\ campaign' = [campaign EXCEPT !.inflight = NoSession,
                       !.state = IF Advances(completion) THEN completion.state ELSE @,
                       !.generation = IF Advances(completion) THEN @ + 1 ELSE @]
    /\ UNCHANGED late

\* Too late: the decision is interrupted and the work kept aside.
LateDecision(s, completion) ==
    /\ Completable(s) => ~ InWindow(s)
    /\ decision[s].status \in {"claimed", "interrupted"}
    /\ IF decision[s].status = "interrupted" THEN UNCHANGED <<decision, campaign>>
       ELSE /\ decision' = [decision EXCEPT ![s] = Interrupted(@, time)]
            /\ campaign' = Released(campaign, s)
    /\ late' = late \cup {<<"decision", s>>}

finish_decision(s) ==
    /\ s \in deciding
    /\ \E completion \in Completions(s) : CommitDecision(s, completion) \/ LateDecision(s, completion)
    /\ UNCHANGED <<time, enrolledAt, outcome, deciding, measuring>>

\* claim_outcome: once, for a committed forecast, from its frozen window on.
claim_outcome(s) ==
    LET missed == time >= OutcomeUntil[s] IN
    /\ decision[s].status = "scored" \/ decision[s].scored # {}
    /\ outcome[s] = NoOutcome /\ time >= OutcomeFrom[s]
    /\ outcome' = [outcome EXCEPT ![s] =
          [NoOutcome EXCEPT !.status = IF missed THEN "missed" ELSE "capturing", !.claimed = time]]
    /\ measuring' = IF missed THEN measuring ELSE measuring \cup {s}
    /\ UNCHANGED <<time, campaign, enrolledAt, decision, late, deciding>>

\* finish_outcome: a comparison without a scored forecast earns no complete outcome.
finish_outcome(s) ==
    /\ s \in measuring
    /\ \E status \in {"complete", "unavailable"}, complete \in SUBSET decision[s].scored :
       \/ /\ outcome[s].status = "capturing"
          /\ outcome[s].claimed <= time /\ time < OutcomeUntil[s]
          /\ outcome' = [outcome EXCEPT ![s].status = status, ![s].complete = complete]
          /\ UNCHANGED late
       \/ /\ outcome[s].status = "capturing"
          /\ ~ (outcome[s].claimed <= time /\ time < OutcomeUntil[s])
          /\ outcome' = [outcome EXCEPT ![s].status = "expired"]
          /\ late' = late \cup {<<"outcome", s>>}
       \/ /\ outcome[s].status = "expired"
          /\ late' = late \cup {<<"outcome", s>>}
          /\ UNCHANGED outcome
    /\ UNCHANGED <<time, campaign, enrolledAt, decision, deciding, measuring>>

\* expire: the claim in flight and every outcome being captured, past their windows.
expire ==
    LET s == campaign.inflight
        over == s # NoSession /\ time >= Expires[s]
    IN  /\ decision' = IF over THEN [decision EXCEPT ![s] = Interrupted(@, time)] ELSE decision
        /\ campaign' = IF over THEN Released(campaign, s) ELSE campaign
        /\ outcome' = [t \in Sessions |->
              IF outcome[t].status = "capturing" /\ time >= OutcomeUntil[t]
              THEN [outcome[t] EXCEPT !.status = "expired"] ELSE outcome[t]]
        /\ UNCHANGED <<time, enrolledAt, late, deciding, measuring>>

\* A worker dies with the claim it holds: nobody is given it again.
WorkerDies(s) ==
    \/ /\ s \in deciding
       /\ deciding' = deciding \ {s}
       /\ UNCHANGED <<time, campaign, enrolledAt, decision, outcome, late, measuring>>
    \/ /\ s \in measuring
       /\ measuring' = measuring \ {s}
       /\ UNCHANGED <<time, campaign, enrolledAt, decision, outcome, late, deciding>>

DailyNext ==
    \/ ClockMoves \/ enroll \/ expire
    \/ \E c \in Comparisons : enroll_comparison(c)
    \/ \E s \in Sessions :
          \/ claim_decision(s) \/ finish_decision(s)
          \/ claim_outcome(s) \/ finish_outcome(s)
          \/ WorkerDies(s)

DailySpec == DailyInit /\ [][DailyNext]_dailyVars

-----------------------------------------------------------------------------
(* Properties. *)

\* Decisions that left a state, in session order.
Links == {s \in Sessions : decision[s].state # NoState}

\* "A campaign has one residual state lineage": the decisions that left a state form one chain
\* in session order, each computed from the state the one before it left, and the campaign
\* points at the last; a decision that was overtaken, expired or repeated is no part of it
\* (claim_decision, finish_decision).
StateLineage ==
    /\ campaign.generation = Cardinality(Links)
    /\ \A s \in Links :
          LET before == {t \in Links : t < s} IN
          /\ decision[s].generation = Cardinality(before)
          /\ before = {} => decision[s].parent = NoState
          /\ \A t \in before : (\A u \in before : u <= t) => decision[s].parent = t
    /\ \A s \in Links : (\A t \in Links : t <= s) => campaign.state = s

\* Nothing is learnt from the future, whatever worker was late, repeated or restarted and
\* however the clock was set: a committed forecast belongs to a campaign and to comparisons
\* enrolled before the session closed and was recorded before its outcome could be read, and an
\* outcome credits only what was scored then (finish_decision, claim_outcome, finish_outcome).
NoHindsight ==
    \A s \in Sessions :
       /\ decision[s].status \in {"scored", "unavailable"} =>
             /\ campaign.enrolled < NativeClose[s]
             /\ decision[s].claimed <= decision[s].recorded
             /\ decision[s].recorded < OutcomeFrom[s]
       /\ \A c \in decision[s].pins : enrolledAt[c] < NativeClose[s]
       /\ outcome[s] # NoOutcome =>
             /\ decision[s].status \in {"scored", "unavailable"}
             /\ decision[s].recorded < outcome[s].claimed
             /\ outcome[s].complete \subseteq decision[s].scored

\* What the campaign's records are worth as evidence: one lineage, and nothing from the future.
CampaignSound == StateLineage /\ NoHindsight
=============================================================================

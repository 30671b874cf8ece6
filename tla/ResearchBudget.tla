--------------------------- MODULE ResearchBudget ---------------------------
(***************************************************************************)
(* The single-symbol research ledger of storage/alpha.py, with the mine    *)
(* and qualify commands, the diagnostic studies and the test command that  *)
(* use it: trials are charged before they are computed and a holdout is    *)
(* consumed before it is read, so that a process that stops in between     *)
(* cannot look again for free.  Every repository call is one transaction   *)
(* under the alpha lock.  One symbol and one timeframe; days stand for     *)
(* timestamps.                                                             *)
(***************************************************************************)
EXTENDS Integers, FiniteSets

CONSTANTS
    Studies,        \* run IDs of mining runs
    Diagnostics,    \* run IDs of diagnostic studies
    Tests,          \* the alpha test command: an expression on a dataset
    Days,           \* days of the dataset
    Allowance       \* trials a mining run declares

\* A run is a mining run, a diagnostic or a test.
ASSUME BudgetAssumption ==
    /\ Studies \cap Diagnostics = {} /\ Tests \cap (Studies \cup Diagnostics) = {}
    /\ Allowance \in Nat /\ Days \subseteq Int

VARIABLES
    familyTrials,   \* family/all trial_count
    reservation,    \* research/reservation/<run>: trials, or 0
    study,          \* run/<run>: holdout interval and trials, or NoStudy
    intervals,      \* holdout/<symbol>: the intervals seen or spoken for
    observations,   \* external-observation/<identity>: the days marked as observed, or {}
    consumption,    \* consumption/<run>: the trial count its qualification is judged by
    qualified,      \* qualification-run/<run>: decided
    worker,         \* the process that works on a run
    computed,       \* distinct trials computed so far by anybody (history)
    seen,           \* days looked at by qualifications, diagnostics and tests (history)
    mined           \* days each mining run has looked at (history)

budgetVars ==
    <<familyTrials, reservation, study, intervals, observations, consumption, qualified, worker,
      computed, seen, mined>>

NoStudy == [days |-> {}, trials |-> 0]
NoConsumption == -1
Intervals == {i \in SUBSET Days : i # {} /\ \A a, b \in i : \A d \in Days : a <= d /\ d <= b => d \in i}
RunIds == Studies \cup Diagnostics \cup Tests

\* Mutant: the bar at the boundary is in both parts.
FramesTouching ==
    {f \in [discovery : Intervals, holdout : Intervals] :
        /\ f.discovery \cup f.holdout \in Intervals
        /\ \A a \in f.discovery, b \in f.holdout : a <= b}

\* The bars of a mining run: discovery ends where the holdout starts.
Frames ==
    {f \in [discovery : Intervals, holdout : Intervals] :
        /\ f.discovery \cup f.holdout \in Intervals
        /\ \A a \in f.discovery, b \in f.holdout : a < b}
NoFrame == [discovery |-> {}, holdout |-> {}]
Workless == [step |-> "none", trials |-> 0, frame |-> NoFrame]

BudgetInit ==
    /\ familyTrials = 0
    /\ reservation = [r \in Studies \cup Diagnostics |-> 0]
    /\ study = [r \in Studies |-> NoStudy]
    /\ intervals = {}
    /\ observations = [r \in Diagnostics \cup Tests |-> {}]
    /\ consumption = [r \in Studies |-> NoConsumption]
    /\ qualified = {}
    /\ worker = [r \in RunIds |-> Workless]
    /\ computed = 0
    /\ seen = {}
    /\ mined = [r \in Studies |-> {}]

Step(r, step) == [worker EXCEPT ![r].step = step]

-----------------------------------------------------------------------------
(* Mining. *)

\* Mutant: a reservation charges nothing.
ReservationFree(trials) == familyTrials

\* reserve_run charges the declared budget; a reserved run is not charged again.
ReservationCharge(trials) == familyTrials + trials

reserve_run(r, trials) ==
    /\ worker[r].step = "none" /\ reservation[r] = 0
    /\ reservation' = [reservation EXCEPT ![r] = trials]
    /\ familyTrials' = ReservationCharge(trials)
    /\ worker' = Step(r, "reserved")
    /\ UNCHANGED <<study, intervals, observations, consumption, qualified, computed, seen, mined>>

\* The bars are downloaded after the charge.
download_bars(r) ==
    /\ worker[r].step = "reserved"
    /\ \E frame \in Frames : worker' = [worker EXCEPT ![r].step = "loaded", ![r].frame = frame]
    /\ UNCHANGED <<familyTrials, reservation, study, intervals, observations, consumption, qualified,
                   computed, seen, mined>>

\* miner.mine: one more trial over the discovery part of the bars, up to the budget or the
\* deadline.  Nothing marks these days as observed.
Mine(r) ==
    /\ worker[r].step = "loaded" /\ worker[r].trials < reservation[r]
    /\ worker' = [worker EXCEPT ![r].trials = @ + 1]
    /\ computed' = computed + 1
    /\ mined' = [mined EXCEPT ![r] = worker[r].frame.discovery]
    /\ UNCHANGED <<familyTrials, reservation, study, intervals, observations, consumption, qualified, seen>>

\* record_run and the registrations after it: the frozen holdout interval and the trials; the
\* budget was charged by the reservation.
record_run(r) ==
    /\ worker[r].step = "loaded" /\ worker[r].trials > 0 /\ worker[r].trials <= reservation[r]
    /\ study' = [study EXCEPT ![r] = [days |-> worker[r].frame.holdout, trials |-> worker[r].trials]]
    /\ worker' = Step(r, "recorded")
    /\ UNCHANGED <<familyTrials, reservation, intervals, observations, consumption, qualified,
                   computed, seen, mined>>

\* The process raises, is journaled as failed or just stops: its reservation stays charged.
WorkerStops(r) ==
    /\ worker[r].step \in {"reserved", "loaded", "marked", "consumed", "evaluated"}
    /\ worker' = Step(r, IF r \in Studies /\ study[r] # NoStudy THEN "recorded" ELSE "stopped")
    /\ UNCHANGED <<familyTrials, reservation, study, intervals, observations, consumption, qualified,
                   computed, seen, mined>>

-----------------------------------------------------------------------------
(* Qualification: begin_holdout, the evaluation, record_qualification. *)

\* Mutant: only the identical interval is refused.
OverlapSame(days) == days \in intervals

Overlap(days) == \E i \in intervals : i \cap days # {}

begin_holdout(r) ==
    /\ worker[r].step = "recorded" /\ ~ Overlap(study[r].days)
    /\ intervals' = intervals \cup {study[r].days}
    /\ consumption' = [consumption EXCEPT ![r] = familyTrials]
    /\ worker' = Step(r, "consumed")
    /\ UNCHANGED <<familyTrials, reservation, study, observations, qualified, computed, seen, mined>>

assess_qualification(r) ==
    /\ worker[r].step = "consumed"
    /\ seen' = seen \cup study[r].days
    /\ worker' = Step(r, "evaluated")
    /\ UNCHANGED <<familyTrials, reservation, study, intervals, observations, consumption, qualified,
                   computed, mined>>

record_run_qualification(r) ==
    /\ worker[r].step = "evaluated" /\ consumption[r] # NoConsumption /\ r \notin qualified
    /\ qualified' = qualified \cup {r}
    /\ worker' = Step(r, "recorded")
    /\ UNCHANGED <<familyTrials, reservation, study, intervals, observations, consumption,
                   computed, seen, mined>>

-----------------------------------------------------------------------------
(* A diagnostic is reserved, marks its interval as observed, then reads it.  *)
(* A test charges its trial with the interval, and may be repeated.          *)

\* An interval whose identity is known is neither marked nor charged again.
exclude_observed_interval(r, days, trials) ==
    /\ worker' = Step(r, "marked")
    /\ \/ /\ observations[r] = {}
          /\ observations' = [observations EXCEPT ![r] = days]
          /\ intervals' = intervals \cup {days}
          /\ familyTrials' = familyTrials + trials
       \/ /\ observations[r] = days
          /\ UNCHANGED <<observations, intervals, familyTrials>>
    /\ UNCHANGED <<reservation, study, consumption, qualified, computed, seen, mined>>

\* The reading of the days it marked, which may overlap anything.  A repeated test computes the
\* same trial again.
Observe(r) ==
    /\ worker[r].step = "marked"
    /\ seen' = seen \cup observations[r]
    /\ computed' = computed + (1 - worker[r].trials)
    /\ worker' = [worker EXCEPT ![r].step = "done", ![r].trials = 1]
    /\ UNCHANGED <<familyTrials, reservation, study, intervals, observations, consumption, qualified, mined>>

BudgetNext ==
    \/ \E r \in Studies :
          \/ reserve_run(r, Allowance) \/ download_bars(r) \/ Mine(r) \/ record_run(r)
          \/ begin_holdout(r) \/ assess_qualification(r) \/ record_run_qualification(r)
    \/ \E r \in Diagnostics :
          \/ reserve_run(r, 1)
          \/ worker[r].step = "reserved" /\ \E days \in Intervals : exclude_observed_interval(r, days, 0)
    \/ \E r \in Tests :
          /\ worker[r].step \in {"none", "done", "stopped"}
          /\ \E days \in Intervals : exclude_observed_interval(r, days, 1)
    \/ \E r \in Diagnostics \cup Tests : Observe(r)
    \/ \E r \in RunIds : WorkerStops(r)

BudgetSpec == BudgetInit /\ [][BudgetNext]_budgetVars

-----------------------------------------------------------------------------
(* Properties. *)

\* "crashed trials cannot reread for free": a holdout is consumed once, at a time when none of
\* its days has been looked at by a qualification, a diagnostic or a test, nor by an attempt of
\* theirs that stopped, nor by the mining of its own run; and the trial count it is judged by
\* covers every distinct trial computed until then, also those of runs that failed.  The mining
\* of other runs is left out: nothing marks their discovery days (reserve_run, begin_holdout,
\* exclude_observed_interval).
HoldoutUnseen ==
    [][\A r \in Studies : consumption[r] # consumption'[r] =>
          /\ consumption[r] = NoConsumption
          /\ study[r].days \cap (seen \cup mined[r]) = {}
          /\ consumption'[r] >= computed]_budgetVars
=============================================================================

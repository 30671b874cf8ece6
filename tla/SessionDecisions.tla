-------------------------- MODULE SessionDecisions --------------------------
(***************************************************************************)
(* Prospective decisions over session bars: SessionDecisionService of      *)
(* research/alpha/decisions.py for one definition and symbol, and the      *)
(* cursor, claims and completions of storage/alpha.py.  Services of two    *)
(* processes may poll at once, be killed with a claim in hand or finish    *)
(* late, and the registry changes under them.                              *)
(***************************************************************************)
EXTENDS Integers, FiniteSets, FiniteSetsExt

CONSTANTS
    Bars,           \* decision windows, numbered in time
    SessionOf,      \* window -> date of its session
    AvailableAt,    \* window -> available_at: its close and decision_delay_seconds
    ExpiresAt,      \* window -> expires_at
    Dates,          \* calendar dates, numbered
    Midnight,       \* date -> the instant it begins at, in New York
    DateOf,         \* instant -> its date
    HistoryDays,    \* history_days
    Limit,          \* max_decisions_per_poll
    Services,
    MaxGeneration,  \* bound on registry changes
    MaxPolls,       \* bound on polls
    LastInstant     \* bound on the clock

\* Windows of one definition and symbol become available one after the other, none before the
\* date of its session.
ASSUME SessionAssumption ==
    /\ Bars \subseteq Nat /\ IsFiniteSet(Bars)
    /\ \A w \in Bars : AvailableAt[w] \in Int /\ ExpiresAt[w] \in Int
    /\ \A v, w \in Bars : v < w => AvailableAt[v] < AvailableAt[w]
    /\ \A w \in Bars : SessionOf[w] \in Dates /\ Midnight[SessionOf[w]] <= AvailableAt[w]
    /\ Limit \in Nat \ {0}

\* The calendar covers the clock and the history before it.
ASSUME CalendarAssumption ==
    /\ LastInstant \in Nat /\ HistoryDays \in Nat /\ Dates \subseteq Int
    /\ \A d \in Dates : Midnight[d] \in Int
    /\ \A t \in 0..LastInstant :
          /\ DateOf[t] \in Dates /\ DateOf[t] - (HistoryDays - 1) \in Dates
          /\ \A d \in Dates : Midnight[d] <= t <=> d <= DateOf[t]

VARIABLES
    instant,
    generation,     \* of the registry
    cursor,         \* session-cursor/: generation, checked_at, enrolled_at, gap, calendar
    decided,        \* session-decision/: status, the registry generation and time of its claim
    pending,        \* session-decision/pending
    excluded,       \* windows whose exposure exclude_observed_interval made durable
    service,        \* each service: where it is in run_once and what it read
    polls,          \* polls started
    gaps,           \* every gap a cursor in the journal has named (history)
    priced          \* windows whose prices were read (history)

sessionVars == <<instant, generation, cursor, decided, pending, excluded, service, polls, gaps, priced>>

NoGap == <<0, 0>>
NoCursor == [generation |-> -1, checked_at |-> -1, enrolled_at |-> -1, gap |-> NoGap, calendar |-> {}]
Undecided == [status |-> "none", generation |-> -1, claimed_at |-> -1]
Resting == [step |-> "idle", now |-> -1, generation |-> -1, previous |-> NoCursor, window |-> 0,
            evidence |-> "none"]

SessionInit ==
    /\ instant = 0
    /\ generation = 0
    /\ cursor = NoCursor
    /\ decided = [w \in Bars |-> Undecided]
    /\ pending = {}
    /\ excluded = {}
    /\ service = [p \in Services |-> Resting]
    /\ polls = 0
    /\ gaps = {}
    /\ priced = {}

TimePasses ==
    /\ instant < LastInstant
    /\ instant' = instant + 1
    /\ UNCHANGED <<generation, cursor, decided, pending, excluded, service, polls, gaps, priced>>

RegistryChanges ==
    /\ generation < MaxGeneration
    /\ generation' = generation + 1
    /\ UNCHANGED <<instant, cursor, decided, pending, excluded, service, polls, gaps, priced>>

\* run_once reads the clock and ends what had expired by then.
PollStarts(p) ==
    /\ service[p].step = "idle" /\ polls < MaxPolls
    /\ polls' = polls + 1
    /\ service' = [service EXCEPT ![p].step = "started", ![p].now = instant]
    /\ UNCHANGED <<instant, generation, cursor, decided, pending, excluded, gaps, priced>>

expire_session_decisions(p) ==
    LET expired == {w \in pending : ExpiresAt[w] <= service[p].now} IN
    /\ service[p].step = "started"
    /\ decided' = [w \in Bars |->
          IF w \in expired THEN [decided[w] EXCEPT !.status = "interrupted"] ELSE decided[w]]
    /\ pending' = pending \ expired
    /\ service' = [service EXCEPT ![p].step = "polled"]
    /\ UNCHANGED <<instant, generation, cursor, excluded, polls, gaps, priced>>

\* The registry's snapshot and the cursor: one step, since the plan is refused where the registry
\* moved between them.
ReadCursor(p) ==
    /\ service[p].step = "polled"
    /\ service' = [service EXCEPT ![p].step = "planning", ![p].generation = generation, ![p].previous = cursor]
    /\ UNCHANGED <<instant, generation, cursor, decided, pending, excluded, polls, gaps, priced>>

\* Mutant: the cursor moves on to the poll's time.
CheckedAtNow(taken, due, now) == now

\* A poll that takes fewer windows than are due leaves the cursor at the last one it took.
CheckedAt(taken, due, now) == IF taken = due THEN now ELSE AvailableAt[Max(taken)]

\* The calendar of a poll: the sessions of the last HistoryDays dates.
Start(now) == DateOf[now] - (HistoryDays - 1)
Calendar(now) == {SessionOf[w] : w \in Bars} \cap (Start(now)..DateOf[now])

\* A clock behind the cursor, or a session that the cursor knew and the calendar lacks.
PlanRaises(previous, current, now) ==
    /\ previous # NoCursor /\ previous.generation = current
    /\ \/ now < previous.checked_at
       \/ \E d \in previous.calendar : d >= Start(now) /\ d \notin Calendar(now)

\* decision_plan: the cursor and the claims of one poll.  A new generation enrols anew and
\* names the gap; a poll whose cursor is older than its calendar names what lies before the
\* calendar's first midnight.  Only windows of sessions in the calendar are due.
decision_plan(previous, current, now) ==
    LET floor == Midnight[Start(now)]
        since == IF previous.checked_at < floor THEN floor ELSE previous.checked_at
        due == {w \in Bars : /\ SessionOf[w] \in Calendar(now)
                             /\ since < AvailableAt[w] /\ AvailableAt[w] <= now}
        taken == {w \in due : Cardinality({v \in due : v < w}) < Limit}
        status(w) == IF now >= ExpiresAt[w] THEN "missed"
                     ELSE IF w # Max(due) THEN "superseded" ELSE "claimed"
    IN  IF previous = NoCursor \/ previous.generation # current
        THEN [cursor |-> [generation |-> current, checked_at |-> now, enrolled_at |-> now,
                          gap |-> IF previous = NoCursor THEN NoGap ELSE <<previous.checked_at, now>>,
                          calendar |-> Calendar(now)],
              claims |-> [w \in {} |-> "none"]]
        ELSE [cursor |-> [generation |-> current,
                          checked_at |-> CheckedAt(taken, due, now),
                          enrolled_at |-> previous.enrolled_at,
                          gap |-> IF previous.checked_at < floor
                                  THEN <<previous.checked_at, floor>> ELSE previous.gap,
                          calendar |-> Calendar(now)],
              claims |-> [w \in taken |-> status(w)]]

\* plan_session_decisions: compare-and-set of the cursor and the claims, in one transaction.  An
\* idle poll leaves the cursor.
plan_session_decisions(p) ==
    LET mine == service[p]
        plan == decision_plan(mine.previous, mine.generation, mine.now)
        accepted == {w \in DOMAIN plan.claims : decided[w] = Undecided}
        claimed == {w \in accepted : plan.claims[w] = "claimed"}
        moved == \/ mine.previous = NoCursor \/ DOMAIN plan.claims # {}
                 \/ plan.cursor.generation # mine.previous.generation \/ plan.cursor.gap # mine.previous.gap
                 \/ plan.cursor.calendar # mine.previous.calendar
    IN  /\ mine.step = "planning"
        /\ mine.generation = generation
        /\ ~ PlanRaises(mine.previous, mine.generation, mine.now)
        /\ cursor = mine.previous
        /\ decided' = [w \in Bars |->
              IF w \in accepted
              THEN [status |-> plan.claims[w], generation |-> mine.generation, claimed_at |-> mine.now]
              ELSE decided[w]]
        /\ pending' = pending \cup claimed
        /\ cursor' = IF moved THEN plan.cursor ELSE cursor
        /\ gaps' = IF moved THEN gaps \cup {plan.cursor.gap} ELSE gaps
        /\ service' = [service EXCEPT ![p] =
              IF claimed = {} THEN Resting ELSE [Resting EXCEPT !.step = "claimed", !.window = Max(claimed)]]
        /\ UNCHANGED <<instant, generation, excluded, polls, priced>>

\* The registry or the cursor moved, or the plan raised: this poll ends.
PollRefused(p) ==
    /\ service[p].step = "planning"
    /\ \/ service[p].generation # generation
       \/ cursor # service[p].previous
       \/ PlanRaises(service[p].previous, service[p].generation, service[p].now)
    /\ service' = [service EXCEPT ![p] = Resting]
    /\ UNCHANGED <<instant, generation, cursor, decided, pending, excluded, polls, gaps, priced>>

\* _capture: the exposure is durable before prices are read.
_capture(p) ==
    /\ service[p].step = "claimed"
    /\ excluded' = excluded \cup {service[p].window}
    /\ service' = [service EXCEPT ![p].step = "excluded"]
    /\ UNCHANGED <<instant, generation, cursor, decided, pending, polls, gaps, priced>>

\* _read_and_score: no prices outside the window, and nothing scored that ends after it.
_read_and_score(p) ==
    LET w == service[p].window IN
    /\ service[p].step = "excluded"
    /\ IF AvailableAt[w] <= instant /\ instant < ExpiresAt[w]
       THEN /\ priced' = priced \cup {w}
            /\ \E evidence \in {"scored", "unavailable"} :
                  service' = [service EXCEPT ![p].step = "scored", ![p].evidence = evidence]
       ELSE /\ service' = [service EXCEPT ![p].step = "scored", ![p].evidence = "unavailable"]
            /\ UNCHANGED priced
    /\ UNCHANGED <<instant, generation, cursor, decided, pending, excluded, polls, gaps>>

\* finish_session_decision with the claim in hand; work for a decision that is no longer claimed
\* is kept aside.  A changed registry or a commit outside the window is unavailable.
CommitStatus(p) ==
    LET claim == decided[service[p].window] IN
    IF /\ generation = claim.generation
       /\ claim.claimed_at <= instant /\ instant < ExpiresAt[service[p].window]
    THEN service[p].evidence ELSE "unavailable"

\* Mutant: an interrupted decision may still be finished.
StillClaimedOrLate(w) == decided[w].status \in {"claimed", "interrupted"}

StillClaimed(w) == decided[w].status = "claimed"

finish_session_decision(p) ==
    LET w == service[p].window IN
    /\ service[p].step = "scored"
    /\ IF StillClaimed(w)
       THEN /\ decided' = [decided EXCEPT ![w].status = CommitStatus(p)]
            /\ pending' = pending \ {w}
       ELSE UNCHANGED <<decided, pending>>
    /\ service' = [service EXCEPT ![p] = Resting]
    /\ UNCHANGED <<instant, generation, cursor, excluded, polls, gaps, priced>>

\* The process dies; its claim is never given to another.
ServiceDies(p) ==
    /\ service[p].step # "idle"
    /\ service' = [service EXCEPT ![p] = Resting]
    /\ UNCHANGED <<instant, generation, cursor, decided, pending, excluded, polls, gaps, priced>>

SessionNext ==
    \/ TimePasses \/ RegistryChanges
    \/ \E p \in Services :
          \/ PollStarts(p) \/ expire_session_decisions(p) \/ ReadCursor(p) \/ plan_session_decisions(p) \/ PollRefused(p)
          \/ _capture(p) \/ _read_and_score(p) \/ finish_session_decision(p)
          \/ ServiceDies(p)

SessionSpec == SessionInit /\ [][SessionNext]_sessionVars

-----------------------------------------------------------------------------
(* Properties. *)

\* A window that its clock makes available by the midnight that ends its session's date.
Prompt(w) == \A d \in Dates : SessionOf[w] < d => AvailableAt[w] <= Midnight[d]

\* No prompt window is lost in silence: one that became available between the enrolment and the
\* time the cursor has reached has a record, or lies in a gap the journal names, and the pending
\* projection is the set of claims that still wait for their end, whoever crashed, overlapped
\* or polled with an old cursor.  A window that becomes available on a later date than its
\* session's is not promised: its session may have left the calendar, whose gap ends at midnight
\* (decision_plan, plan_session_decisions).
WindowsAccounted ==
    /\ pending = {w \in Bars : decided[w].status = "claimed"}
    /\ \A w \in Bars :
          /\ Prompt(w) /\ cursor.enrolled_at < AvailableAt[w] /\ AvailableAt[w] <= cursor.checked_at
          => \/ decided[w] # Undecided
             \/ \E gap \in gaps : gap[1] < AvailableAt[w] /\ AvailableAt[w] <= gap[2]

\* A window is decided once: the end of a claim is never replaced, whatever a late or second
\* worker brings, a score is only committed under the registry it was claimed under, and
\* prices are read only after the exposure is durable (finish_session_decision, _capture).
DecidedOnce ==
    /\ \A w \in Bars :
          /\ decided[w].status \notin {"none", "claimed"} => decided'[w] = decided[w]
          /\ decided[w] # Undecided => decided'[w].claimed_at = decided[w].claimed_at
          /\ decided'[w].status = "scored" /\ decided[w].status # "scored" =>
                 decided[w].generation = generation
    /\ priced' \subseteq excluded

\* Every step leaves every prompt window accounted for and every window decided once (plan_session_decisions,
\* finish_session_decision).
DecisionsSound == [][WindowsAccounted' /\ DecidedOnce]_sessionVars
=============================================================================

----------------------------- MODULE Incidents -----------------------------
(***************************************************************************)
(* Operational incidents: the supervisor's pass of diagnostics/monitor.py, *)
(* the debounced state machine of diagnostics/incidents.py, the alert      *)
(* windows of diagnostics/quiet_hours.py and the journalled projection and *)
(* morning summary of storage/operations.py.  A pass decides the window's  *)
(* summary and then observes each component, each in a transaction of its  *)
(* own; the process may die between any two of them, and the host may      *)
(* sleep for any time between passes.                                      *)
(***************************************************************************)
EXTENDS Integers, FiniteSets, Sequences

CONSTANTS
    Components,         \* checks of the readiness report
    FailureTime,        \* OperationsConfig.failure_seconds
    RecoveryTime,       \* recovery_seconds
    ReminderTime,       \* reminder_seconds
    AlertLength,        \* length of an alert window; a quiet period follows it
    DayLength,          \* from the start of one alert window to the next
    MaxTime,            \* bound on the clock
    MaxSummaryFailures  \* bound on passes whose summary transaction fails

VARIABLES
    policy,         \* the configuration: exempt_components and notifications_enabled
    clock,
    rows,           \* IncidentProjectionRecord: observed_at and IncidentState
    delivered,      \* components whose latest notice the outbox has delivered
    events,         \* INCIDENT_CHANGED events: component, observed_at, state, withheld
    decisions,      \* OPERATIONS_SUMMARY events: window, the pass that decided it, what it lists
    pass,           \* the running pass: its time, report, alert clock and components to do
    failures,       \* times of the passes whose summary or its decision could not be read
    story,          \* notices of the component's latest incident, oldest first (history)
    firstPass,      \* time of the current window's first pass (history)
    failing         \* components every pass of this window found failing (history)

vars == <<policy, clock, rows, delivered, events, decisions, pass, failures, story, firstPass, failing>>

Never == -1

-----------------------------------------------------------------------------
(* The calendar: quiet_hours.py. *)

\* alert_since: the start of the window that holds the time, or Never in quiet time.
alert_since(at) == IF at % DayLength < AlertLength THEN at - (at % DayLength) ELSE Never
is_muted(c, at) == c \notin policy.exempt_components /\ alert_since(at) = Never

\* quiet_period_before: from the end of the earlier window to this one's start.
InQuietPeriodBefore(window, at) == window - DayLength + AlertLength <= at /\ at < window

-----------------------------------------------------------------------------
(* The state machine: incidents.py. *)

Healthy ==
    [phase |-> "healthy", failed_since |-> Never, recovering_since |-> Never,
     last_notified_at |-> Never]

\* Mutant: the alert clock is not asked.
OpeningDueAnyClock(failed_since, at, since) == at - failed_since >= FailureTime

_opening_due(failed_since, at, since) ==
    at - (IF since > failed_since THEN since ELSE failed_since) >= FailureTime

\* The phase after an observation and the notice that is due, before anything is withheld.
Observed(state, ready, at, complete, since) ==
    LET step(next, notice) == [state |-> next, notice |-> notice]
        opening == IF _opening_due(state.failed_since, at, since) THEN "opened" ELSE "none"
    IN  CASE ready /\ state.phase = "pending" -> step(Healthy, "none")
          [] ready /\ state.phase = "open" ->
                step([state EXCEPT !.phase = "recovering", !.recovering_since = at], "none")
          [] ready /\ state.phase = "recovering" /\ at - state.recovering_since >= RecoveryTime ->
                step([state EXCEPT !.phase = "healthy"], "recovered")
          [] ~ ready /\ state.phase = "healthy" ->
                step([Healthy EXCEPT !.phase = "pending", !.failed_since = at], "none")
          [] ~ ready /\ state.phase = "recovering" ->
                step([state EXCEPT !.phase = "open", !.recovering_since = Never], "none")
          [] ~ ready /\ state.phase = "pending" /\ at - state.failed_since >= FailureTime ->
                step([state EXCEPT !.phase = "open"], opening)
          [] ~ ready /\ state.phase = "open" /\ state.last_notified_at = Never -> step(state, opening)
          [] ~ ready /\ state.phase = "open" /\ state.last_notified_at # Never
               /\ complete /\ at - state.last_notified_at >= ReminderTime -> step(state, "reminder")
          [] OTHER -> step(state, "none")

\* Mutant: only quiet hours withhold a notice.
WithheldReasonMuted(notice, muted, state) ==
    IF notice # "none" /\ muted THEN "quiet_hours" ELSE "none"

\* Why a due notice is not sent.
WithheldReason(notice, muted, state) ==
    IF notice = "none" THEN "none"
    ELSE IF muted THEN "quiet_hours"
    ELSE IF ~ policy.notifications_enabled THEN "notifications_disabled"
    ELSE IF notice = "recovered" /\ state.last_notified_at = Never THEN "not_announced"
    ELSE "none"

advance(state, ready, at, complete, muted, since) ==
    LET step == Observed(state, ready, at, complete, since)
        reason == WithheldReason(step.notice, muted, step.state)
        sent == step.notice # "none" /\ reason = "none"
    IN  [state |-> IF sent THEN [step.state EXCEPT !.last_notified_at = at] ELSE step.state,
         notice |-> IF sent THEN step.notice ELSE "none",
         withheld |-> IF reason # "none" THEN <<step.notice, reason>> ELSE <<>>]

-----------------------------------------------------------------------------

NoPass == [at |-> Never, ready |-> <<>>, since |-> Never, todo |-> {}]

Init ==
    /\ policy \in [exempt_components : SUBSET Components, notifications_enabled : BOOLEAN]
    /\ clock = 0
    /\ rows = [c \in Components |-> [observed_at |-> Never, state |-> Healthy]]
    /\ delivered = {}
    /\ events = {}
    /\ decisions = {}
    /\ pass = NoPass
    /\ failures = {}
    /\ story = [c \in Components |-> <<>>]
    /\ firstPass = Never
    /\ failing = {}

\* Nothing of a running pass reads the clock again, so time passes between passes.
TimePasses ==
    /\ pass = NoPass
    /\ clock < MaxTime
    /\ clock' = clock + 1
    /\ UNCHANGED <<policy, rows, delivered, events, decisions, pass, failures, story, firstPass, failing>>

\* queue_quiet_summary: the openings and recoveries withheld in the quiet period, and the
\* incidents that are still open.  The query's margin of an hour around the period is on the time
\* of recording, and holds for every pass that takes less.
Tallied(window) ==
    {e.component : e \in {f \in events :
        /\ f.withheld \in {<<"opened", "quiet_hours">>, <<"recovered", "quiet_hours">>}
        /\ InQuietPeriodBefore(window, f.observed_at)}}
StillOpen == {c \in Components : rows[c].state.phase \in {"open", "recovering"}}

\* Mutant: what opened and closed in the quiet period is left out.
SummarisedOpen(window) == StillOpen

Summarised(window) == Tallied(window) \cup StillOpen

\* The first pass of a window decides its summary, once.
queue_quiet_summary(window) ==
    IF \E d \in decisions : d.window = window THEN decisions
    ELSE decisions \cup {[window |-> window, at |-> clock, listed |-> Summarised(window)]}

StartPass(ready, since) ==
    /\ pass' = IF DOMAIN ready = {} THEN NoPass
               ELSE [at |-> clock, ready |-> ready, since |-> since, todo |-> DOMAIN ready]
    /\ LET window == alert_since(clock)
           first == window # Never /\ firstPass < window
           failed == {c \in DOMAIN ready : ~ ready[c]}
       IN  /\ firstPass' = IF first THEN clock ELSE firstPass
           /\ failing' = IF first THEN failed ELSE failing \cap failed
    /\ UNCHANGED <<policy, clock, rows, delivered, events, story>>

\* _alert_clock: decide the window's summary, then start the alert clock at the pass that
\* decided it; when the summary or its decision cannot be read, at the window's start.
AlertClock(window, decided) == IF decided > window THEN decided ELSE window

_alert_clock(window, ready) ==
    \/ /\ decisions' = queue_quiet_summary(window)
       /\ \E d \in decisions' :
             d.window = window /\ StartPass(ready, AlertClock(window, d.at))
       /\ UNCHANGED failures
    \/ /\ Cardinality(failures) < MaxSummaryFailures
       /\ failures' = failures \cup {clock}
       /\ decisions' \in {decisions, queue_quiet_summary(window)}
       /\ StartPass(ready, window)

\* OperationsMonitor.observe up to its loop.  The report holds any of the checks: an absent
\* one, or a failing one within the startup grace, is not observed.
observe ==
    /\ pass = NoPass
    /\ \E checks \in SUBSET Components : \E ready \in [checks -> BOOLEAN] :
          IF policy.notifications_enabled /\ alert_since(clock) # Never
          THEN _alert_clock(alert_since(clock), ready)
          ELSE StartPass(ready, alert_since(clock)) /\ UNCHANGED <<decisions, failures>>

\* OperationsStore.observe for one component of the pass, in any order; an observation no
\* newer than the row is ignored.
ObserveComponent(c) ==
    /\ c \in pass.todo
    /\ LET row == rows[c]
           since == IF c \in policy.exempt_components THEN Never ELSE pass.since
           result == advance(row.state, pass.ready[c], pass.at, c \in delivered,
                             is_muted(c, pass.at), since)
       IN  IF pass.at <= row.observed_at
           THEN UNCHANGED <<rows, delivered, events, story>>
           ELSE /\ rows' = [rows EXCEPT ![c] = [observed_at |-> pass.at, state |-> result.state]]
                /\ delivered' = IF result.notice = "none" THEN delivered ELSE delivered \ {c}
                /\ events' = IF result.state = row.state THEN events
                             ELSE events \cup {[component |-> c, observed_at |-> pass.at,
                                                 state |-> result.state, withheld |-> result.withheld]}
                /\ story' = [story EXCEPT ![c] =
                       IF result.state.phase = "pending" THEN <<>>
                       ELSE IF result.notice = "none" THEN @
                       ELSE Append(@, [kind |-> result.notice, at |-> pass.at])]
    /\ pass' = IF pass.todo = {c} THEN NoPass ELSE [pass EXCEPT !.todo = @ \ {c}]
    /\ UNCHANGED <<policy, clock, decisions, failures, firstPass, failing>>

\* The process dies in the middle of a pass: the rest of the report is lost.
PassCrashes ==
    /\ pass.todo # {}
    /\ pass' = NoPass
    /\ failing' = failing \ pass.todo
    /\ UNCHANGED <<policy, clock, rows, delivered, events, decisions, failures, story, firstPass>>

\* The outbox delivers the component's latest notice.
Delivered(c) ==
    /\ rows[c].state.last_notified_at # Never /\ c \notin delivered
    /\ delivered' = delivered \cup {c}
    /\ UNCHANGED <<policy, clock, rows, events, decisions, pass, failures, story, firstPass, failing>>

\* Replay of the journal: the last event of a component is its state, and the newer
\* watermark of an observation that changed nothing is kept.
rebuild ==
    /\ rows' = [c \in Components |->
          [rows[c] EXCEPT !.state =
              LET own == {e \in events : e.component = c}
              IN  IF own = {} THEN Healthy
                  ELSE (CHOOSE e \in own : \A f \in own : f.observed_at <= e.observed_at).state]]
    /\ UNCHANGED <<policy, clock, delivered, events, decisions, pass, failures, story, firstPass, failing>>

Next ==
    \/ TimePasses
    \/ observe
    \/ \E c \in Components : ObserveComponent(c) \/ Delivered(c)
    \/ PassCrashes
    \/ rebuild

Spec == Init /\ [][Next]_vars

-----------------------------------------------------------------------------
(* Properties. *)

\* The operator reads each incident as one story: one opening, then reminders, then at most
\* one recovery, never an echo of an opening it was not told of, and none of it in quiet
\* hours unless the check is exempt (advance).
IncidentStory ==
    \A c \in Components : \A k \in DOMAIN story[c] :
       /\ (story[c][k].kind = "opened") = (k = 1)
       /\ story[c][k].kind = "recovered" => k = Len(story[c])
       /\ ~ is_muted(c, story[c][k].at)

\* No summary failure in the window that holds the time.
SummaryRead(window) == \A t \in failures : alert_since(t) # window

\* Nothing held back is lost: an incident open in a quiet period is listed by the summary of
\* the next window, among its tallies or the incidents still open, also when it closed before
\* the window; and when the summary was delayed by failures, every incident that began in
\* the quiet period still is (queue_quiet_summary).
HeldIsReported ==
    \A d \in decisions : \A e \in events :
       /\ e.component \notin policy.exempt_components
       /\ e.state.phase = "open"
       /\ InQuietPeriodBefore(d.window, e.observed_at)
       /\ SummaryRead(d.window) \/ InQuietPeriodBefore(d.window, e.state.failed_since)
       => e.component \in d.listed

\* The check has failed in every pass of the window, FailureTime has gone by since the first
\* of them, and the operator knows.
AnnouncedInTime(c) ==
    LET seen == rows[c].observed_at IN
    /\ policy.notifications_enabled
    /\ c \in failing
    /\ alert_since(seen) # Never /\ alert_since(seen) = alert_since(firstPass)
    /\ seen - firstPass >= FailureTime
    => rows[c].state.last_notified_at # Never

\* With its summary read, a window pages a held incident after FailureTime of observed alert
\* time, neither earlier, however late in the window the host woke, nor later (_opening_due,
\* _alert_clock).
PageOnTime ==
    /\ SummaryRead(alert_since(firstPass)) => \A c \in Components : AnnouncedInTime(c)
    /\ \A c \in Components \ policy.exempt_components : \A k \in DOMAIN story[c] : \A d \in decisions :
          LET notice == story[c][k] IN
          /\ notice.kind = "opened"
          /\ d.window = alert_since(notice.at) /\ SummaryRead(d.window)
          => notice.at - d.at >= FailureTime

\* What the operator is told of a check: each incident one story, paged on time (advance), and
\* nothing held back in quiet hours is lost (queue_quiet_summary).
OperatorTold == IncidentStory /\ PageOnTime /\ HeldIsReported
=============================================================================

---------------------------- MODULE InsiderWatch ----------------------------
(***************************************************************************)
(* The Form 4 capture of data/insider_capture.py and the watch decision of *)
(* agent/insider_watch.py that reads it.  A worker polls EDGAR and         *)
(* journals every calendar date once and in order; the 10:35 scan merges   *)
(* the journal onto the pinned archive and decides only on a history that  *)
(* reaches the day before.  EDGAR publishes indexes and documents late, or *)
(* never; requests fail; the daemon restarts, perhaps with another release *)
(* whose cohort or archive differs.                                        *)
(*                                                                         *)
(* Dates count from the end of the first release's archive.  A document is *)
(* one Form 4 of one issuer; which trades it holds, and the event rule     *)
(* over them, are left out: any issuer with a document may be carded.      *)
(***************************************************************************)
EXTENDS Integers, Sequences, FiniteSets, FiniteSetsExt

CONSTANTS
    Business,       \* edgar_business_day
    Closed,         \* business days on which EDGAR publishes no index
    Sessions,       \* trading sessions
    Documents,
    FiledOn,        \* document -> filing date
    IssuerOf,       \* document -> issuer
    Unreadable,     \* documents over the body budget, or that do not parse
    Builds,
    First,          \* the release that runs first
    ScopeOf,        \* release -> issuers of its cohort (CaptureScope)
    ArchiveThrough, \* release -> last filing date of its pinned archive
    BackfillFrom,   \* insider_watch.backfill_from
    Span,           \* cluster window plus cooldown, in sessions
    LastDay, MaxRequestFaults, MaxRestarts     \* bounds

\* EDGAR dates a filing on a day it publishes an index of.
ASSUME WatchAssumption ==
    /\ BackfillFrom \in Int /\ LastDay \in Int
    /\ First \in Builds /\ \A r \in Builds : ArchiveThrough[r] \in Int
    /\ \A d \in Documents : FiledOn[d] \in Nat \ {0} /\ FiledOn[d] \in Business \ Closed

VARIABLES
    today, hour,    \* New York date and part of the day
    edgar,          \* what EDGAR serves: documents filed, indexes and bodies published
    captures,       \* insider/form4 events by filing date
    worker,         \* capture_filing_dates in progress, or NoCapture
    heldDocuments,  \* _held_documents: documents with a first 404 in an earlier pass
    done,           \* _done
    release,
    archive,        \* LiveWatchHistory._task
    decision,       \* today's decision, or the one being prepared
    watchFaults, restarts

daemonVars == <<worker, heldDocuments, done, release, archive, decision>>
watchVars == <<today, hour, edgar, captures, daemonVars, watchFaults, restarts>>

NoCapture == [step |-> "idle"]
NoDate == 0
NoHistory == [known |-> {}, incomplete |-> {}]
NoDecision == [status |-> "none", history |-> NoHistory]
Preparing == [status |-> "preparing", history |-> NoHistory]
Unavailable == [status |-> "unavailable", history |-> NoHistory]
Scope == ScopeOf[release]

WatchInit ==
    /\ today = 1 /\ hour = "early"
    /\ edgar = [filed |-> {}, indexes |-> {}, bodies |-> {}]
    /\ captures = <<>>
    /\ worker = NoCapture /\ heldDocuments = {} /\ done = NoDate
    /\ release = First
    /\ archive = "reading" /\ decision = NoDecision
    /\ watchFaults = 0 /\ restarts = 0

-----------------------------------------------------------------------------
(* The calendar and EDGAR. *)

\* in_scan_window, CAPTURE_AFTER_ET: only the order of the parts of a day matters.
DayPasses ==
    /\ \/ /\ \/ hour = "early" /\ hour' = "morning"
             \/ hour = "morning" /\ hour' = "window"
             \/ hour = "window" /\ hour' = "afternoon"
          /\ UNCHANGED <<today, decision>>
       \/ /\ hour = "afternoon" /\ today < LastDay /\ decision # Preparing
          /\ {d \in Documents : FiledOn[d] = today} \subseteq edgar.filed
          /\ today' = today + 1 /\ hour' = "early" /\ decision' = NoDecision
    /\ UNCHANGED <<edgar, captures, worker, heldDocuments, done, release, archive, watchFaults, restarts>>

Filed(d) ==
    /\ FiledOn[d] = today /\ d \notin edgar.filed
    /\ edgar' = [edgar EXCEPT !.filed = @ \cup {d}]
    /\ UNCHANGED <<today, hour, captures, daemonVars, watchFaults, restarts>>

\* Indexes appear in the order of their dates; that of today still grows.
IndexPublished(day) ==
    /\ day \in (Business \ Closed) \ edgar.indexes /\ day <= today
    /\ {e \in Business \ Closed : e < day} \subseteq edgar.indexes
    /\ edgar' = [edgar EXCEPT !.indexes = @ \cup {day}]
    /\ UNCHANGED <<today, hour, captures, daemonVars, watchFaults, restarts>>

\* A body may follow its index, or never come.
BodyPublished(d) ==
    /\ d \in edgar.filed \ edgar.bodies
    /\ edgar' = [edgar EXCEPT !.bodies = @ \cup {d}]
    /\ UNCHANGED <<today, hour, captures, daemonVars, watchFaults, restarts>>

\* parse_daily_index, select_form4: the documents of the cohort that the index lists now.
Listed(day) == {d \in edgar.filed : FiledOn[d] = day /\ IssuerOf[d] \in Scope}

-----------------------------------------------------------------------------
(* The capture worker. *)

latest_recorded_date == IF DOMAIN captures = {} THEN NoDate ELSE Max(DOMAIN captures)

start_date == IF DOMAIN captures = {} THEN BackfillFrom ELSE latest_recorded_date + 1

\* Mutant: today's index is read too.
TargetToday == today

\* Today's index is incomplete until the evening.
target_date == today - 1

run_once ==
    /\ worker = NoCapture /\ hour \notin {"window", "early"} /\ done # today
    /\ IF start_date > target_date
       THEN done' = today /\ UNCHANGED worker
       ELSE /\ worker' = [step |-> "date", day |-> start_date, target |-> target_date, begun |-> today,
                          held |-> <<>>, rows |-> {}]
            /\ UNCHANGED done
    /\ UNCHANGED <<today, hour, edgar, captures, heldDocuments, release, archive, decision, watchFaults, restarts>>

workerOnly == <<today, hour, edgar, release, archive, decision, watchFaults, restarts>>

\* record: once per filing date.
Journaled(day, event) ==
    IF day \in DOMAIN captures THEN captures
    ELSE [e \in DOMAIN captures \cup {day} |-> IF e = day THEN event ELSE captures[e]]

_no_index == [status |-> "no_index", scope |-> {}, found |-> {}, errors |-> {}]

\* The loop's head: stop() between dates, and the end of the dates.
PassEnds ==
    /\ worker.step = "date"
    /\ hour = "window" \/ worker.day > worker.target
    /\ done' = IF hour # "window" /\ worker.held = <<>> THEN worker.begun ELSE done
    /\ worker' = NoCapture
    /\ UNCHANGED <<workerOnly, captures, heldDocuments>>

AtDate == worker.step = "date" /\ hour # "window" /\ worker.day <= worker.target
NextDate == [worker EXCEPT !.step = "date", !.day = worker.day + 1]
HeldDate == [NextDate EXCEPT !.held = Append(worker.held, worker.day)]

NonBusinessDay ==
    /\ AtDate /\ worker.day \notin Business
    /\ IF worker.held = <<>>
       THEN captures' = Journaled(worker.day, _no_index) /\ worker' = NextDate
       ELSE worker' = HeldDate /\ UNCHANGED captures
    /\ UNCHANGED <<workerOnly, heldDocuments, done>>

IndexMissing ==
    /\ AtDate /\ worker.day \in Business \ edgar.indexes
    /\ worker' = HeldDate
    /\ UNCHANGED <<workerOnly, captures, heldDocuments, done>>

IndexFound ==
    /\ AtDate /\ worker.day \in Business \cap edgar.indexes
    /\ worker' = [worker EXCEPT !.step = "documents", !.rows = Listed(worker.day)]
    /\ UNCHANGED <<workerOnly, captures, heldDocuments, done>>

\* Mutant: a missing document is held however often it is missing.
AlwaysUnconfirmed(missing) == missing

\* DOCUMENT_404_CONFIRM is RETRY_SECONDS: a second pass is late enough to confirm.
unconfirmed(missing) == missing \ heldDocuments

\* Mutant: a document that is still missing counts as read.
MissingIgnored(rows) == rows \cap edgar.bodies \cap Unreadable

\* A body over the budget, one that does not parse, or one confirmed missing.
DocumentErrors(rows) == (rows \ edgar.bodies) \cup (rows \cap Unreadable)

\* _capture_day and record: every document is read first; a first 404 holds the date and ends the pass.
capture(day, rows, then) ==
    LET missing == rows \ edgar.bodies IN
    IF unconfirmed(missing) # {}
    THEN /\ heldDocuments' = (heldDocuments \cup missing) \ (rows \cap edgar.bodies)
         /\ worker' = NoCapture
         /\ UNCHANGED captures
    ELSE /\ captures' = Journaled(day, [status |-> "captured", scope |-> Scope,
                                       found |-> (rows \cap edgar.bodies) \ Unreadable,
                                       errors |-> DocumentErrors(rows)])
         /\ heldDocuments' = heldDocuments \ rows
         /\ worker' = then

\* Mutant: a held date is a closure as soon as a later index exists.
AskedOnce(day) == FALSE

\* A held business day is asked for once more.
PublishedAgain(day) == day \in Business /\ day \in edgar.indexes

\* A later index exists: each held date is captured, or inferred closed.
RedoHeld ==
    /\ worker.step = "documents" /\ worker.held # <<>>
    /\ LET day == Head(worker.held)
           rest == [worker EXCEPT !.held = Tail(worker.held)] IN
       IF PublishedAgain(day)
       THEN capture(day, Listed(day), rest)
       ELSE captures' = Journaled(day, _no_index) /\ worker' = rest /\ UNCHANGED heldDocuments
    /\ UNCHANGED <<workerOnly, done>>

CaptureDate ==
    /\ worker.step = "documents" /\ worker.held = <<>>
    /\ capture(worker.day, worker.rows, NextDate)
    /\ UNCHANGED <<workerOnly, done>>

\* A failed request raises out of the pass; the first 404s it saw are kept.
RequestFails ==
    /\ worker # NoCapture /\ watchFaults < MaxRequestFaults
    /\ \E seen \in SUBSET (worker.rows \ edgar.bodies) : heldDocuments' = heldDocuments \cup seen
    /\ worker' = NoCapture /\ watchFaults' = watchFaults + 1
    /\ UNCHANGED <<today, hour, edgar, captures, done, release, archive, decision, restarts>>

Worker == run_once \/ PassEnds \/ NonBusinessDay \/ IndexMissing \/ IndexFound \/ RedoHeld \/ CaptureDate

-----------------------------------------------------------------------------
(* The watch history and the decision. *)

InArchive == {d \in edgar.filed : FiledOn[d] <= ArchiveThrough[release] /\ IssuerOf[d] \in Scope}

\* Mutant: a capture taken under another scope is read all the same.
AnyScope(event) == TRUE

SameScope(event) == event.status = "captured" => event.scope = Scope

\* merge_watch_history: the captures continue the archive while contiguous and of one scope.
live_dates ==
    {day \in DOMAIN captures :
        /\ day > ArchiveThrough[release]
        /\ \A e \in (ArchiveThrough[release] + 1)..day : e \in DOMAIN captures /\ SameScope(captures[e])}

latest_filing_date == Max({ArchiveThrough[release]} \cup live_dates)

\* The first session of the cluster window and cooldown that end at the session.
span_start(session) ==
    Min({s \in Sessions : s <= session /\ Cardinality({t \in Sessions : s < t /\ t <= session}) <= Span})

history(session) ==
    [known |-> InArchive \cup UNION {captures[day].found : day \in live_dates},
     incomplete |-> {IssuerOf[d] : d \in UNION {captures[day].errors :
                                                   day \in {e \in live_dates : e >= span_start(session)}}}]

\* Mutant: the history may end a day earlier.
CurrentDayBefore(session) == latest_filing_date >= session - 2

current_for(session) == latest_filing_date >= session - 1

decisionOnly == <<today, hour, edgar, captures, worker, heldDocuments, done, release, restarts>>

\* _load in the background, begun by warm at the daemon's start.
ArchiveRead ==
    /\ archive = "reading" /\ archive' = "read"
    /\ UNCHANGED <<decisionOnly, watchFaults, decision>>

\* A failed read fails the decision that waits for it; the next one starts another (_start).
ArchiveFails ==
    /\ archive = "reading" /\ watchFaults < MaxRequestFaults
    /\ archive' = "none" /\ watchFaults' = watchFaults + 1
    /\ decision' = IF decision = Preparing THEN Unavailable ELSE decision
    /\ UNCHANGED decisionOnly

\* prepare at the decision time; a completed decision's history is cached for the date.
prepare ==
    /\ hour = "window" /\ today \in Sessions /\ decision.status \notin {"preparing", "completed"}
    /\ decision' = Preparing
    /\ archive' = IF archive = "none" THEN "reading" ELSE archive
    /\ UNCHANGED <<decisionOnly, watchFaults>>

_session_history ==
    /\ decision = Preparing /\ archive = "read"
    /\ decision' = IF current_for(today) THEN [status |-> "completed", history |-> history(today)] ELSE Unavailable
    /\ UNCHANGED <<decisionOnly, watchFaults, archive>>

\* _prepare_catalog: the deadline, or a failed read of bars or calendar; the archive read goes on.
PrepareTimeout ==
    /\ decision = Preparing
    /\ decision' = Unavailable
    /\ UNCHANGED <<decisionOnly, watchFaults, archive>>

\* The daemon stops and starts again, perhaps another release.
DaemonRestarts ==
    /\ restarts < MaxRestarts
    /\ \E r \in Builds : ArchiveThrough[r] < today /\ release' = r
    /\ worker' = NoCapture /\ heldDocuments' = {} /\ done' = NoDate
    /\ archive' = "reading" /\ decision' = NoDecision
    /\ restarts' = restarts + 1
    /\ UNCHANGED <<today, hour, edgar, captures, watchFaults>>

WatchNext ==
    \/ DayPasses
    \/ \E d \in Documents : Filed(d) \/ BodyPublished(d)
    \/ \E day \in 1..LastDay : IndexPublished(day)
    \/ run_once \/ PassEnds \/ NonBusinessDay \/ IndexMissing \/ IndexFound \/ RedoHeld \/ CaptureDate
    \/ RequestFails
    \/ ArchiveRead \/ ArchiveFails
    \/ prepare \/ _session_history \/ PrepareTimeout
    \/ DaemonRestarts

\* Time passes, documents are filed on their date, EDGAR publishes its indexes and the worker polls.
WatchFairness ==
    /\ WF_watchVars(DayPasses)
    /\ WF_watchVars(\E d \in Documents : Filed(d))
    /\ WF_watchVars(\E day \in 1..LastDay : IndexPublished(day))
    /\ WF_watchVars(Worker)

WatchSpec == WatchInit /\ [][WatchNext]_watchVars /\ WatchFairness

-----------------------------------------------------------------------------
(* Properties. *)

\* "Never a decision on a partial history": an issuer that a completed decision may card, because
\* it has a known document and no unread one, has every document it filed from the start of the
\* cluster window and cooldown to the day before the session in the history, however late EDGAR
\* published, whatever failed, and whichever release captured (prepare, merge_watch_history).
WatchComplete ==
    decision.status = "completed" =>
        LET known == decision.history.known IN
        \A d \in Documents :
            /\ FiledOn[d] >= span_start(today) /\ FiledOn[d] < today
            /\ IssuerOf[d] \in {IssuerOf[e] : e \in known} \ decision.history.incomplete
            => d \in known

\* "One bad document never holds the capture forever": the capture always catches up with the
\* dates that EDGAR's indexes reach, although a body may never be published, requests fail and
\* the daemon restarts (capture_filing_dates).
CaptureCatchesUp ==
    []<>(\A day \in BackfillFrom..LastDay :
            (\E e \in Business \ Closed : day <= e /\ e < today) => day \in DOMAIN captures)

=============================================================================

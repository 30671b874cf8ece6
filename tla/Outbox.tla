------------------------------- MODULE Outbox -------------------------------
(***************************************************************************)
(* The notification outbox: add_notification, claim_notification,          *)
(* finish_notification and requeue_notification of storage/workflow.py,    *)
(* driven by NotificationDispatcher.dispatch_one and drain of              *)
(* notifier/outbox.py.  A consumer is a configured process that drains the *)
(* outbox; Telegram is the destination.  Each claim has a fresh token,     *)
(* which the model writes as the consumer that made it: a consumer holds   *)
(* one claim at a time and forgets it when it crashes.                     *)
(***************************************************************************)
EXTENDS Naturals

CONSTANTS
    Notices,        \* deduplication keys; each has at most one row
    Consumers,
    NoOne,
    MaxAttempts,    \* notification_max_attempts
    MaxRequeues,    \* bound on the operator's retries of one notice
    MaxFaults       \* bound on crashes and on leases that lapse under a live consumer

ASSUME NoOneAssumption == NoOne \notin Notices \cup Consumers
ASSUME MaxAttemptsAssumption == MaxAttempts \in Nat \ {0}
ASSUME BoundsAssumption == MaxRequeues \in Nat /\ MaxFaults \in Nat

VARIABLES
    status,         \* row.status, "none" before add_notification
    token,          \* the consumer whose claim row.token names
    lease,          \* row.lease_until compared with the clock
    due,            \* row.available_at <= now
    attempts,       \* row.attempts
    sequence,       \* row.sequence: the id of the NOTIFICATION_QUEUED event
    nextEvent,
    claims,         \* how many NOTIFICATION_ATTEMPT events the notice's stream has
    requeues,       \* how many NOTIFICATION_REQUEUED events it has
    step,           \* where each consumer is in dispatch_one
    holding,        \* the notice it claimed
    received,       \* notices whose message reached the chat
    faults

rowVars == <<status, token, lease, due, attempts, sequence, nextEvent, claims, requeues>>
vars == <<rowVars, step, holding, received, faults>>

NoticeStatus == {"none", "queued", "checking", "delivered", "dead"}

TypeOK ==
    /\ status \in [Notices -> NoticeStatus]
    /\ token \in [Notices -> Consumers \cup {NoOne}]
    /\ lease \in [Notices -> {"none", "live", "lapsed"}]
    /\ due \in [Notices -> BOOLEAN]
    /\ attempts \in [Notices -> Nat]
    /\ sequence \in [Notices -> Nat]
    /\ nextEvent \in Nat
    /\ claims \in [Notices -> Nat]
    /\ requeues \in [Notices -> 0..MaxRequeues]
    /\ step \in [Consumers -> {"idle", "sending", "acknowledged", "failed"}]
    /\ holding \in [Consumers -> Notices \cup {NoOne}]
    /\ received \subseteq Notices
    /\ faults \in 0..MaxFaults

Init ==
    /\ status = [n \in Notices |-> "none"]
    /\ token = [n \in Notices |-> NoOne]
    /\ lease = [n \in Notices |-> "none"]
    /\ due = [n \in Notices |-> FALSE]
    /\ attempts = [n \in Notices |-> 0]
    /\ sequence = [n \in Notices |-> 0]
    /\ nextEvent = 1
    /\ claims = [n \in Notices |-> 0]
    /\ requeues = [n \in Notices |-> 0]
    /\ step = [c \in Consumers |-> "idle"]
    /\ holding = [c \in Consumers |-> NoOne]
    /\ received = {}
    /\ faults = 0

-----------------------------------------------------------------------------
\* A known key returns its row and writes nothing.
AddNotification(n) ==
    /\ status[n] = "none"
    /\ status' = [status EXCEPT ![n] = "queued"]
    /\ due' = [due EXCEPT ![n] = TRUE]
    /\ sequence' = [sequence EXCEPT ![n] = nextEvent]
    /\ nextEvent' = nextEvent + 1
    /\ UNCHANGED <<token, lease, attempts, claims, requeues, step, holding, received, faults>>

\* Mutant: a lost consumer's claim is never retried.
EligibleOnce(n) == status[n] = "queued" /\ due[n]

Eligible(n) ==
    \/ status[n] = "queued" /\ due[n]
    \/ status[n] = "checking" /\ lease[n] = "lapsed"

\* The row claim_notification selects: the oldest eligible one.
NextNotice(n) == Eligible(n) /\ \A m \in Notices : Eligible(m) => sequence[n] <= sequence[m]

BudgetLeft(n) == attempts[n] < MaxAttempts

ClaimNotification(c, n) ==
    /\ step[c] = "idle"
    /\ NextNotice(n)
    /\ BudgetLeft(n)
    /\ status' = [status EXCEPT ![n] = "checking"]
    /\ token' = [token EXCEPT ![n] = c]
    /\ lease' = [lease EXCEPT ![n] = "live"]
    /\ attempts' = [attempts EXCEPT ![n] = @ + 1]
    /\ claims' = [claims EXCEPT ![n] = @ + 1]
    /\ step' = [step EXCEPT ![c] = "sending"]
    /\ holding' = [holding EXCEPT ![c] = n]
    /\ UNCHANGED <<due, sequence, nextEvent, requeues, received, faults>>

\* Its last attempt was lost with its consumer: the claim buries it and returns nothing.
BuryExhausted(c, n) ==
    /\ step[c] = "idle"
    /\ NextNotice(n)
    /\ ~BudgetLeft(n)
    /\ status' = [status EXCEPT ![n] = "dead"]
    /\ UNCHANGED <<token, lease, due, attempts, sequence, nextEvent, claims, requeues, step, holding,
                   received, faults>>

\* _deliver within its timeout: the message may arrive with its acknowledgement lost.
Deliver(c) ==
    /\ step[c] = "sending"
    /\ \E arrives \in BOOLEAN, outcome \in {"acknowledged", "failed"} :
          /\ outcome = "acknowledged" => arrives
          /\ received' = IF arrives THEN received \cup {holding[c]} ELSE received
          /\ step' = [step EXCEPT ![c] = outcome]
    /\ UNCHANGED <<rowVars, holding, faults>>

\* Mutant: only the status is compared.
OwnsClaimUnfenced(c, n) == status[n] = "checking"

OwnsClaim(c, n) == token[n] = c /\ status[n] = "checking"

\* Mutants: an exhausted notice counts as delivered; the last attempt is given up.
FinishedStatusOptimistic(n, outcome) ==
    IF outcome = "failed" /\ attempts[n] < MaxAttempts THEN "queued" ELSE "delivered"
FinishedStatusEarly(n, outcome) ==
    IF outcome = "acknowledged" THEN "delivered"
    ELSE IF attempts[n] + 1 >= MaxAttempts THEN "dead" ELSE "queued"

FinishedStatus(n, outcome) ==
    IF outcome = "acknowledged" THEN "delivered"
    ELSE IF attempts[n] >= MaxAttempts THEN "dead" ELSE "queued"

FinishNotification(c) ==
    /\ step[c] \in {"acknowledged", "failed"}
    /\ LET n == holding[c]
       IN IF OwnsClaim(c, n)
          THEN /\ status' = [status EXCEPT ![n] = FinishedStatus(n, step[c])]
               /\ due' = [due EXCEPT ![n] = FALSE]
               /\ lease' = [lease EXCEPT ![n] = "none"]
          ELSE UNCHANGED <<status, due, lease>>
    /\ step' = [step EXCEPT ![c] = "idle"]
    /\ holding' = [holding EXCEPT ![c] = NoOne]
    /\ UNCHANGED <<token, attempts, sequence, nextEvent, claims, requeues, received, faults>>

\* copilot db outbox --retry.
RequeueNotification(n) ==
    /\ status[n] = "dead"
    /\ requeues[n] < MaxRequeues
    /\ status' = [status EXCEPT ![n] = "queued"]
    /\ attempts' = [attempts EXCEPT ![n] = 0]
    /\ token' = [token EXCEPT ![n] = NoOne]
    /\ due' = [due EXCEPT ![n] = TRUE]
    /\ requeues' = [requeues EXCEPT ![n] = @ + 1]
    /\ UNCHANGED <<lease, sequence, nextEvent, claims, step, holding, received, faults>>

-----------------------------------------------------------------------------
(* The clock and crashes. *)

\* The backoff min(max, base * 2^(attempts - 1)) is over.
BackoffEnds(n) ==
    /\ status[n] = "queued"
    /\ ~due[n]
    /\ due' = [due EXCEPT ![n] = TRUE]
    /\ UNCHANGED <<status, token, lease, attempts, sequence, nextEvent, claims, requeues, step, holding,
                   received, faults>>

Attended(n) == \E c \in Consumers : token[n] = c /\ holding[c] = n

\* The delivery timeout is shorter than the lease, so a lease lapses under a live consumer
\* only when the process stalls.
LeaseLapses(n) ==
    /\ status[n] = "checking"
    /\ lease[n] = "live"
    /\ Attended(n) => faults < MaxFaults
    /\ lease' = [lease EXCEPT ![n] = "lapsed"]
    /\ faults' = IF Attended(n) THEN faults + 1 ELSE faults
    /\ UNCHANGED <<status, token, due, attempts, sequence, nextEvent, claims, requeues, step, holding,
                   received>>

ConsumerCrashes(c) ==
    /\ step[c] # "idle"
    /\ faults < MaxFaults
    /\ faults' = faults + 1
    /\ step' = [step EXCEPT ![c] = "idle"]
    /\ holding' = [holding EXCEPT ![c] = NoOne]
    /\ UNCHANGED <<rowVars, received>>

Next ==
    \/ \E n \in Notices : \/ AddNotification(n) \/ RequeueNotification(n)
                          \/ BackoffEnds(n) \/ LeaseLapses(n)
    \/ \E c \in Consumers : \/ Deliver(c) \/ FinishNotification(c) \/ ConsumerCrashes(c)
                            \/ \E n \in Notices : ClaimNotification(c, n) \/ BuryExhausted(c, n)

Spec == Init /\ [][Next]_vars

\* The delivery loop keeps draining, a delivery ends by its timeout, time passes.
Fairness ==
    /\ \A c \in Consumers : WF_vars(Deliver(c) \/ FinishNotification(c))
    /\ WF_vars(\E c \in Consumers, n \in Notices : ClaimNotification(c, n) \/ BuryExhausted(c, n))
    /\ \A n \in Notices : WF_vars(BackoffEnds(n)) /\ WF_vars(LeaseLapses(n))

FairSpec == Spec /\ Fairness

-----------------------------------------------------------------------------
(* Properties. *)

\* The attempt budget holds over crashes, lapsed leases and operator retries, so that it bounds
\* the sends of one notice; nothing is buried while it has attempts left, and
\* a notice is delivered only if its message reached the chat, whichever of several claims of
\* it reported (claim_notification, finish_notification, requeue_notification).
AttemptBudget ==
    TypeOK /\ \A n \in Notices :
        /\ attempts[n] <= MaxAttempts
        /\ claims[n] <= MaxAttempts * (requeues[n] + 1)
        /\ status[n] = "dead" => attempts[n] = MaxAttempts
        /\ status[n] = "delivered" => n \in received

\* While the lease of its claim is live, a consumer keeps the claim: no other claim, no
\* late result of an earlier claim and no operator retry takes it away.
LiveClaim(c, n) ==
    /\ token[n] = c /\ holding[c] = n /\ status[n] = "checking" /\ lease[n] = "live"
    /\ holding'[c] = n

\* A step keeps both: the budget, and every live claim (claim_notification, finish_notification).
ClaimsHold ==
    [][/\ AttemptBudget'
       /\ \A c \in Consumers, n \in Notices : LiveClaim(c, n) => token'[n] = c /\ status'[n] = "checking"]_vars

\* Every queued notice is delivered or buried, across consumer losses.
NoticesSettle == \A n \in Notices : status[n] = "queued" ~> status[n] \in {"delivered", "dead"}

=============================================================================

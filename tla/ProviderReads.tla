--------------------------- MODULE ProviderReads ---------------------------
(***************************************************************************)
(* Bounded blocking reads, resilience/reads.py, under the retry and        *)
(* fallback cascade of resilience/fallback.py.  A caller gives up at its   *)
(* deadline; the thread cannot be killed, so its read keeps running and    *)
(* keeps its slot.  A slot goes back from the future's done callback,      *)
(* before the pool's thread takes the next read, so an accepted read may   *)
(* wait for a thread for a moment and be cancelled there.                  *)
(***************************************************************************)
EXTENDS Integers, FiniteSets

CONSTANTS
    Callers,
    Providers,      \* 1..n, the primary first
    Workers,        \* threads and slots of the pool
    MaxRetries,     \* RetryPolicy.max_retries
    MaxReads        \* bound on reads ever submitted

ASSUME ReadAssumption == Workers \in Nat

VARIABLES
    slots,          \* BoundedSemaphore
    reads,          \* read -> who asked, for which provider and call, and its future's state
    caller,         \* each caller: its place in the cascade and the read it waits for
    shut            \* the pool was shut down

readVars == <<slots, reads, caller, shut>>

NoRead == 0
\* A call is named by the number of reads before it: unique among the calls that read.
NoCall == [step |-> "idle", call |-> 0, provider |-> 1, attempt |-> 0, read |-> NoRead]

ReadInit ==
    /\ slots = Workers
    /\ reads = <<>>
    /\ caller = [k \in Callers |-> NoCall]
    /\ shut = FALSE

With(future) == {i \in DOMAIN reads : reads[i].future = future}
Unfinished == With("pending") \cup With("running")

invoke(k) ==
    /\ caller[k].step = "idle"
    /\ caller' = [caller EXCEPT ![k] = [NoCall EXCEPT !.step = "calling", !.call = Cardinality(DOMAIN reads)]]
    /\ UNCHANGED <<slots, reads, shut>>

\* Mutant: an unfinished read is retried too.
RetryableAll(error) == TRUE

\* The exception handler of invoke and ainvoke: a failure is retried, but not a read that is
\* still unfinished nor one refused for want of a slot; then the next provider, or give up.
Retryable(error) == error = "failed"

Cascade(place, error) ==
    IF Retryable(error) /\ place.attempt < MaxRetries
    THEN [place EXCEPT !.step = "calling", !.attempt = @ + 1, !.read = NoRead]
    ELSE IF place.provider + 1 \in Providers
    THEN [place EXCEPT !.step = "calling", !.provider = @ + 1, !.attempt = 0, !.read = NoRead]
    ELSE NoCall

\* BoundedReadExecutor.submit: a slot without waiting, or a refusal; the slot goes back when
\* the pool takes no more work.
submit(k) ==
    /\ caller[k].step = "calling" /\ Cardinality(DOMAIN reads) < MaxReads
    /\ IF slots = 0
       THEN caller' = [caller EXCEPT ![k] = Cascade(@, "capacity")] /\ UNCHANGED <<slots, reads>>
       ELSE IF shut
       THEN caller' = [caller EXCEPT ![k] = Cascade(@, "failed")] /\ UNCHANGED <<slots, reads>>
       ELSE LET i == Cardinality(DOMAIN reads) + 1 IN
            /\ slots' = slots - 1
            /\ reads' = [j \in 1..i |-> IF j < i THEN reads[j] ELSE
                  [by |-> k, call |-> caller[k].call, provider |-> caller[k].provider, future |-> "pending"]]
            /\ caller' = [caller EXCEPT ![k].step = "waiting", ![k].read = i]
    /\ UNCHANGED shut

\* A thread of the pool is free for the oldest pending read.
ThreadStarts(i) ==
    /\ i \in With("pending") /\ Cardinality(With("running")) < Workers
    /\ \A j \in With("pending") : i <= j
    /\ reads' = [reads EXCEPT ![i].future = "running"]
    /\ UNCHANGED <<slots, caller, shut>>

\* The read returns or raises and its done callback releases the slot; a late result, which
\* nobody awaits, is discarded.
ThreadFinishes(i) ==
    /\ i \in With("running")
    /\ \E future \in IF \E k \in Callers : caller[k].read = i THEN {"result", "error"} ELSE {"discarded"} :
          reads' = [reads EXCEPT ![i].future = future]
    /\ slots' = slots + 1
    /\ UNCHANGED <<caller, shut>>

\* The wait ends in time: the value is returned, an exception cascades, and a read that was
\* cancelled is an exception to a blocking caller and the cancellation of an awaiting one.
ReadReturns(k) ==
    LET future == reads[caller[k].read].future IN
    /\ caller[k].step = "waiting" /\ caller[k].read \notin Unfinished
    /\ \/ future # "error" /\ caller' = [caller EXCEPT ![k] = NoCall]
       \/ future # "result" /\ caller' = [caller EXCEPT ![k] = Cascade(@, "failed")]
    /\ UNCHANGED <<slots, reads, shut>>

\* discard_late_read: cancel succeeds only on a read no thread has taken, whose callback then
\* releases its slot; a running one keeps it.
Discarded(i) ==
    /\ reads' = [reads EXCEPT ![i].future = IF @ = "pending" THEN "cancelled" ELSE @]
    /\ slots' = IF reads[i].future = "pending" THEN slots + 1 ELSE slots

\* The deadline passes.  Of a read that ended just then a blocking caller sees an ordinary
\* failure, an awaiting one the deadline.
ReadTimesOut(k) ==
    LET i == caller[k].read IN
    /\ caller[k].step = "waiting"
    /\ \E error \in IF i \in Unfinished THEN {"deadline"} ELSE {"deadline", "failed"} :
          caller' = [caller EXCEPT ![k] = Cascade(@, error)]
    /\ Discarded(i)
    /\ UNCHANGED shut

\* The task that awaits ainvoke is cancelled: the read is discarded and the call is over.
CallerCancelled(k) ==
    /\ caller[k].step = "waiting"
    /\ Discarded(caller[k].read)
    /\ caller' = [caller EXCEPT ![k] = NoCall]
    /\ UNCHANGED shut

\* shutdown cancels what no thread has taken and lets the rest finish.
shutdown ==
    /\ ~ shut
    /\ shut' = TRUE
    /\ reads' = [i \in DOMAIN reads |->
          IF i \in With("pending") THEN [reads[i] EXCEPT !.future = "cancelled"] ELSE reads[i]]
    /\ slots' = slots + Cardinality(With("pending"))
    /\ UNCHANGED caller

ReadNext ==
    \/ \E k \in Callers :
          \/ invoke(k) \/ submit(k) \/ ReadReturns(k) \/ ReadTimesOut(k) \/ CallerCancelled(k)
    \/ \E i \in DOMAIN reads : ThreadStarts(i) \/ ThreadFinishes(i)
    \/ shutdown

ReadSpec == ReadInit /\ [][ReadNext]_readVars

-----------------------------------------------------------------------------
(* Properties. *)

\* A late read still counts: every read a thread has or may get holds a slot, also after its
\* caller gave up, so no more than Workers run; each slot goes back once; and a call never has
\* two unfinished reads at one provider, because an unfinished read is not replayed (submit,
\* discard_late_read, invoke).
ReadsBounded ==
    /\ slots + Cardinality(Unfinished) = Workers
    /\ \A i, j \in Unfinished :
          /\ reads[i].by = reads[j].by /\ reads[i].call = reads[j].call
          /\ reads[i].provider = reads[j].provider
          => i = j
=============================================================================

------------------------ MODULE EntryWorkflowProofs ------------------------
(***************************************************************************)
(* Theorems about EntryWorkflow for any cards, workers and recoverers and  *)
(* any number of faults.  IndInv is inductive: TypeNext ... HaltNext show  *)
(* one conjunct each, with one step per action; the properties that        *)
(* concern a single state follow from it, and those that concern a step    *)
(* from it and the step.                                                   *)
(***************************************************************************)
EXTENDS EntryWorkflow, TLAPS

USE DEF SignalStatus, WorkStatus, ENTRY_BLOCKING, Unresolved, Results, BrokerStatus, Arrived,
        dbVars, workerVars, lookVars, brokerVars, operatorVars

-----------------------------------------------------------------------------
(* IndInv is inductive. *)

\* The queue starts empty, its workers idle and the broker without orders.
LEMMA InvInit == Init => IndInv
<1> SUFFICES ASSUME Init PROVE IndInv
  OBVIOUS
<1> USE NoOneAssumption, MaxFaultsAssumption DEF Init
<1>1. FlagsOK
  BY Zenon DEF FlagsOK
<1>2. TypeOK
  BY <1>1 DEF TypeOK, RowsOK, TasksOK
<1>3. StatusKnowledge /\ WorkerKnowledge /\ LookupKnowledge
  BY DEF StatusKnowledge, WorkerKnowledge, LookupKnowledge, Blocking
<1>4. QueueKnowledge /\ HaltKnowledge
  BY DEF QueueKnowledge, HeadSerialises, HaltKnowledge, HaltBoundsPosts
<1> QED
  BY <1>2, <1>3, <1>4 DEF IndInv

\* A busy worker has an item (dispatch_one).
LEMMA ItemAtWork ==
  ASSUME IndInv, NEW w \in Workers, step[w] # "idle"
  PROVE  item[w] \in Signals
<1>1. item[w] # NoOne
  BY DEF IndInv, WorkerKnowledge
<1>2. item[w] \in Signals \cup {NoOne}
  BY DEF IndInv, TypeOK, TasksOK
<1> QED
  BY <1>1, <1>2

\* begin_submission is held by the head of the queue and by the token's owner, so two
\* workers are never between the commit and the POST at once.
LEMMA OneSubmitter ==
  IndInv => \A v, w \in Workers : step[v] = "submitting" /\ step[w] = "submitting" => v = w
<1> SUFFICES ASSUME IndInv, NEW v \in Workers, NEW w \in Workers,
                    step[v] = "submitting", step[w] = "submitting"
             PROVE  v = w
  BY Zenon
<1> USE DEF IndInv, TypeOK, RowsOK, TasksOK, WorkerKnowledge
<1>1. item[v] \in Signals /\ item[w] \in Signals
  OBVIOUS
<1>2. QueueHead(item[v]) /\ QueueHead(item[w])
  BY <1>1 DEF QueueKnowledge, HeadSerialises
<1>3. sequence[item[v]] = sequence[item[w]]
  BY <1>1, <1>2 DEF QueueHead, Blocking
<1>4. item[v] = item[w]
  BY <1>1, <1>3 DEF QueueKnowledge
<1> QED
  BY <1>4

\* Every step keeps the types; an EXCEPT at item[w] needs the worker to be busy.
LEMMA TypeNext == IndInv /\ [Next]_vars => TypeOK'
<1> SUFFICES ASSUME IndInv, [Next]_vars PROVE TypeOK'
  OBVIOUS
<1> USE NoOneAssumption, MaxFaultsAssumption
    DEF IndInv, TypeOK, RowsOK, TasksOK, FlagsOK, WorkerKnowledge, LookupKnowledge
<1>1. ASSUME NEW s \in Signals, ExpireSignal(s) \/ DismissSignal(s) \/ ObserveTerminalOrder(s)
      PROVE TypeOK'
  BY <1>1 DEF ExpireSignal, DismissSignal, ObserveTerminalOrder
<1>2. ASSUME NEW s \in Signals, EnqueueEntry(s) PROVE TypeOK'
  BY <1>2 DEF EnqueueEntry
<1>3. ASSUME NEW s \in Signals, OrderArrives(s) \/ OrderEnds(s) PROVE TypeOK'
  BY <1>3 DEF OrderArrives, OrderEnds
<1>4. ASSUME NEW s \in Signals, LeaseLapses(s) PROVE TypeOK'
  BY <1>4 DEF LeaseLapses
<1>5. ASSUME NEW w \in Workers, NEW s \in Signals, ClaimEntry(w, s) PROVE TypeOK'
  BY <1>5 DEF ClaimEntry, Claimable
<1>6. ASSUME NEW w \in Workers, PreflightPasses(w) \/ PreflightRejects(w) \/ BeginRefuses(w)
      PROVE TypeOK'
  BY <1>6 DEF PreflightPasses, PreflightRejects, BeginRefuses
<1>7. ASSUME NEW w \in Workers, BeginSubmission(w) PROVE TypeOK'
  BY <1>7 DEF BeginSubmission, MayBegin
<1>8. ASSUME NEW w \in Workers, PostOrder(w) PROVE TypeOK'
  BY <1>8 DEF PostOrder
<1>9. ASSUME NEW w \in Workers, LocalRefusal(w) \/ (\E result \in Results : Answer(w, result))
      PROVE TypeOK'
  BY <1>9 DEF LocalRefusal, Answer
<1>10. ASSUME NEW w \in Workers, ResolveOwnEntry(w) PROVE TypeOK'
  <2>1. FlagsOK'
    BY <1>10, Zenon DEF ResolveOwnEntry, OwnsResult, SaveResult, ResolvedStatus, ResolvedSignal
  <2>2. RowsOK' /\ TasksOK' /\ broker' \in [Signals -> BrokerStatus] /\ posts' \in [Signals -> Nat]
        /\ postsHalted' \in Nat /\ faults' \in 0..MaxFaults
    BY <1>10 DEF ResolveOwnEntry, OwnsResult, SaveResult, ResolvedStatus, ResolvedSignal
  <2> QED
    BY <2>1, <2>2 DEF TypeOK
<1>11. ASSUME NEW w \in Workers, WorkerCrashes(w) PROVE TypeOK'
  BY <1>11 DEF WorkerCrashes
<1>12. ASSUME NEW r \in Recoverers, NEW s \in Signals, FindEntryOrder(r, s) PROVE TypeOK'
  BY <1>12 DEF FindEntryOrder
<1>13. ASSUME NEW r \in Recoverers, ResolveFoundEntry(r) PROVE TypeOK'
  <2>1. FlagsOK'
    BY <1>13, Zenon DEF ResolveFoundEntry, SaveResult
  <2>2. lookItem[r] \in Signals /\ lookReply[r] \in Results
    BY <1>13 DEF ResolveFoundEntry
  <2>3. RowsOK' /\ postsHalted' \in Nat
    BY <1>13, <2>2 DEF ResolveFoundEntry, SaveResult, ResolvedStatus, ResolvedSignal
  <2>4. TasksOK' /\ broker' \in [Signals -> BrokerStatus] /\ posts' \in [Signals -> Nat]
        /\ faults' \in 0..MaxFaults
    BY <1>13 DEF ResolveFoundEntry
  <2> QED
    BY <2>1, <2>3, <2>4
<1>14. CASE PanicHalt \/ PanicCancelAll
  <2>1. FlagsOK'
    BY <1>14, Zenon DEF PanicHalt, PanicCancelAll
  <2>2. RowsOK' /\ TasksOK' /\ broker' \in [Signals -> BrokerStatus] /\ posts' \in [Signals -> Nat]
        /\ postsHalted' \in Nat /\ faults' \in 0..MaxFaults
    BY <1>14 DEF PanicHalt, PanicCancelAll
  <2> QED
    BY <2>1, <2>2 DEF TypeOK
<1>15. CASE ResumeChecks \/ ResumeClears
  <2>1. FlagsOK'
    BY <1>15, Zenon DEF ResumeChecks, ResumeClears
  <2>2. RowsOK' /\ TasksOK' /\ broker' \in [Signals -> BrokerStatus] /\ posts' \in [Signals -> Nat]
        /\ postsHalted' \in Nat /\ faults' \in 0..MaxFaults
    BY <1>15 DEF ResumeChecks, ResumeClears
  <2> QED
    BY <2>1, <2>2 DEF TypeOK
<1>16. CASE UNCHANGED vars
  BY <1>16 DEF vars
<1> HIDE DEF IndInv, TypeOK, RowsOK, TasksOK, FlagsOK, WorkerKnowledge, LookupKnowledge
<1> QED
  BY <1>1, <1>2, <1>3, <1>4, <1>5, <1>6, <1>7, <1>8, <1>9, <1>10, <1>11, <1>12, <1>13, <1>14, <1>15, <1>16
  DEF Next, WorkerStep

\* No step makes the item's status, its signal, its submission and its order disagree.
LEMMA StatusNext == IndInv /\ [Next]_vars => StatusKnowledge'
<1> SUFFICES ASSUME IndInv, [Next]_vars PROVE StatusKnowledge'
  OBVIOUS
<1> USE NoOneAssumption, MaxFaultsAssumption
    DEF IndInv, TypeOK, RowsOK, TasksOK, FlagsOK, StatusKnowledge, WorkerKnowledge, LookupKnowledge, QueueHead, Blocking
<1>1. ASSUME NEW s \in Signals, ExpireSignal(s) \/ DismissSignal(s) \/ ObserveTerminalOrder(s)
      PROVE StatusKnowledge'
  BY <1>1 DEF ExpireSignal, DismissSignal, ObserveTerminalOrder
<1>2. ASSUME NEW s \in Signals, EnqueueEntry(s) PROVE StatusKnowledge'
  BY <1>2 DEF EnqueueEntry
<1>3. ASSUME NEW s \in Signals, OrderArrives(s) \/ OrderEnds(s) PROVE StatusKnowledge'
  BY <1>3 DEF OrderArrives, OrderEnds
<1>4. ASSUME NEW s \in Signals, LeaseLapses(s) PROVE StatusKnowledge'
  BY <1>4 DEF LeaseLapses
<1>5. ASSUME NEW w \in Workers, NEW s \in Signals, ClaimEntry(w, s) PROVE StatusKnowledge'
  BY <1>5 DEF ClaimEntry, Claimable
<1>6. ASSUME NEW w \in Workers, PreflightPasses(w) \/ PreflightRejects(w) \/ BeginRefuses(w)
      PROVE StatusKnowledge'
  BY <1>6 DEF PreflightPasses, PreflightRejects, BeginRefuses
<1>7. ASSUME NEW w \in Workers, BeginSubmission(w) PROVE StatusKnowledge'
  BY <1>7 DEF BeginSubmission, MayBegin
<1>8. ASSUME NEW w \in Workers, PostOrder(w) PROVE StatusKnowledge'
  BY <1>8 DEF PostOrder
<1>9. ASSUME NEW w \in Workers, LocalRefusal(w) \/ (\E result \in Results : Answer(w, result))
      PROVE StatusKnowledge'
  BY <1>9 DEF LocalRefusal, Answer
<1>10. ASSUME NEW w \in Workers, ResolveOwnEntry(w) PROVE StatusKnowledge'
  BY <1>10 DEF ResolveOwnEntry, OwnsResult, SaveResult, ResolvedStatus, ResolvedSignal
<1>11. ASSUME NEW w \in Workers, WorkerCrashes(w) PROVE StatusKnowledge'
  BY <1>11 DEF WorkerCrashes
<1>12. ASSUME NEW r \in Recoverers, NEW s \in Signals, FindEntryOrder(r, s) PROVE StatusKnowledge'
  BY <1>12 DEF FindEntryOrder
<1>13. ASSUME NEW r \in Recoverers, ResolveFoundEntry(r) PROVE StatusKnowledge'
  BY <1>13 DEF ResolveFoundEntry, Recoverable, SaveResult, ResolvedStatus, ResolvedSignal
<1>14. CASE PanicHalt \/ PanicCancelAll
  BY <1>14 DEF PanicHalt, PanicCancelAll
<1>15. CASE ResumeChecks \/ ResumeClears
  BY <1>15 DEF ResumeChecks, ResumeClears
<1>16. CASE UNCHANGED vars
  BY <1>16 DEF vars
<1> HIDE DEF IndInv, TypeOK, RowsOK, TasksOK, FlagsOK, StatusKnowledge, WorkerKnowledge, LookupKnowledge, QueueHead, Blocking
<1> QED
  BY <1>1, <1>2, <1>3, <1>4, <1>5, <1>6, <1>7, <1>8, <1>9, <1>10, <1>11, <1>12, <1>13, <1>14, <1>15, <1>16
  DEF Next, WorkerStep

\* What a worker or a crash of another relies on survives every step: the token fences it.
LEMMA WorkerNext == IndInv /\ [Next]_vars => WorkerKnowledge'
<1> SUFFICES ASSUME IndInv, [Next]_vars PROVE WorkerKnowledge'
  OBVIOUS
<1> USE NoOneAssumption, MaxFaultsAssumption
    DEF IndInv, TypeOK, RowsOK, TasksOK, FlagsOK, StatusKnowledge, WorkerKnowledge, LookupKnowledge, QueueHead, Blocking
<1>1. ASSUME NEW s \in Signals, ExpireSignal(s) \/ DismissSignal(s) \/ ObserveTerminalOrder(s)
      PROVE WorkerKnowledge'
  BY <1>1 DEF ExpireSignal, DismissSignal, ObserveTerminalOrder
<1>2. ASSUME NEW s \in Signals, EnqueueEntry(s) PROVE WorkerKnowledge'
  BY <1>2 DEF EnqueueEntry
<1>3. ASSUME NEW s \in Signals, OrderArrives(s) \/ OrderEnds(s) PROVE WorkerKnowledge'
  BY <1>3 DEF OrderArrives, OrderEnds
<1>4. ASSUME NEW s \in Signals, LeaseLapses(s) PROVE WorkerKnowledge'
  BY <1>4 DEF LeaseLapses
<1>5. ASSUME NEW w \in Workers, NEW s \in Signals, ClaimEntry(w, s) PROVE WorkerKnowledge'
  BY <1>5 DEF ClaimEntry, Claimable
<1>6. ASSUME NEW w \in Workers, PreflightPasses(w) \/ PreflightRejects(w) \/ BeginRefuses(w)
      PROVE WorkerKnowledge'
  BY <1>6 DEF PreflightPasses, PreflightRejects, BeginRefuses
<1>7. ASSUME NEW w \in Workers, BeginSubmission(w) PROVE WorkerKnowledge'
  BY <1>7 DEF BeginSubmission, MayBegin
<1>8. ASSUME NEW w \in Workers, PostOrder(w) PROVE WorkerKnowledge'
  BY <1>8 DEF PostOrder
<1>9. ASSUME NEW w \in Workers, LocalRefusal(w) \/ (\E result \in Results : Answer(w, result))
      PROVE WorkerKnowledge'
  BY <1>9 DEF LocalRefusal, Answer
<1>10. ASSUME NEW w \in Workers, ResolveOwnEntry(w) PROVE WorkerKnowledge'
  BY <1>10 DEF ResolveOwnEntry, OwnsResult, SaveResult, ResolvedStatus, ResolvedSignal
<1>11. ASSUME NEW w \in Workers, WorkerCrashes(w) PROVE WorkerKnowledge'
  BY <1>11 DEF WorkerCrashes
<1>12. ASSUME NEW r \in Recoverers, NEW s \in Signals, FindEntryOrder(r, s) PROVE WorkerKnowledge'
  BY <1>12 DEF FindEntryOrder
<1>13. ASSUME NEW r \in Recoverers, ResolveFoundEntry(r) PROVE WorkerKnowledge'
  BY <1>13 DEF ResolveFoundEntry, Recoverable, SaveResult, ResolvedStatus, ResolvedSignal
<1>14. CASE PanicHalt \/ PanicCancelAll
  BY <1>14 DEF PanicHalt, PanicCancelAll
<1>15. CASE ResumeChecks \/ ResumeClears
  BY <1>15 DEF ResumeChecks, ResumeClears
<1>16. CASE UNCHANGED vars
  BY <1>16 DEF vars
<1> HIDE DEF IndInv, TypeOK, RowsOK, TasksOK, FlagsOK, StatusKnowledge, WorkerKnowledge, LookupKnowledge, QueueHead, Blocking
<1> QED
  BY <1>1, <1>2, <1>3, <1>4, <1>5, <1>6, <1>7, <1>8, <1>9, <1>10, <1>11, <1>12, <1>13, <1>14, <1>15, <1>16
  DEF Next, WorkerStep

\* Orders at the broker never un-arrive or revive, so a lookup's answer does not go stale.
LEMMA LookupNext == IndInv /\ [Next]_vars => LookupKnowledge'
<1> SUFFICES ASSUME IndInv, [Next]_vars PROVE LookupKnowledge'
  OBVIOUS
<1> USE NoOneAssumption, MaxFaultsAssumption
    DEF IndInv, TypeOK, RowsOK, TasksOK, FlagsOK, LookupKnowledge
<1>1. ASSUME NEW s \in Signals, ExpireSignal(s) \/ DismissSignal(s) \/ ObserveTerminalOrder(s)
      PROVE LookupKnowledge'
  BY <1>1 DEF ExpireSignal, DismissSignal, ObserveTerminalOrder
<1>2. ASSUME NEW s \in Signals, EnqueueEntry(s) PROVE LookupKnowledge'
  BY <1>2 DEF EnqueueEntry
<1>3. ASSUME NEW s \in Signals, OrderArrives(s) \/ OrderEnds(s) PROVE LookupKnowledge'
  BY <1>3 DEF OrderArrives, OrderEnds
<1>4. ASSUME NEW s \in Signals, LeaseLapses(s) PROVE LookupKnowledge'
  BY <1>4 DEF LeaseLapses
<1>5. ASSUME NEW w \in Workers, NEW s \in Signals, ClaimEntry(w, s) PROVE LookupKnowledge'
  BY <1>5 DEF ClaimEntry, Claimable
<1>6. ASSUME NEW w \in Workers, PreflightPasses(w) \/ PreflightRejects(w) \/ BeginRefuses(w)
      PROVE LookupKnowledge'
  BY <1>6 DEF PreflightPasses, PreflightRejects, BeginRefuses
<1>7. ASSUME NEW w \in Workers, BeginSubmission(w) PROVE LookupKnowledge'
  BY <1>7 DEF BeginSubmission, MayBegin
<1>8. ASSUME NEW w \in Workers, PostOrder(w) PROVE LookupKnowledge'
  BY <1>8 DEF PostOrder
<1>9. ASSUME NEW w \in Workers, LocalRefusal(w) \/ (\E result \in Results : Answer(w, result))
      PROVE LookupKnowledge'
  BY <1>9 DEF LocalRefusal, Answer
<1>10. ASSUME NEW w \in Workers, ResolveOwnEntry(w) PROVE LookupKnowledge'
  BY <1>10 DEF ResolveOwnEntry, OwnsResult, SaveResult, ResolvedStatus, ResolvedSignal
<1>11. ASSUME NEW w \in Workers, WorkerCrashes(w) PROVE LookupKnowledge'
  BY <1>11 DEF WorkerCrashes
<1>12. ASSUME NEW r \in Recoverers, NEW s \in Signals, FindEntryOrder(r, s) PROVE LookupKnowledge'
  BY <1>12 DEF FindEntryOrder
<1>13. ASSUME NEW r \in Recoverers, ResolveFoundEntry(r) PROVE LookupKnowledge'
  BY <1>13 DEF ResolveFoundEntry, Recoverable, SaveResult, ResolvedStatus, ResolvedSignal
<1>14. CASE PanicHalt \/ PanicCancelAll
  BY <1>14 DEF PanicHalt, PanicCancelAll
<1>15. CASE ResumeChecks \/ ResumeClears
  BY <1>15 DEF ResumeChecks, ResumeClears
<1>16. CASE UNCHANGED vars
  BY <1>16 DEF vars
<1> HIDE DEF IndInv, TypeOK, RowsOK, TasksOK, FlagsOK, LookupKnowledge
<1> QED
  BY <1>1, <1>2, <1>3, <1>4, <1>5, <1>6, <1>7, <1>8, <1>9, <1>10, <1>11, <1>12, <1>13, <1>14, <1>15, <1>16
  DEF Next, WorkerStep

\* The order of the rows and the single head survive every step.
LEMMA QueueNext == IndInv /\ [Next]_vars => QueueKnowledge'
<1> SUFFICES ASSUME IndInv, [Next]_vars PROVE QueueKnowledge'
  OBVIOUS
<1> USE NoOneAssumption, MaxFaultsAssumption
    DEF IndInv, TypeOK, RowsOK, TasksOK, FlagsOK, StatusKnowledge, WorkerKnowledge, QueueKnowledge, HeadSerialises, QueueHead, Blocking
<1>1. ASSUME NEW s \in Signals, ExpireSignal(s) \/ DismissSignal(s) \/ ObserveTerminalOrder(s)
      PROVE QueueKnowledge'
  BY <1>1 DEF ExpireSignal, DismissSignal, ObserveTerminalOrder
<1>2. ASSUME NEW s \in Signals, EnqueueEntry(s) PROVE QueueKnowledge'
  BY <1>2 DEF EnqueueEntry
<1>3. ASSUME NEW s \in Signals, OrderArrives(s) \/ OrderEnds(s) PROVE QueueKnowledge'
  BY <1>3 DEF OrderArrives, OrderEnds
<1>4. ASSUME NEW s \in Signals, LeaseLapses(s) PROVE QueueKnowledge'
  BY <1>4 DEF LeaseLapses
<1>5. ASSUME NEW w \in Workers, NEW s \in Signals, ClaimEntry(w, s) PROVE QueueKnowledge'
  BY <1>5 DEF ClaimEntry, Claimable
<1>6. ASSUME NEW w \in Workers, PreflightPasses(w) \/ PreflightRejects(w) \/ BeginRefuses(w)
      PROVE QueueKnowledge'
  BY <1>6 DEF PreflightPasses, PreflightRejects, BeginRefuses
<1>7. ASSUME NEW w \in Workers, BeginSubmission(w) PROVE QueueKnowledge'
  BY <1>7 DEF BeginSubmission, MayBegin
<1>8. ASSUME NEW w \in Workers, PostOrder(w) PROVE QueueKnowledge'
  BY <1>8 DEF PostOrder
<1>9. ASSUME NEW w \in Workers, LocalRefusal(w) \/ (\E result \in Results : Answer(w, result))
      PROVE QueueKnowledge'
  BY <1>9 DEF LocalRefusal, Answer
<1>10. ASSUME NEW w \in Workers, ResolveOwnEntry(w) PROVE QueueKnowledge'
  <2>1. item[w] \in Signals
    BY <1>10, ItemAtWork DEF ResolveOwnEntry
  <2>2. UNCHANGED <<sequence, nextEvent>>
    BY <1>10 DEF ResolveOwnEntry, SaveResult
  <2>3. \/ work' = work
        \/ /\ OwnsResult(w, item[w])
           /\ \E v \in {"accepted", "unknown", "rejected"} : work' = [work EXCEPT ![item[w]] = v]
    BY <1>10 DEF ResolveOwnEntry, SaveResult, ResolvedStatus
  <2>4. OwnsResult(w, item[w]) => work[item[w]] \in {"checking"} \cup Unresolved
    BY <1>10, <2>1 DEF ResolveOwnEntry, OwnsResult
  <2> QED
    BY <2>1, <2>2, <2>3, <2>4
<1>11. ASSUME NEW w \in Workers, WorkerCrashes(w) PROVE QueueKnowledge'
  BY <1>11 DEF WorkerCrashes
<1>12. ASSUME NEW r \in Recoverers, NEW s \in Signals, FindEntryOrder(r, s) PROVE QueueKnowledge'
  BY <1>12 DEF FindEntryOrder
<1>13. ASSUME NEW r \in Recoverers, ResolveFoundEntry(r) PROVE QueueKnowledge'
  <2>1. lookItem[r] \in Signals
    BY <1>13 DEF ResolveFoundEntry
  <2>2. UNCHANGED <<sequence, nextEvent>>
    BY <1>13 DEF ResolveFoundEntry, SaveResult
  <2>3. \/ work' = work
        \/ /\ work[lookItem[r]] \in Unresolved
           /\ \E v \in {"accepted", "unknown", "rejected"} : work' = [work EXCEPT ![lookItem[r]] = v]
    BY <1>13 DEF ResolveFoundEntry, Recoverable, SaveResult, ResolvedStatus
  <2> QED
    BY <2>1, <2>2, <2>3
<1>14. CASE PanicHalt \/ PanicCancelAll
  BY <1>14 DEF PanicHalt, PanicCancelAll
<1>15. CASE ResumeChecks \/ ResumeClears
  BY <1>15 DEF ResumeChecks, ResumeClears
<1>16. CASE UNCHANGED vars
  BY <1>16 DEF vars
<1> HIDE DEF IndInv, TypeOK, RowsOK, TasksOK, FlagsOK, StatusKnowledge, WorkerKnowledge, QueueKnowledge, HeadSerialises, QueueHead, Blocking
<1> QED
  BY <1>1, <1>2, <1>3, <1>4, <1>5, <1>6, <1>7, <1>8, <1>9, <1>10, <1>11, <1>12, <1>13, <1>14, <1>15, <1>16
  DEF Next, WorkerStep

\* After the halt only the one committed submission may leave.
LEMMA HaltNext == IndInv /\ [Next]_vars => HaltKnowledge'
<1> SUFFICES ASSUME IndInv, [Next]_vars PROVE HaltKnowledge'
  OBVIOUS
<1> USE NoOneAssumption, MaxFaultsAssumption
    DEF IndInv, TypeOK, RowsOK, TasksOK, FlagsOK, WorkerKnowledge, HaltKnowledge, HaltBoundsPosts
<1>1. ASSUME NEW s \in Signals, ExpireSignal(s) \/ DismissSignal(s) \/ ObserveTerminalOrder(s)
      PROVE HaltKnowledge'
  BY <1>1 DEF ExpireSignal, DismissSignal, ObserveTerminalOrder
<1>2. ASSUME NEW s \in Signals, EnqueueEntry(s) PROVE HaltKnowledge'
  BY <1>2 DEF EnqueueEntry
<1>3. ASSUME NEW s \in Signals, OrderArrives(s) \/ OrderEnds(s) PROVE HaltKnowledge'
  BY <1>3 DEF OrderArrives, OrderEnds
<1>4. ASSUME NEW s \in Signals, LeaseLapses(s) PROVE HaltKnowledge'
  BY <1>4 DEF LeaseLapses
<1>5. ASSUME NEW w \in Workers, NEW s \in Signals, ClaimEntry(w, s) PROVE HaltKnowledge'
  BY <1>5 DEF ClaimEntry, Claimable
<1>6. ASSUME NEW w \in Workers, PreflightPasses(w) \/ PreflightRejects(w) \/ BeginRefuses(w)
      PROVE HaltKnowledge'
  BY <1>6 DEF PreflightPasses, PreflightRejects, BeginRefuses
<1>7. ASSUME NEW w \in Workers, BeginSubmission(w) PROVE HaltKnowledge'
  BY <1>7 DEF BeginSubmission, MayBegin
<1>8. ASSUME NEW w \in Workers, PostOrder(w) PROVE HaltKnowledge'
  <2>1. /\ step[w] = "submitting" /\ step' = [step EXCEPT ![w] = "waiting"]
        /\ postsHalted' = IF halted THEN postsHalted + 1 ELSE postsHalted
    BY Zenon, <1>8 DEF PostOrder
  <2>2. \A v \in Workers : step'[v] # "submitting"
    BY <2>1, OneSubmitter
  <2>3. postsHalted \in Nat /\ postsHalted <= 1 /\ (halted => postsHalted # 1)
    BY <2>1
  <2>4. postsHalted' <= 1
    BY <2>1, <2>3
  <2> QED
    BY Zenon, <2>2, <2>4
<1>9. ASSUME NEW w \in Workers, LocalRefusal(w) \/ (\E result \in Results : Answer(w, result))
      PROVE HaltKnowledge'
  BY <1>9 DEF LocalRefusal, Answer
<1>10. ASSUME NEW w \in Workers, ResolveOwnEntry(w) PROVE HaltKnowledge'
  BY <1>10 DEF ResolveOwnEntry, OwnsResult, SaveResult, ResolvedStatus, ResolvedSignal
<1>11. ASSUME NEW w \in Workers, WorkerCrashes(w) PROVE HaltKnowledge'
  BY <1>11 DEF WorkerCrashes
<1>12. ASSUME NEW r \in Recoverers, NEW s \in Signals, FindEntryOrder(r, s) PROVE HaltKnowledge'
  BY <1>12 DEF FindEntryOrder
<1>13. ASSUME NEW r \in Recoverers, ResolveFoundEntry(r) PROVE HaltKnowledge'
  BY <1>13 DEF ResolveFoundEntry, Recoverable, SaveResult, ResolvedStatus, ResolvedSignal
<1>14. CASE PanicHalt \/ PanicCancelAll
  BY <1>14 DEF PanicHalt, PanicCancelAll
<1>15. CASE ResumeChecks \/ ResumeClears
  BY <1>15 DEF ResumeChecks, ResumeClears
<1>16. CASE UNCHANGED vars
  BY <1>16 DEF vars
<1> HIDE DEF IndInv, TypeOK, RowsOK, TasksOK, FlagsOK, WorkerKnowledge, HaltKnowledge, HaltBoundsPosts
<1> QED
  BY <1>1, <1>2, <1>3, <1>4, <1>5, <1>6, <1>7, <1>8, <1>9, <1>10, <1>11, <1>12, <1>13, <1>14, <1>15, <1>16
  DEF Next, WorkerStep

-----------------------------------------------------------------------------
(* The theorems. *)

\* Every state that the entry queue reaches satisfies the inductive invariant.
THEOREM Inductive == Spec => []IndInv
<1>1. IndInv /\ [Next]_vars => IndInv'
  BY TypeNext, StatusNext, WorkerNext, LookupNext, QueueNext, HaltNext DEF IndInv
<1> QED
  BY InvInit, <1>1, PTL DEF Spec

\* The rows, the tasks, the flags and the broker's orders keep their types.
THEOREM TypeCorrect == Spec => []TypeOK
<1>1. IndInv => TypeOK
  BY DEF IndInv
<1> QED
  BY Inductive, <1>1, PTL

\* No crash, lapsed lease, reclaim or lookup hands an entry to the broker twice.
THEOREM AtMostOnePost == Spec => []OnePostPerEntry
<1>1. IndInv => OnePostPerEntry
  BY DEF IndInv, TypeOK, RowsOK, StatusKnowledge, OnePostPerEntry
<1> QED
  BY Inductive, <1>1, PTL

\* Capacity stays reserved as long as an order exists, travels or may still be sent.
THEOREM ReservedWhileExposed == Spec => []ExposureIsReserved
<1>1. IndInv => ExposureIsReserved
  <2> SUFFICES ASSUME IndInv, NEW s \in Signals,
                      MayStillPost(s) \/ broker[s] \in {"inflight", "working", "filled"}
               PROVE  signal[s] \in {"SUBMITTING", "EXECUTED"}
    BY DEF ExposureIsReserved
  <2> USE DEF IndInv, TypeOK, RowsOK, StatusKnowledge
  <2>1. CASE MayStillPost(s)
    BY <2>1 DEF MayStillPost, WorkerKnowledge, Blocking
  <2>2. CASE broker[s] \in {"inflight", "working", "filled"}
    BY <2>2 DEF Blocking
  <2> QED
    BY <2>1, <2>2
<1> QED
  BY Inductive, <1>1, PTL

\* Checking and unresolved submissions are the head of the FIFO: there is at most one.
THEOREM SerialSubmission == Spec => []HeadSerialises
<1>1. IndInv => HeadSerialises
  BY DEF IndInv, QueueKnowledge
<1> QED
  BY Inductive, <1>1, PTL

\* A stored halt lets at most one already committed order leave.
THEOREM HaltIsTight == Spec => []HaltBoundsPosts
<1>1. IndInv => HaltBoundsPosts
  BY DEF IndInv, HaltKnowledge
<1> QED
  BY Inductive, <1>1, PTL

\* Work item, signal and broker order agree in every state.
THEOREM OneStory == Spec => []RecordsAgree
<1>1. IndInv => RecordsAgree
  BY DEF IndInv, TypeOK, RowsOK, StatusKnowledge, RecordsAgree
<1> QED
  BY Inductive, <1>1, PTL

-----------------------------------------------------------------------------
(* What a step may never do. *)

\* A committed submission is never claimable again and a settled entry never changes,
\* whichever of two results, the worker's or a lookup's, comes second.
THEOREM NoResubmission == Spec => NeverResubmitted
<1> DEFINE Kept == \A s \in Signals :
                      /\ work[s] \in Unresolved => work'[s] \in Unresolved \cup {"accepted", "rejected"}
                      /\ work[s] \in {"accepted", "rejected"} => work'[s] = work[s]
<1>1. IndInv /\ [Next]_vars => Kept
  <2> SUFFICES ASSUME IndInv, [Next]_vars, NEW t \in Signals,
                      work[t] \in {"submitting", "unknown", "accepted", "rejected"}
               PROVE  /\ work[t] \in Unresolved => work'[t] \in Unresolved \cup {"accepted", "rejected"}
                      /\ work[t] \in {"accepted", "rejected"} => work'[t] = work[t]
    BY Zenon
  <2> USE DEF IndInv, TypeOK, RowsOK, TasksOK
  <2>1. CASE UNCHANGED work
    BY <2>1
  <2>2. ASSUME NEW s \in Signals, EnqueueEntry(s) PROVE work'[t] = work[t]
    BY <2>2 DEF EnqueueEntry
  <2>3. ASSUME NEW w \in Workers, NEW s \in Signals, ClaimEntry(w, s) PROVE work'[t] = work[t]
    BY <2>3 DEF ClaimEntry, Claimable, QueueHead, Blocking
  <2>4. ASSUME NEW w \in Workers, BeginSubmission(w) PROVE work'[t] = work[t]
    BY <2>4 DEF BeginSubmission, MayBegin
  <2>5. CASE (\E w \in Workers : ResolveOwnEntry(w)) \/ (\E r \in Recoverers : ResolveFoundEntry(r))
    BY <2>5 DEF ResolveOwnEntry, OwnsResult, ResolveFoundEntry, Recoverable, SaveResult,
                ResolvedStatus, Blocking
  <2>6. \/ UNCHANGED work
        \/ \E s \in Signals : EnqueueEntry(s)
        \/ \E w \in Workers : BeginSubmission(w) \/ ResolveOwnEntry(w) \/ \E s \in Signals : ClaimEntry(w, s)
        \/ \E r \in Recoverers : ResolveFoundEntry(r)
    BY Zenon DEF Next, WorkerStep, vars, ExpireSignal, DismissSignal, ObserveTerminalOrder, OrderArrives,
           OrderEnds, LeaseLapses, PreflightPasses, PreflightRejects, BeginRefuses, PostOrder,
           LocalRefusal, Answer, WorkerCrashes, FindEntryOrder, PanicHalt, PanicCancelAll,
           ResumeChecks, ResumeClears
  <2> QED
    BY <2>1, <2>2, <2>3, <2>4, <2>5, <2>6
<1> QED
  BY Inductive, <1>1, PTL DEF Spec, NeverResubmitted

\* An order leaves only from the head of the queue: authorization order is submission order.
THEOREM QueueOrder == Spec => PostsInQueueOrder
<1> DEFINE FromHead == \A s \in Signals : posts'[s] # posts[s] => QueueHead(s)
<1>1. IndInv /\ [Next]_vars => FromHead
  <2> SUFFICES ASSUME IndInv, [Next]_vars, NEW t \in Signals, posts'[t] # posts[t]
               PROVE  QueueHead(t)
    OBVIOUS
  <2>1. PICK w \in Workers : PostOrder(w)
    BY Zenon DEF Next, WorkerStep, vars, ExpireSignal, DismissSignal, ObserveTerminalOrder, EnqueueEntry,
           OrderArrives, OrderEnds, LeaseLapses, ClaimEntry, PreflightPasses, PreflightRejects,
           BeginSubmission, BeginRefuses, LocalRefusal, Answer, ResolveOwnEntry, WorkerCrashes,
           FindEntryOrder, ResolveFoundEntry, PanicHalt, PanicCancelAll, ResumeChecks, ResumeClears
  <2>2. item[w] = t
    BY Zenon, <2>1 DEF PostOrder, IndInv, TypeOK
  <2>3. work[t] = "submitting"
    BY Zenon, <2>1, <2>2 DEF PostOrder, IndInv, WorkerKnowledge
  <2> QED
    BY <2>3 DEF IndInv, QueueKnowledge, HeadSerialises
<1> QED
  BY Inductive, <1>1, PTL DEF Spec, PostsInQueueOrder

-----------------------------------------------------------------------------
(* The queue implements EntryReservation. *)

\* The mapping reads the signal rows, the ENTRY_SUBMITTING events, the orders at the broker,
\* and which orders a worker may still send (begin_submission, execute_order).
LEMMA MappingFrame ==
  /\ UNCHANGED signal => UNCHANGED Reservation
  /\ UNCHANGED begun => UNCHANGED Authority
  /\ UNCHANGED broker /\ (\A s \in Signals : MayStillPost(s)' <=> MayStillPost(s)) => UNCHANGED Exposure
<1>1. UNCHANGED signal => UNCHANGED Reservation
  BY DEF Reservation
<1>2. UNCHANGED begun => UNCHANGED Authority
  BY DEF Authority
<1>3. ASSUME UNCHANGED broker, \A s \in Signals : MayStillPost(s)' <=> MayStillPost(s)
      PROVE UNCHANGED Exposure
  BY <1>3 DEF Exposure
<1> QED
  BY <1>1, <1>2, <1>3

\* What the broker may hold for a card, case by case (execute_order, sync_broker_orders).
LEMMA ExposureIs ==
  ASSUME NEW s \in Signals
  PROVE  /\ broker[s] \in {"working", "filled"} => Exposure[s] = "live"
         /\ broker[s] = "dead" => Exposure[s] = "over"
         /\ broker[s] = "inflight" => Exposure[s] = "possible"
         /\ broker[s] = "absent" /\ MayStillPost(s) => Exposure[s] = "possible"
         /\ broker[s] = "absent" /\ ~MayStillPost(s) => Exposure[s] = "none"
         /\ broker[s] = "refused" => Exposure[s] = "none"
  BY DEF Exposure

\* The same case analysis in the state a step leads to.
LEMMA ExposureWillBe ==
  ASSUME NEW s \in Signals
  PROVE  /\ broker'[s] \in {"working", "filled"} => Exposure'[s] = "live"
         /\ broker'[s] = "dead" => Exposure'[s] = "over"
         /\ broker'[s] = "inflight" => Exposure'[s] = "possible"
         /\ broker'[s] = "absent" /\ MayStillPost(s)' => Exposure'[s] = "possible"
         /\ broker'[s] = "absent" /\ ~MayStillPost(s)' => Exposure'[s] = "none"
         /\ broker'[s] = "refused" => Exposure'[s] = "none"
  BY DEF Exposure

\* A card whose order and sender are left alone keeps its exposure.
LEMMA ExposureKept ==
  ASSUME NEW s \in Signals, broker'[s] = broker[s], MayStillPost(s)' <=> MayStillPost(s)
  PROVE  Exposure'[s] = Exposure[s]
  BY DEF Exposure

\* A step that keeps every other card's exposure changes one entry of the function.
LEMMA ExposureMoves ==
  /\ Exposure = [t \in Signals |-> Exposure[t]]
  /\ Exposure' = [t \in Signals |-> Exposure'[t]]
<1>1. Exposure = [t \in Signals |-> Exposure[t]]
  BY DEF Exposure
<1>2. Exposure' = [t \in Signals |-> Exposure'[t]]
  BY DEF Exposure
<1> QED
  BY <1>1, <1>2

\* A step that changes one card's status changes one entry of the reservations.
LEMMA ReservationMoves ==
  ASSUME NEW s \in Signals, NEW x, DOMAIN signal = Signals, signal' = [signal EXCEPT ![s] = x]
  PROVE  Reservation' = [Reservation EXCEPT ![s] = Reservation'[s]]
<1>1. \A t \in Signals \ {s} : signal'[t] = signal[t]
  OBVIOUS
<1>2. \A t \in Signals \ {s} : Reservation'[t] = Reservation[t]
  BY <1>1 DEF Reservation
<1>3. Reservation = [t \in Signals |-> Reservation[t]] /\ Reservation' = [t \in Signals |-> Reservation'[t]]
  BY DEF Reservation
<1> QED
  BY Zenon, <1>2, <1>3

\* An order that may still be sent was never sent, so the broker knows nothing of it.
LEMMA UnsentIsAbsent ==
  ASSUME IndInv, NEW s \in Signals, MayStillPost(s)
  PROVE  work[s] = "submitting" /\ broker[s] = "absent"
  BY DEF IndInv, TypeOK, RowsOK, TasksOK, StatusKnowledge, WorkerKnowledge, MayStillPost

\* An order that may be on its way belongs to an unresolved submission, hence to the head of
\* the queue (resolve_entry, claim_entry).
LEMMA PossibleIsUnresolved ==
  ASSUME IndInv, NEW s \in Signals, Exposure[s] = "possible"
  PROVE  work[s] \in Unresolved
<1> USE DEF IndInv, TypeOK, RowsOK
<1>1. broker[s] = "inflight" \/ MayStillPost(s)
  BY DEF Exposure
<1>2. CASE MayStillPost(s)
  BY <1>2, UnsentIsAbsent
<1>3. CASE broker[s] = "inflight"
  BY <1>3 DEF StatusKnowledge, Blocking
<1> QED
  BY <1>1, <1>2, <1>3

\* Before any card is authorized, nothing is reserved and nothing is exposed.
LEMMA MappedInit == Init => Promise!AInit
  BY DEF Init, Promise!AInit, Reservation, Authority, Exposure, MayStillPost

\* Every step of the queue is one step of the promise, or leaves what it speaks of unchanged.
LEMMA MappedNext == IndInv /\ [Next]_vars => [Promise!ANext]_(Promise!avars)
<1> SUFFICES ASSUME IndInv, [Next]_vars
             PROVE  Promise!ANext \/ UNCHANGED <<Reservation, Authority, Exposure>>
  BY DEF Promise!avars
<1> USE NoOneAssumption DEF IndInv, TypeOK, RowsOK, TasksOK
\* One promised step of a card is enough.
<1>a. ASSUME NEW s \in Signals,
             \/ Promise!Withdraw(s) \/ Promise!Reserve(s) \/ Promise!Commit(s)
             \/ Promise!Settle(s) \/ Promise!Place(s) \/ Promise!Release(s)
      PROVE Promise!ANext
  BY <1>a DEF Promise!ANext
<1>1. ASSUME NEW s \in Signals, ExpireSignal(s) \/ DismissSignal(s) PROVE Promise!Withdraw(s)
  <2>1. UNCHANGED <<Authority, Exposure>>
    BY <1>1, MappingFrame DEF ExpireSignal, DismissSignal, MayStillPost
  <2>2. Reservation[s] = "open" /\ Reservation' = [Reservation EXCEPT ![s] = "withdrawn"]
    <3>1. CASE ExpireSignal(s)
      <4>1. signal[s] = "PENDING" /\ signal' = [signal EXCEPT ![s] = "EXPIRED"]
        BY <3>1 DEF ExpireSignal
      <4>2. Reservation' = [Reservation EXCEPT ![s] = Reservation'[s]]
        BY Zenon, <4>1, ReservationMoves
      <4> QED
        BY <4>1, <4>2 DEF Reservation
    <3>2. CASE DismissSignal(s)
      <4>1. signal[s] = "PENDING" /\ signal' = [signal EXCEPT ![s] = "DISMISSED"]
        BY <3>2 DEF DismissSignal
      <4>2. Reservation' = [Reservation EXCEPT ![s] = Reservation'[s]]
        BY Zenon, <4>1, ReservationMoves
      <4> QED
        BY <4>1, <4>2 DEF Reservation
    <3> QED
      BY <1>1, <3>1, <3>2
  <2> QED
    BY <2>1, <2>2 DEF Promise!Withdraw
<1>2. ASSUME NEW s \in Signals, EnqueueEntry(s) PROVE Promise!Reserve(s)
  <2>1. UNCHANGED <<Authority, Exposure>>
    BY <1>2, MappingFrame DEF EnqueueEntry, MayStillPost
  <2>2. Reservation[s] = "open" /\ Reservation' = [Reservation EXCEPT ![s] = "reserved"]
    <3>1. signal[s] = "PENDING" /\ signal' = [signal EXCEPT ![s] = "SUBMITTING"]
      BY <1>2 DEF EnqueueEntry
    <3>2. Reservation' = [Reservation EXCEPT ![s] = Reservation'[s]]
      BY Zenon, <3>1, ReservationMoves
    <3> QED
      BY <3>1, <3>2 DEF Reservation
  <2> QED
    BY <2>1, <2>2 DEF Promise!Reserve
<1>3. ASSUME NEW s \in Signals, ObserveTerminalOrder(s) PROVE Promise!Release(s)
  <2>1. UNCHANGED <<Authority, Exposure>>
    BY <1>3, MappingFrame DEF ObserveTerminalOrder, MayStillPost
  <2>2. Exposure[s] = "over"
    BY <1>3, ExposureIs DEF ObserveTerminalOrder
  <2>3. Reservation[s] = "placed" /\ Reservation' = [Reservation EXCEPT ![s] = "released"]
    <3>1. signal[s] = "EXECUTED" /\ signal' = [signal EXCEPT ![s] = "FAILED"]
      BY <1>3 DEF ObserveTerminalOrder
    <3>2. Reservation' = [Reservation EXCEPT ![s] = Reservation'[s]]
      BY Zenon, <3>1, ReservationMoves
    <3> QED
      BY <3>1, <3>2 DEF Reservation
  <2> QED
    BY <2>1, <2>2, <2>3 DEF Promise!Release
<1>4. ASSUME NEW s \in Signals, OrderArrives(s) PROVE Promise!Settle(s)
  <2>1. UNCHANGED <<Reservation, Authority>>
    BY <1>4, MappingFrame DEF OrderArrives
  <2>2. PICK result \in {"working", "filled", "dead", "refused", "absent"} :
             broker' = [broker EXCEPT ![s] = result]
    BY Zenon, <1>4 DEF OrderArrives
  <2>3. ~MayStillPost(s) /\ \A t \in Signals : MayStillPost(t)' <=> MayStillPost(t)
    BY <1>4, UnsentIsAbsent DEF OrderArrives, MayStillPost
  <2>4. Exposure[s] = "possible"
    BY <1>4 DEF OrderArrives, Exposure
  <2>5. Exposure'[s] \in {"none", "live", "over"}
    BY <2>2, <2>3 DEF Exposure
  <2>6. \A t \in Signals \ {s} : Exposure'[t] = Exposure[t]
    BY <2>2, <2>3 DEF Exposure
  <2>7. Exposure' = [Exposure EXCEPT ![s] = Exposure'[s]]
    BY <2>6, ExposureMoves
  <2> QED
    BY <2>1, <2>4, <2>5, <2>7 DEF Promise!Settle
<1>5. ASSUME NEW s \in Signals, OrderEnds(s) PROVE Promise!End({s}) \/ UNCHANGED Exposure
  <2>1. PICK result \in {"filled", "dead"} : broker' = [broker EXCEPT ![s] = result]
    BY Zenon, <1>5 DEF OrderEnds
  <2>2. \A t \in Signals : MayStillPost(t)' <=> MayStillPost(t)
    BY <1>5 DEF OrderEnds, MayStillPost
  <2>3. Exposure[s] = "live"
    BY <1>5, ExposureIs DEF OrderEnds
  <2>4. CASE result = "filled"
    BY <1>5, <2>1, <2>2, <2>4 DEF OrderEnds, Exposure
  <2>5. CASE result = "dead"
    <3>1. Exposure' = [t \in Signals |-> IF t \in {s} THEN "over" ELSE Exposure[t]]
      <4>1. Exposure'[s] = "over"
        BY <2>1, <2>5, ExposureWillBe
      <4>2. ASSUME NEW t \in Signals, t # s PROVE Exposure'[t] = Exposure[t]
        <5>1. broker'[t] = broker[t]
          BY <2>1, <4>2
        <5> QED
          BY <2>2, <5>1, ExposureKept
      <4> QED
        BY <4>1, <4>2, ExposureMoves
    <3>2. UNCHANGED <<Reservation, Authority>>
      BY <1>5, MappingFrame DEF OrderEnds
    <3> QED
      BY <2>3, <3>1, <3>2 DEF Promise!End
  <2> QED
    BY <2>1, <2>4, <2>5
<1>6. ASSUME NEW w \in Workers, BeginSubmission(w) PROVE Promise!Commit(item[w])
  <2> DEFINE s == item[w]
  <2>1. s \in Signals /\ work[s] = "checking" /\ signal[s] = "SUBMITTING" /\ begun[s] = 0 /\ broker[s] = "absent"
    <3>1. step[w] = "cleared" /\ work[s] = "checking" /\ signal[s] = "SUBMITTING"
      BY Zenon, <1>6 DEF BeginSubmission, MayBegin
    <3>2. s \in Signals
      BY <3>1, ItemAtWork
    <3>3. begun[s] = 0 /\ posts[s] <= begun[s] /\ (posts[s] = 0 => broker[s] = "absent")
      BY <3>1, <3>2 DEF StatusKnowledge
    <3>4. posts[s] = 0
      BY <3>2, <3>3
    <3> QED
      BY <3>1, <3>2, <3>3, <3>4
  <2>2. Reservation[s] = "reserved" /\ UNCHANGED Reservation
    BY <1>6, <2>1, MappingFrame DEF BeginSubmission, Reservation
  <2>3. Authority[s] = "unused" /\ Authority' = [Authority EXCEPT ![s] = "spent"]
    <3>1. begun'[s] # 0 /\ \A t \in Signals : t # s => begun'[t] = begun[t]
      BY <1>6, <2>1 DEF BeginSubmission
    <3>2. Authority[s] = "unused"
      BY <2>1 DEF Authority
    <3>3. \A t \in Signals : Authority'[t] = IF t = s THEN "spent" ELSE Authority[t]
      BY <3>1 DEF Authority
    <3>4. Authority = [t \in Signals |-> Authority[t]] /\ Authority' = [t \in Signals |-> Authority'[t]]
      BY DEF Authority
    <3> QED
      BY <3>2, <3>3, <3>4
  <2>4. ASSUME NEW t \in Signals, Exposure[t] = "possible" PROVE FALSE
    <3>1. work[t] \in Unresolved
      BY <2>4, PossibleIsUnresolved
    <3>2. QueueHead(t) /\ QueueHead(s)
      BY <2>1, <3>1 DEF QueueKnowledge, HeadSerialises
    <3>3. sequence[s] = sequence[t]
      BY <2>1, <3>2 DEF QueueHead
    <3> QED
      BY <2>1, <3>1, <3>3 DEF QueueKnowledge
  <2>5. \A t \in Signals : MayStillPost(t)' <=> (MayStillPost(t) \/ t = s)
    BY <1>6, <2>1 DEF BeginSubmission, MayStillPost
  <2>6. Exposure' = [Exposure EXCEPT ![s] = "possible"]
    <3>1. Exposure'[s] = "possible"
      BY Zenon, <1>6, <2>1, <2>5, ExposureWillBe DEF BeginSubmission
    <3>2. ASSUME NEW t \in Signals, t # s PROVE Exposure'[t] = Exposure[t]
      <4>1. broker' = broker
        BY <1>6 DEF BeginSubmission, brokerVars
      <4> QED
        BY Zenon, <2>5, <3>2, <4>1, ExposureKept
    <3> QED
      BY <3>1, <3>2, ExposureMoves
  <2> QED
    BY Zenon, <2>1, <2>2, <2>3, <2>4, <2>6 DEF Promise!Commit
\* Whoever stops before the POST takes the order that might have been sent with it.
<1>7. ASSUME NEW w \in Workers, step[w] = "submitting", step' = [step EXCEPT ![w] = step'[w]],
             step'[w] # "submitting", item' \in {item, [item EXCEPT ![w] = NoOne]},
             UNCHANGED <<signal, begun, broker>>
      PROVE Promise!Settle(item[w])
  <2> DEFINE s == item[w]
  <2>1. s \in Signals /\ MayStillPost(s)
    BY <1>7 DEF WorkerKnowledge, MayStillPost
  <2>2. broker[s] = "absent"
    BY <2>1, UnsentIsAbsent
  <2>3. \A t \in Signals : MayStillPost(t)' <=> (MayStillPost(t) /\ t # s)
    BY <1>7, OneSubmitter DEF MayStillPost
  <2>4. Exposure[s] = "possible" /\ Exposure' = [Exposure EXCEPT ![s] = "none"]
    <3>1. Exposure[s] = "possible" /\ Exposure'[s] = "none"
      BY Zenon, <1>7, <2>1, <2>2, <2>3, ExposureIs, ExposureWillBe
    <3>2. ASSUME NEW t \in Signals, t # s PROVE Exposure'[t] = Exposure[t]
      BY <1>7, <2>3, <3>2, ExposureKept
    <3> QED
      BY <3>1, <3>2, ExposureMoves
  <2>5. UNCHANGED <<Reservation, Authority>>
    BY <1>7, MappingFrame
  <2> QED
    BY <2>1, <2>4, <2>5 DEF Promise!Settle
<1>8. ASSUME NEW w \in Workers, LocalRefusal(w) PROVE Promise!Settle(item[w])
  BY Zenon, <1>7, <1>8 DEF LocalRefusal
<1>9. ASSUME NEW w \in Workers, WorkerCrashes(w)
      PROVE (item[w] \in Signals /\ Promise!Settle(item[w])) \/ UNCHANGED <<Reservation, Authority, Exposure>>
  <2>1. CASE step[w] = "submitting"
    <3>1. item[w] \in Signals
      BY <2>1, ItemAtWork
    <3>2. step' = [step EXCEPT ![w] = step'[w]] /\ step'[w] # "submitting"
      BY <1>9 DEF WorkerCrashes
    <3>3. item' = [item EXCEPT ![w] = NoOne] /\ UNCHANGED <<signal, begun, broker>>
      BY <1>9 DEF WorkerCrashes
    <3> QED
      BY Zenon, <1>7, <2>1, <3>1, <3>2, <3>3
  <2>2. CASE step[w] # "submitting"
    BY <1>9, <2>2, MappingFrame DEF WorkerCrashes, MayStillPost
  <2> QED
    BY <2>1, <2>2
<1>10. ASSUME NEW w \in Workers, PostOrder(w) PROVE UNCHANGED <<Reservation, Authority, Exposure>>
  <2> DEFINE s == item[w]
  <2>1. s \in Signals /\ MayStillPost(s)
    <3>1. step[w] = "submitting"
      BY Zenon, <1>10 DEF PostOrder
    <3>2. s \in Signals
      BY <3>1, ItemAtWork
    <3> QED
      BY Zenon, <3>1, <3>2 DEF MayStillPost
  <2>2. broker[s] = "absent"
    BY <2>1, UnsentIsAbsent
  <2>3. \A t \in Signals \ {s} : MayStillPost(t)' <=> MayStillPost(t)
    BY <1>10 DEF PostOrder, MayStillPost
  <2>4. broker' = [broker EXCEPT ![s] = "inflight"]
    BY <1>10, <2>1, <2>2 DEF PostOrder
  <2>5. UNCHANGED Exposure
    BY <2>1, <2>2, <2>3, <2>4 DEF Exposure
  <2> QED
    BY <1>10, <2>5, MappingFrame DEF PostOrder
\* A result that settles a card finds what it says at the broker.
<1>11. ASSUME NEW s \in Signals, NEW result \in Results, SaveResult(s, result), Blocking(s),
              UNCHANGED broker, \A t \in Signals : MayStillPost(t)' <=> MayStillPost(t),
              result = "accepted" => broker[s] \in Arrived,
              result = "rejected" => broker[s] \in {"absent", "refused", "dead"} /\ ~MayStillPost(s)
       PROVE Promise!Place(s) \/ Promise!Release(s) \/ UNCHANGED <<Reservation, Authority, Exposure>>
  <2>1. UNCHANGED <<Authority, Exposure>>
    BY <1>11, MappingFrame DEF SaveResult
  <2>2. signal[s] = "SUBMITTING" /\ Reservation[s] = "reserved"
    BY <1>11 DEF StatusKnowledge, Blocking, Reservation
  <2>3. CASE result = "accepted"
    <3>1. Exposure[s] \in {"live", "over"}
      BY Zenon, <1>11, <2>3, ExposureIs DEF Arrived
    <3>2. Reservation' = [Reservation EXCEPT ![s] = "placed"]
      <4>1. signal[s] = "SUBMITTING" /\ signal' = [signal EXCEPT ![s] = "EXECUTED"]
        BY Zenon, <1>11, <2>2, <2>3 DEF SaveResult, ResolvedSignal
      <4>2. Reservation' = [Reservation EXCEPT ![s] = Reservation'[s]]
        BY Zenon, <4>1, ReservationMoves
      <4> QED
        BY <4>1, <4>2 DEF Reservation
    <3> QED
      BY Zenon, <2>1, <2>2, <3>1, <3>2 DEF Promise!Place
  <2>4. CASE result = "rejected"
    <3>1. Exposure[s] \in {"none", "over"}
      BY <1>11, <2>4 DEF Exposure
    <3>2. Reservation' = [Reservation EXCEPT ![s] = "released"]
      <4>1. signal[s] = "SUBMITTING" /\ signal' = [signal EXCEPT ![s] = "FAILED"]
        BY Zenon, <1>11, <2>2, <2>4 DEF SaveResult, ResolvedSignal
      <4>2. Reservation' = [Reservation EXCEPT ![s] = Reservation'[s]]
        BY Zenon, <4>1, ReservationMoves
      <4> QED
        BY <4>1, <4>2 DEF Reservation
    <3> QED
      BY Zenon, <2>1, <2>2, <3>1, <3>2 DEF Promise!Release
  <2>5. CASE result = "uncertain"
    BY <1>11, <2>1, <2>5, MappingFrame DEF SaveResult, ResolvedSignal
  <2> QED
    BY <1>11, <2>3, <2>4, <2>5
<1>12. ASSUME NEW w \in Workers, ResolveOwnEntry(w)
       PROVE Promise!ANext \/ UNCHANGED <<Reservation, Authority, Exposure>>
  <2> DEFINE s == item[w]
             result == IF step[w] = "refused" THEN "rejected" ELSE reply[w]
  <2>1. s \in Signals /\ result \in Results
    <3>1. step[w] \in {"refused", "answered"}
      BY Zenon, <1>12 DEF ResolveOwnEntry
    <3>2. s \in Signals
      BY <3>1, ItemAtWork
    <3> QED
      BY <3>1, <3>2 DEF Results
  <2>2. UNCHANGED broker /\ \A t \in Signals : MayStillPost(t)' <=> MayStillPost(t)
    BY <1>12 DEF ResolveOwnEntry, MayStillPost
  <2>3. CASE OwnsResult(w, s)
    <3>1. SaveResult(s, result) /\ Blocking(s) /\ token[s] = w
      BY <1>12, <2>3 DEF ResolveOwnEntry, OwnsResult
    <3>2. ~MayStillPost(s)
      <4>1. step[w] # "submitting" /\ \A v \in Workers : step[v] = "submitting" => token[item[v]] = v
        BY Zenon, <1>12 DEF ResolveOwnEntry, WorkerKnowledge
      <4> QED
        BY <3>1, <4>1 DEF MayStillPost
    <3>3. result = "accepted" => broker[s] \in Arrived
      BY Zenon, <1>12 DEF ResolveOwnEntry, WorkerKnowledge
    <3>4. result = "rejected" => broker[s] \in {"absent", "refused", "dead"}
      <4>1. CASE step[w] = "refused"
        <5>1. work[s] = "checking"
          BY <3>1, <4>1 DEF WorkerKnowledge
        <5>2. begun[s] = 0 /\ posts[s] <= begun[s] /\ (posts[s] = 0 => broker[s] = "absent")
          BY <2>1, <5>1 DEF StatusKnowledge
        <5>3. posts[s] = 0
          BY <2>1, <5>2
        <5> QED
          BY <5>2, <5>3
      <4>2. CASE step[w] = "answered"
        BY <4>2 DEF WorkerKnowledge
      <4> QED
        BY Zenon, <1>12, <4>1, <4>2 DEF ResolveOwnEntry
    <3>5. Promise!Place(s) \/ Promise!Release(s) \/ UNCHANGED <<Reservation, Authority, Exposure>>
      <4> HIDE DEF IndInv, TypeOK, RowsOK, TasksOK, s, result
      <4> QED
        BY <1>11, <2>1, <2>2, <3>1, <3>2, <3>3, <3>4
    <3> QED
      BY Zenon, <1>a, <2>1, <3>5
  <2>4. CASE ~OwnsResult(w, s)
    BY <1>12, <2>2, <2>4, MappingFrame DEF ResolveOwnEntry
  <2> QED
    BY <2>3, <2>4
<1>13. ASSUME NEW r \in Recoverers, ResolveFoundEntry(r)
       PROVE Promise!ANext \/ UNCHANGED <<Reservation, Authority, Exposure>>
  <2> DEFINE s == lookItem[r]
  <2>1. s \in Signals /\ lookReply[r] \in Results
    BY <1>13 DEF ResolveFoundEntry
  <2>2. UNCHANGED broker /\ \A t \in Signals : MayStillPost(t)' <=> MayStillPost(t)
    BY <1>13 DEF ResolveFoundEntry, MayStillPost
  <2>3. CASE Recoverable(s)
    <3>1. SaveResult(s, lookReply[r]) /\ Blocking(s)
      BY <1>13, <2>3 DEF ResolveFoundEntry, Recoverable, Blocking
    <3>2. broker[s] \in Arrived /\ (lookReply[r] = "rejected" => broker[s] = "dead")
      BY <1>13 DEF ResolveFoundEntry, LookupKnowledge
    <3>3. ~MayStillPost(s)
      BY <2>1, <3>2, UnsentIsAbsent
    <3> QED
      BY <1>a, <1>11, <2>1, <2>2, <3>1, <3>2, <3>3
  <2>4. CASE ~Recoverable(s)
    BY <1>13, <2>2, <2>4, MappingFrame DEF ResolveFoundEntry
  <2> QED
    BY <2>3, <2>4
<1>14. CASE PanicCancelAll
  <2> DEFINE S == {s \in Signals : broker[s] = "working"}
  <2>1. UNCHANGED <<Reservation, Authority>>
    BY <1>14, MappingFrame DEF PanicCancelAll
  <2>2. \A t \in Signals : MayStillPost(t)' <=> MayStillPost(t)
    BY <1>14 DEF PanicCancelAll, MayStillPost
  <2>3. CASE UNCHANGED broker
    BY <2>1, <2>2, <2>3, MappingFrame
  <2>4. CASE broker' = [s \in Signals |-> IF broker[s] = "working" THEN "dead" ELSE broker[s]]
    <3>1. \A s \in S : Exposure[s] = "live"
      BY ExposureIs
    <3>2. Exposure' = [s \in Signals |-> IF s \in S THEN "over" ELSE Exposure[s]]
      <4>1. ASSUME NEW s \in S PROVE Exposure'[s] = "over"
        BY <2>4, <4>1, ExposureWillBe
      <4>2. ASSUME NEW s \in Signals \ S PROVE Exposure'[s] = Exposure[s]
        <5>1. broker'[s] = broker[s]
          BY <2>4, <4>2
        <5> QED
          BY <2>2, <4>2, <5>1, ExposureKept
      <4> QED
        BY <4>1, <4>2, ExposureMoves
    <3>3. Promise!End(S)
      BY <2>1, <3>1, <3>2 DEF Promise!End
    <3> QED
      BY <3>3 DEF Promise!ANext
  <2> QED
    BY <1>14, <2>3, <2>4 DEF PanicCancelAll
\* The other steps touch nothing that the mapping reads.
<1>15. ASSUME NEW w \in Workers,
              \/ PreflightPasses(w) \/ PreflightRejects(w) \/ BeginRefuses(w)
              \/ \E result \in Results : Answer(w, result)
              \/ \E s \in Signals : ClaimEntry(w, s)
       PROVE UNCHANGED <<Reservation, Authority, Exposure>>
  <2>1. UNCHANGED <<signal, begun, broker>>
    BY Zenon, <1>15 DEF PreflightPasses, PreflightRejects, BeginRefuses, Answer, ClaimEntry
  <2>2. /\ step[w] # "submitting" /\ step'[w] # "submitting"
        /\ \A v \in Workers \ {w} : step'[v] = step[v] /\ item'[v] = item[v]
    <3>1. CASE PreflightPasses(w) \/ PreflightRejects(w) \/ BeginRefuses(w)
      <4>1. /\ step[w] # "submitting" /\ UNCHANGED item
            /\ \E to \in {"cleared", "refused"} : step' = [step EXCEPT ![w] = to]
        <5> HIDE DEF IndInv, TypeOK, RowsOK, TasksOK
        <5> QED
          BY Zenon, <3>1 DEF PreflightPasses, PreflightRejects, BeginRefuses
      <4> QED
        BY <4>1
    <3>2. ASSUME NEW result \in Results, Answer(w, result)
          PROVE  /\ step[w] # "submitting" /\ step'[w] # "submitting"
                 /\ \A v \in Workers \ {w} : step'[v] = step[v] /\ item'[v] = item[v]
      BY <3>2 DEF Answer
    <3>3. ASSUME NEW s \in Signals, ClaimEntry(w, s)
          PROVE  /\ step[w] # "submitting" /\ step'[w] # "submitting"
                 /\ \A v \in Workers \ {w} : step'[v] = step[v] /\ item'[v] = item[v]
      BY <3>3 DEF ClaimEntry
    <3> QED
      BY Zenon, <1>15, <3>1, <3>2, <3>3
  <2>3. \A t \in Signals : MayStillPost(t)' <=> MayStillPost(t)
    BY Zenon, <2>2 DEF MayStillPost
  <2> QED
    BY <2>1, <2>3, MappingFrame
<1>16. CASE \/ PanicHalt \/ ResumeChecks \/ ResumeClears \/ UNCHANGED vars
            \/ \E s \in Signals : LeaseLapses(s)
            \/ \E r \in Recoverers, s \in Signals : FindEntryOrder(r, s)
  <2>1. UNCHANGED <<signal, begun, broker, step, item>>
    BY Zenon, <1>16 DEF PanicHalt, ResumeChecks, ResumeClears, LeaseLapses, FindEntryOrder, vars
  <2> QED
    BY <2>1, MappingFrame DEF MayStillPost
<1> HIDE DEF IndInv
<1>17. ASSUME NEW s \in Signals,
              \/ ExpireSignal(s) \/ DismissSignal(s) \/ EnqueueEntry(s) \/ ObserveTerminalOrder(s)
              \/ OrderArrives(s) \/ OrderEnds(s) \/ LeaseLapses(s)
       PROVE Promise!ANext \/ UNCHANGED <<Reservation, Authority, Exposure>>
  <2>1. CASE OrderEnds(s)
    <3>1. UNCHANGED <<Reservation, Authority>>
      BY <2>1, MappingFrame DEF OrderEnds
    <3> QED
      BY Zenon, <1>5, <2>1, <3>1 DEF Promise!ANext
  <2> QED
    BY <1>a, <1>1, <1>2, <1>3, <1>4, <1>16, <1>17, <2>1
<1>18. ASSUME NEW w \in Workers, WorkerStep(w) \/ WorkerCrashes(w) \/ \E s \in Signals : ClaimEntry(w, s)
       PROVE Promise!ANext \/ UNCHANGED <<Reservation, Authority, Exposure>>
  <2>1. BeginSubmission(w) \/ LocalRefusal(w) => item[w] \in Signals
    BY Zenon, ItemAtWork DEF BeginSubmission, LocalRefusal
  <2> QED
    BY Zenon, <1>a, <1>6, <1>8, <1>9, <1>10, <1>12, <1>15, <1>18, <2>1 DEF WorkerStep
<1> QED
  BY <1>13, <1>14, <1>16, <1>17, <1>18 DEF Next

\* The queue with its leases, reclaims, crashes, lookups and halts implements the abstract
\* reservation for any cards, workers and recoverers: authority is spent once, one order is
\* on its way at a time, and capacity is released only without exposure (enqueue_entry,
\* begin_submission, resolve_entry, observe_orders).
THEOREM KeepsPromise == Spec => ReservationPromise
  BY Inductive, MappedInit, MappedNext, PTL DEF Spec, ReservationPromise, Promise!ASpec

=============================================================================

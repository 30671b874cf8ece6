----------------------------- MODULE ExitProofs -----------------------------
(***************************************************************************)
(* Theorems about the ways out of an entry or a position: EntryCancel for  *)
(* any set of processes and any number of faults, ReleaseExit for any      *)
(* requests and bound on faults, TrailingStops for any prices.             *)
(*                                                                         *)
(* CancelInv: whoever may send the DELETE is the one owner of the one      *)
(* item; whatever was read of the bracket, journaled or not, is a past     *)
(* state of it, so a terminal reading is its present state; and the        *)
(* statuses say what the journal showed.                                   *)
(*                                                                         *)
(* ReleaseInv: a process at the closes still has every owed close without  *)
(* an outcome to do (FitPass), and a request is at the broker at most once *)
(* because one process holds its claim (FitPost, OnePoster).               *)
(*                                                                         *)
(* TrailInv: the replacement links lead to one order, which is the only    *)
(* one that rests, and a pending replacement is tighter than it; what the  *)
(* desk saves is bounded by that order (OneResting, SavesConfirmed).       *)
(***************************************************************************)
EXTENDS EntryCancel, ReleaseExit, TrailingStops, NaturalsInduction, WellFoundedInduction, TLAPS

(* The cancelled entry. *)

\* The states of an order from which it may have come to the present one.
ParentPast(old, now) ==
    \/ old = now
    \/ old = "working"
    \/ old = "partial" /\ now \in {"filled", "canceled_partial"}

ExitPast(old, now) ==
    \/ old = now
    \/ old = "pending"
    \/ old = "protecting" /\ now \in {"filled", "canceled"}

\* A reading that was true of the bracket when it was made.
Past(g) == ParentPast(g.parent, parent) /\ ExitPast(g.exits, exits)

\* The projections and every reading still to be journaled are past states of the bracket.
ReadingsArePast ==
    /\ Past(view)
    /\ \A p \in Processes : Past(seen[p])

\* The exits protect, fill or end only after their parent.
ExitsFollow == exits # "pending" => parent \in {"filled", "canceled", "canceled_partial"}

\* begin_cancel makes one owner in the item's life, and only the owner may still send the
\* DELETE: it has not been sent before.
OneOwner ==
    /\ \A p, q \in Processes : owner[p] /\ owner[q] => p = q
    /\ \A p \in Processes :
          /\ owner[p] \/ step[p] \in {"deleting", "polling", "observing", "resolving"} => item # "none"
          /\ step[p] = "deleting" => owner[p] /\ deletes = 0
    /\ item = "none" => deletes = 0

\* What the rows say of the bracket.
RowsAreTrue ==
    /\ item = "accepted" => parent = "canceled" /\ exits = "canceled"
    /\ item = "rejected" => parent = "filled" /\ exits # "pending"
    /\ signal = "FAILED" => parent = "canceled"

\* TypeOK by the provers that show its parts.
FlagsOK ==
    /\ refusal \in BOOLEAN /\ executedAt \in BOOLEAN /\ halted \in BOOLEAN
    /\ closing \in BOOLEAN /\ asked \in BOOLEAN

TasksOK ==
    /\ owner \in [Processes -> BOOLEAN]
    /\ failedRead \in [Processes -> BOOLEAN]
    /\ error \in [Processes -> BOOLEAN]
    /\ patient \in [Processes -> BOOLEAN]
    /\ late \in [Processes -> BOOLEAN]

ValuesOK ==
    /\ item \in {"none", "submitting", "unknown", "accepted", "rejected"}
    /\ window \in {"open", "lapsed"}
    /\ signal \in {"EXECUTED", "FAILED"}
    /\ view \in Group
    /\ step \in [Processes -> {"idle", "sighted", "claiming", "deleting", "polling",
                               "observing", "resolving"}]
    /\ seen \in [Processes -> Group]
    /\ parent \in ParentStatus
    /\ exits \in ExitStatus
    /\ deletes \in Nat
    /\ faults \in 0..MaxFaults

\* The inductive invariant.
CancelInv == TypeOK /\ ReadingsArePast /\ ExitsFollow /\ OneOwner /\ RowsAreTrue /\ OneCancel

-----------------------------------------------------------------------------
(* What the operators of the journal do. *)

\* _project_order keeps, of each order, one of two observations.
LEMMA MergeKeeps ==
  ASSUME NEW old, NEW new
  PROVE  /\ Merge(old, new).parent \in {old.parent, new.parent}
         /\ Merge(old, new).exits \in {old.exits, new.exits}
         /\ old \in Group /\ new \in Group => Merge(old, new) \in Group
  BY Zenon DEF Merge, Group

\* So what is journaled after an observation is still a past state of the bracket.
LEMMA MergePast ==
  ASSUME NEW old, NEW new, Past(old), Past(new)
  PROVE  Past(Merge(old, new))
  BY Zenon, MergeKeeps DEF Past

\* A lookup leaves the values it reads in their types, whatever it allows to stay pending.
LEMMA LookupTypes ==
  ASSUME CancelInv, NEW p \in Processes, NEW pending, Lookup(p, pending)
  PROVE  ValuesOK'
<1> USE DEF CancelInv, TypeOK, Lookup, rowVars, brokerVars
<1>1. BrokerGroup \in Group
  BY Zenon DEF BrokerGroup, Group
<1>2. step' \in [Processes -> {"idle", "sighted", "claiming", "deleting", "polling", "observing", "resolving"}]
  BY Zenon
<1>3. seen' \in [Processes -> Group]
  BY Zenon, <1>1
<1>4. faults' \in 0..MaxFaults
  BY MaxFaultsAssumption
<1> QED
  BY Zenon, <1>2, <1>3, <1>4 DEF ValuesOK

-----------------------------------------------------------------------------
(* CancelInv is inductive. *)

\* The stored and the broker's flags stay flags.
LEMMA FlagsNext == CancelInv /\ [Next]_vars => FlagsOK'
<1> SUFFICES ASSUME CancelInv, [Next]_vars PROVE FlagsOK'
  BY Zenon
<1> USE DEF CancelInv, TypeOK, FlagsOK, RowsAreTrue, Unresolved, rowVars, processVars, brokerVars
<1>1. ASSUME NEW p \in Processes, AssessResting(p) PROVE FlagsOK'
  BY Zenon, <1>1 DEF AssessResting, Observe, Merge, Releases
<1>2. ASSUME NEW p \in Processes, SubmitCancel(p) PROVE FlagsOK'
  BY Zenon, <1>2 DEF SubmitCancel
<1>3. ASSUME NEW p \in Processes, ResolveCancel(p) PROVE FlagsOK'
  BY Zenon, <1>3 DEF ResolveCancel, Outcome, Complete, FilledFirst, Settled
<1>4. CASE SyncEntryExecution
  BY Zenon, <1>4 DEF SyncEntryExecution
<1>5. CASE ClaimClose
  BY Zenon, <1>5 DEF ClaimClose, MayClose
<1>6. CASE CloseFails
  BY Zenon, <1>6 DEF CloseFails
<1>7. ASSUME NEW p \in Processes,
             \/ ReadForCancel(p) \/ BeginCancel(p) \/ ObserveGroup(p) \/ DeadlinePasses(p)
             \/ ProcessCrashes(p)
      PROVE FlagsOK'
  BY Zenon, <1>7 DEF ReadForCancel, BeginCancel, ObserveGroup, DeadlinePasses, ProcessCrashes
<1>8. ASSUME NEW p \in Processes,
             PollCancel(p) \/ RecoverCancel(p)
      PROVE FlagsOK'
  BY Zenon, <1>8 DEF PollCancel, Lookup, RecoverCancel
<1>9. CASE WindowLapses \/ ParentFills \/ ParentEnds \/ ExitsMove \/ UNCHANGED vars
  BY Zenon, <1>9 DEF WindowLapses, ParentFills, ParentEnds, ExitsMove, vars
<1> HIDE DEF CancelInv, TypeOK, FlagsOK, RowsAreTrue, Unresolved
<1> QED
  BY Zenon, <1>1, <1>2, <1>3, <1>4, <1>5, <1>6, <1>7, <1>8, <1>9 DEF Next

\* The flags of each process stay flags.
LEMMA TasksNext == CancelInv /\ [Next]_vars => TasksOK'
<1> SUFFICES ASSUME CancelInv, [Next]_vars PROVE TasksOK'
  BY Zenon
<1> USE DEF CancelInv, TypeOK, TasksOK, rowVars, processVars, brokerVars
<1>1. ASSUME NEW p \in Processes, BeginCancel(p) PROVE TasksOK'
  BY Zenon, <1>1 DEF BeginCancel, MayCancel
<1>2. ASSUME NEW p \in Processes, SubmitCancel(p) PROVE TasksOK'
  BY Zenon, <1>2 DEF SubmitCancel
<1>3. ASSUME NEW p \in Processes, PollCancel(p) PROVE TasksOK'
  BY Zenon, <1>3 DEF PollCancel, Lookup
<1>4. ASSUME NEW p \in Processes, RecoverCancel(p) PROVE TasksOK'
  BY Zenon, <1>4 DEF RecoverCancel, Lookup, LookedUp
<1>5. ASSUME NEW p \in Processes, ResolveCancel(p) PROVE TasksOK'
  BY Zenon, <1>5 DEF ResolveCancel, Outcome, Complete, FilledFirst, Settled
<1>6. ASSUME NEW p \in Processes, DeadlinePasses(p) PROVE TasksOK'
  BY Zenon, <1>6 DEF DeadlinePasses
<1>7. ASSUME NEW p \in Processes, ProcessCrashes(p) PROVE TasksOK'
  BY Zenon, <1>7 DEF ProcessCrashes
<1>8. ASSUME NEW p \in Processes,
             ReadForCancel(p) \/ AssessResting(p) \/ ObserveGroup(p)
      PROVE TasksOK'
  BY Zenon, <1>8 DEF ReadForCancel, AssessResting, ObserveGroup
<1>9. CASE \/ WindowLapses \/ SyncEntryExecution \/ ClaimClose \/ CloseFails \/ ParentFills
          \/ ParentEnds \/ ExitsMove \/ UNCHANGED vars
  BY Zenon, <1>9 DEF WindowLapses, SyncEntryExecution, ClaimClose, CloseFails, ParentFills, ParentEnds,
         ExitsMove, vars
<1> HIDE DEF CancelInv, TypeOK, TasksOK
<1> QED
  BY Zenon, <1>1, <1>2, <1>3, <1>4, <1>5, <1>6, <1>7, <1>8, <1>9 DEF Next

\* The statuses, the readings and the counters keep their types.
LEMMA ValuesNext == CancelInv /\ [Next]_vars => ValuesOK'
<1> SUFFICES ASSUME CancelInv, [Next]_vars PROVE ValuesOK'
  BY Zenon
<1> USE MaxFaultsAssumption DEF CancelInv, TypeOK, ValuesOK, Group, ParentStatus, ExitStatus, Resting,
        BrokerGroup, rowVars, processVars, brokerVars
<1>1. ASSUME NEW p \in Processes, ReadForCancel(p) PROVE ValuesOK'
  BY <1>1 DEF ReadForCancel
<1>2. ASSUME NEW p \in Processes, AssessResting(p) PROVE ValuesOK'
  BY Zenon, <1>2, MergeKeeps DEF AssessResting, Observe
<1>3. ASSUME NEW p \in Processes, BeginCancel(p) PROVE ValuesOK'
  BY <1>3 DEF BeginCancel, MayCancel
<1>4. ASSUME NEW p \in Processes, SubmitCancel(p) PROVE ValuesOK'
  BY <1>4 DEF SubmitCancel
<1>5. ASSUME NEW p \in Processes, PollCancel(p) PROVE ValuesOK'
  BY Zenon, <1>5, LookupTypes DEF PollCancel
<1>6. ASSUME NEW p \in Processes, RecoverCancel(p) PROVE ValuesOK'
  BY Zenon, <1>6, LookupTypes DEF RecoverCancel
<1>7. ASSUME NEW p \in Processes, ObserveGroup(p) PROVE ValuesOK'
  BY <1>7, MergeKeeps DEF ObserveGroup, Observe
<1>8. ASSUME NEW p \in Processes, ResolveCancel(p) PROVE ValuesOK'
  BY <1>8 DEF ResolveCancel, Outcome, Complete, FilledFirst, Settled
<1>9. ASSUME NEW p \in Processes, ProcessCrashes(p) PROVE ValuesOK'
  BY <1>9 DEF ProcessCrashes
<1>10. CASE WindowLapses
  BY <1>10 DEF WindowLapses
<1>11. CASE ParentFills
  BY <1>11 DEF ParentFills
<1>12. CASE ParentEnds
  BY <1>12 DEF ParentEnds
<1>13. CASE ExitsMove
  BY <1>13 DEF ExitsMove
<1>14. ASSUME NEW p \in Processes,
             DeadlinePasses(p)
      PROVE ValuesOK'
  BY <1>14 DEF DeadlinePasses
<1>15. CASE SyncEntryExecution \/ ClaimClose \/ CloseFails \/ UNCHANGED vars
  BY <1>15 DEF SyncEntryExecution, ClaimClose, CloseFails, vars
<1> HIDE DEF CancelInv, TypeOK, ValuesOK, Group, ParentStatus, ExitStatus, Resting, BrokerGroup
<1> QED
  BY Zenon, <1>1, <1>2, <1>3, <1>4, <1>5, <1>6, <1>7, <1>8, <1>9, <1>10, <1>11, <1>12, <1>13, <1>14, <1>15 DEF Next

\* begin_cancel's dedup lookup leaves one owner, and recovery never gets to the DELETE.
LEMMA OwnerNext == CancelInv /\ [Next]_vars => OneOwner'
<1> SUFFICES ASSUME CancelInv, [Next]_vars PROVE OneOwner'
  BY Zenon
<1> USE DEF CancelInv, TypeOK, OneOwner, OneCancel, Unresolved, rowVars, processVars, brokerVars
<1>1. ASSUME NEW p \in Processes, ReadForCancel(p) PROVE OneOwner'
  BY Zenon, <1>1 DEF ReadForCancel
<1>2. ASSUME NEW p \in Processes, AssessResting(p) PROVE OneOwner'
  BY Zenon, <1>2 DEF AssessResting, Observe, Merge, Releases
<1>3. ASSUME NEW p \in Processes, BeginCancel(p) PROVE OneOwner'
  BY <1>3 DEF BeginCancel, MayCancel
<1>4. ASSUME NEW p \in Processes, SubmitCancel(p) PROVE OneOwner'
  BY Zenon, <1>4 DEF SubmitCancel
<1>5. ASSUME NEW p \in Processes, PollCancel(p) PROVE OneOwner'
  BY <1>5 DEF PollCancel, Lookup
<1>6. ASSUME NEW p \in Processes, RecoverCancel(p) PROVE OneOwner'
  BY <1>6 DEF RecoverCancel, Lookup, LookedUp
<1>7. ASSUME NEW p \in Processes, ObserveGroup(p) PROVE OneOwner'
  BY Zenon, <1>7 DEF ObserveGroup, Observe, Merge, Releases
<1>8. ASSUME NEW p \in Processes, ResolveCancel(p) PROVE OneOwner'
  BY <1>8 DEF ResolveCancel, Outcome, Complete, FilledFirst, Settled
<1>9. ASSUME NEW p \in Processes, ProcessCrashes(p) PROVE OneOwner'
  BY <1>9 DEF ProcessCrashes
<1>10. ASSUME NEW p \in Processes,
             DeadlinePasses(p)
      PROVE OneOwner'
  BY Zenon, <1>10 DEF DeadlinePasses
<1>11. CASE \/ WindowLapses \/ SyncEntryExecution \/ ClaimClose \/ CloseFails \/ ParentFills
          \/ ParentEnds \/ ExitsMove \/ UNCHANGED vars
  BY <1>11 DEF WindowLapses, SyncEntryExecution, ClaimClose, CloseFails, ParentFills, ParentEnds,
         ExitsMove, vars
<1> HIDE DEF CancelInv, TypeOK, OneOwner, OneCancel, Unresolved
<1> QED
  BY Zenon, <1>1, <1>2, <1>3, <1>4, <1>5, <1>6, <1>7, <1>8, <1>9, <1>10, <1>11 DEF Next

\* The bracket moves forward, and merging past readings gives a past reading.
LEMMA ReadingsNext == CancelInv /\ [Next]_vars => ReadingsArePast'
<1> SUFFICES ASSUME CancelInv, [Next]_vars PROVE ReadingsArePast'
  BY Zenon
<1> USE DEF CancelInv, TypeOK, ReadingsArePast, ExitsFollow, Past, ParentPast, ExitPast, ParentStatus,
        ExitStatus, Resting, BrokerGroup, rowVars, processVars, brokerVars
<1>1. ASSUME NEW p \in Processes, ReadForCancel(p) PROVE ReadingsArePast'
  BY <1>1 DEF ReadForCancel
<1>2. ASSUME NEW p \in Processes, AssessResting(p) PROVE ReadingsArePast'
  BY <1>2, MergePast DEF AssessResting, Observe
<1>3. ASSUME NEW p \in Processes, PollCancel(p) PROVE ReadingsArePast'
  BY <1>3 DEF PollCancel, Lookup
<1>4. ASSUME NEW p \in Processes, RecoverCancel(p) PROVE ReadingsArePast'
  BY <1>4 DEF RecoverCancel, Lookup, LookedUp
<1>5. ASSUME NEW p \in Processes, ObserveGroup(p) PROVE ReadingsArePast'
  BY <1>5, MergePast DEF ObserveGroup, Observe
<1>6. ASSUME NEW p \in Processes, ProcessCrashes(p) PROVE ReadingsArePast'
  BY <1>6 DEF ProcessCrashes
<1>7. CASE ParentFills
  BY <1>7 DEF ParentFills
<1>8. CASE ParentEnds
  BY Zenon, <1>8 DEF ParentEnds
<1>9. CASE ExitsMove
  BY Zenon, <1>9 DEF ExitsMove
<1>10. ASSUME NEW p \in Processes,
             BeginCancel(p) \/ SubmitCancel(p) \/ ResolveCancel(p) \/ DeadlinePasses(p)
      PROVE ReadingsArePast'
  BY <1>10 DEF BeginCancel, SubmitCancel, ResolveCancel, DeadlinePasses
<1>11. CASE WindowLapses \/ SyncEntryExecution \/ ClaimClose \/ CloseFails \/ UNCHANGED vars
  BY <1>11 DEF WindowLapses, SyncEntryExecution, ClaimClose, CloseFails, vars
<1> HIDE DEF CancelInv, TypeOK, ReadingsArePast, ExitsFollow, Past, ParentPast, ExitPast, ParentStatus,
         ExitStatus, Resting, BrokerGroup
<1> QED
  BY Zenon, <1>1, <1>2, <1>3, <1>4, <1>5, <1>6, <1>7, <1>8, <1>9, <1>10, <1>11 DEF Next

\* The exits never move before their parent has ended or filled.
LEMMA ExitsNext == CancelInv /\ [Next]_vars => ExitsFollow'
<1> SUFFICES ASSUME CancelInv, [Next]_vars PROVE ExitsFollow'
  BY Zenon
<1> USE DEF CancelInv, TypeOK, ExitsFollow, rowVars, processVars, brokerVars
<1>1. CASE ParentFills
  BY Zenon, <1>1 DEF ParentFills
<1>2. CASE ParentEnds
  BY Zenon, <1>2 DEF ParentEnds
<1>3. CASE ExitsMove
  BY Zenon, <1>3 DEF ExitsMove
<1>4. ASSUME NEW p \in Processes,
             \/ ReadForCancel(p) \/ AssessResting(p) \/ BeginCancel(p) \/ SubmitCancel(p)
             \/ ObserveGroup(p) \/ ResolveCancel(p) \/ DeadlinePasses(p) \/ ProcessCrashes(p)
      PROVE ExitsFollow'
  BY Zenon, <1>4 DEF ReadForCancel, AssessResting, BeginCancel, SubmitCancel, ObserveGroup, ResolveCancel,
         DeadlinePasses, ProcessCrashes
<1>5. ASSUME NEW p \in Processes,
             PollCancel(p) \/ RecoverCancel(p)
      PROVE ExitsFollow'
  BY Zenon, <1>5 DEF PollCancel, Lookup, RecoverCancel
<1>6. CASE WindowLapses \/ SyncEntryExecution \/ ClaimClose \/ CloseFails \/ UNCHANGED vars
  BY Zenon, <1>6 DEF WindowLapses, SyncEntryExecution, ClaimClose, CloseFails, vars
<1> HIDE DEF CancelInv, TypeOK, ExitsFollow
<1> QED
  BY Zenon, <1>1, <1>2, <1>3, <1>4, <1>5, <1>6 DEF Next

\* A verdict and a release are read off terminal observations, which do not change any more.
LEMMA RowsNext == CancelInv /\ [Next]_vars => RowsAreTrue'
<1> SUFFICES ASSUME CancelInv, [Next]_vars PROVE RowsAreTrue'
  BY Zenon
<1> USE DEF CancelInv, TypeOK, ReadingsArePast, ExitsFollow, RowsAreTrue, Past, ParentPast, ExitPast,
        ParentStatus, ExitStatus, Resting, BrokerGroup, rowVars, processVars, brokerVars
<1>1. ASSUME NEW p \in Processes, AssessResting(p) PROVE RowsAreTrue'
  BY <1>1, MergePast DEF AssessResting, Observe, Releases
<1>2. ASSUME NEW p \in Processes, BeginCancel(p) PROVE RowsAreTrue'
  BY Zenon, <1>2 DEF BeginCancel, MayCancel
<1>3. ASSUME NEW p \in Processes, ObserveGroup(p) PROVE RowsAreTrue'
  BY Zenon, <1>3, MergePast DEF ObserveGroup, Observe, Releases
<1>4. ASSUME NEW p \in Processes, ResolveCancel(p) PROVE RowsAreTrue'
  BY <1>4 DEF ResolveCancel, Outcome, Complete, FilledFirst, Settled
<1>5. CASE ParentFills
  BY Zenon, <1>5 DEF ParentFills
<1>6. CASE ParentEnds
  BY Zenon, <1>6 DEF ParentEnds
<1>7. CASE ExitsMove
  BY Zenon, <1>7 DEF ExitsMove
<1>8. ASSUME NEW p \in Processes,
             ReadForCancel(p) \/ SubmitCancel(p) \/ DeadlinePasses(p) \/ ProcessCrashes(p)
      PROVE RowsAreTrue'
  BY <1>8 DEF ReadForCancel, SubmitCancel, DeadlinePasses, ProcessCrashes
<1>9. ASSUME NEW p \in Processes,
             PollCancel(p) \/ RecoverCancel(p)
      PROVE RowsAreTrue'
  BY <1>9 DEF PollCancel, Lookup, RecoverCancel
<1>10. CASE WindowLapses \/ SyncEntryExecution \/ ClaimClose \/ CloseFails \/ UNCHANGED vars
  BY <1>10 DEF WindowLapses, SyncEntryExecution, ClaimClose, CloseFails, vars
<1> HIDE DEF CancelInv, TypeOK, ReadingsArePast, ExitsFollow, RowsAreTrue, Past, ParentPast, ExitPast,
         ParentStatus, ExitStatus, Resting, BrokerGroup
<1> QED
  BY Zenon, <1>1, <1>2, <1>3, <1>4, <1>5, <1>6, <1>7, <1>8, <1>9, <1>10 DEF Next

\* The claim of a cancellation and the claim of a close each look for the other.
LEMMA OneCancelNext == CancelInv /\ [Next]_vars => OneCancel'
<1> SUFFICES ASSUME CancelInv, [Next]_vars PROVE OneCancel'
  BY Zenon
<1> USE DEF CancelInv, TypeOK, OneOwner, OneCancel, Unresolved, rowVars, processVars, brokerVars
<1>1. ASSUME NEW p \in Processes, AssessResting(p) PROVE OneCancel'
  BY Zenon, <1>1 DEF AssessResting, Observe, Merge, Releases
<1>2. ASSUME NEW p \in Processes, BeginCancel(p) PROVE OneCancel'
  BY Zenon, <1>2 DEF BeginCancel, MayCancel
<1>3. ASSUME NEW p \in Processes, SubmitCancel(p) PROVE OneCancel'
  BY <1>3 DEF SubmitCancel
<1>4. ASSUME NEW p \in Processes, ResolveCancel(p) PROVE OneCancel'
  BY Zenon, <1>4 DEF ResolveCancel, Outcome, Complete, FilledFirst, Settled
<1>5. CASE ClaimClose
  BY Zenon, <1>5 DEF ClaimClose, MayClose
<1>6. CASE CloseFails
  BY Zenon, <1>6 DEF CloseFails
<1>7. ASSUME NEW p \in Processes,
             ReadForCancel(p) \/ ObserveGroup(p) \/ DeadlinePasses(p) \/ ProcessCrashes(p)
      PROVE OneCancel'
  BY <1>7 DEF ReadForCancel, ObserveGroup, DeadlinePasses, ProcessCrashes
<1>8. ASSUME NEW p \in Processes,
             PollCancel(p) \/ RecoverCancel(p)
      PROVE OneCancel'
  BY <1>8 DEF PollCancel, Lookup, RecoverCancel
<1>9. CASE \/ WindowLapses \/ SyncEntryExecution \/ ParentFills \/ ParentEnds \/ ExitsMove
          \/ UNCHANGED vars
  BY <1>9 DEF WindowLapses, SyncEntryExecution, ParentFills, ParentEnds, ExitsMove, vars
<1> HIDE DEF CancelInv, TypeOK, OneOwner, OneCancel, Unresolved
<1> QED
  BY Zenon, <1>1, <1>2, <1>3, <1>4, <1>5, <1>6, <1>7, <1>8, <1>9 DEF Next

\* The initial rows: nothing is claimed, read or sent.
LEMMA CancelInit == Init => CancelInv
<1> SUFFICES ASSUME Init PROVE CancelInv
  BY Zenon
<1> USE DEF Init
<1>1. FlagsOK /\ TasksOK
  BY Zenon DEF FlagsOK, TasksOK
<1>2. ValuesOK
  BY MaxFaultsAssumption DEF ValuesOK, Group, ParentStatus, ExitStatus, Resting
<1>3. TypeOK
  BY Zenon, <1>1, <1>2 DEF TypeOK, FlagsOK, TasksOK, ValuesOK
<1>4. ReadingsArePast /\ ExitsFollow /\ RowsAreTrue
  BY Zenon DEF ReadingsArePast, ExitsFollow, RowsAreTrue, Past, ParentPast, ExitPast, Resting
<1>5. OneOwner /\ OneCancel
  BY DEF OneOwner, OneCancel, Unresolved
<1> QED
  BY Zenon, <1>3, <1>4, <1>5 DEF CancelInv

-----------------------------------------------------------------------------
(* The theorems. *)

\* Every reachable state of a cancellation satisfies the inductive invariant, whatever the
\* daemon and the command line do at once and wherever they crash (begin_cancel,
\* resolve_cancel, recover).
THEOREM CancelInductive == Spec => []CancelInv
<1>1. CancelInv /\ [Next]_vars => TypeOK'
  BY Zenon, FlagsNext, TasksNext, ValuesNext DEF TypeOK, FlagsOK, TasksOK, ValuesOK
<1>2. CancelInv /\ [Next]_vars => CancelInv'
  BY Zenon, <1>1, OwnerNext, ReadingsNext, ExitsNext, RowsNext, OneCancelNext DEF CancelInv
<1> QED
  BY CancelInit, <1>2, PTL DEF Spec

\* For any number of processes and faults, one entry gets at most one DELETE, and a symbol
\* never has an unresolved cancellation beside an active close (begin_cancel,
\* claim_close_request).
THEOREM AtMostOneDelete == Spec => []OneCancel
<1>1. CancelInv => OneCancel
  BY Zenon DEF CancelInv
<1> QED
  BY CancelInductive, <1>1, PTL

\* A settled verdict and a released reservation are true of the bracket at the broker, however
\* late the reading they rest on is applied (resolve_cancel, observe_orders).
THEOREM VerdictsAreTrue == Spec => []SettledIsTrue
<1>1. CancelInv => SettledIsTrue
  BY Zenon DEF CancelInv, SettledIsTrue, RowsAreTrue, BrokerGroup
<1> QED
  BY CancelInductive, <1>1, PTL

\* What is journaled or about to be journaled of a bracket is never ahead of the broker, so a
\* terminal observation is final (_project_order, observe_orders).
THEOREM ReadingsNeverAhead == Spec => []ReadingsArePast
<1>1. CancelInv => ReadingsArePast
  BY Zenon DEF CancelInv
<1> QED
  BY CancelInductive, <1>1, PTL

-----------------------------------------------------------------------------
(* The released exit. *)

-----------------------------------------------------------------------------
(* The release exit: ReleaseExit. *)

PassStatuses == {"none", "gone", "exempt", "kept", "would_close", "close"}
PassType == [Positions -> PassStatuses]
TickSteps == {"idle", "down", "journaling", "closing", "posting", "recording"}
Notes == {"settled", "failed", "reported"}
DaemonType ==
    [step : TickSteps, mode : {"off", "preview", "enforce"}, noted : SUBSET Notes, at : 0..3,
     entries : PassType, todo : SUBSET Positions, entry : Positions \cup {NoEntry}, raised : {"no", "yes"}]
DayRequests == {"none", "claimed", "submitted", "unknown", "failed", "completed"}
DayOutcomes == {"none", "submitted", "already_exiting", "error", "refused", "failed"}

ReleaseTypeOK ==
    /\ hour \in 0..3
    /\ daemon \in [Daemons -> DaemonType]
    /\ dayPass \in PassType
    /\ outcomes \in [Positions -> DayOutcomes]
    /\ dayRequest \in [Positions -> DayRequests]
    /\ closes \in [Positions -> Nat]

\* The pass says something of every position.
EveryEntry(pass) == \A p \in Positions : pass[p] # "none"

\* A process at the closes works on the recorded pass and has the owed ones without a result still
\* to do; one that is done with the date has none.
FitPass(d, pass, results) ==
    /\ d.step = "journaling" => EveryEntry(d.entries) /\ "settled" \notin d.noted
    /\ d.step \in {"closing", "posting", "recording"} =>
          /\ d.entries = pass /\ EveryEntry(pass)
          /\ \A p \in Positions : pass[p] = "close" => p \in d.todo \/ results[p] # "none"
    /\ "settled" \in d.noted /\ d.mode = "enforce" =>
          /\ EveryEntry(pass)
          /\ \A p \in Positions : pass[p] = "close" => results[p] # "none"

\* A process at the broker holds the claim of a request that has no order.
FitPost(d, requests, sent) ==
    /\ d.step \in {"posting", "recording"} => d.entry \in Positions
    /\ d.step = "posting" => requests[d.entry] = "claimed" /\ sent[d.entry] = 0

\* The day of one position.
FitDay(p, ask, sent, result, notices, time) ==
    /\ sent <= 1
    /\ ask = "none" => sent = 0
    /\ ask \in {"submitted", "completed"} => sent = 1
    /\ result = "submitted" => sent = 1
    /\ result \in {"refused", "failed", "error"} => <<"failed", p>> \in notices \/ time = PastBound

OnePoster ==
    \A q, r \in Daemons :
        daemon[q].step = "posting" /\ daemon[r].step = "posting" /\ daemon[q].entry = daemon[r].entry => q = r

ReleaseInv ==
    /\ ReleaseTypeOK /\ OnePoster
    /\ dayPass = NoPass \/ EveryEntry(dayPass)
    /\ \A q \in Daemons : /\ daemon[q].at <= hour
                          /\ FitPass(daemon[q], dayPass, outcomes)
                          /\ FitPost(daemon[q], dayRequest, closes)
    /\ \A p \in Positions : FitDay(p, dayRequest[p], closes[p], outcomes[p], told, hour)

\* A started process.
LEMMA StartedIs ==
    ASSUME NEW mode \in {"off", "preview", "enforce"}
    PROVE  /\ Started(mode) \in DaemonType /\ Started(mode).step = "idle" /\ Started(mode).mode = mode
           /\ Started(mode).noted = {} /\ Started(mode).at = 0
<1>1. NoPass \in PassType
  BY Zenon DEF NoPass, PassType, PassStatuses
<1> QED
  BY <1>1 DEF Started, DaemonType, TickSteps, Notes, Early, NoEntry

\* A process that stopped.
LEMMA StoppedIs == Stopped \in DaemonType /\ Stopped.step = "down" /\ Stopped.noted = {} /\ Stopped.at = 0
<1>1. PICK s : s = Started("off")
  BY Zenon
<1>2. s \in DaemonType /\ s.noted = {} /\ s.at = 0
  BY Zenon, <1>1, StartedIs
<1>3. Stopped = [s EXCEPT !.step = "down"]
  BY Zenon, <1>1 DEF Stopped
<1> QED
  BY <1>2, <1>3 DEF DaemonType, TickSteps

\* A process between two ticks.
LEMMA TickedIs ==
    ASSUME NEW d \in DaemonType, NEW note \in SUBSET Notes
    PROVE  /\ Ticked(d, note) \in DaemonType /\ Ticked(d, note).step = "idle" /\ Ticked(d, note).mode = d.mode
           /\ Ticked(d, note).noted = d.noted \cup note /\ Ticked(d, note).at = 0
<1>1. PICK s : s = Started(d.mode)
  BY Zenon
<1>2. d.mode \in {"off", "preview", "enforce"} /\ d.noted \in SUBSET Notes
  BY Zenon DEF DaemonType
<1>3. s \in DaemonType /\ s.step = "idle" /\ s.mode = d.mode /\ s.at = 0
  BY Zenon, <1>1, <1>2, StartedIs
<1>4. Ticked(d, note) = [s EXCEPT !.noted = d.noted \cup note]
  BY Zenon, <1>1 DEF Ticked
<1>5. PICK n \in SUBSET Notes : n = d.noted \cup note
  BY Zenon, <1>2
<1> QED
  BY <1>3, <1>4, <1>5 DEF DaemonType

\* One process moves, and the journal and the closes stay.
LEMMA DaemonMoves ==
    ASSUME ReleaseInv, NEW q \in Daemons, NEW d \in DaemonType, daemon' = [daemon EXCEPT ![q] = d],
           UNCHANGED <<hour, dayPass, outcomes, dayRequest, closes>>, told \subseteq told',
           d.at <= hour, FitPass(d, dayPass, outcomes), FitPost(d, dayRequest, closes), d.step # "posting"
    PROVE  ReleaseInv'
<1>0. /\ ReleaseTypeOK /\ OnePoster /\ (dayPass = NoPass \/ EveryEntry(dayPass))
      /\ \A r \in Daemons : /\ daemon[r].at <= hour
                            /\ FitPass(daemon[r], dayPass, outcomes) /\ FitPost(daemon[r], dayRequest, closes)
      /\ \A p \in Positions : FitDay(p, dayRequest[p], closes[p], outcomes[p], told, hour)
  BY Zenon DEF ReleaseInv
<1>1. ReleaseTypeOK'
  BY Zenon, <1>0 DEF ReleaseTypeOK
<1>2. \A r \in Daemons : daemon'[r] = IF r = q THEN d ELSE daemon[r]
  BY Zenon, <1>0 DEF ReleaseTypeOK
<1>3. OnePoster'
  BY <1>0, <1>2 DEF OnePoster
<1>4. (dayPass = NoPass \/ EveryEntry(dayPass))'
  BY Zenon, <1>0 DEF NoPass, EveryEntry
<1>5. ASSUME NEW r \in Daemons
      PROVE  /\ daemon'[r].at <= hour'
             /\ FitPass(daemon'[r], dayPass', outcomes') /\ FitPost(daemon'[r], dayRequest', closes')
  <2>1. CASE r = q
    BY Zenon, <1>2, <2>1
  <2>2. CASE r # q
    BY Zenon, <1>0, <1>2, <2>2
  <2> QED
    BY Zenon, <2>1, <2>2
<1>6. \A p \in Positions : FitDay(p, dayRequest'[p], closes'[p], outcomes'[p], told', hour')
  BY Zenon, <1>0 DEF FitDay
<1> QED
  BY <1>1, <1>3, <1>4, <1>5, <1>6, Zenon DEF ReleaseInv

\* The day begins with nothing recorded.
LEMMA ReleaseInitInv == ReleaseInit => ReleaseInv
<1> SUFFICES ASSUME ReleaseInit PROVE ReleaseInv
  BY Zenon
<1>1. \A q \in Daemons : /\ daemon[q] \in DaemonType /\ daemon[q].step = "idle" /\ daemon[q].noted = {}
                         /\ daemon[q].at = 0
  <2>1. \A q \in Daemons : daemon[q] = Started("preview") \/ daemon[q] = Started("enforce")
    BY Zenon DEF ReleaseInit
  <2>2. \A mode \in {"preview", "enforce"} :
           /\ Started(mode) \in DaemonType /\ Started(mode).step = "idle" /\ Started(mode).noted = {}
           /\ Started(mode).at = 0
    BY Zenon, StartedIs
  <2> QED
    BY Zenon, <2>1, <2>2
<1>2. ReleaseTypeOK
  <2>1. daemon \in [Daemons -> DaemonType]
    BY Zenon, <1>1 DEF ReleaseInit
  <2> QED
    BY <2>1 DEF ReleaseTypeOK, ReleaseInit, Early, NoPass, PassType, PassStatuses, DayOutcomes, DayRequests
<1>3. ASSUME NEW q \in Daemons
      PROVE  /\ daemon[q].at <= hour /\ FitPass(daemon[q], dayPass, outcomes) /\ FitPost(daemon[q], dayRequest, closes)
  <2>1. daemon[q].at <= hour
    BY <1>1 DEF ReleaseInit, Early
  <2> QED
    BY Zenon, <1>1, <2>1 DEF FitPass, FitPost
<1>4. \A p \in Positions : FitDay(p, dayRequest[p], closes[p], outcomes[p], told, hour)
  BY DEF ReleaseInit, FitDay
<1>5. OnePoster
  BY Zenon, <1>1 DEF OnePoster
<1> QED
  BY Zenon, <1>2, <1>3, <1>4, <1>5 DEF ReleaseInv, ReleaseInit

\* _finish_closes: the process is done with the date, or it has the owed closes without a result.
LEMMA FinishIs ==
    ASSUME ReleaseTypeOK, NEW d \in DaemonType, d.at <= hour, "settled" \notin d.noted,
           NEW pass \in PassType, EveryEntry(pass), NEW next, next = FinishCloses(d, pass)
    PROVE  next \in DaemonType /\ next.at <= hour /\ next.step \in {"idle", "closing"} /\ FitPass(next, pass, outcomes)
<1>1. CASE next = Ticked(d, {"settled"}) /\ (d.mode # "enforce" \/ Owed(pass) = {})
  <2>1. {"settled"} \in SUBSET Notes
    BY Zenon DEF Notes
  <2>2. next \in DaemonType /\ next.step = "idle" /\ next.mode = d.mode /\ next.at = 0
    BY <1>1, <2>1, TickedIs
  <2>3. next.at <= hour
    BY <2>2 DEF ReleaseTypeOK
  <2>4. d.mode = "enforce" => \A p \in Positions : pass[p] # "close"
    BY Zenon, <1>1 DEF Owed
  <2> QED
    BY Zenon, <2>2, <2>3, <2>4 DEF FitPass
<1>2. CASE next = [d EXCEPT !.step = "closing", !.entries = pass,
                            !.todo = {p \in Owed(pass) : outcomes[p] = "none"}]
  <2> DEFINE one == [d EXCEPT !.step = "closing"]
             two == [one EXCEPT !.entries = pass]
  <2>0. PICK todo \in SUBSET Positions : todo = {p \in Owed(pass) : outcomes[p] = "none"}
    BY Zenon DEF Owed
  <2>1. next = [two EXCEPT !.todo = todo]
    BY Zenon, <1>2, <2>0 DEF DaemonType
  <2>2. one \in DaemonType /\ one.step = "closing" /\ one.at = d.at /\ one.noted = d.noted
    BY Zenon DEF DaemonType, TickSteps
  <2> HIDE DEF one
  <2>3. two \in DaemonType /\ two.step = "closing" /\ two.at = d.at /\ two.noted = d.noted /\ two.entries = pass
    BY Zenon, <2>2 DEF DaemonType
  <2> HIDE DEF two
  <2>4. /\ next \in DaemonType /\ next.step = "closing" /\ next.at = d.at /\ next.noted = d.noted
        /\ next.entries = pass /\ next.todo = todo
    BY <2>1, <2>3 DEF DaemonType
  <2>5. \A p \in Positions : pass[p] = "close" => p \in todo \/ outcomes[p] # "none"
    BY Zenon, <2>0 DEF Owed
  <2> QED
    BY Zenon, <2>4, <2>5 DEF FitPass
<1> QED
  BY <1>1, <1>2, Zenon DEF FinishCloses

\* A tick ends, or its process stops or starts.
LEMMA QuietStep ==
    ASSUME ReleaseInv, NEW q \in Daemons, Settle(q) \/ TickFails(q) \/ ProcessStops(q) \/ ProcessStarts(q)
    PROVE  ReleaseInv'
<1>0. ReleaseTypeOK /\ daemon[q] \in DaemonType /\ hour \in 0..3 /\ FitPass(daemon[q], dayPass, outcomes)
  BY Zenon DEF ReleaseInv, ReleaseTypeOK
<1>1. UNCHANGED <<hour, dayPass, outcomes, dayRequest, closes, told>>
  BY Zenon DEF Settle, TickFails, ProcessStops, ProcessStarts, unchangedClose
<1>2. PICK d \in DaemonType :
         /\ daemon' = [daemon EXCEPT ![q] = d] /\ d.step \in {"idle", "down"} /\ d.at = 0
         /\ FitPass(d, dayPass, outcomes)
  <2>1. CASE Settle(q)
    <3>1. PICK d : d = Ticked(daemon[q], {"settled"})
      BY Zenon
    <3>2. {"settled"} \in SUBSET Notes
      BY Zenon DEF Notes
    <3>3. d \in DaemonType /\ d.step = "idle" /\ d.mode = daemon[q].mode /\ d.at = 0
      BY <1>0, <3>1, <3>2, TickedIs
    <3>4. EveryEntry(dayPass) /\ \A p \in Positions : dayPass[p] = "close" => outcomes[p] # "none"
      BY Zenon, <1>0, <2>1 DEF FitPass, Settle
    <3> QED
      BY Zenon, <2>1, <3>1, <3>3, <3>4 DEF FitPass, Settle
  <2>2. CASE TickFails(q)
    <3>1. PICK d : d = Ticked(daemon[q], {"failed"})
      BY Zenon
    <3>2. {"failed"} \in SUBSET Notes
      BY Zenon DEF Notes
    <3>3. /\ d \in DaemonType /\ d.step = "idle" /\ d.mode = daemon[q].mode /\ d.at = 0
          /\ d.noted = daemon[q].noted \cup {"failed"}
      BY <1>0, <3>1, <3>2, TickedIs
    <3>4. "settled" \in d.noted => "settled" \in daemon[q].noted
      BY <3>3
    <3>5. FitPass(d, dayPass, outcomes)
      BY Zenon, <1>0, <3>3, <3>4 DEF FitPass
    <3> QED
      BY Zenon, <2>2, <3>1, <3>3, <3>5 DEF TickFails
  <2>3. CASE ProcessStops(q)
    BY Zenon, <2>3, StoppedIs DEF ProcessStops, FitPass
  <2>4. CASE ProcessStarts(q)
    <3>1. PICK mode \in {"off", "preview", "enforce"} : daemon' = [daemon EXCEPT ![q] = Started(mode)]
      BY Zenon, <2>4 DEF ProcessStarts
    <3> QED
      BY Zenon, <3>1, StartedIs DEF FitPass
  <2> QED
    BY Zenon, <2>1, <2>2, <2>3, <2>4
<1>3. FitPost(d, dayRequest, closes) /\ d.step # "posting"
  BY Zenon, <1>2 DEF FitPost
<1>4. d.at <= hour
  BY <1>0, <1>2
<1> QED
  BY Zenon, <1>1, <1>2, <1>3, <1>4, DaemonMoves

\* A tick from the top to its first write.
LEMMA TickStep ==
    ASSUME ReleaseInv, NEW q \in Daemons, Tick(q)
    PROVE  ReleaseInv'
<1>0. /\ ReleaseTypeOK /\ daemon[q] \in DaemonType /\ hour \in 0..3 /\ dayPass \in PassType
      /\ (dayPass = NoPass \/ EveryEntry(dayPass))
  BY Zenon DEF ReleaseInv, ReleaseTypeOK
<1> DEFINE d == [daemon[q] EXCEPT !.at = hour]
<1>1. \/ dayPass # NoPass /\ daemon' = [daemon EXCEPT ![q] = FinishCloses(d, dayPass)]
      \/ \E exiting \in SUBSET Positions :
            daemon' = [daemon EXCEPT ![q] =
               [d EXCEPT !.step = "journaling", !.entries = [p \in Positions |->
                   IF holding[p] = "closed" THEN "gone" ELSE PassEntry(d.mode, p, exiting)]]]
      \/ daemon' = [daemon EXCEPT ![q] = Ticked(d, {"reported"})]
  BY Zenon DEF Tick
<1>2. d \in DaemonType /\ d.at = hour /\ d.at <= hour /\ d.step = daemon[q].step /\ d.noted = daemon[q].noted
  <2>1. d \in DaemonType /\ d.at = hour /\ d.step = daemon[q].step /\ d.noted = daemon[q].noted
    BY Zenon, <1>0 DEF DaemonType
  <2>2. d.at <= hour
    BY <1>0, <2>1
  <2> QED
    BY Zenon, <2>1, <2>2
<1>3. /\ UNCHANGED <<hour, dayPass, outcomes, dayRequest, closes>> /\ told \subseteq told'
      /\ "settled" \notin d.noted /\ d.step = "idle"
  BY Zenon DEF Tick, unchangedClose
<1> HIDE DEF d
<1>4. PICK next \in DaemonType :
         /\ daemon' = [daemon EXCEPT ![q] = next] /\ next.at <= hour
         /\ next.step \in {"idle", "closing", "journaling"} /\ FitPass(next, dayPass, outcomes)
  <2>1. CASE dayPass # NoPass /\ daemon' = [daemon EXCEPT ![q] = FinishCloses(d, dayPass)]
    <3>1. PICK next : next = FinishCloses(d, dayPass)
      BY Zenon
    <3>2. next \in DaemonType /\ next.at <= hour /\ next.step \in {"idle", "closing"} /\ FitPass(next, dayPass, outcomes)
      BY Zenon, <1>0, <1>2, <1>3, <2>1, <3>1, FinishIs
    <3> QED
      BY Zenon, <2>1, <3>1, <3>2
  <2>2. ASSUME NEW exiting \in SUBSET Positions,
               daemon' = [daemon EXCEPT ![q] =
                  [d EXCEPT !.step = "journaling", !.entries = [p \in Positions |->
                      IF holding[p] = "closed" THEN "gone" ELSE PassEntry(d.mode, p, exiting)]]]
        PROVE  \E next \in DaemonType :
                  /\ daemon' = [daemon EXCEPT ![q] = next] /\ next.at <= hour
                  /\ next.step \in {"idle", "closing", "journaling"} /\ FitPass(next, dayPass, outcomes)
    <3> DEFINE one == [d EXCEPT !.step = "journaling"]
    <3>1. PICK pass : pass = [p \in Positions |->
                         IF holding[p] = "closed" THEN "gone" ELSE PassEntry(d.mode, p, exiting)]
      BY Zenon
    <3>2. \A p \in Positions : pass[p] \in PassStatuses \ {"none"}
      <4>1. \A p \in Positions : PassEntry(d.mode, p, exiting) \in PassStatuses \ {"none"}
        BY Zenon DEF PassEntry, PassStatuses
      <4>2. "gone" \in PassStatuses \ {"none"}
        BY Zenon DEF PassStatuses
      <4> QED
        BY Zenon, <3>1, <4>1, <4>2
    <3>3. pass \in PassType /\ EveryEntry(pass)
      BY Zenon, <3>1, <3>2 DEF PassType, EveryEntry
    <3>4. one \in DaemonType /\ one.step = "journaling" /\ one.at = d.at /\ one.noted = d.noted
      BY Zenon, <1>2 DEF DaemonType, TickSteps
    <3>5. PICK next : next = [one EXCEPT !.entries = pass]
      BY Zenon
    <3>6. daemon' = [daemon EXCEPT ![q] = next]
      BY Zenon, <1>2, <2>2, <3>1, <3>5 DEF DaemonType
    <3> HIDE DEF one
    <3>7. /\ next \in DaemonType /\ next.step = "journaling" /\ next.at = d.at /\ next.noted = d.noted
          /\ next.entries = pass
      BY Zenon, <3>3, <3>4, <3>5 DEF DaemonType
    <3>8. FitPass(next, dayPass, outcomes)
      BY Zenon, <1>3, <3>3, <3>7 DEF FitPass
    <3> QED
      BY Zenon, <1>2, <3>6, <3>7, <3>8
  <2>3. CASE daemon' = [daemon EXCEPT ![q] = Ticked(d, {"reported"})]
    <3>1. PICK next : next = Ticked(d, {"reported"})
      BY Zenon
    <3>2. {"reported"} \in SUBSET Notes
      BY Zenon DEF Notes
    <3>3. /\ next \in DaemonType /\ next.step = "idle" /\ next.at = 0 /\ next.noted = d.noted \cup {"reported"}
      BY Zenon, <1>2, <3>1, <3>2, TickedIs
    <3>4. "settled" \notin next.noted
      BY Zenon, <1>3, <3>3
    <3>5. FitPass(next, dayPass, outcomes) /\ next.at <= hour
      BY <1>0, <3>3, <3>4 DEF FitPass
    <3> QED
      BY Zenon, <2>3, <3>1, <3>3, <3>5
  <2> QED
    BY <1>1, <2>1, <2>2, <2>3, Zenon
<1>5. FitPost(next, dayRequest, closes) /\ next.step # "posting"
  BY Zenon, <1>4 DEF FitPost
<1> QED
  BY Zenon, <1>3, <1>4, <1>5, DaemonMoves

\* The pass is journaled once: a second process goes on with the first one's.
LEMMA RecordPassStep ==
    ASSUME ReleaseInv, NEW q \in Daemons, record_pass(q)
    PROVE  ReleaseInv'
<1>0. /\ ReleaseTypeOK /\ OnePoster /\ (dayPass = NoPass \/ EveryEntry(dayPass))
      /\ \A r \in Daemons : /\ daemon[r].at <= hour
                            /\ FitPass(daemon[r], dayPass, outcomes) /\ FitPost(daemon[r], dayRequest, closes)
      /\ \A p \in Positions : FitDay(p, dayRequest[p], closes[p], outcomes[p], told, hour)
  BY Zenon DEF ReleaseInv
<1>1. daemon[q] \in DaemonType /\ daemon[q].entries \in PassType /\ dayPass \in PassType /\ daemon[q].step = "journaling"
  BY Zenon, <1>0 DEF ReleaseTypeOK, DaemonType, record_pass
<1>2. PICK pass : pass = IF dayPass = NoPass THEN daemon[q].entries ELSE dayPass
  BY Zenon
<1>3. /\ dayPass' = pass /\ daemon' = [daemon EXCEPT ![q] = FinishCloses(daemon[q], pass)]
      /\ UNCHANGED <<hour, outcomes, dayRequest, closes>> /\ told \subseteq told'
  BY Zenon, <1>2 DEF record_pass, unchangedClose
<1>4. EveryEntry(daemon[q].entries) /\ "settled" \notin daemon[q].noted
  BY Zenon, <1>0, <1>1 DEF FitPass
<1>5. pass \in PassType /\ EveryEntry(pass)
  BY Zenon, <1>0, <1>1, <1>2, <1>4
<1>6. EveryEntry(dayPass) => pass = dayPass
  <2>1. CASE dayPass = NoPass /\ EveryEntry(dayPass)
    <3>1. \A p : p \notin Positions
      BY Zenon, <2>1 DEF NoPass, EveryEntry
    <3> QED
      BY <1>1, <1>5, <3>1 DEF PassType
  <2> QED
    BY Zenon, <1>2, <2>1
<1>7. PICK next : next = FinishCloses(daemon[q], pass)
  BY Zenon
<1>8. /\ next \in DaemonType /\ next.at <= hour /\ next.step \in {"idle", "closing"} /\ FitPass(next, pass, outcomes)
  BY Zenon, <1>0, <1>1, <1>4, <1>5, <1>7, FinishIs
<1>9. daemon' = [daemon EXCEPT ![q] = next]
  BY Zenon, <1>3, <1>7
<1>10. \A r \in Daemons : daemon'[r] = IF r = q THEN next ELSE daemon[r]
  BY Zenon, <1>0, <1>9 DEF ReleaseTypeOK
<1>11. ReleaseTypeOK'
  BY <1>0, <1>3, <1>5, <1>8, <1>9 DEF ReleaseTypeOK
<1>12. OnePoster'
  BY Zenon, <1>0, <1>8, <1>10 DEF OnePoster
<1>13. ASSUME NEW r \in Daemons
       PROVE  /\ daemon'[r].at <= hour'
              /\ FitPass(daemon'[r], dayPass', outcomes') /\ FitPost(daemon'[r], dayRequest', closes')
  <2>1. CASE r = q
    <3>1. FitPost(next, dayRequest, closes)
      BY Zenon, <1>8 DEF FitPost
    <3> QED
      BY Zenon, <1>3, <1>8, <1>10, <2>1, <3>1
  <2>2. CASE r # q
    <3>1. FitPass(daemon[r], pass, outcomes)
      <4>1. FitPass(daemon[r], dayPass, outcomes)
        BY Zenon, <1>0
      <4>2. CASE EveryEntry(dayPass)
        BY Zenon, <1>6, <4>1, <4>2
      <4>3. CASE ~ EveryEntry(dayPass)
        BY <4>1, <4>3, Zenon DEF FitPass
      <4> QED
        BY Zenon, <4>2, <4>3
    <3> QED
      BY Zenon, <1>0, <1>3, <1>10, <2>2, <3>1
  <2> QED
    BY Zenon, <2>1, <2>2
<1>14. \A p \in Positions : FitDay(p, dayRequest'[p], closes'[p], outcomes'[p], told', hour')
  BY Zenon, <1>0, <1>3 DEF FitDay
<1>15. EveryEntry(dayPass')
  BY Zenon, <1>3, <1>5
<1>16. (dayPass = NoPass \/ EveryEntry(dayPass))'
  BY Zenon, <1>15 DEF EveryEntry
<1> QED
  BY <1>11, <1>12, <1>13, <1>14, <1>16, Zenon DEF ReleaseInv

\* The close is claimed under the day's ID, or refused, or raises before the claim.
LEMMA CloseSignalStep ==
    ASSUME ReleaseInv, NEW q \in Daemons, NEW p \in Positions, close_signal(q, p)
    PROVE  ReleaseInv'
<1>0. /\ ReleaseTypeOK /\ OnePoster /\ (dayPass = NoPass \/ EveryEntry(dayPass))
      /\ \A r \in Daemons : /\ daemon[r].at <= hour
                            /\ FitPass(daemon[r], dayPass, outcomes) /\ FitPost(daemon[r], dayRequest, closes)
      /\ \A s \in Positions : FitDay(s, dayRequest[s], closes[s], outcomes[s], told, hour)
  BY Zenon DEF ReleaseInv
<1>1. /\ daemon[q] \in DaemonType /\ daemon[q].step = "closing" /\ UNCHANGED <<hour, dayPass, outcomes, told, closes>>
      /\ daemon[q].at <= hour /\ FitPass(daemon[q], dayPass, outcomes)
  BY Zenon, <1>0 DEF ReleaseTypeOK, close_signal
<1>2. CASE /\ Claimable(p) /\ dayRequest' = [dayRequest EXCEPT ![p] = "claimed"]
           /\ daemon' = [daemon EXCEPT ![q].step = "posting", ![q].entry = p]
  <2> DEFINE one == [daemon[q] EXCEPT !.step = "posting"]
  <2>1. PICK d : d = [one EXCEPT !.entry = p]
    BY Zenon
  <2>2. daemon' = [daemon EXCEPT ![q] = d]
    BY Zenon, <1>0, <1>1, <1>2, <2>1 DEF ReleaseTypeOK, DaemonType
  <2>3. /\ one \in DaemonType /\ one.step = "posting" /\ one.at = daemon[q].at /\ one.noted = daemon[q].noted
        /\ one.entries = daemon[q].entries /\ one.todo = daemon[q].todo /\ one.mode = daemon[q].mode
    BY Zenon, <1>1 DEF DaemonType, TickSteps
  <2> HIDE DEF one
  <2>4. /\ d \in DaemonType /\ d.step = "posting" /\ d.at = daemon[q].at /\ d.noted = daemon[q].noted
        /\ d.entries = daemon[q].entries /\ d.todo = daemon[q].todo /\ d.mode = daemon[q].mode /\ d.entry = p
    BY Zenon, <2>1, <2>3 DEF DaemonType
  <2>5. \A r \in Daemons : daemon'[r] = IF r = q THEN d ELSE daemon[r]
    BY Zenon, <1>0, <2>2 DEF ReleaseTypeOK
  <2>6. /\ dayRequest[p] = "none" /\ closes[p] = 0
        /\ \A s \in Positions : dayRequest'[s] = IF s = p THEN "claimed" ELSE dayRequest[s]
    BY Zenon, <1>0, <1>2 DEF Claimable, FitDay, ReleaseTypeOK
  <2>7. ReleaseTypeOK'
    BY Zenon, <1>0, <1>1, <1>2, <2>2, <2>4 DEF ReleaseTypeOK, DayRequests
  <2>8. \A r \in Daemons : daemon[r].step = "posting" => daemon[r].entry # p /\ daemon[r].entry \in Positions
    BY Zenon, <1>0, <2>6 DEF FitPost
  <2>9. OnePoster'
    BY Zenon, <1>0, <2>4, <2>5, <2>8 DEF OnePoster
  <2>10. ASSUME NEW r \in Daemons
         PROVE  /\ daemon'[r].at <= hour'
                /\ FitPass(daemon'[r], dayPass', outcomes') /\ FitPost(daemon'[r], dayRequest', closes')
    <3>1. CASE r = q
      <4>1. FitPost(d, dayRequest', closes)
        BY Zenon, <2>4, <2>6 DEF FitPost
      <4>2. FitPass(d, dayPass, outcomes)
        BY Zenon, <1>1, <2>4 DEF FitPass
      <4> QED
        BY Zenon, <1>1, <2>4, <2>5, <3>1, <4>1, <4>2
    <3>2. CASE r # q
      <4>1. FitPost(daemon[r], dayRequest', closes)
        BY Zenon, <1>0, <2>6, <2>8 DEF FitPost
      <4> QED
        BY Zenon, <1>0, <1>1, <2>5, <3>2, <4>1
    <3> QED
      BY Zenon, <3>1, <3>2
  <2>11. \A s \in Positions : FitDay(s, dayRequest'[s], closes'[s], outcomes'[s], told', hour')
    BY Zenon, <1>0, <1>1, <2>6 DEF FitDay
  <2>12. (dayPass = NoPass \/ EveryEntry(dayPass))'
    BY Zenon, <1>0, <1>1 DEF NoPass, EveryEntry
  <2> QED
    BY <2>7, <2>9, <2>10, <2>11, <2>12, Zenon DEF ReleaseInv
<1>3. ASSUME NEW raised \in {"no", "yes"}, dayRequest' = dayRequest,
             daemon' = [daemon EXCEPT ![q].step = "recording", ![q].entry = p, ![q].raised = raised]
      PROVE  ReleaseInv'
  <2> DEFINE one == [daemon[q] EXCEPT !.step = "recording"]
             two == [one EXCEPT !.entry = p]
  <2>1. PICK d : d = [two EXCEPT !.raised = raised]
    BY Zenon
  <2>2. daemon' = [daemon EXCEPT ![q] = d]
    BY Zenon, <1>0, <1>1, <1>3, <2>1 DEF ReleaseTypeOK, DaemonType
  <2>3. /\ one \in DaemonType /\ one.step = "recording" /\ one.at = daemon[q].at /\ one.noted = daemon[q].noted
        /\ one.entries = daemon[q].entries /\ one.todo = daemon[q].todo /\ one.mode = daemon[q].mode
    BY Zenon, <1>1 DEF DaemonType, TickSteps
  <2> HIDE DEF one
  <2>4. /\ two \in DaemonType /\ two.step = "recording" /\ two.at = daemon[q].at /\ two.noted = daemon[q].noted
        /\ two.entries = daemon[q].entries /\ two.todo = daemon[q].todo /\ two.mode = daemon[q].mode
        /\ two.entry = p
    BY Zenon, <2>3 DEF DaemonType
  <2> HIDE DEF two
  <2>5. /\ d \in DaemonType /\ d.step = "recording" /\ d.at = daemon[q].at /\ d.noted = daemon[q].noted
        /\ d.entries = daemon[q].entries /\ d.todo = daemon[q].todo /\ d.mode = daemon[q].mode /\ d.entry = p
    BY Zenon, <1>3, <2>1, <2>4 DEF DaemonType
  <2>6. FitPass(d, dayPass, outcomes) /\ FitPost(d, dayRequest, closes) /\ d.at <= hour
    BY Zenon, <1>1, <2>5 DEF FitPass, FitPost
  <2> QED
    BY Zenon, <1>1, <1>3, <2>2, <2>5, <2>6, DaemonMoves
<1> QED
  BY Zenon, <1>2, <1>3 DEF close_signal

\* The close goes to the broker, or not: of the one request, once.
LEMMA SubmitCloseStep ==
    ASSUME ReleaseInv, NEW q \in Daemons, SubmitClose(q)
    PROVE  ReleaseInv'
<1>0. /\ ReleaseTypeOK /\ OnePoster /\ (dayPass = NoPass \/ EveryEntry(dayPass))
      /\ \A r \in Daemons : /\ daemon[r].at <= hour
                            /\ FitPass(daemon[r], dayPass, outcomes) /\ FitPost(daemon[r], dayRequest, closes)
      /\ \A s \in Positions : FitDay(s, dayRequest[s], closes[s], outcomes[s], told, hour)
  BY Zenon DEF ReleaseInv
<1>1. /\ daemon[q] \in DaemonType /\ daemon[q].step = "posting" /\ UNCHANGED <<hour, dayPass, outcomes, told>>
      /\ daemon[q].at <= hour /\ FitPass(daemon[q], dayPass, outcomes)
  BY Zenon, <1>0 DEF ReleaseTypeOK, SubmitClose
<1>2. PICK p \in Positions : p = daemon[q].entry
  BY Zenon, <1>0, <1>1 DEF FitPost
<1>3. dayRequest[p] = "claimed" /\ closes[p] = 0
  BY Zenon, <1>0, <1>1, <1>2 DEF FitPost
<1>4. PICK status \in DayRequests \ {"none", "completed"}, sent \in 0..1 :
         /\ dayRequest' = [dayRequest EXCEPT ![p] = status] /\ closes' = [closes EXCEPT ![p] = sent]
         /\ status = "submitted" => sent = 1
  <2>1. CASE closes' = closes /\ dayRequest' = [dayRequest EXCEPT ![p] = "failed"]
    <3>1. closes' = [closes EXCEPT ![p] = 0]
      BY Zenon, <1>0, <1>3, <2>1 DEF ReleaseTypeOK
    <3>2. "failed" \in DayRequests \ {"none", "completed"} /\ 0 \in 0..1 /\ "failed" # "submitted"
      BY DEF DayRequests
    <3> QED
      BY <2>1, <3>1, <3>2, Zenon
  <2>2. CASE /\ closes' = [closes EXCEPT ![p] = @ + 1]
             /\ \E status \in {"submitted", "unknown", "failed", "claimed"} :
                   dayRequest' = [dayRequest EXCEPT ![p] = status]
    <3>1. closes' = [closes EXCEPT ![p] = 1]
      BY <1>0, <1>3, <2>2 DEF ReleaseTypeOK
    <3>2. /\ {"submitted", "unknown", "failed", "claimed"} \subseteq DayRequests \ {"none", "completed"}
          /\ 1 \in 0..1
      BY DEF DayRequests
    <3> QED
      BY <2>2, <3>1, <3>2, Zenon
  <2> QED
    BY Zenon, <1>2, <2>1, <2>2 DEF SubmitClose
<1> DEFINE one == [daemon[q] EXCEPT !.step = "recording"]
<1>5. PICK raised \in {"no", "yes"} : daemon' = [daemon EXCEPT ![q].step = "recording", ![q].raised = raised]
  BY Zenon DEF SubmitClose
<1>6. PICK d : d = [one EXCEPT !.raised = raised]
  BY Zenon
<1>7. daemon' = [daemon EXCEPT ![q] = d]
  BY Zenon, <1>0, <1>1, <1>5, <1>6 DEF ReleaseTypeOK, DaemonType
<1>8. /\ one \in DaemonType /\ one.step = "recording" /\ one.at = daemon[q].at /\ one.noted = daemon[q].noted
      /\ one.entries = daemon[q].entries /\ one.todo = daemon[q].todo /\ one.mode = daemon[q].mode
      /\ one.entry = daemon[q].entry
  BY Zenon, <1>1 DEF DaemonType, TickSteps
<1> HIDE DEF one
<1>9. /\ d \in DaemonType /\ d.step = "recording" /\ d.at = daemon[q].at /\ d.noted = daemon[q].noted
      /\ d.entries = daemon[q].entries /\ d.todo = daemon[q].todo /\ d.mode = daemon[q].mode /\ d.entry = p
  BY Zenon, <1>2, <1>5, <1>6, <1>8 DEF DaemonType
<1>10. \A r \in Daemons : daemon'[r] = IF r = q THEN d ELSE daemon[r]
  BY Zenon, <1>0, <1>7 DEF ReleaseTypeOK
<1>11. \A s \in Positions : /\ dayRequest'[s] = IF s = p THEN status ELSE dayRequest[s]
                            /\ closes'[s] = IF s = p THEN sent ELSE closes[s]
  BY <1>0, <1>4 DEF ReleaseTypeOK
<1>12. ReleaseTypeOK'
  BY SMTT(20), <1>0, <1>1, <1>4, <1>7, <1>9 DEF ReleaseTypeOK
<1>13. OnePoster'
  BY Zenon, <1>0, <1>9, <1>10 DEF OnePoster
<1>14. ASSUME NEW r \in Daemons
       PROVE  /\ daemon'[r].at <= hour'
              /\ FitPass(daemon'[r], dayPass', outcomes') /\ FitPost(daemon'[r], dayRequest', closes')
  <2>1. CASE r = q
    <3>1. FitPost(d, dayRequest', closes')
      BY Zenon, <1>9 DEF FitPost
    <3>2. FitPass(d, dayPass, outcomes)
      BY Zenon, <1>1, <1>9 DEF FitPass
    <3> QED
      BY Zenon, <1>1, <1>9, <1>10, <2>1, <3>1, <3>2
  <2>2. CASE r # q
    <3>1. daemon[r].step = "posting" => daemon[r].entry # p
      BY Zenon, <1>0, <1>1, <1>2, <2>2 DEF OnePoster
    <3>2. FitPost(daemon[r], dayRequest', closes')
      BY Zenon, <1>0, <1>11, <3>1 DEF FitPost
    <3> QED
      BY Zenon, <1>0, <1>1, <1>10, <2>2, <3>2
  <2> QED
    BY Zenon, <2>1, <2>2
<1>15. ASSUME NEW s \in Positions PROVE FitDay(s, dayRequest'[s], closes'[s], outcomes'[s], told', hour')
  <2>1. FitDay(s, dayRequest[s], closes[s], outcomes[s], told, hour)
    BY Zenon, <1>0
  <2>2. CASE s = p
    BY SMTT(20), <1>1, <1>3, <1>4, <1>11, <2>1, <2>2 DEF FitDay
  <2>3. CASE s # p
    BY Zenon, <1>1, <1>11, <2>1, <2>3
  <2> QED
    BY Zenon, <2>2, <2>3
<1>16. (dayPass = NoPass \/ EveryEntry(dayPass))'
  BY Zenon, <1>0, <1>1 DEF NoPass, EveryEntry
<1> QED
  BY <1>12, <1>13, <1>14, <1>15, <1>16, Zenon DEF ReleaseInv

\* The outcome of a close is journaled once, and in market hours the operator is told of a bad one.
LEMMA RecordCloseStep ==
    ASSUME ReleaseInv, NEW q \in Daemons, record_close(q)
    PROVE  ReleaseInv'
<1>0. /\ ReleaseTypeOK /\ OnePoster /\ (dayPass = NoPass \/ EveryEntry(dayPass))
      /\ \A r \in Daemons : /\ daemon[r].at <= hour
                            /\ FitPass(daemon[r], dayPass, outcomes) /\ FitPost(daemon[r], dayRequest, closes)
      /\ \A s \in Positions : FitDay(s, dayRequest[s], closes[s], outcomes[s], told, hour)
  BY Zenon DEF ReleaseInv
<1>1. /\ daemon[q] \in DaemonType /\ daemon[q].step = "recording" /\ hour \in 0..3
      /\ UNCHANGED <<hour, dayPass, dayRequest, closes>>
      /\ daemon[q].at <= hour /\ daemon[q].at \in 0..3 /\ FitPass(daemon[q], dayPass, outcomes)
  BY Zenon, <1>0 DEF ReleaseTypeOK, DaemonType, record_close, unchangedClose
<1>2. PICK p \in Positions : p = daemon[q].entry
  BY Zenon, <1>0, <1>1 DEF FitPost
<1>3. PICK outcome : outcome = CloseOutcome(p, daemon[q].raised)
  OBVIOUS
<1>4. /\ outcome \in DayOutcomes \ {"none"}
      /\ outcome = "submitted" => dayRequest[p] \in {"submitted", "completed"}
  BY Zenon, <1>3 DEF CloseOutcome, DayOutcomes
<1>5. /\ outcomes' = [outcomes EXCEPT ![p] = IF @ = "none" THEN outcome ELSE @]
      /\ told \subseteq told'
      /\ outcome \in {"refused", "failed", "error"} => <<"failed", p>> \in told' \/ hour = PastBound
  <2>1. outcomes' = [outcomes EXCEPT ![p] = IF @ = "none" THEN outcome ELSE @]
    BY Zenon, <1>2, <1>3 DEF record_close
  <2>2. told' = IF daemon[q].at <= AfterClose /\ outcome \in {"refused", "failed", "error"}
                THEN told \cup {<<"failed", p>>} ELSE told
    BY Zenon, <1>2, <1>3 DEF record_close
  <2>3. daemon[q].at <= AfterClose \/ hour = PastBound
    BY SMTT(20), <1>1 DEF AfterClose, PastBound
  <2> QED
    BY Zenon, <2>1, <2>2, <2>3
<1> DEFINE one == [daemon[q] EXCEPT !.step = "closing"]
           two == [one EXCEPT !.entry = NoEntry]
           three == [two EXCEPT !.raised = "no"]
<1>6. PICK todo \in SUBSET Positions : todo = daemon[q].todo \ {p}
  BY Zenon, <1>1 DEF DaemonType
<1>7. PICK d : d = [three EXCEPT !.todo = todo]
  BY Zenon
<1>8. daemon' = [daemon EXCEPT ![q] = d]
  <2>1. daemon' = [daemon EXCEPT ![q] = [daemon[q] EXCEPT !.step = "closing", !.todo = daemon[q].todo \ {p},
                                                     !.entry = NoEntry, !.raised = "no"]]
    BY <1>2, Zenon DEF record_close
  <2>2. [daemon[q] EXCEPT !.step = "closing", !.todo = daemon[q].todo \ {p}, !.entry = NoEntry, !.raised = "no"] = d
    BY Zenon, <1>1, <1>6, <1>7 DEF DaemonType
  <2> QED
    BY Zenon, <2>1, <2>2
<1>9. /\ one \in DaemonType /\ one.step = "closing" /\ one.at = daemon[q].at /\ one.noted = daemon[q].noted
      /\ one.entries = daemon[q].entries /\ one.mode = daemon[q].mode
  BY Zenon, <1>1 DEF DaemonType, TickSteps
<1> HIDE DEF one
<1>10. /\ two \in DaemonType /\ two.step = "closing" /\ two.at = daemon[q].at /\ two.noted = daemon[q].noted
       /\ two.entries = daemon[q].entries /\ two.mode = daemon[q].mode
  BY Zenon, <1>9 DEF DaemonType
<1> HIDE DEF two
<1>11. /\ three \in DaemonType /\ three.step = "closing" /\ three.at = daemon[q].at /\ three.noted = daemon[q].noted
       /\ three.entries = daemon[q].entries /\ three.mode = daemon[q].mode
  BY Zenon, <1>10 DEF DaemonType
<1> HIDE DEF three
<1>12. /\ d \in DaemonType /\ d.step = "closing" /\ d.at = daemon[q].at /\ d.noted = daemon[q].noted
       /\ d.entries = daemon[q].entries /\ d.mode = daemon[q].mode /\ d.todo = daemon[q].todo \ {p}
  BY Zenon, <1>6, <1>7, <1>11 DEF DaemonType
<1>13. \A r \in Daemons : daemon'[r] = IF r = q THEN d ELSE daemon[r]
  BY Zenon, <1>0, <1>8 DEF ReleaseTypeOK
<1>14. \A s \in Positions : outcomes'[s] = IF s = p /\ outcomes[p] = "none" THEN outcome ELSE outcomes[s]
  BY Zenon, <1>0, <1>5 DEF ReleaseTypeOK
<1>15. ReleaseTypeOK'
  <2>1. outcomes' \in [Positions -> DayOutcomes]
    BY Zenon, <1>0, <1>4, <1>5 DEF ReleaseTypeOK
  <2>2. daemon' \in [Daemons -> DaemonType]
    BY Zenon, <1>0, <1>8, <1>12 DEF ReleaseTypeOK
  <2> QED
    BY Zenon, <1>0, <1>1, <2>1, <2>2 DEF ReleaseTypeOK
<1>16. OnePoster'
  BY Zenon, <1>0, <1>12, <1>13 DEF OnePoster
<1>17. outcomes'[p] # "none" /\ \A s \in Positions : outcomes[s] # "none" => outcomes'[s] # "none"
  BY Zenon, <1>4, <1>14
<1>18. ASSUME NEW r \in Daemons
       PROVE  /\ daemon'[r].at <= hour'
              /\ FitPass(daemon'[r], dayPass', outcomes') /\ FitPost(daemon'[r], dayRequest', closes')
  <2>1. CASE r = q
    <3>1. FitPost(d, dayRequest, closes)
      BY Zenon, <1>12 DEF FitPost
    <3>2. FitPass(d, dayPass, outcomes')
      <4>1. d.entries = dayPass /\ EveryEntry(dayPass)
        BY Zenon, <1>1, <1>12 DEF FitPass
      <4>2. \A s \in Positions : dayPass[s] = "close" => s \in d.todo \/ outcomes'[s] # "none"
        BY Zenon, <1>1, <1>12, <1>17 DEF FitPass
      <4>3. "settled" \in d.noted /\ d.mode = "enforce" =>
               \A s \in Positions : dayPass[s] = "close" => outcomes'[s] # "none"
        BY Zenon, <1>1, <1>12, <1>17 DEF FitPass
      <4> QED
        BY Zenon, <1>12, <4>1, <4>2, <4>3 DEF FitPass
    <3> QED
      BY Zenon, <1>1, <1>12, <1>13, <2>1, <3>1, <3>2
  <2>2. CASE r # q
    <3>1. FitPass(daemon[r], dayPass, outcomes')
      BY Zenon, <1>0, <1>17 DEF FitPass
    <3> QED
      BY Zenon, <1>0, <1>1, <1>13, <2>2, <3>1
  <2> QED
    BY Zenon, <2>1, <2>2
<1>19. ASSUME NEW s \in Positions PROVE FitDay(s, dayRequest'[s], closes'[s], outcomes'[s], told', hour')
  <2>1. FitDay(s, dayRequest[s], closes[s], outcomes[s], told, hour)
    BY Zenon, <1>0
  <2>2. CASE s = p /\ outcomes[p] = "none"
    BY Zenon, <1>1, <1>4, <1>5, <1>14, <2>1, <2>2 DEF FitDay
  <2>3. CASE ~ (s = p /\ outcomes[p] = "none")
    <3>1. outcomes'[s] = outcomes[s]
      BY Zenon, <1>14, <2>3
    <3> QED
      BY Zenon, <1>1, <1>5, <2>1, <3>1 DEF FitDay
  <2> QED
    BY Zenon, <2>2, <2>3
<1>20. (dayPass = NoPass \/ EveryEntry(dayPass))'
  BY Zenon, <1>0, <1>1 DEF NoPass, EveryEntry
<1> QED
  BY <1>15, <1>16, <1>18, <1>19, <1>20, Zenon DEF ReleaseInv

\* Time passes, a request is resolved by the close service, or another exit of the position goes on.
LEMMA RestStep ==
    ASSUME ReleaseInv,
           UNCHANGED releaseVars \/ HourPasses \/ \E p \in Positions : CloseResolved(p) \/ OtherExit(p)
    PROVE  ReleaseInv'
<1>0. /\ ReleaseTypeOK /\ OnePoster /\ (dayPass = NoPass \/ EveryEntry(dayPass))
      /\ \A r \in Daemons : /\ daemon[r].at <= hour
                            /\ FitPass(daemon[r], dayPass, outcomes) /\ FitPost(daemon[r], dayRequest, closes)
      /\ \A s \in Positions : FitDay(s, dayRequest[s], closes[s], outcomes[s], told, hour)
  BY Zenon DEF ReleaseInv
<1>1. UNCHANGED <<daemon, dayPass, outcomes, told, closes>>
  BY Zenon DEF releaseVars, HourPasses, unchangedClose, CloseResolved, OtherExit
<1>2. /\ hour' \in 0..3 /\ hour <= hour' /\ (hour = PastBound => hour' = PastBound)
      /\ dayRequest' \in [Positions -> DayRequests]
      /\ \A s \in Positions :
            \/ dayRequest'[s] = dayRequest[s]
            \/ closes[s] = 1 /\ dayRequest'[s] # "none"
  <2>1. CASE HourPasses
    BY <1>0, <2>1 DEF HourPasses, unchangedClose, ReleaseTypeOK, PastBound
  <2>2. CASE \E p \in Positions : OtherExit(p)
    BY <1>0, <2>2 DEF OtherExit, ReleaseTypeOK
  <2>3. CASE UNCHANGED releaseVars
    BY <1>0, <2>3 DEF releaseVars, ReleaseTypeOK
  <2>4. ASSUME NEW p \in Positions, CloseResolved(p)
        PROVE  /\ hour' \in 0..3 /\ hour <= hour' /\ (hour = PastBound => hour' = PastBound)
               /\ dayRequest' \in [Positions -> DayRequests]
               /\ \A s \in Positions :
                     \/ dayRequest'[s] = dayRequest[s]
                     \/ closes[s] = 1 /\ dayRequest'[s] # "none"
    <3>1. PICK status \in {"submitted", "completed", "failed"} : dayRequest' = [dayRequest EXCEPT ![p] = status]
      BY Zenon, <2>4 DEF CloseResolved
    <3>2. hour' = hour /\ closes[p] = 1
      <4>1. closes[p] > 0 /\ closes[p] <= 1 /\ closes[p] \in Nat
        BY Zenon, <1>0, <2>4 DEF CloseResolved, FitDay, ReleaseTypeOK
      <4> QED
        BY <2>4, <4>1 DEF CloseResolved
    <3>3. dayRequest' \in [Positions -> DayRequests]
      BY Zenon, <1>0, <3>1 DEF ReleaseTypeOK, DayRequests
    <3>4. \A s \in Positions : dayRequest'[s] = IF s = p THEN status ELSE dayRequest[s]
      BY Zenon, <1>0, <3>1 DEF ReleaseTypeOK
    <3>5. hour' \in 0..3 /\ hour <= hour'
      BY <1>0, <3>2 DEF ReleaseTypeOK
    <3> QED
      BY Zenon, <3>1, <3>2, <3>3, <3>4, <3>5
  <2> QED
    BY Zenon, <2>1, <2>2, <2>3, <2>4
<1>3. ReleaseTypeOK'
  BY Zenon, <1>0, <1>1, <1>2 DEF ReleaseTypeOK
<1>4. OnePoster'
  BY Zenon, <1>0, <1>1 DEF OnePoster
<1>5. ASSUME NEW r \in Daemons
      PROVE  /\ daemon'[r].at <= hour'
             /\ FitPass(daemon'[r], dayPass', outcomes') /\ FitPost(daemon'[r], dayRequest', closes')
  <2>1. daemon'[r].at <= hour'
    <3>1. daemon[r].at \in 0..3 /\ hour \in 0..3
      BY <1>0 DEF ReleaseTypeOK, DaemonType
    <3> QED
      BY SMTT(20), <1>0, <1>1, <1>2, <3>1
  <2>2. FitPost(daemon[r], dayRequest', closes)
    BY SMTT(20), <1>0, <1>2 DEF FitPost
  <2> QED
    BY Zenon, <1>0, <1>1, <2>1, <2>2
<1>6. \A s \in Positions : FitDay(s, dayRequest'[s], closes'[s], outcomes'[s], told', hour')
  BY Zenon, <1>0, <1>1, <1>2 DEF FitDay
<1>7. (dayPass = NoPass \/ EveryEntry(dayPass))'
  BY Zenon, <1>0, <1>1 DEF NoPass, EveryEntry
<1> QED
  BY <1>3, <1>4, <1>5, <1>6, <1>7, Zenon DEF ReleaseInv

\* Over ticks, failures, restarts and a second process a position is sent to the broker at most once
\* on the day, no owed close is forgotten by a process that is done with the date, and the operator
\* is told of a close that did not happen (release_request_id, _finish_closes, _close).
THEOREM ReleaseIsAccounted == ReleaseSpec => []ReleaseAccounted
<1>1. ASSUME ReleaseInv, [ReleaseNext]_releaseVars PROVE ReleaseInv'
  <2>1. CASE UNCHANGED releaseVars \/ HourPasses \/ \E p \in Positions : CloseResolved(p) \/ OtherExit(p)
    BY Zenon, <1>1, <2>1, RestStep
  <2>2. ASSUME NEW q \in Daemons, Settle(q) \/ TickFails(q) \/ ProcessStops(q) \/ ProcessStarts(q)
        PROVE  ReleaseInv'
    BY Zenon, <1>1, <2>2, QuietStep
  <2>3. ASSUME NEW q \in Daemons, Tick(q) PROVE ReleaseInv'
    BY Zenon, <1>1, <2>3, TickStep
  <2>4. ASSUME NEW q \in Daemons, record_pass(q) PROVE ReleaseInv'
    BY Zenon, <1>1, <2>4, RecordPassStep
  <2>5. ASSUME NEW q \in Daemons, NEW p \in Positions, close_signal(q, p) PROVE ReleaseInv'
    BY Zenon, <1>1, <2>5, CloseSignalStep
  <2>6. ASSUME NEW q \in Daemons, SubmitClose(q) PROVE ReleaseInv'
    BY Zenon, <1>1, <2>6, SubmitCloseStep
  <2>7. ASSUME NEW q \in Daemons, record_close(q) PROVE ReleaseInv'
    BY Zenon, <1>1, <2>7, RecordCloseStep
  <2> QED
    BY Zenon, <1>1, <2>1, <2>2, <2>3, <2>4, <2>5, <2>6, <2>7 DEF ReleaseNext
<1>2. ReleaseInv => ReleaseAccounted
  BY Zenon DEF ReleaseInv, FitDay, FitPass, ReleaseAccounted, Owed
<1> QED
  BY <1>1, <1>2, ReleaseInitInv, PTL DEF ReleaseSpec

-----------------------------------------------------------------------------
(* The trailing stops. *)

\* A set of naturals that is not empty has a least member (the chain of replaced stops needs it).
LEMMA LeastNat ==
    ASSUME NEW S, S \subseteq Nat, S # {}
    PROVE  \E n \in S : \A m \in S : n <= m
<1> DEFINE R == OpToRel(<, Nat)
<1>1. IsWellFoundedOn(R, Nat)
  BY NatLessThanWellFounded, Zenon
<1>2. \A a, b \in Nat : a < b => <<a, b>> \in R
  BY Zenon DEF OpToRel
<1> HIDE DEF R
<1>3. \E x \in S : \A y \in S : ~ (<<y, x>> \in R)
  BY Zenon, <1>1, WFMin
<1>4. PICK n \in S : \A y \in S : ~ (<<y, n>> \in R)
  BY <1>3, Zenon
<1>5. ASSUME NEW m \in S PROVE n <= m
  <2>1. n \in Nat /\ m \in Nat
    BY Zenon
  <2>2. ~ (m < n)
    BY <2>1, <1>2, <1>4, Zenon
  <2> QED
    BY <2>1, <2>2
<1> QED
  BY Zenon, <1>5

-----------------------------------------------------------------------------
(* The trailing stop: TrailingStops. *)

StopStatuses == {"new", "pending_replace", "pending_new", "replaced", "rejected", "filled", "canceled"}
StopType == [price : Int, status : StopStatuses, replaced_by : Nat]
CycleType == [step : {"idle", "reading", "patching", "polling", "saving"}, target : Int, order : Nat]

\* A replacement link leads to a later order, and only a replaced order has one.
LinksForward(s) ==
    \A i \in DOMAIN s :
        s[i].replaced_by # NoStop =>
            s[i].replaced_by \in DOMAIN s /\ s[i].replaced_by > i /\ s[i].status = "replaced"

\* f leads from each order to the one at the end of its links.
EndsAt(s, f) ==
    /\ f \in [DOMAIN s -> DOMAIN s]
    /\ \A j \in DOMAIN s : f[j] = IF s[j].replaced_by = NoStop THEN j ELSE f[s[j].replaced_by]
    /\ \A j \in DOMAIN s : s[f[j]].replaced_by = NoStop

\* What Current's recursion stands for.
LinkEnds(s) ==
    CHOOSE next : next = [j \in DOMAIN s |-> IF s[j].replaced_by = NoStop THEN j ELSE next[s[j].replaced_by]]

\* There is one such function: of two, the last order on which they differ would have a link to a
\* later one on which they differ.
LEMMA LinkEndsIs ==
    ASSUME NEW s, NEW n \in Nat, DOMAIN s = 1..n, LinksForward(s), NEW f, EndsAt(s, f)
    PROVE  \A i \in 1..n : LinkEnds(s)[i] = f[i]
<1> DEFINE Body(g) == [j \in DOMAIN s |-> IF s[j].replaced_by = NoStop THEN j ELSE g[s[j].replaced_by]]
           g == LinkEnds(s)
<1>1. f = Body(f)
  BY Zenon DEF EndsAt
<1>2. g = Body(g)
  <2>1. \E h : h = Body(h)
    BY Zenon, <1>1
  <2> QED
    BY <2>1, Zenon DEF LinkEnds
<1>3. \A j \in 1..n : g[j] = IF s[j].replaced_by = NoStop THEN j ELSE g[s[j].replaced_by]
  <2> HIDE DEF g
  <2> QED
    BY Zenon, <1>2
<1> HIDE DEF g
<1> DEFINE Differ == {j \in 1..n : g[j] # f[j]}
           Left == {n - j : j \in Differ}
<1>4. SUFFICES ASSUME Differ # {} PROVE FALSE
  BY Zenon DEF g
<1>5. Left \subseteq Nat /\ Left # {}
  BY <1>4
<1>6. PICK m \in Left : \A k \in Left : m <= k
  BY <1>5, LeastNat, Zenon
<1>7. PICK j \in Differ : m = n - j
  BY Zenon, <1>6
<1>8. j \in 1..n /\ g[j] # f[j] /\ \A k \in Differ : k <= j
  <2>1. ASSUME NEW k \in Differ PROVE k <= j
    <3>1. n - k \in Left
      BY Zenon
    <3>2. m <= n - k
      BY <1>6, <3>1, Zenon
    <3>3. j \in 1..n /\ k \in 1..n
      BY Zenon
    <3> HIDE DEF Differ, Left
    <3> QED
      BY <1>7, <3>2, <3>3
  <2> QED
    BY Zenon, <2>1
<1> HIDE DEF Differ, Left
<1>9. s[j].replaced_by # NoStop
  BY Zenon, <1>3, <1>8 DEF EndsAt
<1>10. PICK r : r = s[j].replaced_by
  BY Zenon
<1>11. r \in 1..n /\ r > j /\ g[r] # f[r]
  BY Zenon, <1>3, <1>8, <1>9, <1>10 DEF EndsAt, LinksForward
<1>12. r \in Differ
  BY Zenon, <1>11 DEF Differ
<1> QED
  BY <1>8, <1>11, <1>12

\* The order in force is where the links of the bracket's leg end.
LEMMA CurrentIs ==
    ASSUME NEW i
    PROVE  Current(i) = LinkEnds(stops)[i] /\ InForce = LinkEnds(stops)[1]
           /\ Current(i)' = LinkEnds(stops')[i] /\ InForce' = LinkEnds(stops')[1]
BY Zenon DEF Current, LinkEnds, InForce

TrailTypeOK ==
    /\ recorded \in Int
    /\ stops \in Seq(StopType) /\ 1 \in DOMAIN stops
    /\ patches \subseteq [order : Nat, price : Int]
    /\ cycle \in CycleType

\* At most one order rests, the one in force, and at most one replacement is pending, of that order
\* and at a tighter price: what the desk may have asked for, or confirmed, is bounded by the order
\* in force.
OneResting ==
    \A i \in DOMAIN stops :
        /\ stops[i].status \in {"new", "pending_replace"} => i = InForce
        /\ stops[i].status = "pending_new" =>
              /\ i = Len(stops) /\ stops[InForce].status = "pending_replace"
              /\ stops[i].price > stops[InForce].price

PatchesTighten == \A r \in patches : r.order \in DOMAIN stops /\ r.price > stops[r.order].price

SavesConfirmed ==
    /\ Covers(stops[InForce].price, recorded)
    /\ cycle.step = "saving" => cycle.target <= stops[InForce].price
    /\ cycle.step = "polling" => cycle.order \in DOMAIN stops

TrailInv ==
    /\ TrailTypeOK /\ LinksForward(stops) /\ (\E f : EndsAt(stops, f))
    /\ OneResting /\ PatchesTighten /\ SavesConfirmed

\* What the order in force is like.
LEMMA InForceIs ==
    ASSUME TrailTypeOK, LinksForward(stops), NEW f, EndsAt(stops, f)
    PROVE  /\ InForce = f[1] /\ InForce \in DOMAIN stops
           /\ \A i \in DOMAIN stops : Current(i) = f[i] /\ Current(i) \in DOMAIN stops
<1>1. Len(stops) \in Nat /\ DOMAIN stops = 1..Len(stops) /\ 1 \in DOMAIN stops
  BY DEF TrailTypeOK
<1>2. \A i \in DOMAIN stops : LinkEnds(stops)[i] = f[i]
  BY <1>1, LinkEndsIs
<1>3. InForce = f[1]
  BY Zenon, <1>1, <1>2, CurrentIs
<1>4. \A i \in DOMAIN stops : Current(i) = f[i]
  BY Zenon, <1>2, CurrentIs
<1> QED
  BY <1>1, <1>3, <1>4 DEF EndsAt

\* The same after a step.
LEMMA InForceAfter ==
    ASSUME stops' \in Seq(StopType), 1 \in DOMAIN stops', LinksForward(stops'), NEW f, EndsAt(stops', f)
    PROVE  InForce' = f[1]
<1>1. Len(stops') \in Nat /\ DOMAIN stops' = 1..Len(stops')
  OBVIOUS
<1>2. LinkEnds(stops')[1] = f[1]
  BY SMTT(20), <1>1, LinkEndsIs
<1> QED
  BY Zenon, <1>2, CurrentIs

\* A price the desk aims at is a number of half cents, and rounding keeps it one.
LEMMA RoundsToNumber == \A p \in Int : _price(p) \in Int
<1> SUFFICES ASSUME NEW p \in Int PROVE _price(p) \in Int
  BY Zenon
<1>1. _price(p) = p \/ _price(p) = p - 1 \/ _price(p) = p + 1
  BY Zenon DEF _price
<1> QED
  BY <1>1

\* A tighter order makes good what a looser one does, and what it says itself.
LEMMA CoversMore ==
    \A p, q, stop \in Int : (p <= q => (Covers(p, stop) => Covers(q, stop))) /\ (stop <= p => Covers(p, stop))
<1> SUFFICES ASSUME NEW p \in Int, NEW q \in Int, NEW stop \in Int
             PROVE  (p <= q => (Covers(p, stop) => Covers(q, stop))) /\ (stop <= p => Covers(p, stop))
  BY Zenon
<1>1. _price(stop) \in Int
  BY Zenon, RoundsToNumber
<1>2. PICK rounded \in Int : rounded = _price(stop)
  BY Zenon, <1>1
<1>3. \A x \in Int : Covers(x, stop) <=> (stop <= x \/ (stop = InitialStop /\ rounded <= x))
  BY Zenon, <1>2 DEF Covers
<1> QED
  BY <1>3

\* One order at the broker, and no request.
LEMMA TrailInitInv == TrailInit => TrailInv
<1> SUFFICES ASSUME TrailInit PROVE TrailInv
  BY Zenon
<1> DEFINE leg == [price |-> _price(InitialStop), status |-> "new", replaced_by |-> NoStop]
           f == [j \in {1} |-> 1]
<1>1. leg \in StopType /\ InitialStop \in Int /\ _price(InitialStop) \in Int
  BY Zenon, TrailAssumption, RoundsToNumber DEF StopType, StopStatuses, NoStop
<1>2. stops = <<leg>>
  BY Zenon DEF TrailInit
<1>3. stops \in Seq(StopType) /\ Len(stops) = 1 /\ DOMAIN stops = {1} /\ stops[1] = leg
  BY <1>1, <1>2
<1>4. leg.price = _price(InitialStop) /\ leg.status = "new" /\ leg.replaced_by = NoStop
  BY Zenon
<1> HIDE DEF leg
<1>5. TrailTypeOK
  BY <1>1, <1>3 DEF TrailTypeOK, TrailInit, NoCycle, CycleType, NoStop
<1>6. LinksForward(stops)
  BY Zenon, <1>3, <1>4 DEF LinksForward
<1>7. EndsAt(stops, f)
  BY Zenon, <1>3, <1>4 DEF EndsAt
<1>8. InForce = 1
  BY <1>5, <1>6, <1>7, InForceIs
<1>9. OneResting
  BY Zenon, <1>3, <1>4, <1>8 DEF OneResting
<1>10. PatchesTighten /\ SavesConfirmed
  <2>1. Covers(stops[InForce].price, recorded)
    <3>1. PICK rounded \in Int : rounded = _price(InitialStop)
      BY Zenon, <1>1
    <3>2. rounded <= rounded
      BY <3>1
    <3> QED
      BY Zenon, <1>3, <1>4, <1>8, <3>1, <3>2 DEF Covers, TrailInit
  <2>2. cycle.step = "idle" /\ patches = {}
    BY Zenon DEF TrailInit, NoCycle
  <2> QED
    BY Zenon, <2>1, <2>2 DEF PatchesTighten, SavesConfirmed
<1> QED
  BY Zenon, <1>5, <1>6, <1>7, <1>9, <1>10 DEF TrailInv

\* A step of the desk: the orders stay.
LEMMA DeskStep ==
    ASSUME TrailInv, stops' = stops, recorded' \in Int, cycle' \in CycleType,
           patches' \subseteq [order : Nat, price : Int], PatchesTighten',
           recorded <= recorded', Covers(stops[InForce].price, recorded'),
           cycle'.step = "saving" => cycle'.target <= stops[InForce].price,
           cycle'.step = "polling" => cycle'.order \in DOMAIN stops
    PROVE  TrailInv' /\ InForce' = InForce
<1>0. TrailTypeOK /\ LinksForward(stops) /\ (\E f : EndsAt(stops, f)) /\ OneResting
  BY Zenon DEF TrailInv
<1>1. InForce' = InForce
  BY Zenon, CurrentIs
<1>2. TrailTypeOK'
  BY Zenon, <1>0 DEF TrailTypeOK
<1>3. OneResting'
  BY Zenon, <1>0, <1>1 DEF OneResting
<1>4. SavesConfirmed'
  BY Zenon, <1>1 DEF SavesConfirmed
<1> QED
  BY Zenon, <1>0, <1>1, <1>2, <1>3, <1>4 DEF TrailInv

\* A cycle starts, is read back, saves or fails.
LEMMA CycleStep ==
    ASSUME TrailInv, manage_trailing_stops \/ PollStop \/ update_position_stop \/ CycleFails
    PROVE  TrailInv' /\ InForce' = InForce /\ recorded' >= recorded
<1>0. TrailTypeOK /\ LinksForward(stops) /\ OneResting /\ PatchesTighten /\ SavesConfirmed
  BY Zenon DEF TrailInv
<1>1. PICK f : EndsAt(stops, f)
  BY Zenon DEF TrailInv
<1>2. /\ InForce \in DOMAIN stops /\ stops[InForce] \in StopType
      /\ \A i \in DOMAIN stops : Current(i) \in DOMAIN stops
  BY <1>0, <1>1, InForceIs DEF TrailTypeOK
<1>3. UNCHANGED <<stops, patches>> /\ recorded \in Int /\ cycle \in CycleType /\ stops[InForce].price \in Int
  BY Zenon, <1>0, <1>2 DEF TrailTypeOK, StopType, manage_trailing_stops, PollStop, update_position_stop, CycleFails
<1>4. PatchesTighten' /\ patches' \subseteq [order : Nat, price : Int]
  BY Zenon, <1>0, <1>3 DEF PatchesTighten, TrailTypeOK
<1>5. NoCycle \in CycleType /\ NoCycle.step = "idle"
  BY DEF NoCycle, CycleType, NoStop
<1>6. CASE manage_trailing_stops
  <2>0. PICK current \in Prices : \E target :
           /\ \/ target = trailing_price(current, recorded)
              \/ target = NativeTarget(current, recorded)
           /\ cycle' = [step |-> "reading", target |-> target, order |-> NoStop]
    BY <1>6, Zenon DEF manage_trailing_stops
  <2>1. PICK target :
           /\ \/ target = trailing_price(current, recorded)
              \/ target = NativeTarget(current, recorded)
           /\ cycle' = [step |-> "reading", target |-> target, order |-> NoStop]
    BY <2>0, Zenon
  <2>2. current \in Int /\ EntryPrice + BreakevenBuffer \in Int /\ current - TrailDistance \in Int
    BY TrailAssumption
  <2>3. \/ target = recorded \/ target = current - TrailDistance \/ target = EntryPrice + BreakevenBuffer
    BY <2>1, Zenon DEF trailing_price, NativeTarget
  <2>4. target \in Int
    BY Zenon, <1>3, <2>2, <2>3
  <2>5. cycle' \in CycleType /\ cycle'.step = "reading" /\ recorded' = recorded
    BY Zenon, <1>6, <2>1, <2>4 DEF CycleType, NoStop, manage_trailing_stops
  <2> QED
    BY <1>0, <1>3, <1>4, <2>5, DeskStep DEF SavesConfirmed
<1>7. CASE PollStop
  <2> DEFINE i == Current(cycle.order)
  <2>1. recorded' = recorded /\ cycle.step = "polling" /\ cycle.order \in DOMAIN stops
    BY Zenon, <1>0, <1>7 DEF PollStop, SavesConfirmed
  <2>2. i \in DOMAIN stops /\ stops[i].price \in Int
    <3>1. i \in DOMAIN stops
      BY <1>2, <2>1, Zenon
    <3>2. \A k \in DOMAIN stops : stops[k] \in StopType
      BY <1>0 DEF TrailTypeOK
    <3>3. \A k \in DOMAIN stops : stops[k].price \in Int
      BY Zenon, <3>2 DEF StopType
    <3> QED
      BY <3>1, <3>3, Zenon
  <2>3. \/ stops[i].status = "new" /\ cycle' = [cycle EXCEPT !.step = "saving", !.target = stops[i].price]
        \/ cycle' = NoCycle
    BY <1>7, Zenon DEF PollStop, Working
  <2> HIDE DEF i
  <2>4. CASE cycle' = NoCycle
    BY <1>0, <1>3, <1>4, <1>5, <2>1, <2>4, DeskStep DEF SavesConfirmed
  <2>5. CASE stops[i].status = "new" /\ cycle' = [cycle EXCEPT !.step = "saving", !.target = stops[i].price]
    <3>1. cycle' \in CycleType /\ cycle'.step = "saving" /\ cycle'.target = stops[i].price
      BY Zenon, <1>3, <2>2, <2>5 DEF CycleType
    <3>2. i = InForce
      BY Zenon, <1>0, <2>2, <2>5 DEF OneResting
    <3>3. cycle'.target <= stops[InForce].price
      BY <1>3, <3>1, <3>2
    <3> QED
      BY <1>0, <1>3, <1>4, <2>1, <3>1, <3>3, DeskStep DEF SavesConfirmed
  <2> QED
    BY Zenon, <2>3, <2>4, <2>5
<1>8. CASE update_position_stop
  <2>1. cycle.target \in Int /\ cycle.step = "saving" /\ cycle' = NoCycle
    BY Zenon, <1>3, <1>8 DEF update_position_stop, CycleType
  <2>2. Covers(stops[InForce].price, cycle.target) /\ Covers(stops[InForce].price, recorded)
    BY Zenon, <1>0, <1>3, <2>1, CoversMore DEF SavesConfirmed
  <2>3. recorded' = recorded \/ recorded' = cycle.target
    BY Zenon, <1>8 DEF update_position_stop
  <2>4. recorded' \in Int /\ Covers(stops[InForce].price, recorded')
    BY Zenon, <1>3, <2>1, <2>2, <2>3
  <2>5. recorded <= recorded'
    BY <1>3, <1>8, <2>1 DEF update_position_stop
  <2> QED
    BY Zenon, <1>3, <1>4, <1>5, <2>1, <2>4, <2>5, DeskStep
<1>9. CASE CycleFails
  <2>1. cycle' = NoCycle /\ recorded' = recorded
    BY Zenon, <1>9 DEF CycleFails
  <2> QED
    BY <1>0, <1>3, <1>4, <1>5, <2>1, DeskStep DEF SavesConfirmed
<1> QED
  BY <1>6, <1>7, <1>8, <1>9

\* The desk reads the stop in force, and asks the broker only for a tighter one.
LEMMA ReadStopStep ==
    ASSUME TrailInv, ReadStop
    PROVE  TrailInv' /\ InForce' = InForce /\ recorded' >= recorded
<1>0. TrailTypeOK /\ LinksForward(stops) /\ OneResting /\ PatchesTighten /\ SavesConfirmed
  BY Zenon DEF TrailInv
<1>1. PICK f : EndsAt(stops, f)
  BY Zenon DEF TrailInv
<1> DEFINE i == InForce
           price == _price(cycle.target)
<1>2. i \in DOMAIN stops /\ stops[i] \in StopType /\ i \in Nat
  BY <1>0, <1>1, InForceIs DEF TrailTypeOK
<1>3. /\ UNCHANGED <<stops, recorded>> /\ recorded \in Int /\ cycle \in CycleType /\ cycle.target \in Int
      /\ stops[i].price \in Int /\ patches \subseteq [order : Nat, price : Int]
  BY Zenon, <1>0, <1>2 DEF TrailTypeOK, StopType, ReadStop, CycleType
<1>4. price \in Int
  BY Zenon, <1>3, RoundsToNumber
<1>5. NoCycle \in CycleType /\ NoCycle.step = "idle"
  BY DEF NoCycle, CycleType, NoStop
<1>6. \/ cycle' = NoCycle /\ patches' = patches
      \/ /\ Tighter(price, stops[i].price) /\ cycle' = [cycle EXCEPT !.step = "patching", !.order = i]
         /\ patches' = patches \cup {[order |-> i, price |-> price]}
      \/ /\ cycle' = [cycle EXCEPT !.step = "saving", !.target = stops[i].price] /\ patches' = patches
  BY Zenon DEF ReadStop
<1> HIDE DEF price, i
<1>7. Covers(stops[i].price, recorded)
  BY Zenon, <1>0 DEF SavesConfirmed, i
<1>8. CASE cycle' = NoCycle /\ patches' = patches
  <2>1. PatchesTighten'
    BY Zenon, <1>0, <1>3, <1>8 DEF PatchesTighten
  <2> QED
    BY <1>3, <1>5, <1>7, <1>8, <2>1, DeskStep DEF i
<1>9. CASE cycle' = [cycle EXCEPT !.step = "saving", !.target = stops[i].price] /\ patches' = patches
  <2>1. PatchesTighten'
    BY Zenon, <1>0, <1>3, <1>9 DEF PatchesTighten
  <2>2. cycle' \in CycleType /\ cycle'.step = "saving" /\ cycle'.target = stops[i].price
    BY Zenon, <1>3, <1>9 DEF CycleType
  <2>3. cycle'.target <= stops[i].price
    BY <1>3, <2>2
  <2> QED
    BY <1>3, <1>7, <1>9, <2>1, <2>2, <2>3, DeskStep DEF i
<1>10. CASE /\ Tighter(price, stops[i].price) /\ cycle' = [cycle EXCEPT !.step = "patching", !.order = i]
            /\ patches' = patches \cup {[order |-> i, price |-> price]}
  <2> DEFINE r == [order |-> i, price |-> price]
  <2>1. r \in [order : Nat, price : Int] /\ r.order = i /\ r.price = price
    BY Zenon, <1>2, <1>4
  <2>2. patches' = patches \cup {r}
    BY Zenon, <1>10
  <2> HIDE DEF r
  <2>3. r.order \in DOMAIN stops /\ r.price > stops[r.order].price
    BY Zenon, <1>2, <1>10, <2>1 DEF Tighter
  <2>4. PatchesTighten' /\ patches' \subseteq [order : Nat, price : Int]
    BY Zenon, <1>0, <1>3, <2>1, <2>2, <2>3 DEF PatchesTighten
  <2>5. cycle' \in CycleType /\ cycle'.step = "patching"
    BY Zenon, <1>2, <1>3, <1>10 DEF CycleType
  <2> QED
    BY <1>3, <1>7, <2>4, <2>5, DeskStep DEF i
<1> QED
  BY Zenon, <1>6, <1>8, <1>9, <1>10

\* A step of the broker: the orders change, the desk's side stays but for a reply.
LEMMA BrokerStep ==
    ASSUME TrailInv, recorded' = recorded, cycle' \in CycleType, patches' \subseteq patches,
           stops' \in Seq(StopType), DOMAIN stops \subseteq DOMAIN stops',
           \A i \in DOMAIN stops : stops'[i].price = stops[i].price,
           LinksForward(stops'), NEW f, EndsAt(stops', f),
           stops[InForce].price \in Int, stops'[f[1]].price \in Int, stops[InForce].price <= stops'[f[1]].price,
           OneResting',
           cycle'.step = "saving" => cycle'.step = cycle.step /\ cycle'.target = cycle.target,
           cycle'.step = "polling" => cycle'.order \in DOMAIN stops'
    PROVE  TrailInv' /\ stops'[InForce'].price >= stops[InForce].price
<1>0. TrailTypeOK /\ PatchesTighten /\ SavesConfirmed
  BY Zenon DEF TrailInv
<1>1. TrailTypeOK'
  BY Zenon, <1>0 DEF TrailTypeOK
<1>2. InForce' = f[1]
  BY Zenon, <1>1, InForceAfter DEF TrailTypeOK
<1>3. PatchesTighten'
  BY Zenon, <1>0 DEF PatchesTighten
<1>4. SavesConfirmed'
  <2>1. recorded \in Int /\ cycle.target \in Int
    BY Zenon, <1>0 DEF TrailTypeOK, CycleType
  <2>2. Covers(stops[InForce].price, recorded) /\ (cycle.step = "saving" => cycle.target <= stops[InForce].price)
    BY <1>0, Zenon DEF SavesConfirmed
  <2>3. Covers(stops'[f[1]].price, recorded')
    BY Zenon, <2>1, <2>2, CoversMore
  <2>4. cycle'.step = "saving" => cycle'.target <= stops'[f[1]].price
    BY SMTT(20), <2>1, <2>2
  <2> QED
    BY Zenon, <1>2, <2>3, <2>4 DEF SavesConfirmed
<1>5. (\E g : EndsAt(stops, g))'
  BY Zenon
<1> QED
  BY Zenon, <1>1, <1>2, <1>3, <1>4, <1>5 DEF TrailInv

\* t is s with another status of order i.
Restated(s, i, status, t) ==
    /\ t \in Seq(StopType) /\ Len(t) = Len(s) /\ DOMAIN t = DOMAIN s
    /\ \A k \in DOMAIN s : /\ t[k].price = s[k].price /\ t[k].replaced_by = s[k].replaced_by
                           /\ t[k].status = IF k = i THEN status ELSE s[k].status

\* An order changes its status and nothing else.
LEMMA WithStatus ==
    ASSUME NEW s, s \in Seq(StopType), NEW i \in DOMAIN s, NEW status \in StopStatuses
    PROVE  Restated(s, i, status, [s EXCEPT ![i].status = status])
<1>0. PICK t : t = [s EXCEPT ![i].status = status]
  BY Zenon
<1> DEFINE new == [s[i] EXCEPT !.status = status]
<1>1. t = [s EXCEPT ![i] = new]
  BY Zenon, <1>0
<1>2. s[i] \in StopType
  OBVIOUS
<1>3. new \in StopType /\ new.price = s[i].price /\ new.replaced_by = s[i].replaced_by /\ new.status = status
  BY Zenon, <1>2 DEF StopType
<1> HIDE DEF new
<1>4. t \in Seq(StopType) /\ Len(t) = Len(s) /\ DOMAIN t = DOMAIN s
  BY <1>1, <1>3
<1>5. \A k \in DOMAIN s : t[k] = IF k = i THEN new ELSE s[k]
  BY Zenon, <1>1
<1>6. Restated(s, i, status, t)
  BY Zenon, <1>3, <1>4, <1>5 DEF Restated
<1> QED
  BY Zenon, <1>0, <1>6

\* Only statuses change, and no replacement is pending after it.
LEMMA StatusesStep ==
    ASSUME TrailInv, UNCHANGED <<recorded, cycle, patches>>,
           stops' \in Seq(StopType), DOMAIN stops' = DOMAIN stops,
           \A k \in DOMAIN stops :
              /\ stops'[k].price = stops[k].price /\ stops'[k].replaced_by = stops[k].replaced_by
              /\ stops[k].status = "replaced" => stops'[k].status = "replaced"
              /\ stops'[k].status \in {"new", "pending_replace"} => k = InForce
              /\ stops'[k].status # "pending_new"
    PROVE  TrailInv' /\ stops'[InForce'].price >= stops[InForce].price
<1>0. TrailTypeOK /\ LinksForward(stops) /\ OneResting /\ SavesConfirmed
  BY Zenon DEF TrailInv
<1>1. PICK f : EndsAt(stops, f)
  BY Zenon DEF TrailInv
<1>2. InForce = f[1] /\ InForce \in DOMAIN stops /\ stops[InForce] \in StopType
  BY SMTT(20), <1>0, <1>1, InForceIs DEF TrailTypeOK
<1>3. LinksForward(stops')
  BY Zenon, <1>0 DEF LinksForward
<1>4. EndsAt(stops', f)
  BY <1>1 DEF EndsAt
<1>5. InForce' = f[1]
  BY Zenon, <1>0, <1>3, <1>4, InForceAfter DEF TrailTypeOK
<1>6. OneResting'
  BY Zenon, <1>2, <1>5 DEF OneResting
<1>7. cycle' \in CycleType /\ (cycle'.step = "polling" => cycle'.order \in DOMAIN stops')
  BY Zenon, <1>0 DEF TrailTypeOK, SavesConfirmed
<1>8. stops[InForce].price \in Int /\ stops'[f[1]].price = stops[InForce].price
  BY Zenon, <1>2 DEF StopType
<1>9. stops[InForce].price <= stops'[f[1]].price
  BY SMTT(20), <1>8
<1> QED
  BY Zenon, <1>3, <1>4, <1>6, <1>7, <1>8, <1>9, BrokerStep

\* The replacement is rejected, or the order ends and takes the replacement with it.
LEMMA EndsStep ==
    ASSUME TrailInv, NEW i \in DOMAIN stops,
           StopEnds(i) \/ (\E j \in DOMAIN stops : ReplacementRejected(i, j))
    PROVE  TrailInv' /\ stops'[InForce'].price >= stops[InForce].price /\ recorded' = recorded
<1>0. TrailTypeOK /\ LinksForward(stops) /\ OneResting
  BY Zenon DEF TrailInv
<1>1. UNCHANGED <<recorded, cycle, patches>> /\ stops \in Seq(StopType)
  BY Zenon, <1>0 DEF StopEnds, ReplacementRejected, TrailTypeOK
<1>2. CASE \E j \in DOMAIN stops : ReplacementRejected(i, j)
  <2>1. PICK j \in DOMAIN stops : ReplacementRejected(i, j)
    BY Zenon, <1>2
  <2>a. PICK t : t = [stops EXCEPT ![i].status = "new"]
    BY Zenon
  <2>2. /\ stops[i].status = "pending_replace" /\ j = Len(stops) /\ stops[j].status = "pending_new"
        /\ stops' = [t EXCEPT ![j].status = "rejected"]
    BY Zenon, <2>1, <2>a DEF ReplacementRejected
  <2>3. "new" \in StopStatuses /\ "rejected" \in StopStatuses
    BY Zenon DEF StopStatuses
  <2>b. Restated(stops, i, "new", t)
    BY <1>1, <2>a, <2>3, WithStatus, Zenon
  <2>4. /\ t \in Seq(StopType) /\ Len(t) = Len(stops) /\ DOMAIN t = DOMAIN stops
        /\ \A k \in DOMAIN stops : /\ t[k].price = stops[k].price /\ t[k].replaced_by = stops[k].replaced_by
                                   /\ t[k].status = IF k = i THEN "new" ELSE stops[k].status
    BY Zenon, <2>b DEF Restated
  <2>5. /\ stops' \in Seq(StopType) /\ DOMAIN stops' = DOMAIN t
        /\ \A k \in DOMAIN t : /\ stops'[k].price = t[k].price /\ stops'[k].replaced_by = t[k].replaced_by
                               /\ stops'[k].status = IF k = j THEN "rejected" ELSE t[k].status
    <3>1. j \in DOMAIN t
      BY Zenon, <2>4
    <3>2. Restated(t, j, "rejected", stops')
      BY <2>2, <2>3, <2>4, <3>1, WithStatus, Zenon
    <3> QED
      BY Zenon, <3>2 DEF Restated
  <2>6. \A k \in DOMAIN stops : stops'[k].status = IF k = j THEN "rejected" ELSE IF k = i THEN "new" ELSE stops[k].status
    BY Zenon, <2>4, <2>5
  <2>7. \A k \in DOMAIN stops : stops[k].status = "pending_new" => k = j
    BY Zenon, <1>0, <2>2 DEF OneResting
  <2>8. \A k \in DOMAIN stops :
           /\ stops[k].status = "replaced" => stops'[k].status = "replaced"
           /\ stops'[k].status \in {"new", "pending_replace"} => k = InForce
           /\ stops'[k].status # "pending_new"
    BY <1>0, <2>2, <2>6, <2>7 DEF OneResting
  <2> QED
    BY Zenon, <1>1, <2>4, <2>5, <2>8, StatusesStep
<1>3. CASE StopEnds(i)
  <2>1. PICK end \in {"filled", "canceled"} :
           /\ i = InForce /\ stops[i].status \in {"new", "pending_replace"}
           /\ stops' = [j \in DOMAIN stops |->
                 IF j = i THEN [stops[j] EXCEPT !.status = end]
                 ELSE IF stops[j].status = "pending_new" THEN [stops[j] EXCEPT !.status = "canceled"]
                 ELSE stops[j]]
    BY Zenon, <1>3 DEF StopEnds
  <2>2. ASSUME NEW k \in DOMAIN stops
        PROVE  /\ stops'[k] \in StopType
               /\ stops'[k].price = stops[k].price /\ stops'[k].replaced_by = stops[k].replaced_by
               /\ stops'[k].status = IF k = i THEN end
                                     ELSE IF stops[k].status = "pending_new" THEN "canceled" ELSE stops[k].status
    <3>1. stops[k] \in StopType
      BY <1>1
    <3>2. CASE k = i
      BY Zenon, <2>1, <3>1, <3>2 DEF StopType, StopStatuses
    <3>3. CASE k # i /\ stops[k].status = "pending_new"
      BY Zenon, <2>1, <3>1, <3>3 DEF StopType, StopStatuses
    <3>4. CASE k # i /\ stops[k].status # "pending_new"
      BY Zenon, <2>1, <3>1, <3>4
    <3> QED
      BY Zenon, <3>2, <3>3, <3>4
  <2>3. DOMAIN stops' = DOMAIN stops
    BY Zenon, <2>1
  <2>4. stops' \in Seq(StopType)
    <3>1. PICK n \in Nat : DOMAIN stops = 1..n
      BY <1>1
    <3>2. stops' \in [1..n -> StopType]
      BY Zenon, <2>1, <2>2, <3>1
    <3> QED
      BY <3>2
  <2>5. \A k \in DOMAIN stops :
           /\ stops[k].status = "replaced" => stops'[k].status = "replaced"
           /\ stops'[k].status \in {"new", "pending_replace"} => k = InForce
           /\ stops'[k].status # "pending_new"
    BY <1>0, <2>1, <2>2 DEF OneResting
  <2> QED
    BY Zenon, <1>1, <2>2, <2>3, <2>4, <2>5, StatusesStep
<1> QED
  BY Zenon, <1>2, <1>3

\* The replacement takes the place of the order in force, at a tighter price.
LEMMA ReplacementStep ==
    ASSUME TrailInv, NEW i \in DOMAIN stops, NEW j \in DOMAIN stops, Replacement(i, j)
    PROVE  TrailInv' /\ stops'[InForce'].price >= stops[InForce].price /\ recorded' = recorded
<1>0. TrailTypeOK /\ LinksForward(stops) /\ OneResting /\ SavesConfirmed
  BY Zenon DEF TrailInv
<1>1. PICK f : EndsAt(stops, f)
  BY Zenon DEF TrailInv
<1> DEFINE s == [stops EXCEPT ![i].status = "replaced"]
           linked == [s[i] EXCEPT !.replaced_by = j]
           t == [s EXCEPT ![i] = linked]
           g == [k \in DOMAIN stops |-> IF f[k] = i THEN j ELSE f[k]]
<1>2. /\ UNCHANGED <<recorded, cycle, patches>> /\ stops \in Seq(StopType)
      /\ stops[i].status = "pending_replace" /\ j = Len(stops) /\ stops[j].status = "pending_new"
      /\ i \in Nat /\ j \in Nat /\ DOMAIN stops = 1..Len(stops) /\ i # j /\ i < j
  BY <1>0 DEF Replacement, TrailTypeOK
<1>3. "replaced" \in StopStatuses /\ "new" \in StopStatuses
  BY Zenon DEF StopStatuses
<1>4. Restated(stops, i, "replaced", s)
  BY <1>2, <1>3, WithStatus, Zenon
<1>5. stops' = [t EXCEPT ![j].status = "new"]
  BY Zenon, <1>2 DEF Replacement
<1> HIDE DEF s
<1>6. /\ s \in Seq(StopType) /\ Len(s) = Len(stops) /\ DOMAIN s = DOMAIN stops /\ s[i] \in StopType
      /\ \A k \in DOMAIN stops : /\ s[k].price = stops[k].price /\ s[k].replaced_by = stops[k].replaced_by
                                 /\ s[k].status = IF k = i THEN "replaced" ELSE stops[k].status
  BY SMTT(20), <1>4 DEF Restated
<1>7. /\ linked \in StopType /\ linked.price = s[i].price /\ linked.status = s[i].status
      /\ linked.replaced_by = j
  BY Zenon, <1>2, <1>6 DEF StopType
<1> HIDE DEF linked
<1>8. /\ t \in Seq(StopType) /\ Len(t) = Len(s) /\ DOMAIN t = DOMAIN s /\ t[i] = linked
      /\ \A k \in DOMAIN s : k # i => t[k] = s[k]
  BY <1>6, <1>7
<1> HIDE DEF t
<1>9. Restated(t, j, "new", stops')
  <2>1. j \in DOMAIN t
    BY Zenon, <1>6, <1>8
  <2> QED
    BY <1>3, <1>5, <1>8, <2>1, WithStatus, Zenon
<1>10. /\ stops' \in Seq(StopType) /\ Len(stops') = Len(t) /\ DOMAIN stops' = DOMAIN t
       /\ \A k \in DOMAIN t : /\ stops'[k].price = t[k].price /\ stops'[k].replaced_by = t[k].replaced_by
                              /\ stops'[k].status = IF k = j THEN "new" ELSE t[k].status
  BY Zenon, <1>9 DEF Restated
<1>11. DOMAIN stops' = DOMAIN stops /\ Len(stops') = Len(stops)
  BY Zenon, <1>6, <1>8, <1>10
<1>12. \A k \in DOMAIN stops :
          /\ stops'[k].price = stops[k].price
          /\ stops'[k].replaced_by = IF k = i THEN j ELSE stops[k].replaced_by
          /\ stops'[k].status = IF k = j THEN "new" ELSE IF k = i THEN "replaced" ELSE stops[k].status
  <2> SUFFICES ASSUME NEW k \in DOMAIN stops
               PROVE  /\ stops'[k].price = stops[k].price
                      /\ stops'[k].replaced_by = IF k = i THEN j ELSE stops[k].replaced_by
                      /\ stops'[k].status = IF k = j THEN "new" ELSE IF k = i THEN "replaced" ELSE stops[k].status
    BY Zenon
  <2>1. /\ stops'[k].price = t[k].price /\ stops'[k].replaced_by = t[k].replaced_by
        /\ stops'[k].status = IF k = j THEN "new" ELSE t[k].status
    BY Zenon, <1>6, <1>8, <1>10
  <2>2. /\ s[k].price = stops[k].price /\ s[k].replaced_by = stops[k].replaced_by
        /\ s[k].status = IF k = i THEN "replaced" ELSE stops[k].status
    BY Zenon, <1>6
  <2>3. CASE k = i
    BY Zenon, <1>7, <1>8, <2>1, <2>2, <2>3
  <2>4. CASE k # i
    <3>1. t[k] = s[k]
      BY Zenon, <1>6, <1>8, <2>4
    <3> QED
      BY Zenon, <2>1, <2>2, <2>4, <3>1
  <2> QED
    BY Zenon, <2>3, <2>4
<1>13. /\ InForce = f[1] /\ InForce \in DOMAIN stops /\ i = InForce /\ stops[j].price > stops[i].price
       /\ stops[i].price \in Int /\ stops[j].price \in Int
  <2>1. InForce = f[1] /\ InForce \in DOMAIN stops
    BY Zenon, <1>0, <1>1, InForceIs
  <2>2. i = InForce /\ stops[j].price > stops[InForce].price
    BY Zenon, <1>0, <1>2 DEF OneResting
  <2>3. stops[i] \in StopType /\ stops[j] \in StopType
    BY SMTT(20), <1>2
  <2> QED
    BY Zenon, <2>1, <2>2, <2>3 DEF StopType
<1>14. stops[i].replaced_by = NoStop /\ stops[j].replaced_by = NoStop
  BY Zenon, <1>0, <1>2 DEF LinksForward
<1>15. LinksForward(stops')
  <2>1. ASSUME NEW k \in DOMAIN stops, stops'[k].replaced_by # NoStop
        PROVE  /\ stops'[k].replaced_by \in DOMAIN stops /\ stops'[k].replaced_by > k
               /\ stops'[k].status = "replaced"
    <3>1. CASE k = i
      BY Zenon, <1>2, <1>12, <3>1
    <3>2. CASE k # i
      <4>1. k # j /\ stops'[k].replaced_by = stops[k].replaced_by /\ stops[k].replaced_by # NoStop
        BY Zenon, <1>12, <1>14, <2>1, <3>2
      <4> QED
        BY Zenon, <1>0, <1>12, <3>2, <4>1 DEF LinksForward
    <3> QED
      BY Zenon, <3>1, <3>2
  <2> QED
    BY Zenon, <1>11, <2>1 DEF LinksForward
<1>16. f[i] = i /\ f[j] = j /\ f \in [DOMAIN stops -> DOMAIN stops]
  BY Zenon, <1>1, <1>14 DEF EndsAt
<1>17. /\ g \in [DOMAIN stops -> DOMAIN stops] /\ g[i] = j /\ g[j] = j
       /\ \A k \in DOMAIN stops : g[k] = IF f[k] = i THEN j ELSE f[k]
  BY Zenon, <1>2, <1>16
<1> HIDE DEF g
<1>18. EndsAt(stops', g)
  <2>1. ASSUME NEW k \in DOMAIN stops
        PROVE  g[k] = IF stops'[k].replaced_by = NoStop THEN k ELSE g[stops'[k].replaced_by]
    <3>1. CASE k = i
      BY SMTT(20), <1>2, <1>12, <1>17, <3>1 DEF NoStop
    <3>2. CASE k # i /\ stops[k].replaced_by = NoStop
      <4>1. f[k] = k
        BY Zenon, <1>1, <3>2 DEF EndsAt
      <4> QED
        BY Zenon, <1>12, <1>17, <3>2, <4>1
    <3>3. CASE k # i /\ stops[k].replaced_by # NoStop
      <4>1. stops[k].replaced_by \in DOMAIN stops /\ f[k] = f[stops[k].replaced_by]
        BY Zenon, <1>0, <1>1, <3>3 DEF EndsAt, LinksForward
      <4>2. stops'[k].replaced_by = stops[k].replaced_by
        BY Zenon, <1>12, <3>3
      <4>3. g[k] = g[stops[k].replaced_by]
        BY Zenon, <1>17, <4>1
      <4> QED
        BY Zenon, <3>3, <4>2, <4>3
    <3> QED
      BY Zenon, <3>1, <3>2, <3>3
  <2>2. ASSUME NEW k \in DOMAIN stops PROVE stops'[g[k]].replaced_by = NoStop
    <3>1. CASE f[k] = i
      BY Zenon, <1>2, <1>12, <1>14, <1>17, <3>1
    <3>2. CASE f[k] # i
      <4>1. g[k] = f[k] /\ f[k] \in DOMAIN stops /\ stops[f[k]].replaced_by = NoStop
        BY Zenon, <1>1, <1>16, <1>17, <3>2 DEF EndsAt
      <4> QED
        BY Zenon, <1>12, <3>2, <4>1
    <3> QED
      BY Zenon, <3>1, <3>2
  <2> QED
    BY Zenon, <1>11, <1>17, <2>1, <2>2 DEF EndsAt
<1>19. g[1] = j /\ 1 \in DOMAIN stops
  BY Zenon, <1>0, <1>13, <1>17 DEF TrailTypeOK
<1>20. InForce' = j
  BY Zenon, <1>10, <1>11, <1>15, <1>18, <1>19, InForceAfter
<1>21. OneResting'
  <2>1. ASSUME NEW k \in DOMAIN stops
        PROVE  /\ stops'[k].status \in {"new", "pending_replace"} => k = j
               /\ stops'[k].status # "pending_new"
    <3>1. stops[k].status = "pending_new" => k = j
      BY Zenon, <1>0, <1>2 DEF OneResting
    <3>2. stops[k].status \in {"new", "pending_replace"} => k = i
      BY Zenon, <1>0, <1>13 DEF OneResting
    <3> QED
      BY Zenon, <1>2, <1>12, <3>1, <3>2
  <2> QED
    BY Zenon, <1>11, <1>20, <2>1 DEF OneResting
<1>22. cycle' \in CycleType /\ (cycle'.step = "polling" => cycle'.order \in DOMAIN stops')
  BY Zenon, <1>0, <1>2, <1>11 DEF TrailTypeOK, SavesConfirmed
<1>23. /\ stops[InForce].price \in Int /\ stops'[g[1]].price \in Int
       /\ stops[InForce].price <= stops'[g[1]].price
  BY SMTT(20), <1>12, <1>13, <1>19
<1> QED
  BY Zenon, <1>2, <1>10, <1>11, <1>12, <1>15, <1>18, <1>21, <1>22, <1>23, BrokerStep

\* The broker accepts a request: the order in force stays in force, with one tighter replacement
\* pending.
LEMMA PatchStep ==
    ASSUME TrailInv, NEW r \in patches, PatchAccepted(r)
    PROVE  TrailInv' /\ stops'[InForce'].price >= stops[InForce].price /\ recorded' = recorded
<1>0. TrailTypeOK /\ LinksForward(stops) /\ OneResting /\ PatchesTighten /\ SavesConfirmed
  BY Zenon DEF TrailInv
<1>1. PICK f : EndsAt(stops, f)
  BY Zenon DEF TrailInv
<1> DEFINE i == r.order
           n == Len(stops)
           new == [price |-> r.price, status |-> "pending_new", replaced_by |-> NoStop]
<1>2. PICK t : t = [stops EXCEPT ![i].status = "pending_replace"]
  BY Zenon
<1>3. /\ recorded' = recorded /\ patches' \subseteq patches /\ stops \in Seq(StopType)
      /\ stops[i].status = "new" /\ stops' = Append(t, new) /\ i \in DOMAIN stops /\ r.price > stops[i].price
      /\ n \in Nat /\ DOMAIN stops = 1..n
  BY <1>0, <1>2 DEF PatchAccepted, TrailTypeOK, PatchesTighten
<1>4. /\ r.price \in Int /\ new \in StopType /\ new.price = r.price /\ new.status = "pending_new"
      /\ new.replaced_by = NoStop
  BY Zenon, <1>0 DEF TrailTypeOK, StopType, StopStatuses, NoStop
<1> HIDE DEF new, i
<1>5. Restated(stops, i, "pending_replace", t)
  <2>1. "pending_replace" \in StopStatuses
    BY Zenon DEF StopStatuses
  <2> QED
    BY <1>2, <1>3, <2>1, WithStatus, Zenon
<1>6. /\ t \in Seq(StopType) /\ Len(t) = n /\ DOMAIN t = 1..n
      /\ \A k \in 1..n : /\ t[k].price = stops[k].price /\ t[k].replaced_by = stops[k].replaced_by
                         /\ t[k].status = IF k = i THEN "pending_replace" ELSE stops[k].status
  BY Zenon, <1>3, <1>5 DEF Restated
<1> HIDE DEF n
<1>7. PICK m \in Nat : m = n + 1
  BY <1>3
<1>8. /\ stops' \in Seq(StopType) /\ DOMAIN stops' = 1..m /\ Len(stops') = m /\ stops'[m] = new
      /\ \A k \in 1..n : stops'[k] = t[k]
  BY <1>3, <1>4, <1>6, <1>7
<1>9. 1..n \subseteq 1..m /\ m \in 1..m /\ m \notin 1..n /\ \A k \in 1..m : k \in 1..n \/ k = m
  BY <1>3, <1>7
<1>10. /\ InForce = f[1] /\ InForce \in 1..n /\ i = InForce /\ stops[InForce].price \in Int
       /\ i \in 1..n /\ 1 \in 1..n
  <2>1. InForce = f[1] /\ InForce \in DOMAIN stops /\ 1 \in DOMAIN stops
    BY Zenon, <1>0, <1>1, InForceIs DEF TrailTypeOK
  <2>2. i = InForce
    BY Zenon, <1>0, <1>3 DEF OneResting
  <2>3. stops[InForce] \in StopType
    BY <1>3, <2>1
  <2> QED
    BY Zenon, <1>3, <2>1, <2>2, <2>3 DEF StopType
<1>11. \A k \in 1..n : /\ stops'[k].price = stops[k].price /\ stops'[k].replaced_by = stops[k].replaced_by
                       /\ stops'[k].status = IF k = i THEN "pending_replace" ELSE stops[k].status
  BY Zenon, <1>6, <1>8
<1>12. stops'[m].price = r.price /\ stops'[m].status = "pending_new" /\ stops'[m].replaced_by = NoStop
  BY Zenon, <1>4, <1>8
<1>13. LinksForward(stops')
  <2>1. ASSUME NEW k \in 1..n, stops'[k].replaced_by # NoStop
        PROVE  /\ stops'[k].replaced_by \in 1..m /\ stops'[k].replaced_by > k /\ stops'[k].status = "replaced"
    <3>1. /\ stops[k].replaced_by \in 1..n /\ stops[k].replaced_by > k /\ stops[k].status = "replaced"
      BY Zenon, <1>0, <1>3, <1>11, <2>1 DEF LinksForward
    <3>2. k # i
      BY Zenon, <1>3, <3>1
    <3> QED
      BY Zenon, <1>9, <1>11, <3>1, <3>2
  <2> QED
    BY Zenon, <1>8, <1>9, <1>12, <2>1 DEF LinksForward
<1> DEFINE g == [k \in 1..m |-> IF k = m THEN m ELSE f[k]]
<1>14. /\ f \in [1..n -> 1..n]
       /\ \A k \in 1..n : /\ f[k] = IF stops[k].replaced_by = NoStop THEN k ELSE f[stops[k].replaced_by]
                          /\ stops[f[k]].replaced_by = NoStop
  BY Zenon, <1>1, <1>3 DEF EndsAt
<1>15. g \in [1..m -> 1..m] /\ g[m] = m /\ \A k \in 1..n : g[k] = f[k] /\ f[k] \in 1..n
  BY Zenon, <1>9, <1>14
<1> HIDE DEF g
<1>16. EndsAt(stops', g)
  <2>1. ASSUME NEW k \in 1..m
        PROVE  /\ g[k] = IF stops'[k].replaced_by = NoStop THEN k ELSE g[stops'[k].replaced_by]
               /\ stops'[g[k]].replaced_by = NoStop
    <3>1. CASE k = m
      BY Zenon, <1>12, <1>15, <3>1
    <3>2. CASE k \in 1..n
      <4>1. stops[k].replaced_by # NoStop => stops[k].replaced_by \in 1..n
        BY Zenon, <1>0, <1>3, <3>2 DEF LinksForward
      <4>2. stops'[g[k]].replaced_by = NoStop
        BY SMTT(20), <1>11, <1>14, <1>15, <3>2
      <4>3. CASE stops[k].replaced_by = NoStop
        BY Zenon, <1>11, <1>14, <1>15, <3>2, <4>2, <4>3
      <4>4. CASE stops[k].replaced_by # NoStop
        <5>1. PICK p \in 1..n : p = stops[k].replaced_by
          BY Zenon, <4>1, <4>4
        <5>2. f[k] = f[p] /\ stops'[k].replaced_by = p
          BY Zenon, <1>11, <1>14, <3>2, <4>4, <5>1
        <5>3. g[k] = g[p]
          BY Zenon, <1>15, <3>2, <5>2
        <5> QED
          BY Zenon, <4>2, <4>4, <5>1, <5>2, <5>3
      <4> QED
        BY Zenon, <4>3, <4>4
    <3> QED
      BY Zenon, <1>9, <3>1, <3>2
  <2> QED
    BY Zenon, <1>8, <1>15, <2>1 DEF EndsAt
<1>17. g[1] = InForce /\ InForce' = InForce
  <2>1. g[1] = InForce /\ 1 \in DOMAIN stops'
    BY Zenon, <1>8, <1>9, <1>10, <1>15
  <2> QED
    BY Zenon, <1>8, <1>13, <1>16, <2>1, InForceAfter
<1>18. OneResting'
  <2>1. \A k \in 1..n : stops[k].status # "pending_new"
    BY Zenon, <1>0, <1>3, <1>10 DEF OneResting
  <2>2. ASSUME NEW k \in 1..m
        PROVE  /\ stops'[k].status \in {"new", "pending_replace"} => k = InForce
               /\ stops'[k].status = "pending_new" =>
                     k = m /\ stops'[InForce].status = "pending_replace" /\ stops'[k].price > stops'[InForce].price
    <3>1. CASE k = m
      BY Zenon, <1>3, <1>10, <1>11, <1>12, <3>1
    <3>2. CASE k \in 1..n
      <4>1. stops[k].status \in {"new", "pending_replace"} => k = InForce
        BY Zenon, <1>0, <1>3, <3>2 DEF OneResting
      <4> QED
        BY Zenon, <1>10, <1>11, <2>1, <3>2, <4>1
    <3> QED
      BY Zenon, <1>9, <3>1, <3>2
  <2> QED
    BY <1>8, <1>17, <2>2 DEF OneResting
<1>19. /\ cycle' \in CycleType /\ (cycle'.step = "polling" => cycle'.order \in DOMAIN stops')
       /\ cycle'.step = "saving" => cycle'.step = cycle.step /\ cycle'.target = cycle.target
  <2>1. cycle \in CycleType /\ (cycle.step = "polling" => cycle.order \in 1..n)
    BY Zenon, <1>0, <1>3 DEF TrailTypeOK, SavesConfirmed
  <2>2. cycle' = cycle \/ cycle' = [cycle EXCEPT !.step = "polling", !.order = m]
    BY Zenon, <1>7 DEF PatchAccepted, n
  <2>3. CASE cycle' = cycle
    BY Zenon, <1>8, <1>9, <2>1, <2>3
  <2>4. CASE cycle' = [cycle EXCEPT !.step = "polling", !.order = m]
    <3>1. cycle' \in CycleType /\ cycle'.step = "polling" /\ cycle'.order = m
      BY Zenon, <2>1, <2>4 DEF CycleType
    <3> QED
      BY Zenon, <1>8, <1>9, <3>1
  <2> QED
    BY Zenon, <2>2, <2>3, <2>4
<1>20. /\ stops'[g[1]].price \in Int /\ stops[InForce].price <= stops'[g[1]].price
       /\ DOMAIN stops \subseteq DOMAIN stops' /\ \A k \in DOMAIN stops : stops'[k].price = stops[k].price
  <2>1. stops'[g[1]].price = stops[InForce].price
    BY Zenon, <1>10, <1>11, <1>17
  <2>2. PICK price \in Int : price = stops[InForce].price
    BY Zenon, <1>10
  <2>3. price <= price
    BY <2>2
  <2>4. DOMAIN stops \subseteq DOMAIN stops' /\ \A k \in DOMAIN stops : stops'[k].price = stops[k].price
    BY Zenon, <1>3, <1>8, <1>9, <1>11
  <2> QED
    BY Zenon, <2>1, <2>2, <2>3, <2>4
<1> QED
  BY Zenon, <1>3, <1>8, <1>10, <1>13, <1>16, <1>18, <1>19, <1>20, BrokerStep

\* However replies are lost, late or rejected, the stop in force makes the recorded one good (to the
\* cent for the card's own stop, exactly for one that a cycle saved), and neither is ever loosened
\* (manage_trailing_stops, modify_order_stop, update_position_stop).
THEOREM ProtectionOnlyRatchets == TrailSpec => ProtectionRatchets
<1> DEFINE Kept == /\ Covers(stops'[InForce'].price, recorded')
                   /\ recorded' >= recorded
                   /\ stops'[InForce'].price >= stops[InForce].price
<1>1. ASSUME TrailInv, [TrailNext]_trailVars PROVE TrailInv' /\ [Kept]_trailVars
  <2>0. recorded \in Int /\ stops[InForce].price \in Int
    <3>1. TrailTypeOK /\ InForce \in DOMAIN stops
      <4>1. PICK f : EndsAt(stops, f)
        BY Zenon, <1>1 DEF TrailInv
      <4> QED
        BY Zenon, <1>1, <4>1, InForceIs DEF TrailInv
    <3>2. stops[InForce] \in StopType /\ recorded \in Int
      BY <3>1 DEF TrailTypeOK
    <3> QED
      BY Zenon, <3>2 DEF StopType
  <2> DEFINE Good == /\ TrailInv' /\ recorded' >= recorded /\ stops'[InForce'].price >= stops[InForce].price
  <2>1. CASE UNCHANGED trailVars
    <3>1. InForce' = InForce
      BY Zenon, <2>1, CurrentIs DEF trailVars
    <3> QED
      BY Zenon, <1>1, <2>1, <3>1 DEF trailVars, TrailInv, TrailTypeOK, OneResting, PatchesTighten, SavesConfirmed
  <2>2. ASSUME NEW r \in patches, PatchAccepted(r) PROVE Good
    BY <1>1, <2>0, <2>2, PatchStep
  <2>3. ASSUME NEW r \in patches, PatchLost(r) PROVE Good
    <3>1. TrailTypeOK /\ PatchesTighten /\ SavesConfirmed
      BY Zenon, <1>1 DEF TrailInv
    <3>2. UNCHANGED <<stops, recorded, cycle>> /\ patches' \subseteq patches
      BY Zenon, <2>3 DEF PatchLost
    <3>3. patches' \subseteq [order : Nat, price : Int] /\ PatchesTighten'
      BY Zenon, <3>1, <3>2 DEF TrailTypeOK, PatchesTighten
    <3>4. TrailInv' /\ InForce' = InForce
      BY SMTT(20), <1>1, <2>0, <3>1, <3>2, <3>3, DeskStep DEF TrailTypeOK, SavesConfirmed
    <3> QED
      BY <2>0, <3>2, <3>4
  <2>4. ASSUME NEW i \in DOMAIN stops, NEW j \in DOMAIN stops, Replacement(i, j) PROVE Good
    BY SMTT(20), <1>1, <2>0, <2>4, ReplacementStep
  <2>5. ASSUME NEW i \in DOMAIN stops, StopEnds(i) \/ (\E j \in DOMAIN stops : ReplacementRejected(i, j)) PROVE Good
    BY <1>1, <2>0, <2>5, EndsStep
  <2>6. CASE manage_trailing_stops \/ PollStop \/ update_position_stop \/ CycleFails
    <3>1. Good
      <4>1. TrailInv' /\ InForce' = InForce /\ recorded' >= recorded /\ UNCHANGED stops
        BY Zenon, <1>1, <2>6, CycleStep DEF manage_trailing_stops, PollStop, update_position_stop, CycleFails
      <4> QED
        BY <2>0, <4>1
    <3> QED
      BY Zenon, <3>1 DEF TrailInv, SavesConfirmed
  <2>7. CASE ReadStop
    <3>1. Good
      <4>1. TrailInv' /\ InForce' = InForce /\ recorded' >= recorded /\ UNCHANGED stops
        BY Zenon, <1>1, <2>7, ReadStopStep DEF ReadStop
      <4> QED
        BY <2>0, <4>1
    <3> QED
      BY Zenon, <3>1 DEF TrailInv, SavesConfirmed
  <2>8. Good => TrailInv' /\ [Kept]_trailVars
    BY Zenon DEF TrailInv, SavesConfirmed
  <2> HIDE DEF Good, Kept
  <2> QED
    BY Zenon, <1>1, <2>1, <2>2, <2>3, <2>4, <2>5, <2>6, <2>7, <2>8 DEF TrailNext
<1> QED
  BY <1>1, TrailInitInv, PTL DEF TrailSpec, ProtectionRatchets
=============================================================================

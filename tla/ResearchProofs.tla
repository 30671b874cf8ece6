--------------------------- MODULE ResearchProofs ---------------------------
(***************************************************************************)
(* Theorems about the research side and the bounded reads: PooledCampaign  *)
(* for any campaigns and processes, AlphaRegistry for any versions and     *)
(* symbols, ResearchBudget for any runs and days, ProviderReads for any    *)
(* callers and slots.                                                      *)
(*                                                                         *)
(* PooledCampaign: what a late or orphaned write relies on was journaled   *)
(* before it was sent and stays so (WriteReady, JournalGrows).             *)
(* AlphaRegistry: time and losses only take owners away (KillNoted).       *)
(* ResearchBudget: counts over an unbounded set of runs are the sizes of   *)
(* sets of tokens, and no run computes more than it reserved               *)
(* (TrialsCharged).  ProviderReads: a call has left its unfinished reads   *)
(* behind at earlier providers (ReadsBehind).                              *)
(***************************************************************************)
EXTENDS PooledCampaign, AlphaRegistry, ResearchBudget, ProviderReads, FiniteSetTheorems, TLAPS

(* The pooled campaign. *)

-----------------------------------------------------------------------------
(* Pooled campaigns: PooledCampaign. *)

PooledSteps == Working \cup {"idle", "failing", "reporting", "recovering", "recovered"}
PooledStatuses == {"none", "reserved", "frozen", "confirmation_consumed", "completed", "failed"}
PooledRunType ==
    [campaign : Campaigns \cup {"none"}, step : PooledSteps, next : Nat \ {0},
     aborted : {"no", "one", "all"}, orphan : Writing \cup {"none"}]
PooledRecordType ==
    [status : PooledStatuses, stages : SUBSET PooledStatuses,
     frozen : {{}} \cup {Frozen[c] : c \in Campaigns}]

PooledFormula(c) == {Proposals[c][i] : i \in 1..Len(Proposals[c])}
PooledFormulas == UNION {PooledFormula(c) : c \in Campaigns}
PooledReserved == {c \in Campaigns : record[c].status # "none"}
ChargedTo(c) == {x \in charges : x[1] = c}
Consumption(c) == [campaign |-> c, candidates |-> Frozen[c]]

JournalTypeOK ==
    /\ record \in [Campaigns -> PooledRecordType]
    /\ charged \in [Campaigns -> Nat \cup {NotReserved}]
    /\ charges \subseteq Campaigns \X PooledFormulas
    /\ IsFiniteSet(charges)
    /\ counts \in [formulas_charged : Nat, campaigns : Nat, confirmations : Nat]
    /\ consumed \subseteq {Consumption(c) : c \in Campaigns}
    /\ IsFiniteSet(consumed)
    /\ IsFiniteSet(PooledReserved)

\* What the journal holds of a campaign that consumed its window, or that completed.
StagesBacked ==
    \A c \in Campaigns :
       /\ record[c].status = "none" => record[c].stages = {}
       /\ "confirmation_consumed" \in record[c].stages =>
             /\ Consumption(c) \in consumed
             /\ record[c].frozen = Frozen[c]
             /\ \A f \in Frozen[c] : <<c, f>> \in charges
       /\ "completed" \in record[c].stages =>
             /\ record[c].status = "completed"
             /\ Frozen[c] = {} \/ Consumption(c) \in consumed

WindowsDisjoint ==
    \A i, j \in consumed : i # j => ~ WindowsOverlap(Windows[i.campaign], Windows[j.campaign])

\* A family that is not reserved was charged nothing, one that is, what the journal holds.
FamiliesAddUp ==
    \A c \in Campaigns :
       /\ charged[c] = NotReserved => ChargedTo(c) = {}
       /\ charged[c] # NotReserved => charged[c] = Cardinality(ChargedTo(c)) /\ charged[c] <= Budget

TotalsAddUp ==
    /\ counts.formulas_charged = Cardinality(charges)
    /\ counts.campaigns = Cardinality(PooledReserved)
    /\ counts.confirmations = Cardinality(consumed)

JournalInv == JournalTypeOK /\ StagesBacked /\ WindowsDisjoint /\ FamiliesAddUp /\ TotalsAddUp

\* What a write at a step relies on, by the steps before it.
WriteReady(c, write, next) ==
    /\ write \in {"family", "charge"} =>
          next <= Len(Proposals[c]) /\ \A i \in 1..(next - 1) : <<c, Proposals[c][i]>> \in charges
    /\ write \in {"freeze", "consume"} =>
          Frozen[c] # {} /\ \A i \in 1..Len(Proposals[c]) : <<c, Proposals[c][i]>> \in charges
    /\ write = "consume" => record[c].frozen = Frozen[c]

RunSound(r) ==
    LET c == runs[r].campaign IN
    /\ runs[r].step # "idle" => c \in Campaigns /\ record[c].status # "none"
    /\ runs[r].orphan # "none" => runs[r].step \in {"failing", "reporting"}
    /\ WriteReady(c, runs[r].step, runs[r].next)
    /\ WriteReady(c, runs[r].orphan, runs[r].next)
    /\ runs[r].step \in {"confirm", "recovering", "recovered"} => Consumption(c) \in consumed
    /\ runs[r].step = "complete" => Frozen[c] = {} \/ Consumption(c) \in consumed

RunsInv == runs \in [Runs -> PooledRunType] /\ \A r \in Runs : RunSound(r)

\* A consumed window has at most one run that is about to open it, or that did.
OpenedInv ==
    /\ \A o \in opened : o.campaign \in Campaigns /\ Consumption(o.campaign) \in consumed
    /\ \A o, p \in opened : o.campaign = p.campaign /\ o.kind = "run" /\ p.kind = "run" => o = p
    /\ \A o \in opened, r \in Runs : runs[r].step = "confirm" /\ o.kind = "run" => o.campaign # runs[r].campaign
    /\ \A r, s \in Runs : runs[r].step = "confirm" /\ runs[s].step = "confirm" /\ r # s
                            => runs[r].campaign # runs[s].campaign

PooledInv == JournalInv /\ RunsInv /\ OpenedInv

\* An empty journal charges nobody and holds no window (PooledInit).
LEMMA PooledInitInv == PooledInit => PooledInv
<1> SUFFICES ASSUME PooledInit PROVE PooledInv
  BY Zenon
<1>1. IsFiniteSet({}) /\ Cardinality({}) = 0
  BY FS_EmptySet, Zenon
<1>2. PooledReserved = {} /\ charges = {} /\ consumed = {} /\ opened = {}
  BY Zenon DEF PooledInit, PooledReserved, NoRecord
<1>3. NoRecord \in PooledRecordType
  BY Zenon DEF NoRecord, PooledRecordType, PooledStatuses
<1>4. NoRun \in PooledRunType
  BY DEF NoRun, PooledRunType, PooledSteps, Working, Writing
<1>5. JournalTypeOK
  BY Zenon, <1>1, <1>2, <1>3 DEF PooledInit, JournalTypeOK, NotReserved
<1>6. StagesBacked /\ WindowsDisjoint /\ TotalsAddUp
  BY Zenon, <1>1, <1>2 DEF PooledInit, StagesBacked, WindowsDisjoint, TotalsAddUp, NoRecord
<1>7. FamiliesAddUp
  BY Zenon, <1>2 DEF PooledInit, FamiliesAddUp, ChargedTo
<1>8. RunsInv
  BY Zenon, <1>4 DEF PooledInit, RunsInv, RunSound, NoRun, WriteReady
<1>9. OpenedInv
  BY Zenon, <1>2 DEF PooledInit, OpenedInv, NoRun
<1> QED
  BY Zenon, <1>5, <1>6, <1>7, <1>8, <1>9 DEF PooledInv, JournalInv

\* The journal only grows: what a step relies on stays true under the steps of other runs.
JournalGrows ==
    /\ charges \subseteq charges' /\ consumed \subseteq consumed'
    /\ \A c \in Campaigns : record[c].status # "none" =>
          /\ record'[c].status # "none"
          /\ record[c].frozen = Frozen[c] => record'[c].frozen = Frozen[c]

\* A step that changes nothing of the journal.
LEMMA JournalKept ==
    ASSUME JournalInv, UNCHANGED journalVars
    PROVE  JournalInv' /\ JournalGrows
<1>1. PooledReserved' = PooledReserved /\ \A c : ChargedTo(c)' = ChargedTo(c)
  BY Zenon DEF journalVars, PooledReserved, ChargedTo
<1>2. JournalTypeOK'
  BY Zenon, <1>1 DEF JournalInv, JournalTypeOK, journalVars
<1>3. StagesBacked' /\ WindowsDisjoint' /\ TotalsAddUp'
  BY Zenon, <1>1 DEF JournalInv, StagesBacked, WindowsDisjoint, TotalsAddUp, journalVars
<1>4. FamiliesAddUp'
  BY Zenon, <1>1 DEF JournalInv, FamiliesAddUp, journalVars
<1> QED
  BY Zenon, <1>2, <1>3, <1>4 DEF JournalInv, JournalGrows, journalVars

\* A record that changes and was reserved leaves the set of reserved campaigns.
LEMMA ReservedKept ==
    ASSUME JournalTypeOK, NEW c \in Campaigns, NEW new \in PooledRecordType, record[c].status # "none",
           new.status # "none", record' = [record EXCEPT ![c] = new]
    PROVE  /\ record' \in [Campaigns -> PooledRecordType]
           /\ record'[c] = new /\ \A d \in Campaigns \ {c} : record'[d] = record[d]
           /\ PooledReserved' = PooledReserved
<1>1. record' \in [Campaigns -> PooledRecordType]
  BY Zenon DEF JournalTypeOK
<1>2. record'[c] = new /\ \A d \in Campaigns \ {c} : record'[d] = record[d]
  BY Zenon DEF JournalTypeOK
<1> QED
  BY Zenon, <1>1, <1>2 DEF PooledReserved

\* advance_pooled_campaign to frozen, failed or completed, of a campaign that is not completed.
LEMMA AdvanceJournal ==
    ASSUME JournalInv, NEW c \in Campaigns, NEW status \in {"frozen", "failed", "completed"},
           record[c].status \notin {"none", "completed"}, advance_pooled_campaign(c, status),
           UNCHANGED <<charged, charges, counts, consumed>>,
           status = "completed" => Frozen[c] = {} \/ Consumption(c) \in consumed
    PROVE  /\ JournalInv' /\ JournalGrows
           /\ status = "frozen" => record'[c].frozen = Frozen[c]
<1> DEFINE new == [record[c] EXCEPT !.status = status, !.stages = @ \cup {status},
                                    !.frozen = IF status = "frozen" THEN Frozen[c] ELSE @]
<1>0. JournalTypeOK /\ record[c] \in PooledRecordType
  BY Zenon DEF JournalInv, JournalTypeOK
<1>1. /\ new \in PooledRecordType /\ new.status = status /\ new.stages = record[c].stages \cup {status}
      /\ new.frozen = IF status = "frozen" THEN Frozen[c] ELSE record[c].frozen
  BY Zenon, <1>0 DEF PooledRecordType, PooledStatuses
<1>2. record' = [record EXCEPT ![c] = new]
  BY Zenon DEF advance_pooled_campaign
<1> HIDE DEF new
<1>3. /\ record' \in [Campaigns -> PooledRecordType]
      /\ record'[c] = new /\ \A d \in Campaigns \ {c} : record'[d] = record[d]
      /\ PooledReserved' = PooledReserved
  BY Zenon, <1>0, <1>1, <1>2, ReservedKept
<1>4. JournalTypeOK' /\ TotalsAddUp'
  BY Zenon, <1>0, <1>3 DEF JournalInv, JournalTypeOK, TotalsAddUp
<1>5. StagesBacked /\ WindowsDisjoint /\ FamiliesAddUp
  BY Zenon DEF JournalInv
<1>6. StagesBacked'
  BY <1>1, <1>3, <1>5 DEF StagesBacked
<1>7. WindowsDisjoint' /\ FamiliesAddUp'
  BY Zenon, <1>5 DEF WindowsDisjoint, FamiliesAddUp, ChargedTo
<1>8. JournalGrows /\ (status = "frozen" => record'[c].frozen = Frozen[c])
  BY Zenon, <1>1, <1>3 DEF JournalGrows
<1> QED
  BY Zenon, <1>4, <1>6, <1>7, <1>8 DEF JournalInv

\* The reservation of a family: record_pooled_family, the first time or again.
LEMMA FamilyJournal ==
    ASSUME JournalInv, NEW c \in Campaigns,
           charged' = [charged EXCEPT ![c] = IF @ = NotReserved THEN 0 ELSE @],
           UNCHANGED <<record, charges, counts, consumed>>
    PROVE  JournalInv' /\ JournalGrows
<1>0. JournalTypeOK /\ StagesBacked /\ WindowsDisjoint /\ FamiliesAddUp /\ TotalsAddUp
  BY Zenon DEF JournalInv
<1>1. PooledReserved' = PooledReserved /\ \A d : ChargedTo(d)' = ChargedTo(d)
  BY Zenon DEF PooledReserved, ChargedTo
<1>2. JournalTypeOK'
  BY Zenon, <1>0, <1>1 DEF JournalTypeOK
<1>3. StagesBacked' /\ WindowsDisjoint' /\ TotalsAddUp'
  BY Zenon, <1>0, <1>1 DEF StagesBacked, WindowsDisjoint, TotalsAddUp
<1>4. Cardinality({}) = 0
  BY FS_EmptySet, Zenon
<1>5. FamiliesAddUp'
  <2> SUFFICES ASSUME NEW d \in Campaigns
               PROVE  /\ charged'[d] = NotReserved => ChargedTo(d)' = {}
                      /\ charged'[d] # NotReserved => charged'[d] = Cardinality(ChargedTo(d)') /\ charged'[d] <= Budget
    BY Zenon DEF FamiliesAddUp
  <2>1. /\ charged[d] = NotReserved => ChargedTo(d) = {}
        /\ charged[d] # NotReserved => charged[d] = Cardinality(ChargedTo(d)) /\ charged[d] <= Budget
    BY Zenon, <1>0 DEF FamiliesAddUp
  <2>2. charged'[d] = charged[d] \/ (charged[d] = NotReserved /\ charged'[d] = 0)
    BY Zenon, <1>0 DEF JournalTypeOK
  <2>3. ChargedTo(d)' = ChargedTo(d) /\ 0 <= Budget
    BY <1>1, PooledAssumption
  <2>4. CASE charged'[d] = charged[d]
    BY Zenon, <2>1, <2>3, <2>4
  <2>5. CASE charged[d] = NotReserved /\ charged'[d] = 0
    BY Zenon, <1>4, <2>1, <2>3, <2>5 DEF NotReserved
  <2> QED
    BY Zenon, <2>2, <2>4, <2>5
<1> QED
  BY Zenon, <1>2, <1>3, <1>5 DEF JournalInv, JournalGrows

\* charge_pooled_formula of a formula the search proposes, within the family's budget.
LEMMA ChargeJournal ==
    ASSUME JournalInv, NEW c \in Campaigns, NEW f \in PooledFormula(c), charge_pooled_formula(c, f),
           <<c, f>> \in charges \/ (charged[c] # NotReserved /\ charged[c] < Budget),
           UNCHANGED <<record, consumed>>
    PROVE  JournalInv' /\ JournalGrows /\ <<c, f>> \in charges'
<1>1. CASE <<c, f>> \in charges
  <2>1. UNCHANGED journalVars
    BY Zenon, <1>1 DEF charge_pooled_formula, journalVars
  <2>2. <<c, f>> \in charges'
    BY Zenon, <1>1, <2>1 DEF journalVars
  <2> QED
    BY Zenon, <2>1, <2>2, JournalKept
<1>2. CASE <<c, f>> \notin charges
  <2>0. JournalTypeOK /\ StagesBacked /\ WindowsDisjoint /\ FamiliesAddUp /\ TotalsAddUp
    BY Zenon DEF JournalInv
  <2>1. /\ charges' = charges \cup {<<c, f>>}
        /\ charged' = [charged EXCEPT ![c] = @ + 1]
        /\ counts' = [counts EXCEPT !.formulas_charged = @ + 1]
        /\ charged[c] # NotReserved /\ charged[c] < Budget
    BY Zenon, <1>2 DEF charge_pooled_formula
  <2>2. charged[c] \in Nat /\ charged'[c] = charged[c] + 1 /\ \A d \in Campaigns \ {c} : charged'[d] = charged[d]
    BY Zenon, <2>0, <2>1 DEF JournalTypeOK
  <2>3. /\ counts' \in [formulas_charged : Nat, campaigns : Nat, confirmations : Nat]
        /\ counts'.formulas_charged = counts.formulas_charged + 1
        /\ counts'.campaigns = counts.campaigns /\ counts'.confirmations = counts.confirmations
    BY <2>0, <2>1 DEF JournalTypeOK
  <2>4. IsFiniteSet(charges \cup {<<c, f>>}) /\ Cardinality(charges \cup {<<c, f>>}) = Cardinality(charges) + 1
    BY <1>2, <2>0, FS_AddElement, Zenon DEF JournalTypeOK
  <2>5. /\ ChargedTo(c)' = ChargedTo(c) \cup {<<c, f>>}
        /\ \A d \in Campaigns \ {c} : ChargedTo(d)' = ChargedTo(d)
    BY <2>1 DEF ChargedTo
  <2>6. Cardinality(ChargedTo(c) \cup {<<c, f>>}) = Cardinality(ChargedTo(c)) + 1
    <3>1. ChargedTo(c) \in SUBSET charges /\ <<c, f>> \notin ChargedTo(c)
      BY Zenon, <1>2 DEF ChargedTo
    <3>2. IsFiniteSet(ChargedTo(c))
      BY <2>0, <3>1, FS_Subset, Zenon DEF JournalTypeOK
    <3> QED
      BY <3>1, <3>2, FS_AddElement, Zenon
  <2>7. charges' \subseteq Campaigns \X PooledFormulas
    BY <2>0, <2>1 DEF JournalTypeOK, PooledFormulas
  <2>8. charged' \in [Campaigns -> Nat \cup {NotReserved}]
    BY <2>0, <2>1, <2>2 DEF JournalTypeOK
  <2>9. PooledReserved' = PooledReserved
    BY Zenon DEF PooledReserved
  <2>10. JournalTypeOK' /\ TotalsAddUp'
    BY Zenon, <2>0, <2>1, <2>3, <2>4, <2>7, <2>8, <2>9 DEF JournalTypeOK, TotalsAddUp
  <2>11. FamiliesAddUp'
    <3> SUFFICES ASSUME NEW d \in Campaigns
                 PROVE  /\ charged'[d] = NotReserved => ChargedTo(d)' = {}
                        /\ charged'[d] # NotReserved => charged'[d] = Cardinality(ChargedTo(d)') /\ charged'[d] <= Budget
      BY Zenon DEF FamiliesAddUp
    <3>1. CASE d = c
      <4>1. charged[c] = Cardinality(ChargedTo(c))
        BY Zenon, <2>0, <2>1 DEF FamiliesAddUp
      <4>2. charged'[c] = Cardinality(ChargedTo(c)')
        BY Zenon, <2>2, <2>5, <2>6, <4>1
      <4>3. charged'[c] <= Budget /\ charged'[c] # NotReserved
        BY <2>1, <2>2, PooledAssumption DEF NotReserved
      <4> QED
        BY Zenon, <3>1, <4>2, <4>3
    <3>2. CASE d # c
      BY Zenon, <2>0, <2>2, <2>5, <3>2 DEF FamiliesAddUp
    <3> QED
      BY Zenon, <3>1, <3>2
  <2>12. StagesBacked' /\ WindowsDisjoint'
    BY Zenon, <2>0, <2>1 DEF StagesBacked, WindowsDisjoint
  <2> QED
    BY Zenon, <2>1, <2>10, <2>11, <2>12 DEF JournalInv, JournalGrows
<1> QED
  BY Zenon, <1>1, <1>2

\* consume_pooled_confirmation: an interval overlaps itself, so a campaign consumes its own once.
LEMMA ConsumeJournal ==
    ASSUME JournalInv, NEW c \in Campaigns, record[c].status # "none", Consumable(c),
           record[c].frozen = Frozen[c], Frozen[c] # {}, \A f \in Frozen[c] : <<c, f>> \in charges,
           consume_pooled_confirmation(c), UNCHANGED <<charged, charges>>
    PROVE  /\ JournalInv' /\ JournalGrows
           /\ Consumption(c) \in consumed' /\ \A i \in consumed : i.campaign # c
<1> DEFINE new == [record[c] EXCEPT !.status = "confirmation_consumed", !.stages = @ \cup {"confirmation_consumed"}]
<1>0. JournalTypeOK /\ StagesBacked /\ WindowsDisjoint /\ FamiliesAddUp /\ TotalsAddUp /\ record[c] \in PooledRecordType
  BY Zenon DEF JournalInv, JournalTypeOK
<1>1. /\ new \in PooledRecordType /\ new.status = "confirmation_consumed" /\ new.frozen = Frozen[c]
      /\ new.stages = record[c].stages \cup {"confirmation_consumed"}
  BY Zenon, <1>0 DEF PooledRecordType, PooledStatuses
<1>2. /\ record' = [record EXCEPT ![c] = new]
      /\ consumed' = consumed \cup {Consumption(c)}
      /\ counts' = [counts EXCEPT !.confirmations = @ + 1]
  BY Zenon DEF consume_pooled_confirmation, Consumption
<1> HIDE DEF new
<1>3. /\ record' \in [Campaigns -> PooledRecordType]
      /\ record'[c] = new /\ \A d \in Campaigns \ {c} : record'[d] = record[d]
      /\ PooledReserved' = PooledReserved
  BY Zenon, <1>0, <1>1, <1>2, ReservedKept
<1>4. WindowsOverlap(Windows[c], Windows[c])
  BY PooledAssumption DEF WindowsOverlap
<1>5. \A i \in consumed : i.campaign # c
  BY Zenon, <1>4 DEF Consumable
<1>6. Consumption(c).campaign = c /\ Consumption(c) \notin consumed
  BY Zenon, <1>5 DEF Consumption
<1>7. /\ IsFiniteSet(consumed \cup {Consumption(c)})
      /\ Cardinality(consumed \cup {Consumption(c)}) = Cardinality(consumed) + 1
  BY <1>0, <1>6, FS_AddElement, Zenon DEF JournalTypeOK
<1>8. /\ counts' \in [formulas_charged : Nat, campaigns : Nat, confirmations : Nat]
      /\ counts'.confirmations = counts.confirmations + 1
      /\ counts'.campaigns = counts.campaigns /\ counts'.formulas_charged = counts.formulas_charged
  BY <1>0, <1>2 DEF JournalTypeOK
<1>9. JournalTypeOK' /\ TotalsAddUp'
  BY Zenon, <1>0, <1>2, <1>3, <1>7, <1>8 DEF JournalTypeOK, TotalsAddUp
<1>10. StagesBacked'
  <2>1. "completed" \notin record[c].stages
    BY Zenon, <1>0, <1>6 DEF StagesBacked
  <2> QED
    BY Zenon, <1>0, <1>1, <1>2, <1>3, <2>1 DEF StagesBacked
<1>11. WindowsDisjoint'
  <2>1. \A i \in consumed : /\ ~ WindowsOverlap(Windows[c], Windows[i.campaign])
                            /\ ~ WindowsOverlap(Windows[i.campaign], Windows[c])
    BY Zenon DEF Consumable, WindowsOverlap
  <2> QED
    BY Zenon, <1>0, <1>2, <1>6, <2>1 DEF WindowsDisjoint
<1>12. FamiliesAddUp'
  BY Zenon, <1>0 DEF FamiliesAddUp, ChargedTo
<1>13. JournalGrows
  BY Zenon, <1>1, <1>2, <1>3 DEF JournalGrows
<1> QED
  BY Zenon, <1>2, <1>5, <1>9, <1>10, <1>11, <1>12, <1>13 DEF JournalInv

\* A new reservation: reserve_pooled_campaign without a record.
LEMMA ReserveJournal ==
    ASSUME JournalInv, NEW c \in Campaigns, record[c].status = "none",
           record' = [record EXCEPT ![c] = [NoRecord EXCEPT !.status = "reserved", !.stages = {"reserved"}]],
           counts' = [counts EXCEPT !.campaigns = @ + 1], UNCHANGED <<charged, charges, consumed>>
    PROVE  JournalInv' /\ JournalGrows /\ record'[c].status # "none"
<1> DEFINE new == [NoRecord EXCEPT !.status = "reserved", !.stages = {"reserved"}]
<1>0. JournalTypeOK /\ StagesBacked /\ WindowsDisjoint /\ FamiliesAddUp /\ TotalsAddUp
  BY Zenon DEF JournalInv
<1>1. new \in PooledRecordType /\ new.status = "reserved" /\ new.stages = {"reserved"}
  BY Zenon DEF NoRecord, PooledRecordType, PooledStatuses
<1>2. record' = [record EXCEPT ![c] = new]
  BY Zenon
<1> HIDE DEF new
<1>3. /\ record' \in [Campaigns -> PooledRecordType]
      /\ record'[c] = new /\ \A d \in Campaigns \ {c} : record'[d] = record[d]
  BY <1>0, <1>1, <1>2 DEF JournalTypeOK
<1>4. PooledReserved' = PooledReserved \cup {c} /\ c \notin PooledReserved
  BY Zenon, <1>1, <1>3 DEF PooledReserved
<1>5. /\ IsFiniteSet(PooledReserved \cup {c})
      /\ Cardinality(PooledReserved \cup {c}) = Cardinality(PooledReserved) + 1
  BY <1>0, <1>4, FS_AddElement, Zenon DEF JournalTypeOK
<1>6. /\ counts' \in [formulas_charged : Nat, campaigns : Nat, confirmations : Nat]
      /\ counts'.campaigns = counts.campaigns + 1
      /\ counts'.confirmations = counts.confirmations /\ counts'.formulas_charged = counts.formulas_charged
  BY <1>0 DEF JournalTypeOK
<1>7. JournalTypeOK' /\ TotalsAddUp'
  BY Zenon, <1>0, <1>3, <1>4, <1>5, <1>6 DEF JournalTypeOK, TotalsAddUp
<1>8. StagesBacked'
  BY Zenon, <1>0, <1>1, <1>3 DEF StagesBacked
<1>9. WindowsDisjoint' /\ FamiliesAddUp'
  BY Zenon, <1>0 DEF WindowsDisjoint, FamiliesAddUp, ChargedTo
<1>10. JournalGrows /\ record'[c].status # "none"
  BY Zenon, <1>1, <1>3 DEF JournalGrows
<1> QED
  BY Zenon, <1>7, <1>8, <1>9, <1>10 DEF JournalInv

\* A journal write that is accepted, in its turn or late.
LEMMA WriteJournal ==
    ASSUME JournalInv, NEW c \in Campaigns, NEW write \in Writing, NEW next \in Nat \ {0},
           record[c].status # "none", WriteReady(c, write, next),
           Accepted(c, write, Proposals[c][next]), Applied(c, write, Proposals[c][next])
    PROVE  /\ JournalInv' /\ JournalGrows
           /\ write = "charge" => <<c, Proposals[c][next]>> \in charges'
           /\ write = "freeze" => record'[c].frozen = Frozen[c]
           /\ write = "consume" => Consumption(c) \in consumed' /\ \A i \in consumed : i.campaign # c
           /\ write # "consume" => consumed' = consumed
<1>1. CASE write = "family"
  BY Zenon, <1>1, FamilyJournal DEF Applied
<1>2. CASE write = "charge"
  <2>1. Proposals[c][next] \in PooledFormula(c)
    <3>1. Len(Proposals[c]) \in Nat
      BY Zenon, PooledAssumption
    <3>2. next <= Len(Proposals[c])
      BY Zenon, <1>2 DEF WriteReady
    <3>3. next \in 1..Len(Proposals[c])
      BY <3>1, <3>2
    <3> QED
      BY Zenon, <3>3 DEF PooledFormula
  <2> QED
    BY Zenon, <1>2, <2>1, ChargeJournal DEF Applied, Accepted
<1>3. CASE write = "freeze"
  BY Zenon, <1>3, AdvanceJournal DEF Applied, Accepted
<1>4. CASE write = "consume"
  <2>1. \A f \in Frozen[c] : <<c, f>> \in charges
    BY Zenon, <1>4, PooledAssumption DEF WriteReady
  <2> QED
    BY Zenon, <1>4, <2>1, ConsumeJournal DEF Applied, Accepted, WriteReady
<1> QED
  BY Zenon, <1>1, <1>2, <1>3, <1>4 DEF Writing

\* What a run relies on stays true while the journal grows.
LEMMA RunKept ==
    ASSUME RunsInv, JournalGrows, NEW r \in Runs, runs'[r] = runs[r]
    PROVE  RunSound(r)'
<1>1. RunSound(r) /\ runs[r] \in PooledRunType
  BY Zenon DEF RunsInv
<1>2. CASE runs[r].step = "idle"
  BY Zenon, <1>1, <1>2 DEF RunSound, WriteReady
<1>3. CASE runs[r].step # "idle"
  <2>1. runs[r].campaign \in Campaigns /\ record[runs[r].campaign].status # "none"
    BY Zenon, <1>1, <1>3 DEF RunSound
  <2> QED
    BY Zenon, <1>1, <1>3, <2>1 DEF RunSound, WriteReady, JournalGrows
<1> QED
  BY Zenon, <1>2, <1>3

\* A step of one run: the others keep what they rely on.
LEMMA RunsStep ==
    ASSUME RunsInv, JournalGrows, NEW r \in Runs, NEW run \in PooledRunType, runs' = [runs EXCEPT ![r] = run],
           RunSound(r)'
    PROVE  RunsInv'
<1>1. runs' \in [Runs -> PooledRunType] /\ \A s \in Runs \ {r} : runs'[s] = runs[s]
  BY Zenon DEF RunsInv
<1>2. \A s \in Runs \ {r} : RunSound(s)'
  BY Zenon, <1>1, RunKept
<1> QED
  BY Zenon, <1>1, <1>2 DEF RunsInv

\* A run that does not come to its window opens nothing for another.
LEMMA OpenedKept ==
    ASSUME RunsInv, OpenedInv, NEW r \in Runs, NEW run \in PooledRunType, runs' = [runs EXCEPT ![r] = run],
           run.step = "confirm" => runs[r].step = "confirm" /\ run.campaign = runs[r].campaign,
           opened' = opened, consumed \subseteq consumed'
    PROVE  OpenedInv'
<1>1. runs'[r] = run /\ \A s \in Runs \ {r} : runs'[s] = runs[s]
  BY Zenon DEF RunsInv
<1>2. \A s \in Runs : runs'[s].step = "confirm" => runs[s].step = "confirm" /\ runs'[s].campaign = runs[s].campaign
  BY Zenon, <1>1
<1> QED
  BY <1>2 DEF OpenedInv

\* A run that fails, is cancelled or ends: its campaign and its proposal stay.
LEMMA RunFails ==
    ASSUME RunsInv, JournalGrows, NEW r \in Runs, runs[r].step # "idle", NEW run \in PooledRunType,
           runs' = [runs EXCEPT ![r] = run],
           run.campaign = runs[r].campaign, run.next = runs[r].next, run.step \in {"failing", "reporting"},
           run.orphan \in {runs[r].orphan, runs[r].step, "none"}
    PROVE  RunsInv'
<1>1. runs'[r] = run /\ RunSound(r)
  BY Zenon DEF RunsInv
<1>2. run.campaign \in Campaigns /\ record[run.campaign].status # "none"
  BY Zenon, <1>1 DEF RunSound
<1>3. WriteReady(run.campaign, run.orphan, run.next)
  BY Zenon, <1>1 DEF RunSound, WriteReady
<1>4. RunSound(r)'
  BY Zenon, <1>1, <1>2, <1>3 DEF RunSound, WriteReady, JournalGrows
<1> QED
  BY Zenon, <1>4, RunsStep

\* The end of a process leaves nothing to rely on.
LEMMA RunEnds ==
    ASSUME RunsInv, JournalGrows, NEW r \in Runs, runs' = [runs EXCEPT ![r] = NoRun]
    PROVE  RunsInv'
<1>1. NoRun \in PooledRunType
  BY DEF NoRun, PooledRunType, PooledSteps, Working, Writing
<1>2. runs'[r] = NoRun
  BY Zenon DEF RunsInv
<1>3. RunSound(r)'
  <2>1. runs'[r].step = "idle" /\ runs'[r].orphan = "none"
    BY <1>2 DEF NoRun
  <2> QED
    BY Zenon, <2>1 DEF RunSound, WriteReady
<1> QED
  BY Zenon, <1>1, <1>3, RunsStep

\* A step that only moves a run among the steps that write nothing and fail, or ends it.
LEMMA QuietStep ==
    ASSUME JournalInv, RunsInv, OpenedInv, NEW r \in Runs, NEW run \in PooledRunType,
           runs' = [runs EXCEPT ![r] = run], JournalInv', JournalGrows, opened' = opened,
           \/ run = NoRun
           \/ /\ run.campaign = runs[r].campaign /\ run.next = runs[r].next /\ runs[r].step # "idle"
              /\ run.step \in {"failing", "reporting"}
              /\ run.orphan \in {runs[r].orphan, runs[r].step, "none"}
    PROVE  PooledInv'
<1>1. RunsInv'
  BY Zenon, RunEnds, RunFails
<1>2. run.step # "confirm"
  BY DEF NoRun
<1>3. consumed \subseteq consumed'
  BY Zenon DEF JournalGrows
<1>4. OpenedInv'
  BY Zenon, <1>2, <1>3, OpenedKept
<1> QED
  BY Zenon, <1>1, <1>4 DEF PooledInv

\* Timeouts, failures, stops and ends of a process: WriteTimesOut, StageFails, RunStops, ProcessEnds.
LEMMA FailureStep ==
    ASSUME PooledInv, NEW r \in Runs, WriteTimesOut(r) \/ StageFails(r) \/ RunStops(r) \/ ProcessEnds(r)
    PROVE  PooledInv'
<1>0. JournalInv /\ RunsInv /\ OpenedInv /\ runs[r] \in PooledRunType
  BY Zenon DEF PooledInv, RunsInv
<1>1. UNCHANGED journalVars /\ opened' = opened /\ runs[r].step # "idle"
  BY Zenon DEF WriteTimesOut, StageFails, RunStops, ProcessEnds, Working, Writing
<1>2. JournalInv' /\ JournalGrows
  BY Zenon, <1>0, <1>1, JournalKept
<1>3. CASE WriteTimesOut(r)
  <2> DEFINE run == [runs[r] EXCEPT !.step = "failing", !.orphan = runs[r].step]
  <2>1. runs' = [runs EXCEPT ![r] = run] /\ runs[r].step \in Writing
    BY Zenon, <1>0, <1>3 DEF WriteTimesOut, RunsInv
  <2>2. run \in PooledRunType /\ run.campaign = runs[r].campaign /\ run.next = runs[r].next
        /\ run.step = "failing" /\ run.orphan = runs[r].step
    BY Zenon, <1>0, <2>1 DEF PooledRunType, PooledSteps
  <2> HIDE DEF run
  <2> QED
    BY Zenon, <1>0, <1>1, <1>2, <2>1, <2>2, QuietStep
<1>4. CASE StageFails(r) \/ RunStops(r)
  <2> DEFINE run == [runs[r] EXCEPT !.step = "failing"]
  <2>1. runs' = [runs EXCEPT ![r] = run]
    BY Zenon, <1>0, <1>4 DEF StageFails, RunStops, RunsInv
  <2>2. run \in PooledRunType /\ run.campaign = runs[r].campaign /\ run.next = runs[r].next
        /\ run.step = "failing" /\ run.orphan = runs[r].orphan
    BY Zenon, <1>0 DEF PooledRunType, PooledSteps
  <2> HIDE DEF run
  <2> QED
    BY Zenon, <1>0, <1>1, <1>2, <2>1, <2>2, QuietStep
<1>5. CASE ProcessEnds(r)
  <2>1. NoRun \in PooledRunType
    BY DEF NoRun, PooledRunType, PooledSteps, Working, Writing
  <2> QED
    BY Zenon, <1>0, <1>1, <1>2, <1>5, <2>1, QuietStep DEF ProcessEnds
<1> QED
  BY Zenon, <1>3, <1>4, <1>5

\* The last steps of a run, its failure path and a recovery's: Complete, AdvanceFailed, RecoverCompletes.
LEMMA AdvanceStep ==
    ASSUME PooledInv, NEW r \in Runs, Complete(r) \/ AdvanceFailed(r) \/ RecoverCompletes(r)
    PROVE  PooledInv'
<1> DEFINE c == runs[r].campaign
<1>0. JournalInv /\ RunsInv /\ OpenedInv /\ runs[r] \in PooledRunType /\ RunSound(r)
  BY Zenon DEF PooledInv, RunsInv
<1>1. /\ UNCHANGED <<charged, charges, counts, consumed>> /\ opened' = opened
      /\ runs[r].step # "idle" /\ c \in Campaigns /\ record[c].status # "none"
  BY Zenon, <1>0 DEF Complete, AdvanceFailed, RecoverCompletes, RunSound
<1>2. JournalInv' /\ JournalGrows
  <2>1. CASE UNCHANGED record
    BY Zenon, <1>0, <1>1, <2>1, JournalKept DEF journalVars
  <2>2. CASE ~ UNCHANGED record
    <3>1. PICK status \in {"completed", "failed"} :
             /\ advance_pooled_campaign(c, status) /\ record[c].status # "completed"
             /\ status = "completed" => runs[r].step \in {"complete", "recovered"}
      BY Zenon, <2>2 DEF Complete, AdvanceFailed, RecoverCompletes
    <3>2. status = "completed" => Frozen[c] = {} \/ Consumption(c) \in consumed
      BY Zenon, <1>0, <3>1 DEF RunSound
    <3> HIDE DEF c
    <3> QED
      BY Zenon, <1>0, <1>1, <3>1, <3>2, AdvanceJournal
  <2> QED
    BY Zenon, <2>1, <2>2
<1>3. CASE runs' = [runs EXCEPT ![r] = NoRun]
  <2>1. NoRun \in PooledRunType
    BY DEF NoRun, PooledRunType, PooledSteps, Working, Writing
  <2> QED
    BY Zenon, <1>0, <1>1, <1>2, <1>3, <2>1, QuietStep
<1>4. ASSUME NEW step \in {"failing", "reporting"}, runs' = [runs EXCEPT ![r].step = step]
      PROVE  PooledInv'
  <2> DEFINE run == [runs[r] EXCEPT !.step = step]
  <2>1. runs' = [runs EXCEPT ![r] = run]
    BY Zenon, <1>0, <1>4 DEF RunsInv
  <2>2. run \in PooledRunType /\ run.campaign = runs[r].campaign /\ run.next = runs[r].next
        /\ run.step = step /\ run.orphan = runs[r].orphan
    BY Zenon, <1>0 DEF PooledRunType, PooledSteps
  <2> HIDE DEF run
  <2> QED
    BY Zenon, <1>0, <1>1, <1>2, <2>1, <2>2, QuietStep
<1> QED
  BY Zenon, <1>3, <1>4 DEF Complete, AdvanceFailed, RecoverCompletes

\* The start of a run or of a recovery: reserve_pooled_campaign, execute_campaign_recovery.
LEMMA StartStep ==
    ASSUME PooledInv, NEW r \in Runs, NEW c \in Campaigns, reserve_pooled_campaign(r, c) \/ Recover(r, c)
    PROVE  PooledInv'
<1>0. JournalInv /\ RunsInv /\ OpenedInv
  BY Zenon DEF PooledInv
<1>1. PICK step \in {"family", "recovering"} :
         /\ runs' = [runs EXCEPT ![r] = [NoRun EXCEPT !.campaign = c, !.step = step]]
         /\ step = "family" => reserve_pooled_campaign(r, c)
         /\ step = "recovering" => Recover(r, c)
  BY Zenon DEF reserve_pooled_campaign, Recover
<1> DEFINE run == [NoRun EXCEPT !.campaign = c, !.step = step]
<1>2. run \in PooledRunType /\ run.campaign = c /\ run.step = step /\ run.next = 1 /\ run.orphan = "none"
  <2>1. NoRun \in PooledRunType /\ NoRun.next = 1 /\ NoRun.orphan = "none"
    BY DEF NoRun, PooledRunType, PooledSteps, Working, Writing
  <2>2. step \in PooledSteps
    BY Zenon, <1>1 DEF PooledSteps, Working, Writing
  <2> QED
    BY Zenon, <2>1, <2>2 DEF PooledRunType
<1>3. runs' = [runs EXCEPT ![r] = run]
  BY Zenon, <1>1
<1> HIDE DEF run
<1>4. JournalInv' /\ JournalGrows /\ record'[c].status # "none" /\ opened' = opened
  <2>1. CASE step = "family" /\ record[c].status = "none"
    BY Zenon, <1>0, <1>1, <2>1, ReserveJournal DEF reserve_pooled_campaign
  <2>2. CASE step = "family" /\ record[c].status # "none"
    BY Zenon, <1>0, <1>1, <2>2, JournalKept DEF reserve_pooled_campaign, journalVars
  <2>3. CASE step = "recovering"
    <3>1. record[c].status # "none"
      <4>1. "confirmation_consumed" \in record[c].stages
        BY Zenon, <1>1, <2>3 DEF Recover, Recoverable
      <4> QED
        BY Zenon, <1>0, <4>1 DEF JournalInv, StagesBacked
    <3> QED
      BY Zenon, <1>0, <1>1, <2>3, <3>1, JournalKept DEF Recover, journalVars
  <2> QED
    BY Zenon, <2>1, <2>2, <2>3
<1>5. runs'[r] = run
  BY Zenon, <1>0, <1>3 DEF RunsInv
<1>6. step = "recovering" => Consumption(c) \in consumed'
  BY Zenon, <1>0, <1>1, <1>4 DEF Recover, Recoverable, JournalInv, StagesBacked, JournalGrows
<1>7. 1 <= Len(Proposals[c])
  BY PooledAssumption
<1>8. RunSound(r)'
  <2>1. WriteReady(c, step, 1)'
    BY <1>1, <1>7 DEF WriteReady
  <2>2. WriteReady(c, "none", 1)'
    BY Zenon DEF WriteReady
  <2>3. step # "idle" /\ step # "confirm" /\ step # "recovered" /\ step # "complete"
    BY Zenon, <1>1
  <2>4. runs'[r].campaign = c /\ runs'[r].step = step /\ runs'[r].next = 1 /\ runs'[r].orphan = "none"
    BY Zenon, <1>2, <1>5
  <2> QED
    BY Zenon, <1>4, <1>6, <2>1, <2>2, <2>3, <2>4 DEF RunSound
<1>9. RunsInv'
  BY Zenon, <1>0, <1>2, <1>3, <1>4, <1>8, RunsStep
<1>10. consumed \subseteq consumed' /\ run.step # "confirm"
  BY Zenon, <1>2, <1>4 DEF JournalGrows
<1>11. OpenedInv'
  BY Zenon, <1>0, <1>2, <1>3, <1>4, <1>10, OpenedKept
<1> QED
  BY Zenon, <1>4, <1>9, <1>11 DEF PooledInv

\* What a write that led to step "after" leaves.
ReadyAfter(c, step, m, after) ==
    /\ WriteReady(c, after, m)' /\ m \in Nat \ {0}
    /\ after \in {"charge", "freeze", "consume", "confirm", "complete"}
    /\ after = "confirm" <=> step = "consume"
    /\ after = "complete" => Frozen[c] = {}

\* A write leaves what the next one relies on: run_search_stages, later_stages.
LEMMA AfterReady ==
    ASSUME NEW c \in Campaigns, NEW step \in Writing, NEW n \in Nat \ {0}, NEW m, NEW after,
           m = IF step = "charge" THEN n + 1 ELSE n, after = After(c, step, m),
           WriteReady(c, step, n), JournalGrows, record[c].status # "none",
           step = "charge" => <<c, Proposals[c][n]>> \in charges',
           step = "freeze" => record'[c].frozen = Frozen[c]
    PROVE  ReadyAfter(c, step, m, after)
<1> USE DEF ReadyAfter
<1>0. Len(Proposals[c]) \in Nat \ {0} /\ charges \subseteq charges'
  BY Zenon, PooledAssumption DEF JournalGrows
<1>1. CASE step = "family"
  BY Zenon, <1>0, <1>1 DEF After, WriteReady
<1>2. CASE step = "charge"
  <2>1. \A i \in 1..(m - 1) : <<c, Proposals[c][i]>> \in charges'
    <3> SUFFICES ASSUME NEW i \in 1..(m - 1) PROVE <<c, Proposals[c][i]>> \in charges'
      BY Zenon
    <3>0. m = n + 1
      BY Zenon, <1>2
    <3>1. i = n \/ i \in 1..(n - 1)
      BY <3>0
    <3> QED
      BY Zenon, <1>0, <1>2, <3>1 DEF WriteReady
  <2>2. m \in Nat \ {0} /\ (m > Len(Proposals[c]) => m - 1 = Len(Proposals[c]))
    BY <1>0, <1>2 DEF WriteReady
  <2> QED
    BY <1>0, <1>2, <2>1, <2>2 DEF After, WriteReady
<1>3. CASE step = "freeze"
  BY Zenon, <1>0, <1>3 DEF After, WriteReady
<1>4. CASE step = "consume"
  BY Zenon, <1>0, <1>4 DEF After, WriteReady
<1> QED
  BY Zenon, <1>1, <1>2, <1>3, <1>4 DEF Writing

\* A write that is accepted, in its turn: the run goes on, and only it comes to the window.
LEMMA WriteAccepted ==
    ASSUME PooledInv, NEW r \in Runs, JournalWrite(r), NEW c, NEW step, NEW n, NEW m, NEW after,
           c = runs[r].campaign, step = runs[r].step, n = runs[r].next,
           m = IF step = "charge" THEN n + 1 ELSE n, after = After(c, step, m),
           Accepted(c, step, Proposals[c][n])
    PROVE  PooledInv'
<1>0. JournalInv /\ RunsInv /\ OpenedInv /\ runs[r] \in PooledRunType /\ RunSound(r)
  BY Zenon DEF PooledInv, RunsInv
<1>1. /\ step \in Writing /\ opened' = opened
      /\ c \in Campaigns /\ record[c].status # "none" /\ WriteReady(c, step, n)
      /\ runs[r].orphan = "none" /\ n \in Nat \ {0}
  BY Zenon, <1>0 DEF JournalWrite, RunSound, Writing, PooledRunType
<1> DEFINE run == [runs[r] EXCEPT !.step = after, !.next = m, !.aborted = IF @ = "one" THEN "all" ELSE @]
<1>2. Applied(c, step, Proposals[c][n]) /\ runs' = [runs EXCEPT ![r] = run]
  BY Zenon, <1>0 DEF JournalWrite, RunsInv
<1>3. /\ JournalInv' /\ JournalGrows
      /\ step = "charge" => <<c, Proposals[c][n]>> \in charges'
      /\ step = "freeze" => record'[c].frozen = Frozen[c]
      /\ step = "consume" => Consumption(c) \in consumed' /\ \A i \in consumed : i.campaign # c
  BY <1>0, <1>1, <1>2, WriteJournal
<1>4. /\ WriteReady(c, after, m)' /\ m \in Nat \ {0}
      /\ after \in {"charge", "freeze", "consume", "confirm", "complete"}
      /\ after = "confirm" <=> step = "consume"
      /\ after = "complete" => Frozen[c] = {}
  <2>1. ReadyAfter(c, step, m, after)
    BY Zenon, <1>1, <1>3, AfterReady
  <2> QED
    BY Zenon, <2>1 DEF ReadyAfter
<1>5. run \in PooledRunType /\ run.campaign = c /\ run.next = m /\ run.step = after /\ run.orphan = "none"
  <2>1. after \in PooledSteps
    BY Zenon, <1>4 DEF PooledSteps, Working, Writing
  <2>2. (IF runs[r].aborted = "one" THEN "all" ELSE runs[r].aborted) \in {"no", "one", "all"}
    BY Zenon, <1>0 DEF PooledRunType
  <2> DEFINE half == [runs[r] EXCEPT !.step = after, !.next = m]
  <2>3. half \in PooledRunType /\ half.campaign = c /\ half.next = m /\ half.step = after /\ half.orphan = "none"
    BY Zenon, <1>0, <1>1, <1>4, <2>1 DEF PooledRunType
  <2>4. PICK a \in {"no", "one", "all"} : a = IF runs[r].aborted = "one" THEN "all" ELSE runs[r].aborted
    BY Zenon, <2>2
  <2>5. run = [half EXCEPT !.aborted = a]
    BY <2>4, Zenon
  <2> HIDE DEF run, half
  <2> QED
    BY Zenon, <2>3, <2>4, <2>5 DEF PooledRunType
<1> HIDE DEF run
<1>6. runs'[r] = run /\ \A s \in Runs \ {r} : runs'[s] = runs[s]
  BY Zenon, <1>0, <1>2 DEF RunsInv
<1>7. record'[c].status # "none"
  BY Zenon, <1>1, <1>3 DEF JournalGrows
<1>8. RunSound(r)'
  BY Zenon, <1>1, <1>3, <1>4, <1>5, <1>6, <1>7 DEF RunSound, WriteReady
<1>9. RunsInv'
  BY Zenon, <1>0, <1>2, <1>3, <1>5, <1>8, RunsStep
<1>10. consumed \subseteq consumed'
  BY Zenon, <1>3 DEF JournalGrows
<1>11. CASE step # "consume"
  <2>1. OpenedInv'
    BY Zenon, <1>0, <1>1, <1>2, <1>4, <1>5, <1>10, <1>11, OpenedKept
  <2> QED
    BY Zenon, <1>3, <1>9, <2>1 DEF PooledInv
<1>12. CASE step = "consume"
  <2>1. \A s \in Runs : runs[s].step = "confirm" => Consumption(runs[s].campaign) \in consumed
    BY Zenon, <1>0 DEF RunsInv, RunSound
  <2>2. \A d : Consumption(d).campaign = d
    BY Zenon DEF Consumption
  <2>3. \A s \in Runs \ {r} : runs'[s].step = "confirm" => runs[s].step = "confirm" /\ runs'[s].campaign # c
    BY Zenon, <1>3, <1>6, <1>12, <2>1, <2>2
  <2>4. \A o \in opened : o.campaign # c
    BY Zenon, <1>0, <1>3, <1>12, <2>2 DEF OpenedInv
  <2>5. runs'[r].campaign = c
    BY Zenon, <1>5, <1>6
  <2>6. OpenedInv'
    <3>1. \A o \in opened : o.campaign \in Campaigns /\ Consumption(o.campaign) \in consumed'
      BY Zenon, <1>0, <1>10 DEF OpenedInv
    <3>2. \A o \in opened, s \in Runs : runs'[s].step = "confirm" /\ o.kind = "run" => o.campaign # runs'[s].campaign
      BY Zenon, <1>0, <1>6, <2>4, <2>5 DEF OpenedInv
    <3>3. \A s, t \in Runs : runs'[s].step = "confirm" /\ runs'[t].step = "confirm" /\ s # t
                              => runs'[s].campaign # runs'[t].campaign
      BY Zenon, <1>0, <1>6, <2>3, <2>5 DEF OpenedInv
    <3> QED
      BY Zenon, <1>0, <1>1, <3>1, <3>2, <3>3 DEF OpenedInv
  <2> QED
    BY Zenon, <1>3, <1>9, <2>6 DEF PooledInv
<1> QED
  BY Zenon, <1>11, <1>12

\* A write of the ledger in its turn: JournalLedger._call with its answer.
LEMMA WriteStep ==
    ASSUME PooledInv, NEW r \in Runs, JournalWrite(r)
    PROVE  PooledInv'
<1>0. JournalInv /\ RunsInv /\ OpenedInv /\ runs[r] \in PooledRunType
  BY Zenon DEF PooledInv, RunsInv
<1>1. CASE Accepted(runs[r].campaign, runs[r].step, Proposals[runs[r].campaign][runs[r].next])
  <2>1. \E c, step, n, m, after :
           /\ c = runs[r].campaign /\ step = runs[r].step /\ n = runs[r].next
           /\ m = IF step = "charge" THEN n + 1 ELSE n
           /\ after = After(c, step, m)
    BY Zenon
  <2> QED
    BY Zenon, <1>1, <2>1, WriteAccepted
<1>2. CASE ~ Accepted(runs[r].campaign, runs[r].step, Proposals[runs[r].campaign][runs[r].next])
  <2> DEFINE run == [runs[r] EXCEPT !.step = "failing"]
  <2>1. runs' = [runs EXCEPT ![r] = run] /\ UNCHANGED journalVars /\ opened' = opened
    BY Zenon, <1>0, <1>2 DEF JournalWrite, RunsInv
  <2>2. run \in PooledRunType /\ run.campaign = runs[r].campaign /\ run.next = runs[r].next
        /\ run.step = "failing" /\ run.orphan = runs[r].orphan
    BY Zenon, <1>0 DEF PooledRunType, PooledSteps
  <2>3. JournalInv' /\ JournalGrows
    BY Zenon, <1>0, <2>1, JournalKept
  <2>4. runs[r].step # "idle"
    BY Zenon DEF Writing, JournalWrite
  <2> HIDE DEF run
  <2> QED
    BY Zenon, <1>0, <2>1, <2>2, <2>3, <2>4, QuietStep
<1> QED
  BY Zenon, <1>1, <1>2

\* A write that commits after its caller gave up: the journal takes it as if it were in time.
LEMMA LateStep ==
    ASSUME PooledInv, NEW r \in Runs, LateWrite(r)
    PROVE  PooledInv'
<1> DEFINE c == runs[r].campaign
           run == [runs[r] EXCEPT !.orphan = "none"]
<1>0. JournalInv /\ RunsInv /\ OpenedInv /\ runs[r] \in PooledRunType /\ RunSound(r)
  BY Zenon DEF PooledInv, RunsInv
<1>1. /\ runs[r].orphan \in Writing /\ opened' = opened
      /\ runs[r].step \in {"failing", "reporting"}
      /\ c \in Campaigns /\ record[c].status # "none" /\ WriteReady(c, runs[r].orphan, runs[r].next)
      /\ runs[r].next \in Nat \ {0}
  BY Zenon, <1>0 DEF LateWrite, RunSound, PooledRunType
<1>2. runs' = [runs EXCEPT ![r] = run]
  BY Zenon, <1>0 DEF LateWrite, RunsInv
<1>3. run \in PooledRunType /\ run.campaign = runs[r].campaign /\ run.next = runs[r].next
      /\ run.step = runs[r].step /\ run.orphan = "none"
  BY Zenon, <1>0 DEF PooledRunType
<1> HIDE DEF run
<1>4. JournalInv' /\ JournalGrows
  <2>1. CASE UNCHANGED journalVars
    BY Zenon, <1>0, <2>1, JournalKept
  <2>2. CASE ~ UNCHANGED journalVars
    <3>1. /\ Accepted(c, runs[r].orphan, Proposals[c][runs[r].next])
          /\ Applied(c, runs[r].orphan, Proposals[c][runs[r].next])
      BY Zenon, <2>2 DEF LateWrite
    <3> HIDE DEF c
    <3> QED
      BY Zenon, <1>0, <1>1, <3>1, WriteJournal
  <2> QED
    BY Zenon, <2>1, <2>2
<1>5. runs[r].step # "idle"
  BY Zenon, <1>1
<1> QED
  BY Zenon, <1>0, <1>1, <1>2, <1>3, <1>4, <1>5, QuietStep

\* A cancellation changes only what the run may still write.
LEMMA CancelStep ==
    ASSUME PooledInv, NEW r \in Runs, Cancel(r)
    PROVE  PooledInv'
<1>0. JournalInv /\ RunsInv /\ OpenedInv /\ runs[r] \in PooledRunType /\ RunSound(r)
  BY Zenon DEF PooledInv, RunsInv
<1>1. PICK aborted \in {"one", "all"} : runs' = [runs EXCEPT ![r].aborted = aborted]
  BY Zenon DEF Cancel
<1> DEFINE run == [runs[r] EXCEPT !.aborted = aborted]
<1>2. runs' = [runs EXCEPT ![r] = run] /\ UNCHANGED journalVars /\ opened' = opened /\ consumed' = consumed
  BY Zenon, <1>0, <1>1 DEF Cancel, RunsInv, journalVars
<1>3. run \in PooledRunType /\ run.campaign = runs[r].campaign /\ run.next = runs[r].next
      /\ run.step = runs[r].step /\ run.orphan = runs[r].orphan
  BY Zenon, <1>0 DEF PooledRunType
<1> HIDE DEF run
<1>4. JournalInv' /\ JournalGrows
  BY Zenon, <1>0, <1>2, JournalKept
<1>5. runs'[r] = run
  BY Zenon, <1>0, <1>2 DEF RunsInv
<1>6. RunSound(r)'
  <2>1. UNCHANGED <<record, charges, consumed>>
    BY Zenon, <1>2 DEF journalVars
  <2>2. /\ runs'[r].campaign = runs[r].campaign /\ runs'[r].next = runs[r].next
        /\ runs'[r].step = runs[r].step /\ runs'[r].orphan = runs[r].orphan
    BY Zenon, <1>3, <1>5
  <2> QED
    BY Zenon, <1>0, <2>1, <2>2 DEF RunSound, WriteReady, Consumption
<1>7. RunsInv'
  BY Zenon, <1>0, <1>2, <1>3, <1>4, <1>6, RunsStep
<1>8. OpenedInv'
  BY Zenon, <1>0, <1>2, <1>3, OpenedKept
<1> QED
  BY Zenon, <1>4, <1>7, <1>8 DEF PooledInv

\* The confirmation window is opened by the run that consumed it, or by a recovery.
LEMMA OpenStep ==
    ASSUME PooledInv, NEW r \in Runs, OpenWindow(r) \/ RecoverOpens(r)
    PROVE  PooledInv'
<1>0. JournalInv /\ RunsInv /\ OpenedInv /\ runs[r] \in PooledRunType /\ RunSound(r)
  BY Zenon DEF PooledInv, RunsInv
<1>1. PICK kind \in {"run", "recovery"} :
         /\ opened' = opened \cup {[by |-> r, campaign |-> runs[r].campaign, kind |-> kind]}
         /\ kind = "run" => runs[r].step = "confirm" /\ runs' = [runs EXCEPT ![r].step = "complete"]
         /\ kind = "recovery" => runs[r].step = "recovering" /\ runs' = [runs EXCEPT ![r].step = "recovered"]
         /\ UNCHANGED journalVars
  BY Zenon DEF OpenWindow, RecoverOpens
<1> DEFINE step == IF kind = "run" THEN "complete" ELSE "recovered"
           run == [runs[r] EXCEPT !.step = step]
           new == [by |-> r, campaign |-> runs[r].campaign, kind |-> kind]
<1>2. runs' = [runs EXCEPT ![r] = run]
  BY Zenon, <1>0, <1>1 DEF RunsInv
<1>3. run \in PooledRunType /\ run.campaign = runs[r].campaign /\ run.next = runs[r].next
      /\ run.step = step /\ run.orphan = runs[r].orphan
  BY Zenon, <1>0 DEF PooledRunType, PooledSteps, Working
<1> HIDE DEF run
<1>4. JournalInv' /\ JournalGrows
  BY Zenon, <1>0, <1>1, JournalKept
<1>5. runs'[r] = run /\ \A s \in Runs \ {r} : runs'[s] = runs[s]
  BY Zenon, <1>0, <1>2 DEF RunsInv
<1>6. runs[r].campaign \in Campaigns /\ Consumption(runs[r].campaign) \in consumed /\ runs[r].orphan = "none"
  BY Zenon, <1>0, <1>1 DEF RunSound
<1>7. RunSound(r)'
  BY Zenon, <1>0, <1>1, <1>3, <1>5, <1>6 DEF RunSound, WriteReady, journalVars
<1>8. RunsInv'
  BY Zenon, <1>0, <1>2, <1>3, <1>4, <1>7, RunsStep
<1>9. OpenedInv'
  <2>1. new.campaign = runs[r].campaign /\ new.kind = kind /\ opened' = opened \cup {new}
    BY Zenon, <1>1
  <2>2. \A s \in Runs : runs'[s].step = "confirm" => s # r /\ runs'[s] = runs[s]
    BY Zenon, <1>3, <1>5
  <2> HIDE DEF new
  <2>3. \A o \in opened' : o.campaign \in Campaigns /\ Consumption(o.campaign) \in consumed'
    BY Zenon, <1>0, <1>1, <1>6, <2>1 DEF OpenedInv, journalVars
  <2>4. \A o \in opened : kind = "run" /\ o.kind = "run" => o.campaign # runs[r].campaign
    BY Zenon, <1>0, <1>1 DEF OpenedInv
  <2>5. \A o, p \in opened' : o.campaign = p.campaign /\ o.kind = "run" /\ p.kind = "run" => o = p
    BY <1>0, <2>1, <2>4 DEF OpenedInv
  <2>6. \A o \in opened', s \in Runs : runs'[s].step = "confirm" /\ o.kind = "run" => o.campaign # runs'[s].campaign
    BY <1>0, <1>1, <2>1, <2>2 DEF OpenedInv
  <2>7. \A s, t \in Runs : runs'[s].step = "confirm" /\ runs'[t].step = "confirm" /\ s # t
                             => runs'[s].campaign # runs'[t].campaign
    BY <1>0, <2>2 DEF OpenedInv
  <2> QED
    BY Zenon, <2>3, <2>5, <2>6, <2>7 DEF OpenedInv
<1> QED
  BY Zenon, <1>4, <1>8, <1>9 DEF PooledInv

\* Every step of a runner, and every crash and recovery, keeps journal, runs and opened windows sound.
LEMMA PooledNextInv == PooledInv /\ [PooledNext]_pooledVars => PooledInv'
<1> SUFFICES ASSUME PooledInv, [PooledNext]_pooledVars PROVE PooledInv'
  BY Zenon
<1>1. ASSUME NEW r \in Runs, NEW c \in Campaigns, reserve_pooled_campaign(r, c) \/ Recover(r, c)
      PROVE  PooledInv'
  BY Zenon, <1>1, StartStep
<1>2. ASSUME NEW r \in Runs,
             \/ JournalWrite(r) \/ WriteTimesOut(r) \/ LateWrite(r)
             \/ OpenWindow(r) \/ Complete(r) \/ StageFails(r) \/ Cancel(r) \/ RunStops(r)
             \/ AdvanceFailed(r) \/ ProcessEnds(r)
             \/ RecoverOpens(r) \/ RecoverCompletes(r)
      PROVE  PooledInv'
  BY Zenon, <1>2, WriteStep, LateStep, OpenStep, CancelStep, FailureStep, AdvanceStep
<1>3. CASE UNCHANGED pooledVars
  <2>1. UNCHANGED journalVars /\ runs' = runs /\ opened' = opened
    BY Zenon, <1>3 DEF pooledVars, journalVars
  <2>2. JournalInv' /\ JournalGrows
    BY Zenon, <2>1, JournalKept DEF PooledInv
  <2>3. RunsInv'
    BY Zenon, <2>1, <2>2, RunKept DEF PooledInv, RunsInv
  <2>4. OpenedInv'
    BY Zenon, <2>1 DEF PooledInv, OpenedInv, journalVars
  <2> QED
    BY Zenon, <2>2, <2>3, <2>4 DEF PooledInv
<1> QED
  BY Zenon, <1>1, <1>2, <1>3 DEF PooledNext

\* The lane's journal is sound for any number of campaigns, processes and formulas, whatever
\* answer is lost and wherever a run stops (consume_pooled_confirmation, charge_pooled_formula).
THEOREM PooledLaneSound == PooledSpec => []LaneSound
<1>1. PooledInv => LaneSound
  <2> SUFFICES ASSUME PooledInv PROVE LaneSound
    BY Zenon
  <2>1. JournalTypeOK /\ StagesBacked /\ WindowsDisjoint /\ FamiliesAddUp /\ TotalsAddUp /\ OpenedInv
    BY Zenon DEF PooledInv, JournalInv
  <2>2. WindowUsedOnce
    BY Zenon, <2>1 DEF WindowUsedOnce, WindowsDisjoint, OpenedInv, Consumption
  <2>3. ConsumedIsRecoverable
    <3> SUFFICES ASSUME NEW c \in Campaigns, "confirmation_consumed" \in record[c].stages PROVE RecoveryChecks(c)
      BY Zenon, <2>1 DEF ConsumedIsRecoverable, StagesBacked
    <3>1. Consumption(c).campaign = c /\ Consumption(c).candidates = Frozen[c]
      BY Zenon DEF Consumption
    <3> QED
      BY Zenon, <2>1, <3>1 DEF StagesBacked, RecoveryChecks
  <2>4. counts = [formulas_charged |-> Cardinality(charges),
                  campaigns |-> Cardinality({c \in Campaigns : record[c].status # "none"}),
                  confirmations |-> Cardinality(consumed)]
    BY Zenon, <2>1 DEF JournalTypeOK, TotalsAddUp, PooledReserved
  <2>5. ChargesAddUp
    BY Zenon, <2>1, <2>4 DEF ChargesAddUp, FamiliesAddUp, ChargedTo
  <2> QED
    BY Zenon, <2>2, <2>3, <2>5 DEF LaneSound
<1> QED
  BY <1>1, PooledInitInv, PooledNextInv, PTL DEF PooledSpec

-----------------------------------------------------------------------------
(* The alpha registry. *)

-----------------------------------------------------------------------------
(* The alpha registry: AlphaRegistry. *)

RegistryLists == {"active", "shadow", "probe"}

RegistryTypeOK ==
    /\ today \in Nat
    /\ registry \in [RegistryLists -> SUBSET Versions]
    /\ IsFiniteSet(registry.probe)
    /\ enrolment \in [Versions -> Int]
    /\ cumulative \in [Versions -> Int]
    /\ everKilled \subseteq Versions

\* A version whose closes are at the kill rule is among those that ever were.
KillNoted == \A v \in Versions : Killed(v) => v \in everKilled

RegistryInv == RegistryTypeOK /\ KillNoted /\ OneOwner

\* An empty registry has one owner per symbol (AlphaRegistry.load of a missing file).
LEMMA RegistryInitInv == Init => RegistryInv
<1> SUFFICES ASSUME Init PROVE RegistryInv
  BY Zenon
<1>1. registry.active = {} /\ registry.probe = {} /\ _live_probes = {}
  BY Zenon DEF Init, _live_probes
<1>2. IsFiniteSet({}) /\ Cardinality({}) = 0
  BY FS_EmptySet, Zenon
<1>3. RegistryTypeOK
  BY <1>1, <1>2 DEF Init, RegistryTypeOK, RegistryLists, NotEnrolled
<1>4. KillNoted
  BY RegistryAssumption DEF Init, KillNoted, Killed
<1>5. _live_probes \ everKilled = {}
  BY Zenon, <1>1
<1>6. OneOwner
  BY <1>1, <1>2, <1>5, RegistryAssumption DEF OneOwner
<1> QED
  BY Zenon, <1>3, <1>4, <1>6 DEF RegistryInv

\* What a change of the registry leaves in each list.
LEMMA ListedLists ==
    ASSUME NEW v \in Versions, RegistryTypeOK
    PROVE  /\ Listed(v, "active") \in [RegistryLists -> SUBSET Versions]
           /\ Listed(v, "shadow") \in [RegistryLists -> SUBSET Versions]
           /\ Listed(v, "probe") \in [RegistryLists -> SUBSET Versions]
           /\ Listed(v, "inactive") \in [RegistryLists -> SUBSET Versions]
           /\ Listed(v, "active").active = {w \in registry.active : AlphaOf[w] # AlphaOf[v]} \cup {v}
           /\ Listed(v, "shadow").active = {w \in registry.active : AlphaOf[w] # AlphaOf[v]}
           /\ Listed(v, "probe").active = {w \in registry.active : AlphaOf[w] # AlphaOf[v]}
           /\ Listed(v, "inactive").active = {w \in registry.active : AlphaOf[w] # AlphaOf[v]}
           /\ Listed(v, "active").probe = {w \in registry.probe : AlphaOf[w] # AlphaOf[v]}
           /\ Listed(v, "shadow").probe = {w \in registry.probe : AlphaOf[w] # AlphaOf[v]}
           /\ Listed(v, "probe").probe = {w \in registry.probe : AlphaOf[w] # AlphaOf[v]} \cup {v}
           /\ Listed(v, "inactive").probe = {w \in registry.probe : AlphaOf[w] # AlphaOf[v]}
  BY Zenon DEF Listed, RegistryTypeOK, RegistryLists

\* Every promotion, demotion, enrolment, sweep and close leaves a registry of the same shape.
LEMMA RegistryTypeNext == RegistryTypeOK /\ [Next]_registryVars => RegistryTypeOK'
<1> SUFFICES ASSUME RegistryTypeOK, [Next]_registryVars PROVE RegistryTypeOK'
  BY Zenon
<1>0. \A S, v : IsFiniteSet(registry.probe) /\ S \subseteq registry.probe
                   => IsFiniteSet(S) /\ IsFiniteSet(S \cup {v})
  BY FS_Subset, FS_AddElement, Zenon
<1> USE RegistryAssumption DEF RegistryTypeOK
<1>1. CASE DayPasses
  BY <1>1 DEF DayPasses
<1>2. ASSUME NEW v \in Versions, record_qualification(v) \/ record_forecast(v) \/ EntryAdmitted(v)
      PROVE  RegistryTypeOK'
  BY Zenon, <1>2 DEF record_qualification, record_forecast, EntryAdmitted
<1>3. ASSUME NEW v \in Versions, promote(v) \/ set_shadow(v) \/ demote(v)
      PROVE  RegistryTypeOK'
  <2>1. registry' \in {Listed(v, "active"), Listed(v, "shadow"), Listed(v, "inactive")}
    BY Zenon, <1>3 DEF promote, set_shadow, demote
  <2>2. /\ registry' \in [RegistryLists -> SUBSET Versions]
        /\ registry'.probe = {w \in registry.probe : AlphaOf[w] # AlphaOf[v]}
    BY Zenon, <2>1, ListedLists
  <2>3. IsFiniteSet({w \in registry.probe : AlphaOf[w] # AlphaOf[v]})
    BY Zenon, <1>0
  <2> QED
    BY Zenon, <1>3, <2>2, <2>3 DEF promote, set_shadow, demote
<1>4. ASSUME NEW v \in Versions, enrol_probe(v) \/ enrol_catalog_probe(v)
      PROVE  RegistryTypeOK'
  <2>1. registry' = Listed(v, "probe")
    BY Zenon, <1>4 DEF enrol_probe, enrol_catalog_probe
  <2>2. /\ registry' \in [RegistryLists -> SUBSET Versions]
        /\ registry'.probe = {w \in registry.probe : AlphaOf[w] # AlphaOf[v]} \cup {v}
    BY Zenon, <2>1, ListedLists
  <2>3. IsFiniteSet({w \in registry.probe : AlphaOf[w] # AlphaOf[v]} \cup {v})
    BY Zenon, <1>0
  <2>4. PICK days \in 1..MaxTerm : enrolment' = [enrolment EXCEPT ![v] = today + days]
    BY Zenon, <1>4 DEF enrol_probe, enrol_catalog_probe, _record_probe_enrolment
  <2>5. enrolment' \in [Versions -> Int]
    BY <2>4
  <2>6. UNCHANGED <<today, cumulative, everKilled>>
    BY Zenon, <1>4 DEF enrol_probe, enrol_catalog_probe, _record_probe_enrolment
  <2> QED
    BY Zenon, <2>2, <2>3, <2>5, <2>6
<1>5. ASSUME NEW v \in Versions, PositionCloses(v)
      PROVE  RegistryTypeOK'
  BY <1>5 DEF PositionCloses
<1>6. CASE sweep_probes
  <2>1. _live_probes \subseteq registry.probe
    BY Zenon DEF _live_probes
  <2> QED
    BY Zenon, <1>0, <1>6, <2>1 DEF sweep_probes, RegistryLists
<1>7. CASE UNCHANGED registryVars
  BY Zenon, <1>7 DEF registryVars
<1> HIDE DEF RegistryTypeOK
<1> QED
  BY Zenon, <1>1, <1>2, <1>3, <1>4, <1>5, <1>6, <1>7 DEF Next

\* A close that reaches the kill rule is remembered, and no other step changes the totals.
LEMMA KillNotedNext == RegistryTypeOK /\ KillNoted /\ [Next]_registryVars => KillNoted'
<1> SUFFICES ASSUME RegistryTypeOK, KillNoted, [Next]_registryVars PROVE KillNoted'
  BY Zenon
<1>1. ASSUME NEW v \in Versions, PositionCloses(v) PROVE KillNoted'
  BY Zenon, <1>1, RegistryAssumption DEF PositionCloses, KillNoted, Killed, RegistryTypeOK
<1>2. CASE UNCHANGED <<cumulative, everKilled>>
  BY Zenon, <1>2 DEF KillNoted, Killed
<1> QED
  BY Zenon, <1>1, <1>2 DEF Next, registryVars, DayPasses, record_qualification, record_forecast, EntryAdmitted, promote,
                    set_shadow, demote, enrol_probe, enrol_catalog_probe, sweep_probes

\* Time and closes make no probe live that was not, the killed set aside: only an enrolment does.
LEMMA LiveOnlyByEnrolment ==
    ASSUME RegistryTypeOK, KillNoted, RegistryTypeOK', today <= today', everKilled \subseteq everKilled',
           NEW v \in Versions, enrolment'[v] = enrolment[v], Live(v)', v \notin everKilled'
    PROVE  Live(v)
  BY DEF RegistryTypeOK, KillNoted, Live

\* The day only advances, and a version that was ever killed stays one of those.
LEMMA ClockAndKillsGrow ==
    RegistryTypeOK /\ [Next]_registryVars => today <= today' /\ everKilled \subseteq everKilled'
  BY DEF RegistryTypeOK, Next, registryVars, DayPasses, record_qualification, record_forecast, EntryAdmitted, promote,
         set_shadow, demote, enrol_probe, enrol_catalog_probe, sweep_probes, PositionCloses

\* A step that lists nothing new and enrols nobody.
LEMMA OwnersKept ==
    ASSUME RegistryTypeOK, KillNoted, OneOwner, RegistryTypeOK', [Next]_registryVars,
           registry'.active \subseteq registry.active, registry'.probe \subseteq registry.probe,
           enrolment' = enrolment
    PROVE  OneOwner'
<1>0. today <= today' /\ everKilled \subseteq everKilled'
  BY Zenon, ClockAndKillsGrow
<1>1. _live_probes' \ everKilled' \subseteq _live_probes \ everKilled
  <2> SUFFICES ASSUME NEW v \in _live_probes', v \notin everKilled' PROVE v \in _live_probes \ everKilled
    BY Zenon
  <2>1. v \in Versions /\ v \in registry.probe /\ Live(v)'
    BY Zenon DEF _live_probes, RegistryTypeOK, RegistryLists
  <2>2. Live(v)
    BY Zenon, <1>0, <2>1, LiveOnlyByEnrolment
  <2> QED
    BY Zenon, <1>0, <2>1, <2>2 DEF _live_probes
<1>2. IsFiniteSet(_live_probes \ everKilled)
  <2>1. _live_probes \ everKilled \in SUBSET registry.probe
    BY Zenon DEF _live_probes
  <2> QED
    BY <2>1, FS_Subset, Zenon DEF RegistryTypeOK
<1>3. /\ Cardinality(_live_probes' \ everKilled') <= Cardinality(_live_probes \ everKilled)
      /\ Cardinality(_live_probes' \ everKilled') \in Nat /\ Cardinality(_live_probes \ everKilled) \in Nat
  <2>1. _live_probes' \ everKilled' \in SUBSET (_live_probes \ everKilled)
    BY Zenon, <1>1
  <2>2. /\ IsFiniteSet(_live_probes' \ everKilled')
        /\ Cardinality(_live_probes' \ everKilled') <= Cardinality(_live_probes \ everKilled)
    BY <1>2, <2>1, FS_Subset, Zenon
  <2> QED
    BY <1>2, <2>2, FS_CardinalityType, Zenon
<1>4. Cardinality(_live_probes \ everKilled) <= MaxProbes
  BY Zenon DEF OneOwner
<1>5. Cardinality(_live_probes' \ everKilled') <= MaxProbes
  BY <1>3, <1>4, RegistryAssumption
<1>6. ASSUME NEW v, NEW w, v \in (registry'.active \cup _live_probes') \ (everKilled' \cup Catalog),
             w \in (registry'.active \cup _live_probes') \ (everKilled' \cup Catalog),
             SymbolsOf[v] \cap SymbolsOf[w] # {}
      PROVE  AlphaOf[v] = AlphaOf[w]
  BY Zenon, <1>0, <1>1, <1>6 DEF OneOwner
<1> QED
  BY Zenon, <1>5, <1>6 DEF OneOwner

\* A version without a conflict with the owners joins them.
LEMMA OwnerJoins ==
    ASSUME NEW v \in Versions, NEW owners, ~ OwnerConflict(v, owners), NEW w \in owners \ Catalog, v \notin Catalog,
           SymbolsOf[v] \cap SymbolsOf[w] # {} \/ SymbolsOf[w] \cap SymbolsOf[v] # {}
    PROVE  AlphaOf[v] = AlphaOf[w]
  BY Zenon DEF OwnerConflict

\* promote checks the version against the active ones and the live probes, so it joins without a
\* second owner.
LEMMA PromoteOwner ==
    ASSUME RegistryTypeOK, KillNoted, OneOwner, RegistryTypeOK', NEW v \in Versions, promote(v)
    PROVE  OneOwner'
<1>1. /\ registry'.active = {w \in registry.active : AlphaOf[w] # AlphaOf[v]} \cup {v}
      /\ registry'.probe \subseteq registry.probe
      /\ v \notin Catalog /\ ~ OwnerConflict(v, registry.active \cup _live_probes)
      /\ UNCHANGED <<today, enrolment, cumulative, everKilled>>
  BY Zenon, ListedLists DEF promote, PromotionOwners
<1>2. _live_probes' \subseteq _live_probes
  BY Zenon, <1>1 DEF _live_probes, Live, Killed
<1>3. Cardinality(_live_probes' \ everKilled') <= MaxProbes
  <2>1. _live_probes' \ everKilled' \in SUBSET (_live_probes \ everKilled)
    BY Zenon, <1>1, <1>2
  <2>2. _live_probes \ everKilled \in SUBSET registry.probe
    BY Zenon DEF _live_probes
  <2>3. IsFiniteSet(_live_probes \ everKilled)
    BY <2>2, FS_Subset, Zenon DEF RegistryTypeOK
  <2>4. /\ IsFiniteSet(_live_probes' \ everKilled')
        /\ Cardinality(_live_probes' \ everKilled') <= Cardinality(_live_probes \ everKilled)
    BY <2>1, <2>3, FS_Subset, Zenon
  <2>5. Cardinality(_live_probes \ everKilled) \in Nat /\ Cardinality(_live_probes' \ everKilled') \in Nat
    BY <2>3, <2>4, FS_CardinalityType, Zenon
  <2>6. Cardinality(_live_probes \ everKilled) <= MaxProbes
    BY Zenon DEF OneOwner
  <2> QED
    BY <2>4, <2>5, <2>6, RegistryAssumption
<1>4. ASSUME NEW u, NEW w, u \in (registry'.active \cup _live_probes') \ (everKilled' \cup Catalog),
             w \in (registry'.active \cup _live_probes') \ (everKilled' \cup Catalog),
             SymbolsOf[u] \cap SymbolsOf[w] # {}
      PROVE  AlphaOf[u] = AlphaOf[w]
  <2>1. u = v \/ u \in (registry.active \cup _live_probes) \ (everKilled \cup Catalog)
    BY Zenon, <1>1, <1>2, <1>4
  <2>2. w = v \/ w \in (registry.active \cup _live_probes) \ (everKilled \cup Catalog)
    BY Zenon, <1>1, <1>2, <1>4
  <2>3. CASE u = v /\ w # v
    BY Zenon, <1>1, <1>4, <2>2, <2>3, OwnerJoins
  <2>4. CASE w = v /\ u # v
    BY Zenon, <1>1, <1>4, <2>1, <2>4, OwnerJoins
  <2>5. CASE u # v /\ w # v
    BY Zenon, <1>4, <2>1, <2>2, <2>5 DEF OneOwner
  <2> QED
    BY Zenon, <2>3, <2>4, <2>5
<1> QED
  BY Zenon, <1>3, <1>4 DEF OneOwner

\* enrol_probe and enrol_catalog_probe check the owners and the number of live probes, those of
\* the version's own alpha set aside.
LEMMA EnrolOwner ==
    ASSUME RegistryTypeOK, KillNoted, OneOwner, RegistryTypeOK', NEW v \in Versions,
           enrol_probe(v) \/ enrol_catalog_probe(v)
    PROVE  OneOwner'
<1> DEFINE others == _live_probes \ {v}
<1>1. /\ registry'.active \subseteq registry.active
      /\ registry'.probe = {w \in registry.probe : AlphaOf[w] # AlphaOf[v]} \cup {v}
      /\ UNCHANGED <<today, cumulative, everKilled>>
      /\ Cardinality(others) < MaxProbes
  BY Zenon, ListedLists DEF enrol_probe, enrol_catalog_probe, EnrolmentAccepted
<1>2. \A w \in Versions \ {v} : enrolment'[w] = enrolment[w]
  BY Zenon DEF enrol_probe, enrol_catalog_probe, _record_probe_enrolment, RegistryTypeOK
<1>3. v \notin Catalog => ~ OwnerConflict(v, registry.active \cup others)
  BY Zenon DEF enrol_probe, enrol_catalog_probe, EnrolmentAccepted
<1>4. _live_probes' \subseteq others \cup {v}
  <2> SUFFICES ASSUME NEW w \in _live_probes', w # v PROVE w \in _live_probes
    BY Zenon
  <2>1. w \in registry.probe /\ w \in Versions
    BY Zenon, <1>1 DEF _live_probes, RegistryTypeOK, RegistryLists
  <2> QED
    BY Zenon, <1>1, <1>2, <2>1 DEF _live_probes, Live, Killed
<1>5. Cardinality(_live_probes' \ everKilled') <= MaxProbes
  <2>1. others \in SUBSET registry.probe
    BY Zenon DEF _live_probes
  <2> HIDE DEF others
  <2>2. IsFiniteSet(others)
    BY <2>1, FS_Subset, Zenon DEF RegistryTypeOK
  <2>3. /\ IsFiniteSet(others \cup {v})
        /\ Cardinality(others \cup {v}) = IF v \in others THEN Cardinality(others) ELSE Cardinality(others) + 1
    BY <2>2, FS_AddElement, Zenon
  <2>4. _live_probes' \ everKilled' \in SUBSET (others \cup {v})
    BY Zenon, <1>4
  <2>5. /\ IsFiniteSet(_live_probes' \ everKilled')
        /\ Cardinality(_live_probes' \ everKilled') <= Cardinality(others \cup {v})
    BY <2>3, <2>4, FS_Subset, Zenon
  <2>6. Cardinality(others) \in Nat /\ Cardinality(_live_probes' \ everKilled') \in Nat
    BY <2>2, <2>5, FS_CardinalityType, Zenon
  <2>7. Cardinality(others) < MaxProbes /\ MaxProbes \in Nat
    BY Zenon, <1>1, RegistryAssumption
  <2> QED
    BY <2>3, <2>5, <2>6, <2>7
<1>6. ASSUME NEW u, NEW w, u \in (registry'.active \cup _live_probes') \ (everKilled' \cup Catalog),
             w \in (registry'.active \cup _live_probes') \ (everKilled' \cup Catalog),
             SymbolsOf[u] \cap SymbolsOf[w] # {}
      PROVE  AlphaOf[u] = AlphaOf[w]
  <2>1. u = v \/ (/\ u \in (registry.active \cup _live_probes) \ (everKilled \cup Catalog)
                 /\ u \in registry.active \cup others)
    BY Zenon, <1>1, <1>4, <1>6
  <2>2. w = v \/ (/\ w \in (registry.active \cup _live_probes) \ (everKilled \cup Catalog)
                 /\ w \in registry.active \cup others)
    BY Zenon, <1>1, <1>4, <1>6
  <2> HIDE DEF others
  <2>3. CASE u = v /\ w # v
    BY Zenon, <1>3, <1>6, <2>2, <2>3, OwnerJoins
  <2>4. CASE w = v /\ u # v
    BY Zenon, <1>3, <1>6, <2>1, <2>4, OwnerJoins
  <2>5. CASE u # v /\ w # v
    BY Zenon, <1>6, <2>1, <2>2, <2>5 DEF OneOwner
  <2> QED
    BY Zenon, <2>3, <2>4, <2>5
<1> QED
  BY Zenon, <1>5, <1>6 DEF OneOwner

\* No registry operation gives a symbol a second owner or exceeds max_probes.
LEMMA OwnerNext == RegistryTypeOK /\ KillNoted /\ OneOwner /\ [Next]_registryVars => OneOwner'
<1> SUFFICES ASSUME RegistryTypeOK, KillNoted, OneOwner, [Next]_registryVars PROVE OneOwner'
  BY Zenon
<1>0. RegistryTypeOK'
  BY Zenon, RegistryTypeNext
<1>1. ASSUME NEW v \in Versions, promote(v) PROVE OneOwner'
  BY Zenon, <1>0, <1>1, PromoteOwner
<1>2. ASSUME NEW v \in Versions, enrol_probe(v) \/ enrol_catalog_probe(v) PROVE OneOwner'
  BY Zenon, <1>0, <1>2, EnrolOwner
<1>3. ASSUME NEW v \in Versions, set_shadow(v) \/ demote(v) PROVE OneOwner'
  <2>1. registry'.active \subseteq registry.active /\ registry'.probe \subseteq registry.probe /\ enrolment' = enrolment
    BY Zenon, <1>3, ListedLists DEF set_shadow, demote
  <2> QED
    BY Zenon, <1>0, <2>1, OwnersKept
<1>4. CASE sweep_probes
  <2>1. registry'.active \subseteq registry.active /\ registry'.probe \subseteq registry.probe /\ enrolment' = enrolment
    BY Zenon, <1>4 DEF sweep_probes, _live_probes, RegistryTypeOK, RegistryLists
  <2> QED
    BY Zenon, <1>0, <2>1, OwnersKept
<1>5. CASE registry' = registry /\ enrolment' = enrolment
  BY Zenon, <1>0, <1>5, OwnersKept
<1> QED
  BY Zenon, <1>1, <1>2, <1>3, <1>4, <1>5 DEF Next, registryVars, DayPasses, record_qualification, record_forecast,
     EntryAdmitted, PositionCloses

\* An instrument has one owner and probes keep to their slots, for any number of versions, any
\* universe of symbols and any policy: promotions and enrolments are the only steps that add an
\* owner, and what they read stays true until the next of them (promote, _record_probe_enrolment).
THEOREM RegistryHasOneOwner == Spec => []OneOwner
<1>1. RegistryInv /\ [Next]_registryVars => RegistryInv'
  BY Zenon, RegistryTypeNext, KillNotedNext, OwnerNext DEF RegistryInv
<1>2. RegistryInv => OneOwner
  BY Zenon DEF RegistryInv
<1> QED
  BY <1>1, <1>2, RegistryInitInv, PTL DEF Spec

-----------------------------------------------------------------------------
(* The holdout and its budget. *)

(* Sums as sets of tokens. *)

\* The tokens of f: f[r] of them for each r.  A sum over an unbounded set of runs is the number
\* of its tokens.
Tokens(R, f) == {x \in R \X Nat : 1 <= x[2] /\ x[2] <= f[x[1]]}

\* Raising f at one run by n adds n tokens.
LEMMA TokensGrow ==
    ASSUME NEW R, NEW f \in [R -> Nat], NEW r \in R, NEW n \in Nat, IsFiniteSet(Tokens(R, f)),
           NEW g \in [R -> Nat], g[r] = f[r] + n, \A t \in R \ {r} : g[t] = f[t]
    PROVE  /\ IsFiniteSet(Tokens(R, g))
           /\ Cardinality(Tokens(R, g)) = Cardinality(Tokens(R, f)) + n
<1> DEFINE added == {r} \X ((f[r] + 1)..(f[r] + n))
<1>1. Tokens(R, g) = Tokens(R, f) \cup added
  BY DEF Tokens
<1>2. Tokens(R, f) \cap added = {}
  BY DEF Tokens
<1>3. IsFiniteSet((f[r] + 1)..(f[r] + n)) /\ Cardinality((f[r] + 1)..(f[r] + n)) = n
  <2>1. f[r] + 1 \in Int /\ f[r] + n \in Int
    OBVIOUS
  <2>2. /\ IsFiniteSet((f[r] + 1)..(f[r] + n))
        /\ Cardinality((f[r] + 1)..(f[r] + n))
              = IF f[r] + 1 > f[r] + n THEN 0 ELSE (f[r] + n) - (f[r] + 1) + 1
    BY <2>1, FS_Interval, Zenon
  <2> QED
    BY <2>2
<1>4. IsFiniteSet({r}) /\ Cardinality({r}) = 1
  BY FS_Singleton, Zenon
<1>5. IsFiniteSet(added) /\ Cardinality(added) = n
  <2>1. IsFiniteSet(added) /\ Cardinality(added) = Cardinality({r}) * Cardinality((f[r] + 1)..(f[r] + n))
    BY <1>3, <1>4, FS_Product, Zenon
  <2> HIDE DEF added
  <2> QED
    BY <2>1, <1>3, <1>4
<1> HIDE DEF added
<1>6. Cardinality({}) = 0
  BY FS_EmptySet, Zenon
<1>7. Cardinality(Tokens(R, f)) \in Nat
  BY Zenon, FS_CardinalityType
<1>8. /\ IsFiniteSet(Tokens(R, f) \cup added)
      /\ Cardinality(Tokens(R, f) \cup added)
            = Cardinality(Tokens(R, f)) + Cardinality(added) - Cardinality(Tokens(R, f) \cap added)
  BY <1>5, FS_Union, Zenon
<1>9. Cardinality(Tokens(R, f) \cap added) = 0
  BY <1>2, <1>6, Zenon
<1>10. Cardinality(Tokens(R, f) \cup added) = Cardinality(Tokens(R, f)) + n
  BY <1>5, <1>7, <1>8, <1>9
<1> QED
  BY <1>1, <1>8, <1>10, Zenon

\* Where f is nowhere above g it has no more tokens.
LEMMA TokensBound ==
    ASSUME NEW R, NEW f \in [R -> Nat], NEW g \in [R -> Nat], IsFiniteSet(Tokens(R, g)),
           \A r \in R : f[r] <= g[r]
    PROVE  Cardinality(Tokens(R, f)) <= Cardinality(Tokens(R, g))
<1>1. Tokens(R, f) \in SUBSET Tokens(R, g)
  BY DEF Tokens
<1> QED
  BY Zenon, <1>1, FS_Subset

\* Where f is zero everywhere there are none.
LEMMA TokensNone ==
    ASSUME NEW R, NEW f, f = [r \in R |-> 0]
    PROVE  IsFiniteSet(Tokens(R, f)) /\ Cardinality(Tokens(R, f)) = 0
<1>1. Tokens(R, f) = {}
  BY DEF Tokens
<1> QED
  BY Zenon, <1>1, FS_EmptySet

-----------------------------------------------------------------------------
(* Trials and holdout days: ResearchBudget. *)

WorkerType ==
    [step : {"none", "reserved", "loaded", "recorded", "stopped", "marked", "consumed", "evaluated", "done"},
     trials : Nat, frame : [discovery : SUBSET Days, holdout : SUBSET Days]]

BudgetTypeOK ==
    /\ familyTrials \in Nat
    /\ reservation \in [Studies \cup Diagnostics -> Nat]
    /\ study \in [Studies -> [days : SUBSET Days, trials : Nat]]
    /\ intervals \subseteq SUBSET Days
    /\ observations \in [Diagnostics \cup Tests -> SUBSET Days]
    /\ consumption \in [Studies -> Int]
    /\ qualified \subseteq Studies
    /\ worker \in [RunIds -> WorkerType]
    /\ computed \in Nat
    /\ seen \subseteq Days
    /\ mined \in [Studies -> SUBSET Days]

\* Whatever a qualification, a diagnostic or a test has looked at lies in an interval the journal
\* holds, and so does what a worker is about to look at; a run without a study has consumed
\* nothing; what a run mines is not its holdout.
DaysSpokenFor ==
    /\ \A d \in seen : \E i \in intervals : d \in i
    /\ \A r \in Diagnostics \cup Tests :
          /\ observations[r] # {} => observations[r] \in intervals
          /\ worker[r].step = "marked" => observations[r] # {}
          /\ worker[r].step \notin {"recorded", "consumed", "evaluated"}
    /\ \A r \in Studies :
          /\ worker[r].step \in {"none", "reserved", "loaded", "stopped"} => study[r] = NoStudy
          /\ worker[r].step = "loaded" => worker[r].frame \in Frames
          /\ study[r] # NoStudy => study[r].days # {}
          /\ worker[r].step = "recorded" => study[r] # NoStudy
          /\ worker[r].step \in {"consumed", "evaluated"} => study[r] # NoStudy /\ study[r].days \in intervals
          /\ consumption[r] # NoConsumption => study[r] # NoStudy /\ study[r].days \in intervals
          /\ worker[r].step \notin {"marked", "done"}

\* A run mines the discovery part of its bars, and its holdout is the rest.
MinedApart ==
    \A r \in Studies :
        /\ worker[r].step \in {"none", "reserved"} => mined[r] = {}
        /\ worker[r].step = "loaded" => mined[r] \subseteq worker[r].frame.discovery
        /\ study[r] # NoStudy => study[r].days \cap mined[r] = {}

\* What the family was charged for a run, and the distinct trials the run has computed.
Charged ==
    [r \in RunIds |-> IF r \in Tests THEN IF observations[r] = {} THEN 0 ELSE 1 ELSE reservation[r]]
Spent == [r \in RunIds |-> worker[r].trials]

\* A diagnostic that is reserved or marked has reserved its one trial and not computed it.
DiagnosticReserved ==
    \A r \in Diagnostics :
        /\ worker[r].step \in {"reserved", "marked"} => reservation[r] = 1 /\ worker[r].trials = 0
        /\ worker[r].step = "none" => worker[r].trials = 0

\* The family's count is that of the charges, the trials computed are those of the runs, and no
\* run computes more than it was charged for.
TrialsCharged ==
    /\ IsFiniteSet(Tokens(RunIds, Charged)) /\ familyTrials = Cardinality(Tokens(RunIds, Charged))
    /\ IsFiniteSet(Tokens(RunIds, Spent)) /\ computed = Cardinality(Tokens(RunIds, Spent))
    /\ \A r \in RunIds : Spent[r] <= Charged[r]
    /\ DiagnosticReserved

BudgetInv == BudgetTypeOK /\ DaysSpokenFor /\ MinedApart /\ TrialsCharged

\* The three kinds of runs, and the runs of each kind.
LEMMA KindsOfRuns ==
    /\ \A r \in Studies : r \in RunIds /\ r \notin Diagnostics /\ r \notin Tests /\ r \in Studies \cup Diagnostics
    /\ \A r \in Diagnostics : /\ r \in RunIds /\ r \notin Studies /\ r \notin Tests
                              /\ r \in Studies \cup Diagnostics /\ r \in Diagnostics \cup Tests
    /\ \A r \in Tests : r \in RunIds /\ r \notin Studies /\ r \notin Diagnostics /\ r \in Diagnostics \cup Tests
    /\ \A r \in RunIds : r \in Studies \/ r \in Diagnostics \/ r \in Tests
BY Zenon, BudgetAssumption DEF RunIds

\* One step of one run (BudgetNext).
BudgetStep(r) ==
    \/ r \in Studies /\ reserve_run(r, Allowance)
    \/ r \in Studies /\ (download_bars(r) \/ Mine(r) \/ record_run(r))
    \/ r \in Studies /\ (begin_holdout(r) \/ assess_qualification(r) \/ record_run_qualification(r))
    \/ r \in Diagnostics /\ reserve_run(r, 1)
    \/ /\ r \in Diagnostics /\ worker[r].step = "reserved"
       /\ \E days \in Intervals : exclude_observed_interval(r, days, 0)
    \/ /\ r \in Tests /\ worker[r].step \in {"none", "done", "stopped"}
       /\ \E days \in Intervals : exclude_observed_interval(r, days, 1)
    \/ r \in Diagnostics \cup Tests /\ Observe(r)
    \/ WorkerStops(r)

\* Every step is one of a run.
LEMMA BudgetSteps == BudgetNext => \E r \in RunIds : BudgetStep(r)
BY Zenon, KindsOfRuns DEF BudgetNext, BudgetStep

\* An empty journal has neither reservations nor intervals (BudgetInit).
LEMMA BudgetInitInv == BudgetInit => BudgetInv
<1> SUFFICES ASSUME BudgetInit PROVE BudgetInv
  BY Zenon
<1> USE DEF BudgetInit
<1>1. BudgetTypeOK
  <2>1. Workless \in WorkerType
    BY DEF Workless, WorkerType, NoFrame
  <2>2. NoStudy \in [days : SUBSET Days, trials : Nat] /\ NoConsumption \in Int /\ 0 \in Nat
    BY DEF NoStudy, NoConsumption
  <2> QED
    BY Zenon, <2>1, <2>2 DEF BudgetTypeOK
<1>2. DaysSpokenFor /\ MinedApart
  <2>1. \A r \in RunIds : worker[r].step = "none"
    BY Zenon DEF Workless
  <2> QED
    BY Zenon, <2>1, KindsOfRuns DEF DaysSpokenFor, MinedApart
<1>3. TrialsCharged
  <2>1. Charged = [r \in RunIds |-> 0] /\ Spent = [r \in RunIds |-> 0]
    BY Zenon, KindsOfRuns DEF Spent, Charged, RunIds, Workless
  <2>2. DiagnosticReserved
    BY Zenon, KindsOfRuns DEF Workless, DiagnosticReserved
  <2>3. /\ IsFiniteSet(Tokens(RunIds, Charged)) /\ Cardinality(Tokens(RunIds, Charged)) = 0
        /\ IsFiniteSet(Tokens(RunIds, Spent)) /\ Cardinality(Tokens(RunIds, Spent)) = 0
    BY <2>1, TokensNone, Zenon
  <2> QED
    BY <2>1, <2>2, <2>3 DEF TrialsCharged
<1> QED
  BY Zenon, <1>1, <1>2, <1>3 DEF BudgetInv

\* Only the worker of the run that steps changes, and it keeps its shape.
LEMMA WorkerNext ==
    ASSUME BudgetTypeOK, NEW r \in RunIds, BudgetStep(r)
    PROVE  /\ worker' \in [RunIds -> WorkerType]
           /\ \A t \in RunIds \ {r} : worker'[t] = worker[t]
<1>0. worker \in [RunIds -> WorkerType]
  BY Zenon DEF BudgetTypeOK
<1>1. ASSUME NEW step \in {"none", "reserved", "loaded", "recorded", "stopped", "marked", "consumed", "evaluated", "done"},
             worker' = Step(r, step)
      PROVE  /\ worker' \in [RunIds -> WorkerType]
             /\ \A t \in RunIds \ {r} : worker'[t] = worker[t]
  <2>1. [worker[r] EXCEPT !.step = step] \in WorkerType
    BY Zenon, <1>0 DEF WorkerType
  <2> QED
    BY Zenon, <1>0, <1>1, <2>1 DEF Step
<1>2. CASE r \in Studies /\ download_bars(r)
  <2>1. PICK frame \in Frames : worker' = [worker EXCEPT ![r].step = "loaded", ![r].frame = frame]
    BY Zenon, <1>2 DEF download_bars
  <2>2. frame \in [discovery : SUBSET Days, holdout : SUBSET Days]
    BY DEF Frames, Intervals
  <2> DEFINE half == [worker[r] EXCEPT !.step = "loaded"]
  <2>3. half \in WorkerType
    BY Zenon, <1>0 DEF WorkerType
  <2>4. worker' = [worker EXCEPT ![r] = [half EXCEPT !.frame = frame]]
    BY Zenon, <1>0, <2>1
  <2> HIDE DEF half
  <2>5. [half EXCEPT !.frame = frame] \in WorkerType
    BY Zenon, <2>2, <2>3 DEF WorkerType
  <2> QED
    BY Zenon, <1>0, <2>4, <2>5
<1>3. CASE r \in Studies /\ Mine(r)
  <2>1. [worker[r] EXCEPT !.trials = @ + 1] \in WorkerType
    BY <1>0 DEF WorkerType
  <2>2. worker' = [worker EXCEPT ![r] = [worker[r] EXCEPT !.trials = @ + 1]]
    BY Zenon, <1>3 DEF Mine
  <2> QED
    BY Zenon, <1>0, <2>1, <2>2
<1>4. CASE r \in Diagnostics \cup Tests /\ Observe(r)
  <2> DEFINE half == [worker[r] EXCEPT !.step = "done"]
  <2>1. half \in WorkerType
    BY Zenon, <1>0 DEF WorkerType
  <2>2. worker' = [worker EXCEPT ![r] = [half EXCEPT !.trials = 1]]
    BY Zenon, <1>0, <1>4 DEF Observe
  <2> HIDE DEF half
  <2>3. [half EXCEPT !.trials = 1] \in WorkerType
    BY Zenon, <2>1, 1 \in Nat DEF WorkerType
  <2> QED
    BY Zenon, <1>0, <2>2, <2>3
<1>5. CASE WorkerStops(r)
  BY Zenon, <1>1, <1>5 DEF WorkerStops
<1> QED
  BY Zenon, <1>1, <1>2, <1>3, <1>4, <1>5 DEF BudgetStep, reserve_run, record_run, begin_holdout, assess_qualification,
       record_run_qualification, exclude_observed_interval

\* Every reservation, study, consumption and worker step keeps the journal's shape.
LEMMA BudgetTypeNext == BudgetTypeOK /\ [BudgetNext]_budgetVars => BudgetTypeOK'
<1> SUFFICES ASSUME BudgetTypeOK, BudgetNext PROVE BudgetTypeOK'
  BY Zenon DEF budgetVars, BudgetTypeOK
<1>0. PICK r \in RunIds : BudgetStep(r)
  BY Zenon, BudgetSteps
<1>w. worker' \in [RunIds -> WorkerType] /\ worker[r] \in WorkerType
  BY Zenon, <1>0, WorkerNext DEF BudgetTypeOK
<1> USE BudgetAssumption DEF BudgetTypeOK
<1>1. ASSUME NEW n \in Nat, r \in Studies \cup Diagnostics, reserve_run(r, n) PROVE BudgetTypeOK'
  BY <1>1, <1>w DEF reserve_run, ReservationCharge
<1>2. CASE r \in Studies /\ download_bars(r)
  BY Zenon, <1>2, <1>w DEF download_bars
<1>3. CASE r \in Studies /\ Mine(r)
  <2>1. worker[r].frame.discovery \in SUBSET Days /\ computed + 1 \in Nat
    BY <1>w DEF WorkerType
  <2> QED
    BY Zenon, <1>3, <1>w, <2>1 DEF Mine
<1>4. CASE r \in Studies /\ record_run(r)
  <2>1. [days |-> worker[r].frame.holdout, trials |-> worker[r].trials] \in [days : SUBSET Days, trials : Nat]
    BY <1>w DEF WorkerType
  <2> QED
    BY Zenon, <1>4, <1>w, <2>1 DEF record_run
<1>5. CASE r \in Studies /\ begin_holdout(r)
  <2>1. study[r].days \in SUBSET Days /\ familyTrials \in Int
    BY <1>5
  <2> QED
    BY Zenon, <1>5, <1>w, <2>1 DEF begin_holdout
<1>6. CASE r \in Studies /\ assess_qualification(r)
  <2>1. study[r].days \subseteq Days
    BY Zenon, <1>6
  <2> QED
    BY Zenon, <1>6, <1>w, <2>1 DEF assess_qualification
<1>7. CASE r \in Studies /\ record_run_qualification(r)
  BY Zenon, <1>7, <1>w DEF record_run_qualification
<1>8. ASSUME NEW days \in Intervals, NEW n \in Nat, r \in Diagnostics \cup Tests, exclude_observed_interval(r, days, n)
      PROVE  BudgetTypeOK'
  <2>1. days \in SUBSET Days /\ familyTrials + n \in Nat
    BY DEF Intervals
  <2> QED
    BY Zenon, <1>8, <1>w, <2>1 DEF exclude_observed_interval
<1>9. CASE r \in Diagnostics \cup Tests /\ Observe(r)
  BY SMTT(20), <1>9, <1>w DEF Observe, WorkerType
<1>10. CASE WorkerStops(r)
  BY Zenon, <1>10, <1>w DEF WorkerStops
<1>11. 0 \in Nat /\ 1 \in Nat /\ Allowance \in Nat
  BY Zenon, BudgetAssumption
<1> HIDE DEF BudgetTypeOK
<1> QED
  BY Zenon, <1>0, <1>1, <1>2, <1>3, <1>4, <1>5, <1>6, <1>7, <1>8, <1>9, <1>10, <1>11, KindsOfRuns DEF BudgetStep

\* A worker looks at days only after the journal holds their interval (consume before evaluate,
\* mark before a diagnostic or a test).
LEMMA DaysNext == BudgetTypeOK /\ DaysSpokenFor /\ [BudgetNext]_budgetVars => DaysSpokenFor'
<1> SUFFICES ASSUME BudgetTypeOK, DaysSpokenFor, BudgetNext PROVE DaysSpokenFor'
  BY Zenon DEF budgetVars, DaysSpokenFor
<1>0. PICK r \in RunIds : BudgetStep(r)
  BY Zenon, BudgetSteps
<1>w. /\ worker' \in [RunIds -> WorkerType] /\ worker[r] \in WorkerType /\ worker \in [RunIds -> WorkerType]
      /\ \A t \in RunIds \ {r} : worker'[t] = worker[t]
  BY Zenon, <1>0, WorkerNext DEF BudgetTypeOK
<1>k. /\ \A t \in Studies : t \in RunIds /\ t \notin Diagnostics \cup Tests
      /\ \A t \in Diagnostics \cup Tests : t \in RunIds /\ t \notin Studies
  BY Zenon, KindsOfRuns
<1>s. ASSUME NEW step, worker' = Step(r, step)
      PROVE  worker'[r].step = step /\ worker'[r].frame = worker[r].frame /\ worker'[r].trials = worker[r].trials
  BY Zenon, <1>s, <1>w DEF Step, WorkerType
<1> USE DEF DaysSpokenFor
<1>1. ASSUME NEW n \in Nat, r \in Studies \cup Diagnostics, reserve_run(r, n) PROVE DaysSpokenFor'
  <2>1. /\ worker[r].step = "none" /\ worker'[r].step = "reserved"
        /\ UNCHANGED <<seen, intervals, observations, study, consumption>>
    BY Zenon, <1>1, <1>s DEF reserve_run
  <2> QED
    BY Zenon, <1>w, <1>k, <2>1
<1>2. CASE r \in Studies /\ download_bars(r)
  <2>1. PICK frame \in Frames : worker' = [worker EXCEPT ![r].step = "loaded", ![r].frame = frame]
    BY Zenon, <1>2 DEF download_bars
  <2>2. worker'[r].step = "loaded" /\ worker'[r].frame = frame /\ worker[r].step = "reserved"
    BY Zenon, <1>2, <1>w, <2>1 DEF WorkerType, download_bars
  <2>3. UNCHANGED <<seen, intervals, observations, study, consumption>>
    BY Zenon, <1>2 DEF download_bars
  <2> QED
    BY Zenon, <1>2, <1>w, <1>k, <2>2, <2>3
<1>3. CASE r \in Studies /\ Mine(r)
  <2>1. worker'[r].step = worker[r].step /\ worker'[r].frame = worker[r].frame
    BY Zenon, <1>3, <1>w DEF Mine, WorkerType
  <2> QED
    BY Zenon, <1>3, <1>w, <1>k, <2>1 DEF Mine
<1>4. CASE r \in Studies /\ record_run(r)
  <2>1. worker[r].step = "loaded" /\ worker'[r].step = "recorded" /\ worker[r].frame \in Frames
    BY Zenon, <1>4, <1>s DEF record_run
  <2>2. worker[r].frame.holdout # {}
    BY <2>1 DEF Frames, Intervals
  <2>3. study'[r].days = worker[r].frame.holdout /\ study'[r] # NoStudy
    BY Zenon, <1>4, <2>2 DEF record_run, NoStudy, BudgetTypeOK
  <2>4. \A t \in Studies \ {r} : study'[t] = study[t]
    BY Zenon, <1>4 DEF record_run, BudgetTypeOK
  <2>5. UNCHANGED <<seen, intervals, observations, consumption>>
    BY Zenon, <1>4 DEF record_run
  <2> QED
    BY Zenon, <1>4, <1>w, <1>k, <2>1, <2>2, <2>3, <2>4, <2>5
<1>5. CASE r \in Studies /\ begin_holdout(r)
  <2>1. /\ worker[r].step = "recorded" /\ worker'[r].step = "consumed"
        /\ UNCHANGED <<seen, observations, study>> /\ study[r].days \in intervals' /\ intervals \subseteq intervals'
    BY Zenon, <1>5, <1>s DEF begin_holdout
  <2>2. \A t \in Studies \ {r} : consumption'[t] = consumption[t]
    BY Zenon, <1>5 DEF begin_holdout, BudgetTypeOK
  <2> QED
    BY Zenon, <1>5, <1>w, <1>k, <2>1, <2>2
<1>6. CASE r \in Studies /\ assess_qualification(r)
  <2>1. /\ worker[r].step = "consumed" /\ worker'[r].step = "evaluated"
        /\ UNCHANGED <<intervals, observations, study, consumption>> /\ seen' = seen \cup study[r].days
    BY Zenon, <1>6, <1>s DEF assess_qualification
  <2> QED
    BY Zenon, <1>6, <1>w, <1>k, <2>1
<1>7. CASE r \in Studies /\ record_run_qualification(r)
  <2>1. /\ worker[r].step = "evaluated" /\ worker'[r].step = "recorded"
        /\ UNCHANGED <<seen, intervals, observations, study, consumption>>
    BY Zenon, <1>7, <1>s DEF record_run_qualification
  <2> QED
    BY Zenon, <1>7, <1>w, <1>k, <2>1
<1>8. ASSUME NEW days \in Intervals, NEW n, r \in Diagnostics \cup Tests, exclude_observed_interval(r, days, n)
      PROVE  DaysSpokenFor'
  <2>0. days # {}
    BY Zenon DEF Intervals
  <2>1. /\ worker'[r].step = "marked" /\ UNCHANGED <<seen, study, consumption>>
        /\ observations'[r] = days /\ days \in intervals' /\ intervals \subseteq intervals'
    BY Zenon, <1>8, <1>s, <2>0 DEF exclude_observed_interval, BudgetTypeOK
  <2>2. \A t \in (Diagnostics \cup Tests) \ {r} : observations'[t] = observations[t]
    BY Zenon, <1>8 DEF exclude_observed_interval, BudgetTypeOK
  <2> QED
    BY Zenon, <1>8, <1>w, <1>k, <2>0, <2>1, <2>2
<1>9. CASE r \in Diagnostics \cup Tests /\ Observe(r)
  <2>1. /\ worker'[r].step = "done" /\ worker[r].step = "marked"
        /\ UNCHANGED <<intervals, observations, study, consumption>> /\ seen' = seen \cup observations[r]
    BY Zenon, <1>9, <1>w DEF Observe, WorkerType
  <2> QED
    BY Zenon, <1>9, <1>w, <1>k, <2>1
<1>10. CASE WorkerStops(r)
  <2>1. /\ worker[r].step \in {"reserved", "loaded", "marked", "consumed", "evaluated"}
        /\ worker'[r].step = IF r \in Studies /\ study[r] # NoStudy THEN "recorded" ELSE "stopped"
        /\ UNCHANGED <<seen, intervals, observations, study, consumption>>
    BY Zenon, <1>10, <1>s DEF WorkerStops
  <2> QED
    BY Zenon, <1>w, <1>k, <2>1
<1>11. 0 \in Nat /\ 1 \in Nat /\ Allowance \in Nat
  BY Zenon, BudgetAssumption
<1> HIDE DEF DaysSpokenFor
<1> QED
  BY Zenon, <1>0, <1>1, <1>2, <1>3, <1>4, <1>5, <1>6, <1>7, <1>8, <1>9, <1>10, <1>11, KindsOfRuns DEF BudgetStep

\* Discovery ends before the holdout starts (Frames).
LEMMA FramePartsApart ==
    ASSUME NEW frame \in Frames PROVE frame.holdout \cap frame.discovery = {}
<1>1. frame.discovery \subseteq Int /\ frame.holdout \subseteq Int
  BY BudgetAssumption DEF Frames, Intervals
<1>2. \A a \in frame.discovery, b \in frame.holdout : a < b
  BY Zenon DEF Frames
<1> QED
  BY <1>1, <1>2

\* What a run mines stays apart from its holdout (Mine, record_run).
LEMMA MinedNext == BudgetTypeOK /\ DaysSpokenFor /\ MinedApart /\ [BudgetNext]_budgetVars => MinedApart'
<1> SUFFICES ASSUME BudgetTypeOK, DaysSpokenFor, MinedApart, BudgetNext PROVE MinedApart'
  BY Zenon DEF budgetVars, MinedApart
<1>0. PICK r \in RunIds : BudgetStep(r)
  BY Zenon, BudgetSteps
<1>w. /\ worker[r] \in WorkerType /\ worker \in [RunIds -> WorkerType]
      /\ \A t \in RunIds \ {r} : worker'[t] = worker[t]
  BY Zenon, <1>0, WorkerNext DEF BudgetTypeOK
<1>k. \A t \in Studies : t \in RunIds
  BY Zenon, KindsOfRuns
<1>s. ASSUME NEW step, worker' = Step(r, step) PROVE worker'[r].step = step
  BY Zenon, <1>s, <1>w DEF Step, WorkerType
<1>1. CASE r \in Studies /\ download_bars(r)
  <2>0. PICK frame \in Frames : worker' = [worker EXCEPT ![r].step = "loaded", ![r].frame = frame]
    BY Zenon, <1>1 DEF download_bars
  <2>a. worker'[r].step = "loaded"
    BY Zenon, <1>w, <2>0 DEF WorkerType
  <2>1. worker[r].step = "reserved" /\ worker'[r].step = "loaded" /\ UNCHANGED <<study, mined>>
    BY Zenon, <1>1, <2>a DEF download_bars
  <2> QED
    BY Zenon, <1>1, <1>w, <1>k, <2>1 DEF MinedApart, DaysSpokenFor
<1>2. CASE r \in Studies /\ Mine(r)
  <2>1. /\ worker[r].step = "loaded" /\ worker'[r].step = "loaded" /\ worker'[r].frame = worker[r].frame
        /\ UNCHANGED study
    BY Zenon, <1>2, <1>w DEF Mine, WorkerType
  <2>2. mined'[r] = worker[r].frame.discovery /\ \A t \in Studies \ {r} : mined'[t] = mined[t]
    BY Zenon, <1>2 DEF Mine, BudgetTypeOK
  <2> QED
    BY Zenon, <1>2, <1>w, <1>k, <2>1, <2>2 DEF MinedApart, DaysSpokenFor
<1>3. CASE r \in Studies /\ record_run(r)
  <2>1. worker[r].step = "loaded" /\ worker'[r].step = "recorded" /\ UNCHANGED mined
    BY Zenon, <1>3, <1>s DEF record_run
  <2>2. worker[r].frame.holdout \cap worker[r].frame.discovery = {}
    BY Zenon, <1>3, <2>1, FramePartsApart DEF DaysSpokenFor
  <2>3. study'[r].days = worker[r].frame.holdout /\ \A t \in Studies \ {r} : study'[t] = study[t]
    BY Zenon, <1>3 DEF record_run, BudgetTypeOK
  <2>4. mined[r] \subseteq worker[r].frame.discovery
    BY Zenon, <1>3, <2>1 DEF MinedApart
  <2>5. study'[r].days \cap mined'[r] = {}
    BY Zenon, <2>1, <2>2, <2>3, <2>4
  <2> QED
    BY Zenon, <1>3, <1>w, <1>k, <2>1, <2>3, <2>5 DEF MinedApart
<1>4. CASE /\ UNCHANGED <<study, mined>>
           /\ r \in Studies => worker'[r].step \in {"reserved", "recorded", "stopped", "consumed", "evaluated"}
           /\ r \in Studies /\ worker'[r].step = "reserved" => worker[r].step = "none"
  BY Zenon, <1>4, <1>w, <1>k DEF MinedApart
<1>5. ASSUME NEW n, reserve_run(r, n) PROVE MinedApart'
  BY Zenon, <1>4, <1>5, <1>s DEF reserve_run
<1>6. CASE begin_holdout(r) \/ assess_qualification(r) \/ record_run_qualification(r)
  BY Zenon, <1>4, <1>6, <1>s DEF begin_holdout, assess_qualification, record_run_qualification
<1>7. ASSUME NEW days, NEW n, r \notin Studies, exclude_observed_interval(r, days, n) \/ Observe(r) PROVE MinedApart'
  BY Zenon, <1>4, <1>7 DEF exclude_observed_interval, Observe
<1>8. CASE WorkerStops(r)
  BY Zenon, <1>4, <1>8, <1>s DEF WorkerStops
<1> QED
  BY Zenon, <1>0, <1>1, <1>2, <1>3, <1>5, <1>6, <1>7, <1>8, KindsOfRuns DEF BudgetStep

\* What a step charges and computes: nothing; a charge for a run not charged yet; or one trial.
ChargeStep ==
    \/ UNCHANGED <<familyTrials, computed>> /\ Charged' = Charged /\ Spent' = Spent
    \/ \E r \in RunIds, n \in Nat :
          /\ Charged[r] = 0
          /\ Charged' = [Charged EXCEPT ![r] = n]
          /\ familyTrials' = familyTrials + n
          /\ computed' = computed /\ Spent' = Spent
    \/ \E r \in RunIds :
          /\ Spent[r] < Charged[r]
          /\ Spent' = [Spent EXCEPT ![r] = Spent[r] + 1]
          /\ computed' = computed + 1
          /\ familyTrials' = familyTrials /\ Charged' = Charged

\* Every step is such a step.
LEMMA TrialsStep ==
    ASSUME BudgetTypeOK, DaysSpokenFor, TrialsCharged, [BudgetNext]_budgetVars
    PROVE  ChargeStep
<1>a. CASE UNCHANGED budgetVars
  BY Zenon, <1>a DEF budgetVars, Spent, Charged, ChargeStep
<1>b. CASE BudgetNext
 <2>0. PICK r \in RunIds : BudgetStep(r)
   BY Zenon, <1>b, BudgetSteps
 <2>w. /\ worker' \in [RunIds -> WorkerType] /\ worker[r] \in WorkerType /\ worker \in [RunIds -> WorkerType]
       /\ \A t \in RunIds \ {r} : worker'[t] = worker[t]
   BY Zenon, <2>0, WorkerNext DEF BudgetTypeOK
 <2>k. /\ \A t \in Studies : t \in RunIds /\ t \notin Tests /\ t \in Studies \cup Diagnostics
       /\ \A t \in Diagnostics : t \in RunIds /\ t \notin Tests /\ t \in Studies \cup Diagnostics
       /\ \A t \in Tests : t \in Diagnostics \cup Tests /\ t \notin Diagnostics /\ t \notin Studies
       /\ \A t \in RunIds : t \notin Tests => t \in Studies \cup Diagnostics
   BY Zenon, KindsOfRuns
 <2>s. ASSUME worker'[r].trials = worker[r].trials PROVE Spent' = Spent
   BY Zenon, <2>s, <2>w DEF Spent
 <2>t. ASSUME NEW step, worker' = Step(r, step) PROVE worker'[r].trials = worker[r].trials
   BY Zenon, <2>t, <2>w DEF Step, WorkerType
 <2>c. ASSUME UNCHANGED <<reservation, observations>> PROVE Charged' = Charged
   BY Zenon, <2>c DEF Charged
 <2>1. ASSUME NEW n \in Nat, r \in Studies \cup Diagnostics, r \notin Tests, reserve_run(r, n) PROVE ChargeStep
   <3>1. Spent' = Spent /\ computed' = computed /\ familyTrials' = familyTrials + n
     BY Zenon, <2>1, <2>s, <2>t DEF reserve_run, ReservationCharge
   <3>2. Charged[r] = 0 /\ Charged' = [Charged EXCEPT ![r] = n]
     BY Zenon, <2>1, <2>k DEF reserve_run, Charged, BudgetTypeOK
   <3> QED
     BY Zenon, <3>1, <3>2 DEF ChargeStep
 <2>2. CASE r \in Studies /\ download_bars(r)
   <3>0. PICK frame \in Frames : worker' = [worker EXCEPT ![r].step = "loaded", ![r].frame = frame]
     BY Zenon, <2>2 DEF download_bars
   <3>1. worker'[r].trials = worker[r].trials
     BY Zenon, <2>w, <3>0 DEF WorkerType
   <3> QED
     BY Zenon, <2>2, <2>s, <2>c, <3>1 DEF download_bars, ChargeStep
 <2>3. CASE r \in Studies /\ Mine(r)
   <3>1. worker'[r].trials = worker[r].trials + 1 /\ worker[r].trials < reservation[r]
     BY Zenon, <2>3, <2>w DEF Mine, WorkerType
   <3>2. Spent' = [Spent EXCEPT ![r] = Spent[r] + 1] /\ Spent[r] < Charged[r]
     BY Zenon, <2>3, <2>w, <2>k, <3>1 DEF Spent, Charged
   <3>3. Charged' = Charged /\ familyTrials' = familyTrials /\ computed' = computed + 1
     BY Zenon, <2>3, <2>c DEF Mine
   <3> QED
     BY Zenon, <3>2, <3>3 DEF ChargeStep
 <2>4. CASE \/ r \in Studies /\ record_run(r)
            \/ r \in Studies /\ (begin_holdout(r) \/ assess_qualification(r) \/ record_run_qualification(r))
            \/ WorkerStops(r)
   BY Zenon, <2>4, <2>s, <2>t, <2>c
      DEF record_run, begin_holdout, assess_qualification, record_run_qualification, WorkerStops, ChargeStep
 <2>5. ASSUME NEW days \in Intervals, r \in Diagnostics, exclude_observed_interval(r, days, 0) PROVE ChargeStep
   <3>1. familyTrials' = familyTrials
     BY <2>5 DEF exclude_observed_interval, BudgetTypeOK
   <3>2. Charged' = Charged
     <4>1. \A t \in Tests : observations'[t] = observations[t]
       BY Zenon, <2>5, <2>k DEF exclude_observed_interval, BudgetTypeOK
     <4> QED
       BY Zenon, <2>5, <4>1 DEF exclude_observed_interval, Charged
   <3> QED
     BY Zenon, <2>5, <2>s, <2>t, <3>1, <3>2 DEF exclude_observed_interval, ChargeStep
 <2>6. ASSUME NEW days \in Intervals, r \in Tests, exclude_observed_interval(r, days, 1) PROVE ChargeStep
   <3>1. Spent' = Spent /\ computed' = computed
     BY Zenon, <2>6, <2>s, <2>t DEF exclude_observed_interval
   <3>2. CASE UNCHANGED <<observations, intervals, familyTrials>>
     BY Zenon, <2>6, <2>c, <3>1, <3>2 DEF exclude_observed_interval, ChargeStep
   <3>3. CASE /\ observations[r] = {} /\ observations' = [observations EXCEPT ![r] = days]
              /\ familyTrials' = familyTrials + 1
     <4>1. days # {} /\ observations'[r] = days
       BY Zenon, <2>6, <2>k, <3>3 DEF Intervals, BudgetTypeOK
     <4>2. \A t \in Tests \ {r} : observations'[t] = observations[t]
       BY Zenon, <2>k, <3>3 DEF BudgetTypeOK
     <4>3. reservation' = reservation
       BY Zenon, <2>6 DEF exclude_observed_interval
     <4>4. Charged[r] = 0 /\ Charged' = [Charged EXCEPT ![r] = 1]
       BY Zenon, <2>6, <3>3, <4>1, <4>2, <4>3 DEF Charged
     <4> QED
       BY Zenon, <3>1, <3>3, <4>4, 1 \in Nat DEF ChargeStep
   <3> QED
     BY Zenon, <2>6, <3>2, <3>3 DEF exclude_observed_interval
 <2>7. CASE r \in Diagnostics \cup Tests /\ Observe(r)
   <3>1. /\ worker[r].step = "marked" /\ worker'[r].trials = 1 /\ computed' = computed + (1 - worker[r].trials)
         /\ Charged' = Charged /\ familyTrials' = familyTrials
     BY Zenon, <2>7, <2>w, <2>c DEF Observe, WorkerType
   <3>2. Charged[r] = 1
     <4>1. CASE r \in Diagnostics
       BY Zenon, <2>k, <3>1, <4>1 DEF Charged, TrialsCharged, DiagnosticReserved
     <4>2. CASE r \in Tests
       BY Zenon, <2>7, <3>1, <4>2 DEF Charged, DaysSpokenFor
     <4> QED
       BY Zenon, <2>7, <4>1, <4>2
   <3>3. Spent[r] = worker[r].trials /\ worker[r].trials \in Nat /\ worker[r].trials <= 1
     BY Zenon, <2>w, <3>2 DEF Spent, TrialsCharged, WorkerType
   <3>4. CASE worker[r].trials = 1
     <4>1. computed' = computed
       BY <3>1, <3>4 DEF BudgetTypeOK
     <4> QED
       BY Zenon, <2>s, <3>1, <3>4, <4>1 DEF ChargeStep
   <3>5. CASE worker[r].trials = 0
     <4>1. computed' = computed + 1 /\ 0 < 1 /\ 0 + 1 = 1
       BY <3>1, <3>5
     <4>2. Spent' = [Spent EXCEPT ![r] = Spent[r] + 1]
       BY Zenon, <2>w, <3>1, <3>3, <3>5, <4>1 DEF Spent
     <4>3. Spent[r] < Charged[r]
       BY Zenon, <3>2, <3>3, <3>5, <4>1
     <4> QED
       BY Zenon, <3>1, <4>1, <4>2, <4>3 DEF ChargeStep
   <3> QED
     BY <3>3, <3>4, <3>5
 <2>8. 0 \in Nat /\ 1 \in Nat /\ Allowance \in Nat
   BY Zenon, BudgetAssumption
 <2> QED
   BY Zenon, <2>0, <2>1, <2>2, <2>3, <2>4, <2>5, <2>6, <2>7, <2>8, KindsOfRuns DEF BudgetStep
<1> QED
  BY Zenon, <1>a, <1>b

\* Charges and trials are counted in naturals.
LEMMA ChargesTyped == BudgetTypeOK => Charged \in [RunIds -> Nat] /\ Spent \in [RunIds -> Nat]
<1> SUFFICES ASSUME BudgetTypeOK PROVE Charged \in [RunIds -> Nat] /\ Spent \in [RunIds -> Nat]
  BY Zenon
<1>1. \A r \in RunIds : Charged[r] \in Nat
  <2>1. \A r \in RunIds : r \notin Tests => reservation[r] \in Nat
    BY Zenon, KindsOfRuns DEF BudgetTypeOK
  <2> QED
    BY Zenon, <2>1, 0 \in Nat, 1 \in Nat DEF Charged
<1>2. \A r \in RunIds : Spent[r] \in Nat
  BY Zenon DEF BudgetTypeOK, Spent, WorkerType
<1> QED
  BY Zenon, <1>1, <1>2 DEF Charged, Spent

\* Reserving, marking and reading of a diagnostic, each once (reserve_run, Observe).
LEMMA DiagnosticNext ==
    BudgetTypeOK /\ DiagnosticReserved /\ [BudgetNext]_budgetVars => DiagnosticReserved'
<1> SUFFICES ASSUME BudgetTypeOK, DiagnosticReserved, BudgetNext PROVE DiagnosticReserved'
  BY Zenon DEF budgetVars, DiagnosticReserved
<1>0. PICK r \in RunIds : BudgetStep(r)
  BY Zenon, BudgetSteps
<1>w. /\ worker[r] \in WorkerType /\ worker \in [RunIds -> WorkerType]
      /\ \A t \in RunIds \ {r} : worker'[t] = worker[t]
  BY Zenon, <1>0, WorkerNext DEF BudgetTypeOK
<1>k. \A t \in Diagnostics : t \in RunIds /\ t \in Studies \cup Diagnostics
  BY Zenon, KindsOfRuns
<1>s. ASSUME NEW step, worker' = Step(r, step)
      PROVE  worker'[r].step = step /\ worker'[r].trials = worker[r].trials
  BY Zenon, <1>s, <1>w DEF Step, WorkerType
<1>1. ASSUME r \notin Diagnostics, UNCHANGED reservation PROVE DiagnosticReserved'
  BY Zenon, <1>1, <1>w, <1>k DEF DiagnosticReserved
<1>2. ASSUME NEW n, r \in Studies, r \notin Diagnostics, reserve_run(r, n) PROVE DiagnosticReserved'
  <2>1. \A t \in Diagnostics : reservation'[t] = reservation[t]
    BY Zenon, <1>2, <1>k DEF reserve_run, BudgetTypeOK
  <2> QED
    BY Zenon, <1>2, <1>w, <1>k, <2>1 DEF DiagnosticReserved
<1>3. CASE r \in Diagnostics /\ reserve_run(r, 1)
  <2>1. /\ worker[r].step = "none" /\ worker'[r].step = "reserved" /\ worker'[r].trials = worker[r].trials
        /\ reservation'[r] = 1
    BY Zenon, <1>3, <1>s, <1>k DEF reserve_run, BudgetTypeOK
  <2>2. \A t \in Diagnostics \ {r} : reservation'[t] = reservation[t]
    BY Zenon, <1>3, <1>k DEF reserve_run, BudgetTypeOK
  <2> QED
    BY Zenon, <1>3, <1>w, <1>k, <2>1, <2>2 DEF DiagnosticReserved
<1>4. ASSUME NEW days, r \in Diagnostics, worker[r].step = "reserved", exclude_observed_interval(r, days, 0)
      PROVE  DiagnosticReserved'
  <2>1. worker'[r].step = "marked" /\ worker'[r].trials = worker[r].trials /\ UNCHANGED reservation
    BY Zenon, <1>4, <1>s DEF exclude_observed_interval
  <2> QED
    BY Zenon, <1>4, <1>w, <1>k, <2>1 DEF DiagnosticReserved
<1>5. CASE Observe(r)
  <2>1. worker'[r].step = "done" /\ UNCHANGED reservation
    BY Zenon, <1>5, <1>w DEF Observe, WorkerType
  <2> QED
    BY Zenon, <1>w, <1>k, <2>1 DEF DiagnosticReserved
<1>6. CASE WorkerStops(r)
  <2>1. worker'[r].step \in {"recorded", "stopped"} /\ UNCHANGED reservation
    BY Zenon, <1>6, <1>s DEF WorkerStops
  <2> QED
    BY Zenon, <1>w, <1>k, <2>1 DEF DiagnosticReserved
<1>7. ASSUME \/ r \in Studies /\ (download_bars(r) \/ Mine(r) \/ record_run(r))
             \/ r \in Studies /\ (begin_holdout(r) \/ assess_qualification(r) \/ record_run_qualification(r))
             \/ r \in Tests /\ \E days \in Intervals : exclude_observed_interval(r, days, 1)
      PROVE  UNCHANGED reservation /\ r \notin Diagnostics
  BY Zenon, <1>7, KindsOfRuns DEF download_bars, Mine, record_run, begin_holdout, assess_qualification,
       record_run_qualification, exclude_observed_interval
<1> QED
  BY Zenon, <1>0, <1>1, <1>2, <1>3, <1>4, <1>5, <1>6, <1>7, KindsOfRuns DEF BudgetStep

\* Trials are charged to the family's count before they are computed (reserve_run,
\* exclude_observed_interval).
LEMMA TrialsNext ==
    BudgetTypeOK /\ DaysSpokenFor /\ TrialsCharged /\ [BudgetNext]_budgetVars => TrialsCharged'
<1> SUFFICES ASSUME BudgetTypeOK, DaysSpokenFor, TrialsCharged, [BudgetNext]_budgetVars PROVE TrialsCharged'
  BY Zenon
<1>1. Charged \in [RunIds -> Nat] /\ Spent \in [RunIds -> Nat]
  BY ChargesTyped
<1>2. /\ IsFiniteSet(Tokens(RunIds, Charged)) /\ familyTrials = Cardinality(Tokens(RunIds, Charged))
      /\ IsFiniteSet(Tokens(RunIds, Spent)) /\ computed = Cardinality(Tokens(RunIds, Spent))
      /\ \A r \in RunIds : Spent[r] <= Charged[r]
  BY Zenon DEF TrialsCharged
<1>3. DiagnosticReserved'
  BY Zenon, DiagnosticNext DEF TrialsCharged
<1>4. CASE UNCHANGED <<familyTrials, computed>> /\ Charged' = Charged /\ Spent' = Spent
  BY Zenon, <1>2, <1>3, <1>4 DEF TrialsCharged, RunIds
<1>5. ASSUME NEW r \in RunIds, NEW n \in Nat, Charged[r] = 0,
             Charged' = [Charged EXCEPT ![r] = n], familyTrials' = familyTrials + n,
             computed' = computed, Spent' = Spent
      PROVE  TrialsCharged'
  <2>1. /\ Charged' \in [RunIds -> Nat] /\ Charged'[r] = Charged[r] + n
        /\ \A t \in RunIds \ {r} : Charged'[t] = Charged[t]
    BY <1>1, <1>5
  <2>2. /\ IsFiniteSet(Tokens(RunIds, Charged'))
        /\ Cardinality(Tokens(RunIds, Charged')) = Cardinality(Tokens(RunIds, Charged)) + n
    BY <1>1, <1>2, <2>1, TokensGrow, Zenon
  <2>3. \A t \in RunIds : Spent'[t] <= Charged'[t]
    BY <1>1, <1>2, <1>5
  <2>4. familyTrials' = Cardinality(Tokens(RunIds, Charged'))
    BY <1>2, <1>5, <2>2, Zenon
  <2>5. IsFiniteSet(Tokens(RunIds, Spent')) /\ computed' = Cardinality(Tokens(RunIds, Spent'))
    BY <1>2, <1>5, Zenon
  <2> QED
    BY Zenon, <1>3, <2>2, <2>3, <2>4, <2>5 DEF TrialsCharged, RunIds
<1>6. ASSUME NEW r \in RunIds, Spent[r] < Charged[r], Spent' = [Spent EXCEPT ![r] = Spent[r] + 1],
             computed' = computed + 1, familyTrials' = familyTrials, Charged' = Charged
      PROVE  TrialsCharged'
  <2>0. /\ Spent' \in [RunIds -> Nat] /\ Spent'[r] = Spent[r] + 1
        /\ \A t \in RunIds \ {r} : Spent'[t] = Spent[t]
    BY <1>1, <1>6
  <2>1. /\ IsFiniteSet(Tokens(RunIds, Spent'))
        /\ Cardinality(Tokens(RunIds, Spent')) = Cardinality(Tokens(RunIds, Spent)) + 1
    BY <1>1, <1>2, <2>0, TokensGrow, 1 \in Nat, Zenon
  <2>2. \A t \in RunIds : Spent'[t] <= Charged'[t]
    BY <1>1, <1>2, <1>6
  <2>3. computed' = Cardinality(Tokens(RunIds, Spent'))
    BY <1>2, <1>6, <2>1, Zenon
  <2>4. IsFiniteSet(Tokens(RunIds, Charged')) /\ familyTrials' = Cardinality(Tokens(RunIds, Charged'))
    BY <1>2, <1>6, Zenon
  <2> QED
    BY Zenon, <1>3, <2>1, <2>2, <2>3, <2>4 DEF TrialsCharged, RunIds
<1>7. ChargeStep
  BY Zenon, TrialsStep
<1> QED
  BY Zenon, <1>4, <1>5, <1>6, <1>7 DEF ChargeStep

\* "crashed trials cannot reread for free", for any number of runs, diagnostics, tests and days:
\* a holdout is consumed once, when no qualification, diagnostic or test has looked at any of its
\* days, nor its own mining, and judged by a count that covers every distinct trial computed until
\* then (reserve_run, begin_holdout, exclude_observed_interval).
THEOREM HoldoutIsUnseen == BudgetSpec => HoldoutUnseen
<1> DEFINE Unseen ==
      \A r \in Studies : consumption[r] # consumption'[r] =>
          /\ consumption[r] = NoConsumption
          /\ study[r].days \cap (seen \cup mined[r]) = {}
          /\ consumption'[r] >= computed
<1>1. BudgetInv /\ [BudgetNext]_budgetVars => BudgetInv'
  BY Zenon, BudgetTypeNext, DaysNext, MinedNext, TrialsNext DEF BudgetInv
<1>2. BudgetInv /\ [BudgetNext]_budgetVars => [Unseen]_budgetVars
  <2> SUFFICES ASSUME BudgetInv, BudgetNext PROVE Unseen
    BY Zenon
  <2>0. BudgetTypeOK /\ DaysSpokenFor /\ MinedApart /\ TrialsCharged
    BY Zenon DEF BudgetInv
  <2>1. computed <= familyTrials
    <3>1. Charged \in [RunIds -> Nat] /\ Spent \in [RunIds -> Nat]
      BY Zenon, <2>0, ChargesTyped
    <3>2. Cardinality(Tokens(RunIds, Spent)) <= Cardinality(Tokens(RunIds, Charged))
      BY <2>0, <3>1, TokensBound, Zenon DEF TrialsCharged
    <3> QED
      BY Zenon, <2>0, <3>2 DEF TrialsCharged
  <2> SUFFICES ASSUME NEW r \in Studies, consumption[r] # consumption'[r]
               PROVE  /\ consumption[r] = NoConsumption
                      /\ study[r].days \cap (seen \cup mined[r]) = {}
                      /\ consumption'[r] >= computed
    BY Zenon
  <2>2. begin_holdout(r)
    BY <2>0, Zenon DEF BudgetNext, BudgetTypeOK, reserve_run, download_bars, Mine, record_run, begin_holdout,
                assess_qualification, record_run_qualification, Observe, exclude_observed_interval, WorkerStops
  <2>3. worker[r].step = "recorded" /\ study[r] # NoStudy /\ study[r].days # {} /\ ~ Overlap(study[r].days)
    BY Zenon, <2>0, <2>2 DEF begin_holdout, DaysSpokenFor
  <2>4. study[r].days \cap seen = {}
    BY Zenon, <2>0, <2>3 DEF Overlap, DaysSpokenFor
  <2>a. study[r].days \cap mined[r] = {}
    BY Zenon, <2>0, <2>3 DEF MinedApart
  <2>b. study[r].days \cap (seen \cup mined[r]) = {}
    BY Zenon, <2>4, <2>a
  <2>5. consumption[r] = NoConsumption
    BY Zenon, <2>0, <2>3 DEF Overlap, DaysSpokenFor
  <2>6. consumption'[r] = familyTrials
    BY Zenon, <2>0, <2>2 DEF begin_holdout, BudgetTypeOK
  <2> QED
    BY Zenon, <2>0, <2>1, <2>b, <2>5, <2>6 DEF BudgetTypeOK
<1> QED
  BY <1>1, <1>2, BudgetInitInv, PTL DEF BudgetSpec, HoldoutUnseen

-----------------------------------------------------------------------------
(* Bounded reads: ProviderReads. *)

ReadFutures == {"pending", "running", "result", "error", "discarded", "cancelled"}
ReadType == [by : Callers, call : Nat, provider : Int, future : ReadFutures]
PlaceType == [step : {"idle", "calling", "waiting"}, call : Nat, provider : Int, attempt : Int, read : Nat]

ReadsTypeOK ==
    /\ slots \in Int
    /\ \E n \in Nat : reads \in [1..n -> ReadType]
    /\ caller \in [Callers -> PlaceType]

\* A call is named by the reads before it.
CallsNumbered ==
    /\ \A i \in DOMAIN reads : reads[i].call < i
    /\ \A k \in Callers : caller[k].call \in DOMAIN reads \cup {0}

\* A call under way has left its unfinished reads behind at earlier providers, but for the one
\* it waits for (Cascade: an unfinished read is not retried).
ReadsBehind(k) ==
    caller[k].step # "idle" =>
        \A i \in Unfinished :
            reads[i].by = k /\ reads[i].call = caller[k].call =>
                \/ reads[i].provider < caller[k].provider
                \/ caller[k].step = "waiting" /\ i = caller[k].read

\* Who waits waits for a read of its own call and provider.
WaitsForOwn(k) ==
    caller[k].step = "waiting" =>
        /\ caller[k].read \in DOMAIN reads
        /\ reads[caller[k].read].provider = caller[k].provider

ReadsInv ==
    /\ ReadsTypeOK /\ ReadsBounded /\ CallsNumbered
    /\ \A k \in Callers : ReadsBehind(k) /\ WaitsForOwn(k)

\* A caller with no call under way.
LEMMA NoCallIs == NoCall \in PlaceType /\ NoCall.step = "idle" /\ NoCall.call = 0
  BY SMTT(20) DEF NoCall, PlaceType, NoRead

\* Before any read every slot is free.
LEMMA ReadInitInv == ReadInit => ReadsInv
<1> SUFFICES ASSUME ReadInit PROVE ReadsInv
  BY Zenon
<1>1. reads \in [1..0 -> ReadType] /\ DOMAIN reads = {}
  BY DEF ReadInit
<1>2. Unfinished = {}
  BY Zenon, <1>1 DEF Unfinished, With
<1>3. Cardinality(Unfinished) = 0
  BY <1>2, FS_EmptySet, Zenon
<1>4. \A k \in Callers : caller[k] = NoCall
  BY Zenon DEF ReadInit
<1>5. NoCall \in PlaceType /\ NoCall.step = "idle" /\ NoCall.call = 0
  BY Zenon, NoCallIs
<1>6. ReadsTypeOK
  <2>1. caller \in [Callers -> PlaceType]
    BY Zenon, <1>5 DEF ReadInit
  <2> QED
    BY <1>1, <2>1, ReadAssumption DEF ReadInit, ReadsTypeOK
<1>7. ReadsBounded
  <2>1. slots = Workers /\ Workers \in Int
    BY ReadAssumption DEF ReadInit
  <2>2. slots + Cardinality(Unfinished) = Workers
    BY <1>3, <2>1
  <2> QED
    BY Zenon, <1>2, <2>2 DEF ReadsBounded
<1> QED
  BY Zenon, <1>1, <1>4, <1>5, <1>6, <1>7 DEF ReadsInv, CallsNumbered, ReadsBehind, WaitsForOwn

\* The reads are numbered from one, so there are as many as the last one's number.
LEMMA ReadsCounted ==
    ASSUME NEW n \in Nat, DOMAIN reads = 1..n
    PROVE  Cardinality(DOMAIN reads) = n /\ IsFiniteSet(Unfinished)
<1>1. IsFiniteSet(1..n) /\ Cardinality(1..n) = IF 1 > n THEN 0 ELSE n - 1 + 1
  BY FS_Interval
<1>2. Cardinality(DOMAIN reads) = n
  BY <1>1
<1>3. Unfinished \in SUBSET (1..n)
  BY Zenon DEF Unfinished, With
<1> QED
  BY <1>1, <1>2, <1>3, FS_Subset, Zenon

\* Where a failed call goes on: the next provider, or a retry at this one of what may be retried.
LEMMA CascadeIs ==
    ASSUME NEW place \in PlaceType, NEW error, NEW next, next = Cascade(place, error)
    PROVE  /\ next \in PlaceType /\ next.step \in {"idle", "calling"} /\ next.call \in {place.call, 0}
           /\ next.step = "calling" =>
                 /\ next.call = place.call
                 /\ next.provider > place.provider \/ (Retryable(error) /\ next.provider = place.provider)
<1> DEFINE calling == [place EXCEPT !.step = "calling"]
           again == [calling EXCEPT !.attempt = @ + 1]
           retry == [again EXCEPT !.read = NoRead]
           later == [calling EXCEPT !.provider = @ + 1]
           fresh == [later EXCEPT !.attempt = 0]
           other == [fresh EXCEPT !.read = NoRead]
<1>0. place.call \in Nat /\ place.provider \in Int /\ place.attempt \in Int
  BY Zenon DEF PlaceType
<1>1. \/ Retryable(error) /\ next = [place EXCEPT !.step = "calling", !.attempt = @ + 1, !.read = NoRead]
      \/ next = [place EXCEPT !.step = "calling", !.provider = @ + 1, !.attempt = 0, !.read = NoRead]
      \/ next = NoCall
  BY Zenon DEF Cascade
<1>2. /\ [place EXCEPT !.step = "calling", !.attempt = @ + 1, !.read = NoRead] = retry
      /\ [place EXCEPT !.step = "calling", !.provider = @ + 1, !.attempt = 0, !.read = NoRead] = other
  BY Zenon DEF PlaceType
<1>3. calling \in PlaceType /\ calling.step = "calling" /\ calling.call = place.call /\ calling.provider = place.provider
  BY Zenon DEF PlaceType
<1> HIDE DEF calling
<1>4. /\ again \in PlaceType /\ again.step = "calling" /\ again.call = place.call /\ again.provider = place.provider
      /\ later \in PlaceType /\ later.step = "calling" /\ later.call = place.call
      /\ later.provider = place.provider + 1
  BY <1>0, <1>3 DEF PlaceType
<1> HIDE DEF again, later
<1>5. fresh \in PlaceType /\ fresh.step = "calling" /\ fresh.call = place.call /\ fresh.provider = place.provider + 1
  BY <1>0, <1>4 DEF PlaceType
<1> HIDE DEF fresh
<1>6. /\ retry \in PlaceType /\ retry.step = "calling" /\ retry.call = place.call /\ retry.provider = place.provider
      /\ other \in PlaceType /\ other.step = "calling" /\ other.call = place.call
      /\ other.provider = place.provider + 1
  BY Zenon, <1>0, <1>4, <1>5 DEF PlaceType, NoRead
<1> HIDE DEF retry, other
<1>7. NoCall \in PlaceType /\ NoCall.step = "idle" /\ NoCall.call = 0
  BY Zenon, NoCallIs
<1>8. other.provider > place.provider
  BY <1>0, <1>6
<1>9. CASE next = other
  BY <1>6, <1>8, <1>9, Zenon
<1>10. CASE Retryable(error) /\ next = retry
  BY <1>6, <1>10, Zenon
<1>11. CASE next = NoCall
  BY Zenon, <1>7, <1>11
<1> QED
  BY <1>1, <1>2, <1>9, <1>10, <1>11, Zenon

\* A step that ends reads and moves callers on.
LEMMA ReadsStep ==
    ASSUME ReadsInv, NEW n \in Nat, reads \in [1..n -> ReadType], reads' \in [1..n -> ReadType], slots' \in Int,
           \A i \in 1..n : /\ reads'[i].by = reads[i].by /\ reads'[i].call = reads[i].call
                           /\ reads'[i].provider = reads[i].provider,
           Unfinished' \subseteq Unfinished, slots' + Cardinality(Unfinished') = Workers,
           caller' \in [Callers -> PlaceType],
           \A k \in Callers :
              \/ caller'[k] = caller[k]
              \/ /\ caller'[k].call \in 0..n /\ caller'[k].step \in {"idle", "calling"}
                 /\ caller'[k].step = "calling" =>
                       \A i \in Unfinished' : reads[i].by = k /\ reads[i].call = caller'[k].call =>
                                                  reads[i].provider < caller'[k].provider
    PROVE  ReadsInv'
<1>0. /\ CallsNumbered /\ ReadsBounded /\ DOMAIN reads = 1..n /\ DOMAIN reads' = 1..n
      /\ \A k \in Callers : ReadsBehind(k) /\ WaitsForOwn(k)
  BY Zenon DEF ReadsInv
<1>1. ReadsTypeOK'
  BY Zenon DEF ReadsTypeOK
<1>2. \A i \in Unfinished : i \in 1..n
  BY Zenon, <1>0 DEF Unfinished, With
<1>3. ReadsBounded'
  <2>1. ASSUME NEW i \in Unfinished', NEW j \in Unfinished', reads'[i].by = reads'[j].by,
               reads'[i].call = reads'[j].call, reads'[i].provider = reads'[j].provider
        PROVE  i = j
    <3>1. i \in Unfinished /\ j \in Unfinished /\ i \in 1..n /\ j \in 1..n
      BY Zenon, <1>2
    <3>2. reads[i].by = reads[j].by /\ reads[i].call = reads[j].call /\ reads[i].provider = reads[j].provider
      BY Zenon, <2>1, <3>1
    <3> QED
      BY Zenon, <1>0, <3>1, <3>2 DEF ReadsBounded
  <2> QED
    BY Zenon, <2>1 DEF ReadsBounded
<1>4. CallsNumbered'
  <2>1. \A i \in 1..n : reads'[i].call < i
    BY Zenon, <1>0 DEF CallsNumbered
  <2>2. \A k \in Callers : caller'[k].call \in 1..n \cup {0}
    <3>1. 0..n = 1..n \cup {0}
      OBVIOUS
    <3> QED
      BY Zenon, <1>0, <3>1 DEF CallsNumbered
  <2> QED
    BY Zenon, <1>0, <2>1, <2>2 DEF CallsNumbered
<1>5. ASSUME NEW k \in Callers PROVE ReadsBehind(k)' /\ WaitsForOwn(k)'
  <2>1. CASE caller'[k] = caller[k]
    <3>1. ReadsBehind(k)'
      <4> SUFFICES ASSUME caller'[k].step # "idle", NEW i \in Unfinished', reads'[i].by = k,
                          reads'[i].call = caller'[k].call
                   PROVE  \/ reads'[i].provider < caller'[k].provider
                          \/ caller'[k].step = "waiting" /\ i = caller'[k].read
        BY Zenon DEF ReadsBehind
      <4>1. i \in Unfinished /\ i \in 1..n
        BY Zenon, <1>2
      <4>2. reads[i].by = k /\ reads[i].call = caller[k].call /\ reads'[i].provider = reads[i].provider
        BY Zenon, <2>1, <4>1
      <4>3. ReadsBehind(k) /\ caller[k].step # "idle"
        BY Zenon, <1>0, <2>1
      <4>4. \/ reads[i].provider < caller[k].provider
            \/ caller[k].step = "waiting" /\ i = caller[k].read
        BY Zenon, <4>1, <4>2, <4>3 DEF ReadsBehind
      <4> QED
        BY Zenon, <2>1, <4>2, <4>4
    <3>2. WaitsForOwn(k)'
      BY Zenon, <1>0, <2>1 DEF WaitsForOwn
    <3> QED
      BY Zenon, <3>1, <3>2
  <2>2. CASE caller'[k] # caller[k]
    BY Zenon, <1>0, <1>2, <2>2 DEF ReadsBehind, WaitsForOwn
  <2> QED
    BY Zenon, <2>1, <2>2
<1> QED
  BY Zenon, <1>1, <1>3, <1>4, <1>5 DEF ReadsInv

\* A caller whose call ends, or goes on after an error that it may retry only without a read that
\* is still unfinished.
LEMMA CallerMoves ==
    ASSUME ReadsInv, NEW n \in Nat, reads \in [1..n -> ReadType], NEW k \in Callers, NEW error,
           \/ caller' = [caller EXCEPT ![k] = NoCall]
           \/ /\ caller' = [caller EXCEPT ![k] = Cascade(caller[k], error)]
              /\ Retryable(error) /\ caller[k].step = "waiting" => caller[k].read \notin Unfinished',
           caller[k].step # "idle", Unfinished' \subseteq Unfinished
    PROVE  /\ caller' \in [Callers -> PlaceType]
           /\ \A c \in Callers :
                 \/ caller'[c] = caller[c]
                 \/ /\ caller'[c].call \in 0..n /\ caller'[c].step \in {"idle", "calling"}
                    /\ caller'[c].step = "calling" =>
                          \A i \in Unfinished' : reads[i].by = c /\ reads[i].call = caller'[c].call =>
                                                     reads[i].provider < caller'[c].provider
<1>0. /\ caller \in [Callers -> PlaceType] /\ caller[k] \in PlaceType /\ DOMAIN reads = 1..n
      /\ ReadsBehind(k) /\ WaitsForOwn(k) /\ caller[k].call \in DOMAIN reads \cup {0}
  BY Zenon DEF ReadsInv, ReadsTypeOK, CallsNumbered
<1>1. NoCall \in PlaceType /\ NoCall.step = "idle" /\ NoCall.call = 0
  BY Zenon, NoCallIs
<1>2. CASE caller' = [caller EXCEPT ![k] = NoCall]
  <2>1. caller' \in [Callers -> PlaceType] /\ \A c \in Callers : caller'[c] = IF c = k THEN NoCall ELSE caller[c]
    BY Zenon, <1>0, <1>1, <1>2
  <2>2. NoCall.call \in 0..n
    BY <1>1
  <2> QED
    BY Zenon, <1>1, <2>1, <2>2
<1>3. CASE /\ caller' = [caller EXCEPT ![k] = Cascade(caller[k], error)]
           /\ Retryable(error) /\ caller[k].step = "waiting" => caller[k].read \notin Unfinished'
  <2>1. PICK next : next = Cascade(caller[k], error)
    BY Zenon
  <2>2. /\ next \in PlaceType /\ next.step \in {"idle", "calling"} /\ next.call \in {caller[k].call, 0}
        /\ next.step = "calling" =>
              /\ next.call = caller[k].call
              /\ next.provider > caller[k].provider \/ (Retryable(error) /\ next.provider = caller[k].provider)
    <3>1. caller[k] \in PlaceType
      BY Zenon, <1>0
    <3> QED
      BY <2>1, <3>1, CascadeIs, ZenonT(30)
  <2>3. caller' = [caller EXCEPT ![k] = next]
    BY <1>3, <2>1, Zenon
  <2>4. \A c \in Callers : caller'[c] = IF c = k THEN next ELSE caller[c]
    BY Zenon, <1>0, <2>3
  <2>5. caller' \in [Callers -> PlaceType]
    BY Zenon, <1>0, <2>2, <2>3
  <2>6. ASSUME NEW i \in Unfinished', reads[i].by = k, reads[i].call = next.call, next.step = "calling"
        PROVE  reads[i].provider < next.provider
    <3>1. i \in Unfinished /\ i \in 1..n /\ reads[i].provider \in Int
      BY Zenon, <1>0 DEF Unfinished, With, ReadType
    <3>2. /\ caller[k].provider \in Int /\ next.provider \in Int
          /\ next.provider > caller[k].provider \/ next.provider = caller[k].provider
      BY Zenon, <1>0, <2>2, <2>6 DEF PlaceType
    <3>3. \/ reads[i].provider < caller[k].provider
          \/ caller[k].step = "waiting" /\ i = caller[k].read
      BY Zenon, <1>0, <2>2, <2>6, <3>1 DEF ReadsBehind
    <3>4. CASE reads[i].provider < caller[k].provider
      BY <3>1, <3>2, <3>4
    <3>5. CASE caller[k].step = "waiting" /\ i = caller[k].read
      <4>1. reads[i].provider = caller[k].provider
        BY Zenon, <1>0, <3>5 DEF WaitsForOwn
      <4>2. ~ Retryable(error)
        BY <1>3, <2>6, <3>5, Zenon
      <4>3. next.provider > caller[k].provider
        BY <2>2, <2>6, <4>2, Zenon
      <4> QED
        BY Zenon, <3>1, <3>2, <4>1, <4>3
    <3> QED
      BY Zenon, <3>3, <3>4, <3>5
  <2>7. next.call \in 0..n
    BY <1>0, <2>2
  <2> QED
    BY Zenon, <2>2, <2>4, <2>5, <2>6, <2>7
<1> QED
  BY Zenon, <1>2, <1>3

\* A step that leaves the reads: a call begins, is refused, or has its answer.
LEMMA CallerStep ==
    ASSUME ReadsInv, NEW k \in Callers,
           invoke(k) \/ ReadReturns(k) \/ (submit(k) /\ UNCHANGED <<slots, reads>>)
    PROVE  ReadsInv'
<1>0. ReadsTypeOK /\ ReadsBounded /\ CallsNumbered /\ WaitsForOwn(k)
  BY Zenon DEF ReadsInv
<1>1. PICK n \in Nat : reads \in [1..n -> ReadType]
  BY Zenon, <1>0 DEF ReadsTypeOK
<1>2. UNCHANGED <<slots, reads>>
  BY Zenon DEF invoke, ReadReturns
<1>3. Unfinished' = Unfinished
  BY Zenon, <1>2 DEF Unfinished, With
<1>4. slots' \in Int /\ slots' + Cardinality(Unfinished') = Workers
  BY Zenon, <1>0, <1>2, <1>3 DEF ReadsTypeOK, ReadsBounded
<1>5. /\ caller' \in [Callers -> PlaceType]
      /\ \A c \in Callers :
            \/ caller'[c] = caller[c]
            \/ /\ caller'[c].call \in 0..n /\ caller'[c].step \in {"idle", "calling"}
               /\ caller'[c].step = "calling" =>
                     \A i \in Unfinished' : reads[i].by = c /\ reads[i].call = caller'[c].call =>
                                                reads[i].provider < caller'[c].provider
  <2>1. CASE invoke(k)
    <3> DEFINE half == [NoCall EXCEPT !.step = "calling"]
               new == [half EXCEPT !.call = n]
    <3>1. caller' = [caller EXCEPT ![k] = [NoCall EXCEPT !.step = "calling", !.call = n]]
      BY Zenon, <1>1, <2>1, ReadsCounted DEF invoke
    <3>2. half \in PlaceType /\ half.step = "calling"
      BY DEF NoCall, PlaceType, NoRead
    <3>3. caller' = [caller EXCEPT ![k] = new]
      BY Zenon, <3>1 DEF NoCall
    <3> HIDE DEF half
    <3>4. new \in PlaceType /\ new.step = "calling" /\ new.call = n
      BY Zenon, <3>2 DEF PlaceType
    <3> HIDE DEF new
    <3>5. \A c \in Callers : caller'[c] = IF c = k THEN new ELSE caller[c]
      BY Zenon, <1>0, <3>3 DEF ReadsTypeOK
    <3>6. \A i \in Unfinished' : reads[i].call < n /\ reads[i].call \in Int
      <4> SUFFICES ASSUME NEW i \in Unfinished' PROVE reads[i].call < n /\ reads[i].call \in Int
        BY Zenon
      <4>1. i \in DOMAIN reads
        BY Zenon, <1>3 DEF Unfinished, With
      <4>2. i \in 1..n /\ reads[i] \in ReadType
        BY Zenon, <1>1, <4>1
      <4>3. reads[i].call < i /\ reads[i].call \in Nat
        BY Zenon, <1>0, <4>1, <4>2 DEF CallsNumbered, ReadType
      <4> QED
        BY <4>2, <4>3
    <3>7. caller' \in [Callers -> PlaceType]
      BY Zenon, <1>0, <3>3, <3>4 DEF ReadsTypeOK
    <3>8. n \in 0..n /\ \A i \in Unfinished' : reads[i].call # n
      BY <3>6
    <3> QED
      BY Zenon, <3>4, <3>5, <3>7, <3>8
  <2>2. CASE ReadReturns(k)
    <3>1. /\ caller[k].step = "waiting" /\ caller[k].read \notin Unfinished
          /\ \/ caller' = [caller EXCEPT ![k] = NoCall]
             \/ caller' = [caller EXCEPT ![k] = Cascade(caller[k], "failed")]
      BY <2>2, Zenon DEF ReadReturns
    <3>2. caller[k].step # "idle"
      BY Zenon, <3>1
    <3> QED
      BY <1>1, <1>3, <3>1, <3>2, CallerMoves, Zenon
  <2>3. CASE submit(k) /\ UNCHANGED <<slots, reads>>
    <3>0. slots' # slots - 1
      BY <1>0, <2>3 DEF ReadsTypeOK
    <3>1. /\ caller[k].step = "calling"
          /\ \/ caller' = [caller EXCEPT ![k] = Cascade(caller[k], "capacity")]
             \/ caller' = [caller EXCEPT ![k] = Cascade(caller[k], "failed")]
      BY <2>3, <3>0, Zenon DEF submit
    <3>2. caller[k].step # "idle" /\ caller[k].step # "waiting"
      BY Zenon, <3>1
    <3> QED
      BY <1>1, <1>3, <3>1, <3>2, CallerMoves, Zenon
  <2> QED
    BY Zenon, <2>1, <2>2, <2>3
<1> QED
  BY Zenon, <1>1, <1>2, <1>3, <1>4, <1>5, ReadsStep

\* One future changes its state.
LEMMA OneRead ==
    ASSUME NEW n \in Nat, reads \in [1..n -> ReadType], NEW i \in 1..n, NEW f \in ReadFutures,
           reads' = [reads EXCEPT ![i].future = f]
    PROVE  /\ reads' \in [1..n -> ReadType]
           /\ \A j \in 1..n : /\ reads'[j].by = reads[j].by /\ reads'[j].call = reads[j].call
                              /\ reads'[j].provider = reads[j].provider
           /\ f = "running" => Unfinished' = Unfinished \cup {i}
           /\ f \notin {"pending", "running"} => Unfinished' = Unfinished \ {i}
           /\ f = reads[i].future => Unfinished' = Unfinished
<1> DEFINE new == [reads[i] EXCEPT !.future = f]
<1>1. reads' = [reads EXCEPT ![i] = new]
  BY Zenon
<1>2. /\ new \in ReadType /\ new.by = reads[i].by /\ new.call = reads[i].call
      /\ new.provider = reads[i].provider /\ new.future = f
  BY Zenon DEF ReadType
<1> HIDE DEF new
<1>3. \A j \in 1..n : reads'[j] = IF j = i THEN new ELSE reads[j]
  BY Zenon, <1>1
<1>4. reads' \in [1..n -> ReadType]
  BY Zenon, <1>1, <1>2
<1>5. DOMAIN reads = 1..n /\ DOMAIN reads' = 1..n
  BY Zenon, <1>4
<1>6. \A j : j \in Unfinished' <=> j \in 1..n /\ reads'[j].future \in {"pending", "running"}
  BY Zenon, <1>5 DEF Unfinished, With
<1>7. \A j : j \in Unfinished <=> j \in 1..n /\ reads[j].future \in {"pending", "running"}
  BY Zenon, <1>5 DEF Unfinished, With
<1>8. \A j \in 1..n : reads'[j].future = IF j = i THEN f ELSE reads[j].future
  BY <1>2, <1>3
<1>9. /\ f = "running" => Unfinished' = Unfinished \cup {i}
      /\ f \notin {"pending", "running"} => Unfinished' = Unfinished \ {i}
      /\ f = reads[i].future => Unfinished' = Unfinished
  BY Zenon, <1>6, <1>7, <1>8
<1> QED
  BY Zenon, <1>2, <1>3, <1>4, <1>9

\* A read that ends gives its one slot back.
LEMMA SlotBack ==
    ASSUME ReadsInv, NEW n \in Nat, reads \in [1..n -> ReadType], NEW i \in Unfinished,
           Unfinished' = Unfinished \ {i}, slots' = slots + 1
    PROVE  slots' \in Int /\ slots' + Cardinality(Unfinished') = Workers
<1>1. IsFiniteSet(Unfinished)
  BY Zenon, ReadsCounted
<1>2. Cardinality(Unfinished \ {i}) = Cardinality(Unfinished) - 1 /\ Cardinality(Unfinished) \in Nat
  BY Zenon, <1>1, FS_RemoveElement, FS_CardinalityType
<1> QED
  BY <1>2 DEF ReadsInv, ReadsTypeOK, ReadsBounded

\* A thread takes a read, or ends one: nobody moves.
LEMMA ThreadStep ==
    ASSUME ReadsInv, NEW i \in DOMAIN reads, ThreadStarts(i) \/ ThreadFinishes(i)
    PROVE  ReadsInv'
<1>0. ReadsTypeOK /\ ReadsBounded
  BY Zenon DEF ReadsInv
<1>1. PICK n \in Nat : reads \in [1..n -> ReadType]
  BY Zenon, <1>0 DEF ReadsTypeOK
<1>2. i \in 1..n /\ UNCHANGED caller /\ i \in Unfinished
  BY Zenon, <1>1 DEF ThreadStarts, ThreadFinishes, Unfinished
<1>3. PICK f \in ReadFutures :
         /\ reads' = [reads EXCEPT ![i].future = f]
         /\ \/ f = "running" /\ slots' = slots
            \/ f \notin {"pending", "running"} /\ slots' = slots + 1
  <2>1. CASE ThreadStarts(i)
    BY Zenon, <2>1 DEF ThreadStarts, ReadFutures
  <2>2. CASE ThreadFinishes(i)
    <3>1. PICK f : f \in {"result", "error", "discarded"} /\ reads' = [reads EXCEPT ![i].future = f]
      BY <2>2, Zenon DEF ThreadFinishes
    <3>2. slots' = slots + 1
      BY Zenon, <2>2 DEF ThreadFinishes
    <3> QED
      BY Zenon, <3>1, <3>2 DEF ReadFutures
  <2> QED
    BY Zenon, <2>1, <2>2
<1>4. /\ reads' \in [1..n -> ReadType]
      /\ \A j \in 1..n : /\ reads'[j].by = reads[j].by /\ reads'[j].call = reads[j].call
                         /\ reads'[j].provider = reads[j].provider
      /\ f = "running" => Unfinished' = Unfinished \cup {i}
      /\ f \notin {"pending", "running"} => Unfinished' = Unfinished \ {i}
  BY Zenon, <1>1, <1>2, <1>3, OneRead
<1>5. Unfinished' \subseteq Unfinished /\ slots' \in Int /\ slots' + Cardinality(Unfinished') = Workers
  <2>1. CASE f = "running" /\ slots' = slots
    <3>1. Unfinished' = Unfinished
      BY Zenon, <1>2, <1>4, <2>1
    <3> QED
      BY Zenon, <1>0, <2>1, <3>1 DEF ReadsTypeOK, ReadsBounded
  <2>2. CASE f \notin {"pending", "running"} /\ slots' = slots + 1
    BY Zenon, <1>1, <1>2, <1>4, <2>2, SlotBack
  <2> QED
    BY Zenon, <1>3, <2>1, <2>2
<1>6. caller' \in [Callers -> PlaceType] /\ \A k \in Callers : caller'[k] = caller[k]
  BY Zenon, <1>0, <1>2 DEF ReadsTypeOK
<1> QED
  BY Zenon, <1>1, <1>4, <1>5, <1>6, ReadsStep

\* A caller gives up a read: no thread takes it any more, and one that runs keeps its slot.
LEMMA GivesUpStep ==
    ASSUME ReadsInv, NEW k \in Callers, ReadTimesOut(k) \/ CallerCancelled(k)
    PROVE  ReadsInv'
<1>0. ReadsTypeOK /\ ReadsBounded /\ WaitsForOwn(k)
  BY Zenon DEF ReadsInv
<1>1. PICK n \in Nat : reads \in [1..n -> ReadType]
  BY Zenon, <1>0 DEF ReadsTypeOK
<1> DEFINE i == caller[k].read
<1>2. caller[k].step = "waiting" /\ i \in 1..n /\ Discarded(i)
  BY Zenon, <1>0, <1>1 DEF ReadTimesOut, CallerCancelled, WaitsForOwn
<1> HIDE DEF i
<1>3. /\ reads' \in [1..n -> ReadType]
      /\ \A j \in 1..n : /\ reads'[j].by = reads[j].by /\ reads'[j].call = reads[j].call
                         /\ reads'[j].provider = reads[j].provider
      /\ Unfinished' \subseteq Unfinished /\ slots' \in Int /\ slots' + Cardinality(Unfinished') = Workers
  <2>1. CASE reads[i].future = "pending"
    <3>1. reads' = [reads EXCEPT ![i].future = "cancelled"] /\ slots' = slots + 1
      BY Zenon, <1>1, <1>2, <2>1 DEF Discarded
    <3>2. i \in Unfinished
      BY Zenon, <1>1, <1>2, <2>1 DEF Unfinished, With
    <3>3. "cancelled" \in ReadFutures /\ "cancelled" \notin {"pending", "running"}
      BY Zenon DEF ReadFutures
    <3>4. /\ reads' \in [1..n -> ReadType]
          /\ \A j \in 1..n : /\ reads'[j].by = reads[j].by /\ reads'[j].call = reads[j].call
                             /\ reads'[j].provider = reads[j].provider
          /\ Unfinished' = Unfinished \ {i}
      BY Zenon, <1>1, <1>2, <3>1, <3>3, OneRead
    <3>5. slots' \in Int /\ slots' + Cardinality(Unfinished') = Workers
      BY Zenon, <1>1, <3>1, <3>2, <3>4, SlotBack
    <3> QED
      BY Zenon, <3>4, <3>5
  <2>2. CASE reads[i].future # "pending"
    <3>1. reads' = reads /\ slots' = slots
      BY Zenon, <1>1, <1>2, <2>2 DEF Discarded, ReadType
    <3>2. Unfinished' = Unfinished
      BY Zenon, <3>1 DEF Unfinished, With
    <3> QED
      BY Zenon, <1>0, <1>1, <3>1, <3>2 DEF ReadsTypeOK, ReadsBounded
  <2> QED
    BY Zenon, <2>1, <2>2
<1>4. PICK error :
         \/ caller' = [caller EXCEPT ![k] = NoCall]
         \/ /\ caller' = [caller EXCEPT ![k] = Cascade(caller[k], error)]
            /\ i \in Unfinished => error = "deadline"
  <2>1. CASE CallerCancelled(k)
    BY Zenon, <2>1 DEF CallerCancelled
  <2>2. CASE ReadTimesOut(k)
    BY <2>2, Zenon DEF ReadTimesOut, i
  <2> QED
    BY Zenon, <2>1, <2>2
<1>5. error = "deadline" => ~ Retryable(error)
  BY Zenon DEF Retryable
<1>6. i \in Unfinished' => i \in Unfinished
  BY Zenon, <1>3
<1>7. \/ caller' = [caller EXCEPT ![k] = NoCall]
      \/ /\ caller' = [caller EXCEPT ![k] = Cascade(caller[k], error)]
         /\ Retryable(error) /\ caller[k].step = "waiting" => caller[k].read \notin Unfinished'
  BY <1>4, <1>5, <1>6, Zenon DEF i
<1>8. caller[k].step # "idle"
  BY Zenon, <1>2
<1>9. /\ caller' \in [Callers -> PlaceType]
      /\ \A c \in Callers :
            \/ caller'[c] = caller[c]
            \/ /\ caller'[c].call \in 0..n /\ caller'[c].step \in {"idle", "calling"}
               /\ caller'[c].step = "calling" =>
                     \A j \in Unfinished' : reads[j].by = c /\ reads[j].call = caller'[c].call =>
                                                reads[j].provider < caller'[c].provider
  BY <1>1, <1>3, <1>7, <1>8, CallerMoves, Zenon
<1> QED
  BY Zenon, <1>1, <1>3, <1>9, ReadsStep

\* The pool is shut down: each read no thread has taken gives its slot back.
LEMMA ShutdownStep == ReadsInv /\ shutdown => ReadsInv'
<1> SUFFICES ASSUME ReadsInv, shutdown PROVE ReadsInv'
  BY Zenon
<1>0. ReadsTypeOK /\ ReadsBounded
  BY Zenon DEF ReadsInv
<1>1. PICK n \in Nat : reads \in [1..n -> ReadType]
  BY Zenon, <1>0 DEF ReadsTypeOK
<1>2. /\ reads' = [i \in 1..n |-> IF i \in With("pending") THEN [reads[i] EXCEPT !.future = "cancelled"] ELSE reads[i]]
      /\ slots' = slots + Cardinality(With("pending")) /\ UNCHANGED caller
  BY Zenon, <1>1 DEF shutdown
<1>3. ASSUME NEW i \in 1..n
      PROVE  /\ reads'[i] \in ReadType /\ reads'[i].by = reads[i].by /\ reads'[i].call = reads[i].call
             /\ reads'[i].provider = reads[i].provider
             /\ reads'[i].future = IF reads[i].future = "pending" THEN "cancelled" ELSE reads[i].future
  <2>1. CASE reads[i].future = "pending"
    BY Zenon, <1>1, <1>2, <2>1 DEF With, ReadType, ReadFutures
  <2>2. CASE reads[i].future # "pending"
    BY Zenon, <1>1, <1>2, <2>2 DEF With
  <2> QED
    BY Zenon, <2>1, <2>2
<1>4. reads' \in [1..n -> ReadType] /\ DOMAIN reads = 1..n /\ DOMAIN reads' = 1..n
  BY Zenon, <1>1, <1>2, <1>3
<1>5. Unfinished' = With("running") /\ With("pending") \cap With("running") = {}
  BY Zenon, <1>3, <1>4 DEF Unfinished, With
<1>6. IsFiniteSet(With("pending")) /\ IsFiniteSet(With("running"))
  <2>1. IsFiniteSet(Unfinished) /\ With("pending") \in SUBSET Unfinished /\ With("running") \in SUBSET Unfinished
    BY Zenon, <1>4, ReadsCounted DEF Unfinished
  <2> QED
    BY <2>1, FS_Subset, Zenon
<1>7. /\ Cardinality(Unfinished) = Cardinality(With("pending")) + Cardinality(With("running"))
                                   - Cardinality(With("pending") \cap With("running"))
      /\ Cardinality(With("pending") \cap With("running")) = 0
  <2>1. Cardinality(With("pending") \cup With("running")) =
           Cardinality(With("pending")) + Cardinality(With("running")) - Cardinality(With("pending") \cap With("running"))
    BY <1>6, FS_Union, Zenon
  <2>2. Cardinality(With("pending") \cap With("running")) = 0
    BY <1>5, FS_EmptySet, Zenon
  <2> QED
    BY <2>1, <2>2, Zenon DEF Unfinished
<1>8. Cardinality(With("pending")) \in Nat /\ Cardinality(With("running")) \in Nat
  BY <1>6, FS_CardinalityType, Zenon
<1>9. slots' \in Int /\ slots' + Cardinality(Unfinished') = Workers
  BY <1>0, <1>2, <1>5, <1>7, <1>8 DEF ReadsTypeOK, ReadsBounded
<1>10. Unfinished' \subseteq Unfinished
  BY Zenon, <1>5 DEF Unfinished
<1>11. caller' \in [Callers -> PlaceType] /\ \A k \in Callers : caller'[k] = caller[k]
  BY Zenon, <1>0, <1>2 DEF ReadsTypeOK
<1> QED
  BY Zenon, <1>1, <1>3, <1>4, <1>9, <1>10, <1>11, ReadsStep

\* A read is accepted: it takes a slot, and its call has no other unfinished read at its provider.
LEMMA AcceptedStep ==
    ASSUME ReadsInv, NEW k \in Callers, caller[k].step = "calling",
           NEW n \in Nat, NEW m \in Nat, m = n + 1, reads \in [1..n -> ReadType], slots' = slots - 1,
           reads' = [j \in 1..m |-> IF j < m THEN reads[j] ELSE
              [by |-> k, call |-> caller[k].call, provider |-> caller[k].provider, future |-> "pending"]],
           caller' = [caller EXCEPT ![k].step = "waiting", ![k].read = m]
    PROVE  ReadsInv'
<1> DEFINE new == [by |-> k, call |-> caller[k].call, provider |-> caller[k].provider, future |-> "pending"]
           half == [caller[k] EXCEPT !.step = "waiting"]
           place == [half EXCEPT !.read = m]
<1>0. /\ ReadsTypeOK /\ ReadsBounded /\ CallsNumbered /\ DOMAIN reads = 1..n
      /\ \A c \in Callers : ReadsBehind(c) /\ WaitsForOwn(c)
  BY Zenon DEF ReadsInv
<1>1. caller \in [Callers -> PlaceType] /\ caller[k] \in PlaceType /\ caller[k].call \in 0..n
  BY <1>0 DEF ReadsTypeOK, CallsNumbered
<1>2. /\ new \in ReadType /\ new.by = k /\ new.call = caller[k].call /\ new.provider = caller[k].provider
      /\ new.future = "pending"
  BY Zenon, <1>1 DEF ReadType, PlaceType, ReadFutures
<1>3. caller' = [caller EXCEPT ![k] = place]
  BY Zenon, <1>1 DEF PlaceType
<1>4. half \in PlaceType /\ half.step = "waiting" /\ half.call = caller[k].call /\ half.provider = caller[k].provider
  BY Zenon, <1>1 DEF PlaceType
<1> HIDE DEF half
<1>5. /\ place \in PlaceType /\ place.step = "waiting" /\ place.call = caller[k].call
      /\ place.provider = caller[k].provider /\ place.read = m
  BY Zenon, <1>0, <1>4 DEF PlaceType
<1> HIDE DEF place
<1>6. /\ DOMAIN reads' = 1..m /\ reads'[m] = new
      /\ \A j \in 1..n : reads'[j] = reads[j] /\ j \in 1..m /\ j < m
  OBVIOUS
<1> HIDE DEF new
<1>7. \A j \in 1..m : j \in 1..n \/ j = m
  OBVIOUS
<1>8. reads' \in [1..m -> ReadType]
  <2>1. \A j \in 1..m : reads'[j] \in ReadType
    BY Zenon, <1>2, <1>6, <1>7
  <2> QED
    BY Zenon, <2>1
<1>9. \A c \in Callers : caller'[c] = IF c = k THEN place ELSE caller[c]
  BY Zenon, <1>1, <1>3
<1>10. m \notin 1..n /\ m \in 1..m
  OBVIOUS
<1>11. Unfinished' = Unfinished \cup {m} /\ m \notin Unfinished
  <2>1. \A j : j \in Unfinished' <=> j \in 1..m /\ reads'[j].future \in {"pending", "running"}
    BY Zenon, <1>6 DEF Unfinished, With
  <2>2. \A j : j \in Unfinished <=> j \in 1..n /\ reads[j].future \in {"pending", "running"}
    BY Zenon, <1>0 DEF Unfinished, With
  <2>3. m \in Unfinished' /\ m \notin Unfinished
    <3>1. reads'[m].future = "pending"
      BY Zenon, <1>2, <1>6
    <3> QED
      BY <1>10, <2>1, <2>2, <3>1, Zenon
  <2>4. \A j \in 1..n : reads'[j].future = reads[j].future
    BY Zenon, <1>6
  <2> QED
    <3>1. ASSUME NEW j PROVE j \in Unfinished' <=> j \in Unfinished \/ j = m
      <4>1. CASE j \in 1..n
        <5>1. j \in 1..m /\ j # m
          BY Zenon, <1>6, <1>10, <4>1
        <5> QED
          BY <2>1, <2>2, <2>4, <4>1, <5>1, Zenon
      <4>2. CASE j = m
        BY <2>3, <4>2, Zenon
      <4>3. CASE j \notin 1..n /\ j # m
        BY <1>7, <2>1, <2>2, <4>3, Zenon
      <4> QED
        BY Zenon, <4>1, <4>2, <4>3
    <3> QED
      BY <2>3, <3>1, Zenon
<1>12. ReadsTypeOK'
  <2>1. slots' \in Int
    BY <1>0 DEF ReadsTypeOK
  <2>2. caller' \in [Callers -> PlaceType]
    BY Zenon, <1>1, <1>3, <1>5
  <2> QED
    BY Zenon, <1>0, <1>8, <2>1, <2>2 DEF ReadsTypeOK
<1>13. ReadsBounded'
  <2>1. slots' + Cardinality(Unfinished') = Workers
    <3>1. IsFiniteSet(Unfinished)
      BY Zenon, <1>0, ReadsCounted
    <3>2. Cardinality(Unfinished \cup {m}) = Cardinality(Unfinished) + 1 /\ Cardinality(Unfinished) \in Nat
      BY Zenon, <1>11, <3>1, FS_AddElement, FS_CardinalityType
    <3> QED
      BY <1>0, <1>11, <3>2 DEF ReadsBounded, ReadsTypeOK
  <2>2. ASSUME NEW i \in Unfinished, reads[i].by = k, reads[i].call = caller[k].call,
               reads[i].provider = caller[k].provider
        PROVE  FALSE
    <3>1. reads[i].provider < caller[k].provider
      BY Zenon, <1>0, <2>2 DEF ReadsBehind
    <3> QED
      BY <1>1, <2>2, <3>1 DEF PlaceType
  <2>3. \A i \in Unfinished : i \in 1..n /\ reads'[i] = reads[i]
    BY Zenon, <1>0, <1>6 DEF Unfinished, With
  <2>4. ASSUME NEW i \in Unfinished', NEW j \in Unfinished',
               reads'[i].by = reads'[j].by, reads'[i].call = reads'[j].call,
               reads'[i].provider = reads'[j].provider
        PROVE  i = j
    <3>1. CASE i \in Unfinished /\ j \in Unfinished
      <4>1. reads'[i] = reads[i] /\ reads'[j] = reads[j]
        BY Zenon, <2>3, <3>1
      <4> QED
        BY <1>0, <2>4, <3>1, <4>1 DEF ReadsBounded
    <3>2. CASE i \in Unfinished /\ j = m
      BY <1>2, <1>6, <2>2, <2>3, <2>4, <3>2
    <3>3. CASE j \in Unfinished /\ i = m
      BY <1>2, <1>6, <2>2, <2>3, <2>4, <3>3
    <3> QED
      BY Zenon, <1>11, <3>1, <3>2, <3>3
  <2> QED
    BY Zenon, <2>1, <2>4 DEF ReadsBounded
<1>14. CallsNumbered'
  <2>1. \A i \in 1..m : reads'[i].call < i
    BY <1>0, <1>1, <1>2, <1>6, <1>7 DEF CallsNumbered
  <2>2. \A c \in Callers : caller'[c].call \in 1..m \cup {0}
    <3>1. \A c \in Callers : caller[c].call \in 1..n \cup {0}
      BY Zenon, <1>0 DEF CallsNumbered
    <3>2. \A c \in Callers : caller'[c].call = caller[c].call
      BY Zenon, <1>5, <1>9
    <3>3. 1..n \subseteq 1..m
      OBVIOUS
    <3> QED
      BY <3>1, <3>2, <3>3, Zenon
  <2> QED
    BY Zenon, <1>6, <2>1, <2>2 DEF CallsNumbered
<1>15. ASSUME NEW c \in Callers PROVE ReadsBehind(c)' /\ WaitsForOwn(c)'
  <2>1. \A i \in Unfinished : i \in 1..n /\ reads'[i] = reads[i]
    BY Zenon, <1>0, <1>6 DEF Unfinished, With
  <2>2. CASE c = k
    <3>1. caller'[c] = place
      BY Zenon, <1>9, <2>2
    <3>2. ASSUME NEW i \in Unfinished, reads'[i].by = k, reads'[i].call = place.call
          PROVE  reads'[i].provider < place.provider
      <4>1. reads[i].by = k /\ reads[i].call = caller[k].call
        BY Zenon, <1>5, <2>1, <3>2
      <4>2. reads[i].provider < caller[k].provider
        BY Zenon, <1>0, <4>1 DEF ReadsBehind
      <4> QED
        BY Zenon, <1>5, <2>1, <4>2
    <3>3. ReadsBehind(c)'
      BY Zenon, <1>5, <1>11, <2>2, <3>1, <3>2 DEF ReadsBehind
    <3>4. WaitsForOwn(c)'
      <4>1. m \in DOMAIN reads' /\ reads'[m].provider = place.provider
        BY <1>2, <1>5, <1>6
      <4> QED
        BY Zenon, <1>5, <3>1, <4>1 DEF WaitsForOwn
    <3> QED
      BY Zenon, <3>3, <3>4
  <2>3. CASE c # k
    <3>1. caller'[c] = caller[c]
      BY Zenon, <1>9, <2>3
    <3>2. ReadsBehind(c)'
      <4>1. reads'[m].by # c
        BY Zenon, <1>2, <1>6, <2>3
      <4>2. ASSUME NEW i \in Unfinished', caller'[c].step # "idle", reads'[i].by = c, reads'[i].call = caller'[c].call
            PROVE  \/ reads'[i].provider < caller'[c].provider
                   \/ caller'[c].step = "waiting" /\ i = caller'[c].read
        <5>1. i \in Unfinished /\ reads'[i] = reads[i]
          BY Zenon, <1>11, <2>1, <4>1, <4>2
        <5>2. ReadsBehind(c)
          BY Zenon, <1>0
        <5> QED
          BY Zenon, <3>1, <4>2, <5>1, <5>2 DEF ReadsBehind
      <4> QED
        BY Zenon, <4>2 DEF ReadsBehind
    <3>3. WaitsForOwn(c)'
      BY Zenon, <1>0, <1>6, <3>1 DEF WaitsForOwn
    <3> QED
      BY Zenon, <3>2, <3>3
  <2> QED
    BY Zenon, <2>2, <2>3
<1> QED
  BY Zenon, <1>12, <1>13, <1>14, <1>15 DEF ReadsInv

\* Whatever is late, cancelled, retried or shut down, no more reads run than there are threads,
\* each slot goes back once, and no call has two unfinished reads at one provider
\* (BoundedReadExecutor.submit, discard_late_read, invoke).
THEOREM ReadsStayBounded == ReadSpec => []ReadsBounded
<1>1. ASSUME ReadsInv, [ReadNext]_readVars PROVE ReadsInv'
  <2>1. CASE UNCHANGED readVars
    <3>1. Unfinished' = Unfinished
      BY Zenon, <2>1 DEF readVars, Unfinished, With
    <3>2. slots' = slots /\ reads' = reads /\ caller' = caller
      BY Zenon, <2>1 DEF readVars
    <3>3. ReadsTypeOK'
      BY Zenon, <1>1, <3>2 DEF ReadsInv, ReadsTypeOK
    <3>4. ReadsBounded'
      BY Zenon, <1>1, <3>1, <3>2 DEF ReadsInv, ReadsBounded
    <3>5. CallsNumbered'
      BY Zenon, <1>1, <3>2 DEF ReadsInv, CallsNumbered
    <3>6. ASSUME NEW k \in Callers PROVE ReadsBehind(k)'
      BY Zenon, <1>1, <3>1, <3>2 DEF ReadsInv, ReadsBehind
    <3>7. ASSUME NEW k \in Callers PROVE WaitsForOwn(k)'
      BY Zenon, <1>1, <3>2 DEF ReadsInv, WaitsForOwn
    <3> QED
      BY Zenon, <3>3, <3>4, <3>5, <3>6, <3>7 DEF ReadsInv
  <2>2. CASE shutdown
    BY Zenon, <1>1, <2>2, ShutdownStep
  <2>3. ASSUME NEW i \in DOMAIN reads, ThreadStarts(i) \/ ThreadFinishes(i) PROVE ReadsInv'
    BY Zenon, <1>1, <2>3, ThreadStep
  <2>4. ASSUME NEW k \in Callers, ReadTimesOut(k) \/ CallerCancelled(k) PROVE ReadsInv'
    BY Zenon, <1>1, <2>4, GivesUpStep
  <2>5. ASSUME NEW k \in Callers, invoke(k) \/ ReadReturns(k) PROVE ReadsInv'
    BY Zenon, <1>1, <2>5, CallerStep
  <2>6. ASSUME NEW k \in Callers, submit(k) PROVE ReadsInv'
    <3>1. CASE UNCHANGED <<slots, reads>>
      BY Zenon, <1>1, <2>6, <3>1, CallerStep
    <3>2. CASE ~ UNCHANGED <<slots, reads>>
      <4>1. PICK n \in Nat : reads \in [1..n -> ReadType]
        BY Zenon, <1>1 DEF ReadsInv, ReadsTypeOK
      <4>2. Cardinality(DOMAIN reads) = n
        BY Zenon, <4>1, ReadsCounted
      <4> DEFINE i == Cardinality(DOMAIN reads) + 1
      <4>3. /\ caller[k].step = "calling" /\ slots' = slots - 1
            /\ reads' = [j \in 1..i |-> IF j < i THEN reads[j] ELSE
                  [by |-> k, call |-> caller[k].call, provider |-> caller[k].provider, future |-> "pending"]]
            /\ caller' = [caller EXCEPT ![k].step = "waiting", ![k].read = i]
        BY <2>6, <3>2, Zenon DEF submit
      <4>4. i = n + 1 /\ i \in Nat
        BY <4>2
      <4> HIDE DEF i
      <4> QED
        BY Zenon, <1>1, <4>1, <4>3, <4>4, AcceptedStep
    <3> QED
      BY Zenon, <3>1, <3>2
  <2> QED
    BY Zenon, <1>1, <2>1, <2>2, <2>3, <2>4, <2>5, <2>6 DEF ReadNext
<1>2. ReadsInv => ReadsBounded
  BY Zenon DEF ReadsInv
<1> QED
  BY <1>1, <1>2, ReadInitInv, PTL DEF ReadSpec
=============================================================================

--------------------------- MODULE DecisionProofs ---------------------------
(***************************************************************************)
(* Theorems about decisions on windows of time: DailyCampaign for any      *)
(* sessions, comparisons and workers, SessionDecisions for any windows,    *)
(* services and number of registry changes.                                *)
(*                                                                         *)
(* DailyCampaign: what is committed was claimed in order and in its window *)
(* (DecisionSound, OutcomeSound), and a claim can only join the lineage at *)
(* its end because the one claim in flight is after every link             *)
(* (LineageHead).                                                          *)
(*                                                                         *)
(* SessionDecisions: what a poll read of the cursor may be old when it     *)
(* plans; the compare-and-set makes it present, and what lies between the  *)
(* old and the new cursor is then a claim of the plan or in its gap.       *)
(***************************************************************************)
EXTENDS DailyCampaign, SessionDecisions, FiniteSetTheorems, WellFoundedInduction, TLAPS

(* The daily campaign. *)

-----------------------------------------------------------------------------
(* The daily campaign: DailyCampaign. *)

Committed == {"scored", "unavailable"}
DecisionType ==
    [status : Committed \cup {"none", "claimed", "missed", "interrupted"}, generation : Int, parent : Nat,
     pins : SUBSET Comparisons, claimed : Int, recorded : Int, state : Nat, scored : SUBSET Comparisons]
OutcomeType ==
    [status : {"none", "missed", "capturing", "complete", "unavailable", "expired"}, claimed : Int,
     complete : SUBSET Comparisons]
CampaignType ==
    [enrolled : Int, state : Nat, generation : Nat, inflight : Sessions \cup {NoSession},
     last : Sessions \cup {NoSession}]

DailyTypeOK ==
    /\ time \in Nat
    /\ campaign \in CampaignType
    /\ enrolledAt \in [Comparisons -> Int]
    /\ decision \in [Sessions -> DecisionType]
    /\ outcome \in [Sessions -> OutcomeType]
    /\ measuring \subseteq Sessions /\ deciding \subseteq Sessions
    /\ IsFiniteSet(Links)

\* One claim is in flight, what is committed was claimed in order and in its window, and only
\* what is committed has a state or a score.
DecisionSound(s) ==
    /\ decision[s].status = "claimed" <=> campaign.inflight = s
    /\ decision[s].state # NoState \/ decision[s].scored # {} => decision[s].status \in Committed
    /\ decision[s].status \in Committed \cup {"claimed"} =>
          campaign.enrolled # Never /\ campaign.enrolled < NativeClose[s] /\ Ordered(s)
    /\ decision[s].status \in Committed =>
          decision[s].claimed <= decision[s].recorded /\ decision[s].recorded < OutcomeFrom[s]
    /\ decision[s].state \in {NoState, s}
    /\ \A c \in decision[s].pins : enrolledAt[c] # Never /\ enrolledAt[c] < NativeClose[s]

OutcomeSound(s) ==
    outcome[s] # NoOutcome =>
       /\ decision[s].status \in Committed
       /\ decision[s].recorded < outcome[s].claimed
       /\ outcome[s].complete \subseteq decision[s].scored

\* The campaign points at the last link, and the claim in flight is after every link.
LineageHead ==
    /\ \/ campaign.state = NoState /\ Links = {}
       \/ campaign.state \in Links /\ \A t \in Links : t <= campaign.state
    /\ \A t \in Links : t <= campaign.last
    /\ campaign.inflight <= campaign.last
    /\ campaign.inflight # NoSession => \A t \in Links : t < campaign.inflight

DailyInv ==
    /\ DailyTypeOK /\ StateLineage /\ LineageHead
    /\ \A s \in Sessions : DecisionSound(s) /\ OutcomeSound(s)

\* Sessions are numbered from one.
LEMMA SessionNumbers ==
    /\ \A t \in Sessions : t \in Nat /\ t # NoSession /\ t # NoState
    /\ \A t \in Sessions \cup {NoSession} : t \in Nat
<1>1. \A t \in Sessions : t \in Nat \ {0}
  BY DailyAssumption, Zenon
<1> QED
  BY <1>1 DEF NoSession, NoState

\* A campaign that is not enrolled has no claims and no lineage (DailyInit).
LEMMA DailyInitInv == DailyInit => DailyInv
<1> SUFFICES ASSUME DailyInit PROVE DailyInv
  BY Zenon
<1>1. IsFiniteSet({}) /\ Cardinality({}) = 0
  BY FS_EmptySet, Zenon
<1>2. Links = {}
  BY Zenon DEF DailyInit, Links, NoDecision
<1>3. NoDecision \in DecisionType
  BY DEF NoDecision, DecisionType, Never, NoState
<1>4. NoOutcome \in OutcomeType
  BY DEF NoOutcome, OutcomeType, Never
<1>5. DailyTypeOK
  BY <1>1, <1>2, <1>3, <1>4 DEF DailyInit, DailyTypeOK, CampaignType, Never, NoState
<1>6. StateLineage /\ LineageHead
  BY <1>1, <1>2 DEF DailyInit, StateLineage, LineageHead, NoSession, NoState
<1>7. ASSUME NEW s \in Sessions PROVE DecisionSound(s) /\ OutcomeSound(s)
  BY Zenon, DailyAssumption DEF DailyInit, DecisionSound, OutcomeSound, NoDecision, Committed, NoSession
<1> QED
  BY Zenon, <1>5, <1>6, <1>7 DEF DailyInv

\* A step that leaves every link and the campaign's pointer leaves the lineage.
LEMMA LineageKept ==
    ASSUME DailyInv,
           \A s \in Sessions : /\ decision'[s].state = decision[s].state
                               /\ decision[s].state # NoState =>
                                     /\ decision'[s].generation = decision[s].generation
                                     /\ decision'[s].parent = decision[s].parent,
           campaign'.state = campaign.state, campaign'.generation = campaign.generation
    PROVE  Links' = Links /\ StateLineage'
<1>1. Links' = Links
  BY Zenon DEF Links
<1>2. \A s \in Links : decision'[s].generation = decision[s].generation /\ decision'[s].parent = decision[s].parent
  BY Zenon DEF Links
<1>3. StateLineage
  BY Zenon DEF DailyInv
<1> QED
  BY Zenon, <1>1, <1>2, <1>3 DEF StateLineage

\* The order of session numbers, for the steps below that have no other arithmetic.
LEMMA SessionBefore == \A t, s \in Nat : t < s => t # s /\ ~ (s < t) /\ ~ (s <= t)
  OBVIOUS

\* The lineage grows by a decision after every link, computed from the last of them.
LEMMA LineageGrows ==
    ASSUME DailyInv, NEW s \in Sessions, \A t \in Links : t < s,
           decision[s].generation = campaign.generation, decision[s].parent = campaign.state,
           decision'[s].state = s,
           decision'[s].generation = decision[s].generation, decision'[s].parent = decision[s].parent,
           \A t \in Sessions \ {s} : decision'[t] = decision[t],
           campaign'.state = s, campaign'.generation = campaign.generation + 1
    PROVE  Links' = Links \cup {s} /\ IsFiniteSet(Links') /\ StateLineage'
<1>0. StateLineage /\ LineageHead /\ IsFiniteSet(Links) /\ s \in Nat \ {0} /\ Links \subseteq Nat \ {0}
  BY Zenon, DailyAssumption DEF DailyInv, DailyTypeOK, Links
<1>a. \A t \in Links : t \in Nat /\ t # s /\ ~ (s < t) /\ ~ (s <= t)
  BY Zenon, <1>0, SessionBefore
<1>b. s # NoState /\ ~ (s < s)
  BY <1>0 DEF NoState
<1>1. Links' = Links \cup {s} /\ s \notin Links
  BY <1>a, <1>b DEF Links
<1>2. IsFiniteSet(Links \cup {s}) /\ Cardinality(Links \cup {s}) = Cardinality(Links) + 1
  BY <1>0, <1>1, FS_AddElement, Zenon
<1>3. campaign'.generation = Cardinality(Links')
  BY Zenon, <1>0, <1>1, <1>2 DEF StateLineage
<1>4. \A t \in Links : decision'[t] = decision[t]
  BY Zenon, <1>1 DEF Links
<1>5. \A t \in Links : {u \in Links' : u < t} = {u \in Links : u < t}
  BY <1>a, <1>1, Zenon
<1>6. {u \in Links' : u < s} = Links
  BY <1>b, <1>1, Zenon
<1>7. ASSUME NEW t \in Links
      PROVE  LET before == {u \in Links' : u < t} IN
             /\ decision'[t].generation = Cardinality(before)
             /\ before = {} => decision'[t].parent = NoState
             /\ \A u \in before : (\A v \in before : v <= u) => decision'[t].parent = u
  BY Zenon, <1>0, <1>4, <1>5 DEF StateLineage
<1>8. /\ decision'[s].generation = Cardinality(Links)
      /\ Links = {} => decision'[s].parent = NoState
      /\ \A u \in Links : (\A v \in Links : v <= u) => decision'[s].parent = u
  BY Zenon, <1>0 DEF StateLineage, LineageHead
<1>9. \A t \in Links' : (\A u \in Links' : u <= t) => campaign'.state = t
  BY <1>a, <1>1, Zenon
<1>10. StateLineage'
  <2>1. ASSUME NEW t \in Links'
        PROVE  LET before == {u \in Links' : u < t} IN
               /\ decision'[t].generation = Cardinality(before)
               /\ before = {} => decision'[t].parent = NoState
               /\ \A u \in before : (\A v \in before : v <= u) => decision'[t].parent = u
    <3>1. CASE t \in Links
      BY <1>7, <3>1, Zenon
    <3>2. CASE t = s
      BY <1>6, <1>8, <3>2, Zenon
    <3> QED
      BY <1>1, <2>1, <3>1, <3>2, Zenon
  <2> QED
    BY <1>3, <1>9, <2>1, Zenon DEF StateLineage
<1> QED
  BY Zenon, <1>1, <1>2, <1>10

\* Steps that decide nothing leave the lineage.
LEMMA LineageQuiet ==
    ASSUME DailyInv, decision' = decision,
           campaign'.state = campaign.state, campaign'.generation = campaign.generation,
           campaign'.inflight = campaign.inflight, campaign'.last = campaign.last
    PROVE  Links' = Links /\ IsFiniteSet(Links') /\ StateLineage' /\ LineageHead'
<1>1. Links' = Links /\ StateLineage'
  BY Zenon, LineageKept
<1>2. LineageHead /\ IsFiniteSet(Links)
  BY Zenon DEF DailyInv, DailyTypeOK
<1> QED
  BY Zenon, <1>1, <1>2 DEF LineageHead

\* The clock, enrolments and the end of a worker: ClockMoves, enroll, enroll_comparison, WorkerDies.
LEMMA EnrolDaily ==
    ASSUME DailyInv,
           \/ ClockMoves \/ enroll \/ (\E c \in Comparisons : enroll_comparison(c))
           \/ (\E s \in Sessions : WorkerDies(s)) \/ UNCHANGED dailyVars
    PROVE  DailyInv'
<1>0. DailyTypeOK /\ \A s \in Sessions : DecisionSound(s) /\ OutcomeSound(s)
  BY Zenon DEF DailyInv
<1>1. /\ decision' = decision /\ outcome' = outcome
      /\ campaign' \in CampaignType
      /\ campaign'.state = campaign.state /\ campaign'.generation = campaign.generation
      /\ campaign'.inflight = campaign.inflight /\ campaign'.last = campaign.last
      /\ campaign.enrolled # Never => campaign'.enrolled = campaign.enrolled
  BY <1>0 DEF ClockMoves, enroll, enroll_comparison, WorkerDies, dailyVars, DailyTypeOK, CampaignType
<1>2. /\ enrolledAt' \in [Comparisons -> Int]
      /\ \A c \in Comparisons : enrolledAt[c] # Never => enrolledAt'[c] = enrolledAt[c]
  BY <1>0 DEF ClockMoves, enroll, enroll_comparison, WorkerDies, dailyVars, DailyTypeOK
<1>3. time' \in Nat /\ measuring' \subseteq Sessions /\ deciding' \subseteq Sessions
  BY <1>0, DailyAssumption DEF ClockMoves, enroll, enroll_comparison, WorkerDies, dailyVars, DailyTypeOK
<1>4. Links' = Links /\ IsFiniteSet(Links') /\ StateLineage' /\ LineageHead'
  BY Zenon, <1>1, LineageQuiet
<1>5. DailyTypeOK'
  BY Zenon, <1>0, <1>1, <1>2, <1>3, <1>4 DEF DailyTypeOK
<1>6. ASSUME NEW s \in Sessions PROVE DecisionSound(s)' /\ OutcomeSound(s)'
  <2>1. DecisionSound(s) /\ OutcomeSound(s) /\ decision[s].pins \subseteq Comparisons
    BY Zenon, <1>0 DEF DailyTypeOK, DecisionType
  <2> QED
    BY Zenon, <1>1, <1>2, <2>1 DEF DecisionSound, OutcomeSound
<1> QED
  BY Zenon, <1>4, <1>5, <1>6 DEF DailyInv

\* An outcome is claimed after its window opened, and so after its decision was recorded.
LEMMA OutcomeDaily ==
    ASSUME DailyInv, NEW s \in Sessions, claim_outcome(s) \/ finish_outcome(s)
    PROVE  DailyInv'
<1>0. DailyTypeOK /\ \A t \in Sessions : DecisionSound(t) /\ OutcomeSound(t)
  BY Zenon DEF DailyInv
<1>1. UNCHANGED <<time, campaign, enrolledAt, decision, deciding>> /\ measuring' \subseteq Sessions
  BY Zenon, <1>0 DEF claim_outcome, finish_outcome, DailyTypeOK
<1>2. Links' = Links /\ IsFiniteSet(Links') /\ StateLineage' /\ LineageHead'
  BY Zenon, <1>1, LineageQuiet
<1>3. decision[s].scored \subseteq Comparisons /\ outcome[s] \in OutcomeType /\ time \in Nat
  BY Zenon, <1>0 DEF DailyTypeOK, DecisionType
<1>4. /\ outcome' \in [Sessions -> OutcomeType]
      /\ \A t \in Sessions \ {s} : outcome'[t] = outcome[t]
      /\ OutcomeSound(s)'
  <2>1. CASE claim_outcome(s)
    <3>a. PICK st \in {"missed", "capturing"} : st = IF time >= OutcomeUntil[s] THEN "missed" ELSE "capturing"
      BY Zenon
    <3> DEFINE new == [NoOutcome EXCEPT !.status = st, !.claimed = time]
    <3>1. outcome' = [outcome EXCEPT ![s] = new]
      BY <2>1, <3>a, Zenon DEF claim_outcome
    <3>2. NoOutcome \in OutcomeType /\ NoOutcome.complete = {}
      BY DEF NoOutcome, OutcomeType, Never
    <3>3. new \in OutcomeType /\ new.claimed = time /\ new.complete = {}
      <4> DEFINE half == [NoOutcome EXCEPT !.status = st]
      <4>1. half \in OutcomeType /\ half.complete = {}
        BY Zenon, <3>2 DEF OutcomeType
      <4>2. new = [half EXCEPT !.claimed = time]
        BY Zenon
      <4> HIDE DEF new, half
      <4> QED
        BY <1>3, <4>1, <4>2 DEF OutcomeType
    <3> HIDE DEF new
    <3>4. /\ outcome' \in [Sessions -> OutcomeType] /\ outcome'[s] = new
          /\ \A t \in Sessions \ {s} : outcome'[t] = outcome[t]
      BY Zenon, <1>0, <3>1, <3>3 DEF DailyTypeOK
    <3>5. decision[s].status \in Committed
      BY Zenon, <1>0, <2>1 DEF claim_outcome, DecisionSound, Committed
    <3>6. decision[s].recorded < OutcomeFrom[s] /\ OutcomeFrom[s] <= time /\ decision[s].recorded \in Int
      BY Zenon, <1>0, <2>1, <3>5 DEF claim_outcome, DecisionSound, DailyTypeOK, DecisionType
    <3>7. decision[s].recorded < time
      BY <1>3, <3>6, DailyAssumption
    <3> QED
      BY Zenon, <1>1, <3>3, <3>4, <3>5, <3>7 DEF OutcomeSound
  <2>2. CASE finish_outcome(s)
    <3>1. CASE outcome' = outcome
      BY Zenon, <1>0, <1>1, <3>1 DEF DailyTypeOK, OutcomeSound
    <3>2. CASE outcome' # outcome
      <4>1. PICK status \in {"complete", "unavailable", "expired"}, complete \in SUBSET Comparisons :
               /\ outcome[s].status = "capturing"
               /\ outcome' = [outcome EXCEPT ![s] = [outcome[s] EXCEPT !.status = status, !.complete = complete]]
               /\ complete \subseteq decision[s].scored
        <5>1. CASE \E status \in {"complete", "unavailable"}, complete \in SUBSET decision[s].scored :
                     /\ outcome[s].status = "capturing"
                     /\ outcome' = [outcome EXCEPT ![s].status = status, ![s].complete = complete]
          <6>1. PICK status \in {"complete", "unavailable"}, complete \in SUBSET decision[s].scored :
                     /\ outcome[s].status = "capturing"
                     /\ outcome' = [outcome EXCEPT ![s].status = status, ![s].complete = complete]
            BY Zenon, <5>1
          <6>2. outcome' = [outcome EXCEPT ![s] = [outcome[s] EXCEPT !.status = status, !.complete = complete]]
            BY Zenon, <1>0, <6>1 DEF DailyTypeOK
          <6> QED
            BY Zenon, <1>3, <6>1, <6>2
        <5>2. CASE outcome[s].status = "capturing" /\ outcome' = [outcome EXCEPT ![s].status = "expired"]
          <6>1. outcome[s].complete \subseteq decision[s].scored
            BY <1>0, <5>2 DEF OutcomeSound, NoOutcome
          <6>2. outcome' = [outcome EXCEPT ![s] = [outcome[s] EXCEPT !.status = "expired", !.complete = outcome[s].complete]]
            BY Zenon, <1>0, <1>3, <5>2 DEF DailyTypeOK, OutcomeType
          <6> QED
            BY Zenon, <1>3, <5>2, <6>1, <6>2
        <5> QED
          BY Zenon, <2>2, <3>2, <5>1, <5>2 DEF finish_outcome
      <4> DEFINE new == [outcome[s] EXCEPT !.status = status, !.complete = complete]
      <4>2. new \in OutcomeType /\ new.claimed = outcome[s].claimed /\ new.complete = complete
        BY Zenon, <1>3, <4>1 DEF OutcomeType
      <4>3. outcome' = [outcome EXCEPT ![s] = new]
        BY Zenon, <4>1
      <4> HIDE DEF new
      <4>4. /\ outcome' \in [Sessions -> OutcomeType] /\ outcome'[s] = new
            /\ \A t \in Sessions \ {s} : outcome'[t] = outcome[t]
        BY Zenon, <1>0, <4>2, <4>3 DEF DailyTypeOK
      <4>5. outcome[s] # NoOutcome
        BY <4>1 DEF NoOutcome
      <4> QED
        BY Zenon, <1>0, <1>1, <4>1, <4>2, <4>4, <4>5 DEF OutcomeSound
    <3> QED
      BY Zenon, <3>1, <3>2
  <2> QED
    BY Zenon, <2>1, <2>2
<1>5. DailyTypeOK'
  BY Zenon, <1>0, <1>1, <1>2, <1>4 DEF DailyTypeOK
<1>6. ASSUME NEW t \in Sessions PROVE DecisionSound(t)' /\ OutcomeSound(t)'
  BY <1>0, <1>1, <1>4 DEF DecisionSound, OutcomeSound
<1> QED
  BY Zenon, <1>2, <1>5, <1>6 DEF DailyInv

\* _expire_decision on a record: only its status and its time change.
LEMMA InterruptedRecord ==
    ASSUME NEW old \in DecisionType, NEW now \in Int, NEW new, new = Interrupted(old, now)
    PROVE  /\ new \in DecisionType /\ new.status = "interrupted" /\ new.recorded = now
           /\ new.state = old.state /\ new.scored = old.scored /\ new.pins = old.pins
           /\ new.generation = old.generation /\ new.parent = old.parent
<1> DEFINE half == [old EXCEPT !.status = "interrupted"]
<1>1. /\ half \in DecisionType /\ half.status = "interrupted"
      /\ half.state = old.state /\ half.scored = old.scored /\ half.pins = old.pins
      /\ half.generation = old.generation /\ half.parent = old.parent
  BY Zenon DEF DecisionType
<1>2. new = [half EXCEPT !.recorded = now]
  BY Zenon DEF Interrupted
<1> HIDE DEF half
<1> QED
  BY Zenon, <1>1, <1>2 DEF DecisionType

\* The claim in flight gives way: it was claimed and left no state, so no outcome rests on it.
LEMMA InterruptDaily ==
    ASSUME DailyInv, NEW s \in Sessions, campaign.inflight = s,
           decision' = [decision EXCEPT ![s] = Interrupted(decision[s], time)], campaign' = Released(campaign, s),
           UNCHANGED <<time, enrolledAt, deciding, measuring>>,
           outcome' \in [Sessions -> OutcomeType],
           \A t \in Sessions : \/ outcome'[t] = outcome[t]
                               \/ /\ outcome[t] # NoOutcome
                                  /\ outcome'[t].claimed = outcome[t].claimed
                                  /\ outcome'[t].complete = outcome[t].complete
    PROVE  DailyInv'
<1>0. DailyTypeOK /\ LineageHead /\ \A t \in Sessions : DecisionSound(t) /\ OutcomeSound(t)
  BY Zenon DEF DailyInv
<1>a. decision[s] \in DecisionType /\ time \in Int /\ s # NoSession
  BY <1>0, DailyAssumption DEF DailyTypeOK, NoSession
<1>1. PICK new : new = Interrupted(decision[s], time)
  BY Zenon
<1>2. /\ new \in DecisionType /\ new.status = "interrupted" /\ new.recorded = time
      /\ new.state = decision[s].state /\ new.scored = decision[s].scored /\ new.pins = decision[s].pins
      /\ new.generation = decision[s].generation /\ new.parent = decision[s].parent
  BY <1>a, <1>1, InterruptedRecord
<1>3. decision' \in [Sessions -> DecisionType] /\ decision'[s] = new /\ \A t \in Sessions \ {s} : decision'[t] = decision[t]
  BY Zenon, <1>0, <1>1, <1>2 DEF DailyTypeOK
<1>4. /\ campaign' \in CampaignType /\ campaign'.inflight = NoSession /\ campaign'.last = campaign.last
      /\ campaign'.state = campaign.state /\ campaign'.generation = campaign.generation
      /\ campaign'.enrolled = campaign.enrolled
  <2>1. campaign' = [campaign EXCEPT !.inflight = NoSession]
    BY Zenon DEF Released
  <2> QED
    BY Zenon, <1>0, <2>1 DEF DailyTypeOK, CampaignType
<1>5. decision[s].status = "claimed" /\ decision[s].state = NoState /\ decision[s].scored = {} /\ outcome[s] = NoOutcome
  BY Zenon, <1>0 DEF DecisionSound, OutcomeSound, Committed
<1>6. Links' = Links /\ StateLineage'
  BY Zenon, <1>2, <1>3, <1>4, LineageKept
<1>7. LineageHead'
  <2>1. campaign'.inflight <= campaign'.last
    <3>1. campaign.last \in Sessions \cup {NoSession}
      BY Zenon, <1>0 DEF DailyTypeOK, CampaignType
    <3>2. campaign.last \in Nat
      BY Zenon, <3>1, SessionNumbers
    <3> QED
      BY <1>4, <3>2 DEF NoSession
  <2> QED
    BY Zenon, <1>0, <1>4, <1>6, <2>1 DEF LineageHead
<1>8. DailyTypeOK'
  BY Zenon, <1>0, <1>3, <1>4, <1>6 DEF DailyTypeOK
<1>9. ASSUME NEW t \in Sessions PROVE DecisionSound(t)' /\ OutcomeSound(t)'
  <2>0. DecisionSound(t) /\ OutcomeSound(t) /\ t # NoSession
    BY Zenon, <1>0, DailyAssumption DEF NoSession
  <2>1. CASE t = s
    <3>1. OutcomeSound(t)'
      BY Zenon, <1>5, <2>1 DEF OutcomeSound
    <3>2. DecisionSound(t)'
      BY <1>2, <1>3, <1>4, <1>5, <2>0, <2>1 DEF DecisionSound, Committed
    <3> QED
      BY Zenon, <3>1, <3>2
  <2>2. CASE t # s
    <3>1. OutcomeSound(t)'
      BY Zenon, <1>3, <2>0, <2>2 DEF OutcomeSound
    <3>2. DecisionSound(t)'
      BY Zenon, <1>3, <1>4, <2>0, <2>2 DEF DecisionSound
    <3> QED
      BY Zenon, <3>1, <3>2
  <2> QED
    BY Zenon, <2>1, <2>2
<1> QED
  BY Zenon, <1>6, <1>7, <1>8, <1>9 DEF DailyInv

\* expire: the claim in flight and the outcomes being captured, past their windows.
LEMMA ExpireDaily ==
    ASSUME DailyInv, expire
    PROVE  DailyInv'
<1>0. DailyTypeOK /\ \A t \in Sessions : DecisionSound(t) /\ OutcomeSound(t)
  BY Zenon DEF DailyInv
<1>1. /\ outcome' \in [Sessions -> OutcomeType]
      /\ \A t \in Sessions : \/ outcome'[t] = outcome[t]
                             \/ /\ outcome[t] # NoOutcome
                                /\ outcome'[t].claimed = outcome[t].claimed
                                /\ outcome'[t].complete = outcome[t].complete
  <2>1. \A t \in Sessions : /\ [outcome[t] EXCEPT !.status = "expired"] \in OutcomeType
                            /\ [outcome[t] EXCEPT !.status = "expired"].claimed = outcome[t].claimed
                            /\ [outcome[t] EXCEPT !.status = "expired"].complete = outcome[t].complete
    BY Zenon, <1>0 DEF DailyTypeOK, OutcomeType
  <2>2. \A t \in Sessions : outcome[t].status = "capturing" => outcome[t] # NoOutcome
    BY DEF NoOutcome
  <2> QED
    BY Zenon, <1>0, <2>1, <2>2 DEF expire, DailyTypeOK
<1>2. UNCHANGED <<time, enrolledAt, deciding, measuring>>
  BY Zenon DEF expire
<1>3. CASE campaign.inflight # NoSession /\ time >= Expires[campaign.inflight]
  <2>1. PICK s \in Sessions : s = campaign.inflight
    BY Zenon, <1>0, <1>3 DEF DailyTypeOK, CampaignType
  <2>2. decision' = [decision EXCEPT ![s] = Interrupted(decision[s], time)] /\ campaign' = Released(campaign, s)
    BY Zenon, <1>3, <2>1 DEF expire
  <2> QED
    BY Zenon, <1>1, <1>2, <2>1, <2>2, InterruptDaily
<1>4. CASE ~ (campaign.inflight # NoSession /\ time >= Expires[campaign.inflight])
  <2>1. decision' = decision /\ campaign' = campaign
    BY Zenon, <1>4 DEF expire
  <2>2. Links' = Links /\ IsFiniteSet(Links') /\ StateLineage' /\ LineageHead'
    BY Zenon, <2>1, LineageQuiet
  <2>3. DailyTypeOK'
    BY Zenon, <1>0, <1>1, <1>2, <2>1, <2>2 DEF DailyTypeOK
  <2>4. ASSUME NEW t \in Sessions PROVE DecisionSound(t)' /\ OutcomeSound(t)'
    BY <1>0, <1>1, <1>2, <2>1 DEF DecisionSound, OutcomeSound
  <2> QED
    BY Zenon, <2>2, <2>3, <2>4 DEF DailyInv
<1> QED
  BY Zenon, <1>3, <1>4

\* claim_decision: the claim joins after every session that was claimed, or is missed.
LEMMA ClaimDaily ==
    ASSUME DailyInv, NEW s \in Sessions, claim_decision(s)
    PROVE  DailyInv'
<1> DEFINE other == campaign.inflight
           missed == campaign.enrolled >= NativeClose[s] \/ time >= Expires[s] \/ s <= campaign.last
<1>0. DailyTypeOK /\ LineageHead /\ \A t \in Sessions : DecisionSound(t) /\ OutcomeSound(t)
  BY Zenon DEF DailyInv
<1>a. /\ s \in Nat /\ s # NoSession /\ time \in Int /\ campaign.last \in Nat /\ campaign.enrolled \in Int
      /\ \A t \in Sessions : t \in Nat /\ t # NoSession /\ decision[t] \in DecisionType
  <2>1. campaign.last \in Sessions \cup {NoSession} /\ campaign.enrolled \in Int
    BY Zenon, <1>0 DEF DailyTypeOK, CampaignType
  <2> QED
    BY <1>0, <2>1, SessionNumbers DEF DailyTypeOK
<1>1. PICK st \in {"missed", "claimed"} : (st = "missed" <=> missed) /\ st = IF missed THEN "missed" ELSE "claimed"
  BY Zenon
<1> DEFINE one == [NoDecision EXCEPT !.status = st]
           two == [one EXCEPT !.generation = campaign.generation]
           three == [two EXCEPT !.parent = campaign.state]
           four == [three EXCEPT !.pins = Pinned(s)]
           claim == [four EXCEPT !.claimed = time]
<1>2. /\ Ordered(s) /\ campaign.enrolled # Never /\ decision[s] = NoDecision
      /\ decision' = [t \in Sessions |->
            IF t = s THEN claim ELSE IF t = other THEN Interrupted(decision[t], time) ELSE decision[t]]
      /\ campaign' = [campaign EXCEPT !.last = IF s > @ THEN s ELSE @,
                                      !.inflight = IF missed THEN NoSession ELSE s]
      /\ deciding' \subseteq Sessions
      /\ UNCHANGED <<time, enrolledAt, outcome, measuring>>
  BY <1>0, <1>1, Zenon DEF claim_decision, DailyTypeOK
<1>3. /\ claim \in DecisionType /\ claim.status = st /\ claim.state = NoState /\ claim.scored = {}
      /\ claim.pins = Pinned(s)
  <2>1. campaign.generation \in Int /\ campaign.state \in Nat /\ Pinned(s) \in SUBSET Comparisons /\ time \in Int
    BY <1>0, <1>a DEF DailyTypeOK, CampaignType, Pinned
  <2>2. NoDecision \in DecisionType /\ NoDecision.state = NoState /\ NoDecision.scored = {}
    BY DEF NoDecision, DecisionType, Never, NoState
  <2>3. one \in DecisionType /\ one.status = st /\ one.state = NoState /\ one.scored = {}
    BY Zenon, <2>2 DEF DecisionType
  <2> HIDE DEF one
  <2>4. two \in DecisionType /\ two.status = st /\ two.state = NoState /\ two.scored = {}
    BY Zenon, <2>1, <2>3 DEF DecisionType
  <2> HIDE DEF two
  <2>5. three \in DecisionType /\ three.status = st /\ three.state = NoState /\ three.scored = {}
    BY Zenon, <2>1, <2>4 DEF DecisionType
  <2> HIDE DEF three
  <2>6. four \in DecisionType /\ four.status = st /\ four.state = NoState /\ four.scored = {} /\ four.pins = Pinned(s)
    BY Zenon, <2>1, <2>5 DEF DecisionType
  <2> HIDE DEF four
  <2> QED
    BY Zenon, <2>1, <2>6 DEF DecisionType
<1> HIDE DEF claim
<1>4. /\ campaign' \in CampaignType /\ campaign'.last = (IF s > campaign.last THEN s ELSE campaign.last)
      /\ campaign'.inflight = (IF missed THEN NoSession ELSE s)
      /\ campaign'.state = campaign.state /\ campaign'.generation = campaign.generation
      /\ campaign'.enrolled = campaign.enrolled
  <2>1. PICK last \in Sessions \cup {NoSession} : last = IF s > campaign.last THEN s ELSE campaign.last
    BY Zenon, <1>0 DEF DailyTypeOK, CampaignType
  <2>2. PICK inflight \in Sessions \cup {NoSession} : inflight = IF missed THEN NoSession ELSE s
    BY Zenon
  <2>3. campaign' = [campaign EXCEPT !.last = last, !.inflight = inflight]
    BY <1>2, <2>1, <2>2, Zenon
  <2>4. /\ campaign' \in CampaignType /\ campaign'.last = last /\ campaign'.inflight = inflight
        /\ campaign'.state = campaign.state /\ campaign'.generation = campaign.generation
        /\ campaign'.enrolled = campaign.enrolled
    BY Zenon, <1>0, <2>3 DEF DailyTypeOK, CampaignType
  <2> QED
    BY <2>1, <2>2, <2>4, Zenon
<1>5. ASSUME NEW t \in Sessions
      PROVE  /\ decision'[t] \in DecisionType
             /\ t = s => decision'[t] = claim
             /\ t # s /\ t # other => decision'[t] = decision[t]
             /\ t # s /\ t = other => /\ decision'[t].status = "interrupted" /\ decision'[t].state = decision[t].state
                                      /\ decision'[t].scored = decision[t].scored /\ decision'[t].pins = decision[t].pins
                                      /\ decision'[t].generation = decision[t].generation
                                      /\ decision'[t].parent = decision[t].parent
  <2>1. CASE t = s
    BY Zenon, <1>2, <1>3, <2>1
  <2>2. CASE t # s /\ t # other
    BY Zenon, <1>2, <1>a, <2>2
  <2>3. CASE t # s /\ t = other
    <3>1. PICK new : new = Interrupted(decision[t], time)
      BY Zenon
    <3>2. decision'[t] = new
      BY Zenon, <1>2, <2>3, <3>1
    <3>3. /\ new \in DecisionType /\ new.status = "interrupted" /\ new.recorded = time
          /\ new.state = decision[t].state /\ new.scored = decision[t].scored /\ new.pins = decision[t].pins
          /\ new.generation = decision[t].generation /\ new.parent = decision[t].parent
      <4>1. decision[t] \in DecisionType /\ time \in Int
        BY Zenon, <1>a
      <4> QED
        BY <3>1, <4>1, InterruptedRecord
    <3> QED
      BY Zenon, <2>3, <3>2, <3>3
  <2> QED
    BY Zenon, <2>1, <2>2, <2>3
<1>6. decision[s].status = "none" /\ decision[s].state = NoState /\ s # other
  BY <1>0, <1>2 DEF NoDecision, DecisionSound
<1>7. Links' = Links /\ StateLineage'
  <2>1. \A t \in Sessions : /\ decision'[t].state = decision[t].state
                            /\ decision[t].state # NoState => /\ decision'[t].generation = decision[t].generation
                                                              /\ decision'[t].parent = decision[t].parent
    BY Zenon, <1>3, <1>5, <1>6
  <2> QED
    BY Zenon, <1>4, <2>1, LineageKept
<1>8. LineageHead'
  <2>1. \A t \in Links : t \in Nat /\ t <= campaign.last
    BY Zenon, <1>0, <1>a DEF LineageHead, Links
  <2>2. \A t \in Links : t <= campaign'.last
    BY <1>a, <1>4, <2>1
  <2>3. campaign'.inflight <= campaign'.last
    BY <1>a, <1>4 DEF NoSession
  <2>4. campaign'.inflight # NoSession => \A t \in Links : t < campaign'.inflight
    BY <1>a, <1>4, <2>1
  <2> QED
    BY Zenon, <1>0, <1>4, <1>7, <2>2, <2>3, <2>4 DEF LineageHead
<1>9. decision' \in [Sessions -> DecisionType]
  BY Zenon, <1>2, <1>5
<1>10. DailyTypeOK'
  BY Zenon, <1>0, <1>2, <1>4, <1>7, <1>9 DEF DailyTypeOK
<1>11. ASSUME NEW t \in Sessions PROVE DecisionSound(t)' /\ OutcomeSound(t)'
  <2>0. DecisionSound(t) /\ OutcomeSound(t) /\ t # NoSession
    BY Zenon, <1>0, <1>a
  <2>1. CASE t = s
    <3>1. OutcomeSound(t)'
      BY Zenon, <1>2, <1>6, <2>0, <2>1 DEF OutcomeSound, Committed
    <3>2. st = "claimed" => campaign.enrolled < NativeClose[s]
      BY <1>1, <1>a, DailyAssumption
    <3>3. decision'[s] = claim /\ (st = "claimed" <=> campaign'.inflight = s)
      BY Zenon, <1>1, <1>4, <1>5, <1>a
    <3>4. \A c \in Pinned(s) : enrolledAt[c] # Never /\ enrolledAt[c] < NativeClose[s]
      BY Zenon DEF Pinned
    <3> HIDE DEF missed
    <3>5. DecisionSound(s)'
      BY Zenon, <1>1, <1>2, <1>3, <1>4, <3>2, <3>3, <3>4 DEF DecisionSound, Committed
    <3> QED
      BY Zenon, <2>1, <3>1, <3>5
  <2>2. CASE t # s /\ t = other
    <3>1. decision[t].status = "claimed" /\ decision[t].state = NoState /\ decision[t].scored = {}
      BY Zenon, <2>0, <2>2 DEF DecisionSound, Committed
    <3>2. OutcomeSound(t)'
      BY Zenon, <1>2, <2>0, <3>1 DEF OutcomeSound, Committed
    <3>3. campaign'.inflight # t
      BY Zenon, <1>4, <2>0, <2>2
    <3>4. DecisionSound(t)'
      BY Zenon, <1>2, <1>5, <2>0, <2>2, <3>1, <3>3 DEF DecisionSound, Committed
    <3> QED
      BY Zenon, <3>2, <3>4
  <2>3. CASE t # s /\ t # other
    <3>1. campaign'.inflight # t /\ decision'[t] = decision[t]
      BY Zenon, <1>4, <1>5, <2>0, <2>3
    <3> QED
      BY Zenon, <1>2, <1>4, <2>0, <2>3, <3>1 DEF DecisionSound, OutcomeSound
  <2> QED
    BY Zenon, <2>1, <2>2, <2>3
<1> QED
  BY Zenon, <1>7, <1>8, <1>10, <1>11 DEF DailyInv

\* finish_decision in its window: the decision in flight joins the lineage, if it left a state.
LEMMA CommitDaily ==
    ASSUME DailyInv, NEW s \in Sessions, NEW completion \in Completions(s), CommitDecision(s, completion),
           UNCHANGED <<time, enrolledAt, outcome, deciding, measuring>>
    PROVE  DailyInv'
<1>0. DailyTypeOK /\ LineageHead /\ \A t \in Sessions : DecisionSound(t) /\ OutcomeSound(t)
  BY Zenon DEF DailyInv
<1>a. /\ s \in Nat /\ s # NoSession /\ s # NoState /\ time \in Int /\ campaign.last \in Nat
      /\ decision[s] \in DecisionType /\ campaign \in CampaignType
  <2>1. campaign.last \in Sessions \cup {NoSession}
    BY Zenon, <1>0 DEF DailyTypeOK, CampaignType
  <2> QED
    BY <1>0, <2>1, SessionNumbers DEF DailyTypeOK
<1>1. /\ completion.status \in Committed /\ completion.state \in {NoState, s}
      /\ completion.state \in Nat /\ completion.scored \in SUBSET Comparisons
  <2>1. decision[s].pins \subseteq Comparisons
    BY Zenon, <1>a DEF DecisionType
  <2>2. completion.status \in Committed /\ completion.state \in {NoState, s} /\ completion.scored \subseteq decision[s].pins
    BY Zenon DEF Completions, Committed
  <2> QED
    BY <1>a, <2>1, <2>2 DEF NoState
<1> DEFINE one == [decision[s] EXCEPT !.status = completion.status]
           two == [one EXCEPT !.state = completion.state]
           three == [two EXCEPT !.scored = completion.scored]
           new == [three EXCEPT !.recorded = time]
<1>2. /\ decision[s].status = "claimed" /\ decision[s].claimed <= time /\ time < Expires[s]
      /\ campaign.generation = decision[s].generation /\ campaign.state = decision[s].parent
      /\ campaign.inflight = s
  BY Zenon DEF CommitDecision, Completable, InWindow
<1>3. decision' = [decision EXCEPT ![s] = new]
  BY Zenon, <1>0 DEF CommitDecision, DailyTypeOK
<1>4. /\ new \in DecisionType /\ new.status = completion.status /\ new.state = completion.state
      /\ new.scored = completion.scored /\ new.recorded = time /\ new.claimed = decision[s].claimed
      /\ new.pins = decision[s].pins /\ new.generation = decision[s].generation /\ new.parent = decision[s].parent
  <2> DEFINE Keeps(d) == /\ d.claimed = decision[s].claimed /\ d.pins = decision[s].pins
                         /\ d.generation = decision[s].generation /\ d.parent = decision[s].parent
  <2>1. one \in DecisionType /\ one.status = completion.status /\ Keeps(one)
    BY Zenon, <1>a, <1>1 DEF DecisionType
  <2> HIDE DEF one
  <2>2. two \in DecisionType /\ two.status = completion.status /\ two.state = completion.state /\ Keeps(two)
    BY Zenon, <1>1, <2>1 DEF DecisionType
  <2> HIDE DEF two
  <2>3. /\ three \in DecisionType /\ three.status = completion.status /\ three.state = completion.state
        /\ three.scored = completion.scored /\ Keeps(three)
    BY Zenon, <1>1, <2>2 DEF DecisionType
  <2> HIDE DEF three
  <2> QED
    BY Zenon, <1>a, <2>3 DEF DecisionType
<1> HIDE DEF new
<1>5. decision' \in [Sessions -> DecisionType] /\ decision'[s] = new /\ \A t \in Sessions \ {s} : decision'[t] = decision[t]
  BY Zenon, <1>0, <1>3, <1>4 DEF DailyTypeOK
<1>6. /\ campaign' \in CampaignType /\ campaign'.inflight = NoSession /\ campaign'.last = campaign.last
      /\ campaign'.enrolled = campaign.enrolled
      /\ completion.state = NoState => campaign'.state = campaign.state /\ campaign'.generation = campaign.generation
      /\ completion.state # NoState => campaign'.state = s /\ campaign'.generation = campaign.generation + 1
  <2>1. CASE completion.state = NoState
    <3>1. campaign' = [campaign EXCEPT !.inflight = NoSession, !.state = campaign.state,
                                       !.generation = campaign.generation]
      BY <2>1, Zenon DEF CommitDecision, Advances
    <3> QED
      BY Zenon, <1>a, <2>1, <3>1 DEF CampaignType
  <2>2. CASE completion.state # NoState
    <3>0. PICK g \in Nat : g = campaign.generation + 1
      BY <1>a DEF CampaignType
    <3>1. campaign' = [campaign EXCEPT !.inflight = NoSession, !.state = s, !.generation = g]
      BY <1>1, <2>2, <3>0, Zenon DEF CommitDecision, Advances
    <3> QED
      BY Zenon, <1>a, <2>2, <3>0, <3>1 DEF CampaignType
  <2> QED
    BY Zenon, <2>1, <2>2
<1>7. \A t \in Links : t < s
  BY Zenon, <1>0, <1>2, <1>a DEF LineageHead
<1>8. decision[s].state = NoState
  BY Zenon, <1>0, <1>2 DEF DecisionSound, Committed
<1>9. IsFiniteSet(Links') /\ StateLineage' /\ LineageHead'
  <2>0. campaign'.inflight <= campaign'.last /\ campaign'.inflight = NoSession
    BY <1>6, <1>a DEF NoSession
  <2>1. CASE completion.state = NoState
    <3>1. Links' = Links /\ StateLineage'
      BY Zenon, <1>4, <1>5, <1>6, <1>8, <2>1, LineageKept
    <3>2. LineageHead'
      BY Zenon, <1>0, <1>6, <2>0, <2>1, <3>1 DEF LineageHead
    <3> QED
      BY Zenon, <1>0, <3>1, <3>2 DEF DailyTypeOK
  <2>2. CASE completion.state # NoState
    <3>0. completion.state = s
      BY Zenon, <1>1, <2>2
    <3>1. Links' = Links \cup {s} /\ IsFiniteSet(Links') /\ StateLineage'
      BY Zenon, <1>2, <1>4, <1>5, <1>6, <1>7, <2>2, <3>0, LineageGrows
    <3>2. s <= campaign.last /\ \A t \in Links' : t <= s
      <4>1. \A t \in Links : t \in Nat
        BY Zenon, SessionNumbers DEF Links
      <4> QED
        BY <1>0, <1>2, <1>7, <1>a, <3>1, <4>1 DEF LineageHead
    <3>3. LineageHead'
      <4>1. campaign'.state \in Links' /\ \A t \in Links' : t <= campaign'.state
        BY Zenon, <1>6, <2>2, <3>1, <3>2
      <4>2. \A t \in Links' : t <= campaign'.last
        BY Zenon, <1>0, <1>6, <3>1, <3>2 DEF LineageHead
      <4> QED
        BY Zenon, <2>0, <4>1, <4>2 DEF LineageHead
    <3> QED
      BY Zenon, <3>1, <3>3
  <2> QED
    BY Zenon, <2>1, <2>2
<1>10. DailyTypeOK'
  BY Zenon, <1>0, <1>5, <1>6, <1>9 DEF DailyTypeOK
<1>11. ASSUME NEW t \in Sessions PROVE DecisionSound(t)' /\ OutcomeSound(t)'
  <2>0. DecisionSound(t) /\ OutcomeSound(t) /\ t # NoSession
    BY Zenon, <1>0, SessionNumbers
  <2>1. CASE t = s
    <3>1. outcome[s] = NoOutcome /\ campaign.enrolled # Never /\ campaign.enrolled < NativeClose[s] /\ Ordered(s)
      BY Zenon, <1>2, <2>0, <2>1 DEF OutcomeSound, DecisionSound, Committed
    <3>2. time < OutcomeFrom[s]
      <4>1. Expires[s] \in Int /\ OutcomeFrom[s] \in Int /\ time \in Int
        BY Zenon, <1>a, DailyAssumption
      <4>2. Expires[s] < OutcomeFrom[s] /\ time < Expires[s]
        BY Zenon, <1>2, <3>1 DEF Ordered
      <4> QED
        BY <4>1, <4>2
    <3>3. OutcomeSound(s)'
      BY Zenon, <3>1 DEF OutcomeSound
    <3>4. DecisionSound(s)'
      <4>1. completion.status # "claimed" /\ campaign'.inflight # s
        BY Zenon, <1>1, <1>6, <1>a DEF Committed
      <4>2. \A c \in decision[s].pins : enrolledAt[c] # Never /\ enrolledAt[c] < NativeClose[s]
        BY Zenon, <2>0, <2>1 DEF DecisionSound
      <4> QED
        BY Zenon, <1>1, <1>2, <1>4, <1>5, <1>6, <3>1, <3>2, <4>1, <4>2 DEF DecisionSound
    <3> QED
      BY Zenon, <2>1, <3>3, <3>4
  <2>2. CASE t # s
    <3>1. decision'[t] = decision[t] /\ campaign'.inflight # t /\ campaign.inflight # t
      BY Zenon, <1>2, <1>5, <1>6, <2>0, <2>2
    <3> QED
      BY Zenon, <1>6, <2>0, <3>1 DEF DecisionSound, OutcomeSound
  <2> QED
    BY Zenon, <2>1, <2>2
<1> QED
  BY Zenon, <1>9, <1>10, <1>11 DEF DailyInv

\* finish_decision: committed, or too late and kept aside.
LEMMA FinishDaily ==
    ASSUME DailyInv, NEW s \in Sessions, finish_decision(s)
    PROVE  DailyInv'
<1>0. DailyTypeOK /\ \A t \in Sessions : DecisionSound(t) /\ OutcomeSound(t)
  BY Zenon DEF DailyInv
<1>1. UNCHANGED <<time, enrolledAt, outcome, deciding, measuring>>
  BY Zenon DEF finish_decision
<1>2. PICK completion \in Completions(s) : CommitDecision(s, completion) \/ LateDecision(s, completion)
  BY Zenon DEF finish_decision
<1>3. CASE CommitDecision(s, completion)
  BY Zenon, <1>1, <1>3, CommitDaily
<1>4. CASE LateDecision(s, completion) /\ decision[s].status = "claimed"
  <2>1. /\ campaign.inflight = s /\ campaign' = Released(campaign, s)
        /\ decision' = [decision EXCEPT ![s] = Interrupted(decision[s], time)]
    BY Zenon, <1>0, <1>4 DEF LateDecision, DecisionSound
  <2>2. outcome' \in [Sessions -> OutcomeType]
    BY Zenon, <1>0, <1>1 DEF DailyTypeOK
  <2> QED
    BY Zenon, <1>1, <2>1, <2>2, InterruptDaily
<1>5. CASE LateDecision(s, completion) /\ decision[s].status # "claimed"
  <2>1. decision' = decision /\ campaign' = campaign
    BY Zenon, <1>5 DEF LateDecision
  <2>2. Links' = Links /\ IsFiniteSet(Links') /\ StateLineage' /\ LineageHead'
    BY Zenon, <2>1, LineageQuiet
  <2>3. DailyTypeOK'
    BY Zenon, <1>0, <1>1, <2>1, <2>2 DEF DailyTypeOK
  <2>4. ASSUME NEW t \in Sessions PROVE DecisionSound(t)' /\ OutcomeSound(t)'
    BY Zenon, <1>0, <1>1, <2>1 DEF DecisionSound, OutcomeSound
  <2> QED
    BY Zenon, <2>2, <2>3, <2>4 DEF DailyInv
<1> QED
  BY Zenon, <1>2, <1>3, <1>4, <1>5

\* A campaign's records are evidence for any number of sessions and comparisons, whatever worker
\* stalls, dies or repeats and however the clock is set (claim_decision, finish_decision, claim_outcome).
THEOREM DailyCampaignSound == DailySpec => []CampaignSound
<1>1. DailyInv /\ [DailyNext]_dailyVars => DailyInv'
  BY Zenon, EnrolDaily, ExpireDaily, ClaimDaily, FinishDaily, OutcomeDaily DEF DailyNext
<1>2. DailyInv => CampaignSound
  BY Zenon DEF DailyInv, CampaignSound, NoHindsight, DecisionSound, OutcomeSound, Committed
<1> QED
  BY <1>1, <1>2, DailyInitInv, PTL DEF DailySpec

-----------------------------------------------------------------------------
(* The session decisions. *)

-----------------------------------------------------------------------------
(* Least and greatest elements. *)

\* A set of natural numbers that is not empty has a least element.
LEMMA LeastNat ==
    ASSUME NEW S, S \subseteq Nat, S # {}
    PROVE  \E n \in S : \A m \in S : n <= m
<1> DEFINE R == OpToRel(<, Nat)
<1>1. IsWellFoundedOn(R, Nat)
  BY NatLessThanWellFounded, Zenon
<1>2. \A a, b \in Nat : a < b => <<a, b>> \in R
  BY Zenon DEF OpToRel
<1> HIDE DEF R
<1>3. \E x \in S : \A y \in S : ~ (<<y, x>> \in R)
  BY Zenon, <1>1, WFMin
<1>4. PICK n \in S : \A y \in S : ~ (<<y, n>> \in R)
  BY <1>3, Zenon
<1>5. ASSUME NEW m \in S PROVE n <= m
  <2>1. n \in Nat /\ m \in Nat
    BY Zenon
  <2>2. ~ (m < n)
    BY <2>1, <1>2, <1>4, Zenon
  <2> QED
    BY <2>1, <2>2
<1> QED
  BY Zenon, <1>5

\* A finite set of natural numbers that is not empty has a greatest element, which is its Max: of
\* the counts of what is above an element, the least is zero.
LEMMA MaxOfFinite ==
    ASSUME NEW S, S \subseteq Nat, S # {}, IsFiniteSet(S)
    PROVE  Max(S) \in S /\ \A y \in S : Max(S) >= y
<1> DEFINE Above(x) == {y \in S : y > x}
           Counts == {Cardinality(Above(x)) : x \in S}
<1>1. \A x \in S : IsFiniteSet(Above(x)) /\ Cardinality(Above(x)) \in Nat
  <2> SUFFICES ASSUME NEW x \in S PROVE IsFiniteSet(Above(x)) /\ Cardinality(Above(x)) \in Nat
    BY Zenon
  <2>1. Above(x) \in SUBSET S
    BY Zenon
  <2> HIDE DEF Above
  <2>2. IsFiniteSet(Above(x))
    BY <2>1, FS_Subset, Zenon
  <2> QED
    BY <2>2, FS_CardinalityType, Zenon
<1>2. Counts \subseteq Nat /\ Counts # {}
  BY <1>1, Zenon
<1>3. PICK n \in Counts : \A m \in Counts : n <= m
  BY <1>2, LeastNat, Zenon
<1>4. PICK x \in S : n = Cardinality(Above(x))
  BY <1>3, Zenon
<1>5. ASSUME NEW y \in S, y > x PROVE FALSE
  <2>0. x \in Nat /\ y \in Nat
    BY Zenon
  <2>a. ~ (y > y) /\ \A z \in S : z \in Nat /\ (z > y => z > x)
    BY <1>5, <2>0
  <2>1. Above(y) \in SUBSET Above(x) /\ y \in Above(x) /\ y \notin Above(y)
    BY <1>5, <2>a, Zenon
  <2>2. Cardinality(Above(y)) \in Counts
    BY Zenon
  <2>3. Cardinality(Above(x)) <= Cardinality(Above(y))
    BY <1>3, <1>4, <2>2, Zenon
  <2>4. IsFiniteSet(Above(x)) /\ Cardinality(Above(x)) \in Nat /\ Cardinality(Above(y)) \in Nat
    BY <1>1, Zenon
  <2> HIDE DEF Above, Counts
  <2>5. /\ Cardinality(Above(y)) <= Cardinality(Above(x))
        /\ Cardinality(Above(x)) = Cardinality(Above(y)) => Above(x) = Above(y)
    BY <2>1, <2>4, FS_Subset, Zenon
  <2>6. Cardinality(Above(x)) = Cardinality(Above(y))
    BY <2>3, <2>4, <2>5
  <2> QED
    BY <2>1, <2>5, <2>6, Zenon
<1>6. \A y \in S : x >= y
  <2> SUFFICES ASSUME NEW y \in S PROVE x >= y
    BY Zenon
  <2>1. x \in Nat /\ y \in Nat /\ ~ (y > x)
    BY Zenon, <1>5
  <2> QED
    BY <2>1
<1> QED
  BY <1>6, Zenon DEF Max

-----------------------------------------------------------------------------
(* Session decisions: SessionDecisions. *)

CursorType ==
    [generation : Int, checked_at : Int, enrolled_at : Int, gap : Int \X Int, calendar : SUBSET Int]
ClaimStatuses == {"missed", "superseded", "claimed"}
DecidedType ==
    [status : ClaimStatuses \cup {"none", "interrupted", "scored", "unavailable"}, generation : Int, claimed_at : Int]
ServiceType ==
    [step : {"idle", "started", "polled", "planning", "claimed", "excluded", "scored"}, now : Int, generation : Int,
     previous : CursorType, window : Bars \cup {0}, evidence : {"none", "scored", "unavailable"}]

SessionTypeOK ==
    /\ instant \in 0..LastInstant /\ generation \in Nat
    /\ cursor \in CursorType
    /\ decided \in [Bars -> DecidedType]
    /\ service \in [Services -> ServiceType]

\* A service that polls has read the clock, past its claim it has a window, and past _capture one
\* whose exposure is durable.
ServiceSound(p) ==
    /\ service[p].step \in {"started", "polled", "planning"} => service[p].now \in 0..LastInstant
    /\ service[p].step \in {"claimed", "excluded", "scored"} => service[p].window \in Bars
    /\ service[p].step \in {"excluded", "scored"} => service[p].window \in excluded
    /\ service[p].step = "scored" => service[p].evidence \in {"scored", "unavailable"}

SessionInv ==
    /\ SessionTypeOK /\ WindowsAccounted /\ priced \subseteq excluded
    /\ \A p \in Services : ServiceSound(p)

\* The windows a poll takes are the first of those that are due.
LEMMA TakenFirst ==
    ASSUME NEW due \in SUBSET Bars, NEW taken,
           taken = {w \in due : Cardinality({v \in due : v < w}) < Limit}, taken # due
    PROVE  /\ Max(taken) \in taken /\ AvailableAt[Max(taken)] \in Int
           /\ \A w \in due \ taken : AvailableAt[Max(taken)] < AvailableAt[w]
<1>0. Bars \subseteq Nat /\ IsFiniteSet(Bars) /\ Limit \in Nat \ {0}
  BY SessionAssumption, Zenon
<1>1. \A w \in due : IsFiniteSet({v \in due : v < w}) /\ Cardinality({v \in due : v < w}) \in Nat
  <2> SUFFICES ASSUME NEW w \in due PROVE IsFiniteSet({v \in due : v < w}) /\ Cardinality({v \in due : v < w}) \in Nat
    BY Zenon
  <2>1. {v \in due : v < w} \in SUBSET Bars
    BY Zenon
  <2>2. IsFiniteSet({v \in due : v < w})
    BY <1>0, <2>1, FS_Subset, Zenon
  <2> QED
    BY <2>2, FS_CardinalityType, Zenon
<1>2. ASSUME NEW t \in taken, NEW w \in due \ taken PROVE t < w
  <2>0. t \in Nat /\ w \in Nat /\ t \in due
    BY Zenon, <1>0
  <2>1. CASE w < t
    <3>1. \A v \in due : v < w => v < t
      BY <1>0, <2>0, <2>1
    <3>2. {v \in due : v < w} \in SUBSET {v \in due : v < t}
      BY <3>1, Zenon
    <3>3. Cardinality({v \in due : v < w}) <= Cardinality({v \in due : v < t})
      BY <1>1, <2>0, <3>2, FS_Subset, Zenon
    <3>4. Cardinality({v \in due : v < t}) < Limit /\ ~ (Cardinality({v \in due : v < w}) < Limit)
      BY Zenon
    <3>5. Cardinality({v \in due : v < t}) \in Nat /\ Cardinality({v \in due : v < w}) \in Nat
      BY <1>1, <2>0, Zenon
    <3> QED
      BY <1>0, <3>3, <3>4, <3>5
  <2>2. w # t
    BY Zenon
  <2> QED
    BY <2>0, <2>1, <2>2
<1>3. taken # {}
  <2>1. due \subseteq Nat /\ due # {}
    BY Zenon, <1>0
  <2>2. PICK n \in due : \A m \in due : n <= m
    BY <2>1, LeastNat, Zenon
  <2>3. \A v \in due : ~ (v < n)
    BY <1>0, <2>1, <2>2
  <2>4. {v \in due : v < n} = {}
    BY <2>3, Zenon
  <2>5. Cardinality({}) = 0
    BY FS_EmptySet, Zenon
  <2>6. 0 < Limit
    BY <1>0
  <2>7. n \in taken
    BY <2>4, <2>5, <2>6, Zenon
  <2> QED
    BY Zenon, <2>7
<1>4. taken \subseteq Nat /\ IsFiniteSet(taken)
  <2>1. taken \in SUBSET Bars
    BY Zenon
  <2> QED
    BY <1>0, <2>1, FS_Subset, Zenon
<1>5. Max(taken) \in taken
  BY <1>3, <1>4, MaxOfFinite, Zenon
<1> QED
  BY Zenon, <1>2, <1>5, SessionAssumption

\* The first midnight of a poll's calendar, and the prompt windows that became available after it:
\* their sessions are in the calendar (Start, Calendar).
LEMMA CalendarCovers ==
    ASSUME NEW now \in 0..LastInstant
    PROVE  /\ now \in Int /\ Midnight[Start(now)] \in Int /\ Calendar(now) \subseteq Int
           /\ \A w \in Bars : Prompt(w) /\ Midnight[Start(now)] < AvailableAt[w] /\ AvailableAt[w] <= now
                             => SessionOf[w] \in Calendar(now)
<1>1. now \in Int /\ DateOf[now] \in Int /\ Start(now) \in Dates /\ Start(now) \in Int
  <2>1. LastInstant \in Nat /\ HistoryDays \in Nat /\ Dates \subseteq Int
    BY Zenon, CalendarAssumption
  <2>2. DateOf[now] \in Dates /\ Start(now) \in Dates
    BY Zenon, CalendarAssumption DEF Start
  <2>3. now \in Int
    BY <2>1
  <2> QED
    BY Zenon, <2>1, <2>2, <2>3
<1>2. Midnight[Start(now)] \in Int
  BY Zenon, <1>1, CalendarAssumption
<1>3. ASSUME NEW w \in Bars, Prompt(w), Midnight[Start(now)] < AvailableAt[w], AvailableAt[w] <= now
      PROVE  SessionOf[w] \in Calendar(now)
  <2>1. /\ SessionOf[w] \in Dates /\ Midnight[SessionOf[w]] <= AvailableAt[w] /\ AvailableAt[w] \in Int
        /\ SessionOf[w] \in Int /\ Midnight[SessionOf[w]] \in Int
    BY Zenon, SessionAssumption, CalendarAssumption
  <2>2. SessionOf[w] <= DateOf[now]
    <3>1. Midnight[SessionOf[w]] <= now
      BY <1>1, <1>3, <2>1
    <3> QED
      BY Zenon, <2>1, <3>1, CalendarAssumption
  <2>3. ~ (SessionOf[w] < Start(now))
    <3>1. SessionOf[w] < Start(now) => AvailableAt[w] <= Midnight[Start(now)]
      BY Zenon, <1>1, <1>3 DEF Prompt
    <3> QED
      BY <1>2, <1>3, <2>1, <3>1
  <2>4. SessionOf[w] \in Start(now)..DateOf[now]
    BY <1>1, <2>1, <2>2, <2>3
  <2> QED
    BY Zenon, <2>4 DEF Calendar
<1>4. Calendar(now) \subseteq Int
  BY <1>1 DEF Calendar
<1> QED
  BY Zenon, <1>1, <1>2, <1>3, <1>4

\* decision_plan: a new enrolment starts where it is; otherwise a prompt window between the old
\* and the new cursor is claimed, or in the gap the new cursor names.
LEMMA PlanCovers ==
    ASSUME NEW previous \in CursorType, NEW current \in Int, NEW now \in 0..LastInstant, NEW plan,
           plan = decision_plan(previous, current, now)
    PROVE  /\ plan.cursor \in CursorType
           /\ DOMAIN plan.claims \subseteq Bars
           /\ \A w \in DOMAIN plan.claims : plan.claims[w] \in ClaimStatuses
           /\ previous = NoCursor \/ previous.generation # current =>
                 plan.cursor.enrolled_at = plan.cursor.checked_at
           /\ ~ (previous = NoCursor \/ previous.generation # current) =>
                 /\ plan.cursor.enrolled_at = previous.enrolled_at
                 /\ \A w \in Bars :
                       Prompt(w) /\ previous.checked_at < AvailableAt[w] /\ AvailableAt[w] <= plan.cursor.checked_at
                       => \/ w \in DOMAIN plan.claims
                          \/ plan.cursor.gap[1] < AvailableAt[w] /\ AvailableAt[w] <= plan.cursor.gap[2]
<1>0. previous.checked_at \in Int /\ previous.enrolled_at \in Int /\ previous.gap \in Int \X Int
  BY Zenon DEF CursorType
<1>a. /\ now \in Int /\ Midnight[Start(now)] \in Int /\ Calendar(now) \in SUBSET Int
      /\ \A w \in Bars : Prompt(w) /\ Midnight[Start(now)] < AvailableAt[w] /\ AvailableAt[w] <= now
                        => SessionOf[w] \in Calendar(now)
  BY Zenon, CalendarCovers
<1>1. CASE previous = NoCursor \/ previous.generation # current
  <2>1. /\ plan.cursor = [generation |-> current, checked_at |-> now, enrolled_at |-> now,
                          gap |-> IF previous = NoCursor THEN NoGap ELSE <<previous.checked_at, now>>,
                          calendar |-> Calendar(now)]
        /\ plan.claims = [w \in {} |-> "none"]
    BY Zenon, <1>1 DEF decision_plan
  <2>2. (IF previous = NoCursor THEN NoGap ELSE <<previous.checked_at, now>>) \in Int \X Int
    BY <1>0, <1>a DEF NoGap
  <2> DEFINE gap == IF previous = NoCursor THEN NoGap ELSE <<previous.checked_at, now>>
  <2> HIDE DEF gap
  <2>3. /\ plan.cursor = [generation |-> current, checked_at |-> now, enrolled_at |-> now, gap |-> gap,
                          calendar |-> Calendar(now)]
        /\ gap \in Int \X Int
    BY Zenon, <2>1, <2>2 DEF gap
  <2>4. plan.cursor \in CursorType /\ plan.cursor.enrolled_at = plan.cursor.checked_at
    BY SMTT(20), <1>a, <2>3 DEF CursorType
  <2>5. DOMAIN plan.claims = {}
    BY Zenon, <2>1
  <2> QED
    BY Zenon, <1>1, <2>4, <2>5
<1>2. CASE ~ (previous = NoCursor \/ previous.generation # current)
  <2> DEFINE floor == Midnight[Start(now)]
             since == IF previous.checked_at < floor THEN floor ELSE previous.checked_at
             due == {w \in Bars : /\ SessionOf[w] \in Calendar(now)
                                  /\ since < AvailableAt[w] /\ AvailableAt[w] <= now}
             taken == {w \in due : Cardinality({v \in due : v < w}) < Limit}
             status(w) == IF now >= ExpiresAt[w] THEN "missed"
                          ELSE IF w # Max(due) THEN "superseded" ELSE "claimed"
             gap == IF previous.checked_at < floor THEN <<previous.checked_at, floor>> ELSE previous.gap
  <2>1. /\ plan.cursor = [generation |-> current, checked_at |-> CheckedAt(taken, due, now),
                          enrolled_at |-> previous.enrolled_at, gap |-> gap, calendar |-> Calendar(now)]
        /\ plan.claims = [w \in taken |-> status(w)]
    BY Zenon, <1>2 DEF decision_plan
  <2>2. \A w \in taken : status(w) \in ClaimStatuses
    BY Zenon DEF ClaimStatuses
  <2>3. floor \in Int /\ gap \in Int \X Int
    BY <1>0, <1>a
  <2>a. since \in Int /\ since >= previous.checked_at
    BY <1>0, <2>3
  <2>b. due \in SUBSET Bars /\ taken \subseteq due /\ \A w \in due : AvailableAt[w] <= now
    BY Zenon
  <2>c. \A w \in Bars : AvailableAt[w] \in Int
    BY Zenon, SessionAssumption
  <2>d. ASSUME NEW w \in Bars, Prompt(w), previous.checked_at < AvailableAt[w], AvailableAt[w] <= now
        PROVE  w \in due \/ (gap[1] < AvailableAt[w] /\ AvailableAt[w] <= gap[2])
    <3>0. AvailableAt[w] \in Int
      BY Zenon, <2>c
    <3>1. CASE previous.checked_at < floor /\ AvailableAt[w] <= floor
      BY <1>0, <2>3, <2>d, <3>0, <3>1
    <3>2. CASE floor < AvailableAt[w]
      <4>1. since < AvailableAt[w]
        BY <2>d, <3>2
      <4> QED
        BY Zenon, <1>a, <2>d, <3>2, <4>1
    <3>3. CASE ~ (previous.checked_at < floor)
      <4>1. floor < AvailableAt[w] /\ since < AvailableAt[w]
        BY <1>0, <2>3, <2>d, <3>0, <3>3
      <4> QED
        BY Zenon, <1>a, <2>d, <4>1
    <3> QED
      BY <1>0, <2>3, <3>0, <3>1, <3>2, <3>3
  <2>4. CASE taken = due
    <3>1. CheckedAt(taken, due, now) = now
      BY Zenon, <2>4 DEF CheckedAt
    <3> HIDE DEF status, taken
    <3>2. plan.cursor \in CursorType
      BY <1>0, <1>a, <2>1, <2>3, <3>1 DEF CursorType
    <3> HIDE DEF due, gap, since
    <3>4. /\ plan.cursor.enrolled_at = previous.enrolled_at /\ plan.cursor.checked_at = now
          /\ plan.cursor.gap = gap
      BY SMTT(20), <2>1, <3>1
    <3>5. DOMAIN plan.claims = taken /\ \A w \in taken : plan.claims[w] = status(w)
      BY Zenon, <2>1
    <3>6. DOMAIN plan.claims \subseteq Bars /\ \A w \in DOMAIN plan.claims : plan.claims[w] \in ClaimStatuses
      BY Zenon, <2>2, <2>b, <3>5
    <3>7. ASSUME NEW w \in Bars, Prompt(w), previous.checked_at < AvailableAt[w], AvailableAt[w] <= plan.cursor.checked_at
          PROVE  \/ w \in DOMAIN plan.claims
                 \/ plan.cursor.gap[1] < AvailableAt[w] /\ AvailableAt[w] <= plan.cursor.gap[2]
      BY Zenon, <2>4, <2>d, <3>4, <3>5, <3>7
    <3> QED
      BY Zenon, <1>2, <3>2, <3>4, <3>6, <3>7
  <2>5. CASE taken # due
    <3>0. PICK some \in SUBSET due : some = taken
      BY Zenon
    <3>a. PICK owed \in SUBSET Bars : owed = due
      BY <2>b, Zenon
    <3>1. /\ Max(taken) \in taken /\ AvailableAt[Max(taken)] \in Int
          /\ \A w \in due \ taken : AvailableAt[Max(taken)] < AvailableAt[w]
      <4>1. some = {w \in owed : Cardinality({v \in owed : v < w}) < Limit} /\ some # owed
        BY <2>5, <3>0, <3>a, Zenon
      <4>2. /\ Max(some) \in some /\ AvailableAt[Max(some)] \in Int
            /\ \A w \in owed \ some : AvailableAt[Max(some)] < AvailableAt[w]
        BY <4>1, TakenFirst, Zenon
      <4> QED
        BY <3>0, <3>a, <4>2, Zenon
    <3>2. CheckedAt(taken, due, now) = AvailableAt[Max(taken)]
      BY Zenon, <2>5 DEF CheckedAt
    <3> HIDE DEF status, taken
    <3>3. plan.cursor \in CursorType
      BY SMTT(20), <1>0, <1>a, <2>1, <2>3, <3>1, <3>2 DEF CursorType
    <3>b. AvailableAt[Max(taken)] <= now
      BY Zenon, <2>b, <3>1
    <3>4. ASSUME NEW w \in Bars, Prompt(w), previous.checked_at < AvailableAt[w], AvailableAt[w] <= AvailableAt[Max(taken)]
          PROVE  w \in taken \/ (gap[1] < AvailableAt[w] /\ AvailableAt[w] <= gap[2])
      <4>1. AvailableAt[w] <= now
        BY <1>a, <2>c, <3>1, <3>4, <3>b
      <4>2. w \in due \/ (gap[1] < AvailableAt[w] /\ AvailableAt[w] <= gap[2])
        BY Zenon, <2>d, <3>4, <4>1
      <4>3. w \in due => w \in taken
        BY <2>c, <3>1, <3>4
      <4> QED
        BY Zenon, <4>2, <4>3
    <3> HIDE DEF due, gap, since
    <3>5. /\ plan.cursor.enrolled_at = previous.enrolled_at
          /\ plan.cursor.checked_at = AvailableAt[Max(taken)] /\ plan.cursor.gap = gap
      BY SMTT(20), <2>1, <3>2
    <3>6. DOMAIN plan.claims = taken /\ \A w \in taken : plan.claims[w] = status(w)
      BY Zenon, <2>1
    <3>7. DOMAIN plan.claims \subseteq Bars /\ \A w \in DOMAIN plan.claims : plan.claims[w] \in ClaimStatuses
      BY Zenon, <2>2, <2>b, <3>6
    <3>8. ASSUME NEW w \in Bars, Prompt(w), previous.checked_at < AvailableAt[w], AvailableAt[w] <= plan.cursor.checked_at
          PROVE  \/ w \in DOMAIN plan.claims
                 \/ plan.cursor.gap[1] < AvailableAt[w] /\ AvailableAt[w] <= plan.cursor.gap[2]
      BY Zenon, <3>4, <3>5, <3>6, <3>8
    <3> QED
      BY Zenon, <1>2, <3>3, <3>5, <3>7, <3>8
  <2> QED
    BY Zenon, <2>4, <2>5
<1> QED
  BY Zenon, <1>1, <1>2

\* Where a service rests.
LEMMA RestingType == Resting \in ServiceType /\ NoCursor \in CursorType /\ Undecided \in DecidedType
<1>1. NoCursor \in CursorType
  BY DEF NoCursor, CursorType, NoGap
<1>2. Undecided \in DecidedType
  BY DEF Undecided, DecidedType
<1> QED
  BY <1>1, <1>2 DEF Resting, ServiceType

\* Before the first poll nothing is claimed and the journal has no cursor (SessionInit).
LEMMA SessionInitInv == SessionInit => SessionInv
<1> SUFFICES ASSUME SessionInit PROVE SessionInv
  BY Zenon
<1>1. SessionTypeOK
  <2>1. 0 \in 0..LastInstant /\ 0 \in Nat
    BY CalendarAssumption
  <2> QED
    BY Zenon, <2>1, RestingType DEF SessionInit, SessionTypeOK
<1>2. WindowsAccounted
  <2>1. pending = {w \in Bars : decided[w].status = "claimed"}
    BY Zenon DEF SessionInit, Undecided
  <2>2. cursor.enrolled_at = -1 /\ cursor.checked_at = -1
    BY Zenon DEF SessionInit, NoCursor
  <2>3. ASSUME NEW w \in Bars
        PROVE  ~ (cursor.enrolled_at < AvailableAt[w] /\ AvailableAt[w] <= cursor.checked_at)
    <3>1. AvailableAt[w] \in Int
      BY Zenon, SessionAssumption
    <3> QED
      BY <2>2, <3>1
  <2> QED
    BY Zenon, <2>1, <2>3 DEF WindowsAccounted
<1>3. priced \subseteq excluded /\ \A p \in Services : ServiceSound(p)
  BY Zenon DEF SessionInit, ServiceSound, Resting
<1> QED
  BY Zenon, <1>1, <1>2, <1>3 DEF SessionInv

\* A step of one service, the others as they were.
LEMMA ServiceStep ==
    ASSUME SessionInv, NEW p \in Services, NEW new \in ServiceType, service' = [service EXCEPT ![p] = new],
           excluded \subseteq excluded',
           new.step \in {"started", "polled", "planning"} => new.now \in 0..LastInstant,
           new.step \in {"claimed", "excluded", "scored"} => new.window \in Bars,
           new.step \in {"excluded", "scored"} => new.window \in excluded',
           new.step = "scored" => new.evidence \in {"scored", "unavailable"}
    PROVE  service' \in [Services -> ServiceType] /\ \A q \in Services : ServiceSound(q)'
<1>1. /\ service' \in [Services -> ServiceType] /\ service'[p] = new
      /\ \A q \in Services \ {p} : service'[q] = service[q]
  BY Zenon DEF SessionInv, SessionTypeOK
<1>2. \A q \in Services : ServiceSound(q)
  BY Zenon DEF SessionInv
<1>3. ServiceSound(p)'
  BY Zenon, <1>1 DEF ServiceSound
<1>4. \A q \in Services \ {p} : ServiceSound(q)'
  BY Zenon, <1>1, <1>2 DEF ServiceSound
<1> QED
  BY Zenon, <1>1, <1>3, <1>4

\* A step that leaves the journal's decisions and cursor.
LEMMA JournalSame ==
    ASSUME SessionInv, UNCHANGED <<cursor, decided, pending, gaps>>, instant' \in 0..LastInstant, generation' \in Nat,
           priced' \subseteq excluded, excluded \subseteq excluded',
           service' \in [Services -> ServiceType], \A q \in Services : ServiceSound(q)'
    PROVE  SessionInv' /\ DecidedOnce
<1>1. WindowsAccounted /\ SessionTypeOK
  BY Zenon DEF SessionInv
<1>2. WindowsAccounted'
  BY Zenon, <1>1 DEF WindowsAccounted
<1>3. SessionTypeOK'
  BY Zenon, <1>1 DEF SessionTypeOK
<1>4. DecidedOnce
  BY Zenon DEF DecidedOnce
<1> QED
  BY Zenon, <1>2, <1>3, <1>4 DEF SessionInv

\* The clock, the registry and the steps of a service between its journal writes.
LEMMA QuietSession ==
    ASSUME SessionInv,
           \/ TimePasses \/ RegistryChanges
           \/ \E p \in Services : \/ PollStarts(p) \/ ReadCursor(p) \/ PollRefused(p) \/ _capture(p)
                                 \/ _read_and_score(p) \/ ServiceDies(p)
    PROVE  SessionInv' /\ DecidedOnce
<1>0. SessionTypeOK /\ priced \subseteq excluded /\ \A p \in Services : ServiceSound(p) /\ service[p] \in ServiceType
  BY Zenon DEF SessionInv, SessionTypeOK
<1>1. CASE TimePasses \/ RegistryChanges
  <2>1. /\ UNCHANGED <<cursor, decided, pending, excluded, service, gaps, priced>>
        /\ instant' \in 0..LastInstant /\ generation' \in Nat
    BY <1>0, <1>1, CalendarAssumption DEF TimePasses, RegistryChanges, SessionTypeOK
  <2>2. service' \in [Services -> ServiceType] /\ \A q \in Services : ServiceSound(q)'
    BY Zenon, <1>0, <2>1 DEF SessionTypeOK, ServiceSound
  <2>3. priced' \subseteq excluded /\ excluded \subseteq excluded'
    BY Zenon, <1>0, <2>1
  <2> QED
    BY Zenon, <2>1, <2>2, <2>3, JournalSame
<1>2. ASSUME NEW p \in Services,
             \/ PollStarts(p) \/ ReadCursor(p) \/ PollRefused(p) \/ _capture(p) \/ _read_and_score(p) \/ ServiceDies(p)
      PROVE  SessionInv' /\ DecidedOnce
  <2>0. UNCHANGED <<cursor, decided, pending, gaps>> /\ instant' \in 0..LastInstant /\ generation' \in Nat
    BY Zenon, <1>0, <1>2 DEF PollStarts, ReadCursor, PollRefused, _capture, _read_and_score, ServiceDies, SessionTypeOK
  <2>1. priced' \subseteq excluded /\ excluded \subseteq excluded'
    BY <1>0, <1>2 DEF PollStarts, ReadCursor, PollRefused, _capture, _read_and_score, ServiceDies, ServiceSound
  <2>2. service' \in [Services -> ServiceType] /\ \A q \in Services : ServiceSound(q)'
    <3>1. CASE PollRefused(p) \/ ServiceDies(p)
      <4>1. service' = [service EXCEPT ![p] = Resting]
        BY Zenon, <3>1 DEF PollRefused, ServiceDies
      <4>2. Resting.step = "idle"
        BY Zenon DEF Resting
      <4> QED
        BY Zenon, <2>1, <4>1, <4>2, RestingType, ServiceStep
    <3>2. CASE ReadCursor(p)
      <4> DEFINE one == [service[p] EXCEPT !.step = "planning"]
                 half == [one EXCEPT !.generation = generation]
                 new == [half EXCEPT !.previous = cursor]
      <4>0. one \in ServiceType /\ one.step = "planning" /\ one.now \in 0..LastInstant
        BY Zenon, <1>0, <3>2 DEF ServiceType, ServiceSound, ReadCursor
      <4>a. generation \in Int
        BY <1>0 DEF SessionTypeOK
      <4>2. service' = [service EXCEPT ![p] = new]
        BY Zenon, <1>0, <3>2 DEF ReadCursor, SessionTypeOK
      <4> HIDE DEF one
      <4>1. half \in ServiceType /\ half.step = "planning" /\ half.now \in 0..LastInstant
        BY Zenon, <4>0, <4>a DEF ServiceType
      <4> HIDE DEF half
      <4>3. new \in ServiceType /\ new.step = "planning" /\ new.now \in 0..LastInstant
        BY Zenon, <1>0, <4>1 DEF ServiceType, SessionTypeOK
      <4> HIDE DEF new
      <4> QED
        BY Zenon, <2>1, <4>2, <4>3, ServiceStep
    <3>3. CASE _capture(p)
      <4> DEFINE new == [service[p] EXCEPT !.step = "excluded"]
      <4>1. new \in ServiceType /\ new.step = "excluded" /\ new.window = service[p].window
        BY Zenon, <1>0 DEF ServiceType
      <4>2. service' = [service EXCEPT ![p] = new] /\ service[p].window \in excluded' /\ service[p].window \in Bars
        BY Zenon, <1>0, <3>3 DEF _capture, SessionTypeOK, ServiceSound
      <4> HIDE DEF new
      <4> QED
        BY Zenon, <2>1, <4>1, <4>2, ServiceStep
    <3>4. CASE _read_and_score(p)
      <4>1. PICK evidence \in {"scored", "unavailable"} :
               service' = [service EXCEPT ![p].step = "scored", ![p].evidence = evidence]
        BY Zenon, <3>4 DEF _read_and_score
      <4> DEFINE half == [service[p] EXCEPT !.step = "scored"]
                 new == [half EXCEPT !.evidence = evidence]
      <4>2. half \in ServiceType /\ half.step = "scored" /\ half.window = service[p].window
        BY Zenon, <1>0 DEF ServiceType
      <4>3. service' = [service EXCEPT ![p] = new]
        BY Zenon, <1>0, <4>1 DEF SessionTypeOK
      <4> HIDE DEF half
      <4>4. new \in ServiceType /\ new.step = "scored" /\ new.window = service[p].window /\ new.evidence = evidence
        BY Zenon, <4>2 DEF ServiceType
      <4> HIDE DEF new
      <4>5. service[p].window \in Bars /\ service[p].window \in excluded'
        BY Zenon, <1>0, <2>1, <3>4 DEF _read_and_score, ServiceSound
      <4> QED
        BY Zenon, <2>1, <4>3, <4>4, <4>5, ServiceStep
    <3>5. CASE PollStarts(p)
      <4> DEFINE half == [service[p] EXCEPT !.step = "started"]
                 new == [half EXCEPT !.now = instant]
      <4>0. instant \in 0..LastInstant /\ instant \in Int
        BY <1>0 DEF SessionTypeOK
      <4>1. half \in ServiceType /\ half.step = "started"
        BY Zenon, <1>0 DEF ServiceType
      <4>2. service' = [service EXCEPT ![p] = new]
        BY Zenon, <1>0, <3>5 DEF PollStarts, SessionTypeOK
      <4> HIDE DEF half
      <4>3. new \in ServiceType /\ new.step = "started" /\ new.now = instant
        BY Zenon, <4>0, <4>1 DEF ServiceType
      <4> HIDE DEF new
      <4> QED
        BY Zenon, <2>1, <4>0, <4>2, <4>3, ServiceStep
    <3> QED
      BY Zenon, <1>2, <3>1, <3>2, <3>3, <3>4, <3>5
  <2> QED
    BY Zenon, <2>0, <2>1, <2>2, JournalSame
<1> QED
  BY Zenon, <1>1, <1>2

\* A start of run_once: what has expired is interrupted, and only what was claimed.
LEMMA ExpireStep ==
    ASSUME SessionInv, NEW p \in Services, expire_session_decisions(p)
    PROVE  SessionInv' /\ DecidedOnce
<1>0. SessionTypeOK /\ WindowsAccounted /\ priced \subseteq excluded
  BY Zenon DEF SessionInv
<1>a. UNCHANGED <<instant, generation, cursor, excluded, gaps, priced>>
  BY Zenon DEF expire_session_decisions
<1> DEFINE expired == {w \in pending : ExpiresAt[w] <= service[p].now}
<1>1. \A w \in expired : w \in Bars /\ decided[w].status = "claimed"
  BY Zenon, <1>0 DEF WindowsAccounted
<1>2. /\ pending' = pending \ expired
      /\ decided' = [w \in Bars |->
            IF w \in expired THEN [decided[w] EXCEPT !.status = "interrupted"] ELSE decided[w]]
  BY Zenon DEF expire_session_decisions
<1>b. expired \subseteq pending
  BY Zenon
<1> HIDE DEF expired
<1>3. \A w \in expired :
         /\ decided'[w] \in DecidedType /\ decided'[w].status = "interrupted"
         /\ decided'[w].claimed_at = decided[w].claimed_at /\ decided'[w] # Undecided
  BY Zenon, <1>0, <1>1, <1>2 DEF SessionTypeOK, DecidedType, Undecided
<1>4. \A w \in Bars \ expired : decided'[w] = decided[w]
  BY Zenon, <1>2
<1>5. decided' \in [Bars -> DecidedType]
  <2>1. \A w \in Bars : decided'[w] \in DecidedType
    BY Zenon, <1>0, <1>3, <1>4 DEF SessionTypeOK
  <2> QED
    BY <1>2, <2>1, Zenon
<1>6. WindowsAccounted'
  <2>1. pending' = {w \in Bars : decided'[w].status = "claimed"}
    <3>1. pending = {w \in Bars : decided[w].status = "claimed"}
      BY <1>0, Zenon DEF WindowsAccounted
    <3>2. \A w \in expired : decided'[w].status # "claimed"
      BY Zenon, <1>3
    <3> QED
      BY <1>2, <1>4, <3>1, <3>2, Zenon
  <2> QED
    BY <1>0, <1>a, <1>3, <1>4, <2>1, Zenon DEF WindowsAccounted
<1>7. DecidedOnce
  <2>1. \A w \in Bars \ expired :
          /\ decided[w].status \notin {"none", "claimed"} => decided'[w] = decided[w]
          /\ decided[w] # Undecided => decided'[w].claimed_at = decided[w].claimed_at
          /\ decided'[w].status = "scored" /\ decided[w].status # "scored" => decided[w].generation = generation
    BY Zenon, <1>4
  <2>2. \A w \in expired :
          /\ decided[w].status \notin {"none", "claimed"} => decided'[w] = decided[w]
          /\ decided[w] # Undecided => decided'[w].claimed_at = decided[w].claimed_at
          /\ decided'[w].status = "scored" /\ decided[w].status # "scored" => decided[w].generation = generation
    BY Zenon, <1>1, <1>3
  <2> QED
    BY Zenon, <1>0, <1>a, <2>1, <2>2 DEF DecidedOnce
<1>8. service' \in [Services -> ServiceType] /\ \A q \in Services : ServiceSound(q)'
  <2> DEFINE new == [service[p] EXCEPT !.step = "polled"]
  <2>1. service' = [service EXCEPT ![p] = new]
    BY Zenon, <1>0 DEF expire_session_decisions, SessionTypeOK
  <2>2. service[p] \in ServiceType /\ service[p].now \in 0..LastInstant
    BY Zenon DEF expire_session_decisions, SessionInv, SessionTypeOK, ServiceSound
  <2>3. new \in ServiceType /\ new.step = "polled" /\ new.now \in 0..LastInstant
    BY Zenon, <2>2 DEF ServiceType
  <2> HIDE DEF new
  <2> QED
    BY Zenon, <1>a, <2>1, <2>3, ServiceStep
<1>9. SessionTypeOK'
  BY Zenon, <1>0, <1>a, <1>2, <1>b, <1>5, <1>8 DEF SessionTypeOK
<1> QED
  BY Zenon, <1>0, <1>a, <1>6, <1>7, <1>8, <1>9 DEF SessionInv

\* A finish: a claim ends, and a score only under the registry it was claimed under.
LEMMA FinishStep ==
    ASSUME SessionInv, NEW p \in Services, finish_session_decision(p)
    PROVE  SessionInv' /\ DecidedOnce
<1>0. SessionTypeOK /\ WindowsAccounted /\ priced \subseteq excluded /\ ServiceSound(p)
  BY Zenon DEF SessionInv
<1>a. UNCHANGED <<instant, generation, cursor, excluded, gaps, priced>> /\ service[p].step = "scored"
  BY Zenon DEF finish_session_decision
<1>1. service' \in [Services -> ServiceType] /\ \A q \in Services : ServiceSound(q)'
  <2>1. service' = [service EXCEPT ![p] = Resting] /\ Resting.step = "idle"
    BY Zenon DEF finish_session_decision, Resting
  <2> QED
    BY Zenon, <1>a, <2>1, RestingType, ServiceStep
<1>2. CASE ~ StillClaimed(service[p].window)
  <2>1. UNCHANGED <<decided, pending>>
    BY Zenon, <1>2 DEF finish_session_decision
  <2>2. instant' \in 0..LastInstant /\ generation' \in Nat /\ priced' \subseteq excluded /\ excluded \subseteq excluded'
    BY Zenon, <1>0, <1>a DEF SessionTypeOK
  <2> QED
    BY Zenon, <1>a, <1>1, <2>1, <2>2, JournalSame
<1>3. CASE StillClaimed(service[p].window)
  <2>1. PICK w \in Bars : w = service[p].window
    BY Zenon, <1>0, <1>a DEF ServiceSound
  <2>2. PICK st \in {"scored", "unavailable"} :
           st = CommitStatus(p) /\ (st = "scored" => generation = decided[w].generation)
    <3>1. service[p].evidence \in {"scored", "unavailable"}
      BY Zenon, <1>0, <1>a DEF ServiceSound
    <3> QED
      BY Zenon, <2>1, <3>1 DEF CommitStatus
  <2>3. decided[w].status = "claimed" /\ decided[w] \in DecidedType
    BY Zenon, <1>0, <1>3, <2>1 DEF StillClaimed, SessionTypeOK
  <2>4. decided' = [decided EXCEPT ![w].status = st] /\ pending' = pending \ {w}
    BY <1>3, <2>1, <2>2, Zenon DEF finish_session_decision
  <2> DEFINE new == [decided[w] EXCEPT !.status = st]
  <2>5. decided' = [decided EXCEPT ![w] = new]
    BY Zenon, <2>4
  <2>6. new \in DecidedType /\ new.status = st /\ new.claimed_at = decided[w].claimed_at /\ new # Undecided
    BY Zenon, <2>3 DEF DecidedType, Undecided
  <2> HIDE DEF new
  <2>7. /\ decided' \in [Bars -> DecidedType] /\ decided'[w] = new
        /\ \A v \in Bars \ {w} : decided'[v] = decided[v]
    BY Zenon, <1>0, <2>5, <2>6 DEF SessionTypeOK
  <2>8. WindowsAccounted'
    <3>1. pending' = {v \in Bars : decided'[v].status = "claimed"}
      <4>1. pending = {v \in Bars : decided[v].status = "claimed"}
        BY <1>0, Zenon DEF WindowsAccounted
      <4>2. decided'[w].status # "claimed"
        BY Zenon, <2>6, <2>7
      <4> QED
        BY <2>4, <2>7, <4>1, <4>2, Zenon
    <3> QED
      BY <1>0, <1>a, <2>6, <2>7, <3>1, Zenon DEF WindowsAccounted
  <2>9. DecidedOnce
    <3>1. \A v \in Bars \ {w} :
            /\ decided[v].status \notin {"none", "claimed"} => decided'[v] = decided[v]
            /\ decided[v] # Undecided => decided'[v].claimed_at = decided[v].claimed_at
            /\ decided'[v].status = "scored" /\ decided[v].status # "scored" => decided[v].generation = generation
      BY Zenon, <2>7
    <3>2. /\ decided[w].status \notin {"none", "claimed"} => decided'[w] = decided[w]
          /\ decided[w] # Undecided => decided'[w].claimed_at = decided[w].claimed_at
          /\ decided'[w].status = "scored" /\ decided[w].status # "scored" => decided[w].generation = generation
      BY Zenon, <2>2, <2>3, <2>6, <2>7
    <3> QED
      BY Zenon, <1>0, <1>a, <3>1, <3>2 DEF DecidedOnce
  <2>10. SessionTypeOK'
    BY Zenon, <1>0, <1>a, <1>1, <2>4, <2>7 DEF SessionTypeOK
  <2> QED
    BY Zenon, <1>0, <1>a, <1>1, <2>8, <2>9, <2>10 DEF SessionInv
<1> QED
  BY Zenon, <1>2, <1>3

\* A plan: it decides only windows nothing had decided, and what its cursor passes is a claim of
\* the plan, or lies in the gap the plan names.
LEMMA PlanStep ==
    ASSUME SessionInv, NEW p \in Services, plan_session_decisions(p)
    PROVE  SessionInv' /\ DecidedOnce
<1>0. SessionTypeOK /\ WindowsAccounted /\ priced \subseteq excluded /\ service[p] \in ServiceType
  BY Zenon DEF SessionInv, SessionTypeOK
<1>a. UNCHANGED <<instant, generation, excluded, priced>> /\ cursor = service[p].previous
  BY Zenon DEF plan_session_decisions
<1>b. cursor \in CursorType /\ service[p].generation \in Int /\ service[p].now \in 0..LastInstant
  BY Zenon, <1>0 DEF ServiceType, SessionTypeOK, SessionInv, ServiceSound, plan_session_decisions
<1>1. PICK current \in Int, now \in 0..LastInstant : current = service[p].generation /\ now = service[p].now
  BY Zenon, <1>b
<1> DEFINE plan == decision_plan(cursor, current, now)
           accepted == {w \in DOMAIN plan.claims : decided[w] = Undecided}
           claimed == {w \in accepted : plan.claims[w] = "claimed"}
<1>2. /\ decided' = [w \in Bars |->
            IF w \in accepted THEN [status |-> plan.claims[w], generation |-> current, claimed_at |-> now]
            ELSE decided[w]]
      /\ pending' = pending \cup claimed
      /\ \/ UNCHANGED <<cursor, gaps>>
         \/ cursor' = plan.cursor /\ gaps' = gaps \cup {plan.cursor.gap}
      /\ service' = [service EXCEPT ![p] =
            IF claimed = {} THEN Resting ELSE [Resting EXCEPT !.step = "claimed", !.window = Max(claimed)]]
  BY <1>a, <1>1, Zenon DEF plan_session_decisions
<1>3. /\ plan.cursor \in CursorType
      /\ DOMAIN plan.claims \subseteq Bars
      /\ \A w \in DOMAIN plan.claims : plan.claims[w] \in ClaimStatuses
      /\ cursor = NoCursor \/ cursor.generation # current => plan.cursor.enrolled_at = plan.cursor.checked_at
      /\ ~ (cursor = NoCursor \/ cursor.generation # current) =>
            /\ plan.cursor.enrolled_at = cursor.enrolled_at
            /\ \A w \in Bars :
                  Prompt(w) /\ cursor.checked_at < AvailableAt[w] /\ AvailableAt[w] <= plan.cursor.checked_at
                  => \/ w \in DOMAIN plan.claims
                     \/ plan.cursor.gap[1] < AvailableAt[w] /\ AvailableAt[w] <= plan.cursor.gap[2]
  BY <1>b, PlanCovers, Zenon
<1> HIDE DEF plan
<1>4. \A w \in accepted : w \in Bars /\ decided[w] = Undecided /\ plan.claims[w] \in ClaimStatuses
  BY Zenon, <1>3
<1>c. \A w \in Bars : w \in DOMAIN plan.claims => w \in accepted \/ decided[w] # Undecided
  BY Zenon
<1>d. claimed \subseteq accepted /\ \A w \in accepted : w \in claimed <=> plan.claims[w] = "claimed"
  BY Zenon
<1> HIDE DEF accepted, claimed
<1>5. \A w \in Bars \ accepted : decided'[w] = decided[w]
  BY Zenon, <1>2
<1>6. \A w \in accepted :
         /\ decided'[w] \in DecidedType /\ decided'[w].status = plan.claims[w] /\ decided'[w] # Undecided
         /\ decided[w].status = "none" /\ decided'[w].status # "scored"
  <2> SUFFICES ASSUME NEW w \in accepted
               PROVE  /\ decided'[w] \in DecidedType /\ decided'[w].status = plan.claims[w] /\ decided'[w] # Undecided
                      /\ decided[w].status = "none" /\ decided'[w].status # "scored"
    BY Zenon
  <2>1. PICK st \in ClaimStatuses : st = plan.claims[w]
    BY <1>4, Zenon
  <2>2. decided'[w] = [status |-> st, generation |-> current, claimed_at |-> now]
    BY <1>2, <1>4, <2>1, Zenon
  <2>3. decided[w].status = "none"
    BY <1>4 DEF Undecided
  <2>4. st \in {"missed", "superseded", "claimed"}
    BY Zenon DEF ClaimStatuses
  <2>a. now \in Int
    OBVIOUS
  <2>5. decided'[w].status = st /\ decided'[w] \in DecidedType
    BY <2>2, <2>4, <2>a DEF DecidedType, ClaimStatuses
  <2>6. Undecided.status = "none"
    BY Zenon DEF Undecided
  <2> QED
    BY Zenon, <2>1, <2>3, <2>4, <2>5, <2>6
<1>7. decided' \in [Bars -> DecidedType]
  <2>1. \A w \in Bars : decided'[w] \in DecidedType
    BY Zenon, <1>0, <1>5, <1>6 DEF SessionTypeOK
  <2> QED
    BY <1>2, <2>1, Zenon
<1>8. pending' = {w \in Bars : decided'[w].status = "claimed"}
  <2>1. pending = {w \in Bars : decided[w].status = "claimed"}
    BY <1>0, Zenon DEF WindowsAccounted
  <2>2. \A w \in accepted : w \notin pending /\ (decided'[w].status = "claimed" <=> w \in claimed)
    BY Zenon, <1>6, <1>d, <2>1
  <2> QED
    BY <1>2, <1>4, <1>5, <1>d, <2>1, <2>2, Zenon
<1>9. ASSUME NEW w \in Bars, Prompt(w), cursor'.enrolled_at < AvailableAt[w], AvailableAt[w] <= cursor'.checked_at
      PROVE  \/ decided'[w] # Undecided
             \/ \E gap \in gaps' : gap[1] < AvailableAt[w] /\ AvailableAt[w] <= gap[2]
  <2>a. decided[w] # Undecided => decided'[w] # Undecided
    BY Zenon, <1>5, <1>6
  <2>b. gaps \subseteq gaps'
    BY Zenon, <1>2
  <2>c. cursor.enrolled_at < AvailableAt[w] /\ AvailableAt[w] <= cursor.checked_at =>
           decided[w] # Undecided \/ \E gap \in gaps : gap[1] < AvailableAt[w] /\ AvailableAt[w] <= gap[2]
    BY <1>0, <1>9, Zenon DEF WindowsAccounted
  <2>1. CASE UNCHANGED <<cursor, gaps>>
    BY <1>9, <2>1, <2>a, <2>b, <2>c, Zenon
  <2>2. CASE cursor' = plan.cursor /\ gaps' = gaps \cup {plan.cursor.gap}
    <3>0. AvailableAt[w] \in Int /\ plan.cursor.enrolled_at \in Int /\ plan.cursor.checked_at \in Int
          /\ cursor.checked_at \in Int
      BY Zenon, <1>b, <1>3, SessionAssumption DEF CursorType
    <3>1. cursor # NoCursor /\ cursor.generation = current
      BY <1>3, <1>9, <2>2, <3>0
    <3>2. CASE AvailableAt[w] <= cursor.checked_at
      BY <1>3, <1>9, <2>2, <2>a, <2>b, <2>c, <3>1, <3>2, Zenon
    <3>3. CASE cursor.checked_at < AvailableAt[w]
      <4>1. \/ w \in DOMAIN plan.claims
            \/ plan.cursor.gap[1] < AvailableAt[w] /\ AvailableAt[w] <= plan.cursor.gap[2]
        BY <1>3, <1>9, <2>2, <3>1, <3>3, Zenon
      <4>2. w \in accepted => decided'[w] # Undecided
        BY Zenon, <1>6
      <4> QED
        BY <1>c, <2>2, <2>a, <4>1, <4>2, Zenon
    <3> QED
      BY <3>0, <3>2, <3>3
  <2> QED
    BY Zenon, <1>2, <2>1, <2>2
<1>10. WindowsAccounted'
  BY Zenon, <1>8, <1>9, SessionAssumption DEF WindowsAccounted
<1>11. DecidedOnce
  <2>1. \A w \in Bars \ accepted :
          /\ decided[w].status \notin {"none", "claimed"} => decided'[w] = decided[w]
          /\ decided[w] # Undecided => decided'[w].claimed_at = decided[w].claimed_at
          /\ decided'[w].status = "scored" /\ decided[w].status # "scored" => decided[w].generation = generation
    BY Zenon, <1>5
  <2>2. \A w \in accepted :
          /\ decided[w].status \notin {"none", "claimed"} => decided'[w] = decided[w]
          /\ decided[w] # Undecided => decided'[w].claimed_at = decided[w].claimed_at
          /\ decided'[w].status = "scored" /\ decided[w].status # "scored" => decided[w].generation = generation
    BY Zenon, <1>4, <1>6
  <2> QED
    BY Zenon, <1>0, <1>a, <2>1, <2>2 DEF DecidedOnce
<1>12. service' \in [Services -> ServiceType] /\ \A q \in Services : ServiceSound(q)'
  <2>1. CASE claimed = {}
    <3>1. service' = [service EXCEPT ![p] = Resting] /\ Resting.step = "idle"
      BY Zenon, <1>2, <2>1 DEF Resting
    <3> QED
      BY Zenon, <1>a, <3>1, RestingType, ServiceStep
  <2>2. CASE claimed # {}
    <3>1. claimed \in SUBSET Bars
      BY Zenon, <1>4, <1>d
    <3>2. IsFiniteSet(claimed) /\ claimed \subseteq Nat
      BY <3>1, SessionAssumption, FS_Subset, Zenon
    <3>3. Max(claimed) \in Bars
      BY <2>2, <3>1, <3>2, MaxOfFinite, Zenon
    <3>4. PICK w \in Bars : w = Max(claimed)
      BY <3>3, Zenon
    <3> DEFINE half == [Resting EXCEPT !.step = "claimed"]
               new == [half EXCEPT !.window = w]
    <3>5. service' = [service EXCEPT ![p] = [Resting EXCEPT !.step = "claimed", !.window = w]]
      BY <1>2, <2>2, <3>4, Zenon
    <3>6. service' = [service EXCEPT ![p] = new]
      BY Zenon, <3>5 DEF Resting
    <3>7. half \in ServiceType /\ half.step = "claimed"
      BY Zenon, RestingType DEF ServiceType
    <3> HIDE DEF half
    <3>8. new \in ServiceType /\ new.step = "claimed" /\ new.window = w
      BY Zenon, <3>7 DEF ServiceType
    <3> HIDE DEF new
    <3> QED
      BY Zenon, <1>a, <3>6, <3>8, ServiceStep
  <2> QED
    BY Zenon, <2>1, <2>2
<1>13. SessionTypeOK'
  <2>1. cursor' \in CursorType
    BY Zenon, <1>b, <1>2, <1>3
  <2> QED
    BY Zenon, <1>0, <1>a, <1>7, <1>12, <2>1 DEF SessionTypeOK
<1> QED
  BY Zenon, <1>0, <1>a, <1>10, <1>11, <1>12, <1>13 DEF SessionInv

\* Whoever polls with an old cursor, dies with a claim in hand or finishes late, every window that
\* is available by the end of its session's date is accounted for, and every window is decided once
\* (plan_session_decisions, finish_session_decision).
THEOREM SessionDecisionsSound == SessionSpec => DecisionsSound
<1>1. SessionInv /\ [SessionNext]_sessionVars => SessionInv'
  <2> SUFFICES ASSUME SessionInv, [SessionNext]_sessionVars PROVE SessionInv'
    BY Zenon
  <2>1. CASE SessionNext
    BY Zenon, <2>1, QuietSession, ExpireStep, FinishStep, PlanStep DEF SessionNext
  <2>2. CASE UNCHANGED sessionVars
    BY Zenon, <2>2 DEF SessionInv, SessionTypeOK, WindowsAccounted, ServiceSound, sessionVars
  <2> QED
    BY Zenon, <2>1, <2>2
<1>2. SessionInv /\ SessionInv' /\ [SessionNext]_sessionVars => [WindowsAccounted' /\ DecidedOnce]_sessionVars
  <2> SUFFICES ASSUME SessionInv, SessionInv', SessionNext PROVE WindowsAccounted' /\ DecidedOnce
    BY Zenon DEF sessionVars
  <2>1. DecidedOnce
    BY Zenon, QuietSession, ExpireStep, FinishStep, PlanStep DEF SessionNext
  <2> QED
    BY Zenon, <2>1 DEF SessionInv
<1> QED
  BY <1>1, <1>2, SessionInitInv, PTL DEF SessionSpec, DecisionsSound
=============================================================================

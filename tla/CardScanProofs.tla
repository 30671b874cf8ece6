--------------------------- MODULE CardScanProofs ---------------------------
(***************************************************************************)
(* Theorems about CardScan for any setups, groups, sources, limits and     *)
(* number of scans.                                                        *)
(*                                                                         *)
(* The rations are not inductive.  What a scan may still spend was read    *)
(* once, for the date at that time (Rationed), while the clock, the taps   *)
(* and the repriced cards go on; the candidate at the evaluator has passed *)
(* refusals that must still hold when its card is recorded (Passed); and   *)
(* what the loop says it sent is what it recorded (Told).                  *)
(***************************************************************************)
EXTENDS CardScan, FiniteSetTheorems, TLAPS

Kinds == Scheduled \cup Background \cup {"operator"}
Statuses == {"pending", "submitting", "expired", "done", "failed"}
Budgets == {"FULL", "JOURNAL_ONLY", "SESSION", "NONE"}
Outcomes == {"none", "held", "sent"}

CardType ==
    [setup : Setups, at : Nat, status : Statuses, run : Nat, budget : Budgets, capped : SUBSET Groups, reprices : Nat]

\* Cards that spend a slot: those that replace no other.
Spending(cs) == {i \in DOMAIN cs : cs[i].reprices = 0}

\* What the properties count, over any sequence of cards.
NativeOn(cs, d) == {i \in Spending(cs) : Date(cs[i].at) = d /\ cs[i].setup \in Native /\ cs[i].budget # "NONE"}
SourceOn(cs, d, c) == {i \in Spending(cs) : Date(cs[i].at) = d /\ cs[i].setup \in Of(c)}
GroupOn(cs, d, g) == {i \in Spending(cs) : Date(cs[i].at) = d /\ g \in cs[i].capped}
NativeIn(cs, run) == {i \in Spending(cs) : cs[i].run = run /\ cs[i].setup \in Native}
SentIn(cs, run) == {cs[i].setup : i \in {j \in Spending(cs) : cs[j].run = run}}

\* What the budget of a scan counts: the cards from a date on.
NativeSince(cs, d) == {i \in Spending(cs) : Date(cs[i].at) >= d /\ cs[i].setup \in Native}
SourceSince(cs, d, c) == {i \in Spending(cs) : Date(cs[i].at) >= d /\ cs[i].setup \in Of(c)}
GroupSince(cs, d, g) == {i \in Spending(cs) : Date(cs[i].at) >= d /\ g \in card_groups(cs[i].setup)}

\* The ration of a sequence of cards.
DayRation(cs) ==
    \A d \in Int :
        /\ Cardinality(NativeOn(cs, d)) <= MaxPerSession
        /\ \A c \in Sources : Cardinality(SourceOn(cs, d, c)) <= MaxPerSource
        /\ \A g \in Groups : Cardinality(GroupOn(cs, d, g)) <= MaxPerGroup
ScanRation(cs) ==
    \A i \in DOMAIN cs : cs[i].budget = "FULL" /\ cs[i].setup \in Native =>
        Cardinality(NativeIn(cs, cs[i].run)) <= MaxPerScan
WatchRation(cs) ==
    \A i, j \in Spending(cs) : i < j /\ cs[i].run = cs[j].run /\ cs[j].setup \in Watch =>
        ContractOf[cs[i].setup] # ContractOf[cs[j].setup]

\* Cards of scans that began, each with the groups its scan had to respect.
FitCards(cs, begun) ==
    \A i \in DOMAIN cs : cs[i].run <= begun /\ cs[i].capped \subseteq card_groups(cs[i].setup)

SendType ==
    [phase : {"send", "evaluate"}, kind : Kinds, target : {NoSetup} \cup Native, run : Nat, ranked : Seq(Setups),
     outcomes : Seq(Outcomes), rank : Nat, perScan : Int, perSession : Int, source : [Sources -> Int],
     groups : [Groups -> Int], llm : Int, calls : Int, breaker : {"closed", "open"}]

\* A scan knows what it sent.
ToldSent(ranked, outcomes) == {ranked[k] : k \in {m \in 1..Len(ranked) : outcomes[m] = "sent"}}
Told(sc, cs) ==
    /\ sc.ranked \in Seq(Setups) /\ sc.outcomes \in Seq(Outcomes) /\ Len(sc.outcomes) = Len(sc.ranked)
    /\ SentIn(cs, sc.run) = ToldSent(sc.ranked, sc.outcomes)

FitSend(sc) ==
    /\ sc \in SendType
    /\ sc.rank >= 1
    /\ \A k \in 1..Len(sc.ranked) : (sc.outcomes[k] = "none") = (k >= sc.rank)
    /\ sc.calls <= 1 /\ (sc.breaker = "closed" => sc.calls = 0)
    /\ sc.phase = "evaluate" => sc.rank <= Len(sc.ranked)

FitScan(sc, cs, begun) ==
    sc # NoScan =>
        /\ sc.phase \in {"collect", "journal", "budget", "send", "evaluate"}
        /\ sc.kind \in Kinds /\ sc.target \in {NoSetup} \cup Native /\ sc.run = begun /\ begun > 0
        /\ \A i \in DOMAIN cs : cs[i].run = sc.run => cs[i].budget = Budget(sc.kind)
        /\ sc.phase \in {"collect", "journal", "budget"} => SentIn(cs, sc.run) = {}
        /\ sc.phase # "collect" => Told(sc, cs)
        /\ sc.phase = "journal" => \A k \in 1..Len(sc.ranked) : sc.outcomes[k] # "none"
        /\ sc.phase = "budget" => \A k \in 1..Len(sc.ranked) : sc.outcomes[k] = "none"
        /\ sc.phase \in {"send", "evaluate"} => FitSend(sc)

\* The groups the scan keeps a count of.
Counted(sc, g) ==
    Budget(sc.kind) # "NONE" \/ (sc.kind = "symbol" /\ sc.target \in Dynamics /\ g = Dynamic)

\* What is left of each allowance, with the cards since the date the budget was read for.
Rationed(sc, cs, d) ==
    /\ Budget(sc.kind) = "FULL" => Cardinality(NativeIn(cs, sc.run)) + sc.perScan <= MaxPerScan
    /\ Budget(sc.kind) # "NONE" /\ sc.perSession > 0 =>
         Cardinality(NativeSince(cs, d)) + sc.perSession <= MaxPerSession
    /\ \A c \in Sources : sc.source[c] > 0 => Cardinality(SourceSince(cs, d, c)) + sc.source[c] <= MaxPerSource
    /\ \A g \in Groups : Counted(sc, g) => Cardinality(GroupSince(cs, d, g)) <= sc.groups[g]

\* The groups whose cap a card of the scan respects (capped_groups).
Capped(sc, s) ==
    IF Budget(sc.kind) # "NONE" THEN card_groups(s)
    ELSE IF (sc.kind = "symbol" /\ sc.target \in Dynamics) /\ s \in Dynamics THEN {Dynamic} ELSE {}

\* The candidate at the evaluator passed the refusals, and nothing of them has changed since.
Passed(sc, cs) ==
    LET s == sc.ranked[sc.rank] IN
    /\ s \in Watch => \A k \in 1..Len(sc.ranked) :
         sc.outcomes[k] = "sent" => ContractOf[sc.ranked[k]] # ContractOf[s]
    /\ s \in Events => sc.source[SourceOf[s]] > 0
    /\ s \in Native => sc.perScan > 0 /\ sc.perSession > 0
    /\ \A g \in Capped(sc, s) : sc.groups[g] < MaxPerGroup
    /\ s \in Carried => \A i \in DOMAIN cs : cs[i].status \in {"pending", "submitting"} => cs[i].setup # s

FitRanking(rk, cs, sc, begun) ==
    /\ sc # NoScan => rk = NoEvent
    /\ rk.run \in Nat /\ rk.run <= begun
    /\ \A e \in Range(rk.outcomes) : e[2] # "none"
    /\ rk.run > 0 => SentIn(cs, rk.run) = {e[1] : e \in {f \in Range(rk.outcomes) : f[2] = "sent"}}

ScanTypeOK == now \in Nat /\ scans \in Nat /\ cards \in Seq(CardType)

Budgeted(sc, cs, t) ==
    sc.phase \in {"send", "evaluate"} => \E d \in Int : d <= Date(t) /\ Rationed(sc, cs, d)

ScanInv ==
    /\ ScanTypeOK
    /\ FitCards(cards, scans)
    /\ FitScan(scan, cards, scans)
    /\ FitRanking(ranking, cards, scan, scans)
    /\ Budgeted(scan, cards, now)
    /\ scan.phase = "evaluate" => Passed(scan, cards)
    /\ DayRation(cards) /\ ScanRation(cards) /\ WatchRation(cards)
    /\ OneLiveCard

-----------------------------------------------------------------------------
(* Lemmas. *)

\* session_start_et is the first instant of a date.
LEMMA DateFacts ==
    ASSUME NEW t \in Nat
    PROVE  Date(t) \in Nat /\ Date(t) * DayLength <= t /\ t < (Date(t) + 1) * DayLength
<1>1. DayLength \in Nat /\ DayLength > 0
  BY ScanAssumption
<1> DEFINE L == DayLength
<1> HIDE DEF L
<1>2. L \in Nat /\ L > 0
  BY Zenon, <1>1 DEF L
<1>3. t \div L \in Nat /\ (t \div L) * L <= t /\ t < ((t \div L) + 1) * L
  BY <1>2
<1> QED
  BY Zenon, <1>3 DEF Date, L

\* From the start of a date on are the dates from it on.
LEMMA DateSince ==
    ASSUME NEW t \in Nat, NEW x \in Nat
    PROVE  (x >= Date(t) * DayLength) = (Date(x) >= Date(t))
<1> DEFINE L == DayLength
           a == Date(t)
           b == Date(x)
<1>1. L \in Nat /\ L > 0
  BY ScanAssumption
<1>2. a \in Nat /\ a * L <= t /\ t < (a + 1) * L
  BY Zenon, DateFacts
<1>3. b \in Nat /\ b * L <= x /\ x < (b + 1) * L
  BY Zenon, DateFacts
<1> HIDE DEF L, a, b
<1>4. \A m, n \in Nat : m <= n => m * L <= n * L
  BY <1>1
<1>5. b >= a => x >= a * L
  BY <1>1, <1>2, <1>3, <1>4
<1>6. b < a => x < a * L
  <2> SUFFICES ASSUME b < a PROVE x < a * L
    BY Zenon
  <2>1. b + 1 \in Nat /\ b + 1 <= a
    BY <1>2, <1>3
  <2>2. (b + 1) * L <= a * L
    BY Zenon, <1>2, <1>4, <2>1
  <2>3. (b + 1) * L \in Nat /\ a * L \in Nat
    BY <1>1, <1>2, <2>1
  <2> QED
    BY <1>3, <2>2, <2>3
<1>7. (x >= a * L) = (b >= a)
  <2>1. a * L \in Nat
    BY <1>1, <1>2
  <2> QED
    BY <1>2, <1>3, <1>5, <1>6, <2>1
<1> QED
  BY Zenon, <1>7 DEF L, a, b

\* Dates never go back.
LEMMA DateNext ==
    ASSUME NEW t \in Nat
    PROVE  Date(t) <= Date(t + 1)
<1>1. t + 1 \in Nat /\ t + 1 >= t
  OBVIOUS
<1>2. Date(t) \in Nat /\ Date(t) * DayLength <= t /\ Date(t + 1) \in Nat
  BY Zenon, <1>1, DateFacts
<1>3. Date(t) * DayLength \in Nat
  BY <1>2, ScanAssumption
<1>4. t + 1 >= Date(t) * DayLength
  BY <1>2, <1>3
<1>5. (t + 1 >= Date(t) * DayLength) = (Date(t + 1) >= Date(t))
  BY Zenon, <1>1, DateSince
<1> QED
  BY Zenon, <1>2, <1>4, <1>5

\* Counting a set that grows by at most one card.
LEMMA GrowsByOne ==
    ASSUME NEW S, IsFiniteSet(S), NEW T, NEW n, T \subseteq S \cup {n}
    PROVE  IsFiniteSet(T) /\ Cardinality(S) \in Nat /\ Cardinality(T) \in Nat /\ Cardinality(T) <= Cardinality(S) + 1
<1> DEFINE U == S \cup {n}
<1>1. IsFiniteSet(U) /\ (Cardinality(U) = Cardinality(S) \/ Cardinality(U) = Cardinality(S) + 1)
  BY FS_AddElement, Zenon
<1>2. Cardinality(S) \in Nat /\ Cardinality(U) \in Nat
  BY <1>1, FS_CardinalityType, Zenon
<1>3. IsFiniteSet(T) /\ Cardinality(T) <= Cardinality(U)
  <2> HIDE DEF U
  <2>1. T \subseteq U
    BY Zenon DEF U
  <2> QED
    BY <1>1, <2>1, FS_Subset, Zenon
<1>4. Cardinality(T) \in Nat
  BY <1>3, FS_CardinalityType, Zenon
<1> QED
  BY <1>1, <1>2, <1>3, <1>4

\* Counting a part of a set.
LEMMA CountsLess ==
    ASSUME NEW S, IsFiniteSet(S), NEW T, T \subseteq S
    PROVE  IsFiniteSet(T) /\ Cardinality(S) \in Nat /\ Cardinality(T) \in Nat /\ Cardinality(T) <= Cardinality(S)
<1>1. IsFiniteSet(T) /\ Cardinality(T) <= Cardinality(S)
  BY FS_Subset, Zenon
<1>2. Cardinality(S) \in Nat /\ Cardinality(T) \in Nat
  BY <1>1, FS_CardinalityType, Zenon
<1> QED
  BY Zenon, <1>1, <1>2

Appended(s, e, t, T) ==
    /\ t \in Seq(T) /\ Len(t) = Len(s) + 1 /\ t[Len(s) + 1] = e
    /\ \A k \in 1..Len(s) : t[k] = s[k]

\* A row added at the end of a table.
LEMMA AppendedFacts ==
    ASSUME NEW T, NEW s \in Seq(T), NEW e \in T
    PROVE  Appended(s, e, Append(s, e), T)
BY DEF Appended

\* The signal table is finite.
LEMMA SpendingFinite ==
    ASSUME NEW cs \in Seq(CardType)
    PROVE  /\ IsFiniteSet(Spending(cs)) /\ Spending(cs) \subseteq 1..Len(cs) /\ DOMAIN cs = 1..Len(cs)
           /\ \A T \in SUBSET Spending(cs) : IsFiniteSet(T) /\ Cardinality(T) \in Nat
<1>1. DOMAIN cs = 1..Len(cs) /\ Len(cs) \in Nat
  OBVIOUS
<1>2. Spending(cs) \subseteq 1..Len(cs)
  BY Zenon, <1>1 DEF Spending
<1>3. IsFiniteSet(1..Len(cs))
  <2>1. 1 \in Int /\ Len(cs) \in Int
    BY <1>1
  <2> QED
    BY <2>1, FS_Interval, Zenon
<1>4. IsFiniteSet(Spending(cs))
  BY <1>2, <1>3, FS_Subset, Zenon
<1>5. \A T \in SUBSET Spending(cs) : IsFiniteSet(T) /\ Cardinality(T) \in Nat
  BY <1>4, FS_Subset, FS_CardinalityType, Zenon
<1> QED
  BY <1>1, <1>2, <1>4, <1>5, Zenon

\* The same cards spend slots, each with what it was recorded with; other cards and the statuses
\* may differ.
SameSpending(old, new) ==
    /\ Spending(new) = Spending(old)
    /\ \A i \in Spending(old) :
         /\ new[i].setup = old[i].setup /\ new[i].at = old[i].at /\ new[i].run = old[i].run
         /\ new[i].budget = old[i].budget /\ new[i].capped = old[i].capped

\* Every card has its setup, run, budget and groups from a card that was there.
Derived(old, new) ==
    \A k \in DOMAIN new : \E j \in DOMAIN old :
        /\ new[k].setup = old[j].setup /\ new[k].run = old[j].run
        /\ new[k].budget = old[j].budget /\ new[k].capped = old[j].capped

CountAlike(old, new) ==
    /\ \A d : NativeOn(new, d) = NativeOn(old, d) /\ NativeSince(new, d) = NativeSince(old, d)
    /\ \A d, c : SourceOn(new, d, c) = SourceOn(old, d, c) /\ SourceSince(new, d, c) = SourceSince(old, d, c)
    /\ \A d, g : GroupOn(new, d, g) = GroupOn(old, d, g) /\ GroupSince(new, d, g) = GroupSince(old, d, g)
    /\ \A run : NativeIn(new, run) = NativeIn(old, run) /\ SentIn(new, run) = SentIn(old, run)

\* Such cards count as before.
LEMMA SameCounts ==
    ASSUME NEW old, NEW new, SameSpending(old, new)
    PROVE  CountAlike(old, new)
<1> USE DEF SameSpending
<1>1. ASSUME NEW d PROVE NativeOn(new, d) = NativeOn(old, d) /\ NativeSince(new, d) = NativeSince(old, d)
  BY ZenonT(30) DEF NativeOn, NativeSince
<1>2. ASSUME NEW d, NEW c
      PROVE  SourceOn(new, d, c) = SourceOn(old, d, c) /\ SourceSince(new, d, c) = SourceSince(old, d, c)
  BY ZenonT(30) DEF SourceOn, SourceSince
<1>3. ASSUME NEW d, NEW g
      PROVE  GroupOn(new, d, g) = GroupOn(old, d, g) /\ GroupSince(new, d, g) = GroupSince(old, d, g)
  BY ZenonT(30) DEF GroupOn, GroupSince
<1>4. ASSUME NEW run PROVE NativeIn(new, run) = NativeIn(old, run) /\ SentIn(new, run) = SentIn(old, run)
  BY ZenonT(30) DEF NativeIn, SentIn
<1> QED
  BY <1>1, <1>2, <1>3, <1>4, Zenon DEF CountAlike

\* A step that moves or reprices cards keeps the ration.
LEMMA SameRations ==
    ASSUME NEW old, NEW new, SameSpending(old, new), Derived(old, new), DayRation(old), ScanRation(old), WatchRation(old)
    PROVE  DayRation(new) /\ ScanRation(new) /\ WatchRation(new)
<1>0. CountAlike(old, new)
  BY SameCounts, Zenon
<1>1. DayRation(new)
  BY <1>0, ZenonT(30) DEF DayRation, CountAlike
<1>2. ScanRation(new)
  <2> SUFFICES ASSUME NEW k \in DOMAIN new, new[k].budget = "FULL", new[k].setup \in Native
               PROVE  Cardinality(NativeIn(new, new[k].run)) <= MaxPerScan
    BY Zenon DEF ScanRation
  <2>1. PICK j \in DOMAIN old : new[k].setup = old[j].setup /\ new[k].run = old[j].run /\ new[k].budget = old[j].budget
    BY Zenon DEF Derived
  <2>2. Cardinality(NativeIn(old, old[j].run)) <= MaxPerScan
    BY <2>1, Zenon DEF ScanRation
  <2>3. NativeIn(new, new[k].run) = NativeIn(old, old[j].run)
    BY <1>0, <2>1, Zenon DEF CountAlike
  <2> QED
    BY <2>2, <2>3, Zenon
<1>3. WatchRation(new)
  <2> SUFFICES ASSUME NEW i \in Spending(new), NEW j \in Spending(new), i < j, new[i].run = new[j].run,
                      new[j].setup \in Watch
               PROVE  ContractOf[new[i].setup] # ContractOf[new[j].setup]
    BY Zenon DEF WatchRation
  <2>1. i \in Spending(old) /\ j \in Spending(old) /\ new[i].setup = old[i].setup /\ new[j].setup = old[j].setup
        /\ new[i].run = old[i].run /\ new[j].run = old[j].run
    BY Zenon DEF SameSpending
  <2>2. ContractOf[old[i].setup] # ContractOf[old[j].setup]
    BY <2>1, Zenon DEF WatchRation
  <2> QED
    BY <2>1, <2>2, Zenon
<1> QED
  BY <1>1, <1>2, <1>3, Zenon

\* The candidate before the evaluator may still be carried: no live card of its setup.
NoLive(cs, s) == \A i \in DOMAIN cs : cs[i].status \in {"pending", "submitting"} => cs[i].setup # s

\* A step that moves or reprices cards keeps the invariant, when it leaves one live card.
LEMMA MovesKeep ==
    ASSUME ScanInv, cards' \in Seq(CardType), SameSpending(cards, cards'), Derived(cards, cards'),
           UNCHANGED <<now, scan, scans, ranking>>, OneLiveCard',
           \A s : NoLive(cards, s) => NoLive(cards', s)
    PROVE  ScanInv'
<1>1. /\ \A run : NativeIn(cards', run) = NativeIn(cards, run) /\ SentIn(cards', run) = SentIn(cards, run)
      /\ \A d : NativeSince(cards', d) = NativeSince(cards, d)
      /\ \A d, c : SourceSince(cards', d, c) = SourceSince(cards, d, c)
      /\ \A d, g : GroupSince(cards', d, g) = GroupSince(cards, d, g)
  <2>1. CountAlike(cards, cards')
    BY SameCounts, Zenon
  <2> QED
    BY <2>1, Zenon DEF CountAlike
<1>2. ScanTypeOK'
  BY Zenon DEF ScanInv, ScanTypeOK
<1>3. FitCards(cards', scans)
  BY ZenonT(30) DEF ScanInv, FitCards, Derived
<1>4. FitScan(scan, cards', scans)
  <2>1. FitScan(scan, cards, scans)
    BY Zenon DEF ScanInv
  <2>2. CASE scan = NoScan
    BY <2>2, Zenon DEF FitScan
  <2>3. CASE scan # NoScan
    <3>1. \A i \in DOMAIN cards' : cards'[i].run = scan.run => cards'[i].budget = Budget(scan.kind)
      BY <2>1, <2>3, ZenonT(30) DEF FitScan, Derived
    <3>2. Told(scan, cards) => Told(scan, cards')
      BY <1>1, Zenon DEF Told
    <3> QED
      BY <1>1, <2>1, <2>3, <3>1, <3>2, ZenonT(30) DEF FitScan
  <2> QED
    BY <2>2, <2>3, Zenon
<1>5. FitRanking(ranking, cards', scan, scans)
  BY <1>1, ZenonT(30) DEF ScanInv, FitRanking
<1>6. Budgeted(scan, cards', now)
  <2>1. \A d \in Int : Rationed(scan, cards, d) => Rationed(scan, cards', d)
    BY <1>1, ZenonT(30) DEF Rationed
  <2> QED
    BY <2>1, Zenon DEF ScanInv, Budgeted
<1>7. ASSUME scan.phase = "evaluate" PROVE Passed(scan, cards')
  <2>1. Passed(scan, cards)
    BY <1>7, Zenon DEF ScanInv
  <2>2. NoLive(cards, scan.ranked[scan.rank]) => NoLive(cards', scan.ranked[scan.rank])
    BY Zenon
  <2> QED
    BY <2>1, <2>2, ZenonT(30) DEF Passed, NoLive
<1>8. DayRation(cards') /\ ScanRation(cards') /\ WatchRation(cards')
  BY SameRations, Zenon DEF ScanInv
<1> QED
  BY <1>2, <1>3, <1>4, <1>5, <1>6, <1>7, <1>8, Zenon DEF ScanInv
-----------------------------------------------------------------------------
(* Steps around the scan. *)

\* Nothing recorded yet.
LEMMA ScanInitInv == ScanInit => ScanInv
<1> SUFFICES ASSUME ScanInit PROVE ScanInv
  BY Zenon
<1>1. now = 0 /\ cards = <<>> /\ scan = NoScan /\ scans = 0 /\ ranking = NoEvent
  BY Zenon DEF ScanInit
<1>2. ScanTypeOK
  BY <1>1 DEF ScanTypeOK
<1>3. DOMAIN cards = {}
  BY <1>1
<1>4. Spending(cards) = {}
  BY <1>3, Zenon DEF Spending
<1>5. FitCards(cards, scans) /\ ScanRation(cards) /\ WatchRation(cards)
  BY <1>3, <1>4, Zenon DEF FitCards, ScanRation, WatchRation
<1>6. OneLiveCard
  BY <1>3, Zenon DEF OneLiveCard
<1>7. FitScan(scan, cards, scans)
  BY <1>1, Zenon DEF FitScan
<1>8. ranking.run = 0 /\ ranking.outcomes = <<>> /\ scan.phase = "idle"
  BY Zenon, <1>1 DEF NoEvent, NoScan
<1>9. FitRanking(ranking, cards, scan, scans)
  <2>1. Range(ranking.outcomes) = {}
    BY <1>8 DEF Range
  <2>2. 0 \in Nat /\ 0 <= scans /\ ~ (0 > 0)
    BY <1>1
  <2> QED
    BY <1>1, <1>8, <2>1, <2>2, Zenon DEF FitRanking
<1>10. DayRation(cards)
  <2>1. \A d, c : NativeOn(cards, d) = {} /\ SourceOn(cards, d, c) = {} /\ GroupOn(cards, d, c) = {}
    BY <1>4, Zenon DEF NativeOn, SourceOn, GroupOn
  <2>2. Cardinality({}) = 0
    BY FS_EmptySet, Zenon
  <2>3. 0 <= MaxPerSession /\ 0 <= MaxPerSource /\ 0 <= MaxPerGroup
    BY ScanAssumption
  <2> QED
    BY <2>1, <2>2, <2>3, Zenon DEF DayRation
<1>11. Budgeted(scan, cards, now)
  BY Zenon, <1>8 DEF Budgeted
<1>12. scan.phase # "evaluate"
  BY Zenon, <1>8
<1> QED
  BY <1>2, <1>5, <1>6, <1>7, <1>9, <1>10, <1>11, <1>12, Zenon DEF ScanInv

\* Steps that touch no card and no scan: a request, its refusal, a stuttering step.
LEMMA SameState == ScanInv /\ UNCHANGED <<now, cards, scan, scans, ranking>> => ScanInv'
<1> SUFFICES ASSUME ScanInv, UNCHANGED <<now, cards, scan, scans, ranking>> PROVE ScanInv'
  BY Zenon
<1>1. OneLiveCard'
  BY Zenon DEF ScanInv, OneLiveCard
<1>2. ScanTypeOK'
  BY Zenon DEF ScanInv, ScanTypeOK
<1> QED
  BY <1>1, <1>2, Zenon DEF ScanInv

\* The clock moves on, perhaps over midnight while a scan sends.
LEMMA ElapseInv == ScanInv /\ Elapse => ScanInv'
<1> SUFFICES ASSUME ScanInv, Elapse PROVE ScanInv'
  BY Zenon
<1>1. UNCHANGED <<cards, scan, scans, ranking>> /\ now' = now + 1
  BY Zenon DEF Elapse
<1>2. OneLiveCard'
  BY <1>1, Zenon DEF ScanInv, OneLiveCard
<1>3. now \in Nat
  BY Zenon DEF ScanInv, ScanTypeOK
<1>4. now + 1 \in Nat
  BY <1>3
<1>5. ScanTypeOK'
  BY <1>1, <1>4, Zenon DEF ScanInv, ScanTypeOK
<1>6. ASSUME NEW d \in Int, d <= Date(now) PROVE d <= Date(now + 1)
  <2>1. Date(now) \in Nat /\ Date(now + 1) \in Nat /\ Date(now) <= Date(now + 1)
    BY <1>3, <1>4, DateFacts, DateNext, Zenon
  <2> QED
    BY <1>6, <2>1
<1>7. Budgeted(scan, cards, now + 1)
  BY <1>6, Zenon DEF ScanInv, Budgeted
<1> QED
  BY <1>1, <1>2, <1>5, <1>7, Zenon DEF ScanInv

\* The scan ends: the lock is free, and what it journaled is true.
LEMMA ScanEnds ==
    ASSUME ScanInv, UNCHANGED <<now, cards, scans>>, scan' = NoScan, FitRanking(ranking', cards, NoScan, scans)
    PROVE  ScanInv'
<1>1. OneLiveCard'
  BY Zenon DEF ScanInv, OneLiveCard
<1>2. ScanTypeOK'
  BY Zenon DEF ScanInv, ScanTypeOK
<1>3. FitScan(NoScan, cards, scans)
  BY Zenon DEF FitScan
<1>4. NoScan.phase = "idle"
  BY Zenon DEF NoScan
<1>5. Budgeted(NoScan, cards, now) /\ NoScan.phase # "evaluate"
  BY Zenon, <1>4 DEF Budgeted
<1> QED
  BY <1>1, <1>2, <1>3, <1>5, Zenon DEF ScanInv

\* An exception out of the scan, and a daemon that stops: the journal stays as it was.
LEMMA ScanStopsInv == ScanInv /\ (ScanRaises \/ ScanLost) => ScanInv'
<1> SUFFICES ASSUME ScanInv, ScanRaises \/ ScanLost PROVE ScanInv'
  BY Zenon
<1>1. UNCHANGED <<now, cards, scans, ranking>> /\ scan' = NoScan
  BY Zenon DEF ScanRaises, ScanLost
<1>2. FitRanking(ranking, cards, NoScan, scans)
  BY Zenon DEF ScanInv, FitRanking
<1> QED
  BY <1>1, <1>2, ScanEnds, Zenon

\* A tap, an expiry, an execution or a failure: only the status of one card changes.
LEMMA CardMovesInv ==
    ASSUME ScanInv, NEW i \in DOMAIN cards, CardMoves(i)
    PROVE  ScanInv'
<1>1. cards \in Seq(CardType)
  BY Zenon DEF ScanInv, ScanTypeOK
<1>2. cards[i].status \in {"pending", "submitting"} /\ UNCHANGED <<now, scan, scans, ranking>>
  BY Zenon DEF CardMoves
<1>3. PICK next \in Statuses : cards' = [cards EXCEPT ![i].status = next]
  <2>1. PICK next \in IF cards[i].status = "pending" THEN {"submitting", "expired", "done"} ELSE {"done", "failed"} :
            cards' = [cards EXCEPT ![i].status = next]
    BY Zenon DEF CardMoves
  <2>2. next \in Statuses
    BY Zenon, <2>1 DEF Statuses
  <2> QED
    BY <2>1, <2>2, Zenon
<1>4. i \in 1..Len(cards) /\ cards[i] \in CardType
  BY <1>1
<1> DEFINE c == [cards[i] EXCEPT !.status = next]
<1>5. c \in CardType /\ c.status = next /\ c.setup = cards[i].setup /\ c.at = cards[i].at /\ c.run = cards[i].run
      /\ c.budget = cards[i].budget /\ c.capped = cards[i].capped /\ c.reprices = cards[i].reprices
  BY Zenon, <1>4 DEF CardType
<1>6. cards' = [cards EXCEPT ![i] = c]
  BY Zenon, <1>3
<1> HIDE DEF c
<1>7. cards' \in Seq(CardType) /\ DOMAIN cards' = DOMAIN cards /\ cards'[i] = c
      /\ \A k \in DOMAIN cards : k # i => cards'[k] = cards[k]
  BY <1>1, <1>4, <1>5, <1>6
<1>8. \A k \in DOMAIN cards :
         /\ cards'[k].setup = cards[k].setup /\ cards'[k].at = cards[k].at /\ cards'[k].run = cards[k].run
         /\ cards'[k].budget = cards[k].budget /\ cards'[k].capped = cards[k].capped
         /\ cards'[k].reprices = cards[k].reprices
  BY <1>5, <1>7, Zenon
<1>9. SameSpending(cards, cards')
  BY <1>7, <1>8, ZenonT(30) DEF SameSpending, Spending
<1>10. Derived(cards, cards')
  BY <1>7, <1>8, Zenon DEF Derived
<1>11. \A k \in DOMAIN cards : cards'[k].status \in {"pending", "submitting"} => cards[k].status \in {"pending", "submitting"}
  BY <1>2, <1>7, Zenon
<1>12. \A s : NoLive(cards, s) => NoLive(cards', s)
  BY <1>7, <1>8, <1>11, Zenon DEF NoLive
<1>13. OneLiveCard'
  <2>1. OneLiveCard
    BY Zenon DEF ScanInv
  <2> QED
    BY <1>7, <1>8, <1>11, <2>1, ZenonT(30) DEF OneLiveCard
<1> QED
  BY <1>2, <1>7, <1>9, <1>10, <1>12, <1>13, MovesKeep, Zenon

\* replace_signal: the repriced card stands for the one it expires, and spends no slot.
LEMMA ReplaceSignalInv ==
    ASSUME ScanInv, NEW i \in DOMAIN cards, replace_signal(i)
    PROVE  ScanInv'
<1>1. cards \in Seq(CardType) /\ now \in Nat
  BY Zenon DEF ScanInv, ScanTypeOK
<1>2. cards[i].status = "pending" /\ UNCHANGED <<now, scan, scans, ranking>>
      /\ cards' = Append([cards EXCEPT ![i].status = "expired"], [cards[i] EXCEPT !.at = now, !.reprices = i])
  BY Zenon DEF replace_signal
<1>3. i \in 1..Len(cards) /\ cards[i] \in CardType /\ i \in Nat /\ i # 0
  BY <1>1
<1> DEFINE c == [cards[i] EXCEPT !.status = "expired"]
           e == [cards[i] EXCEPT !.at = now, !.reprices = i]
           n == Len(cards) + 1
<1>4. c \in CardType /\ c.status = "expired" /\ c.setup = cards[i].setup /\ c.at = cards[i].at /\ c.run = cards[i].run
      /\ c.budget = cards[i].budget /\ c.capped = cards[i].capped /\ c.reprices = cards[i].reprices
  BY Zenon, <1>3 DEF CardType, Statuses
<1>5. e \in CardType /\ e.setup = cards[i].setup /\ e.run = cards[i].run
      /\ e.budget = cards[i].budget /\ e.capped = cards[i].capped /\ e.reprices # 0
  BY Zenon, <1>1, <1>3 DEF CardType
<1>6. cards' = Append([cards EXCEPT ![i] = c], e)
  BY Zenon, <1>2
<1> HIDE DEF c, e
<1>7. cards' \in Seq(CardType) /\ DOMAIN cards' = DOMAIN cards \cup {n} /\ cards'[i] = c /\ cards'[n] = e
      /\ n \notin DOMAIN cards /\ \A k \in DOMAIN cards : k # i => cards'[k] = cards[k]
  <2> DEFINE mid == [cards EXCEPT ![i] = c]
  <2>1. mid \in Seq(CardType) /\ Len(mid) = Len(cards) /\ mid[i] = c
        /\ \A k \in 1..Len(cards) : k # i => mid[k] = cards[k]
    BY <1>1, <1>3, <1>4
  <2>2. cards' = Append(mid, e)
    BY Zenon, <1>6
  <2> HIDE DEF mid
  <2>3. cards' \in Seq(CardType) /\ Len(cards') = Len(cards) + 1 /\ cards'[Len(cards) + 1] = e
        /\ \A k \in 1..Len(cards) : cards'[k] = mid[k]
    <3>1. Appended(mid, e, cards', CardType)
      BY <1>5, <2>1, <2>2, AppendedFacts, Zenon
    <3> QED
      BY <2>1, <3>1, Zenon DEF Appended
  <2>4. DOMAIN cards = 1..Len(cards) /\ DOMAIN cards' = 1..(Len(cards) + 1) /\ Len(cards) \in Nat
    BY <1>1, <2>3
  <2>5. DOMAIN cards' = DOMAIN cards \cup {n} /\ n \notin DOMAIN cards
    BY <2>4
  <2> QED
    BY <1>3, <2>1, <2>3, <2>4, <2>5, Zenon
<1> HIDE DEF n
<1>8. \A k \in DOMAIN cards :
         /\ cards'[k].setup = cards[k].setup /\ cards'[k].at = cards[k].at /\ cards'[k].run = cards[k].run
         /\ cards'[k].budget = cards[k].budget /\ cards'[k].capped = cards[k].capped
         /\ cards'[k].reprices = cards[k].reprices
  BY <1>4, <1>7, Zenon
<1>9. SameSpending(cards, cards')
  BY <1>5, <1>7, <1>8, ZenonT(30) DEF SameSpending, Spending
<1>10. Derived(cards, cards')
  BY <1>5, <1>7, <1>8, ZenonT(30) DEF Derived
<1>11. /\ \A k \in DOMAIN cards : cards'[k].status \in {"pending", "submitting"} =>
              cards[k].status \in {"pending", "submitting"} /\ k # i
       /\ cards'[n].setup = cards[i].setup
  <2>1. c.status \notin {"pending", "submitting"}
    BY Zenon, <1>4
  <2> QED
    BY <1>5, <1>7, <2>1, Zenon
<1>12. cards[i].status \in {"pending", "submitting"}
  BY Zenon, <1>2
<1>13. ASSUME NEW s, NoLive(cards, s), NEW k \in DOMAIN cards', cards'[k].status \in {"pending", "submitting"}
       PROVE  cards'[k].setup # s
  <2>1. CASE k = n
    BY <1>11, <1>12, <1>13, <2>1, Zenon DEF NoLive
  <2>2. CASE k \in DOMAIN cards
    BY <1>8, <1>11, <1>13, <2>2, Zenon DEF NoLive
  <2> QED
    BY <1>7, <2>1, <2>2, Zenon
<1>14. OneLiveCard'
  <2>1. OneLiveCard
    BY Zenon DEF ScanInv
  <2> SUFFICES ASSUME NEW j \in DOMAIN cards', NEW k \in DOMAIN cards', cards'[j].setup = cards'[k].setup,
                      cards'[j].setup \in Carried, cards'[j].status \in {"pending", "submitting"},
                      cards'[k].status \in {"pending", "submitting"}
               PROVE  j = k
    BY Zenon DEF OneLiveCard
  <2>2. CASE j \in DOMAIN cards /\ k \in DOMAIN cards
    BY <1>8, <1>11, <2>1, <2>2, ZenonT(30) DEF OneLiveCard
  <2>3. CASE j = n /\ k \in DOMAIN cards
    <3>1. k # i /\ cards[k].status \in {"pending", "submitting"} /\ cards[k].setup = cards[i].setup
      BY <1>8, <1>11, <2>3, Zenon
    <3> QED
      BY <1>11, <1>12, <2>1, <2>3, <3>1, Zenon DEF OneLiveCard
  <2>4. CASE k = n /\ j \in DOMAIN cards
    <3>1. j # i /\ cards[j].status \in {"pending", "submitting"} /\ cards[j].setup = cards[i].setup
      BY <1>8, <1>11, <2>4, Zenon
    <3> QED
      BY <1>11, <1>12, <2>1, <2>4, <3>1, Zenon DEF OneLiveCard
  <2> QED
    BY <1>7, <2>2, <2>3, <2>4, Zenon
<1>15. \A s : NoLive(cards, s) => NoLive(cards', s)
  BY <1>13, Zenon DEF NoLive
<1> QED
  BY <1>2, <1>7, <1>9, <1>10, <1>14, <1>15, MovesKeep, Zenon
-----------------------------------------------------------------------------
(* The scan up to its send loop. *)

\* The lock is taken: a scan of its own number, with no card yet.
LEMMA BeginInv ==
    ASSUME ScanInv, NEW kind \in Kinds, NEW target \in {NoSetup} \cup Native, Begin(kind, target)
    PROVE  ScanInv'
<1>1. UNCHANGED <<now, cards>> /\ scans' = scans + 1 /\ ranking' = NoEvent
      /\ scan' = [phase |-> "collect", kind |-> kind, target |-> target, run |-> scans + 1]
  BY Zenon DEF Begin
<1>2. scans \in Nat /\ cards \in Seq(CardType) /\ FitCards(cards, scans)
  BY Zenon DEF ScanInv, ScanTypeOK
<1>3. PICK m \in Nat : m = scans + 1
  BY <1>2
<1>4. m > scans /\ m > 0
  BY <1>2, <1>3
<1>5. \A i \in DOMAIN cards : cards[i].run \in Nat /\ cards[i].run <= scans
  <2>1. \A i \in DOMAIN cards : cards[i] \in CardType
    BY <1>2
  <2> QED
    BY Zenon, <1>2, <2>1 DEF CardType, FitCards
<1>6. \A i \in DOMAIN cards : cards[i].run # m /\ cards[i].run <= m
  BY <1>2, <1>4, <1>5
<1>7. FitCards(cards, m)
  BY <1>2, <1>6, Zenon DEF FitCards
<1>8. SentIn(cards, m) = {}
  BY <1>6, Zenon DEF SentIn, Spending
<1>9. scan'.phase = "collect" /\ scan'.kind = kind /\ scan'.target = target /\ scan'.run = m
  BY Zenon, <1>1, <1>3
<1>10. FitScan(scan', cards, m)
  BY Zenon, <1>4, <1>6, <1>8, <1>9 DEF FitScan
<1>11. FitRanking(NoEvent, cards, scan', m)
  <2>1. NoEvent.run = 0 /\ NoEvent.outcomes = <<>>
    BY Zenon DEF NoEvent
  <2>2. Range(NoEvent.outcomes) = {}
    BY <2>1 DEF Range
  <2>3. 0 \in Nat /\ 0 <= m /\ ~ (0 > 0)
    BY <1>4
  <2> QED
    BY <2>1, <2>2, <2>3, Zenon DEF FitRanking
<1>12. Budgeted(scan', cards, now) /\ scan'.phase # "evaluate"
  BY Zenon, <1>9 DEF Budgeted
<1>13. ScanTypeOK'
  BY <1>1, <1>3, Zenon DEF ScanInv, ScanTypeOK
<1>14. OneLiveCard'
  BY <1>1, Zenon DEF ScanInv, OneLiveCard
<1>15. scans' = m
  BY <1>1, <1>3, Zenon
<1> QED
  BY <1>1, <1>7, <1>10, <1>11, <1>12, <1>13, <1>14, <1>15, Zenon DEF ScanInv

\* The scheduler, an operator or a background task gets the lock.
LEMMA BeginsInv ==
    ASSUME ScanInv, \/ \E kind \in Scheduled \cup {"operator"} : BeginScan(kind)
                    \/ \E r \in Background \X Native : BeginBackground(r)
    PROVE  ScanInv'
<1>1. ASSUME NEW kind \in Scheduled \cup {"operator"}, BeginScan(kind) PROVE ScanInv'
  <2>1. Begin(kind, NoSetup) /\ kind \in Kinds /\ NoSetup \in {NoSetup} \cup Native
    BY <1>1, Zenon DEF BeginScan, Kinds
  <2> QED
    BY <2>1, BeginInv, Zenon
<1>2. ASSUME NEW r \in Background \X Native, BeginBackground(r) PROVE ScanInv'
  <2>1. Begin(r[1], r[2])
    BY <1>2, Zenon DEF BeginBackground
  <2>2. r[1] \in Background /\ r[2] \in Native
    BY Zenon
  <2>3. r[1] \in Kinds /\ r[2] \in {NoSetup} \cup Native
    BY <2>2, Zenon DEF Kinds
  <2> QED
    BY <2>1, <2>3, BeginInv, Zenon
<1> QED
  BY <1>1, <1>2, Zenon

\* What is known of a scan in progress.
LEMMA ScanFacts ==
    ASSUME ScanInv, scan # NoScan
    PROVE  /\ scan.kind \in Kinds /\ scan.target \in {NoSetup} \cup Native /\ scan.run = scans /\ scans > 0
           /\ scans \in Nat /\ now \in Nat /\ cards \in Seq(CardType)
           /\ \A i \in DOMAIN cards : cards[i].run = scan.run => cards[i].budget = Budget(scan.kind)
           /\ ranking = NoEvent
           /\ scan.phase # "collect" => Told(scan, cards)
BY Zenon DEF ScanInv, ScanTypeOK, FitScan, FitRanking

\* A phase is one of a scan.
LEMMA PhaseIsScan == scan.phase # "idle" => scan # NoScan
BY DEF NoScan

\* The gates: no card yet, and an empty ranking, if it is journaled.
LEMMA GatedInv == ScanInv /\ Gated => ScanInv'
<1> SUFFICES ASSUME ScanInv, Gated PROVE ScanInv'
  BY Zenon
<1>1. scan.phase = "collect" /\ UNCHANGED <<now, cards, scans>> /\ scan' = NoScan
      /\ (ranking' = ranking \/ ranking' = [run |-> scan.run, outcomes |-> <<>>])
  BY Zenon DEF Gated, append_scan_journal
<1>2. scan # NoScan
  BY Zenon, <1>1, PhaseIsScan
<1>3. FitRanking(ranking, cards, NoScan, scans) /\ SentIn(cards, scan.run) = {}
  BY <1>1, <1>2, Zenon DEF ScanInv, FitRanking, FitScan
<1>4. scan.run = scans /\ scans > 0 /\ scans \in Nat
  BY <1>2, ScanFacts, Zenon
<1>5. CASE ranking' = [run |-> scan.run, outcomes |-> <<>>]
  <2>1. ranking'.run = scan.run /\ ranking'.outcomes = <<>>
    BY Zenon, <1>5
  <2>2. Range(ranking'.outcomes) = {}
    BY <2>1 DEF Range
  <2>3. scans <= scans
    BY <1>4
  <2>4. FitRanking(ranking', cards, NoScan, scans)
    BY <1>3, <1>4, <2>1, <2>2, <2>3, Zenon DEF FitRanking
  <2> QED
    BY <1>1, <2>4, ScanEnds, Zenon
<1> QED
  BY <1>1, <1>3, <1>5, ScanEnds, Zenon

\* An order of admitted setups is a sequence of setups.
LEMMA OrdersAreSeqs ==
    ASSUME NEW S \in SUBSET Setups, NEW s \in Orders(S)
    PROVE  s \in Seq(Setups)
<1>1. Cardinality(S) \in Nat
  <2>1. IsFiniteSet(S)
    BY ScanAssumption, FS_Subset, Zenon
  <2> QED
    BY <2>1, FS_CardinalityType, Zenon
<1>2. s \in [1..Cardinality(S) -> S]
  BY Zenon DEF Orders, Injection
<1>3. s \in [1..Cardinality(S) -> Setups]
  BY Zenon, <1>2
<1> QED
  BY <1>1, <1>3

\* Steps of the scan that record no card.
LEMMA ScanMoves ==
    ASSUME ScanInv, UNCHANGED <<now, cards, scans, ranking>>, FitScan(scan', cards, scans), scan # NoScan,
           Budgeted(scan', cards, now), scan'.phase = "evaluate" => Passed(scan', cards)
    PROVE  ScanInv'
<1>1. ScanTypeOK'
  BY Zenon DEF ScanInv, ScanTypeOK
<1>2. OneLiveCard'
  BY Zenon DEF ScanInv, OneLiveCard
<1>3. FitRanking(ranking, cards, scan', scans)
  BY Zenon DEF ScanInv, FitRanking
<1> QED
  BY <1>1, <1>2, <1>3, Zenon DEF ScanInv

\* COLLECT and RANK: every outcome is open, or held at once in a journal-only scan.
LEMMA CollectInv == ScanInv /\ Collect => ScanInv'
<1> SUFFICES ASSUME ScanInv, Collect PROVE ScanInv'
  BY Zenon
<1>1. scan.phase = "collect" /\ UNCHANGED <<now, cards, scans, ranking>>
  BY Zenon DEF Collect
<1>2. scan # NoScan
  BY Zenon, <1>1, PhaseIsScan
<1>3. /\ scan.kind \in Kinds /\ scan.target \in {NoSetup} \cup Native /\ scan.run = scans /\ scans > 0
      /\ \A i \in DOMAIN cards : cards[i].run = scan.run => cards[i].budget = Budget(scan.kind)
  BY <1>2, ScanFacts, Zenon
<1>4. SentIn(cards, scan.run) = {}
  BY <1>1, <1>2, Zenon DEF ScanInv, FitScan
<1> DEFINE open == IF scan.kind = "swing" THEN "held" ELSE "none"
           phase == IF scan.kind = "swing" THEN "journal" ELSE "budget"
<1>5. PICK ranked \in Seq(Setups) :
         scan' = [phase |-> phase, kind |-> scan.kind, target |-> scan.target, run |-> scan.run, ranked |-> ranked,
                  outcomes |-> [i \in DOMAIN ranked |-> open]]
  <2>1. PICK found \in SUBSET Selectable :
          \E natives \in Orders(Admitted(found) \cap Native), events \in Orders(Admitted(found) \cap Events) :
            scan' = [phase |-> phase, kind |-> scan.kind, target |-> scan.target, run |-> scan.run,
                     ranked |-> natives \o events, outcomes |-> [i \in DOMAIN (natives \o events) |-> open]]
    BY Zenon DEF Collect
  <2>2. PICK natives \in Orders(Admitted(found) \cap Native), events \in Orders(Admitted(found) \cap Events) :
          scan' = [phase |-> phase, kind |-> scan.kind, target |-> scan.target, run |-> scan.run,
                   ranked |-> natives \o events, outcomes |-> [i \in DOMAIN (natives \o events) |-> open]]
    BY <2>1, Zenon
  <2>3. Admitted(found) \cap Native \in SUBSET Setups /\ Admitted(found) \cap Events \in SUBSET Setups
    BY Zenon DEF Setups
  <2>4. natives \in Seq(Setups) /\ events \in Seq(Setups)
    BY <2>3, OrdersAreSeqs, Zenon
  <2>5. natives \o events \in Seq(Setups)
    BY <2>4
  <2> QED
    BY <2>2, <2>5, Zenon
<1> DEFINE outcomes == [i \in DOMAIN ranked |-> open]
<1>6. outcomes \in Seq(Outcomes) /\ Len(outcomes) = Len(ranked) /\ \A k \in 1..Len(ranked) : outcomes[k] = open
  BY DEF Outcomes
<1>7. scan'.phase = phase /\ scan'.kind = scan.kind /\ scan'.target = scan.target /\ scan'.run = scan.run
      /\ scan'.ranked = ranked /\ scan'.outcomes = outcomes
  BY Zenon, <1>5
<1> HIDE DEF outcomes
<1>8. open # "sent" /\ (phase = "journal" => open # "none") /\ (phase = "budget" => open = "none")
      /\ phase \in {"journal", "budget"}
  BY Zenon
<1> HIDE DEF open, phase
<1>9. Told(scan', cards)
  BY Zenon, <1>4, <1>6, <1>7, <1>8 DEF Told, ToldSent
<1>10. FitScan(scan', cards, scans)
  BY Zenon, <1>3, <1>4, <1>6, <1>7, <1>8, <1>9 DEF FitScan
<1>11. Budgeted(scan', cards, now) /\ scan'.phase # "evaluate"
  BY Zenon, <1>7, <1>8 DEF Budgeted
<1> QED
  BY <1>1, <1>2, <1>10, <1>11, ScanMoves, Zenon

\* Today's cards that signals_since returns are the spending cards of this date and later.
LEMMA TodayCounts ==
    ASSUME ScanTypeOK
    PROVE  LET today == signals_since(session_start_et) IN
           /\ Spent(today, Native) = Cardinality(NativeSince(cards, Date(now)))
           /\ \A c \in Sources : Spent(today, Of(c)) = Cardinality(SourceSince(cards, Date(now), c))
           /\ \A g \in Groups : Spent_group(today, g) = Cardinality(GroupSince(cards, Date(now), g))
<1> DEFINE today == signals_since(session_start_et)
<1>1. today = {i \in Spending(cards) : Date(cards[i].at) >= Date(now)}
  <2>1. now \in Nat /\ cards \in Seq(CardType)
    BY Zenon DEF ScanTypeOK
  <2>2. \A i \in DOMAIN cards : cards[i].at \in Nat
    <3>1. \A i \in DOMAIN cards : cards[i] \in CardType
      BY <2>1
    <3> QED
      BY Zenon, <3>1 DEF CardType
  <2>3. \A i \in DOMAIN cards : (cards[i].at >= Date(now) * DayLength) = (Date(cards[i].at) >= Date(now))
    BY <2>1, <2>2, DateSince, Zenon
  <2> QED
    BY <2>3, Zenon DEF signals_since, session_start_et, Spending
<1> HIDE DEF today
<1>2. {i \in today : cards[i].setup \in Native} = NativeSince(cards, Date(now))
  BY <1>1, Zenon DEF NativeSince
<1>3. \A c \in Sources : {i \in today : cards[i].setup \in Of(c)} = SourceSince(cards, Date(now), c)
  BY <1>1, Zenon DEF SourceSince
<1>4. \A g \in Groups : {i \in today : g \in card_groups(cards[i].setup)} = GroupSince(cards, Date(now), g)
  BY <1>1, Zenon DEF GroupSince
<1>5. /\ Spent(today, Native) = Cardinality(NativeSince(cards, Date(now)))
      /\ \A c \in Sources : Spent(today, Of(c)) = Cardinality(SourceSince(cards, Date(now), c))
      /\ \A g \in Groups : Spent_group(today, g) = Cardinality(GroupSince(cards, Date(now), g))
  BY <1>2, <1>3, <1>4, Zenon DEF Spent, Spent_group
<1> QED
  BY <1>5, Zenon DEF today

\* What is left of an allowance is a number, and positive only when it and what is spent stay
\* within the limit.
LEMMA LeftFacts ==
    ASSUME NEW limit \in Nat, NEW spent \in Nat
    PROVE  Left(limit, spent) \in Int /\ (Left(limit, spent) > 0 => spent + Left(limit, spent) <= limit)
BY DEF Left

\* The budget is read: what this date's cards leave of each allowance.
LEMMA ReadBudgetInv == ScanInv /\ ReadBudget => ScanInv'
<1> SUFFICES ASSUME ScanInv, ReadBudget PROVE ScanInv'
  BY Zenon
<1> DEFINE today == signals_since(session_start_et)
           budget == Budget(scan.kind)
           all == Len(scan.ranked)
           perScan == IF budget = "FULL" THEN MaxPerScan ELSE all
           perSession == IF budget = "NONE" THEN all ELSE Left(MaxPerSession, Spent(today, Native))
           source == [c \in Sources |-> IF budget = "NONE" THEN 0 ELSE Left(MaxPerSource, Spent(today, Of(c)))]
           groups == [g \in Groups |->
                        IF budget = "NONE" /\ ~ (operator_dynamic /\ g = Dynamic) THEN 0 ELSE Spent_group(today, g)]
<1>1. scan.phase = "budget" /\ UNCHANGED <<now, cards, scans, ranking>>
      /\ scan' = [phase |-> "send", kind |-> scan.kind, target |-> scan.target, run |-> scan.run,
                  ranked |-> scan.ranked, outcomes |-> scan.outcomes, rank |-> 1,
                  perScan |-> perScan, perSession |-> perSession, source |-> source, groups |-> groups,
                  llm |-> MaxLLM, calls |-> 0, breaker |-> "closed"]
  BY Zenon DEF ReadBudget
<1>2. scan # NoScan
  BY Zenon, <1>1, PhaseIsScan
<1>3. /\ scan.kind \in Kinds /\ scan.target \in {NoSetup} \cup Native /\ scan.run = scans /\ scans > 0
      /\ scans \in Nat /\ now \in Nat /\ cards \in Seq(CardType)
      /\ \A i \in DOMAIN cards : cards[i].run = scan.run => cards[i].budget = Budget(scan.kind)
      /\ Told(scan, cards)
  <2>1. scan.phase # "collect"
    BY Zenon, <1>1
  <2> QED
    BY <1>2, <2>1, ScanFacts, Zenon
<1>4. SentIn(cards, scan.run) = {} /\ \A k \in 1..Len(scan.ranked) : scan.outcomes[k] = "none"
  BY <1>1, <1>2, Zenon DEF ScanInv, FitScan
<1>5. scan.ranked \in Seq(Setups) /\ scan.outcomes \in Seq(Outcomes) /\ all \in Nat
  <2>1. scan.ranked \in Seq(Setups) /\ scan.outcomes \in Seq(Outcomes)
    BY <1>3, Zenon DEF Told
  <2> QED
    BY <2>1
<1> DEFINE D == Date(now)
           n == Cardinality(NativeSince(cards, D))
<1>6. D \in Int /\ D <= Date(now)
  <2>1. D \in Nat
    BY Zenon, <1>3, DateFacts
  <2> QED
    BY <2>1
<1>7. ScanTypeOK
  BY Zenon DEF ScanInv
<1>8. /\ Spent(today, Native) = n
      /\ \A c \in Sources : Spent(today, Of(c)) = Cardinality(SourceSince(cards, D, c))
      /\ \A g \in Groups : Spent_group(today, g) = Cardinality(GroupSince(cards, D, g))
  BY <1>7, TodayCounts, Zenon
<1>9. \A T \in SUBSET Spending(cards) : Cardinality(T) \in Nat
  BY <1>3, SpendingFinite, Zenon
<1>10. NativeSince(cards, D) \in SUBSET Spending(cards)
       /\ \A c : SourceSince(cards, D, c) \in SUBSET Spending(cards) /\ GroupSince(cards, D, c) \in SUBSET Spending(cards)
  BY Zenon DEF NativeSince, SourceSince, GroupSince
<1>11. n \in Nat /\ \A c : Cardinality(SourceSince(cards, D, c)) \in Nat /\ Cardinality(GroupSince(cards, D, c)) \in Nat
  BY <1>9, <1>10, Zenon
<1> HIDE DEF today, D, n
<1>12. MaxPerScan \in Nat /\ MaxPerSession \in Nat /\ MaxPerSource \in Nat /\ MaxPerScan <= MaxPerScan
  BY ScanAssumption
<1>13. perScan \in Int
  BY <1>5, <1>12
<1>14. perSession \in Int /\ (budget # "NONE" /\ perSession > 0 => n + perSession <= MaxPerSession)
  <2>1. Left(MaxPerSession, n) \in Int /\ (Left(MaxPerSession, n) > 0 => n + Left(MaxPerSession, n) <= MaxPerSession)
    BY <1>11, <1>12, LeftFacts, Zenon
  <2>2. CASE budget = "NONE"
    BY <1>5, <2>2
  <2>3. CASE budget # "NONE"
    <3>1. perSession = Left(MaxPerSession, n)
      BY <1>8, <2>3, Zenon
    <3> QED
      BY <2>1, <2>3, <3>1, Zenon
  <2> QED
    BY <2>2, <2>3, Zenon
<1>15. ASSUME NEW c \in Sources
       PROVE  source[c] \in Int /\ (source[c] > 0 => Cardinality(SourceSince(cards, D, c)) + source[c] <= MaxPerSource)
  <2> DEFINE m == Cardinality(SourceSince(cards, D, c))
  <2>1. Left(MaxPerSource, m) \in Int /\ (Left(MaxPerSource, m) > 0 => m + Left(MaxPerSource, m) <= MaxPerSource)
    <3>1. m \in Nat
      BY <1>11, Zenon
    <3> QED
      BY <1>12, <3>1, LeftFacts, Zenon
  <2>2. CASE budget = "NONE"
    <3>1. source[c] = 0
      BY <2>2, Zenon
    <3> QED
      BY <3>1
  <2>3. CASE budget # "NONE"
    <3>1. source[c] = Left(MaxPerSource, m)
      BY <1>8, <2>3, Zenon
    <3> QED
      BY <2>1, <3>1, Zenon
  <2> QED
    BY <2>2, <2>3, Zenon
<1>16. ASSUME NEW g \in Groups
       PROVE  groups[g] \in Int /\ (Counted(scan, g) => groups[g] = Cardinality(GroupSince(cards, D, g)))
  <2> DEFINE m == Cardinality(GroupSince(cards, D, g))
  <2>1. m \in Int
    BY <1>11
  <2>2. groups[g] = IF budget = "NONE" /\ ~ (operator_dynamic /\ g = Dynamic) THEN 0 ELSE m
    BY <1>8, Zenon
  <2> HIDE DEF m, groups
  <2>3. Counted(scan, g) => groups[g] = m
    BY <2>2, Zenon DEF Counted, operator_dynamic
  <2>4. groups[g] \in {0, m}
    BY <2>2, Zenon
  <2>5. groups[g] \in Int
    BY <2>1, <2>4
  <2> QED
    BY Zenon, <2>3, <2>5 DEF m
<1>17. source \in [Sources -> Int] /\ groups \in [Groups -> Int]
  <2>1. source = [c \in Sources |-> source[c]] /\ groups = [g \in Groups |-> groups[g]]
    BY Zenon
  <2> HIDE DEF source, groups
  <2> QED
    BY <1>15, <1>16, <2>1, Zenon
<1> HIDE DEF perScan, perSession, source, groups
<1>18. scan'.phase = "send" /\ scan'.kind = scan.kind /\ scan'.target = scan.target /\ scan'.run = scan.run
       /\ scan'.ranked = scan.ranked /\ scan'.outcomes = scan.outcomes /\ scan'.rank = 1
       /\ scan'.perScan = perScan /\ scan'.perSession = perSession /\ scan'.source = source /\ scan'.groups = groups
       /\ scan'.calls = 0
  BY Zenon, <1>1
<1>19. scan' \in SendType
  <2>1. MaxLLM \in Int /\ 1 \in Nat /\ 0 \in Int
    BY ScanAssumption
  <2>2. scan.run \in Nat
    BY Zenon, <1>3
  <2>3. "send" \in {"send", "evaluate"} /\ "closed" \in {"closed", "open"}
    BY Zenon
  <2> QED
    BY <1>1, <1>3, <1>5, <1>13, <1>14, <1>17, <2>1, <2>2, <2>3, Zenon DEF SendType
<1>20. FitSend(scan')
  <2>1. \A k \in 1..Len(scan.ranked) : k >= 1
    BY <1>5
  <2>2. scan'.calls <= 1 /\ scan'.rank >= 1 /\ scan'.phase # "evaluate"
    BY <1>18
  <2> QED
    BY <1>4, <1>18, <1>19, <2>1, <2>2, Zenon DEF FitSend
<1>21. Told(scan', cards)
  BY <1>3, <1>18, Zenon DEF Told
<1>22. FitScan(scan', cards, scans)
  <2>1. scan'.phase \in {"collect", "journal", "budget", "send", "evaluate"}
        /\ scan'.phase \notin {"collect", "journal", "budget"}
    BY Zenon, <1>18
  <2> QED
    BY <1>3, <1>18, <1>20, <1>21, <2>1, Zenon DEF FitScan
<1>23. Rationed(scan', cards, D)
  <2>1. Budget(scan'.kind) = "FULL" => Cardinality(NativeIn(cards, scan'.run)) + scan'.perScan <= MaxPerScan
    <3>1. NativeIn(cards, scan.run) = {}
      BY <1>4, Zenon DEF SentIn, NativeIn
    <3>2. Cardinality({}) = 0
      BY FS_EmptySet, Zenon
    <3>3. budget = "FULL" => perScan = MaxPerScan
      BY Zenon DEF perScan
    <3>4. 0 + MaxPerScan <= MaxPerScan
      BY <1>12
    <3> QED
      BY <1>18, <3>1, <3>2, <3>3, <3>4, Zenon
  <2>2. Budget(scan'.kind) # "NONE" /\ scan'.perSession > 0 =>
          Cardinality(NativeSince(cards, D)) + scan'.perSession <= MaxPerSession
    BY <1>14, <1>18, Zenon DEF n
  <2>3. \A c \in Sources : scan'.source[c] > 0 =>
          Cardinality(SourceSince(cards, D, c)) + scan'.source[c] <= MaxPerSource
    BY <1>15, <1>18, Zenon
  <2>4. ASSUME NEW g \in Groups, Counted(scan', g) PROVE Cardinality(GroupSince(cards, D, g)) <= scan'.groups[g]
    <3>1. Counted(scan, g)
      BY <1>18, <2>4, Zenon DEF Counted
    <3>2. scan'.groups[g] = Cardinality(GroupSince(cards, D, g)) /\ Cardinality(GroupSince(cards, D, g)) \in Nat
      BY <1>11, <1>16, <1>18, <3>1, Zenon
    <3> QED
      BY <3>2
  <2> QED
    BY <2>1, <2>2, <2>3, <2>4, Zenon DEF Rationed
<1>24. Budgeted(scan', cards, now)
  BY <1>6, <1>23, Zenon DEF Budgeted
<1>25. scan'.phase # "evaluate"
  BY Zenon, <1>18
<1> QED
  BY <1>1, <1>2, <1>22, <1>24, <1>25, ScanMoves, Zenon
-----------------------------------------------------------------------------
(* The send loop. *)

\* What is known of a scan in its send loop.
LEMMA SendFacts ==
    ASSUME ScanInv, scan.phase \in {"send", "evaluate"}
    PROVE  /\ scan # NoScan /\ scan \in SendType /\ FitSend(scan) /\ Told(scan, cards)
           /\ scan.rank \in Nat /\ scan.rank >= 1 /\ scan.ranked \in Seq(Setups) /\ scan.outcomes \in Seq(Outcomes)
           /\ Len(scan.outcomes) = Len(scan.ranked) /\ Len(scan.ranked) \in Nat
<1>1. scan # NoScan
  BY Zenon, PhaseIsScan
<1>2. FitSend(scan) /\ Told(scan, cards)
  <2>1. scan.phase # "collect"
    BY Zenon
  <2> QED
    BY <1>1, <2>1, Zenon DEF ScanInv, FitScan
<1>3. scan \in SendType /\ scan.rank >= 1
  BY <1>2, Zenon DEF FitSend
<1>4. scan.rank \in Nat /\ scan.ranked \in Seq(Setups) /\ scan.outcomes \in Seq(Outcomes)
  BY Zenon, <1>3 DEF SendType
<1>5. Len(scan.outcomes) = Len(scan.ranked) /\ Len(scan.ranked) \in Nat
  BY <1>2, <1>4 DEF Told
<1> QED
  BY <1>1, <1>2, <1>3, <1>4, <1>5, Zenon

SameScan(nx, sc) ==
    nx.kind = sc.kind /\ nx.target = sc.target /\ nx.run = sc.run /\ nx.ranked = sc.ranked
SameBudget(nx, sc) ==
    nx.perScan = sc.perScan /\ nx.perSession = sc.perSession /\ nx.source = sc.source /\ nx.groups = sc.groups

\* The candidate's outcome is set and the loop goes to the next.
Settled(nx, sc, outcome) ==
    /\ nx \in SendType /\ SameScan(nx, sc) /\ nx.phase = "send" /\ nx.rank = sc.rank + 1
    /\ nx.outcomes = [sc.outcomes EXCEPT ![sc.rank] = outcome]

\* Settle leaves the budget and the breaker.
LEMMA SettleFacts ==
    ASSUME NEW outcome \in Outcomes, scan \in SendType, scan.rank \in 1..Len(scan.outcomes)
    PROVE  /\ Settled(Settle(outcome), scan, outcome) /\ SameBudget(Settle(outcome), scan)
           /\ Settle(outcome).calls = scan.calls /\ Settle(outcome).breaker = scan.breaker
<1> DEFINE o == [scan.outcomes EXCEPT ![scan.rank] = outcome]
<1>1. o \in Seq(Outcomes)
  <2>1. scan.outcomes \in Seq(Outcomes)
    BY Zenon DEF SendType
  <2> QED
    BY <2>1
<1>2. PICK n \in Nat : n = scan.rank + 1
  BY DEF SendType
<1> DEFINE one == [scan EXCEPT !.outcomes = o]
           two == [one EXCEPT !.rank = n]
           nx == [two EXCEPT !.phase = "send"]
<1>3. Settle(outcome) = nx
  BY Zenon, <1>2 DEF Settle, SendType
<1> HIDE DEF o
<1>4. one \in SendType /\ SameScan(one, scan) /\ SameBudget(one, scan) /\ one.outcomes = o
      /\ one.calls = scan.calls /\ one.breaker = scan.breaker
  BY Zenon, <1>1 DEF SendType, SameScan, SameBudget
<1> HIDE DEF one
<1>5. two \in SendType /\ SameScan(two, one) /\ SameBudget(two, one) /\ two.outcomes = one.outcomes /\ two.rank = n
      /\ two.calls = one.calls /\ two.breaker = one.breaker
  BY Zenon, <1>4 DEF SendType, SameScan, SameBudget
<1> HIDE DEF two
<1>6. nx \in SendType /\ SameScan(nx, two) /\ SameBudget(nx, two) /\ nx.outcomes = two.outcomes /\ nx.rank = two.rank
      /\ nx.phase = "send" /\ nx.calls = two.calls /\ nx.breaker = two.breaker
  BY Zenon, <1>5 DEF SendType, SameScan, SameBudget
<1> HIDE DEF nx
<1>7. SameScan(nx, scan) /\ SameBudget(nx, scan)
  BY <1>4, <1>5, <1>6, Zenon DEF SameScan, SameBudget
<1>8. Settled(nx, scan, outcome)
  BY <1>2, <1>4, <1>5, <1>6, <1>7, Zenon DEF Settled, o
<1>9. nx.calls = scan.calls /\ nx.breaker = scan.breaker
  BY <1>4, <1>5, <1>6, Zenon
<1> QED
  BY <1>3, <1>7, <1>8, <1>9, Zenon

\* The outcomes after the candidate's: those up to it are closed, the later ones open.
LEMMA SettledFits ==
    ASSUME ScanInv, scan.phase \in {"send", "evaluate"}, scan.rank <= Len(scan.ranked),
           NEW outcome \in {"held", "sent"}, NEW nx, Settled(nx, scan, outcome),
           nx.calls <= 1, nx.breaker = "closed" => nx.calls = 0
    PROVE  /\ FitSend(nx) /\ nx.outcomes \in Seq(Outcomes) /\ Len(nx.outcomes) = Len(nx.ranked)
           /\ ToldSent(nx.ranked, nx.outcomes) =
                ToldSent(scan.ranked, scan.outcomes) \cup (IF outcome = "sent" THEN {scan.ranked[scan.rank]} ELSE {})
<1>1. /\ FitSend(scan) /\ scan.rank \in Nat /\ scan.rank >= 1 /\ scan.ranked \in Seq(Setups)
      /\ scan.outcomes \in Seq(Outcomes) /\ Len(scan.outcomes) = Len(scan.ranked) /\ Len(scan.ranked) \in Nat
  BY SendFacts, Zenon
<1> DEFINE r == scan.rank
           n == Len(scan.ranked)
           o == [scan.outcomes EXCEPT ![scan.rank] = outcome]
<1>2. nx \in SendType /\ nx.ranked = scan.ranked /\ nx.phase = "send" /\ nx.rank = r + 1 /\ nx.outcomes = o
  BY Zenon DEF Settled, SameScan
<1>3. o \in Seq(Outcomes) /\ Len(o) = n /\ o[r] = outcome /\ \A k \in 1..n : k # r => o[k] = scan.outcomes[k]
  BY <1>1 DEF Outcomes
<1>4. \A k \in 1..n : (scan.outcomes[k] = "none") = (k >= r)
  BY <1>1, Zenon DEF FitSend
<1>5. r \in 1..n /\ outcome # "none"
  BY <1>1
<1> HIDE DEF o, r, n
<1>6. ASSUME NEW k \in 1..n PROVE (o[k] = "none") = (k >= r + 1)
  <2>0. r \in Nat /\ n \in Nat /\ k \in Nat
    BY <1>1 DEF r, n
  <2>1. CASE k = r
    <3>1. ~ (k >= r + 1) /\ o[k] # "none"
      BY <1>3, <1>5, <2>0, <2>1
    <3> QED
      BY <3>1, SMT
  <2>2. CASE k # r
    <3>1. (k >= r) = (k >= r + 1)
      BY <2>0, <2>2
    <3>2. o[k] = scan.outcomes[k] /\ (scan.outcomes[k] = "none") = (k >= r)
      BY <1>3, <1>4, <2>2, Zenon
    <3> QED
      BY <3>1, <3>2, Zenon
  <2> QED
    BY <2>1, <2>2, Zenon
<1>7. nx.rank >= 1 /\ nx.phase # "evaluate"
  <2>1. r \in Nat
    BY Zenon, <1>1 DEF r
  <2> QED
    BY <1>2, <2>1
<1>8. FitSend(nx)
  BY <1>2, <1>6, <1>7, Zenon DEF FitSend, n
<1>9. scan.outcomes[r] # "sent"
  <2>1. scan.outcomes[r] = "none"
    <3>1. r >= r
      BY <1>1 DEF r
    <3> QED
      BY <1>4, <1>5, <3>1, Zenon
  <2> QED
    BY Zenon, <2>1
<1>10. ToldSent(scan.ranked, o) =
         ToldSent(scan.ranked, scan.outcomes) \cup (IF outcome = "sent" THEN {scan.ranked[r]} ELSE {})
  <2>1. CASE outcome = "sent"
    BY <1>3, <1>5, <1>9, <2>1, ZenonT(30) DEF ToldSent, n
  <2>2. CASE outcome # "sent"
    BY <1>3, <1>5, <1>9, <2>2, ZenonT(30) DEF ToldSent, n
  <2> QED
    BY <2>1, <2>2, Zenon
<1> QED
  BY <1>2, <1>3, <1>8, <1>10, Zenon DEF r, n

\* An unchanged budget still bounds the same cards.
LEMMA RationedSame ==
    ASSUME NEW nx, NEW sc, NEW cs, NEW d, SameScan(nx, sc), SameBudget(nx, sc), Rationed(sc, cs, d)
    PROVE  Rationed(nx, cs, d)
<1>1. nx.kind = sc.kind /\ nx.target = sc.target /\ nx.run = sc.run
  BY Zenon DEF SameScan
<1>2. nx.perScan = sc.perScan /\ nx.perSession = sc.perSession /\ nx.source = sc.source /\ nx.groups = sc.groups
  BY Zenon DEF SameBudget
<1>3. \A g : Counted(nx, g) => Counted(sc, g)
  BY <1>1, Zenon DEF Counted
<1> QED
  BY <1>1, <1>2, <1>3, Zenon DEF Rationed

\* A step of the send loop that records no card and spends nothing.
LEMMA SendMoves ==
    ASSUME ScanInv, scan.phase \in {"send", "evaluate"}, UNCHANGED <<now, cards, scans, ranking>>,
           SameScan(scan', scan), SameBudget(scan', scan), FitSend(scan'), Told(scan', cards),
           scan'.phase = "evaluate" => Passed(scan', cards)
    PROVE  ScanInv'
<1>1. scan # NoScan
  BY Zenon, PhaseIsScan
<1>2. /\ scan.kind \in Kinds /\ scan.target \in {NoSetup} \cup Native /\ scan.run = scans /\ scans > 0
      /\ \A i \in DOMAIN cards : cards[i].run = scan.run => cards[i].budget = Budget(scan.kind)
  BY <1>1, ScanFacts, Zenon
<1>3. scan'.kind = scan.kind /\ scan'.target = scan.target /\ scan'.run = scan.run
  BY Zenon DEF SameScan
<1>4. scan'.phase \in {"send", "evaluate"}
  BY Zenon DEF FitSend, SendType
<1>5. scan'.phase \in {"collect", "journal", "budget", "send", "evaluate"}
      /\ scan'.phase \notin {"collect", "journal", "budget"}
  BY Zenon, <1>4
<1>6. FitScan(scan', cards, scans)
  BY <1>2, <1>3, <1>5, Zenon DEF FitScan
<1>7. Budgeted(scan', cards, now)
  <2>1. PICK d \in Int : d <= Date(now) /\ Rationed(scan, cards, d)
    BY Zenon DEF ScanInv, Budgeted
  <2>2. Rationed(scan', cards, d)
    BY <2>1, RationedSame, Zenon
  <2> QED
    BY <2>1, <2>2, Zenon DEF Budgeted
<1> QED
  BY <1>1, <1>6, <1>7, ScanMoves, Zenon

\* A candidate is held: no card of this scan.
LEMMA HeldInv ==
    ASSUME ScanInv, scan.phase \in {"send", "evaluate"}, scan.rank <= Len(scan.ranked),
           UNCHANGED <<now, cards, scans, ranking>>, Settled(scan', scan, "held"), SameBudget(scan', scan),
           scan'.calls <= 1, scan'.breaker = "closed" => scan'.calls = 0
    PROVE  ScanInv'
<1>1. "held" \in {"held", "sent"} /\ "held" # "sent"
  BY Zenon
<1>2. /\ FitSend(scan') /\ scan'.outcomes \in Seq(Outcomes) /\ Len(scan'.outcomes) = Len(scan'.ranked)
      /\ ToldSent(scan'.ranked, scan'.outcomes) = ToldSent(scan.ranked, scan.outcomes)
  <2>1. /\ FitSend(scan') /\ scan'.outcomes \in Seq(Outcomes) /\ Len(scan'.outcomes) = Len(scan'.ranked)
        /\ ToldSent(scan'.ranked, scan'.outcomes) =
             ToldSent(scan.ranked, scan.outcomes) \cup (IF "held" = "sent" THEN {scan.ranked[scan.rank]} ELSE {})
    BY <1>1, SettledFits, Zenon
  <2> QED
    BY <1>1, <2>1, Zenon
<1>3. SameScan(scan', scan) /\ scan'.phase = "send"
  BY Zenon DEF Settled
<1>4. Told(scan, cards)
  BY SendFacts, Zenon
<1>5. scan'.run = scan.run /\ scan'.ranked = scan.ranked
  BY <1>3, Zenon DEF SameScan
<1>6. Told(scan', cards)
  BY <1>2, <1>4, <1>5, Zenon DEF Told
<1>7. scan'.phase # "evaluate"
  BY Zenon, <1>3
<1> QED
  BY <1>2, <1>3, <1>6, <1>7, SendMoves, Zenon

\* The rank of a candidate is one of the ranking.
LEMMA CandidateFacts ==
    ASSUME ScanInv, Sending \/ scan.phase = "evaluate"
    PROVE  /\ scan.phase \in {"send", "evaluate"} /\ scan.rank <= Len(scan.ranked) /\ scan \in SendType
           /\ scan.rank \in 1..Len(scan.outcomes) /\ scan.rank \in 1..Len(scan.ranked)
           /\ scan.calls \in Int /\ scan.calls <= 1 /\ (scan.breaker = "closed" => scan.calls = 0)
           /\ candidate \in Setups
<1>1. scan.phase \in {"send", "evaluate"}
  BY Zenon DEF Sending
<1>2. FitSend(scan) /\ scan.rank \in Nat /\ scan.rank >= 1 /\ scan.ranked \in Seq(Setups) /\ scan \in SendType
      /\ Len(scan.outcomes) = Len(scan.ranked) /\ Len(scan.ranked) \in Nat
  BY <1>1, SendFacts, Zenon
<1>3. scan.rank <= Len(scan.ranked)
  BY <1>2, Zenon DEF FitSend, Sending
<1>4. scan.rank \in 1..Len(scan.outcomes) /\ scan.rank \in 1..Len(scan.ranked)
  BY <1>2, <1>3
<1>5. scan.calls <= 1 /\ (scan.breaker = "closed" => scan.calls = 0)
  BY <1>2, Zenon DEF FitSend
<1>6. scan.calls \in Int
  BY Zenon, <1>2 DEF SendType
<1>7. candidate \in Setups
  BY <1>2, <1>4 DEF candidate
<1> QED
  BY <1>1, <1>2, <1>3, <1>4, <1>5, <1>6, <1>7, Zenon

\* A runner-up, or a candidate the evaluator, the book or the gate turns down.
LEMMA NoCardInv == ScanInv /\ (RunnerUp \/ NotCarded) => ScanInv'
<1> SUFFICES ASSUME ScanInv, RunnerUp \/ NotCarded PROVE ScanInv'
  BY Zenon
<1>1. (Sending \/ scan.phase = "evaluate") /\ UNCHANGED <<now, cards, scans, ranking>> /\ scan' = Settle("held")
  BY Zenon DEF RunnerUp, NotCarded
<1>2. /\ scan.phase \in {"send", "evaluate"} /\ scan.rank <= Len(scan.ranked) /\ scan \in SendType
      /\ scan.rank \in 1..Len(scan.outcomes) /\ scan.calls <= 1 /\ (scan.breaker = "closed" => scan.calls = 0)
  BY <1>1, CandidateFacts, Zenon
<1>3. "held" \in Outcomes
  BY Zenon DEF Outcomes
<1>4. /\ Settled(scan', scan, "held") /\ SameBudget(scan', scan) /\ scan'.calls = scan.calls
      /\ scan'.breaker = scan.breaker
  BY <1>1, <1>2, <1>3, SettleFacts, Zenon
<1> QED
  BY <1>1, <1>2, <1>4, HeldInv, Zenon

\* The gate fails, or is not called any more: one failed call in the whole scan.
LEMMA LLMUnavailableInv == ScanInv /\ LLMUnavailable => ScanInv'
<1> SUFFICES ASSUME ScanInv, LLMUnavailable PROVE ScanInv'
  BY Zenon
<1> DEFINE held == Settle("held")
           calls == Calls(TRUE)
           one == [held EXCEPT !.breaker = "open"]
<1>1. scan.phase = "evaluate" /\ UNCHANGED <<now, cards, scans, ranking>>
      /\ scan' = [held EXCEPT !.breaker = BreakerAfter(TRUE), !.calls = calls]
  BY Zenon DEF LLMUnavailable
<1>2. /\ scan.phase \in {"send", "evaluate"} /\ scan.rank <= Len(scan.ranked) /\ scan \in SendType
      /\ scan.rank \in 1..Len(scan.outcomes) /\ scan.calls \in Int
      /\ scan.calls <= 1 /\ (scan.breaker = "closed" => scan.calls = 0)
  BY <1>1, CandidateFacts, Zenon
<1>3. "held" \in Outcomes
  BY Zenon DEF Outcomes
<1>4. Settled(held, scan, "held") /\ SameBudget(held, scan)
  BY <1>2, <1>3, SettleFacts, Zenon
<1>5. calls \in Int /\ calls <= 1
  BY <1>2 DEF Calls
<1>6. BreakerAfter(TRUE) = "open"
  BY Zenon DEF BreakerAfter
<1> HIDE DEF held, calls
<1>7. held \in SendType
  BY <1>4, Zenon DEF Settled
<1>8. one \in SendType /\ SameScan(one, held) /\ SameBudget(one, held) /\ one.phase = held.phase
      /\ one.rank = held.rank /\ one.outcomes = held.outcomes /\ one.breaker = "open"
  BY Zenon, <1>7 DEF SendType, SameScan, SameBudget
<1>9. scan' = [one EXCEPT !.calls = calls]
  BY Zenon, <1>1, <1>6
<1> HIDE DEF one
<1>10. scan' \in SendType /\ SameScan(scan', one) /\ SameBudget(scan', one) /\ scan'.phase = one.phase
       /\ scan'.rank = one.rank /\ scan'.outcomes = one.outcomes /\ scan'.breaker = one.breaker /\ scan'.calls = calls
  BY Zenon, <1>5, <1>8, <1>9 DEF SendType, SameScan, SameBudget
<1>11. Settled(scan', scan, "held") /\ SameBudget(scan', scan)
  BY <1>4, <1>8, <1>10, Zenon DEF Settled, SameScan, SameBudget
<1>12. scan'.breaker # "closed" /\ scan'.calls <= 1
  BY Zenon, <1>5, <1>8, <1>10
<1> QED
  BY <1>1, <1>2, <1>11, <1>12, HeldInv, Zenon

\* What a candidate that is not refused has passed.
LEMMA NotRefused ==
    ASSUME ScanInv, Sending, ~ Refused(candidate)
    PROVE  Passed(scan, cards)
<1> DEFINE s == candidate
<1>1. scan \in SendType /\ scan.rank \in 1..Len(scan.ranked) /\ s \in Setups
  BY CandidateFacts, Zenon
<1>2. /\ scan.ranked \in Seq(Setups) /\ scan.source \in [Sources -> Int] /\ scan.groups \in [Groups -> Int]
      /\ scan.perScan \in Int /\ scan.perSession \in Int
  BY Zenon, <1>1 DEF SendType
<1>3. DOMAIN scan.ranked = 1..Len(scan.ranked)
  BY <1>2
<1> HIDE DEF s
<1>4. /\ ~ (s \in Watch /\ ContractOf[s] \in carded_contracts)
      /\ ~ (s \in Events /\ scan.source[SourceOf[s]] <= 0)
      /\ ~ (s \in Native /\ (scan.perScan <= 0 \/ scan.perSession <= 0))
      /\ \A g \in capped_groups(s) : ~ (scan.groups[g] >= MaxPerGroup)
      /\ ~ (s \in Carried /\ live_signal(s))
  BY Zenon DEF Refused, s
<1>5. s \in Watch => \A k \in 1..Len(scan.ranked) :
         scan.outcomes[k] = "sent" => ContractOf[scan.ranked[k]] # ContractOf[s]
  BY <1>3, <1>4, Zenon DEF carded_contracts
<1>6. s \in Events => scan.source[SourceOf[s]] > 0
  <2>1. s \in Events => scan.source[SourceOf[s]] \in Int
    <3>1. s \in Events => SourceOf[s] \in Sources
      BY Zenon DEF Sources
    <3> QED
      BY <1>2, <3>1, Zenon
  <2> QED
    BY <1>4, <2>1
<1>7. s \in Native => scan.perScan > 0 /\ scan.perSession > 0
  BY <1>2, <1>4
<1>8. ASSUME NEW g \in Capped(scan, s) PROVE scan.groups[g] < MaxPerGroup
  <2>1. g \in capped_groups(s)
    BY <1>8, Zenon DEF Capped, capped_groups, operator_dynamic
  <2>2. g \in Groups
    BY <1>1, <2>1, Zenon DEF capped_groups, card_groups, Groups
  <2>3. scan.groups[g] \in Int /\ MaxPerGroup \in Int
    BY <1>2, <2>2, ScanAssumption
  <2>4. ~ (scan.groups[g] >= MaxPerGroup)
    BY <1>4, <2>1, Zenon
  <2> QED
    BY <2>3, <2>4
<1>9. s \in Carried => \A i \in DOMAIN cards : cards[i].status \in {"pending", "submitting"} => cards[i].setup # s
  BY <1>4, Zenon DEF live_signal, Live
<1> QED
  BY <1>5, <1>6, <1>7, <1>8, <1>9, Zenon DEF Passed, s, candidate

\* The candidate goes to the evaluator with what it passed.
LEMMA EvaluateInv == ScanInv /\ Evaluate => ScanInv'
<1> SUFFICES ASSUME ScanInv, Evaluate PROVE ScanInv'
  BY Zenon
<1> DEFINE llm == IF candidate \in Native THEN scan.llm - 1 ELSE scan.llm
           one == [scan EXCEPT !.phase = "evaluate"]
<1>1. Sending /\ ~ Refused(candidate) /\ UNCHANGED <<now, cards, scans, ranking>>
      /\ scan' = [scan EXCEPT !.phase = "evaluate", !.llm = llm]
  BY Zenon DEF Evaluate
<1>2. scan.phase \in {"send", "evaluate"} /\ scan \in SendType /\ scan.rank <= Len(scan.ranked)
  BY <1>1, CandidateFacts, Zenon
<1>3. llm \in Int
  <2>1. scan.llm \in Int
    BY Zenon, <1>2 DEF SendType
  <2> QED
    BY <2>1
<1>4. Passed(scan, cards)
  BY <1>1, NotRefused, Zenon
<1>5. FitSend(scan) /\ Told(scan, cards)
  BY <1>2, SendFacts, Zenon
<1> HIDE DEF llm
<1>6. one \in SendType /\ SameScan(one, scan) /\ SameBudget(one, scan) /\ one.phase = "evaluate"
      /\ one.rank = scan.rank /\ one.outcomes = scan.outcomes /\ one.breaker = scan.breaker /\ one.calls = scan.calls
  BY Zenon, <1>2 DEF SendType, SameScan, SameBudget
<1>7. scan' = [one EXCEPT !.llm = llm]
  BY Zenon, <1>1
<1> HIDE DEF one
<1>8. scan' \in SendType /\ SameScan(scan', one) /\ SameBudget(scan', one) /\ scan'.phase = one.phase
      /\ scan'.rank = one.rank /\ scan'.outcomes = one.outcomes /\ scan'.breaker = one.breaker /\ scan'.calls = one.calls
  BY Zenon, <1>3, <1>6, <1>7 DEF SendType, SameScan, SameBudget
<1>9. SameScan(scan', scan) /\ SameBudget(scan', scan) /\ scan'.rank = scan.rank /\ scan'.outcomes = scan.outcomes
      /\ scan'.breaker = scan.breaker /\ scan'.calls = scan.calls
  BY <1>6, <1>8, Zenon DEF SameScan, SameBudget
<1>10. scan'.kind = scan.kind /\ scan'.target = scan.target /\ scan'.run = scan.run /\ scan'.ranked = scan.ranked
       /\ scan'.perScan = scan.perScan /\ scan'.perSession = scan.perSession /\ scan'.source = scan.source
       /\ scan'.groups = scan.groups
  BY <1>9, Zenon DEF SameScan, SameBudget
<1>11. FitSend(scan')
  BY <1>2, <1>5, <1>8, <1>9, <1>10, Zenon DEF FitSend
<1>12. Told(scan', cards)
  BY <1>5, <1>9, <1>10, Zenon DEF Told
<1>13. Passed(scan', cards)
  <2>1. \A s : Capped(scan', s) = Capped(scan, s)
    BY <1>10, Zenon DEF Capped
  <2> QED
    BY <1>4, <1>9, <1>10, <2>1, Zenon DEF Passed
<1> QED
  BY <1>1, <1>2, <1>9, <1>11, <1>12, <1>13, SendMoves, Zenon

\* A set of cards with at most the new one more.
OneMore(T, S, n) == T \subseteq S \cup {n} /\ (n \notin T => T \subseteq S)

\* Counting it against a limit.
LEMMA OneMoreCounts ==
    ASSUME NEW S, IsFiniteSet(S), NEW T, NEW n, OneMore(T, S, n), NEW limit \in Int,
           Cardinality(S) <= limit, n \in T => Cardinality(S) + 1 <= limit
    PROVE  Cardinality(T) <= limit
<1>1. Cardinality(T) \in Nat /\ Cardinality(S) \in Nat /\ Cardinality(T) <= Cardinality(S) + 1
  BY GrowsByOne, Zenon DEF OneMore
<1>2. n \notin T => Cardinality(T) <= Cardinality(S)
  BY CountsLess, Zenon DEF OneMore
<1> QED
  BY <1>1, <1>2

\* Charging it to an allowance.
Charges(left, after, T, n) == after = IF n \in T THEN left - 1 ELSE left
StaysWithin(S, left, T, after, limit) ==
    /\ Cardinality(S) + left <= limit => Cardinality(T) + after <= limit
    /\ (left > 0 => Cardinality(S) + left <= limit) => (after > 0 => Cardinality(T) + after <= limit)

\* What a set of cards and the rest of its allowance leave of a limit.
LEMMA OneMoreCharged ==
    ASSUME NEW S, IsFiniteSet(S), NEW T, NEW n, OneMore(T, S, n), NEW limit \in Int,
           NEW left \in Int, NEW after \in Int, Charges(left, after, T, n)
    PROVE  StaysWithin(S, left, T, after, limit)
<1>1. Cardinality(T) \in Nat /\ Cardinality(S) \in Nat /\ Cardinality(T) <= Cardinality(S) + 1
  BY GrowsByOne, Zenon DEF OneMore
<1>2. n \notin T => Cardinality(T) <= Cardinality(S)
  BY CountsLess, Zenon DEF OneMore
<1>3. CASE n \in T
  BY <1>1, <1>3 DEF Charges, StaysWithin
<1>4. CASE n \notin T
  BY <1>1, <1>2, <1>4 DEF Charges, StaysWithin
<1> QED
  BY <1>3, <1>4, Zenon

\* A card is added to the table, and takes a slot.
NewCard(old, c, new, n) ==
    /\ DOMAIN new = DOMAIN old \cup {n} /\ n \notin DOMAIN old
    /\ new[n] = c /\ c.reprices = 0 /\ \A k \in DOMAIN old : new[k] = old[k]

CountMore(old, new, n) ==
    /\ \A d : OneMore(NativeOn(new, d), NativeOn(old, d), n) /\ OneMore(NativeSince(new, d), NativeSince(old, d), n)
    /\ \A d, c : OneMore(SourceOn(new, d, c), SourceOn(old, d, c), n)
                 /\ OneMore(SourceSince(new, d, c), SourceSince(old, d, c), n)
    /\ \A d, g : OneMore(GroupOn(new, d, g), GroupOn(old, d, g), n)
                 /\ OneMore(GroupSince(new, d, g), GroupSince(old, d, g), n)
    /\ \A run : OneMore(NativeIn(new, run), NativeIn(old, run), n)

\* Every count grows by at most that card.
LEMMA NewCardCounts ==
    ASSUME NEW old, NEW new, NEW c, NEW n, NewCard(old, c, new, n)
    PROVE  Spending(new) = Spending(old) \cup {n} /\ CountMore(old, new, n)
<1>1. Spending(new) = Spending(old) \cup {n} /\ n \notin Spending(old)
      /\ \A k \in Spending(old) : new[k] = old[k]
  BY Zenon DEF NewCard, Spending
<1>2. \A d : OneMore(NativeOn(new, d), NativeOn(old, d), n) /\ OneMore(NativeSince(new, d), NativeSince(old, d), n)
  BY <1>1, Zenon DEF NativeOn, NativeSince, OneMore
<1>3. \A d, e : OneMore(SourceOn(new, d, e), SourceOn(old, d, e), n)
                /\ OneMore(SourceSince(new, d, e), SourceSince(old, d, e), n)
  BY <1>1, Zenon DEF SourceOn, SourceSince, OneMore
<1>4. \A d, g : OneMore(GroupOn(new, d, g), GroupOn(old, d, g), n)
                /\ OneMore(GroupSince(new, d, g), GroupSince(old, d, g), n)
  BY <1>1, Zenon DEF GroupOn, GroupSince, OneMore
<1>5. \A run : OneMore(NativeIn(new, run), NativeIn(old, run), n)
  BY <1>1, Zenon DEF NativeIn, OneMore
<1> QED
  BY <1>1, <1>2, <1>3, <1>4, <1>5, Zenon DEF CountMore

\* The card that run_scan records for its candidate.
ScanCard(c, sc, t) ==
    /\ c \in CardType
    /\ c.setup = sc.ranked[sc.rank] /\ c.at = t /\ c.run = sc.run /\ c.budget = Budget(sc.kind)
    /\ c.capped = Capped(sc, c.setup) /\ c.reprices = 0

\* The charges of a recorded card.
ChargedFor(nx, sc, s) ==
    /\ nx.perScan = (IF s \in Native THEN sc.perScan - 1 ELSE sc.perScan)
    /\ nx.perSession = (IF s \in Native THEN sc.perSession - 1 ELSE sc.perSession)
    /\ \A c \in Sources : nx.source[c] = IF s \in Of(c) THEN sc.source[c] - 1 ELSE sc.source[c]
    /\ \A g \in Groups : nx.groups[g] = IF g \in card_groups(s) THEN sc.groups[g] + 1 ELSE sc.groups[g]

\* A failed commentary call is the only one of its scan.
LEMMA CallsFacts ==
    ASSUME NEW error \in BOOLEAN, scan.calls \in Int, scan.calls <= 1, scan.breaker \in {"closed", "open"},
           scan.breaker = "closed" => scan.calls = 0
    PROVE  /\ Calls(error) \in Int /\ Calls(error) <= 1 /\ BreakerAfter(error) \in {"closed", "open"}
           /\ BreakerAfter(error) = "closed" => Calls(error) = 0
<1>1. CASE error
  <2>1. BreakerAfter(error) = "open" /\ Calls(error) = IF scan.breaker = "closed" THEN scan.calls + 1 ELSE scan.calls
    BY <1>1, Zenon DEF BreakerAfter, Calls
  <2> QED
    BY <2>1
<1>2. CASE ~ error
  <2>1. BreakerAfter(error) = scan.breaker /\ Calls(error) = scan.calls
    BY <1>2, Zenon DEF BreakerAfter, Calls
  <2> QED
    BY Zenon, <2>1
<1> QED
  BY <1>1, <1>2, Zenon

\* A card respects groups of its setup, and its setup's groups are known.
LEMMA CappedFacts ==
    ASSUME NEW sc, NEW s \in Setups
    PROVE  /\ Capped(sc, s) \subseteq card_groups(s) /\ card_groups(s) \subseteq Groups
           /\ \A g \in Capped(sc, s) : Counted(sc, g)
<1>1. card_groups(s) \subseteq Groups
  BY Zenon DEF card_groups, Groups
<1>2. Capped(sc, s) \subseteq card_groups(s)
  BY Zenon DEF Capped, card_groups
<1>3. \A g \in Capped(sc, s) : Counted(sc, g)
  BY Zenon DEF Capped, Counted
<1> QED
  BY <1>1, <1>2, <1>3, Zenon

\* What Record does to the scan: the candidate is sent, and charged.
LEMMA RecordScan ==
    ASSUME ScanInv, Record
    PROVE  /\ Settled(scan', scan, "sent") /\ ChargedFor(scan', scan, candidate)
           /\ scan'.calls <= 1 /\ (scan'.breaker = "closed" => scan'.calls = 0)
<1>1. PICK raised \in BOOLEAN, error \in BOOLEAN :
        scan' = [Settle(OutcomeOf(raised)) EXCEPT
                    !.perScan = IF candidate \in Native THEN scan.perScan - 1 ELSE scan.perScan,
                    !.perSession = IF candidate \in Native THEN scan.perSession - 1 ELSE scan.perSession,
                    !.source = [c \in Sources |->
                        IF candidate \in Of(c) THEN scan.source[c] - 1 ELSE scan.source[c]],
                    !.groups = [g \in Groups |->
                        IF g \in card_groups(candidate) THEN scan.groups[g] + 1 ELSE scan.groups[g]],
                    !.breaker = BreakerAfter(error),
                    !.calls = Calls(error)]
  <2>1. FALSE \in BOOLEAN
    BY Zenon
  <2> QED
    BY <2>1, Zenon DEF Record
<1> DEFINE base == Settle("sent")
           perScan == IF candidate \in Native THEN scan.perScan - 1 ELSE scan.perScan
           perSession == IF candidate \in Native THEN scan.perSession - 1 ELSE scan.perSession
           source == [c \in Sources |-> IF candidate \in Of(c) THEN scan.source[c] - 1 ELSE scan.source[c]]
           groups == [g \in Groups |-> IF g \in card_groups(candidate) THEN scan.groups[g] + 1 ELSE scan.groups[g]]
           one == [base EXCEPT !.perScan = perScan]
           two == [one EXCEPT !.perSession = perSession]
           three == [two EXCEPT !.source = source]
           four == [three EXCEPT !.groups = groups]
           five == [four EXCEPT !.breaker = BreakerAfter(error)]
<1>2. scan.phase = "evaluate"
  BY Zenon DEF Record
<1>3. /\ scan \in SendType /\ scan.rank \in 1..Len(scan.outcomes) /\ scan.calls \in Int
      /\ scan.calls <= 1 /\ (scan.breaker = "closed" => scan.calls = 0)
  BY <1>2, CandidateFacts, Zenon
<1>4. /\ scan.perScan \in Int /\ scan.perSession \in Int /\ scan.source \in [Sources -> Int]
      /\ scan.groups \in [Groups -> Int] /\ scan.breaker \in {"closed", "open"}
  BY Zenon, <1>3 DEF SendType
<1>5. perScan \in Int /\ perSession \in Int
  BY <1>4
<1>6. source \in [Sources -> Int]
  <2>1. \A c \in Sources : (IF candidate \in Of(c) THEN scan.source[c] - 1 ELSE scan.source[c]) \in Int
    BY <1>4
  <2> QED
    BY Zenon, <2>1
<1>7. groups \in [Groups -> Int]
  <2>1. \A g \in Groups : (IF g \in card_groups(candidate) THEN scan.groups[g] + 1 ELSE scan.groups[g]) \in Int
    BY <1>4
  <2> QED
    BY Zenon, <2>1
<1>8. /\ Calls(error) \in Int /\ Calls(error) <= 1 /\ BreakerAfter(error) \in {"closed", "open"}
      /\ BreakerAfter(error) = "closed" => Calls(error) = 0
  BY <1>3, <1>4, CallsFacts, Zenon
<1>9. Settled(base, scan, "sent")
  <2>1. "sent" \in Outcomes
    BY Zenon DEF Outcomes
  <2> QED
    BY <1>3, <2>1, SettleFacts, Zenon
<1>10. scan' = [five EXCEPT !.calls = Calls(error)]
  BY Zenon, <1>1 DEF OutcomeOf
<1> HIDE DEF base, perScan, perSession, source, groups
<1> DEFINE Alike(r, q) ==
             SameScan(r, q) /\ r.phase = q.phase /\ r.rank = q.rank /\ r.outcomes = q.outcomes
<1>11. base \in SendType
  BY <1>9, Zenon DEF Settled
<1>12. one \in SendType /\ Alike(one, base) /\ one.perScan = perScan
  BY Zenon, <1>5, <1>11 DEF SendType, SameScan
<1> HIDE DEF one
<1>13. two \in SendType /\ Alike(two, one) /\ two.perScan = one.perScan /\ two.perSession = perSession
  BY Zenon, <1>5, <1>12 DEF SendType, SameScan
<1> HIDE DEF two
<1>14. three \in SendType /\ Alike(three, two) /\ three.perScan = two.perScan /\ three.perSession = two.perSession
       /\ three.source = source
  BY Zenon, <1>6, <1>13 DEF SendType, SameScan
<1> HIDE DEF three
<1>15. four \in SendType /\ Alike(four, three) /\ four.perScan = three.perScan /\ four.perSession = three.perSession
       /\ four.source = three.source /\ four.groups = groups
  BY Zenon, <1>7, <1>14 DEF SendType, SameScan
<1> HIDE DEF four
<1>16. five \in SendType /\ Alike(five, four) /\ SameBudget(five, four) /\ five.breaker = BreakerAfter(error)
  BY Zenon, <1>8, <1>15 DEF SendType, SameScan, SameBudget
<1> HIDE DEF five
<1>17. scan' \in SendType /\ Alike(scan', five) /\ SameBudget(scan', five) /\ scan'.breaker = five.breaker
       /\ scan'.calls = Calls(error)
  BY Zenon, <1>8, <1>10, <1>16 DEF SendType, SameScan, SameBudget
<1>18. Alike(scan', base)
  <2>1. Alike(three, base)
    BY <1>12, <1>13, <1>14, Zenon DEF SameScan
  <2>2. Alike(scan', three)
    BY <1>15, <1>16, <1>17, Zenon DEF SameScan
  <2> QED
    BY <2>1, <2>2, Zenon DEF SameScan
<1>19. Settled(scan', scan, "sent")
  BY <1>9, <1>17, <1>18, Zenon DEF Settled, SameScan
<1>20. scan'.perScan = perScan /\ scan'.perSession = perSession /\ scan'.source = source /\ scan'.groups = groups
  <2>1. SameBudget(scan', four)
    BY <1>16, <1>17, Zenon DEF SameBudget
  <2> QED
    BY <1>12, <1>13, <1>14, <1>15, <2>1, Zenon DEF SameBudget
<1>21. ChargedFor(scan', scan, candidate)
  BY <1>20, Zenon DEF ChargedFor, perScan, perSession, source, groups
<1>22. scan'.calls <= 1 /\ (scan'.breaker = "closed" => scan'.calls = 0)
  BY <1>8, <1>16, <1>17, Zenon
<1> QED
  BY <1>19, <1>21, <1>22, Zenon

\* What Record does to the table.
LEMMA RecordCard ==
    ASSUME ScanInv, Record
    PROVE  /\ cards \in Seq(CardType) /\ cards' \in Seq(CardType) /\ Len(cards) \in Nat
           /\ DOMAIN cards = 1..Len(cards)
           /\ \E c : /\ ScanCard(c, scan, now) /\ c.status = "pending"
                     /\ NewCard(cards, c, cards', Len(cards) + 1)
<1> DEFINE c == [setup |-> candidate, at |-> now, status |-> "pending", run |-> scan.run,
                 budget |-> Budget(scan.kind), capped |-> capped_groups(candidate), reprices |-> 0]
<1>1. scan.phase = "evaluate" /\ cards' = Append(cards, c)
  BY Zenon DEF Record
<1>2. scan # NoScan
  BY Zenon, <1>1, PhaseIsScan
<1>3. scan.kind \in Kinds /\ scan.run = scans /\ scans \in Nat /\ now \in Nat /\ cards \in Seq(CardType)
  BY <1>2, ScanFacts, Zenon
<1>4. candidate \in Setups
  BY <1>1, CandidateFacts, Zenon
<1>5. capped_groups(candidate) = Capped(scan, candidate)
  BY Zenon DEF capped_groups, Capped, operator_dynamic
<1>6. Capped(scan, candidate) \subseteq Groups
  BY <1>4, CappedFacts, Zenon
<1>7. Budget(scan.kind) \in Budgets
  BY Zenon DEF Budget, Budgets
<1>8. c \in CardType
  <2>1. "pending" \in Statuses /\ 0 \in Nat
    BY Zenon DEF Statuses
  <2> QED
    BY <1>3, <1>4, <1>5, <1>6, <1>7, <2>1, Zenon DEF CardType
<1>9. c.setup = candidate /\ c.at = now /\ c.status = "pending" /\ c.run = scan.run /\ c.budget = Budget(scan.kind)
      /\ c.capped = capped_groups(candidate) /\ c.reprices = 0
  BY Zenon
<1> HIDE DEF c
<1>10. ScanCard(c, scan, now)
  BY <1>5, <1>8, <1>9, Zenon DEF ScanCard, candidate
<1>11. Appended(cards, c, cards', CardType)
  BY <1>1, <1>3, <1>8, AppendedFacts, Zenon
<1>12. cards' \in Seq(CardType) /\ Len(cards') = Len(cards) + 1 /\ cards'[Len(cards) + 1] = c
       /\ \A k \in 1..Len(cards) : cards'[k] = cards[k]
  BY <1>11, Zenon DEF Appended
<1>13. DOMAIN cards = 1..Len(cards) /\ DOMAIN cards' = 1..Len(cards') /\ Len(cards) \in Nat
  BY <1>3, <1>12
<1>14. 1..(Len(cards) + 1) = 1..Len(cards) \cup {Len(cards) + 1} /\ Len(cards) + 1 \notin 1..Len(cards)
  BY <1>13
<1>15. NewCard(cards, c, cards', Len(cards) + 1)
  BY <1>9, <1>12, <1>13, <1>14, Zenon DEF NewCard
<1> QED
  BY <1>3, <1>9, <1>10, <1>12, <1>13, <1>15, Zenon

\* The dates' rations hold with the recorded card: it passed what was left when it was evaluated.
LEMMA RecordDays ==
    ASSUME ScanInv, scan.phase = "evaluate", NEW c, ScanCard(c, scan, now), NEW n, NEW new,
           NewCard(cards, c, new, n)
    PROVE  DayRation(new)
<1> DEFINE s == candidate
<1>1. scan \in SendType /\ s \in Setups /\ Passed(scan, cards)
  BY CandidateFacts, Zenon DEF ScanInv
<1>2. c.setup = s /\ c.at = now /\ c.budget = Budget(scan.kind) /\ c.capped = Capped(scan, s) /\ new[n] = c
  BY Zenon DEF ScanCard, candidate, NewCard
<1>3. /\ s \in Events => scan.source[SourceOf[s]] > 0
      /\ s \in Native => scan.perSession > 0
      /\ \A g \in Capped(scan, s) : scan.groups[g] < MaxPerGroup
  BY <1>1, Zenon DEF Passed, candidate
<1>4. scan.perSession \in Int /\ scan.source \in [Sources -> Int] /\ scan.groups \in [Groups -> Int]
  BY Zenon, <1>1 DEF SendType
<1>5. PICK D \in Int : D <= Date(now) /\ Rationed(scan, cards, D)
  BY Zenon DEF ScanInv, Budgeted
<1>6. cards \in Seq(CardType) /\ DayRation(cards) /\ FitCards(cards, scans)
  BY Zenon DEF ScanInv, ScanTypeOK
<1>7. \A T \in SUBSET Spending(cards) : IsFiniteSet(T) /\ Cardinality(T) \in Nat
  BY <1>6, SpendingFinite, Zenon
<1>8. CountMore(cards, new, n)
  BY NewCardCounts, Zenon
<1>9. MaxPerSession \in Int /\ MaxPerSource \in Int /\ MaxPerGroup \in Int
  BY ScanAssumption
<1>10. Capped(scan, s) \subseteq card_groups(s) /\ card_groups(s) \subseteq Groups /\ \A g \in Capped(scan, s) : Counted(scan, g)
  BY <1>1, CappedFacts, Zenon
<1> HIDE DEF s
<1> SUFFICES ASSUME NEW d \in Int
             PROVE  /\ Cardinality(NativeOn(new, d)) <= MaxPerSession
                    /\ \A e \in Sources : Cardinality(SourceOn(new, d, e)) <= MaxPerSource
                    /\ \A g \in Groups : Cardinality(GroupOn(new, d, g)) <= MaxPerGroup
  BY Zenon DEF DayRation
<1>11. d = Date(now) => \A i \in DOMAIN cards : Date(cards[i].at) = d => Date(cards[i].at) >= D
  BY Zenon, <1>5
<1>12. Cardinality(NativeOn(new, d)) <= MaxPerSession
  <2> DEFINE S == NativeOn(cards, d)
             U == NativeSince(cards, D)
  <2>1. IsFiniteSet(S) /\ IsFiniteSet(U) /\ Cardinality(U) \in Nat
    BY <1>7, Zenon DEF NativeOn, NativeSince
  <2>2. Cardinality(S) <= MaxPerSession
    BY <1>6, Zenon DEF DayRation
  <2>3. ASSUME n \in NativeOn(new, d) PROVE Cardinality(S) + 1 <= MaxPerSession
    <3>1. d = Date(now) /\ s \in Native /\ Budget(scan.kind) # "NONE"
      BY <1>2, <2>3, Zenon DEF NativeOn
    <3>2. S \subseteq U
      BY <1>11, <3>1, Zenon DEF NativeOn, NativeSince, Spending
    <3>3. Cardinality(S) \in Nat /\ Cardinality(S) <= Cardinality(U)
      BY <2>1, <3>2, CountsLess, Zenon
    <3>4. scan.perSession > 0 /\ Cardinality(U) + scan.perSession <= MaxPerSession
      BY <1>3, <1>5, <3>1, Zenon DEF Rationed
    <3> QED
      BY <1>4, <1>9, <2>1, <3>3, <3>4
  <2>4. OneMore(NativeOn(new, d), S, n)
    BY <1>8, Zenon DEF CountMore
  <2> QED
    BY <1>9, <2>1, <2>2, <2>3, <2>4, OneMoreCounts, Zenon
<1>13. ASSUME NEW e \in Sources PROVE Cardinality(SourceOn(new, d, e)) <= MaxPerSource
  <2> DEFINE S == SourceOn(cards, d, e)
             U == SourceSince(cards, D, e)
  <2>1. IsFiniteSet(S) /\ IsFiniteSet(U) /\ Cardinality(U) \in Nat
    BY <1>7, Zenon DEF SourceOn, SourceSince
  <2>2. Cardinality(S) <= MaxPerSource
    BY <1>6, Zenon DEF DayRation
  <2>3. ASSUME n \in SourceOn(new, d, e) PROVE Cardinality(S) + 1 <= MaxPerSource
    <3>1. d = Date(now) /\ s \in Events /\ SourceOf[s] = e
      BY <1>2, <2>3, Zenon DEF SourceOn, Of
    <3>2. S \subseteq U
      BY <1>11, <3>1, Zenon DEF SourceOn, SourceSince, Spending
    <3>3. Cardinality(S) \in Nat /\ Cardinality(S) <= Cardinality(U)
      BY <2>1, <3>2, CountsLess, Zenon
    <3>4. scan.source[e] > 0 /\ Cardinality(U) + scan.source[e] <= MaxPerSource
      BY <1>3, <1>5, <3>1, Zenon DEF Rationed
    <3>5. scan.source[e] \in Int
      BY Zenon, <1>4
    <3> QED
      BY <1>9, <2>1, <3>3, <3>4, <3>5
  <2>4. OneMore(SourceOn(new, d, e), S, n)
    BY <1>8, Zenon DEF CountMore
  <2> QED
    BY <1>9, <2>1, <2>2, <2>3, <2>4, OneMoreCounts, Zenon
<1>14. ASSUME NEW g \in Groups PROVE Cardinality(GroupOn(new, d, g)) <= MaxPerGroup
  <2> DEFINE S == GroupOn(cards, d, g)
             U == GroupSince(cards, D, g)
  <2>1. IsFiniteSet(S) /\ IsFiniteSet(U) /\ Cardinality(U) \in Nat
    BY <1>7, Zenon DEF GroupOn, GroupSince
  <2>2. Cardinality(S) <= MaxPerGroup
    BY <1>6, Zenon DEF DayRation
  <2>3. ASSUME n \in GroupOn(new, d, g) PROVE Cardinality(S) + 1 <= MaxPerGroup
    <3>1. d = Date(now) /\ g \in Capped(scan, s)
      BY <1>2, <2>3, Zenon DEF GroupOn
    <3>2. S \subseteq U
      BY <1>6, <1>11, <3>1, Zenon DEF GroupOn, GroupSince, Spending, FitCards
    <3>3. Cardinality(S) \in Nat /\ Cardinality(S) <= Cardinality(U)
      BY <2>1, <3>2, CountsLess, Zenon
    <3>4. scan.groups[g] < MaxPerGroup /\ Cardinality(U) <= scan.groups[g]
      BY <1>3, <1>5, <1>10, <3>1, Zenon DEF Rationed
    <3>5. scan.groups[g] \in Int
      BY Zenon, <1>4
    <3> QED
      BY <1>9, <2>1, <3>3, <3>4, <3>5
  <2>4. OneMore(GroupOn(new, d, g), S, n)
    BY <1>8, Zenon DEF CountMore
  <2> QED
    BY <1>9, <2>1, <2>2, <2>3, <2>4, OneMoreCounts, Zenon
<1> QED
  BY <1>12, <1>13, <1>14, Zenon

\* The charges keep the budget within what the cards leave.
LEMMA RecordBudget ==
    ASSUME ScanInv, scan.phase = "evaluate", NEW c, ScanCard(c, scan, now), NEW n, NEW new,
           NewCard(cards, c, new, n), NEW nx, Settled(nx, scan, "sent"), ChargedFor(nx, scan, candidate),
           NEW D \in Int, D <= Date(now), Rationed(scan, cards, D)
    PROVE  Rationed(nx, new, D)
<1> DEFINE s == candidate
<1>1. scan \in SendType /\ s \in Setups /\ nx \in SendType /\ SameScan(nx, scan)
  BY CandidateFacts, Zenon DEF Settled
<1>2. c.setup = s /\ c.at = now /\ c.run = scan.run /\ new[n] = c /\ c.reprices = 0
  BY Zenon DEF ScanCard, candidate, NewCard
<1>3. /\ scan.perScan \in Int /\ scan.perSession \in Int /\ scan.source \in [Sources -> Int]
      /\ scan.groups \in [Groups -> Int]
  BY Zenon, <1>1 DEF SendType
<1>4. nx.perScan \in Int /\ nx.perSession \in Int /\ nx.source \in [Sources -> Int] /\ nx.groups \in [Groups -> Int]
  BY Zenon, <1>1 DEF SendType
<1>5. cards \in Seq(CardType)
  BY Zenon DEF ScanInv, ScanTypeOK
<1>6. \A T \in SUBSET Spending(cards) : IsFiniteSet(T) /\ Cardinality(T) \in Nat
  BY <1>5, SpendingFinite, Zenon
<1>7. CountMore(cards, new, n) /\ n \in Spending(new)
  <2>1. Spending(new) = Spending(cards) \cup {n} /\ CountMore(cards, new, n)
    BY NewCardCounts, Zenon
  <2> QED
    BY <2>1, Zenon
<1>8. MaxPerScan \in Int /\ MaxPerSession \in Int /\ MaxPerSource \in Int
  BY ScanAssumption
<1>9. Date(now) >= D
  <2>1. now \in Nat
    BY Zenon DEF ScanInv, ScanTypeOK
  <2>2. Date(now) \in Nat
    BY Zenon, <2>1, DateFacts
  <2> QED
    BY Zenon, <2>2
<1>10. /\ nx.perScan = (IF s \in Native THEN scan.perScan - 1 ELSE scan.perScan)
       /\ nx.perSession = (IF s \in Native THEN scan.perSession - 1 ELSE scan.perSession)
       /\ \A e \in Sources : nx.source[e] = IF s \in Of(e) THEN scan.source[e] - 1 ELSE scan.source[e]
       /\ \A g \in Groups : nx.groups[g] = IF g \in card_groups(s) THEN scan.groups[g] + 1 ELSE scan.groups[g]
  BY Zenon DEF ChargedFor
<1>11. nx.kind = scan.kind /\ nx.target = scan.target /\ nx.run = scan.run
  BY <1>1, Zenon DEF SameScan
<1> HIDE DEF s
<1>12. Budget(nx.kind) = "FULL" => Cardinality(NativeIn(new, nx.run)) + nx.perScan <= MaxPerScan
  <2> DEFINE S == NativeIn(cards, scan.run)
             T == NativeIn(new, scan.run)
  <2>1. IsFiniteSet(S) /\ OneMore(T, S, n)
    BY <1>6, <1>7, Zenon DEF NativeIn, CountMore
  <2>2. (n \in T) <=> (s \in Native)
    BY <1>2, <1>7, Zenon DEF NativeIn
  <2>3. Charges(scan.perScan, nx.perScan, T, n)
    BY <1>10, <2>2, Zenon DEF Charges
  <2>4. Budget(scan.kind) = "FULL" => Cardinality(S) + scan.perScan <= MaxPerScan
    BY Zenon DEF Rationed
  <2> HIDE DEF S, T
  <2>5. StaysWithin(S, scan.perScan, T, nx.perScan, MaxPerScan)
    BY <1>3, <1>4, <1>8, <2>1, <2>3, OneMoreCharged, Zenon
  <2> QED
    BY <1>11, <2>4, <2>5, Zenon DEF T, StaysWithin
<1>13. Budget(nx.kind) # "NONE" /\ nx.perSession > 0 =>
         Cardinality(NativeSince(new, D)) + nx.perSession <= MaxPerSession
  <2> DEFINE S == NativeSince(cards, D)
             T == NativeSince(new, D)
  <2>1. IsFiniteSet(S) /\ OneMore(T, S, n)
    BY <1>6, <1>7, Zenon DEF NativeSince, CountMore
  <2>2. (n \in T) <=> (s \in Native)
    BY <1>2, <1>7, <1>9, Zenon DEF NativeSince
  <2>3. Charges(scan.perSession, nx.perSession, T, n)
    BY <1>10, <2>2, Zenon DEF Charges
  <2>4. Budget(scan.kind) # "NONE" => (scan.perSession > 0 => Cardinality(S) + scan.perSession <= MaxPerSession)
    BY Zenon DEF Rationed
  <2> HIDE DEF S, T
  <2>5. StaysWithin(S, scan.perSession, T, nx.perSession, MaxPerSession)
    BY <1>3, <1>4, <1>8, <2>1, <2>3, OneMoreCharged, Zenon
  <2> QED
    BY <1>11, <2>4, <2>5, Zenon DEF T, StaysWithin
<1>14. ASSUME NEW e \in Sources
       PROVE  nx.source[e] > 0 => Cardinality(SourceSince(new, D, e)) + nx.source[e] <= MaxPerSource
  <2> DEFINE S == SourceSince(cards, D, e)
             T == SourceSince(new, D, e)
  <2>1. IsFiniteSet(S) /\ OneMore(T, S, n)
    BY <1>6, <1>7, Zenon DEF SourceSince, CountMore
  <2>2. (n \in T) <=> (s \in Of(e))
    BY <1>2, <1>7, <1>9, Zenon DEF SourceSince
  <2>3. Charges(scan.source[e], nx.source[e], T, n)
    BY <1>10, <2>2, Zenon DEF Charges
  <2>4. scan.source[e] > 0 => Cardinality(S) + scan.source[e] <= MaxPerSource
    BY Zenon DEF Rationed
  <2>5. scan.source[e] \in Int /\ nx.source[e] \in Int
    BY <1>3, <1>4, Zenon
  <2> HIDE DEF S, T
  <2>6. StaysWithin(S, scan.source[e], T, nx.source[e], MaxPerSource)
    BY <1>8, <2>1, <2>3, <2>5, OneMoreCharged, Zenon
  <2> QED
    BY <2>4, <2>6, Zenon DEF T, StaysWithin
<1>15. ASSUME NEW g \in Groups, Counted(nx, g)
       PROVE  Cardinality(GroupSince(new, D, g)) <= nx.groups[g]
  <2> DEFINE S == GroupSince(cards, D, g)
             T == GroupSince(new, D, g)
  <2>1. IsFiniteSet(S) /\ OneMore(T, S, n) /\ Cardinality(S) \in Nat
    BY <1>6, <1>7, Zenon DEF GroupSince, CountMore
  <2>2. (n \in T) <=> (g \in card_groups(s))
    BY <1>2, <1>7, <1>9, Zenon DEF GroupSince
  <2>3. nx.groups[g] = IF n \in T THEN scan.groups[g] + 1 ELSE scan.groups[g]
    BY <1>10, <2>2, Zenon
  <2>4. Counted(scan, g)
    BY <1>11, <1>15, Zenon DEF Counted
  <2>5. Cardinality(S) <= scan.groups[g]
    BY <2>4, Zenon DEF Rationed
  <2>6. scan.groups[g] \in Int /\ nx.groups[g] \in Int
    BY <1>3, <1>4, Zenon
  <2> HIDE DEF S, T
  <2>7. Cardinality(S) <= nx.groups[g] /\ (n \in T => Cardinality(S) + 1 <= nx.groups[g])
    BY <2>1, <2>3, <2>5, <2>6
  <2>8. Cardinality(T) <= nx.groups[g]
    BY <2>1, <2>6, <2>7, OneMoreCounts, Zenon
  <2> QED
    BY Zenon, <2>8 DEF T
<1> QED
  BY <1>12, <1>13, <1>14, <1>15, Zenon DEF Rationed

\* The ration of a suggestion scan holds with the recorded card.
LEMMA RecordRun ==
    ASSUME ScanInv, scan.phase = "evaluate", NEW c, ScanCard(c, scan, now), NEW n, NEW new,
           NewCard(cards, c, new, n), NEW nx, Settled(nx, scan, "sent"), ChargedFor(nx, scan, candidate),
           NEW D, Rationed(nx, new, D)
    PROVE  ScanRation(new)
<1> DEFINE s == candidate
<1>1. scan \in SendType /\ Passed(scan, cards) /\ scan # NoScan
  BY CandidateFacts, PhaseIsScan, Zenon DEF ScanInv, Passed
<1>2. c.setup = s /\ c.run = scan.run /\ c.budget = Budget(scan.kind)
  BY Zenon DEF ScanCard, candidate
<1>3. DOMAIN new = DOMAIN cards \cup {n} /\ new[n] = c /\ \A k \in DOMAIN cards : new[k] = cards[k]
  BY Zenon DEF NewCard
<1>4. cards \in Seq(CardType) /\ ScanRation(cards)
  BY Zenon DEF ScanInv, ScanTypeOK
<1>5. \A i \in DOMAIN cards : cards[i].run = scan.run => cards[i].budget = Budget(scan.kind)
  BY <1>1, ScanFacts, Zenon
<1>6. CountMore(cards, new, n)
  BY NewCardCounts, Zenon
<1>7. nx.kind = scan.kind /\ nx.run = scan.run
  BY Zenon DEF Settled, SameScan
<1>8. IsFiniteSet(Spending(cards)) /\ \A T \in SUBSET Spending(cards) : IsFiniteSet(T)
  BY <1>4, SpendingFinite, Zenon
<1>9. MaxPerScan \in Int
  BY ScanAssumption
<1> HIDE DEF s
<1> SUFFICES ASSUME NEW i \in DOMAIN new, new[i].budget = "FULL", new[i].setup \in Native
             PROVE  Cardinality(NativeIn(new, new[i].run)) <= MaxPerScan
  BY Zenon DEF ScanRation
<1> DEFINE r == new[i].run
           S == NativeIn(cards, r)
           T == NativeIn(new, r)
<1>10. IsFiniteSet(S) /\ OneMore(T, S, n)
  BY <1>6, <1>8, Zenon DEF NativeIn, CountMore
<1>11. CASE r = scan.run /\ s \in Native
  <2>1. Budget(scan.kind) = "FULL"
    BY <1>2, <1>3, <1>5, <1>11, Zenon
  <2>2. Cardinality(T) + nx.perScan <= MaxPerScan
    BY <1>7, <1>11, <2>1, Zenon DEF Rationed
  <2>3. scan.perScan > 0 /\ nx.perScan = scan.perScan - 1
    BY <1>1, <1>11, Zenon DEF Passed, ChargedFor, candidate, s
  <2>4. scan.perScan \in Int
    BY Zenon, <1>1 DEF SendType
  <2>5. Cardinality(T) \in Nat
    BY <1>10, GrowsByOne, Zenon DEF OneMore
  <2> HIDE DEF T
  <2>6. Cardinality(T) <= MaxPerScan
    BY <1>9, <2>2, <2>3, <2>4, <2>5
  <2> QED
    BY Zenon, <2>6 DEF T
<1>12. CASE ~ (r = scan.run /\ s \in Native)
  <2>1. n \notin T
    BY <1>2, <1>3, <1>12, Zenon DEF NativeIn
  <2>2. i \in DOMAIN cards
    BY <1>2, <1>3, <1>12, Zenon
  <2>3. Cardinality(S) <= MaxPerScan
    BY <1>3, <1>4, <2>2, Zenon DEF ScanRation
  <2> HIDE DEF S, T
  <2>4. Cardinality(T) <= MaxPerScan
    BY <1>9, <1>10, <2>1, <2>3, OneMoreCounts, Zenon
  <2> QED
    BY Zenon, <2>4 DEF T
<1> QED
  BY <1>11, <1>12, Zenon

\* No watch event's card repeats a contract of its scan, and a carried setup has one live card.
LEMMA RecordOnce ==
    ASSUME ScanInv, scan.phase = "evaluate", NEW c, ScanCard(c, scan, now), NEW n \in Nat, NEW new,
           NewCard(cards, c, new, n), n > Len(cards)
    PROVE  /\ WatchRation(new)
           /\ \A i, j \in DOMAIN new :
                /\ new[i].setup = new[j].setup /\ new[i].setup \in Carried
                /\ new[i].status \in {"pending", "submitting"} /\ new[j].status \in {"pending", "submitting"}
                => i = j
           /\ SentIn(new, scan.run) = SentIn(cards, scan.run) \cup {candidate}
<1> DEFINE s == candidate
<1>1. Passed(scan, cards) /\ Told(scan, cards) /\ WatchRation(cards) /\ OneLiveCard
  BY SendFacts, Zenon DEF ScanInv
<1>2. c.setup = s /\ c.run = scan.run
  BY Zenon DEF ScanCard, candidate
<1>3. DOMAIN new = DOMAIN cards \cup {n} /\ new[n] = c /\ \A k \in DOMAIN cards : new[k] = cards[k]
  BY Zenon DEF NewCard
<1>4. Spending(new) = Spending(cards) \cup {n} /\ Spending(cards) \subseteq DOMAIN cards
  <2>1. Spending(new) = Spending(cards) \cup {n} /\ CountMore(cards, new, n)
    BY NewCardCounts, Zenon
  <2> QED
    BY <2>1, Zenon DEF Spending
<1>5. \A i \in DOMAIN cards : ~ (n < i)
  <2>1. cards \in Seq(CardType)
    BY Zenon DEF ScanInv, ScanTypeOK
  <2> QED
    BY <2>1
<1>6. ~ (n < n)
  <2>1. cards \in Seq(CardType)
    BY Zenon DEF ScanInv, ScanTypeOK
  <2> QED
    BY <2>1
<1>7. /\ s \in Watch => \A k \in 1..Len(scan.ranked) :
           scan.outcomes[k] = "sent" => ContractOf[scan.ranked[k]] # ContractOf[s]
      /\ s \in Carried => \A i \in DOMAIN cards : cards[i].status \in {"pending", "submitting"} => cards[i].setup # s
  BY <1>1, Zenon DEF Passed, candidate
<1> HIDE DEF s
<1>8. WatchRation(new)
  <2> SUFFICES ASSUME NEW i \in Spending(new), NEW j \in Spending(new), i < j, new[i].run = new[j].run,
                      new[j].setup \in Watch
               PROVE  ContractOf[new[i].setup] # ContractOf[new[j].setup]
    BY Zenon DEF WatchRation
  <2>1. i \in Spending(cards)
    BY <1>4, <1>5, <1>6, Zenon
  <2>2. CASE j = n
    <3>1. new[i] = cards[i] /\ cards[i].run = scan.run /\ s \in Watch
      BY <1>2, <1>3, <1>4, <2>1, <2>2, Zenon
    <3>2. cards[i].setup \in ToldSent(scan.ranked, scan.outcomes)
      BY <1>1, <2>1, <3>1, Zenon DEF Told, SentIn
    <3>3. PICK k \in 1..Len(scan.ranked) : scan.outcomes[k] = "sent" /\ scan.ranked[k] = cards[i].setup
      BY <3>2, Zenon DEF ToldSent
    <3> QED
      BY <1>2, <1>3, <1>7, <2>2, <3>1, <3>3, Zenon
  <2>3. CASE j # n
    <3>1. j \in Spending(cards) /\ new[i] = cards[i] /\ new[j] = cards[j]
      BY <1>3, <1>4, <2>1, <2>3, Zenon
    <3> QED
      BY <1>1, <2>1, <3>1, Zenon DEF WatchRation
  <2> QED
    BY <2>2, <2>3, Zenon
<1>9. ASSUME NEW i \in DOMAIN new, NEW j \in DOMAIN new, new[i].setup = new[j].setup, new[i].setup \in Carried,
             new[i].status \in {"pending", "submitting"}, new[j].status \in {"pending", "submitting"}
      PROVE  i = j
  <2>1. CASE i = n \/ j = n
    BY <1>2, <1>3, <1>7, <1>9, <2>1, Zenon
  <2>2. CASE i # n /\ j # n
    BY <1>1, <1>3, <1>9, <2>2, Zenon DEF OneLiveCard
  <2> QED
    BY <2>1, <2>2, Zenon
<1>10. SentIn(new, scan.run) = SentIn(cards, scan.run) \cup {s}
  <2>1. \A i \in Spending(cards) : new[i] = cards[i]
    BY <1>3, <1>4, Zenon
  <2>2. s \in SentIn(new, scan.run)
    BY <1>2, <1>3, <1>4, Zenon DEF SentIn
  <2>3. \A x \in SentIn(cards, scan.run) : x \in SentIn(new, scan.run)
    BY <1>4, <2>1, Zenon DEF SentIn
  <2>4. \A x \in SentIn(new, scan.run) : x = s \/ x \in SentIn(cards, scan.run)
    BY <1>2, <1>3, <1>4, <2>1, Zenon DEF SentIn
  <2> QED
    BY <2>2, <2>3, <2>4, Zenon
<1> QED
  BY <1>8, <1>9, <1>10, Zenon DEF s

\* A card is recorded, and everything it could exceed is charged for it.
LEMMA RecordInv == ScanInv /\ Record => ScanInv'
<1> SUFFICES ASSUME ScanInv, Record PROVE ScanInv'
  BY Zenon
<1>1. scan.phase = "evaluate" /\ UNCHANGED <<now, scans, ranking>>
  BY Zenon DEF Record
<1>2. scan.phase \in {"send", "evaluate"} /\ scan # NoScan
  BY Zenon, <1>1, PhaseIsScan
<1>3. /\ Settled(scan', scan, "sent") /\ ChargedFor(scan', scan, candidate)
      /\ scan'.calls <= 1 /\ (scan'.breaker = "closed" => scan'.calls = 0)
  BY RecordScan, Zenon
<1>4. cards \in Seq(CardType) /\ cards' \in Seq(CardType) /\ Len(cards) \in Nat /\ DOMAIN cards = 1..Len(cards)
  BY RecordCard, Zenon
<1>5. PICK c : ScanCard(c, scan, now) /\ c.status = "pending" /\ NewCard(cards, c, cards', Len(cards) + 1)
  BY RecordCard, Zenon
<1>6. PICK n \in Nat : n = Len(cards) + 1
  BY <1>4
<1>7. NewCard(cards, c, cards', n) /\ n > Len(cards)
  BY <1>4, <1>5, <1>6
<1>8. DayRation(cards')
  BY <1>1, <1>5, <1>7, RecordDays, Zenon
<1>9. PICK D \in Int : D <= Date(now) /\ Rationed(scan, cards, D)
  BY <1>2, Zenon DEF ScanInv, Budgeted
<1>10. Rationed(scan', cards', D)
  BY <1>1, <1>3, <1>5, <1>7, <1>9, RecordBudget, Zenon
<1>11. ScanRation(cards')
  BY <1>1, <1>3, <1>5, <1>7, <1>10, RecordRun, Zenon
<1>12. /\ WatchRation(cards')
       /\ \A i, j \in DOMAIN cards' :
            /\ cards'[i].setup = cards'[j].setup /\ cards'[i].setup \in Carried
            /\ cards'[i].status \in {"pending", "submitting"} /\ cards'[j].status \in {"pending", "submitting"}
            => i = j
       /\ SentIn(cards', scan.run) = SentIn(cards, scan.run) \cup {candidate}
  BY <1>1, <1>5, <1>7, RecordOnce, Zenon
<1>13. OneLiveCard'
  BY <1>12, Zenon DEF OneLiveCard
<1>14. Budgeted(scan', cards', now')
  BY <1>1, <1>9, <1>10, Zenon DEF Budgeted
<1>15. /\ scan.kind \in Kinds /\ scan.target \in {NoSetup} \cup Native /\ scan.run = scans /\ scans > 0
       /\ scans \in Nat /\ now \in Nat /\ ranking = NoEvent
       /\ \A i \in DOMAIN cards : cards[i].run = scan.run => cards[i].budget = Budget(scan.kind)
  BY <1>2, ScanFacts, Zenon
<1>16. scan'.kind = scan.kind /\ scan'.target = scan.target /\ scan'.run = scan.run /\ scan'.ranked = scan.ranked
       /\ scan'.phase = "send"
  BY <1>3, Zenon DEF Settled, SameScan
<1>17. c.setup = candidate /\ c.run = scan.run /\ c.budget = Budget(scan.kind) /\ c.capped = Capped(scan, candidate)
  BY <1>5, Zenon DEF ScanCard, candidate
<1>18. DOMAIN cards' = DOMAIN cards \cup {n} /\ cards'[n] = c /\ \A k \in DOMAIN cards : cards'[k] = cards[k]
  BY <1>7, Zenon DEF NewCard
<1>19. FitCards(cards', scans')
  <2>1. FitCards(cards, scans)
    BY Zenon DEF ScanInv
  <2>2. candidate \in Setups
    BY <1>1, CandidateFacts, Zenon
  <2>3. Capped(scan, candidate) \subseteq card_groups(candidate)
    BY <2>2, CappedFacts, Zenon
  <2>4. scans <= scans
    BY <1>15
  <2> QED
    BY <1>1, <1>15, <1>17, <1>18, <2>1, <2>3, <2>4, Zenon DEF FitCards
<1>20. FitSend(scan') /\ Told(scan', cards')
  <2>1. "sent" \in {"held", "sent"}
    BY Zenon
  <2>2. scan.rank <= Len(scan.ranked)
    BY <1>1, CandidateFacts, Zenon
  <2>3. /\ FitSend(scan') /\ scan'.outcomes \in Seq(Outcomes) /\ Len(scan'.outcomes) = Len(scan'.ranked)
        /\ ToldSent(scan'.ranked, scan'.outcomes) =
             ToldSent(scan.ranked, scan.outcomes) \cup (IF "sent" = "sent" THEN {scan.ranked[scan.rank]} ELSE {})
    BY <1>2, <1>3, <2>1, <2>2, SettledFits, Zenon
  <2>4. ToldSent(scan'.ranked, scan'.outcomes) = ToldSent(scan.ranked, scan.outcomes) \cup {candidate}
    BY <2>3, Zenon DEF candidate
  <2>5. Told(scan, cards)
    BY <1>2, SendFacts, Zenon
  <2> QED
    BY <1>12, <1>16, <2>3, <2>4, <2>5, Zenon DEF Told
<1>21. scan'.phase \in {"collect", "journal", "budget", "send", "evaluate"}
       /\ scan'.phase \notin {"collect", "journal", "budget"} /\ scan'.phase # "evaluate"
  BY Zenon, <1>16
<1>22. FitScan(scan', cards', scans')
  <2>1. \A i \in DOMAIN cards' : cards'[i].run = scan'.run => cards'[i].budget = Budget(scan'.kind)
    BY <1>15, <1>16, <1>17, <1>18, Zenon
  <2> QED
    BY <1>1, <1>15, <1>16, <1>20, <1>21, <2>1, Zenon DEF FitScan
<1>23. FitRanking(ranking', cards', scan', scans')
  <2>1. ranking' = NoEvent
    BY Zenon, <1>1, <1>15
  <2>2. NoEvent.run = 0 /\ Range(NoEvent.outcomes) = {}
    BY DEF NoEvent, Range
  <2>3. 0 \in Nat /\ 0 <= scans /\ ~ (0 > 0)
    BY <1>15
  <2> QED
    BY <1>1, <2>1, <2>2, <2>3, Zenon DEF FitRanking
<1>24. ScanTypeOK'
  BY <1>1, <1>4, <1>15, Zenon DEF ScanTypeOK
<1> QED
  BY <1>8, <1>11, <1>12, <1>13, <1>14, <1>19, <1>21, <1>22, <1>23, <1>24, Zenon DEF ScanInv

\* The ranking that a full scan journals tells its cards.
LEMMA FinishInv == ScanInv /\ Finish => ScanInv'
<1> SUFFICES ASSUME ScanInv, Finish PROVE ScanInv'
  BY Zenon
<1> DEFINE told == [i \in DOMAIN scan.ranked |-> <<scan.ranked[i], scan.outcomes[i]>>]
<1>1. /\ scan.phase = "journal" \/ (scan.phase = "send" /\ scan.rank > Len(scan.ranked))
      /\ UNCHANGED <<now, cards, scans>> /\ scan' = NoScan
      /\ (ranking' = ranking \/ ranking' = [run |-> scan.run, outcomes |-> told])
  BY Zenon DEF Finish, append_scan_journal
<1>2. scan # NoScan /\ scan.phase # "collect"
  BY Zenon, <1>1, PhaseIsScan
<1>3. scan.run = scans /\ scans > 0 /\ scans \in Nat /\ Told(scan, cards)
  BY <1>2, ScanFacts, Zenon
<1>4. scan.ranked \in Seq(Setups) /\ SentIn(cards, scan.run) = ToldSent(scan.ranked, scan.outcomes)
  BY <1>3, Zenon DEF Told
<1>5. DOMAIN scan.ranked = 1..Len(scan.ranked) /\ Len(scan.ranked) \in Nat
  BY <1>4
<1>6. \A k \in 1..Len(scan.ranked) : scan.outcomes[k] # "none"
  <2>1. CASE scan.phase = "journal"
    BY <1>2, <2>1, Zenon DEF ScanInv, FitScan
  <2>2. CASE scan.phase = "send" /\ scan.rank > Len(scan.ranked)
    <3>1. scan.phase \in {"send", "evaluate"}
      BY Zenon, <2>2
    <3>2. FitSend(scan) /\ scan.rank \in Nat
      BY <3>1, SendFacts, Zenon
    <3>3. \A k \in 1..Len(scan.ranked) : ~ (k >= scan.rank)
      BY <1>5, <2>2, <3>2
    <3> QED
      BY <3>2, <3>3, Zenon DEF FitSend
  <2> QED
    BY <1>1, <2>1, <2>2, Zenon
<1>7. FitRanking(ranking, cards, NoScan, scans)
  BY Zenon DEF ScanInv, FitRanking
<1>8. ASSUME ranking' = [run |-> scan.run, outcomes |-> told] PROVE FitRanking(ranking', cards, NoScan, scans)
  <2>1. ranking'.run = scan.run /\ ranking'.outcomes = told
    BY Zenon, <1>8
  <2>2. \A k \in 1..Len(scan.ranked) : told[k] = <<scan.ranked[k], scan.outcomes[k]>>
    BY <1>5, Zenon
  <2>3. DOMAIN told = 1..Len(scan.ranked)
    BY <1>5, Zenon
  <2> HIDE DEF told
  <2>4. \A k \in 1..Len(scan.ranked) : told[k][1] = scan.ranked[k] /\ told[k][2] = scan.outcomes[k]
    BY <2>2
  <2>5. ASSUME NEW e \in Range(told) PROVE \E k \in 1..Len(scan.ranked) : e = told[k]
    BY <2>3, Zenon DEF Range
  <2>6. \A k \in 1..Len(scan.ranked) : told[k] \in Range(told)
    BY <2>3, Zenon DEF Range
  <2>7. ASSUME NEW e \in Range(told) PROVE e[2] # "none"
    <3>1. PICK k \in 1..Len(scan.ranked) : e = told[k]
      BY <2>5, Zenon
    <3>2. e[2] = scan.outcomes[k]
      BY <2>4, <3>1, Zenon
    <3> QED
      BY <1>6, <3>2, Zenon
  <2> DEFINE named == {e[1] : e \in {f \in Range(told) : f[2] = "sent"}}
  <2>8. ASSUME NEW x \in named PROVE x \in ToldSent(scan.ranked, scan.outcomes)
    <3>1. PICK e \in Range(told) : e[2] = "sent" /\ x = e[1]
      BY <2>8, Zenon
    <3>2. PICK k \in 1..Len(scan.ranked) : e = told[k]
      BY <2>5, Zenon
    <3>3. scan.outcomes[k] = "sent" /\ x = scan.ranked[k]
      BY <2>4, <3>1, <3>2, Zenon
    <3> QED
      BY <3>3, Zenon DEF ToldSent
  <2>9. ASSUME NEW x \in ToldSent(scan.ranked, scan.outcomes) PROVE x \in named
    <3>1. PICK k \in 1..Len(scan.ranked) : scan.outcomes[k] = "sent" /\ x = scan.ranked[k]
      BY <2>9, Zenon DEF ToldSent
    <3>2. PICK e \in Range(told) : e = told[k]
      BY <2>6, Zenon
    <3>3. e[2] = "sent" /\ x = e[1]
      BY <2>4, <3>1, <3>2, Zenon
    <3> QED
      BY <3>3, Zenon
  <2>10. ToldSent(scan.ranked, scan.outcomes) = named
    BY <2>8, <2>9, Zenon
  <2>11. scan.run \in Nat /\ scan.run <= scans
    BY <1>3
  <2> QED
    BY <1>4, <2>1, <2>7, <2>10, <2>11, Zenon DEF FitRanking
<1>9. FitRanking(ranking', cards, NoScan, scans)
  BY <1>1, <1>7, <1>8, Zenon
<1> QED
  BY <1>1, <1>9, ScanEnds, Zenon

\* Every step keeps the invariant.
LEMMA ScanStepInv == ScanInv /\ [ScanNext]_scanVars => ScanInv'
<1> SUFFICES ASSUME ScanInv, [ScanNext]_scanVars PROVE ScanInv'
  BY Zenon
<1>1. CASE UNCHANGED scanVars
  BY <1>1, SameState, Zenon DEF scanVars
<1>2. CASE ScanSteps
  BY <1>2, GatedInv, CollectInv, ReadBudgetInv, NoCardInv, EvaluateInv, LLMUnavailableInv, RecordInv, FinishInv, Zenon
     DEF ScanSteps
<1>3. CASE ScanRaises \/ ScanLost
  BY <1>3, ScanStopsInv, Zenon
<1>4. CASE Elapse
  BY <1>4, ElapseInv, Zenon
<1>5. CASE \E kind \in Scheduled \cup {"operator"} : BeginScan(kind)
  BY <1>5, BeginsInv, Zenon
<1>6. CASE \E s \in Native : request_symbol_scan(s)
  BY <1>6, SameState, Zenon DEF request_symbol_scan
<1>7. ASSUME NEW i \in DOMAIN cards, reevaluate_signal(i) \/ CardMoves(i) \/ replace_signal(i) PROVE ScanInv'
  <2>1. CASE reevaluate_signal(i)
    BY <2>1, SameState, Zenon DEF reevaluate_signal
  <2>2. CASE CardMoves(i)
    BY <2>2, CardMovesInv, Zenon
  <2>3. CASE replace_signal(i)
    BY <2>3, ReplaceSignalInv, Zenon
  <2> QED
    BY <1>7, <2>1, <2>2, <2>3, Zenon
<1>8. ASSUME NEW r \in Background \X Native, BeginBackground(r) \/ ScanBusy(r) PROVE ScanInv'
  <2>1. CASE BeginBackground(r)
    BY <2>1, BeginsInv, Zenon
  <2>2. CASE ScanBusy(r)
    BY <2>2, SameState, Zenon DEF ScanBusy
  <2> QED
    BY <1>8, <2>1, <2>2, Zenon
<1>9. CASE \E s \in Dynamics : SymbolRefused(s)
  BY <1>9, SameState, Zenon DEF SymbolRefused
<1> QED
  BY <1>1, <1>2, <1>3, <1>4, <1>5, <1>6, <1>7, <1>8, <1>9, Zenon DEF ScanNext

\* The counts of the ration are those of the invariant.
LEMMA ScanInvRations == ScanInv => CardsRationed
<1> SUFFICES ASSUME ScanInv PROVE CardsRationed
  BY Zenon
<1>1. DayRation(cards) /\ ScanRation(cards) /\ WatchRation(cards)
  BY Zenon DEF ScanInv
<1>2. ASSUME NEW d \in 0..Date(MaxClock)
      PROVE  /\ Cardinality({i \in DOMAIN cards : Day(i) = d /\ Recorded(i) /\ cards[i].setup \in Native
                                                   /\ cards[i].budget # "NONE"}) <= MaxPerSession
             /\ \A c \in Sources :
                  Cardinality({i \in DOMAIN cards : Day(i) = d /\ Recorded(i) /\ cards[i].setup \in Of(c)}) <= MaxPerSource
             /\ \A g \in Groups :
                  Cardinality({i \in DOMAIN cards : Day(i) = d /\ Recorded(i) /\ g \in cards[i].capped}) <= MaxPerGroup
  <2>1. d \in Int
    OBVIOUS
  <2>2. {i \in DOMAIN cards : Day(i) = d /\ Recorded(i) /\ cards[i].setup \in Native /\ cards[i].budget # "NONE"}
        = NativeOn(cards, d)
    BY Zenon DEF Day, Recorded, NativeOn, Spending
  <2>3. \A c \in Sources : {i \in DOMAIN cards : Day(i) = d /\ Recorded(i) /\ cards[i].setup \in Of(c)}
        = SourceOn(cards, d, c)
    BY Zenon DEF Day, Recorded, SourceOn, Spending
  <2>4. \A g \in Groups : {i \in DOMAIN cards : Day(i) = d /\ Recorded(i) /\ g \in cards[i].capped}
        = GroupOn(cards, d, g)
    BY Zenon DEF Day, Recorded, GroupOn, Spending
  <2> QED
    BY <1>1, <2>1, <2>2, <2>3, <2>4, Zenon DEF DayRation
<1>3. ASSUME NEW i \in DOMAIN cards, cards[i].budget = "FULL", cards[i].setup \in Native
      PROVE  Cardinality({j \in DOMAIN cards : cards[j].run = cards[i].run /\ Recorded(j) /\ cards[j].setup \in Native})
                <= MaxPerScan
  <2>1. {j \in DOMAIN cards : cards[j].run = cards[i].run /\ Recorded(j) /\ cards[j].setup \in Native}
        = NativeIn(cards, cards[i].run)
    BY Zenon DEF Recorded, NativeIn, Spending
  <2> QED
    BY <1>1, <1>3, <2>1, Zenon DEF ScanRation
<1>4. \A i, j \in DOMAIN cards :
        Recorded(i) /\ Recorded(j) /\ i < j /\ cards[i].run = cards[j].run /\ cards[j].setup \in Watch =>
           ContractOf[cards[i].setup] # ContractOf[cards[j].setup]
  BY <1>1, Zenon DEF WatchRation, Recorded, Spending
<1>5. scan.phase \in {"send", "evaluate"} => scan.calls <= 1
  BY SendFacts, Zenon DEF FitSend
<1> QED
  BY <1>2, <1>3, <1>4, <1>5, Zenon DEF CardsRationed

\* The journaled ranking is that of the invariant.
LEMMA ScanInvAccounts == ScanInv => ScanAccounted
<1> SUFFICES ASSUME ScanInv PROVE ScanAccounted
  BY Zenon
<1>1. FitRanking(ranking, cards, scan, scans)
  BY Zenon DEF ScanInv
<1>2. {cards[i].setup : i \in {j \in DOMAIN cards : cards[j].run = ranking.run /\ Recorded(j)}}
      = SentIn(cards, ranking.run)
  BY Zenon DEF SentIn, Spending, Recorded
<1> QED
  BY <1>1, <1>2, Zenon DEF ScanAccounted, FitRanking

\* The cards of run_scan are rationed, for every date, source, group and scan.
THEOREM CardsAreRationed == ScanSpec => []CardsRationed
<1>1. ScanInit => ScanInv
  BY Zenon, ScanInitInv
<1>2. ScanInv /\ [ScanNext]_scanVars => ScanInv'
  BY Zenon, ScanStepInv
<1>3. ScanInv => CardsRationed
  BY Zenon, ScanInvRations
<1> QED
  BY <1>1, <1>2, <1>3, PTL DEF ScanSpec

\* The ranking that _journal_scan_ranking writes names exactly the cards of its scan.
THEOREM ScanIsAccounted == ScanSpec => []ScanAccounted
<1>1. ScanInit => ScanInv
  BY Zenon, ScanInitInv
<1>2. ScanInv /\ [ScanNext]_scanVars => ScanInv'
  BY Zenon, ScanStepInv
<1>3. ScanInv => ScanAccounted
  BY Zenon, ScanInvAccounts
<1> QED
  BY <1>1, <1>2, <1>3, PTL DEF ScanSpec

\* A setup whose cards are carried over the session has one live card, over scans,
\* re-evaluations and replace_signal.
THEOREM LiveCardIsOne == ScanSpec => []OneLiveCard
<1>1. ScanInit => ScanInv
  BY Zenon, ScanInitInv
<1>2. ScanInv /\ [ScanNext]_scanVars => ScanInv'
  BY Zenon, ScanStepInv
<1>3. ScanInv => OneLiveCard
  BY Zenon DEF ScanInv
<1> QED
  BY <1>1, <1>2, <1>3, PTL DEF ScanSpec
=============================================================================

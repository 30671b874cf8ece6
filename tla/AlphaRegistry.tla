--------------------------- MODULE AlphaRegistry ---------------------------
(***************************************************************************)
(* The alpha registry of storage/alpha.py and the probe liveness of        *)
(* storage/probe_state.py: which versions may take risk on an instrument.  *)
(* Every change is one transaction under the alpha lock, made against the  *)
(* generation the caller read; a caller with an older one is refused, so a *)
(* step here is a change with the current generation.  A probe's liveness  *)
(* is derived, never stored: it ends by time, or by the losses of          *)
(* positions that close later.                                             *)
(*                                                                         *)
(* The scope is the paper account, the only one with probes, and the       *)
(* probe policy is the one constant of a deployment.                       *)
(***************************************************************************)
EXTENDS Integers, FiniteSets

CONSTANTS
    Versions,       \* immutable alpha versions
    Catalog,        \* those that are catalog definitions: paper probes only, no universe
    AlphaOf,        \* version -> alpha_id
    SymbolsOf,      \* version -> eligible_symbols
    MaxProbes,      \* AlphaPipelineConfig.max_probes
    MaxTerm,        \* ProbePolicy.max_term_days
    KillR,          \* ProbePolicy.kill_r
    Results,        \* realized R of one closed position
    MaxClock,       \* bound on the clock
    MaxEntries      \* bound on the positions ever opened

\* The kill rule is a loss: forward_record asks for a trade besides, which a negative sum implies.
ASSUME RegistryAssumption ==
    /\ MaxProbes \in Nat /\ MaxTerm \in Nat
    /\ KillR \in Int /\ KillR < 0 /\ Results \subseteq Int

VARIABLES
    today,
    registry,       \* the REGISTRY_KEY projection: versions by list
    enrolment,      \* probe/<version>: expires_at of its latest term
    qualification,  \* qualification/<version>: the incumbents it was measured against
    shadowed,       \* versions with the shadow sessions and decisions a promotion asks for
    entered,        \* positions opened so far
    open,           \* of them, those of the version that are still open
    cumulative,     \* realized R of the closes since the first enrolment
    everKilled      \* versions that reached the kill rule while enrolled (history)

registryVars == <<today, registry, enrolment, qualification, shadowed, entered, open, cumulative, everKilled>>

NotEnrolled == -1
NotQualified == {"none"}

-----------------------------------------------------------------------------
(* Liveness of a probe: probe_state.py. *)

\* forward_record: the kill rule over the reconciled closes since the first enrolment.
Killed(v) == cumulative[v] <= KillR

\* probe_block_reason: why a probe may not take new risk, or none.
Live(v) ==
    /\ enrolment[v] # NotEnrolled
    /\ today < enrolment[v]
    /\ ~ Killed(v)

_live_probes == {v \in registry.probe : Live(v)}

\* _symbol_owner_conflict: an owner of another alpha with a symbol of the version's universe;
\* a catalog version has none, so it neither owns nor conflicts.
OwnerConflict(v, owners) ==
    v \notin Catalog /\ \E w \in owners \ Catalog :
        AlphaOf[w] # AlphaOf[v] /\ SymbolsOf[w] \cap SymbolsOf[v] # {}

-----------------------------------------------------------------------------

Init ==
    /\ today = 0
    /\ registry = [active |-> {}, shadow |-> {}, probe |-> {}]
    /\ enrolment = [v \in Versions |-> NotEnrolled]
    /\ qualification = [v \in Versions |-> NotQualified]
    /\ shadowed = {}
    /\ entered = 0
    /\ open = [v \in Versions |-> 0]
    /\ cumulative = [v \in Versions |-> 0]
    /\ everKilled = {}

DayPasses ==
    /\ today < MaxClock
    /\ today' = today + 1
    /\ UNCHANGED <<registry, enrolment, qualification, shadowed, entered, open, cumulative, everKilled>>

\* record_qualification: a passing decision against the incumbents its run was frozen with.
record_qualification(v) ==
    /\ v \notin Catalog /\ qualification[v] # registry.active \ {v}
    /\ qualification' = [qualification EXCEPT ![v] = registry.active \ {v}]
    /\ UNCHANGED <<today, registry, enrolment, shadowed, entered, open, cumulative, everKilled>>

\* record_forecast: the last valid session or decision a version in shadow needed.
record_forecast(v) ==
    /\ v \in registry.shadow /\ v \notin shadowed
    /\ shadowed' = shadowed \cup {v}
    /\ UNCHANGED <<today, registry, enrolment, qualification, entered, open, cumulative, everKilled>>

\* The end of _change and enrol_catalog_probe: one current version per logical alpha.
Listed(v, mode) ==
    [list \in {"active", "shadow", "probe"} |->
        {w \in registry[list] : AlphaOf[w] # AlphaOf[v]} \cup (IF list = mode THEN {v} ELSE {})]

\* Mutant: live probes are not owners.
PromotionOwnersActive(v) == registry.active

PromotionOwners(v) == registry.active \cup _live_probes

promote(v) ==
    /\ v \notin Catalog
    /\ qualification[v] = registry.active \ {v}
    /\ v \in shadowed
    /\ ~ OwnerConflict(v, PromotionOwners(v))
    /\ registry' = Listed(v, "active")
    /\ UNCHANGED <<today, enrolment, qualification, shadowed, entered, open, cumulative, everKilled>>

set_shadow(v) ==
    /\ v \notin Catalog
    /\ registry' = Listed(v, "shadow")
    /\ UNCHANGED <<today, enrolment, qualification, shadowed, entered, open, cumulative, everKilled>>

demote(v) ==
    /\ registry' = Listed(v, "inactive")
    /\ UNCHANGED <<today, enrolment, qualification, shadowed, entered, open, cumulative, everKilled>>

\* _record_probe_enrolment for both kinds: kill, renewal, slots, owner, then the term.  The
\* first enrolment is kept through later ones, so a new term does not reset the forward record.
EnrolmentAccepted(v, renew, owners) ==
    LET others == _live_probes \ {v} IN
    /\ ~ (enrolment[v] # NotEnrolled /\ Killed(v))
    /\ renew => v \in registry.probe
    /\ Cardinality(others) < MaxProbes
    /\ ~ OwnerConflict(v, owners \cup others)

_record_probe_enrolment(v, days) ==
    enrolment' = [enrolment EXCEPT ![v] = today + days]

\* enrol_probe through _authorize_probe: an eligible assessment, and no version of the alpha active.
enrol_probe(v) ==
    /\ v \notin Catalog /\ qualification[v] # NotQualified
    /\ \A w \in registry.active : AlphaOf[w] # AlphaOf[v]
    /\ \E renew \in BOOLEAN, days \in 1..MaxTerm :
          EnrolmentAccepted(v, renew, registry.active) /\ _record_probe_enrolment(v, days)
    /\ registry' = Listed(v, "probe")
    /\ UNCHANGED <<today, qualification, shadowed, entered, open, cumulative, everKilled>>

enrol_catalog_probe(v) ==
    /\ v \in Catalog
    /\ v \notin registry.active \cup registry.shadow
    /\ \E renew \in BOOLEAN, days \in 1..MaxTerm :
          EnrolmentAccepted(v, renew, {}) /\ _record_probe_enrolment(v, days)
    /\ registry' = Listed(v, "probe")
    /\ UNCHANGED <<today, qualification, shadowed, entered, open, cumulative, everKilled>>

\* sweep_probes: derived expiry and kills made durable, by a scan or never.
sweep_probes ==
    /\ _live_probes # registry.probe
    /\ registry' = [registry EXCEPT !.probe = _live_probes]
    /\ UNCHANGED <<today, enrolment, qualification, shadowed, entered, open, cumulative, everKilled>>

\* _alpha_entry_rejection: a card of an active version or a live probe becomes a position.
EntryAdmitted(v) ==
    /\ v \in registry.active \cup _live_probes
    /\ entered < MaxEntries
    /\ entered' = entered + 1
    /\ open' = [open EXCEPT ![v] = @ + 1]
    /\ UNCHANGED <<today, registry, enrolment, qualification, shadowed, cumulative, everKilled>>

\* A position closes, whatever became of its version; the forward record counts it from the
\* first enrolment on.
PositionCloses(v) ==
    /\ open[v] > 0
    /\ open' = [open EXCEPT ![v] = @ - 1]
    /\ \E r \in Results :
          cumulative' = [cumulative EXCEPT ![v] = IF enrolment[v] = NotEnrolled THEN @ ELSE @ + r]
    /\ everKilled' = everKilled \cup {w \in {v} : cumulative'[w] <= KillR}
    /\ UNCHANGED <<today, registry, enrolment, qualification, shadowed, entered>>

Next ==
    \/ DayPasses
    \/ \E v \in Versions :
          \/ record_qualification(v) \/ record_forecast(v)
          \/ promote(v) \/ set_shadow(v) \/ demote(v)
          \/ enrol_probe(v) \/ enrol_catalog_probe(v)
          \/ EntryAdmitted(v) \/ PositionCloses(v)
    \/ sweep_probes

Spec == Init /\ [][Next]_registryVars

-----------------------------------------------------------------------------
(* Properties. *)

\* An instrument has one owner, and probes keep to their slots, although ownership and slots
\* are freed by the passing of time and by losses, not by a step of the registry: two versions
\* that may both take risk on a symbol belong to one alpha, and no more than MaxProbes probes
\* are live.  Versions that ever reached the kill rule are set aside: see KillIsSticky.
OneOwner ==
    LET owners == (registry.active \cup _live_probes) \ (everKilled \cup Catalog) IN
    /\ \A v, w \in owners : SymbolsOf[v] \cap SymbolsOf[w] # {} => AlphaOf[v] = AlphaOf[w]
    /\ Cardinality(_live_probes \ everKilled) <= MaxProbes

\* "sticky kill": a version that reached the kill rule takes no new risk as a probe, not in its
\* term and not by a new enrolment (_record_probe_enrolment, probe_block_reason).
KillIsSticky == _live_probes \cap everKilled = {}

=============================================================================

------------------------------ MODULE MCProbe ------------------------------
(* One paper probe with two positions: an instance of the alpha registry.  *)
EXTENDS AlphaRegistry

CONSTANT alpha

MCVersions == {alpha}
MCAlphaOf == [v \in MCVersions |-> "A"]
MCSymbolsOf == [v \in MCVersions |-> {"x"}]
MCKillR == -1
MCResults == {-1, 1}
=============================================================================

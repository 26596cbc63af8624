---------------------------- MODULE MCPolFeatSet ----------------------------
EXTENDS PolFeatSet

MCVariable == {"raw", "local"}
MCFeature == {"raw"}
\* a0 and a1, at two points that tell the monomials of the instance apart
MCInvariant == {0, 1}
MCPoint == {[it \in MCInvariant |-> 2 + it], [it \in MCInvariant |-> 3 - 2 * it]}
MCCoefficient == 0..1
MCExponent == 0..1
=============================================================================

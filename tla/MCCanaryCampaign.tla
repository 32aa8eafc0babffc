-------------------------- MODULE MCCanaryCampaign --------------------------
EXTENDS CanaryCampaign, TLC

Symmetry == Permutations(Sessions)
=============================================================================

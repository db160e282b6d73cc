------------------------------- MODULE MCLeaf -------------------------------
EXTENDS Leaf, TLC

\* Cards, credentials and site keys are only compared.
MCSymmetry == Permutations(Cards) \cup Permutations(Creds) \cup Permutations(SiteKeys)
=============================================================================

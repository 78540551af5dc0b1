------------------------------ MODULE MCRtspSession -----------------------------
EXTENDS RtspSession

Symmetry == Permutations(Handlers) \cup Permutations(Sessions) \cup Permutations(Rtps)
===============================================================================

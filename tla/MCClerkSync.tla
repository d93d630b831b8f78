---------------------- MODULE MCClerkSync ----------------------
EXTENDS ClerkSync, TLC

Symmetry == Permutations(Handlers) \cup Permutations(Ids)
================================================================

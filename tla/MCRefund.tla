------------------------------ MODULE MCRefund ------------------------------
EXTENDS Refund, TLC

Symmetry == Permutations(Handlers) \cup Permutations(RefundIds)
=============================================================================

---------------------- MODULE MCSeatSale ----------------------
EXTENDS SeatSale, TLC

Symmetry == Permutations(Users) \cup Permutations(Seats) \cup Permutations(Handlers)
===============================================================

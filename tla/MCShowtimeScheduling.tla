---------------------- MODULE MCShowtimeScheduling ----------------------
EXTENDS ShowtimeScheduling, TLC

CONSTANTS Short, Long   \* the two movies

\* The long movie is not yet released at the first time.
RuntimeOf == [m \in Movies |-> IF m = Short THEN 1 ELSE 2]
ReleaseOf == [m \in Movies |-> IF m = Short THEN Times ELSE Times \ {0}]

\* An update of one field; showtimes are SELLING from the start.
AllChanges == [movie : Movies \cup {Keep}, hall : Halls \cup {Keep},
               start : Times \cup {Keep}, status : Statuses \cup {Keep}]
ChangesAsked == {r \in AllChanges : /\ Cardinality({f \in DOMAIN r : r[f] # Keep}) = 1
                                    /\ r.status # "SELLING"}

Symmetry == Permutations(Handlers) \cup Permutations(Halls) \cup Permutations(Showtimes)
=========================================================================

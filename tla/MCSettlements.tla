--------------------------- MODULE MCSettlements ---------------------------
(***************************************************************************)
(* Model checking of Settlements: one restaurant with one sale, one        *)
(* partner with two deliveries, two cycles, two requests, one failure.     *)
(* The product of all that is too large; Bounded keeps apart what the      *)
(* properties do not need together.                                        *)
(***************************************************************************)
EXTENDS Settlements, TLC

Symmetry ==
    Permutations(Restaurants) \cup Permutations(Partners) \cup Permutations(Sales)
      \cup Permutations(Deliveries) \cup Permutations(Cycles) \cup Permutations(Requests)

Opened == {c \in Cycles : cycle[c] # None}

InFlight == {r \in Requests : job[r] # NoJob}

\* The orders whose status has been written back, or is 'delivered' again.
Disturbed == {w \in Sales : done[w] # None /\ (w \notin delivered \/ Cardinality(stamps[w]) > 1)}

NoDeliveries == \A w \in Deliveries : done[w] = None

\* One cycle over the first days, with everything; or two cycles, with one
\* request at a time and the sale.  A disturbed order comes without deliveries.
\* The restaurant's account is registered before the first cycle is opened.
Bounded ==
    /\ Opened # {} => Restaurants \subseteq account
    /\ Opened # Cycles => today < LastDay /\ \A c \in Opened : cycle[c].end < LastDay
    /\ Opened = Cycles => Cardinality(InFlight) <= 1 /\ faults = 0
    /\ Opened = Cycles \/ Disturbed # {} => NoDeliveries
=============================================================================

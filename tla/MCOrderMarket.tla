--------------------------- MODULE MCOrderMarket ---------------------------
(***************************************************************************)
(* Small instances of the marketplace for TLC. Orders are numbers so that  *)
(* their amounts can differ: a larger number is a larger order.            *)
(***************************************************************************)
EXTENDS OrderMarket, TLC

MCAmount == [o \in Orders |-> o]

Symmetry == Permutations(Users)

\* Bound: the orders are all there before the first sweep.
AllArrived == (\E o \in Orders : status[o] = "absent") => sweep.pc = "idle"

\* Bound: everything happens within one OFFER_TTL, so that no deadline is due, no offer
\* grows stale and no job fires.
WithinTTL ==
    /\ claimed = {}
    /\ \A r \in Rows : offer[r] # "stale"
    /\ \A c \in chores : c.step # "timeOut"

\* Bound: one handler at a time has something left to do after its commit.
OneHandler == Cardinality(chores) <= 1

=============================================================================

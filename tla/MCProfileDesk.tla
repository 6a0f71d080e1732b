---------------------------- MODULE MCProfileDesk ----------------------------
(* An instance of the profiles and their forms for TLC, and the pure         *)
(* operators checked over bounded inputs before it starts.                   *)
EXTENDS ProfileDesk

MCUsers == {"u1"}
MCPacks == {60, 1800}
MCPrices == {1}
MCHours == 1..2
MCTiers == 0..1
MCOrders == {[codes |-> FALSE, amount |-> 1860, amounts |-> {}],
             [codes |-> TRUE, amount |-> 660, amounts |-> {60, 660}]}

\* Bound: three of a registration, an edit and two decisions.
ThreeChanges == saves + decisions <= 3

\* Bound: a review meets one other handler at most, no take, and an order still in work
\* when it is asked.
ShortReview ==
    \A u \in Users : review[u] # "none" =>
        Cardinality(threads) < 2 /\ ~Taking(u) /\ (review[u] = "asked" => work[u] # NoOrder)

\* Bound: a step of a dialogue under way meets reviews, decisions and Ready, no handler
\* that writes; who undid a ban with one takes no order and overlaps with nothing else.
ShortSteps ==
    \A u \in Users :
        /\ due[u] # {} => threads = {}
        /\ u \in overtaken => Cardinality(threads) < 2 /\ ~Taking(u) /\ work[u] = NoOrder
----------------------------------------------------------------------------
\* The split of an amount loses nothing.
ASSUME SplitAddsUp ==
    \A amount \in 1..9000 : Decomposes(amount) =>
        amount = MapThenSumSet(LAMBDA s : s * CountOf(amount, s), PackSizes(amount))

\* Taking the largest package first fails where six of 60, or three of 325, would do.
ASSUME GreedyFails == ~Decomposes(6 * 60) /\ ~Decomposes(3 * 325)

\* A tier serves what a lower one serves, so the required tier and all above it do.
ASSUME TiersAreNested ==
    \A codes \in BOOLEAN : \A amounts \in SUBSET {60, 325, 660, 720, 1800, 8100, 16200} :
        Serving(codes, amounts) = {t \in TierNumbers : Required(codes, amounts) <= t}

\* The keys order any candidates of different ids strictly and totally, missing ratings
\* included: the order of the offers is determined.
Ratings == [speed : {{}, {1}, {2}}, complete : 0..1, failed : 0..1]

ASSUME RankingIsTotal ==
    \A rating \in [1..3 -> Ratings] : \A price \in [1..3 -> 1..2] :
        LET before == [u, v \in 1..3 |-> Before(u, v, rating, price)] IN
        /\ \A u, v \in 1..3 : u # v => (before[u, v] <=> ~before[v, u])
        /\ \A u, v, w \in 1..3 : before[u, v] /\ before[v, w] => before[u, w]
        /\ \E order \in Permutations(1..3) :
              Ranked(1..3, rating, price) = [i \in 1..3 |-> order[i]]
=============================================================================

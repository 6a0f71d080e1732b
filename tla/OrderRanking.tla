---------------------------- MODULE OrderRanking ----------------------------
(***************************************************************************)
(* Whom an order is offered to, best first, and who may take it. An order  *)
(* is [codes, amount, amounts]: for whom, its amount, and what its unused  *)
(* codes are worth. Prices are whole numbers of minor units.               *)
(***************************************************************************)
EXTENDS OnlineIndex, FiniteSets, FiniteSetsExt, SequencesExt

CountOf(amount, size) ==
    Count(amount, CHOOSE i \in 1..6 : DescSizes[i] = size)

\* full_price_for
FullPrice(prices, amount) ==
    MapThenSumSet(LAMBDA s : prices[s] * CountOf(amount, s), PackSizes(amount))

\* get_cheapest_candidates: the users in the set of every size of the order.
Priced(index, amount) == {u \in DOMAIN index : PackSizes(amount) \subseteq DOMAIN index[u].prices}

\* Mutant: everybody is trusted with every size.
TrustedAnyway(index, amount) == DOMAIN index

\* _apply_tier_filter: not asked when the default tier suffices, or when none does.
Trusted(index, amount) ==
    LET required == Required(FALSE, PackSizes(amount))
    IN IF required \in {DefaultTier, NoTier} THEN DOMAIN index
       ELSE {u \in DOMAIN index : index[u].tier # NoTier /\ index[u].tier >= required}

\* _cheapest_price_bucket: within one per cent of the cheapest.
Bucket(index, amount, users) ==
    {u \in users : \A v \in users :
        100 * FullPrice(index[u].prices, amount) <= 101 * FullPrice(index[v].prices, amount)}

\* PackRankingStrategy.select_candidates, up to the order
PackCandidates(index, order, excluded) ==
    Bucket(index, order.amount,
           (Priced(index, order.amount) \ excluded) \cap Trusted(index, order.amount))

\* CodeRankingStrategy.select_candidates, up to the order
CodeCandidates(index, order, excluded) ==
    {u \in DOMAIN index \ excluded : index[u].keys \cap Serving(TRUE, order.amounts) # {}}

Candidates(index, order, excluded) ==
    IF order.codes THEN CodeCandidates(index, order, excluded)
    ELSE PackCandidates(index, order, excluded)

(* _pack_sort_key. A user's rating is [speed, complete, failed], where      *)
(* speed is a set of at most one number; no speed is the slowest.           *)
Faster(a, b) == \E x \in a.speed : \A y \in b.speed : x < y
Failures(a) == IF a.complete + a.failed = 0 THEN <<0, 1>> ELSE <<a.failed, a.complete + a.failed>>
Surer(a, b) == Failures(a)[1] * Failures(b)[2] < Failures(b)[1] * Failures(a)[2]

\* The first of the keys two users differ in decides.
Before(u, v, rating, price) ==
    LET a == rating[u]
        b == rating[v]
        keys == << <<Faster(a, b), Faster(b, a)>>, <<Surer(a, b), Surer(b, a)>>,
                   <<a.complete > b.complete, b.complete > a.complete>>,
                   <<price[u] < price[v], price[v] < price[u]>>, <<u < v, v < u>> >>
    IN \E i \in 1..5 : keys[i][1] /\ \A j \in 1..(i - 1) : ~keys[j][2]

Ranked(users, rating, price) ==
    SetToSortSeq(users, LAMBDA u, v : Before(u, v, rating, price))

\* Mutant: a price is not asked for.
ValidateUnpriced(order, row) ==
    IF order.codes THEN row.codes /\ Allows(TRUE, row.tier, order.amounts)
    ELSE Allows(row.codes, row.tier, PackSizes(order.amount))

\* validate_take
ValidateTake(order, row) ==
    IF order.codes THEN row.codes /\ Allows(TRUE, row.tier, order.amounts)
    ELSE /\ Allows(row.codes, row.tier, PackSizes(order.amount))
         /\ PackSizes(order.amount) \subseteq DOMAIN row.prices
=============================================================================

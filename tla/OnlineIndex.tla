----------------------------- MODULE OnlineIndex -----------------------------
(***************************************************************************)
(* What the Redis index holds of one user: his prices in the sets of the   *)
(* package sizes, his tier in their hash, and the code tiers whose sets he *)
(* is in. Each operator is one transaction of Redis. When a user came      *)
(* online orders the code tiers' sets; that order is left out.             *)
(***************************************************************************)
EXTENDS PackageMath

NoPrices == [s \in {} |-> 0]
NoEntry == [prices |-> NoPrices, tier |-> NoTier, keys |-> {}]

\* PackOnlineIndex: add rewrites every size, missing prices included.
PackAdd(e, row) == [e EXCEPT !.prices = row.prices, !.tier = row.tier]
PackRemove(e) == [e EXCEPT !.prices = NoPrices, !.tier = NoTier]

\* CodeOnlineIndex: add leaves the sets of other tiers as they are.
CodeAdd(e, row) == [e EXCEPT !.keys = @ \cup {row.tier}]
CodeRemove(e) == [e EXCEPT !.keys = {}]

Eligible(row) == row.status = "active" /\ row.online

\* OnlineIndexRouter.sync: two transactions.
SyncFirst(e, row) ==
    IF ~Eligible(row) THEN PackRemove(e)
    ELSE IF row.codes THEN CodeAdd(e, row) ELSE PackAdd(e, row)

\* Mutant: the other index keeps the user who changed sides.
SyncSecondOffline(e, row) == IF Eligible(row) THEN e ELSE CodeRemove(e)

SyncSecond(e, row) ==
    IF Eligible(row) /\ row.codes THEN PackRemove(e) ELSE CodeRemove(e)

\* What the index should hold of a row.
Mirror(row) ==
    IF ~Eligible(row) THEN NoEntry
    ELSE IF row.codes THEN [NoEntry EXCEPT !.keys = {row.tier}]
    ELSE [NoEntry EXCEPT !.prices = row.prices, !.tier = row.tier]
=============================================================================

----------------------------- MODULE PackageMath -----------------------------
(***************************************************************************)
(* Package sizes, the split of an order's amount into packages, and the    *)
(* tiers that bound which amounts a user is trusted with.                  *)
(***************************************************************************)
EXTENDS Integers

PackageSizes == {60, 325, 660, 1800, 3850, 8100}

(* decompose_amount: the largest package first, the rest to the next one.   *)
DescSizes == <<8100, 3850, 1800, 660, 325, 60>>

\* What is left of an amount before each size in turn, and after the last.
Rests(amount) ==
    LET r1 == amount % 8100
        r2 == r1 % 3850
        r3 == r2 % 1800
        r4 == r3 % 660
        r5 == r4 % 325
    IN <<amount, r1, r2, r3, r4, r5, r5 % 60>>

\* An amount that is not positive, or that leaves a rest, raises OrderAmountError.
Decomposes(amount) == amount > 0 /\ Rests(amount)[7] = 0

Count(amount, i) == Rests(amount)[i] \div DescSizes[i]

\* package_counts has no zero counts.
PackSizes(amount) == {DescSizes[i] : i \in {j \in 1..6 : Count(amount, j) > 0}}

(* TierScheme: 0 is the default tier. The widest pack tier has no upper end. *)
TierNumbers == 0..2
DefaultTier == 0
NoTier == 3

LowEnd == 60
HighEnd(codes) == IF codes THEN <<325, 1800, 8100>> ELSE <<720, 16200>>

\* Tier.allows
Allows(codes, tier, amounts) ==
    \A a \in amounts :
        /\ LowEnd <= a
        /\ (~codes /\ tier = 2) \/ a <= HighEnd(codes)[tier + 1]

\* TierScheme.serving, required
Serving(codes, amounts) == {t \in TierNumbers : Allows(codes, t, amounts)}

Required(codes, amounts) ==
    IF Serving(codes, amounts) = {} THEN NoTier
    ELSE CHOOSE t \in Serving(codes, amounts) : \A s \in Serving(codes, amounts) : t <= s

\* Tier.allowed_packs of the pack scheme
AllowedPacks(tier) == {s \in PackageSizes : Allows(FALSE, tier, {s})}
=============================================================================

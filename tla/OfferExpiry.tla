---------------------------- MODULE OfferExpiry ----------------------------
(***************************************************************************)
(* The offer_expirer process: it polls the deadline queue, expires the     *)
(* offers whose deadline it claimed, gives their slots back and wakes the  *)
(* dispatcher.                                                             *)
(***************************************************************************)
EXTENDS OrderTables

VARIABLES
    claimed,  \* deadlines taken off the queue and not looked at yet
    lapsed    \* offers expired whose slots are still to be released

expiryVars == <<claimed, lapsed>>

ExpiryTypeOK == claimed \subseteq Rows /\ lapsed \subseteq Rows
ExpiryInit == claimed = {} /\ lapsed = {}

\* _CLAIM_DUE. Which deadlines are due is left open: the expirer may be late, and its
\* clock is not the one that stamped the offer.
ClaimDue(r) ==
    /\ claimed = {} /\ lapsed = {}
    /\ r \in deadlines
    /\ \E D \in SUBSET deadlines :
        /\ r \in D
        /\ claimed' = D
        /\ deadlines' = deadlines \ D
    /\ UNCHANGED <<pgVars, pending, wake, delivered, lapsed>>

\* Mutant: the slots of every claimed deadline are released, answered offers included.
ExpireManyUnfiltered ==
    /\ claimed # {}
    /\ ExpireOffers(claimed)
    /\ lapsed' = claimed
    /\ claimed' = {}
    /\ UNCHANGED <<status, takenBy, ledger, redisVars, delivered>>

\* expire_many: only rows still offered come back.
ExpireMany ==
    /\ claimed # {}
    /\ ExpireOffers(claimed)
    /\ lapsed' = {r \in claimed : offer[r] \in Open}
    /\ claimed' = {}
    /\ UNCHANGED <<status, takenBy, ledger, redisVars, delivered>>

ReleaseLapsed ==
    /\ lapsed # {}
    /\ Release(lapsed)
    /\ Publish
    /\ lapsed' = {}
    /\ UNCHANGED <<pgVars, deadlines, delivered, claimed>>

\* expire_many raises and main logs the failed batch, or the process stops before it:
\* the deadlines are off the queue for good, the offers still open.
ClaimLost ==
    /\ Env \cap {"crash", "exception", "claimLost"} # {}
    /\ claimed' = {}
    /\ UNCHANGED <<tableVars, lapsed>>

\* The same after expire_many: the offers are expired, their slots never released.
LapseLost ==
    /\ Env \cap {"crash", "exception"} # {}
    /\ lapsed' = {}
    /\ UNCHANGED <<tableVars, claimed>>

ExpiryStep == ExpireMany \/ ReleaseLapsed
ExpiryNext == ExpiryStep \/ ClaimLost \/ LapseLost \/ \E r \in Rows : ClaimDue(r)
=============================================================================

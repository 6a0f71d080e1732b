---------------------------- MODULE OrderIntake ----------------------------
(***************************************************************************)
(* The api process: it inserts orders and, on the service endpoint, cleans *)
(* them. What happens between the request and the INSERT (the external     *)
(* store, the code checks) is not part of this module.                     *)
(***************************************************************************)
EXTENDS OrderTables

VARIABLE cleaned  \* offers expired by a clean whose slots are still to be released

intakeVars == <<cleaned>>

IntakeTypeOK == cleaned \subseteq Rows
IntakeInit == cleaned = {}

\* No wake is published: the dispatcher finds the order at its next sweep.
Create(o) ==
    /\ status[o] = "absent"
    /\ status' = [status EXCEPT ![o] = "pending"]
    /\ UNCHANGED <<takenBy, offer, ledger, redisVars, delivered, cleaned>>

\* The transaction of clean_order.
Clean(o) ==
    /\ "clean" \in Env
    /\ status[o] # "absent"
    /\ Overwrite(o, "cancelled")
    /\ ExpireOffers(OpenRows({o}))
    /\ cleaned' = cleaned \cup OpenRows({o})
    /\ UNCHANGED <<takenBy, ledger, redisVars, delivered>>

ReleaseCleaned(o) ==
    LET R == {r \in cleaned : r[1] = o}
    IN  /\ R # {}
        /\ Release(R)
        /\ cleaned' = cleaned \ R
        /\ UNCHANGED <<pgVars, deadlines, wake, delivered>>

ApiCrash ==
    /\ Env \cap {"crash", "exception"} # {}
    /\ cleaned' = {}
    /\ UNCHANGED tableVars

IntakeNext == ApiCrash \/ \E o \in Orders : Create(o) \/ Clean(o) \/ ReleaseCleaned(o)
=============================================================================

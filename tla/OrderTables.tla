---------------------------- MODULE OrderTables ----------------------------
(***************************************************************************)
(* The state the four processes of the marketplace share: the Postgres     *)
(* tables orders, order_offers and transactions, the Redis counters and    *)
(* the deadline queue, the dispatch wake channel, and the messages with a  *)
(* Take button that Telegram has shown to users.                           *)
(*                                                                         *)
(* Every operator below is one statement or one Lua script of a            *)
(* repository, so each is atomic; what a process does between two of them  *)
(* is the business of the modules that extend this one.                    *)
(***************************************************************************)
EXTENDS Integers, FiniteSets

CONSTANTS
    Orders,      \* the ids of the rows orders may hold
    Users,       \* ids of the profiles that are not moderators
    NoUser,      \* NULL in orders.taken_by
    MaxPending,  \* MAX_ORDERS_PENDING
    Env          \* what the environment may do, a subset of Environments

Environments == {"sendError", "ghostSend", "earlyTake", "lateTake", "clean",
                 "crash", "taskError", "exception", "wakeLost", "claimLost"}

ASSUME TablesAssumption ==
    /\ IsFiniteSet(Orders)
    /\ IsFiniteSet(Users)
    /\ NoUser \notin Users
    /\ MaxPending \in Nat \ {0}
    /\ Env \subseteq Environments

VARIABLES
    status,     \* orders.status, "absent" before the INSERT
    takenBy,    \* orders.taken_by
    offer,      \* order_offers.status and age of each pair, "none" when it has no row
    ledger,     \* transactions: how many rows an (order, profile) pair has
    pending,    \* Redis orders:pending:<user>, the slots a user has in use
    deadlines,  \* Redis orders:offer_deadlines
    wake,       \* a message waits in the dispatcher's subscription
    delivered   \* the offers whose message is on the user's screen

pgVars == <<status, takenBy, offer, ledger>>
redisVars == <<pending, deadlines, wake>>
tableVars == <<pgVars, redisVars, delivered>>

Rows == Orders \X Users
Active == {"pending", "offering"}
Statuses == Active \cup {"absent", "taken", "completed", "cancelled", "no_takers", "timed_out"}

\* The database status 'offered', split by the age of offered_at: "stale" is older
\* than OFFER_TTL + OFFER_RECONCILE_GRACE.
Open == {"offered", "stale"}
OfferStatuses == Open \cup {"none", "taken", "expired"}

TablesTypeOK ==
    /\ status \in [Orders -> Statuses]
    /\ takenBy \in [Orders -> Users \cup {NoUser}]
    /\ offer \in [Rows -> OfferStatuses]
    /\ ledger \in [Rows -> Nat]
    /\ pending \in [Users -> 0..MaxPending]
    /\ deadlines \subseteq Rows
    /\ wake \in BOOLEAN
    /\ delivered \subseteq Rows

TablesInit ==
    /\ status = [o \in Orders |-> "absent"]
    /\ takenBy = [o \in Orders |-> NoUser]
    /\ offer = [r \in Rows |-> "none"]
    /\ ledger = [r \in Rows |-> 0]
    /\ pending = [u \in Users |-> 0]
    /\ deadlines = {}
    /\ wake = FALSE
    /\ delivered = {}
----------------------------------------------------------------------------
(* Reads.                                                                   *)

\* The rows with status 'offered' of a set of orders.
OpenRows(O) == {r \in Rows : r[1] \in O /\ offer[r] \in Open}

\* The orders a user has in work: what count_in_work counts.
InWork(u) == {o \in Orders : status[o] = "taken" /\ takenBy[o] = u}

\* Mutant: the query filters on status and forgets the users whose offer lapsed.
AlreadyOfferedUnlapsed(o) == {u \in Users : offer[<<o, u>>] \in Open \cup {"taken"}}

\* Every user an order was ever offered to, whatever became of the offer.
AlreadyOffered(o) == {u \in Users : offer[<<o, u>>] # "none"}

\* Mutant: the query lacks NOT EXISTS.
DueWhateverOffered == {o \in Orders : status[o] \in Active}

\* Mutant: NOT EXISTS ignores the age of the offer.
DueUnoffered == {o \in Orders : status[o] \in Active /\ OpenRows({o}) = {}}

\* The orders list_due_for_fanout selects before its LIMIT: active, and with no
\* offer that is still fresh.
Due == {o \in Orders : status[o] \in Active /\ \A u \in Users : offer[<<o, u>>] # "offered"}

----------------------------------------------------------------------------
(* Writes.                                                                  *)

\* Mutant: the UPDATE has no condition on the old status.
ExpireAnyOffers(R) ==
    offer' = [r \in Rows |-> IF r \in R THEN "expired" ELSE offer[r]]

\* UPDATE order_offers ... WHERE status = 'offered', for the rows of R.
ExpireOffers(R) ==
    offer' = [r \in Rows |-> IF r \in R /\ offer[r] \in Open THEN "expired" ELSE offer[r]]

\* UPDATE orders SET status = s WHERE id = o: no condition on the old status.
Overwrite(o, s) == status' = [status EXCEPT ![o] = s]

\* Mutant: a counter that is already zero is lowered all the same.
ReleaseUnfloored(R) ==
    pending' = [u \in Users |-> pending[u] - Cardinality({r \in R : r[2] = u})]

\* _RELEASE, once per pair of R: DECR, and back to 0 when it went below.
Release(R) ==
    pending' = [u \in Users |->
        LET n == Cardinality({r \in R : r[2] = u})
        IN  IF n < pending[u] THEN pending[u] - n ELSE 0]

\* DispatchSignal.request: a publish that fails is logged and forgotten, and one
\* that finds no subscriber reaches nobody.
Publish == wake' = TRUE \/ ("wakeLost" \in Env /\ wake' = wake)
=============================================================================

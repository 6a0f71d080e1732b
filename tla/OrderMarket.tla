---------------------------- MODULE OrderMarket ----------------------------
(***************************************************************************)
(* The marketplace: dispatcher, offer expirer, bot and api side by side on *)
(* the shared tables, with the users, Telegram and the passing of time     *)
(* around them. A process changes its own locals and the tables.           *)
(*                                                                         *)
(* Env says how hostile the surroundings are:                              *)
(*   sendError  Telegram refuses a message, or the profile has gone        *)
(*   ghostSend  Telegram delivers a message and answers with an error      *)
(*   earlyTake  a user presses Take before the dispatcher, which still     *)
(*              waits for Telegram's answer, has marked the order offering *)
(*   lateTake   a user presses Take on an offer the reconciler is due to   *)
(*              withdraw, 75 s old with the expirer 15 s behind            *)
(*   clean      the service endpoint cancels an order                      *)
(*   crash      a process stops anywhere and is restarted                  *)
(*   taskError  a statement of the dispatcher raises (an odd amount,       *)
(*              Postgres, Redis)                                           *)
(*   exception  a statement of another process raises                      *)
(*   claimLost  the expirer fails on a batch it took off the queue         *)
(*   wakeLost   a publish fails or finds nobody subscribed                 *)
(***************************************************************************)
EXTENDS OrderFanout, OfferExpiry, OrderLifecycle, OrderIntake

vars == <<tableVars, fanoutVars, expiryVars, lifecycleVars, intakeVars>>

TypeOK ==
    /\ TablesTypeOK
    /\ FanoutTypeOK
    /\ ExpiryTypeOK
    /\ LifecycleTypeOK
    /\ IntakeTypeOK

Init ==
    /\ TablesInit
    /\ FanoutInit
    /\ ExpiryInit
    /\ LifecycleInit
    /\ IntakeInit
----------------------------------------------------------------------------
Dispatcher == FanoutNext /\ UNCHANGED <<expiryVars, lifecycleVars, intakeVars>>
Expirer == ExpiryNext /\ UNCHANGED <<fanoutVars, lifecycleVars, intakeVars>>
Api == IntakeNext /\ UNCHANGED <<fanoutVars, expiryVars, lifecycleVars>>

\* When a user may press Take. Without "earlyTake" the dispatcher is done with the
\* order first; without "lateTake" the offer is not one the reconciler may withdraw.
InTime(o, u) ==
    /\ "earlyTake" \in Env \/ \A s \in Sweeps : task[<<s, o>>].pc \notin {"schedule", "mark"}
    /\ "lateTake" \in Env \/ offer[<<o, u>>] # "stale"

Bot ==
    /\ LifecycleNext
    /\ \A o \in Orders, u \in Users : <<o, u>> \in taking' \ taking => InTime(o, u)
    /\ UNCHANGED <<fanoutVars, expiryVars, intakeVars>>

\* An offer passes TTL plus grace; a take is shorter than the grace.
GrowStale(r) ==
    /\ offer[r] = "offered"
    /\ "lateTake" \in Env \/ r \notin taking
    /\ offer' = [offer EXCEPT ![r] = "stale"]
    /\ UNCHANGED <<status, takenBy, ledger, redisVars, delivered,
                   fanoutVars, expiryVars, lifecycleVars, intakeVars>>

Time == \E r \in Rows : GrowStale(r)

Next == Dispatcher \/ Expirer \/ Bot \/ Api \/ Time

Spec == Init /\ [][Next]_vars
----------------------------------------------------------------------------
(* Fairness. The four processes are loops that never wait on each other: a  *)
(* step that stays possible is taken. Users owe nothing, orders need not    *)
(* arrive, and a failure never has to happen.                               *)

FairDispatcher ==
    /\ WF_vars(SweepStep /\ UNCHANGED <<expiryVars, lifecycleVars, intakeVars>>)
    /\ \A t \in Tasks :
        WF_vars(TaskStep(t) /\ UNCHANGED <<expiryVars, lifecycleVars, intakeVars>>)

FairExpirer ==
    /\ WF_vars(ExpiryStep /\ UNCHANGED <<fanoutVars, lifecycleVars, intakeVars>>)
    /\ \A r \in Rows :
        WF_vars(ClaimDue(r) /\ UNCHANGED <<fanoutVars, lifecycleVars, intakeVars>>)

FairBot ==
    /\ \A o \in Orders, u \in Users :
        WF_vars(EndTake(o, u) /\ UNCHANGED <<fanoutVars, expiryVars, intakeVars>>)
    /\ \A o \in Orders :
        WF_vars(TimerFires(o) /\ UNCHANGED <<fanoutVars, expiryVars, intakeVars>>)
    /\ \A c \in ChoreTypes : 
        WF_vars(c \in chores /\ ChoreStep(c) /\ UNCHANGED <<fanoutVars, expiryVars, intakeVars>>)

FairTime == \A r \in Rows : WF_vars(GrowStale(r))

FairSpec == Spec /\ FairDispatcher /\ FairExpirer /\ FairBot /\ FairTime
----------------------------------------------------------------------------
(* What holds however hostile the surroundings are.                         *)

\* A user never has more than MaxPending orders in work, two Take presses at once
\* included: take() counts under a lock on the profile row.
InWorkBound == \A u \in Users : Cardinality(InWork(u)) <= MaxPending

\* Whoever has an order in work was offered it and took that very offer: a status
\* overwritten and taken again never leaves the order with somebody else.
TakerHoldsOffer ==
    \A o \in Orders : status[o] = "taken" =>
        /\ takenBy[o] \in Users
        /\ offer[<<o, takenBy[o]>>] = "taken"

\* An order in work was not paid to its taker before, even one that was completed,
\* overwritten and offered once more: the credit never meets the unique index.
NeverPaidBefore == \A u \in Users : \A o \in InWork(u) : ledger[<<o, u>>] = 0

\* An offer is answered once: taken and expired rows never change again, whichever of
\* the expirer, the reconciler, a clean, a rollback or a rival's take comes second.
AnsweredOnce ==
    [][\A r \in Rows : offer[r] \in {"taken", "expired"} => offer'[r] = offer[r]]_vars
----------------------------------------------------------------------------
(* Slots: what orders:pending:<user> says against what the tables say.      *)

Held(u) ==
    Cardinality({o \in Orders : offer[<<o, u>>] \in Open}) + Cardinality(InWork(u))

\* Slots reserved for an offer not recorded yet, and slots of offers and orders that
\* are over, in the hands of a process that has still to release them.
InTransit(u) ==
    LET of(R) == Cardinality({r \in R : r[2] = u})
    IN  Cardinality({t \in Tasks : task[t].user = u /\ task[t].pc \in {"record", "releaseOne"}})
        + of(sweep.expired) + of(lapsed) + of(cleaned)
        + Cardinality({c \in chores : c.step \in {"vacate", "release"} /\ c.user = u})
        + Cardinality({c \in chores : u \in c.owed})

\* Nothing is leaked and nothing given back twice while nothing fails: a counter is
\* exactly the offers and orders of its user plus the slots in transit.
SlotsConserved == \A u \in Users : pending[u] = Held(u) + InTransit(u)

\* Crashes, lost batches and overwritten orders may leak slots but never give away one
\* in use: a user whose offers and orders fill the limit is not offered another.
SlotsCoverHeld == \A u \in Users : pending[u] >= Held(u)

----------------------------------------------------------------------------
(* One user at a time.                                                      *)

\* An order is open to one user at a time: the reconciler withdraws an offer before
\* the order goes to the next one.
OneOpenOffer == \A o \in Orders : Cardinality(OpenRows({o})) <= 1

\* Nobody is sent the same order twice, across sweeps and restarts: the row is
\* recorded before the message leaves.
AskedOnce ==
    [][\A t \in Tasks :
        (task[t].pc = "send" /\ task'[t].pc = "schedule") => Row(t) \notin delivered]_vars

\* Once taken, an order is its taker's until completed, cancelled or timed out.
TakenUntilResolved ==
    [][\A o \in Orders : status[o] = "taken" =>
        \/ status'[o] \in {"completed", "cancelled", "timed_out"}
        \/ status'[o] = "taken" /\ takenBy'[o] = takenBy[o]]_vars

\* An order closed for good is not offered, taken or paid again.
ClosedStaysClosed ==
    [][\A o \in Orders : status[o] \in Statuses \ (Active \cup {"absent", "taken"}) =>
        status'[o] = status[o]]_vars

\* The ledger has one row per completed order.
OneCreditPerOrder ==
    \A o \in Orders : \A u, v \in Users :
        ledger[<<o, u>>] > 0 /\ ledger[<<o, v>>] > 0 => u = v
----------------------------------------------------------------------------
(* Liveness.                                                                *)

\* An order on offer ends up taken or without takers, wakes lost or not: every offer
\* lapses, every slot comes back, and the backstop sweeps.
OrderDecided == \A o \in Orders : status[o] \in Active ~> status[o] \notin Active

\* A taken order is completed, cancelled or timed out.
TakenResolved == \A o \in Orders : status[o] = "taken" ~> status[o] # "taken"

\* An offer does not stay open for ever, even if its deadline is lost.
OfferAnswered == \A r \in Rows : offer[r] \in Open ~> offer[r] \notin Open
----------------------------------------------------------------------------
(* The promise of OrderBoard.                                               *)

\* An order on offer is asked of the user with the open offer, and waits without one.
AskedOf(o) == {u \in Users : status[o] \in Active /\ offer[<<o, u>>] \in Open}

StageOf(o) ==
    CASE status[o] = "absent" -> "absent"
      [] status[o] = "taken" -> "working"
      [] status[o] \in Active -> IF AskedOf(o) = {} THEN "waiting" ELSE "asking"
      [] OTHER -> "closed"

UserOf(o) ==
    CASE status[o] = "taken" -> takenBy[o]
      [] AskedOf(o) # {} -> CHOOSE u \in Users : u \in AskedOf(o)
      [] OTHER -> NoUser

PaidFor(o) == {u \in Users : ledger[<<o, u>>] > 0}

Board == INSTANCE OrderBoard WITH
    Nobody <- NoUser,
    Limit <- MaxPending,
    stage <- [o \in Orders |-> StageOf(o)],
    user <- [o \in Orders |-> UserOf(o)],
    asked <- [o \in Orders |-> AlreadyOffered(o)],
    paid <- [o \in Orders |-> PaidFor(o)]

\* Whatever the four processes do to an order, the board sees it put up, asked of one
\* user after the other, taken by the one who was asked, closed, and paid at most once.
ImplementsBoard == Board!BoardSpec
=============================================================================

-------------------------- MODULE OrderMarketCalm ---------------------------
(***************************************************************************)
(* What the unconditional UPDATEs of the dispatcher do no harm to, as long *)
(* as nobody takes an order early or late, the service endpoint cleans     *)
(* nothing and no statement of the dispatcher raises. Telegram may still   *)
(* refuse messages or deliver them with an error, wakes, batches and whole *)
(* processes may be lost.                                                  *)
(*                                                                         *)
(* mark_offering and mark_no_takers overwrite any status. They do so at    *)
(* the end of a task; what has to be shown is that from the query that     *)
(* found the order due to that UPDATE nobody can take the order. Then the  *)
(* status of an order only moves forward, and the rest follows.            *)
(***************************************************************************)
EXTENDS OrderMarketOffers

Calm == Env \cap {"earlyTake", "lateTake", "clean", "taskError"} = {}

\* Where a task goes by the order being active.
Engaged == Offering \cup {"noTakers", "send", "schedule", "mark"}

CalmTask(t) ==
    /\ task[t].pc \in Engaged => status[t[2]] \in Active
    /\ task[t].pc \in Offering \cup {"noTakers"} => Closed(t[2])
    /\ task[t].pc = "send" => \A u \in Users : offer[<<t[2], u>>] \in Open => <<t[2], u>> \notin delivered
    /\ task[t].pc \in {"schedule", "mark"} =>
        \A u \in Users : offer[<<t[2], u>>] \in Open => <<t[2], u>> \notin taking

CalmTasks == \A t \in Tasks : CalmTask(t)

\* An order due stays so until its task starts: what is left of its offers is stale.
CalmSweep ==
    /\ sweep.due # {} => sweep.pc \in {"expire", "release", "snapshot"}
    /\ \A o \in sweep.due :
        status[o] \in Active /\ \A u \in Users : offer[<<o, u>>] # "offered"

\* Whoever is inside a take has the message, and the offer does not age meanwhile.
CalmTakes == \A r \in taking : r \in delivered /\ offer[r] # "stale"

\* Only an order on offer has an open offer.
OpenIsActive == \A r \in Rows : offer[r] \in Open => status[r[1]] \in Active

\* Only a completed order was paid, and to one user.
PaidIsCompleted ==
    /\ \A r \in Rows : ledger[r] # 0 => status[r[1]] = "completed"
    /\ \A r, q \in Rows : ledger[r] # 0 /\ ledger[q] # 0 /\ r[1] = q[1] => r = q

CalmInv == CalmTasks /\ CalmSweep /\ CalmTakes /\ OpenIsActive /\ PaidIsCompleted

\* No offer is opened or made fresh, none is aged under a take, no take is opened, nothing
\* is paid and the dispatcher does not move.
Onlooker ==
    /\ UNCHANGED <<sweep, task, delivered>>
    /\ \A r \in Rows : offer'[r] \in Open => offer[r] \in Open
    /\ \A r \in Rows : offer'[r] = "offered" => offer[r] = "offered"
    /\ taking' \subseteq taking
    /\ \A r \in taking' : offer'[r] # "stale"
----------------------------------------------------------------------------
(* Everyone but the dispatcher.                                             *)

LEMMA TaskOnlooker ==
    ASSUME TypeOK, Onlooker, NEW t \in Tasks, CalmTask(t),
           task[t].pc \in Engaged => status'[t[2]] \in Active
    PROVE  CalmTask(t)'
<1>1. task'[t] = task[t] /\ delivered' = delivered /\ taking' \subseteq taking
    BY DEF Onlooker
<1>2. \A u \in Users : offer'[<<t[2], u>>] \in Open => offer[<<t[2], u>>] \in Open
    BY DEF Onlooker, Tasks, Rows
<1> QED
    BY <1>1, <1>2 DEF CalmTask, Closed

\* What is left of an onlooker's step is what it does to the status of orders: it
\* leaves the active ones alone, or those no task works on and no sweep found due.
LEMMA OnlookerCalm ==
    ASSUME TypeOK, CalmInv, Onlooker,
           \A t \in Tasks : task[t].pc \in Engaged => status'[t[2]] \in Active,
           \A o \in sweep.due : status'[o] \in Active,
           \A r \in Rows : offer'[r] \in Open => status'[r[1]] \in Active,
           PaidIsCompleted'
    PROVE  CalmInv'
<1>1. CalmTasks'
    BY TaskOnlooker DEF CalmInv, CalmTasks
<1>2. CalmSweep'
  <2>1. sweep' = sweep
      BY DEF Onlooker
  <2>2. \A o \in sweep.due, u \in Users : <<o, u>> \in Rows
      BY DEF TypeOK, FanoutTypeOK, Rows
  <2> QED
      BY <2>1, <2>2 DEF CalmInv, CalmSweep, Onlooker
<1>3. CalmTakes'
    BY DEF CalmInv, CalmTakes, Onlooker
<1>4. OpenIsActive'
    BY DEF OpenIsActive
<1> QED
    BY <1>1, <1>2, <1>3, <1>4 DEF CalmInv

\* With status and ledger untouched nothing is left at all.
LEMMA BystanderCalm ==
    ASSUME TypeOK, CalmInv, Onlooker, UNCHANGED <<status, ledger>>
    PROVE  CalmInv'
<1>1. \A t \in Tasks : task[t].pc \in Engaged => status'[t[2]] \in Active
    BY DEF CalmInv, CalmTasks, CalmTask
<1>2. \A o \in sweep.due : status'[o] \in Active
    BY DEF CalmInv, CalmSweep
<1>3. \A r \in Rows : offer'[r] \in Open => status'[r[1]] \in Active
    BY DEF CalmInv, OpenIsActive, Onlooker
<1>4. PaidIsCompleted'
    BY DEF CalmInv, PaidIsCompleted
<1> QED
    BY <1>1, <1>2, <1>3, <1>4, OnlookerCalm

\* An order that is not active may be moved on: nobody counts on it.
LEMMA InactiveCalm ==
    ASSUME TypeOK, CalmInv, Onlooker, NEW o \in Orders, status[o] \notin Active,
           \A p \in Orders : p # o => status'[p] = status[p],
           PaidIsCompleted'
    PROVE  CalmInv'
<1>1. \A t \in Tasks : task[t].pc \in Engaged => status'[t[2]] \in Active
    BY DEF CalmInv, CalmTasks, CalmTask, Tasks
<1>2. \A p \in sweep.due : status'[p] \in Active
    BY DEF CalmInv, CalmSweep, TypeOK, FanoutTypeOK
<1>3. \A r \in Rows : offer'[r] \in Open => status'[r[1]] \in Active
    BY DEF CalmInv, OpenIsActive, Onlooker, Rows
<1> QED
    BY <1>1, <1>2, <1>3, OnlookerCalm

LEMMA ExpirerCalm ==
    ASSUME TypeOK, CalmInv, Expirer
    PROVE  CalmInv'
<1> USE DEF Open, pgVars, redisVars, tableVars, fanoutVars, lifecycleVars
<1>1. UNCHANGED <<status, ledger, sweep, task, delivered, taking>>
    BY DEF Expirer, ExpiryNext, ExpiryStep, ExpireMany, ReleaseLapsed, ClaimLost, LapseLost,
        ClaimDue
<1>2. offer' = offer \/ ExpireOffers(claimed)
    BY DEF Expirer, ExpiryNext, ExpiryStep, ExpireMany, ReleaseLapsed, ClaimLost, LapseLost,
        ClaimDue
<1>3. \A r \in Rows : offer'[r] = offer[r] \/ offer'[r] = "expired"
    BY <1>2 DEF ExpireOffers
<1>4. \A r \in taking' : offer'[r] # "stale"
    BY <1>1, <1>3 DEF CalmInv, CalmTakes, TypeOK, LifecycleTypeOK
<1> QED
    BY <1>1, <1>3, <1>4, BystanderCalm DEF Onlooker

LEMMA TimeCalm ==
    ASSUME Calm, TypeOK, CalmInv, Time
    PROVE  CalmInv'
<1> USE DEF pgVars, redisVars, tableVars, fanoutVars, lifecycleVars
<1>1. PICK r \in Rows : GrowStale(r)
    BY DEF Time
<1>2. offer[r] = "offered" /\ r \notin taking /\ offer' = [offer EXCEPT ![r] = "stale"]
    BY <1>1 DEF GrowStale, Calm
<1>3. UNCHANGED <<status, ledger, sweep, task, delivered, taking>>
    BY <1>1 DEF GrowStale
<1>4. \A q \in Rows : offer'[q] = IF q = r THEN "stale" ELSE offer[q]
    BY <1>2 DEF TypeOK, TablesTypeOK
<1>5. \A q \in taking' : offer'[q] # "stale"
    BY <1>2, <1>3, <1>4 DEF CalmInv, CalmTakes, TypeOK, LifecycleTypeOK
<1> QED
    BY <1>2, <1>3, <1>4, <1>5, BystanderCalm DEF Onlooker, Open

LEMMA ApiCalm ==
    ASSUME Calm, TypeOK, CalmInv, Api
    PROVE  CalmInv'
<1> USE DEF pgVars, redisVars, tableVars, fanoutVars, lifecycleVars
<1>1. UNCHANGED <<offer, ledger, sweep, task, delivered, taking>>
    BY DEF Api, IntakeNext, Create, Clean, ReleaseCleaned, ApiCrash, Calm
<1>2. Onlooker
    BY <1>1 DEF Onlooker, CalmInv, CalmTakes
<1>3. ASSUME NEW o \in Orders, Create(o)
      PROVE  CalmInv'
  <2>1. status[o] = "absent" /\ status' = [status EXCEPT ![o] = "pending"]
      BY <1>3 DEF Create
  <2>2. status[o] \notin Active /\ \A p \in Orders : p # o => status'[p] = status[p]
      BY <2>1 DEF Active, TypeOK, TablesTypeOK
  <2>3. PaidIsCompleted'
      BY <1>1, <2>1, <2>2 DEF CalmInv, PaidIsCompleted, Rows
  <2> QED
      BY <1>2, <2>2, <2>3, InactiveCalm
<1>4. (\E o \in Orders : Create(o)) \/ UNCHANGED status
    BY DEF Api, IntakeNext, Clean, ReleaseCleaned, ApiCrash, Calm
<1> QED
    BY <1>1, <1>2, <1>3, <1>4, BystanderCalm

\* Opening a take: the message is out, the offer fresh, and no task about to overwrite.
LEMMA BeginTakeCalm ==
    ASSUME Calm, TypeOK, CalmInv, Bot, NEW o \in Orders, NEW u \in Users, BeginTake(o, u)
    PROVE  CalmInv'
<1> USE DEF pgVars, redisVars, tableVars, fanoutVars
<1>1. /\ UNCHANGED <<status, offer, ledger, delivered, sweep, task>>
      /\ taking' = taking \cup {<<o, u>>}
      /\ <<o, u>> \in delivered /\ <<o, u>> \notin taking
    BY DEF Bot, BeginTake
<1>2. InTime(o, u)
    BY <1>1 DEF Bot
<1>3. offer[<<o, u>>] # "stale"
    BY <1>2 DEF InTime, Calm
<1>4. ASSUME NEW t \in Tasks, task[t].pc \in {"schedule", "mark"}
      PROVE  t[2] # o
    BY <1>2, <1>4 DEF InTime, Calm, Tasks
<1>5. ASSUME NEW t \in Tasks
      PROVE  CalmTask(t)'
  <2>1. CalmTask(t)
      BY DEF CalmInv, CalmTasks
  <2>2. task[t].pc \in {"schedule", "mark"} =>
            \A v \in Users : offer[<<t[2], v>>] \in Open => <<t[2], v>> \notin taking'
      BY <1>1, <1>4, <2>1 DEF CalmTask
  <2> QED
      BY <1>1, <2>1, <2>2 DEF CalmTask, Closed
<1>6. CalmTakes'
    BY <1>1, <1>3 DEF CalmInv, CalmTakes
<1> QED
    BY <1>1, <1>5, <1>6 DEF CalmInv, CalmTasks, CalmSweep, OpenIsActive, PaidIsCompleted

\* Nobody counts on an order being active when somebody can take it.
LEMMA TakenIsFree ==
    ASSUME CalmInv, NEW o \in Orders, NEW u \in Users, <<o, u>> \in taking,
           offer[<<o, u>>] \in Open
    PROVE  /\ o \notin sweep.due
           /\ \A t \in Tasks : t[2] = o => task[t].pc \notin Engaged
<1>1. <<o, u>> \in delivered /\ offer[<<o, u>>] = "offered"
    BY DEF CalmInv, CalmTakes, Open
<1>2. o \notin sweep.due
    BY <1>1 DEF CalmInv, CalmSweep
<1>3. ASSUME NEW t \in Tasks, t[2] = o
      PROVE  task[t].pc \notin Engaged
  <2>1. CalmTask(t)
      BY DEF CalmInv, CalmTasks
  <2>2. ~Closed(t[2])
      BY <1>3 DEF Closed
  <2> QED
      BY <1>1, <1>3, <2>1, <2>2 DEF CalmTask, Engaged
<1> QED
    BY <1>2, <1>3

LEMMA CommitTakeCalm ==
    ASSUME Calm, TypeOK, CalmInv, Bot, NEW o \in Orders, NEW u \in Users, CommitTake(o, u)
    PROVE  CalmInv'
<1> USE DEF fanoutVars
<1>1. /\ UNCHANGED <<ledger, delivered, sweep, task>>
      /\ taking' = taking \ {<<o, u>>} /\ <<o, u>> \in taking
      /\ status' = [status EXCEPT ![o] = "taken"]
      /\ offer[<<o, u>>] \in Open /\ status[o] \in Active
      /\ \A r \in Rows : offer'[r] = IF r = <<o, u>> THEN "taken"
             ELSE IF r[1] = o /\ offer[r] \in Open THEN "expired" ELSE offer[r]
    BY DEF Bot, CommitTake, Takeable
<1>2. \A p \in Orders : p # o => status'[p] = status[p]
    BY <1>1
<1>3. Onlooker
  <2>1. \A r \in taking' : r \in Rows /\ offer'[r] # "stale"
      BY <1>1 DEF CalmInv, CalmTakes, TypeOK, LifecycleTypeOK
  <2> QED
      BY <1>1, <2>1 DEF Onlooker, Open
<1>4. \A t \in Tasks : task[t].pc \in Engaged => status'[t[2]] \in Active
    BY <1>1, <1>2, TakenIsFree DEF CalmInv, CalmTasks, CalmTask, Tasks
<1>5. \A p \in sweep.due : status'[p] \in Active
    BY <1>1, <1>2, TakenIsFree DEF CalmInv, CalmSweep, TypeOK, FanoutTypeOK
<1>6. ASSUME NEW r \in Rows, offer'[r] \in Open
      PROVE  status'[r[1]] \in Active
  <2>1. r[1] # o /\ offer[r] \in Open
      BY <1>1, <1>6 DEF Open
  <2> QED
      BY <1>2, <2>1 DEF CalmInv, OpenIsActive, Rows
<1>7. PaidIsCompleted'
    BY <1>1, <1>2 DEF CalmInv, PaidIsCompleted, Rows, Active
<1> QED
    BY <1>3, <1>4, <1>5, <1>6, <1>7, OnlookerCalm

\* Closing an order in work. It was not paid before; now it may be, to one user.
LEMMA ResolveCalm ==
    ASSUME TypeOK, CalmInv, NEW o \in Orders, NEW u \in Users,
           NEW s \in {"completed", "cancelled", "timed_out"}, Resolve(o, u, s),
           UNCHANGED <<offer, delivered, sweep, task, taking>>,
           \/ UNCHANGED ledger
           \/ s = "completed" /\ ledger' = [ledger EXCEPT ![<<o, u>>] = @ + 1]
    PROVE  CalmInv'
<1>1. status[o] = "taken" /\ status' = [status EXCEPT ![o] = s]
    BY DEF Resolve, InWork
<1>2. status[o] \notin Active /\ status'[o] = s /\ \A p \in Orders : p # o => status'[p] = status[p]
    BY <1>1 DEF Active, TypeOK, TablesTypeOK
<1>3. Onlooker
    BY DEF Onlooker, CalmInv, CalmTakes
<1>4. \A r \in Rows : ledger[r] # 0 => r[1] # o
    BY <1>1 DEF CalmInv, PaidIsCompleted
<1>5. PaidIsCompleted'
  <2>1. CASE UNCHANGED ledger
      BY <1>2, <1>4, <2>1 DEF CalmInv, PaidIsCompleted, Rows
  <2>2. CASE s = "completed" /\ ledger' = [ledger EXCEPT ![<<o, u>>] = @ + 1]
    <3>1. \A r \in Rows : ledger'[r] # 0 => r = <<o, u>> \/ (ledger[r] # 0 /\ r[1] # o)
        BY <1>4, <2>2
    <3>2. \A r \in Rows : ledger'[r] # 0 => status'[r[1]] = "completed"
        BY <1>2, <2>2, <3>1 DEF CalmInv, PaidIsCompleted, Rows
    <3>3. \A r, q \in Rows : ledger'[r] # 0 /\ ledger'[q] # 0 /\ r[1] = q[1] => r = q
        BY <3>1 DEF CalmInv, PaidIsCompleted
    <3> QED
        BY <3>2, <3>3 DEF PaidIsCompleted
  <2> QED
      BY <2>1, <2>2
<1> QED
    BY <1>2, <1>3, <1>5, InactiveCalm

LEMMA BotCalm ==
    ASSUME Calm, TypeOK, CalmInv, Bot
    PROVE  CalmInv'
<1> USE DEF pgVars, redisVars, tableVars, fanoutVars
<1>1. ASSUME UNCHANGED <<status, offer, ledger, delivered>>, taking' \subseteq taking
      PROVE  CalmInv'
  <2>1. Onlooker
      BY <1>1 DEF Bot, Onlooker, CalmInv, CalmTakes
  <2> QED
      BY <1>1, <2>1, BystanderCalm
<1>2. ASSUME NEW o \in Orders, NEW u \in Users, AbortTake(o, u)
      PROVE  CalmInv'
    BY <1>1, <1>2 DEF AbortTake
<1>3. ASSUME NEW o \in Orders, NEW u \in Users, Complete(o, u) \/ Cancel(o, u)
      PROVE  CalmInv'
    BY <1>3, ResolveCalm DEF Bot, Complete, Cancel
<1>4. ASSUME NEW c \in chores, ChoreStep(c) \/ ChoreRaises(c)
      PROVE  CalmInv'
  <2>1. CASE TimeOut(c)
    <3>1. c.order \in Orders /\ c.user \in Users
        BY DEF TypeOK, LifecycleTypeOK, ChoreTypes
    <3>2. CASE Resolve(c.order, c.user, "timed_out")
        BY <2>1, <3>1, <3>2, ResolveCalm DEF Bot, TimeOut
    <3>3. CASE UNCHANGED status
        BY <1>1, <2>1, <3>3 DEF TimeOut
    <3> QED
        BY <2>1, <3>2, <3>3 DEF TimeOut
  <2>2. CASE Settle(c) \/ Arm(c) \/ Vacate(c) \/ Clear(c) \/ ChoreRaises(c)
      BY <1>1, <2>2 DEF Settle, Arm, Vacate, Clear, ChoreRaises
  <2> QED
      BY <1>4, <2>1, <2>2 DEF ChoreStep
<1>5. CASE BotCrash \/ \E o \in Orders : TimerFires(o)
    BY <1>1, <1>5 DEF BotCrash, TimerFires
<1> QED
    BY <1>2, <1>3, <1>4, <1>5, BeginTakeCalm, CommitTakeCalm
    DEF Bot, LifecycleNext, UserStep, EndTake
----------------------------------------------------------------------------
(* The dispatcher.                                                          *)

LEMMA SweepCalm ==
    ASSUME TypeOK, OneSweep, OffersInv, CalmInv, SweepStep, UNCHANGED taking
    PROVE  CalmInv'
<1> USE DEF pgVars, redisVars, tableVars
<1>0. sweep \in [pc : SweepPCs, due : SUBSET Orders, expired : SUBSET Rows, tag : Sweeps]
    BY DEF TypeOK, FanoutTypeOK
<1>1. UNCHANGED <<status, ledger, taking, delivered>> => PaidIsCompleted'
    BY DEF CalmInv, PaidIsCompleted
<1>2. CASE SweepOnWake \/ SweepOnBackstop
  <2>1. UNCHANGED <<status, offer, ledger, delivered, task, taking>> /\ StartSweep
      BY <1>2 DEF SweepOnWake, SweepOnBackstop
  <2>2. CalmSweep'
    <3>1. CASE sweep' = sweep
        BY <2>1, <3>1 DEF CalmInv, CalmSweep
    <3>2. ASSUME NEW D \in SUBSET Orders, Batch(D),
                 sweep' = [sweep EXCEPT !.pc = "expire", !.due = D]
          PROVE  CalmSweep'
      <4>1. sweep'.pc = "expire" /\ sweep'.due = D
          BY <1>0, <3>2
      <4> QED
          BY <2>1, <3>2, <4>1 DEF CalmSweep, Batch, Due
    <3> QED
        BY <2>1, <3>1, <3>2 DEF StartSweep
  <2> QED
      BY <2>1, <2>2 DEF CalmInv, CalmTasks, CalmTask, Closed, CalmTakes, OpenIsActive,
          PaidIsCompleted
<1>3. CASE ExpireLeftovers
  <2>1. /\ UNCHANGED <<status, ledger, delivered, task, taking>>
        /\ sweep'.due = sweep.due /\ sweep'.pc \in {"snapshot", "release"}
        /\ sweep.pc = "expire"
        /\ \A r \in Rows : offer'[r] = offer[r] \/ offer'[r] = "expired"
      BY <1>0, <1>3 DEF ExpireLeftovers, ExpireOffers
  <2>2. CalmTasks'
    <3>1. \A t \in Tasks : task'[t].pc = "none"
        BY <2>1, NobodyAlive
    <3> QED
        BY <3>1 DEF CalmTasks, CalmTask, Engaged, Offering
  <2>3. CalmSweep'
    <3>1. \A o \in sweep.due, u \in Users : <<o, u>> \in Rows
        BY <1>0 DEF Rows
    <3> QED
        BY <2>1, <3>1 DEF CalmInv, CalmSweep
  <2>4. CalmTakes' /\ OpenIsActive'
      BY <2>1 DEF CalmInv, CalmTakes, OpenIsActive, Open, TypeOK, LifecycleTypeOK
  <2> QED
      BY <2>1, <2>2, <2>3, <2>4, <1>1 DEF CalmInv
<1>4. CASE ReleaseLeftovers \/ EndSweep
  <2>1. UNCHANGED <<status, offer, ledger, delivered, task, taking>>
      BY <1>4 DEF ReleaseLeftovers, EndSweep
  <2>2. \/ sweep'.due = {}
        \/ sweep'.due = sweep.due /\ sweep'.pc = "snapshot"
    <3>1. CASE ReleaseLeftovers
        BY <1>0, <3>1 DEF ReleaseLeftovers
    <3>2. CASE EndSweep
        BY <3>2 DEF EndSweep, IdleSweep
    <3> QED
        BY <1>4, <3>1, <3>2
  <2> QED
      BY <2>1, <2>2 DEF CalmInv, CalmTasks, CalmTask, Closed, CalmSweep, CalmTakes,
          OpenIsActive, PaidIsCompleted
<1>5. CASE StartTasks
  <2>1. /\ UNCHANGED <<status, offer, ledger, delivered, taking>>
        /\ sweep.pc = "snapshot" /\ sweep'.due = {}
        /\ \A t \in Tasks :
               (task'[t].pc = "select" /\ t[2] \in sweep.due) \/ task'[t] = task[t]
      BY <1>0, <1>5 DEF StartTasks
  <2>2. \A o \in sweep.due : Closed(o)' /\ status'[o] \in Active
      BY <2>1 DEF OffersInv, ClearSweep, Withdrawn, CalmInv, CalmSweep, Closed
  <2>3. ASSUME NEW t \in Tasks
        PROVE  CalmTask(t)'
    <3>1. task[t].pc = "none"
        BY <2>1, NobodyAlive
    <3>2. task'[t].pc = "none" \/ (task'[t].pc = "select" /\ t[2] \in sweep.due)
        BY <2>1, <3>1
    <3> QED
        BY <2>2, <3>2 DEF CalmTask, Engaged, Offering
  <2> QED
      BY <2>1, <2>3 DEF CalmInv, CalmTasks, CalmSweep, CalmTakes, OpenIsActive, PaidIsCompleted
<1> QED
    BY <1>2, <1>3, <1>4, <1>5 DEF SweepStep

\* A task that moves alone and touches only its own order.
LEMMA OneTaskCalm ==
    ASSUME TypeOK, OneSweep, CalmInv, NEW t \in Tasks, task[t].pc # "none",
           UNCHANGED <<sweep, taking, ledger>>,
           \A x \in Tasks : x # t => task'[x] = task[x],
           \A r \in Rows : r[1] # t[2] => offer'[r] = offer[r],
           \A r \in Rows : r[1] # t[2] => (r \in delivered' <=> r \in delivered),
           delivered \subseteq delivered',
           \A o \in Orders : o # t[2] => status'[o] = status[o],
           CalmTask(t)',
           \A r \in taking : offer'[r] # "stale",
           \A u \in Users : offer'[<<t[2], u>>] \in Open => status'[t[2]] \in Active,
           \A u \in Users : ledger[<<t[2], u>>] # 0 => status'[t[2]] = "completed"
    PROVE  CalmInv'
<1>1. ASSUME NEW x \in Tasks, x # t
      PROVE  CalmTask(x)'
  <2>1. CASE task[x].pc = "none"
      BY <1>1, <2>1 DEF CalmTask, Engaged, Offering
  <2>2. CASE task[x].pc # "none"
    <3>1. x[2] # t[2] /\ x[2] \in Orders
        BY <1>1, <2>2, TasksApart DEF Tasks
    <3>2. \A u \in Users : <<x[2], u>> \in Rows
        BY <3>1 DEF Rows
    <3> QED
        BY <1>1, <3>1, <3>2 DEF CalmInv, CalmTasks, CalmTask, Closed
  <2> QED
      BY <2>1, <2>2
<1>2. CalmTasks'
    BY <1>1 DEF CalmTasks
<1>3. CalmSweep'
    BY DEF CalmInv, CalmSweep, OneSweep
<1>4. CalmTakes'
    BY DEF CalmInv, CalmTakes
<1>5. OpenIsActive'
    BY DEF CalmInv, OpenIsActive, Rows
<1>6. PaidIsCompleted'
    BY DEF CalmInv, PaidIsCompleted, Rows
<1> QED
    BY <1>2, <1>3, <1>4, <1>5, <1>6 DEF CalmInv

LEMMA TaskCalm ==
    ASSUME TypeOK, AskingInv, OffersInv, CalmInv, NEW t \in Tasks, TaskStep(t),
           UNCHANGED taking
    PROVE  CalmInv'
<1> USE DEF pgVars, redisVars, tableVars
<1>0. /\ t[2] \in Orders
      /\ task \in [Tasks -> TaskStates]
      /\ offer \in [Rows -> OfferStatuses]
      /\ status \in [Orders -> Statuses]
      /\ OneSweep /\ CalmTask(t) /\ InformedTask(t)
      /\ \A u \in Users : <<t[2], u>> \in Rows
      /\ \A r \in taking : r \in Rows
    BY DEF Tasks, TypeOK, FanoutTypeOK, TablesTypeOK, LifecycleTypeOK, AskingInv, Informed,
        CalmInv, CalmTasks, Rows
<1>1. /\ UNCHANGED <<ledger, sweep>>
      /\ task[t].pc # "none"
      /\ \A x \in Tasks : x # t => task'[x] = task[x]
      /\ delivered' = delivered \/ delivered' = delivered \cup {Row(t)}
    BY <1>0 DEF TaskStep, Select, MarkNoTakers, Reserve, RecordOffer, SendOffer, SendFails,
        ExpireOne, ReleaseOne, ScheduleDeadline, MarkOffering, Goto, Finish
<1>2. \A r \in Rows : r[1] # t[2] => (r \in delivered' <=> r \in delivered)
    BY <1>1 DEF Row
<1>3. \A u \in Users : offer[<<t[2], u>>] \in Open => status[t[2]] \in Active
    BY <1>0 DEF CalmInv, OpenIsActive
<1>4. \A u \in Users : ledger[<<t[2], u>>] # 0 => status[t[2]] = "completed"
    BY <1>0 DEF CalmInv, PaidIsCompleted
<1>5. \A r \in taking : offer[r] # "stale" /\ r \in delivered
    BY DEF CalmInv, CalmTakes
<1>6. ASSUME UNCHANGED <<status, offer>>, CalmTask(t)'
      PROVE  CalmInv'
    BY <1>0, <1>1, <1>2, <1>3, <1>4, <1>5, <1>6, OneTaskCalm
<1>7. ASSUME status[t[2]] \in Active, NEW s \in Statuses, status' = [status EXCEPT ![t[2]] = s],
             UNCHANGED offer, task' = [task EXCEPT ![t] = NoTask],
             Closed(t[2]) \/ s \in Active
      PROVE  CalmInv'
  <2>1. CalmTask(t)'
      BY <1>0, <1>7 DEF CalmTask, NoTask, Engaged, Offering
  <2>2. \A u \in Users : offer'[<<t[2], u>>] \in Open => status'[t[2]] \in Active
      BY <1>0, <1>7 DEF Closed
  <2>3. \A u \in Users : ledger[<<t[2], u>>] = 0
      BY <1>0, <1>4, <1>7 DEF Active, TypeOK, TablesTypeOK
  <2>4. \A o \in Orders : o # t[2] => status'[o] = status[o]
      BY <1>0, <1>7
  <2> QED
      BY <1>0, <1>1, <1>2, <1>5, <1>7, <2>1, <2>2, <2>3, <2>4, OneTaskCalm
<1>8. CASE Select(t) \/ Reserve(t)
  <2>1. UNCHANGED <<status, offer>> /\ task[t].pc \in Offering
      BY <1>8 DEF Select, Reserve, Offering
  <2>2. task'[t].pc \in {"noTakers", "reserve", "record", "none"}
      BY <1>0, <1>8 DEF Select, Reserve, Finish, NoTask, TaskStates
  <2>3. CalmTask(t)'
      BY <1>0, <2>1, <2>2 DEF CalmTask, Closed, Engaged, Offering
  <2> QED
      BY <1>6, <2>1, <2>3
<1>9. CASE MarkNoTakers(t)
  <2>1. status[t[2]] \in Active /\ Closed(t[2])
      BY <1>0, <1>9 DEF MarkNoTakers, CalmTask, Engaged
  <2> QED
      BY <1>7, <1>9, <2>1 DEF MarkNoTakers, Overwrite, Finish, Statuses
<1>10. CASE MarkOffering(t)
  <2>1. status[t[2]] \in Active
      BY <1>0, <1>10 DEF MarkOffering, CalmTask, Engaged
  <2> QED
      BY <1>7, <1>10, <2>1 DEF MarkOffering, Overwrite, Finish, Statuses, Active
<1>11. CASE RecordOffer(t)
  <2>1. /\ UNCHANGED <<status, delivered>> /\ task[t].pc = "record"
        /\ task' = [task EXCEPT ![t].pc = "send"]
        /\ offer' = [offer EXCEPT ![Row(t)] = IF @ = "none" THEN "offered" ELSE @]
      BY <1>11 DEF RecordOffer, Goto
  <2>2. task[t].user \in Users /\ Row(t) = <<t[2], task[t].user>> /\ Row(t) \in Rows
      BY <1>0, <2>1, OfferingTask DEF OfferPCs, Row
  <2>3. Row(t) \notin delivered
      BY <1>0, <2>1, <2>2 DEF InformedTask, Unoffered, AskingInv, Recorded
  <2>4. status[t[2]] \in Active /\ Closed(t[2])
      BY <1>0, <2>1 DEF CalmTask, Engaged, Offering
  <2>5. \A r \in Rows : r # Row(t) => offer'[r] = offer[r]
      BY <1>0, <2>1
  <2>6. \A u \in Users : offer'[<<t[2], u>>] \in Open => <<t[2], u>> = Row(t)
      BY <1>0, <2>4, <2>5 DEF Closed
  <2>7. CalmTask(t)'
    <3>1. task'[t].pc = "send"
        BY <1>0, <2>1 DEF TaskStates
    <3> QED
        BY <2>1, <2>3, <2>4, <2>6, <3>1 DEF CalmTask, Engaged, Offering
  <2>8. \A r \in taking : offer'[r] # "stale"
      BY <1>0, <1>5, <2>3, <2>5
  <2>9. \A r \in Rows : r[1] # t[2] => offer'[r] = offer[r]
      BY <2>2, <2>5
  <2> QED
      BY <1>0, <1>1, <1>2, <1>4, <2>1, <2>4, <2>7, <2>8, <2>9, OneTaskCalm
<1>12. CASE SendOffer(t)
  <2>1. UNCHANGED <<status, offer>> /\ task[t].pc = "send" /\ task' = [task EXCEPT ![t].pc = "schedule"]
      BY <1>12 DEF SendOffer, Goto
  <2>2. task'[t].pc = "schedule"
      BY <1>0, <2>1 DEF TaskStates
  <2>3. \A u \in Users : offer[<<t[2], u>>] \in Open => <<t[2], u>> \notin taking
      BY <1>0, <1>5, <2>1 DEF CalmTask
  <2>4. CalmTask(t)'
      BY <1>0, <2>1, <2>2, <2>3 DEF CalmTask, Engaged, Offering
  <2> QED
      BY <1>6, <2>1, <2>4
<1>13. CASE SendFails(t) \/ ReleaseOne(t)
  <2>1. UNCHANGED <<status, offer>>
      BY <1>13 DEF SendFails, ReleaseOne
  <2>2. task'[t].pc \in {"expireOne", "none"}
      BY <1>0, <1>13 DEF SendFails, ReleaseOne, Goto, Finish, NoTask, TaskStates
  <2>3. CalmTask(t)'
      BY <2>2 DEF CalmTask, Engaged, Offering
  <2> QED
      BY <1>6, <2>1, <2>3
<1>14. CASE ScheduleDeadline(t)
  <2>1. UNCHANGED <<status, offer>> /\ task[t].pc = "schedule" /\ task' = [task EXCEPT ![t].pc = "mark"]
      BY <1>14 DEF ScheduleDeadline, Goto
  <2>2. task'[t].pc = "mark"
      BY <1>0, <2>1 DEF TaskStates
  <2>3. CalmTask(t)'
      BY <1>0, <2>1, <2>2 DEF CalmTask, Engaged, Offering
  <2> QED
      BY <1>6, <2>1, <2>3
<1>15. CASE ExpireOne(t)
  <2>1. /\ UNCHANGED <<status, delivered>> /\ task' = [task EXCEPT ![t].pc = "releaseOne"]
        /\ offer' = [r \in Rows |-> IF r \in {Row(t)} /\ offer[r] \in Open
                                    THEN "expired" ELSE offer[r]]
      BY <1>15 DEF ExpireOne, Goto, ExpireOffers
  <2>2. \A r \in Rows : r[1] # t[2] => offer'[r] = offer[r]
      BY <2>1 DEF Row
  <2>3. CalmTask(t)'
      BY <1>0, <2>1 DEF CalmTask, Engaged, Offering, TaskStates
  <2>4. \A r \in taking : offer'[r] # "stale"
      BY <1>0, <1>5, <2>1
  <2>5. \A u \in Users : offer'[<<t[2], u>>] \in Open => status'[t[2]] \in Active
      BY <1>0, <1>3, <2>1 DEF Open
  <2> QED
      BY <1>0, <1>1, <1>2, <1>4, <2>1, <2>2, <2>3, <2>4, <2>5, OneTaskCalm
<1> QED
    BY <1>8, <1>9, <1>10, <1>11, <1>12, <1>13, <1>14, <1>15 DEF TaskStep

LEMMA DispatcherCalm ==
    ASSUME Calm, TypeOK, AskingInv, OffersInv, CalmInv, Dispatcher
    PROVE  CalmInv'
<1>1. UNCHANGED taking
    BY DEF Dispatcher, lifecycleVars
<1>2. CASE DispatcherCrash
  <2>1. UNCHANGED <<status, offer, ledger, delivered>> /\ sweep'.due = {}
        /\ \A t \in Tasks : task'[t].pc = "none"
      BY <1>2 DEF DispatcherCrash, IdleSweep, NoTask, pgVars
  <2> QED
      BY <1>1, <2>1 DEF CalmInv, CalmTasks, CalmTask, Engaged, Offering, CalmSweep, CalmTakes,
          OpenIsActive, PaidIsCompleted
<1> QED
    BY <1>1, <1>2, SweepCalm, TaskCalm
    DEF Dispatcher, FanoutNext, FanoutFault, SweepRaises, TaskRaises, Calm, AskingInv

LEMMA CalmInductive ==
    ASSUME Calm, TypeOK, AskingInv, OffersInv, CalmInv, [Next]_vars
    PROVE  CalmInv'
<1>1. CASE UNCHANGED vars
    BY <1>1 DEF vars, tableVars, pgVars, fanoutVars, lifecycleVars, CalmInv, CalmTasks, CalmTask,
        Closed, CalmSweep, CalmTakes, OpenIsActive, PaidIsCompleted
<1> QED
    BY <1>1, DispatcherCalm, ExpirerCalm, BotCalm, ApiCalm, TimeCalm DEF Next

LEMMA AlwaysCalm ==
    ASSUME Calm
    PROVE  Spec => [](TypeOK /\ AskingInv /\ OffersInv /\ CalmInv)
<1>0. "taskError" \notin Env
    BY DEF Calm
<1>1. Init => OffersInv /\ CalmInv
    BY DEF Init, TablesInit, FanoutInit, LifecycleInit, NoTask, IdleSweep, OffersInv,
        AtMostOneOpen, ClearTasks, ClearSweep, Offering, Withdrawn, Open, Rows, CalmInv, CalmTasks,
        CalmTask, Engaged, CalmSweep, CalmTakes, OpenIsActive, PaidIsCompleted
<1>2. TypeOK /\ AskingInv /\ OffersInv /\ [Next]_vars => OffersInv'
    BY <1>0, OffersInductive DEF AskingInv
<1>3. TypeOK /\ AskingInv /\ OffersInv /\ CalmInv /\ [Next]_vars => CalmInv'
    BY CalmInductive
<1>4. Spec => []AskingInv
    BY <1>0, AlwaysAsking
<1> QED
    BY <1>1, <1>2, <1>3, <1>4, TypeCorrect, PTL DEF Spec
=============================================================================

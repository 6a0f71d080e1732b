------------------------- MODULE OrderMarketOffers --------------------------
(***************************************************************************)
(* Nobody is sent the same order twice, and an order is open to one user   *)
(* at a time, for any number of orders and users and any environment in    *)
(* which the statements of the dispatcher do not fail: a task that raises  *)
(* lets two sweeps overlap, and two tasks of an order may then ask the     *)
(* same user.                                                              *)
(*                                                                         *)
(* One sweep at a time has tasks, so one task at a time works on an order; *)
(* what it read of the order's offers when it was started stays true until *)
(* it records the next one itself. Everyone else leaves the set of users   *)
(* an order was offered to alone, and sends no offers. And the sweep       *)
(* withdraws what is left of an order's offers before it starts the task   *)
(* that may record the next one.                                           *)
(***************************************************************************)
EXTENDS OrderMarketSafety

\* Tasks are alive only inside the gather of the sweep that started them.
OneSweep ==
    \A t \in Tasks : task[t].pc # "none" => sweep.pc = "gather" /\ sweep.tag = t[1]

Unoffered(o, u) == offer[<<o, u>>] = "none"

\* A task still goes by the truth: those it does not exclude, those it has left to try
\* and the one it is about to record were never offered the order.
InformedTask(t) ==
    /\ task[t].pc = "select" => \A u \in Users \ task[t].users : Unoffered(t[2], u)
    /\ task[t].pc = "reserve" => \A u \in task[t].users : Unoffered(t[2], u)
    /\ task[t].pc = "record" => Unoffered(t[2], task[t].user)
    /\ task[t].pc = "send" => Row(t) \notin delivered /\ ~Unoffered(t[2], task[t].user)

Informed == \A t \in Tasks : InformedTask(t)

\* A message is on a screen only if its offer was recorded.
Recorded == \A r \in delivered : offer[r] # "none"

AskingInv == OneSweep /\ Informed /\ Recorded

\* Neither the tasks nor the sweep move, no order is offered and no message sent.
Bystander ==
    /\ UNCHANGED <<sweep, task, delivered>>
    /\ \A r \in Rows : offer'[r] = "none" <=> offer[r] = "none"
----------------------------------------------------------------------------
(* The tasks of the dispatcher.                                             *)

\* Two live tasks never work on the same order.
LEMMA TasksApart ==
    ASSUME OneSweep, NEW t \in Tasks, NEW x \in Tasks, x # t,
           task[t].pc # "none", task[x].pc # "none"
    PROVE  x[2] # t[2]
<1>1. x[1] = t[1]
    BY DEF OneSweep
<1> QED
    BY <1>1 DEF Tasks

\* A task that moves alone and touches only its own order keeps the others informed.
LEMMA OneTaskMoves ==
    ASSUME TypeOK, AskingInv, NEW t \in Tasks, task[t].pc # "none",
           UNCHANGED sweep,
           \A x \in Tasks : x # t => task'[x] = task[x],
           \A r \in Rows : r[1] # t[2] => (offer'[r] = "none" <=> offer[r] = "none"),
           \A r \in Rows : r[1] # t[2] => (r \in delivered' <=> r \in delivered),
           InformedTask(t)',
           Recorded'
    PROVE  AskingInv'
<1>1. OneSweep'
    BY DEF OneSweep, AskingInv
<1>2. Informed'
  <2> SUFFICES ASSUME NEW x \in Tasks, x # t PROVE InformedTask(x)'
      BY DEF Informed
  <2>1. CASE task[x].pc = "none"
      BY <2>1 DEF InformedTask
  <2>2. CASE task[x].pc # "none"
    <3>1. x[2] # t[2] /\ x[2] \in Orders
        BY <2>2, TasksApart DEF AskingInv, Tasks
    <3>2. \A u \in Users : <<x[2], u>> \in Rows /\ Unoffered(x[2], u)' = Unoffered(x[2], u)
        BY <3>1 DEF Rows, Unoffered
    <3>3. InformedTask(x)
        BY DEF AskingInv, Informed
    <3>4. task[x].users \subseteq Users
        BY DEF TypeOK, FanoutTypeOK, TaskStates
    <3>5. task[x].pc \in {"record", "send"} => task[x].user \in Users
      <4> SUFFICES ASSUME task[x].pc \in {"record", "send"} PROVE task[x].user \in Users
          OBVIOUS
      <4>1. task[x].pc \in OfferPCs
          BY DEF OfferPCs
      <4>2. task \in [Tasks -> TaskStates]
          BY DEF TypeOK, FanoutTypeOK
      <4>3. task[x] \in [pc : OfferPCs, users : {{}}, user : Users]
          BY <4>1, <4>2, OfferingTask
      <4> QED
          BY <4>3
    <3>6. Row(x)' = Row(x) /\ Row(x) = <<x[2], task[x].user>>
        BY DEF Row
    <3>7. task'[x] = task[x]
        OBVIOUS
    <3>8. task'[x].pc = "select" => \A u \in Users \ task'[x].users : Unoffered(x[2], u)'
        BY <3>2, <3>3, <3>7 DEF InformedTask
    <3>9. task'[x].pc = "reserve" => \A u \in task'[x].users : Unoffered(x[2], u)'
        BY <3>2, <3>3, <3>4, <3>7 DEF InformedTask
    <3>10. task'[x].pc = "record" => Unoffered(x[2], task[x].user)'
      <4> SUFFICES ASSUME task[x].pc = "record" PROVE Unoffered(x[2], task[x].user)'
          BY <3>7
      <4>1. task[x].user \in Users
          BY <3>5
      <4>2. Unoffered(x[2], task[x].user)
          BY <3>3 DEF InformedTask
      <4> QED
          BY <3>2, <3>7, <4>1, <4>2
    <3>11. ASSUME task'[x].pc = "send"
           PROVE  Row(x)' \notin delivered' /\ ~Unoffered(x[2], task[x].user)'
      <4>1. task[x].pc = "send" /\ task[x].user \in Users
          BY <3>5, <3>7, <3>11
      <4>2. Row(x) \notin delivered /\ ~Unoffered(x[2], task[x].user)
          BY <3>3, <4>1 DEF InformedTask
      <4>3. Row(x) \in Rows /\ Row(x)[1] # t[2]
          BY <3>1, <3>2, <3>6, <4>1
      <4>4. Row(x)' \notin delivered'
          BY <3>6, <4>2, <4>3
      <4> QED
          BY <3>2, <3>7, <4>1, <4>2, <4>4
    <3> QED
        BY <3>7, <3>8, <3>9, <3>10, <3>11 DEF InformedTask
  <2> QED
      BY <2>1, <2>2
<1> QED
    BY <1>1, <1>2 DEF AskingInv

LEMMA TaskAsking ==
    ASSUME TypeOK, AskingInv, NEW t \in Tasks, TaskStep(t)
    PROVE  AskingInv'
<1> USE DEF pgVars, redisVars, tableVars
<1>0. /\ t[2] \in Orders
      /\ task \in [Tasks -> TaskStates]
      /\ offer \in [Rows -> OfferStatuses]
      /\ InformedTask(t) /\ Recorded
      /\ \A u \in Users : <<t[2], u>> \in Rows
    BY DEF Tasks, TypeOK, FanoutTypeOK, TablesTypeOK, AskingInv, Informed, Rows
<1>1. ASSUME task[t].pc \in OfferPCs
      PROVE  task[t].user \in Users /\ Row(t) \in Rows
    BY <1>0, <1>1, OfferingTask
<1>2. CASE Select(t)
  <2>1. PICK candidates \in SUBSET (Users \ task[t].users) :
            task' = [task EXCEPT ![t] =
                        [pc |-> IF candidates = {} THEN "noTakers" ELSE "reserve",
                         users |-> candidates, user |-> NoUser]]
      BY <1>2 DEF Select
  <2>2. UNCHANGED <<offer, delivered, sweep>> /\ task[t].pc = "select"
      BY <1>2 DEF Select
  <2>3. InformedTask(t)'
      BY <1>0, <2>1, <2>2 DEF InformedTask, Unoffered
  <2> QED
      BY <1>0, <2>1, <2>2, <2>3, OneTaskMoves DEF Recorded
<1>3. CASE Reserve(t)
  <2>1. UNCHANGED <<offer, delivered, sweep>> /\ task[t].pc = "reserve"
      BY <1>3 DEF Reserve
  <2>2. PICK u \in task[t].users :
            \/ task' = [task EXCEPT ![t] = [pc |-> "record", users |-> {}, user |-> u]]
            \/ task' = [task EXCEPT ![t] = NoTask]
            \/ task' = [task EXCEPT ![t].users = @ \ {u}]
      BY <1>3 DEF Reserve, Finish
  <2>3. InformedTask(t)'
    <3>1. \A v \in task[t].users : Unoffered(t[2], v)' /\ v \in Users
        BY <1>0, <2>1 DEF InformedTask, Unoffered, TaskStates
    <3>2. \/ task'[t].pc = "record" /\ task'[t].user = u
          \/ task'[t].pc = "none"
          \/ task'[t].pc = "reserve" /\ task'[t].users = task[t].users \ {u}
        BY <1>0, <2>1, <2>2 DEF TaskStates, NoTask
    <3> QED
        BY <3>1, <3>2 DEF InformedTask
  <2> QED
      BY <1>0, <2>1, <2>2, <2>3, OneTaskMoves DEF Recorded
<1>4. CASE RecordOffer(t)
  <2>1. /\ UNCHANGED <<delivered, sweep>> /\ task[t].pc = "record"
        /\ task' = [task EXCEPT ![t].pc = "send"]
        /\ offer' = [offer EXCEPT ![Row(t)] = IF @ = "none" THEN "offered" ELSE @]
      BY <1>4 DEF RecordOffer, Goto
  <2>2. task[t].user \in Users /\ Row(t) \in Rows /\ Row(t) = <<t[2], task[t].user>>
      BY <1>1, <2>1 DEF OfferPCs, Row
  <2>3. Row(t) \notin delivered
      BY <1>0, <2>1, <2>2 DEF InformedTask, Unoffered, Recorded
  <2>4. Row(t)' = Row(t)
      BY <1>0, <2>1 DEF Row
  <2>5. offer'[Row(t)] # "none"
      BY <1>0, <2>1, <2>2
  <2>6. task'[t].pc = "send" /\ task'[t].user = task[t].user
      BY <1>0, <2>1, <2>2 DEF TaskStates
  <2>7. InformedTask(t)'
      BY <2>1, <2>2, <2>3, <2>4, <2>5, <2>6 DEF InformedTask, Unoffered
  <2>8. Recorded'
      BY <1>0, <2>1, <2>2 DEF Recorded, TypeOK, TablesTypeOK
  <2> QED
      BY <1>0, <2>1, <2>2, <2>7, <2>8, OneTaskMoves
<1>5. CASE SendOffer(t) \/ SendFails(t)
  <2>1. /\ UNCHANGED <<offer, sweep>> /\ task[t].pc = "send"
        /\ delivered' = delivered \/ delivered' = delivered \cup {Row(t)}
        /\ \E pc \in {"schedule", "expireOne"} : task' = [task EXCEPT ![t].pc = pc]
      BY <1>5 DEF SendOffer, SendFails, Goto
  <2>2. Row(t) = <<t[2], task[t].user>>
      BY DEF Row
  <2>3. offer[Row(t)] # "none"
      BY <1>0, <2>1, <2>2 DEF InformedTask, Unoffered
  <2>4. task'[t].pc \in {"schedule", "expireOne"}
      BY <1>0, <2>1 DEF TaskStates
  <2>5. InformedTask(t)' /\ Recorded'
      BY <1>0, <2>1, <2>3, <2>4 DEF InformedTask, Recorded
  <2> QED
      BY <1>0, <2>1, <2>2, <2>5, OneTaskMoves
<1>6. CASE ExpireOne(t)
  <2>1. /\ UNCHANGED <<delivered, sweep>> /\ task[t].pc = "expireOne"
        /\ task' = [task EXCEPT ![t].pc = "releaseOne"]
        /\ \A r \in Rows : offer'[r] = "none" <=> offer[r] = "none"
      BY <1>6 DEF ExpireOne, Goto, ExpireOffers, Open
  <2>2. task'[t].pc = "releaseOne"
      BY <1>0, <2>1 DEF TaskStates
  <2>3. InformedTask(t)' /\ Recorded'
      BY <1>0, <2>1, <2>2 DEF InformedTask, Recorded, TypeOK, TablesTypeOK
  <2> QED
      BY <1>0, <2>1, <2>3, OneTaskMoves
<1>7. CASE MarkNoTakers(t) \/ ReleaseOne(t) \/ ScheduleDeadline(t) \/ MarkOffering(t)
  <2>1. /\ UNCHANGED <<offer, delivered, sweep>> /\ task[t].pc # "none"
        /\ task' = [task EXCEPT ![t] = NoTask] \/ task' = [task EXCEPT ![t].pc = "mark"]
      BY <1>7 DEF MarkNoTakers, ReleaseOne, ScheduleDeadline, MarkOffering, Goto, Finish
  <2>2. task'[t].pc \in {"none", "mark"}
      BY <1>0, <2>1 DEF TaskStates, NoTask
  <2>3. InformedTask(t)' /\ Recorded'
      BY <1>0, <2>1, <2>2 DEF InformedTask, Recorded
  <2> QED
      BY <1>0, <2>1, <2>3, OneTaskMoves
<1> QED
    BY <1>2, <1>3, <1>4, <1>5, <1>6, <1>7 DEF TaskStep
----------------------------------------------------------------------------
(* The sweep. A step of it finds no task alive, or leaves the tasks alone.  *)

\* Outside the gather no task is alive.
LEMMA NobodyAlive ==
    ASSUME OneSweep, sweep.pc # "gather", NEW t \in Tasks
    PROVE  task[t].pc = "none"
    BY DEF OneSweep

\* With no task alive before and after, only the messages need a look.
LEMMA NoTasksAsking ==
    ASSUME \A t \in Tasks : task'[t].pc = "none", Recorded'
    PROVE  AskingInv'
    BY DEF AskingInv, OneSweep, Informed, InformedTask

LEMMA SweepAsking ==
    ASSUME TypeOK, AskingInv, SweepStep
    PROVE  AskingInv'
<1> USE DEF pgVars, redisVars, tableVars
<1>0. OneSweep /\ Recorded
    BY DEF AskingInv
<1>1. CASE SweepOnWake \/ SweepOnBackstop \/ ReleaseLeftovers
  <2>1. UNCHANGED <<task, offer, delivered>> /\ sweep.pc # "gather"
      BY <1>1 DEF SweepOnWake, SweepOnBackstop, StartSweep, ReleaseLeftovers
  <2> QED
      BY <1>0, <2>1, NobodyAlive, NoTasksAsking DEF Recorded
<1>2. CASE ExpireLeftovers
  <2>1. UNCHANGED <<task, delivered>> /\ sweep.pc # "gather"
      BY <1>2 DEF ExpireLeftovers
  <2>2. \A r \in Rows : offer'[r] = "none" <=> offer[r] = "none"
      BY <1>2 DEF ExpireLeftovers, ExpireOffers, Open
  <2>3. Recorded'
      BY <1>0, <2>1, <2>2 DEF Recorded, TypeOK, TablesTypeOK
  <2> QED
      BY <1>0, <2>1, <2>3, NobodyAlive, NoTasksAsking
<1>3. CASE StartTasks
  <2>1. PICK s \in Sweeps :
            /\ task' = [t \in Tasks |->
                    IF t[1] = s /\ t[2] \in sweep.due
                    THEN [pc |-> "select", users |-> AlreadyOffered(t[2]), user |-> NoUser]
                    ELSE task[t]]
            /\ sweep' = [sweep EXCEPT !.pc = "gather", !.due = {}, !.tag = s]
      BY <1>3 DEF StartTasks
  <2>2. UNCHANGED <<offer, delivered>> /\ sweep.pc # "gather"
      BY <1>3 DEF StartTasks
  <2>3. sweep'.pc = "gather" /\ sweep'.tag = s
      BY <2>1 DEF TypeOK, FanoutTypeOK
  <2>4. \A t \in Tasks :
            \/ task'[t].pc = "none"
            \/ /\ t[1] = s
               /\ task'[t].pc = "select"
               /\ task'[t].users = AlreadyOffered(t[2])
      BY <1>0, <2>1, <2>2, NobodyAlive
  <2>5. OneSweep'
      BY <2>3, <2>4 DEF OneSweep
  <2>6. Informed'
      BY <2>2, <2>4 DEF Informed, InformedTask, Unoffered, AlreadyOffered
  <2> QED
      BY <1>0, <2>2, <2>5, <2>6 DEF AskingInv, Recorded
<1>4. CASE EndSweep
  <2>1. UNCHANGED <<task, offer, delivered>> /\ Live(sweep.tag) = {}
      BY <1>4 DEF EndSweep
  <2>2. \A t \in Tasks : task[t].pc = "none"
      BY <1>0, <2>1 DEF OneSweep, Live
  <2> QED
      BY <1>0, <2>1, <2>2, NoTasksAsking DEF Recorded
<1> QED
    BY <1>1, <1>2, <1>3, <1>4 DEF SweepStep

LEMMA CrashAsking ==
    ASSUME AskingInv, DispatcherCrash
    PROVE  AskingInv'
<1>1. \A t \in Tasks : task'[t].pc = "none"
    BY DEF DispatcherCrash, NoTask
<1>2. Recorded'
    BY DEF DispatcherCrash, AskingInv, Recorded, pgVars
<1> QED
    BY <1>1, <1>2, NoTasksAsking
----------------------------------------------------------------------------
(* Everybody else.                                                          *)

LEMMA BystanderAsking ==
    ASSUME TypeOK, AskingInv, Bystander
    PROVE  AskingInv'
<1>1. OneSweep'
    BY DEF Bystander, AskingInv, OneSweep
<1>2. Recorded'
    BY DEF Bystander, AskingInv, Recorded, TypeOK, TablesTypeOK
<1>3. Informed'
  <2> SUFFICES ASSUME NEW t \in Tasks PROVE InformedTask(t)'
      BY DEF Informed
  <2>1. \A u \in Users : Unoffered(t[2], u)' = Unoffered(t[2], u)
      BY DEF Bystander, Unoffered, Rows, Tasks
  <2>2. task'[t] = task[t] /\ task[t].users \subseteq Users /\ Row(t)' = Row(t)
      BY DEF Bystander, TypeOK, FanoutTypeOK, TaskStates, Row
  <2>3. task[t].pc \in {"record", "send"} => task[t].user \in Users
    <3> SUFFICES ASSUME task[t].pc \in {"record", "send"} PROVE task[t].user \in Users
        OBVIOUS
    <3>1. task[t].pc \in OfferPCs
        BY DEF OfferPCs
    <3> QED
        BY <3>1, OfferingTask DEF TypeOK, FanoutTypeOK
  <2>4. InformedTask(t)
      BY DEF AskingInv, Informed
  <2> QED
      BY <2>1, <2>2, <2>3, <2>4 DEF InformedTask, Bystander
<1> QED
    BY <1>1, <1>2, <1>3 DEF AskingInv

LEMMA OthersStandBy ==
    ASSUME TypeOK, Expirer \/ Bot \/ Api \/ Time
    PROVE  Bystander
<1> USE DEF pgVars, redisVars, tableVars, fanoutVars, Bystander
<1>1. CASE Expirer
    BY <1>1 DEF Expirer, ExpiryNext, ExpiryStep, ExpireMany, ReleaseLapsed, ClaimLost, LapseLost,
        ClaimDue, ExpireOffers, Open
<1>2. CASE Api
    BY <1>2 DEF Api, IntakeNext, Create, Clean, ReleaseCleaned, ApiCrash, ExpireOffers, Open
<1>3. CASE Time
    BY <1>3 DEF Time, GrowStale, TypeOK, TablesTypeOK
<1>4. CASE Bot
  <2>1. ASSUME NEW o \in Orders, NEW u \in Users, CommitTake(o, u)
        PROVE  Bystander
      BY <1>4, <2>1 DEF Bot, CommitTake, Takeable, Open
  <2>2. ASSUME NEW o \in Orders, NEW u \in Users, UserStep(o, u) \/ AbortTake(o, u)
        PROVE  Bystander
      BY <1>4, <2>2 DEF Bot, UserStep, BeginTake, Complete, Cancel, Resolve, AbortTake
  <2>3. ASSUME NEW c \in chores, ChoreStep(c) \/ ChoreRaises(c)
        PROVE  Bystander
      BY <1>4, <2>3 DEF Bot, ChoreStep, Settle, Arm, TimeOut, Vacate, Clear, ChoreRaises, Resolve
  <2>4. ASSUME BotCrash \/ \E o \in Orders : TimerFires(o)
        PROVE  Bystander
      BY <1>4, <2>4 DEF Bot, BotCrash, TimerFires
  <2> QED
      BY <1>4, <2>1, <2>2, <2>3, <2>4 DEF Bot, LifecycleNext, EndTake
<1> QED
    BY <1>1, <1>2, <1>3, <1>4
----------------------------------------------------------------------------
LEMMA AskingInductive ==
    ASSUME "taskError" \notin Env, TypeOK, AskingInv, [Next]_vars
    PROVE  AskingInv'
<1>1. CASE Dispatcher
    BY <1>1, SweepAsking, TaskAsking, CrashAsking
    DEF Dispatcher, FanoutNext, FanoutFault, SweepRaises, TaskRaises
<1>2. CASE UNCHANGED vars
    BY <1>2, BystanderAsking DEF vars, Bystander, tableVars, pgVars, fanoutVars
<1> QED
    BY <1>1, <1>2, OthersStandBy, BystanderAsking DEF Next

LEMMA AlwaysAsking ==
    ASSUME "taskError" \notin Env
    PROVE  Spec => []AskingInv
<1>1. Init => AskingInv
    BY DEF Init, TablesInit, FanoutInit, NoTask, AskingInv, OneSweep, Informed, InformedTask,
        Recorded
<1>2. TypeOK /\ AskingInv /\ [Next]_vars => AskingInv'
    BY AskingInductive
<1> QED
    BY <1>1, <1>2, TypeCorrect, PTL DEF Spec

\* Nobody is sent the same order twice: a message leaves only for a user on whose screen
\* the order is not. Restarts of every process, lost wakes and batches, messages that
\* arrive although they failed, early and late takes and cleans make no difference.
THEOREM NobodyAskedTwice ==
    ASSUME "taskError" \notin Env
    PROVE  Spec => AskedOnce
<1>1. TypeOK /\ AskingInv /\ [Next]_vars =>
        [\A t \in Tasks :
            (task[t].pc = "send" /\ task'[t].pc = "schedule") => Row(t) \notin delivered]_vars
    BY DEF AskingInv, Informed, InformedTask
<1> QED
    BY <1>1, TypeCorrect, AlwaysAsking, PTL DEF Spec, AskedOnce
----------------------------------------------------------------------------
(* One offer at a time.                                                     *)

Closed(o) == \A u \in Users : offer[<<o, u>>] \notin Open

\* A task that is still to record an offer finds no other offer open.
Offering == {"select", "reserve", "record"}
ClearTasks == \A t \in Tasks : task[t].pc \in Offering => Closed(t[2])

\* Once the leftovers are expired, none of the due orders is open.
Withdrawn == {"release", "snapshot"}
ClearSweep == sweep.pc \in Withdrawn => \A o \in sweep.due : Closed(o)

AtMostOneOpen ==
    \A o \in Orders : \A u, v \in Users :
        offer[<<o, u>>] \in Open /\ offer[<<o, v>>] \in Open => u = v

OffersInv == AtMostOneOpen /\ ClearTasks /\ ClearSweep

\* No offer is opened, no task is put back and the sweep keeps its orders.
NothingOpened ==
    /\ \A r \in Rows : offer'[r] \in Open => offer[r] \in Open
    /\ \A t \in Tasks : task'[t].pc \in Offering => task[t].pc \in Offering
    /\ sweep'.pc \in Withdrawn => sweep.pc \in Withdrawn /\ sweep'.due = sweep.due
----------------------------------------------------------------------------
LEMMA NothingOpenedKeeps ==
    ASSUME TypeOK, OffersInv, NothingOpened
    PROVE  OffersInv'
<1>1. \A o \in Orders : Closed(o) => Closed(o)'
    BY DEF Closed, NothingOpened, Rows
<1>2. AtMostOneOpen'
    BY DEF OffersInv, AtMostOneOpen, NothingOpened, Rows
<1>3. ClearTasks'
    BY <1>1 DEF OffersInv, ClearTasks, NothingOpened, Tasks
<1>4. ClearSweep'
    BY <1>1 DEF OffersInv, ClearSweep, NothingOpened, TypeOK, FanoutTypeOK
<1> QED
    BY <1>2, <1>3, <1>4 DEF OffersInv

\* Of the others' steps only the passing of time touches an open offer without closing it.
LEMMA OthersOpenNothing ==
    ASSUME TypeOK, Expirer \/ Bot \/ Api \/ Time
    PROVE  NothingOpened
<1> USE DEF pgVars, redisVars, tableVars, fanoutVars, NothingOpened, Open
<1>1. CASE Expirer
    BY <1>1 DEF Expirer, ExpiryNext, ExpiryStep, ExpireMany, ReleaseLapsed, ClaimLost, LapseLost,
        ClaimDue, ExpireOffers
<1>2. CASE Api
    BY <1>2 DEF Api, IntakeNext, Create, Clean, ReleaseCleaned, ApiCrash, ExpireOffers
<1>3. CASE Time
    BY <1>3 DEF Time, GrowStale, TypeOK, TablesTypeOK
<1>4. CASE Bot
  <2>1. ASSUME NEW o \in Orders, NEW u \in Users, CommitTake(o, u)
        PROVE  NothingOpened
      BY <1>4, <2>1 DEF Bot, CommitTake
  <2>2. ASSUME NEW o \in Orders, NEW u \in Users, UserStep(o, u) \/ AbortTake(o, u)
        PROVE  NothingOpened
      BY <1>4, <2>2 DEF Bot, UserStep, BeginTake, Complete, Cancel, AbortTake
  <2>3. ASSUME NEW c \in chores, ChoreStep(c) \/ ChoreRaises(c)
        PROVE  NothingOpened
      BY <1>4, <2>3 DEF Bot, ChoreStep, Settle, Arm, TimeOut, Vacate, Clear, ChoreRaises
  <2>4. ASSUME BotCrash \/ \E o \in Orders : TimerFires(o)
        PROVE  NothingOpened
      BY <1>4, <2>4 DEF Bot, BotCrash, TimerFires
  <2> QED
      BY <1>4, <2>1, <2>2, <2>3, <2>4 DEF Bot, LifecycleNext, EndTake
<1> QED
    BY <1>1, <1>2, <1>3, <1>4

LEMMA SweepOffers ==
    ASSUME TypeOK, OneSweep, OffersInv, SweepStep
    PROVE  OffersInv'
<1> USE DEF pgVars, redisVars, tableVars
<1>0. sweep \in [pc : SweepPCs, due : SUBSET Orders, expired : SUBSET Rows, tag : Sweeps]
    BY DEF TypeOK, FanoutTypeOK
<1>1. CASE ExpireLeftovers
  <2>1. /\ sweep'.due = sweep.due
        /\ offer' = [r \in Rows |-> IF r \in OpenRows(sweep.due) /\ offer[r] \in Open
                                    THEN "expired" ELSE offer[r]]
        /\ task' = task
      BY <1>0, <1>1 DEF ExpireLeftovers, ExpireOffers
  <2>2. \A o \in sweep.due : Closed(o)'
      BY <1>0, <2>1 DEF Closed, OpenRows, Open, Rows
  <2>3. AtMostOneOpen' /\ ClearTasks'
    <3>1. \A o \in Orders : Closed(o) => Closed(o)'
        BY <2>1 DEF Closed, Rows, Open
    <3>2. \A r \in Rows : offer'[r] \in Open => offer[r] \in Open
        BY <2>1 DEF Open
    <3> QED
        BY <2>1, <3>1, <3>2 DEF OffersInv, AtMostOneOpen, ClearTasks, Rows, Tasks
  <2> QED
      BY <2>1, <2>2, <2>3 DEF OffersInv, ClearSweep
<1>2. CASE StartTasks
  <2>1. /\ UNCHANGED offer
        /\ sweep.pc = "snapshot" /\ sweep'.pc = "gather"
        /\ \A t \in Tasks :
               (task'[t].pc = "select" /\ t[2] \in sweep.due) \/ task'[t] = task[t]
      BY <1>0, <1>2 DEF StartTasks
  <2>2. \A o \in sweep.due : Closed(o)
      BY <2>1 DEF OffersInv, ClearSweep, Withdrawn
  <2>3. \A t \in Tasks : task'[t].pc \in Offering => Closed(t[2])
      BY <2>1, <2>2 DEF OffersInv, ClearTasks
  <2> QED
      BY <2>1, <2>3 DEF OffersInv, AtMostOneOpen, ClearTasks, ClearSweep, Withdrawn, Closed
<1>3. CASE SweepOnWake \/ SweepOnBackstop \/ ReleaseLeftovers \/ EndSweep
  <2>1. UNCHANGED <<offer, task>>
      BY <1>3 DEF SweepOnWake, SweepOnBackstop, ReleaseLeftovers, EndSweep
  <2>2. sweep'.pc \in Withdrawn => sweep.pc \in Withdrawn /\ sweep'.due = sweep.due
    <3>1. CASE StartSweep
      <4>1. \/ sweep' = sweep /\ sweep.pc = "idle"
            \/ \E D \in SUBSET Orders : sweep' = [sweep EXCEPT !.pc = "expire", !.due = D]
          BY <3>1 DEF StartSweep
      <4>2. sweep'.pc \in {"idle", "expire"}
          BY <1>0, <4>1
      <4> QED
          BY <4>2 DEF Withdrawn
    <3>2. CASE ReleaseLeftovers
      <4>1. sweep.pc = "release" /\ sweep' = [sweep EXCEPT !.pc = "snapshot", !.expired = {}]
          BY <3>2 DEF ReleaseLeftovers
      <4> QED
          BY <1>0, <4>1 DEF Withdrawn
    <3>3. CASE EndSweep
        BY <3>3 DEF EndSweep, IdleSweep, Withdrawn
    <3> QED
        BY <1>3, <3>1, <3>2, <3>3 DEF SweepOnWake, SweepOnBackstop
  <2> QED
      BY <2>1, <2>2, NothingOpenedKeeps DEF NothingOpened
<1> QED
    BY <1>1, <1>2, <1>3 DEF SweepStep

LEMMA TaskOffers ==
    ASSUME TypeOK, OneSweep, OffersInv, NEW t \in Tasks, TaskStep(t)
    PROVE  OffersInv'
<1> USE DEF pgVars, redisVars, tableVars
<1>0. task \in [Tasks -> TaskStates] /\ offer \in [Rows -> OfferStatuses]
    BY DEF TypeOK, FanoutTypeOK, TablesTypeOK
<1>1. UNCHANGED sweep
    BY DEF TaskStep, Select, MarkNoTakers, Reserve, RecordOffer, SendOffer, SendFails, ExpireOne,
        ReleaseOne, ScheduleDeadline, MarkOffering
<1>2. CASE RecordOffer(t)
  <2>1. /\ task[t].pc = "record"
        /\ task' = [task EXCEPT ![t].pc = "send"]
        /\ offer' = [offer EXCEPT ![Row(t)] = IF @ = "none" THEN "offered" ELSE @]
      BY <1>2 DEF RecordOffer, Goto
  <2>2. Closed(t[2]) /\ Row(t)[1] = t[2]
      BY <2>1 DEF OffersInv, ClearTasks, Offering, Row
  <2>3. \A r \in Rows : r[1] # t[2] => offer'[r] = offer[r]
      BY <1>0, <2>1, <2>2
  <2>4. AtMostOneOpen'
    <3> SUFFICES ASSUME NEW o \in Orders, NEW u \in Users, NEW v \in Users,
                        offer'[<<o, u>>] \in Open, offer'[<<o, v>>] \in Open
                 PROVE  u = v
        BY DEF AtMostOneOpen
    <3>1. <<o, u>> \in Rows /\ <<o, v>> \in Rows
        BY DEF Rows
    <3>2. CASE o = t[2]
      <4>1. <<o, u>> = Row(t) /\ <<o, v>> = Row(t)
          BY <1>0, <2>1, <2>2, <3>1, <3>2 DEF Closed
      <4> QED
          BY <4>1
    <3>3. CASE o # t[2]
        BY <2>3, <3>1, <3>3 DEF OffersInv, AtMostOneOpen
    <3> QED
        BY <3>2, <3>3
  <2>5. ClearTasks'
    <3> SUFFICES ASSUME NEW x \in Tasks, task'[x].pc \in Offering PROVE Closed(x[2])'
        BY DEF ClearTasks
    <3>1. task'[t].pc = "send"
        BY <1>0, <2>1 DEF TaskStates
    <3>2. x # t /\ task'[x] = task[x]
        BY <1>0, <2>1, <3>1 DEF Offering
    <3>3. x[2] # t[2] /\ x[2] \in Orders
        BY <2>1, <3>2, TasksApart DEF Offering, Tasks
    <3>4. Closed(x[2])
        BY <3>2 DEF OffersInv, ClearTasks
    <3> QED
        BY <2>3, <3>3, <3>4 DEF Closed, Rows
  <2>6. ClearSweep'
      BY <1>1, <2>1 DEF OneSweep, ClearSweep, Withdrawn
  <2> QED
      BY <2>4, <2>5, <2>6 DEF OffersInv
<1>3. CASE ExpireOne(t)
  <2>1. \A r \in Rows : offer'[r] \in Open => offer[r] \in Open
      BY <1>3 DEF ExpireOne, ExpireOffers, Open
  <2>2. \A x \in Tasks : task'[x].pc \in Offering => task[x].pc \in Offering
      BY <1>0, <1>3 DEF ExpireOne, Goto, Offering, TaskStates
  <2> QED
      BY <1>1, <2>1, <2>2, NothingOpenedKeeps DEF NothingOpened
<1>4. CASE Select(t) \/ Reserve(t)
  <2>1. UNCHANGED offer /\ task[t].pc \in Offering
      BY <1>4 DEF Select, Reserve, Offering
  <2>2. \A x \in Tasks : x # t => task'[x] = task[x]
      BY <1>0, <1>4 DEF Select, Reserve, Finish
  <2> QED
      BY <1>1, <2>1, <2>2, NothingOpenedKeeps DEF NothingOpened
<1>5. CASE \/ MarkNoTakers(t) \/ SendOffer(t) \/ SendFails(t)
           \/ ReleaseOne(t) \/ ScheduleDeadline(t) \/ MarkOffering(t)
  <2>1. UNCHANGED offer
      BY <1>5 DEF MarkNoTakers, SendOffer, SendFails, ReleaseOne, ScheduleDeadline, MarkOffering
  <2>2. \A x \in Tasks : task'[x].pc \in Offering => task[x].pc \in Offering
      BY <1>0, <1>5 DEF MarkNoTakers, SendOffer, SendFails, ReleaseOne, ScheduleDeadline,
          MarkOffering, Goto, Finish, NoTask, Offering, TaskStates
  <2> QED
      BY <1>1, <2>1, <2>2, NothingOpenedKeeps DEF NothingOpened
<1> QED
    BY <1>2, <1>3, <1>4, <1>5 DEF TaskStep

LEMMA OffersInductive ==
    ASSUME "taskError" \notin Env, TypeOK, OneSweep, OffersInv, [Next]_vars
    PROVE  OffersInv'
<1>1. CASE Dispatcher
  <2>1. CASE DispatcherCrash
      BY <2>1, NothingOpenedKeeps
      DEF DispatcherCrash, NothingOpened, IdleSweep, NoTask, Offering, Withdrawn, pgVars
  <2> QED
      BY <1>1, <2>1, SweepOffers, TaskOffers
      DEF Dispatcher, FanoutNext, FanoutFault, SweepRaises, TaskRaises
<1>2. CASE UNCHANGED vars
    BY <1>2, NothingOpenedKeeps DEF vars, NothingOpened, tableVars, pgVars, fanoutVars
<1> QED
    BY <1>1, <1>2, OthersOpenNothing, NothingOpenedKeeps DEF Next

\* One row or none of a set of rows.
LEMMA AtMostOneRow ==
    ASSUME AtMostOneOpen, NEW o \in Orders
    PROVE  Cardinality(OpenRows({o})) <= 1
<1>1. CASE OpenRows({o}) = {}
    BY <1>1, FS_EmptySet
<1>2. CASE OpenRows({o}) # {}
  <2>1. PICK r \in OpenRows({o}) : TRUE
      BY <1>2
  <2>2. OpenRows({o}) = {r}
      BY <2>1 DEF OpenRows, Rows, AtMostOneOpen
  <2> QED
      BY <2>2, FS_Singleton
<1> QED
    BY <1>1, <1>2

LEMMA AlwaysOffers ==
    ASSUME "taskError" \notin Env
    PROVE  Spec => []OffersInv
<1>1. Init => OffersInv
    BY DEF Init, TablesInit, FanoutInit, NoTask, IdleSweep, OffersInv, AtMostOneOpen, ClearTasks,
        ClearSweep, Offering, Withdrawn, Open, Rows
<1>2. TypeOK /\ AskingInv /\ OffersInv /\ [Next]_vars => OffersInv'
    BY OffersInductive DEF AskingInv
<1> QED
    BY <1>1, <1>2, TypeCorrect, AlwaysAsking, PTL DEF Spec

\* An order is open to one user at a time, whatever the users, Telegram, the expirer and
\* the service endpoint do and whichever process is restarted when.
THEOREM OneUserAtATime ==
    ASSUME "taskError" \notin Env
    PROVE  Spec => []OneOpenOffer
<1>1. OffersInv => OneOpenOffer
    BY AtMostOneRow DEF OffersInv, OneOpenOffer
<1> QED
    BY <1>1, AlwaysOffers, PTL
=============================================================================

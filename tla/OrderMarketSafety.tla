------------------------- MODULE OrderMarketSafety --------------------------
(***************************************************************************)
(* Type correctness of the marketplace and the safety of taking and        *)
(* paying, for any number of orders and users, any limit and any           *)
(* environment: proofs of the invariants that hold however hostile the     *)
(* surroundings are.                                                       *)
(*                                                                         *)
(* For the types there are lemmas about the repository operators and one   *)
(* lemma per process.                                                      *)
(*                                                                         *)
(* For the safety all but three kinds of steps are neutral: they never     *)
(* make an order taken, never touch taken_by or the ledger, open no take   *)
(* and leave taken offers alone. The unconditional UPDATEs of the          *)
(* dispatcher and the api are among them. What is left is to open a take,  *)
(* to commit one and to complete an order.                                 *)
(***************************************************************************)
EXTENDS OrderMarket, FiniteSetTheorems, TLAPS

----------------------------------------------------------------------------
(* Types.                                                                   *)

\* Sets of order-user pairs are finite, and so is the part of one user.
LEMMA RowsFinite ==
    ASSUME NEW R \in SUBSET Rows, NEW u
    PROVE  Cardinality({r \in R : r[2] = u}) \in Nat
<1>1. IsFiniteSet(Rows)
    BY TablesAssumption, FS_Product DEF Rows
<1>2. {r \in R : r[2] = u} \in SUBSET Rows
    OBVIOUS
<1>3. IsFiniteSet({r \in R : r[2] = u})
    BY <1>1, <1>2, FS_Subset
<1> QED
    BY <1>3, FS_CardinalityType

\* The release script leaves every counter between zero and the limit.
LEMMA ReleaseType ==
    ASSUME pending \in [Users -> 0..MaxPending], NEW R \in SUBSET Rows, Release(R)
    PROVE  pending' \in [Users -> 0..MaxPending]
<1> DEFINE n(u) == Cardinality({r \in R : r[2] = u})
<1>1. \A u \in Users : n(u) \in Nat
    BY RowsFinite
<1>2. pending' = [u \in Users |-> IF n(u) < pending[u] THEN pending[u] - n(u) ELSE 0]
    BY DEF Release
<1> HIDE DEF n
<1>3. ASSUME NEW u \in Users
      PROVE  (IF n(u) < pending[u] THEN pending[u] - n(u) ELSE 0) \in 0..MaxPending
    BY <1>1, TablesAssumption
<1> QED
    BY <1>2, <1>3

\* Expiring rows yields statuses of the table.
LEMMA ExpireType ==
    ASSUME offer \in [Rows -> OfferStatuses], NEW R, ExpireOffers(R)
    PROVE  offer' \in [Rows -> OfferStatuses]
    BY DEF ExpireOffers, OfferStatuses

LEMMA PublishType ==
    ASSUME wake \in BOOLEAN, Publish
    PROVE  wake' \in BOOLEAN
    BY DEF Publish

\* The initial states are well typed.
LEMMA InitType == Init => TypeOK
<1> SUFFICES ASSUME Init PROVE TypeOK
    OBVIOUS
<1> USE DEF Init
<1>1. TablesTypeOK
  <2>1. 0 \in 0..MaxPending
      BY TablesAssumption
  <2> QED
      BY <2>1 DEF TablesInit, TablesTypeOK, Statuses, OfferStatuses
<1>2. FanoutTypeOK
    BY FanoutAssumption DEF FanoutInit, FanoutTypeOK, IdleSweep, SweepPCs, NoTask,
        TaskStates, SearchPCs, OfferPCs
<1>3. ExpiryTypeOK /\ LifecycleTypeOK /\ IntakeTypeOK
    BY DEF ExpiryInit, ExpiryTypeOK, LifecycleInit, LifecycleTypeOK, IntakeInit, IntakeTypeOK
<1> QED
    BY <1>1, <1>2, <1>3 DEF TypeOK
----------------------------------------------------------------------------
(* The dispatcher.                                                          *)

\* A task that offers an order to somebody has a row of order_offers at hand.
LEMMA OfferingTask ==
    ASSUME task \in [Tasks -> TaskStates], NEW t \in Tasks, task[t].pc \in OfferPCs
    PROVE  /\ task[t] \in [pc : OfferPCs, users : {{}}, user : Users]
           /\ Row(t) \in Rows
<1>1. task[t] \in [pc : OfferPCs, users : {{}}, user : Users]
    BY DEF TaskStates, SearchPCs, OfferPCs
<1> QED
    BY <1>1 DEF Row, Rows, Tasks

LEMMA GotoType ==
    ASSUME task \in [Tasks -> TaskStates], NEW t \in Tasks, task[t].pc \in OfferPCs,
           NEW pc \in OfferPCs, Goto(t, pc)
    PROVE  task' \in [Tasks -> TaskStates]
<1>1. [task[t] EXCEPT !.pc = pc] \in TaskStates
    BY OfferingTask DEF TaskStates
<1> QED
    BY <1>1 DEF Goto

LEMMA FinishType ==
    ASSUME task \in [Tasks -> TaskStates], NEW t \in Tasks, Finish(t)
    PROVE  task' \in [Tasks -> TaskStates]
    BY DEF Finish, TaskStates, NoTask, SearchPCs

LEMMA SweepType ==
    ASSUME TablesTypeOK, FanoutTypeOK, SweepStep
    PROVE  TablesTypeOK' /\ FanoutTypeOK'
<1> USE DEF TablesTypeOK, FanoutTypeOK
<1>1. CASE SweepOnWake
    BY <1>1 DEF SweepOnWake, StartSweep, SweepPCs, pgVars
<1>2. CASE SweepOnBackstop
    BY <1>2 DEF SweepOnBackstop, StartSweep, SweepPCs, tableVars, pgVars, redisVars
<1>3. CASE ExpireLeftovers
  <2>1. offer' \in [Rows -> OfferStatuses]
      BY <1>3, ExpireType DEF ExpireLeftovers
  <2>2. sweep' \in [pc : SweepPCs, due : SUBSET Orders, expired : SUBSET Rows, tag : Sweeps]
      BY <1>3 DEF ExpireLeftovers, SweepPCs, OpenRows
  <2> QED
      BY <1>3, <2>1, <2>2 DEF ExpireLeftovers, redisVars
<1>4. CASE ReleaseLeftovers
  <2>1. sweep.expired \in SUBSET Rows
      OBVIOUS
  <2>2. pending' \in [Users -> 0..MaxPending]
      BY <1>4, <2>1, ReleaseType DEF ReleaseLeftovers
  <2> QED
      BY <1>4, <2>2 DEF ReleaseLeftovers, SweepPCs, pgVars
<1>5. CASE StartTasks
  <2>1. PICK s \in Sweeps :
            /\ task' = [t \in Tasks |->
                    IF t[1] = s /\ t[2] \in sweep.due
                    THEN [pc |-> "select", users |-> AlreadyOffered(t[2]), user |-> NoUser]
                    ELSE task[t]]
            /\ sweep' = [sweep EXCEPT !.pc = "gather", !.due = {}, !.tag = s]
      BY <1>5 DEF StartTasks
  <2>2. task' \in [Tasks -> TaskStates]
      BY <2>1 DEF TaskStates, SearchPCs, AlreadyOffered
  <2>3. sweep' \in [pc : SweepPCs, due : SUBSET Orders, expired : SUBSET Rows, tag : Sweeps]
      BY <2>1 DEF SweepPCs
  <2> QED
      BY <1>5, <2>2, <2>3 DEF StartTasks, tableVars, pgVars, redisVars
<1>6. CASE EndSweep
    BY <1>6, FanoutAssumption DEF EndSweep, IdleSweep, SweepPCs, tableVars, pgVars, redisVars
<1> QED
    BY <1>1, <1>2, <1>3, <1>4, <1>5, <1>6 DEF SweepStep

LEMMA TaskType ==
    ASSUME TablesTypeOK, FanoutTypeOK, NEW t \in Tasks, TaskStep(t)
    PROVE  TablesTypeOK' /\ FanoutTypeOK'
<1> USE DEF TablesTypeOK, FanoutTypeOK, pgVars, redisVars
<1>1. CASE Select(t)
  <2>1. PICK candidates \in SUBSET (Users \ task[t].users) : task' = [task EXCEPT ![t] =
            [pc |-> IF candidates = {} THEN "noTakers" ELSE "reserve",
             users |-> candidates, user |-> NoUser]]
      BY <1>1 DEF Select
  <2>2. task' \in [Tasks -> TaskStates]
      BY <2>1 DEF TaskStates, SearchPCs
  <2> QED
      BY <1>1, <2>2 DEF Select, tableVars
<1>2. CASE MarkNoTakers(t)
  <2>1. task' \in [Tasks -> TaskStates]
      BY <1>2, FinishType DEF MarkNoTakers
  <2> QED
      BY <1>2, <2>1 DEF MarkNoTakers, Overwrite, Statuses
<1>3. CASE Reserve(t)
  <2> DEFINE Taken(u) ==
                /\ pending[u] < MaxPending
                /\ pending' = [pending EXCEPT ![u] = @ + 1]
                /\ task' = [task EXCEPT ![t] = [pc |-> "record", users |-> {}, user |-> u]]
             Full(u) ==
                /\ IF task[t].users = {u}
                   THEN Finish(t)
                   ELSE task' = [task EXCEPT ![t].users = @ \ {u}]
                /\ UNCHANGED pending
  <2>1. PICK u \in task[t].users : Taken(u) \/ Full(u)
      BY <1>3 DEF Reserve
  <2>2. task[t] \in [pc : SearchPCs, users : SUBSET Users, user : {NoUser}]
      BY <1>3 DEF Reserve, TaskStates, OfferPCs
  <2>3. u \in Users
      BY <2>1, <2>2
  <2>4. CASE Taken(u)
    <3>1. pending' \in [Users -> 0..MaxPending]
        BY <2>3, <2>4, TablesAssumption
    <3>2. task' \in [Tasks -> TaskStates]
        BY <2>3, <2>4 DEF TaskStates, OfferPCs
    <3> QED
        BY <1>3, <3>1, <3>2 DEF Reserve
  <2>5. CASE Full(u)
    <3>1. [task[t] EXCEPT !.users = @ \ {u}] \in TaskStates
        BY <2>2 DEF TaskStates
    <3>2. task' \in [Tasks -> TaskStates]
        BY <2>5, <3>1, FinishType
    <3> QED
        BY <1>3, <2>5, <3>2 DEF Reserve
  <2> QED
      BY <2>1, <2>4, <2>5
<1>4. CASE RecordOffer(t)
  <2>1. task' \in [Tasks -> TaskStates]
      BY <1>4, GotoType DEF RecordOffer, OfferPCs
  <2>2. offer' \in [Rows -> OfferStatuses]
      BY <1>4 DEF RecordOffer, OfferStatuses, Open
  <2> QED
      BY <1>4, <2>1, <2>2 DEF RecordOffer
<1>5. CASE SendOffer(t) \/ SendFails(t)
  <2>1. task[t].pc \in OfferPCs
      BY <1>5 DEF SendOffer, SendFails, OfferPCs
  <2>2. task' \in [Tasks -> TaskStates]
      BY <1>5, <2>1, GotoType DEF SendOffer, SendFails, OfferPCs
  <2>3. delivered' \subseteq delivered \cup {Row(t)} /\ UNCHANGED <<pgVars, redisVars, sweep>>
      BY <1>5 DEF SendOffer, SendFails
  <2> QED
      BY <2>1, <2>2, <2>3, OfferingTask
<1>6. CASE ExpireOne(t)
  <2>1. task' \in [Tasks -> TaskStates]
      BY <1>6, GotoType DEF ExpireOne, OfferPCs
  <2>2. offer' \in [Rows -> OfferStatuses]
      BY <1>6, ExpireType DEF ExpireOne
  <2> QED
      BY <1>6, <2>1, <2>2 DEF ExpireOne
<1>7. CASE ReleaseOne(t)
  <2>1. {Row(t)} \in SUBSET Rows
      BY <1>7, OfferingTask DEF ReleaseOne, OfferPCs
  <2>2. pending' \in [Users -> 0..MaxPending]
      BY <1>7, <2>1, ReleaseType DEF ReleaseOne
  <2>3. task' \in [Tasks -> TaskStates]
      BY <1>7, FinishType DEF ReleaseOne
  <2> QED
      BY <1>7, <2>2, <2>3 DEF ReleaseOne
<1>8. CASE ScheduleDeadline(t)
  <2>1. task' \in [Tasks -> TaskStates]
      BY <1>8, GotoType DEF ScheduleDeadline, OfferPCs
  <2>2. Row(t) \in Rows
      BY <1>8, OfferingTask DEF ScheduleDeadline, OfferPCs
  <2> QED
      BY <1>8, <2>1, <2>2 DEF ScheduleDeadline
<1>9. CASE MarkOffering(t)
  <2>1. task' \in [Tasks -> TaskStates]
      BY <1>9, FinishType DEF MarkOffering
  <2> QED
      BY <1>9, <2>1 DEF MarkOffering, Overwrite, Statuses, Active
<1> QED
    BY <1>1, <1>2, <1>3, <1>4, <1>5, <1>6, <1>7, <1>8, <1>9 DEF TaskStep

LEMMA FaultType ==
    ASSUME TablesTypeOK, FanoutTypeOK, FanoutFault
    PROVE  TablesTypeOK' /\ FanoutTypeOK'
<1> USE DEF TablesTypeOK, FanoutTypeOK, pgVars, redisVars
<1>1. IdleSweep \in [pc : SweepPCs, due : SUBSET Orders, expired : SUBSET Rows, tag : Sweeps]
    BY FanoutAssumption DEF IdleSweep, SweepPCs
<1>2. NoTask \in TaskStates
    BY DEF NoTask, TaskStates, SearchPCs
<1>3. CASE SweepRaises
    BY <1>1, <1>3 DEF SweepRaises, tableVars
<1>4. CASE DispatcherCrash
    BY <1>1, <1>2, <1>4 DEF DispatcherCrash
<1>5. ASSUME NEW t \in Tasks, TaskRaises(t)
      PROVE  TablesTypeOK' /\ FanoutTypeOK'
    BY <1>1, <1>5, FinishType DEF TaskRaises, tableVars
<1> QED
    BY <1>3, <1>4, <1>5 DEF FanoutFault
----------------------------------------------------------------------------
(* The expirer, the bot, the api and time.                                  *)

LEMMA ExpiryType ==
    ASSUME TablesTypeOK, ExpiryTypeOK, ExpiryNext
    PROVE  TablesTypeOK' /\ ExpiryTypeOK'
<1> USE DEF TablesTypeOK, ExpiryTypeOK, pgVars, redisVars
<1>1. CASE ExpireMany
  <2>1. offer' \in [Rows -> OfferStatuses]
      BY <1>1, ExpireType DEF ExpireMany
  <2> QED
      BY <1>1, <2>1 DEF ExpireMany
<1>2. CASE ReleaseLapsed
  <2>1. pending' \in [Users -> 0..MaxPending]
      BY <1>2, ReleaseType DEF ReleaseLapsed
  <2>2. wake' \in BOOLEAN
      BY <1>2, PublishType DEF ReleaseLapsed
  <2> QED
      BY <1>2, <2>1, <2>2 DEF ReleaseLapsed
<1>3. CASE ClaimLost \/ LapseLost
    BY <1>3 DEF ClaimLost, LapseLost, tableVars
<1>4. ASSUME NEW r \in Rows, ClaimDue(r)
      PROVE  TablesTypeOK' /\ ExpiryTypeOK'
    BY <1>4 DEF ClaimDue
<1> QED
    BY <1>1, <1>2, <1>3, <1>4 DEF ExpiryNext, ExpiryStep

\* A chore made of an order, a user and some users is a chore.
LEMMA FollowType ==
    ASSUME chores \subseteq ChoreTypes, NEW c \in chores, NEW step \in ChoreSteps,
           Follow(c, step) \/ Drop(c)
    PROVE  chores' \subseteq ChoreTypes
<1>1. c \in ChoreTypes
    OBVIOUS
<1>2. Chore(step, c.order, c.user, {}) \in ChoreTypes
    BY <1>1 DEF Chore, ChoreTypes
<1> QED
    BY <1>2 DEF Follow, Drop

LEMMA ChoreType ==
    ASSUME NEW step \in ChoreSteps, NEW o \in Orders, NEW u \in Users, NEW V \in SUBSET Users
    PROVE  Chore(step, o, u, V) \in ChoreTypes
    BY DEF Chore, ChoreTypes

LEMMA HandlerType ==
    ASSUME TablesTypeOK, LifecycleTypeOK, NEW o \in Orders, NEW u \in Users,
           UserStep(o, u) \/ EndTake(o, u)
    PROVE  TablesTypeOK' /\ LifecycleTypeOK'
<1> USE DEF TablesTypeOK, LifecycleTypeOK, pgVars, redisVars
<1>1. CASE BeginTake(o, u)
    BY <1>1 DEF BeginTake, tableVars, Rows
<1>2. CASE CommitTake(o, u)
  <2> DEFINE rivals == {v \in Users \ {u} : offer[<<o, v>>] \in Open}
  <2>1. offer' \in [Rows -> OfferStatuses]
      BY <1>2 DEF CommitTake, OfferStatuses
  <2>2. status' \in [Orders -> Statuses] /\ takenBy' \in [Orders -> Users \cup {NoUser}]
      BY <1>2 DEF CommitTake, Statuses
  <2>3. Chore(IF rivals = {} THEN "arm" ELSE "settle", o, u, rivals) \in ChoreTypes
      BY ChoreType DEF ChoreSteps
  <2>4. chores' \subseteq ChoreTypes
      BY <1>2, <2>3 DEF CommitTake
  <2> QED
      BY <1>2, <2>1, <2>2, <2>4 DEF CommitTake
<1>3. CASE AbortTake(o, u)
    BY <1>3 DEF AbortTake, tableVars
<1>4. Chore("release", o, u, {}) \in ChoreTypes
    BY ChoreType DEF ChoreSteps
<1>5. CASE Complete(o, u)
  <2>1. status' \in [Orders -> Statuses]
      BY <1>5 DEF Complete, Resolve, Statuses
  <2>2. ledger' \in [Rows -> Nat]
    <3> DEFINE n == ledger[<<o, u>>] + 1
    <3>1. n \in Nat
        BY DEF Rows
    <3>2. ledger' = [ledger EXCEPT ![<<o, u>>] = n]
        BY <1>5 DEF Complete
    <3> HIDE DEF n
    <3> QED
        BY <3>1, <3>2
  <2> QED
      BY <1>4, <1>5, <2>1, <2>2 DEF Complete
<1>6. CASE Cancel(o, u)
  <2>1. status' \in [Orders -> Statuses]
      BY <1>6 DEF Cancel, Resolve, Statuses
  <2> QED
      BY <1>4, <1>6, <2>1 DEF Cancel
<1> QED
    BY <1>1, <1>2, <1>3, <1>5, <1>6 DEF UserStep, EndTake

LEMMA ChoreStepType ==
    ASSUME TablesTypeOK, LifecycleTypeOK, NEW c \in chores, ChoreStep(c) \/ ChoreRaises(c)
    PROVE  TablesTypeOK' /\ LifecycleTypeOK'
<1> USE DEF TablesTypeOK, LifecycleTypeOK, pgVars, redisVars
<1>1. c.order \in Orders /\ c.user \in Users /\ c.owed \in SUBSET Users
    BY DEF ChoreTypes
<1>2. CASE Settle(c)
  <2>1. {c.order} \X c.owed \in SUBSET Rows
      BY <1>1 DEF Rows
  <2>2. pending' \in [Users -> 0..MaxPending]
      BY <1>2, <2>1, ReleaseType DEF Settle
  <2>3. chores' \subseteq ChoreTypes
      BY <1>2, FollowType DEF Settle, ChoreSteps
  <2> QED
      BY <1>2, <2>2, <2>3 DEF Settle
<1>3. CASE Arm(c) \/ Clear(c)
  <2>1. timer' \in [Orders -> Users \cup {NoUser}]
      BY <1>1, <1>3 DEF Arm, Clear
  <2> QED
      BY <1>3, <2>1 DEF Arm, Clear, Drop, tableVars
<1>4. CASE TimeOut(c)
  <2>1. status' \in [Orders -> Statuses]
      BY <1>4 DEF TimeOut, Resolve, Statuses
  <2>2. chores' \subseteq ChoreTypes
      BY <1>4, FollowType DEF TimeOut, ChoreSteps
  <2> QED
      BY <1>4, <2>1, <2>2 DEF TimeOut
<1>5. CASE Vacate(c)
  <2>1. {<<c.order, c.user>>} \in SUBSET Rows
      BY <1>1 DEF Rows
  <2>2. pending' \in [Users -> 0..MaxPending]
      BY <1>5, <2>1, ReleaseType DEF Vacate
  <2>3. chores' \subseteq ChoreTypes
      BY <1>5, FollowType DEF Vacate, ChoreSteps
  <2>4. wake' \in BOOLEAN
      BY <1>5, PublishType DEF Vacate
  <2> QED
      BY <1>5, <2>2, <2>3, <2>4 DEF Vacate
<1>6. CASE ChoreRaises(c)
    BY <1>6 DEF ChoreRaises, Drop, tableVars
<1> QED
    BY <1>2, <1>3, <1>4, <1>5, <1>6 DEF ChoreStep

LEMMA LifecycleType ==
    ASSUME TablesTypeOK, LifecycleTypeOK, LifecycleNext
    PROVE  TablesTypeOK' /\ LifecycleTypeOK'
<1>1. ASSUME NEW o \in Orders, TimerFires(o)
      PROVE  TablesTypeOK' /\ LifecycleTypeOK'
  <2>1. timer[o] \in Users
      BY <1>1 DEF TimerFires, LifecycleTypeOK
  <2>2. Chore("timeOut", o, timer[o], {}) \in ChoreTypes
      BY <2>1, ChoreType DEF ChoreSteps
  <2> QED
      BY <1>1, <2>2
      DEF TimerFires, TablesTypeOK, LifecycleTypeOK, tableVars, pgVars, redisVars
<1>2. CASE BotCrash
    BY <1>2 DEF BotCrash, TablesTypeOK, LifecycleTypeOK, tableVars, pgVars, redisVars
<1> QED
    BY <1>1, <1>2, HandlerType, ChoreStepType DEF LifecycleNext

LEMMA IntakeType ==
    ASSUME TablesTypeOK, IntakeTypeOK, IntakeNext
    PROVE  TablesTypeOK' /\ IntakeTypeOK'
<1> USE DEF TablesTypeOK, IntakeTypeOK, pgVars, redisVars
<1>1. CASE ApiCrash
    BY <1>1 DEF ApiCrash, tableVars
<1>2. ASSUME NEW o \in Orders, Create(o)
      PROVE  TablesTypeOK' /\ IntakeTypeOK'
    BY <1>2 DEF Create, Statuses, Active
<1>3. ASSUME NEW o \in Orders, Clean(o)
      PROVE  TablesTypeOK' /\ IntakeTypeOK'
  <2>1. offer' \in [Rows -> OfferStatuses]
      BY <1>3, ExpireType DEF Clean
  <2>2. status' \in [Orders -> Statuses]
      BY <1>3 DEF Clean, Overwrite, Statuses
  <2>3. cleaned' \subseteq Rows
      BY <1>3 DEF Clean, OpenRows
  <2> QED
      BY <1>3, <2>1, <2>2, <2>3 DEF Clean
<1>4. ASSUME NEW o \in Orders, ReleaseCleaned(o)
      PROVE  TablesTypeOK' /\ IntakeTypeOK'
  <2>1. {r \in cleaned : r[1] = o} \in SUBSET Rows
      OBVIOUS
  <2>2. pending' \in [Users -> 0..MaxPending]
      BY <1>4, <2>1, ReleaseType DEF ReleaseCleaned
  <2> QED
      BY <1>4, <2>2 DEF ReleaseCleaned
<1> QED
    BY <1>1, <1>2, <1>3, <1>4 DEF IntakeNext

LEMMA StaleType ==
    ASSUME TypeOK, Time
    PROVE  TypeOK'
<1>1. PICK r \in Rows : GrowStale(r)
    BY DEF Time
<1>2. offer' \in [Rows -> OfferStatuses]
    BY <1>1 DEF GrowStale, TypeOK, TablesTypeOK, OfferStatuses, Open
<1> QED
    BY <1>1, <1>2 DEF GrowStale, TypeOK, TablesTypeOK, FanoutTypeOK, ExpiryTypeOK,
        LifecycleTypeOK, IntakeTypeOK, redisVars, fanoutVars, expiryVars, lifecycleVars,
        intakeVars
----------------------------------------------------------------------------
\* Every state of every run of the four processes is well typed; the slot counters in
\* particular stay between zero and MAX_ORDERS_PENDING whatever fails or repeats.
THEOREM TypeCorrect == Spec => []TypeOK
<1>1. Init => TypeOK
    BY InitType
<1>2. TypeOK /\ [Next]_vars => TypeOK'
  <2> SUFFICES ASSUME TypeOK, [Next]_vars PROVE TypeOK'
      OBVIOUS
  <2> USE DEF TypeOK
  <2>1. CASE Dispatcher
    <3>1. TablesTypeOK' /\ FanoutTypeOK'
        BY <2>1, SweepType, TaskType, FaultType DEF Dispatcher, FanoutNext
    <3> QED
        BY <2>1, <3>1 DEF Dispatcher, ExpiryTypeOK, LifecycleTypeOK, IntakeTypeOK,
            expiryVars, lifecycleVars, intakeVars
  <2>2. CASE Expirer
    <3>1. TablesTypeOK' /\ ExpiryTypeOK'
        BY <2>2, ExpiryType DEF Expirer
    <3> QED
        BY <2>2, <3>1 DEF Expirer, FanoutTypeOK, LifecycleTypeOK, IntakeTypeOK,
            fanoutVars, lifecycleVars, intakeVars
  <2>3. CASE Bot
    <3>1. TablesTypeOK' /\ LifecycleTypeOK'
        BY <2>3, LifecycleType DEF Bot
    <3> QED
        BY <2>3, <3>1 DEF Bot, FanoutTypeOK, ExpiryTypeOK, IntakeTypeOK,
            fanoutVars, expiryVars, intakeVars
  <2>4. CASE Api
    <3>1. TablesTypeOK' /\ IntakeTypeOK'
        BY <2>4, IntakeType DEF Api
    <3> QED
        BY <2>4, <3>1 DEF Api, FanoutTypeOK, ExpiryTypeOK, LifecycleTypeOK,
            fanoutVars, expiryVars, lifecycleVars
  <2>5. CASE Time
      BY <2>5, StaleType
  <2>6. CASE UNCHANGED vars
      BY <2>6 DEF vars, tableVars, pgVars, redisVars, fanoutVars, expiryVars, lifecycleVars,
          intakeVars, TablesTypeOK, FanoutTypeOK, ExpiryTypeOK, LifecycleTypeOK, IntakeTypeOK
  <2> QED
      BY <2>1, <2>2, <2>3, <2>4, <2>5, <2>6 DEF Next
<1> QED
    BY <1>1, <1>2, PTL DEF Spec
----------------------------------------------------------------------------
(* Taking and paying.                                                       *)

\* An answered offer keeps its answer over the step.
Answered == \A r \in Rows : offer[r] \in {"taken", "expired"} => offer'[r] = offer[r]

Neutral ==
    /\ takenBy' = takenBy
    /\ ledger' = ledger
    /\ taking' \subseteq taking
    /\ \A o \in Orders : status'[o] = "taken" => status[o] = "taken"
    /\ Answered

\* Only a taken offer was paid.
PaidWasTaken == \A r \in Rows : ledger[r] # 0 => offer[r] = "taken"

\* The lock on the profile row: a user is inside one take at a time.
OneTakePerUser ==
    \A r \in taking, q \in taking : r[2] = q[2] => r = q

\* Who is inside a take still has room for one order more.
RoomToTake == \A r \in taking : Cardinality(InWork(r[2])) < MaxPending

SafeInv ==
    /\ TypeOK
    /\ TakerHoldsOffer
    /\ PaidWasTaken
    /\ NeverPaidBefore
    /\ OneTakePerUser
    /\ RoomToTake
    /\ InWorkBound

----------------------------------------------------------------------------
LEMMA InWorkFinite ==
    ASSUME NEW u
    PROVE  IsFiniteSet(InWork(u)) /\ Cardinality(InWork(u)) \in Nat
<1>1. InWork(u) \in SUBSET Orders
    BY DEF InWork
<1>2. IsFiniteSet(InWork(u))
    BY <1>1, TablesAssumption, FS_Subset
<1> QED
    BY <1>2, FS_CardinalityType

\* A set of orders in work that only shrinks does not grow in number.
LEMMA InWorkShrinks ==
    ASSUME NEW u, InWork(u)' \subseteq InWork(u)
    PROVE  /\ Cardinality(InWork(u))' \in Nat
           /\ Cardinality(InWork(u))' <= Cardinality(InWork(u))
<1>1. IsFiniteSet(InWork(u)) /\ InWork(u)' \in SUBSET InWork(u)
    BY InWorkFinite
<1>2. IsFiniteSet(InWork(u)') /\ Cardinality(InWork(u)') <= Cardinality(InWork(u))
    BY <1>1, FS_Subset
<1> QED
    BY <1>2, FS_CardinalityType

LEMMA ExpireAnswered ==
    ASSUME NEW R, ExpireOffers(R)
    PROVE  Answered
    BY DEF ExpireOffers, Answered, Open

\* The dispatcher is neutral: mark_offering and mark_no_takers overwrite any status, but
\* never with "taken".
LEMMA DispatcherNeutral ==
    ASSUME TypeOK, Dispatcher
    PROVE  Neutral
<1> USE DEF pgVars, tableVars, lifecycleVars
<1>0. UNCHANGED taking
    BY DEF Dispatcher
<1>1. CASE SweepStep
  <2>1. CASE ExpireLeftovers
      BY <1>0, <2>1, ExpireAnswered DEF ExpireLeftovers, Neutral
  <2>2. CASE SweepOnWake \/ SweepOnBackstop \/ ReleaseLeftovers \/ StartTasks \/ EndSweep
      BY <1>0, <2>2 DEF SweepOnWake, SweepOnBackstop, ReleaseLeftovers, StartTasks, EndSweep,
          Neutral, Answered
  <2> QED
      BY <1>1, <2>1, <2>2 DEF SweepStep
<1>2. ASSUME NEW t \in Tasks, TaskStep(t)
      PROVE  Neutral
  <2>1. CASE ExpireOne(t)
      BY <1>0, <2>1, ExpireAnswered DEF ExpireOne, Neutral
  <2>2. CASE RecordOffer(t)
    <3>1. Row(t) \in Rows
        BY <2>2, OfferingTask DEF RecordOffer, OfferPCs, TypeOK, FanoutTypeOK
    <3>2. Answered
        BY <2>2, <3>1 DEF RecordOffer, Answered, TypeOK, TablesTypeOK
    <3> QED
        BY <1>0, <2>2, <3>2 DEF RecordOffer, Neutral
  <2>3. CASE MarkNoTakers(t) \/ MarkOffering(t)
      BY <1>0, <2>3 DEF MarkNoTakers, MarkOffering, Overwrite, Neutral, Answered, TypeOK,
          TablesTypeOK
  <2>4. CASE \/ Select(t) \/ Reserve(t) \/ SendOffer(t) \/ SendFails(t)
             \/ ReleaseOne(t) \/ ScheduleDeadline(t)
      BY <1>0, <2>4 DEF Select, Reserve, SendOffer, SendFails, ReleaseOne, ScheduleDeadline,
          Neutral, Answered
  <2> QED
      BY <1>2, <2>1, <2>2, <2>3, <2>4 DEF TaskStep
<1>3. CASE FanoutFault
    BY <1>0, <1>3 DEF FanoutFault, SweepRaises, DispatcherCrash, TaskRaises, Neutral, Answered
<1> QED
    BY <1>1, <1>2, <1>3 DEF Dispatcher, FanoutNext

LEMMA ExpirerNeutral ==
    ASSUME TypeOK, Expirer
    PROVE  Neutral
<1> USE DEF pgVars, tableVars, lifecycleVars
<1>0. UNCHANGED taking
    BY DEF Expirer
<1>1. CASE ExpireMany
    BY <1>0, <1>1, ExpireAnswered DEF ExpireMany, Neutral
<1>2. CASE ReleaseLapsed \/ ClaimLost \/ LapseLost \/ \E r \in Rows : ClaimDue(r)
    BY <1>0, <1>2 DEF ReleaseLapsed, ClaimLost, LapseLost, ClaimDue, Neutral, Answered
<1> QED
    BY <1>1, <1>2 DEF Expirer, ExpiryNext, ExpiryStep

LEMMA ApiNeutral ==
    ASSUME TypeOK, Api
    PROVE  Neutral
<1> USE DEF pgVars, tableVars, lifecycleVars
<1>0. UNCHANGED taking
    BY DEF Api
<1>1. ASSUME NEW o \in Orders, Clean(o)
      PROVE  Neutral
  <2>1. Answered
      BY <1>1, ExpireAnswered DEF Clean
  <2> QED
      BY <1>0, <1>1, <2>1 DEF Clean, Overwrite, Neutral, TypeOK, TablesTypeOK
<1>2. ASSUME NEW o \in Orders, Create(o) \/ ReleaseCleaned(o)
      PROVE  Neutral
    BY <1>0, <1>2 DEF Create, ReleaseCleaned, Neutral, Answered, TypeOK, TablesTypeOK
<1>3. CASE ApiCrash
    BY <1>0, <1>3 DEF ApiCrash, Neutral, Answered
<1> QED
    BY <1>1, <1>2, <1>3 DEF Api, IntakeNext

LEMMA TimeNeutral ==
    ASSUME TypeOK, Time
    PROVE  Neutral
    BY DEF Time, GrowStale, Neutral, Answered, TypeOK, TablesTypeOK, lifecycleVars

\* The bot is neutral but for the three kinds of steps named above.
LEMMA BotSteps ==
    ASSUME TypeOK, LifecycleNext
    PROVE  \/ Neutral
           \/ \E o \in Orders, u \in Users :
                BeginTake(o, u) \/ CommitTake(o, u) \/ Complete(o, u)
<1> USE DEF pgVars, tableVars
<1>1. ASSUME NEW o \in Orders, NEW u \in Users, AbortTake(o, u) \/ Cancel(o, u)
      PROVE  Neutral
    BY <1>1 DEF AbortTake, Cancel, Resolve, Neutral, Answered, TypeOK, TablesTypeOK
<1>2. ASSUME NEW c \in chores, ChoreStep(c) \/ ChoreRaises(c)
      PROVE  Neutral
  <2>1. CASE TimeOut(c)
    <3>1. c.order \in Orders
        BY DEF TypeOK, LifecycleTypeOK, ChoreTypes
    <3> QED
        BY <2>1, <3>1 DEF TimeOut, Resolve, Neutral, Answered, TypeOK, TablesTypeOK
  <2>2. CASE Settle(c) \/ Arm(c) \/ Vacate(c) \/ Clear(c) \/ ChoreRaises(c)
      BY <2>2 DEF Settle, Arm, Vacate, Clear, ChoreRaises, Neutral, Answered
  <2> QED
      BY <1>2, <2>1, <2>2 DEF ChoreStep
<1>3. CASE BotCrash
    BY <1>3 DEF BotCrash, Neutral, Answered
<1>4. ASSUME NEW o \in Orders, TimerFires(o)
      PROVE  Neutral
    BY <1>4 DEF TimerFires, Neutral, Answered
<1> QED
    BY <1>1, <1>2, <1>3, <1>4 DEF LifecycleNext, UserStep, EndTake

\* Every step is neutral or one of the three.
LEMMA StepKinds ==
    ASSUME TypeOK, [Next]_vars
    PROVE  \/ Neutral
           \/ \E o \in Orders, u \in Users :
                BeginTake(o, u) \/ CommitTake(o, u) \/ Complete(o, u)
<1>1. CASE UNCHANGED vars
    BY <1>1 DEF vars, tableVars, pgVars, lifecycleVars, Neutral, Answered
<1> QED
    BY <1>1, DispatcherNeutral, ExpirerNeutral, ApiNeutral, TimeNeutral, BotSteps
    DEF Next, Bot
----------------------------------------------------------------------------
(* SafeInv is inductive.                                                    *)

LEMMA InitSafe == Init => SafeInv
<1> SUFFICES ASSUME Init PROVE SafeInv
    OBVIOUS
<1> USE DEF Init, TablesInit, LifecycleInit
<1>1. TypeOK
    BY InitType
<1>2. TakerHoldsOffer /\ PaidWasTaken
    BY DEF TakerHoldsOffer, PaidWasTaken
<1>3. \A u \in Users : InWork(u) = {}
    BY DEF InWork
<1>4. NeverPaidBefore
    BY <1>3 DEF NeverPaidBefore
<1>5. OneTakePerUser /\ RoomToTake
    BY DEF OneTakePerUser, RoomToTake
<1>6. InWorkBound
    BY <1>3, FS_EmptySet, TablesAssumption DEF InWorkBound
<1> QED
    BY <1>1, <1>2, <1>4, <1>5, <1>6 DEF SafeInv

LEMMA NeutralSafe ==
    ASSUME SafeInv, TypeOK', Neutral
    PROVE  SafeInv'
<1> USE DEF SafeInv
<1>1. \A u : InWork(u)' \subseteq InWork(u)
    BY DEF InWork, Neutral
<1>2. TakerHoldsOffer'
  <2> SUFFICES ASSUME NEW o \in Orders, status'[o] = "taken"
               PROVE  takenBy'[o] \in Users /\ offer'[<<o, takenBy'[o]>>] = "taken"
      BY DEF TakerHoldsOffer
  <2>1. takenBy[o] \in Users /\ offer[<<o, takenBy[o]>>] = "taken"
      BY DEF TakerHoldsOffer, Neutral
  <2>2. <<o, takenBy[o]>> \in Rows
      BY <2>1 DEF Rows
  <2> QED
      BY <2>1, <2>2 DEF Neutral, Answered
<1>3. PaidWasTaken'
    BY DEF PaidWasTaken, Neutral, Answered
<1>4. NeverPaidBefore'
    BY <1>1 DEF NeverPaidBefore, Neutral
<1>5. OneTakePerUser'
    BY DEF OneTakePerUser, Neutral
<1>6. RoomToTake'
  <2> SUFFICES ASSUME NEW r \in taking' PROVE Cardinality(InWork(r[2]))' < MaxPending
      BY DEF RoomToTake
  <2>1. Cardinality(InWork(r[2])) < MaxPending
      BY DEF RoomToTake, Neutral
  <2> QED
      BY <1>1, <2>1, InWorkShrinks, InWorkFinite, TablesAssumption
<1>7. InWorkBound'
  <2> SUFFICES ASSUME NEW u \in Users PROVE Cardinality(InWork(u))' <= MaxPending
      BY DEF InWorkBound
  <2>1. Cardinality(InWork(u)) <= MaxPending
      BY DEF InWorkBound
  <2> QED
      BY <1>1, <2>1, InWorkShrinks, InWorkFinite, TablesAssumption
<1> QED
    BY <1>2, <1>3, <1>4, <1>5, <1>6, <1>7

\* Opening a take finds room and the lock free.
LEMMA BeginTakeSafe ==
    ASSUME SafeInv, TypeOK', NEW o \in Orders, NEW u \in Users, BeginTake(o, u)
    PROVE  SafeInv'
<1> USE DEF SafeInv
<1>1. UNCHANGED <<status, takenBy, offer, ledger>> /\ taking' = taking \cup {<<o, u>>}
    BY DEF BeginTake, tableVars, pgVars
<1>2. \A v : InWork(v)' = InWork(v)
    BY <1>1 DEF InWork
<1>3. TakerHoldsOffer' /\ PaidWasTaken'
    BY <1>1 DEF TakerHoldsOffer, PaidWasTaken
<1>4. NeverPaidBefore'
    BY <1>1, <1>2 DEF NeverPaidBefore
<1>5. OneTakePerUser'
  <2>1. \A r \in taking : r[2] # u
      BY DEF BeginTake, TypeOK, LifecycleTypeOK, Rows
  <2> QED
      BY <1>1, <2>1 DEF OneTakePerUser
<1>6. RoomToTake'
    BY <1>1, <1>2 DEF RoomToTake, BeginTake
<1>7. InWorkBound'
    BY <1>2 DEF InWorkBound
<1> QED
    BY <1>3, <1>4, <1>5, <1>6, <1>7

\* Committing a take adds one order to the taker's, and nobody else's change.
LEMMA CommitTakeSafe ==
    ASSUME SafeInv, TypeOK', NEW o \in Orders, NEW u \in Users, CommitTake(o, u)
    PROVE  SafeInv'
<1> USE DEF SafeInv
<1>1. /\ taking' = taking \ {<<o, u>>}
      /\ offer' = [r \in Rows |->
                IF r = <<o, u>> THEN "taken"
                ELSE IF r[1] = o /\ offer[r] \in Open THEN "expired" ELSE offer[r]]
      /\ status' = [status EXCEPT ![o] = "taken"]
      /\ takenBy' = [takenBy EXCEPT ![o] = u]
      /\ ledger' = ledger
      /\ <<o, u>> \in taking
      /\ Takeable(o, u)
    BY DEF CommitTake
<1>2. <<o, u>> \in Rows
    BY DEF Rows
<1>3. /\ status'[o] = "taken" /\ takenBy'[o] = u
      /\ \A p \in Orders \ {o} : status'[p] = status[p] /\ takenBy'[p] = takenBy[p]
    BY <1>1 DEF TypeOK, TablesTypeOK
<1>4. \A v : InWork(v)' \subseteq InWork(v) \cup {o}
    BY <1>3 DEF InWork
<1>5. \A v : v # u => InWork(v)' \subseteq InWork(v)
    BY <1>3 DEF InWork
<1>6. \A r \in Rows : offer[r] = "taken" => offer'[r] = "taken"
    BY <1>1 DEF Open
<1>7. TakerHoldsOffer'
  <2> SUFFICES ASSUME NEW p \in Orders, status'[p] = "taken"
               PROVE  takenBy'[p] \in Users /\ offer'[<<p, takenBy'[p]>>] = "taken"
      BY DEF TakerHoldsOffer
  <2>1. CASE p = o
      BY <1>1, <1>2, <1>3, <2>1
  <2>2. CASE p # o
    <3>1. takenBy'[p] = takenBy[p] /\ takenBy[p] \in Users
          /\ offer[<<p, takenBy[p]>>] = "taken"
        BY <1>3, <2>2 DEF TakerHoldsOffer
    <3>2. <<p, takenBy[p]>> \in Rows
        BY <3>1 DEF Rows
    <3> QED
        BY <1>6, <3>1, <3>2
  <2> QED
      BY <2>1, <2>2
<1>8. PaidWasTaken'
    BY <1>1, <1>6 DEF PaidWasTaken
<1>9. NeverPaidBefore'
  <2>1. ledger[<<o, u>>] = 0
      BY <1>1, <1>2 DEF Takeable, PaidWasTaken, Open
  <2> SUFFICES ASSUME NEW v \in Users, NEW p \in InWork(v)' PROVE ledger'[<<p, v>>] = 0
      BY DEF NeverPaidBefore
  <2>2. CASE p = o
    <3>1. v = u
        BY <1>3, <2>2 DEF InWork
    <3> QED
        BY <1>1, <2>1, <2>2, <3>1
  <2>3. CASE p # o
    <3>1. p \in InWork(v)
        BY <1>4, <2>3
    <3> QED
        BY <1>1, <3>1 DEF NeverPaidBefore
  <2> QED
      BY <2>2, <2>3
<1>10. OneTakePerUser'
    BY <1>1 DEF OneTakePerUser
<1>11. RoomToTake'
  <2> SUFFICES ASSUME NEW r \in taking' PROVE Cardinality(InWork(r[2]))' < MaxPending
      BY DEF RoomToTake
  <2>1. r \in taking /\ r[2] # u
      BY <1>1 DEF OneTakePerUser
  <2>2. Cardinality(InWork(r[2])) < MaxPending
      BY <2>1 DEF RoomToTake
  <2>3. InWork(r[2])' \subseteq InWork(r[2])
      BY <1>5, <2>1
  <2> QED
      BY <2>2, <2>3, InWorkShrinks, InWorkFinite, TablesAssumption
<1>12. InWorkBound'
  <2> SUFFICES ASSUME NEW v \in Users PROVE Cardinality(InWork(v))' <= MaxPending
      BY DEF InWorkBound
  <2>1. CASE v = u
    <3>1. IsFiniteSet(InWork(u)) /\ Cardinality(InWork(u)) \in Nat
        BY InWorkFinite
    <3>2. Cardinality(InWork(u)) < MaxPending
        BY <1>1 DEF RoomToTake
    <3>3. /\ IsFiniteSet(InWork(u) \cup {o})
          /\ Cardinality(InWork(u) \cup {o}) <= Cardinality(InWork(u)) + 1
      <4> DEFINE W == InWork(u)
      <4> HIDE DEF W
      <4>1. IsFiniteSet(W) /\ Cardinality(W) \in Nat
          BY <3>1 DEF W
      <4>2. /\ IsFiniteSet(W \cup {o})
            /\ Cardinality(W \cup {o}) = IF o \in W THEN Cardinality(W) ELSE Cardinality(W) + 1
          BY <4>1, FS_AddElement
      <4>3. Cardinality(W \cup {o}) <= Cardinality(W) + 1
          BY <4>1, <4>2
      <4> QED
          BY <4>2, <4>3 DEF W
    <3>4. /\ IsFiniteSet(InWork(u)')
          /\ Cardinality(InWork(u)') <= Cardinality(InWork(u) \cup {o})
        BY <1>4, <3>3, FS_Subset
    <3>5. Cardinality(InWork(u)') \in Nat /\ Cardinality(InWork(u) \cup {o}) \in Nat
        BY <3>3, <3>4, FS_CardinalityType
    <3> QED
        BY <2>1, <3>1, <3>2, <3>3, <3>4, <3>5, TablesAssumption
  <2>2. CASE v # u
    <3>1. Cardinality(InWork(v)) <= MaxPending
        BY DEF InWorkBound
    <3> QED
        BY <1>5, <2>2, <3>1, InWorkShrinks, InWorkFinite, TablesAssumption
  <2> QED
      BY <2>1, <2>2
<1> QED
    BY <1>7, <1>8, <1>9, <1>10, <1>11, <1>12

\* Completing pays the holder of the taken offer and takes the order out of work.
LEMMA CompleteSafe ==
    ASSUME SafeInv, TypeOK', NEW o \in Orders, NEW u \in Users, Complete(o, u)
    PROVE  SafeInv'
<1> USE DEF SafeInv
<1>1. /\ UNCHANGED <<takenBy, offer, taking>>
      /\ status' = [status EXCEPT ![o] = "completed"]
      /\ ledger' = [ledger EXCEPT ![<<o, u>>] = @ + 1]
      /\ status[o] = "taken" /\ takenBy[o] = u
    BY DEF Complete, Resolve, InWork
<1>2. \A v : InWork(v)' \subseteq InWork(v) \ {o}
    BY <1>1 DEF InWork, TypeOK, TablesTypeOK
<1>3. TakerHoldsOffer'
    BY <1>1 DEF TakerHoldsOffer, TypeOK, TablesTypeOK
<1>4. \A r \in Rows : r # <<o, u>> => ledger'[r] = ledger[r]
    BY <1>1 DEF TypeOK, TablesTypeOK
<1>5. PaidWasTaken'
  <2>1. offer[<<o, u>>] = "taken"
      BY <1>1 DEF TakerHoldsOffer
  <2> QED
      BY <1>1, <1>4, <2>1 DEF PaidWasTaken
<1>6. NeverPaidBefore'
  <2> SUFFICES ASSUME NEW v \in Users, NEW p \in InWork(v)' PROVE ledger'[<<p, v>>] = 0
      BY DEF NeverPaidBefore
  <2>1. p \in InWork(v) /\ p # o /\ <<p, v>> \in Rows
      BY <1>2 DEF InWork, Rows
  <2> QED
      BY <1>4, <2>1 DEF NeverPaidBefore
<1>7. OneTakePerUser'
    BY <1>1 DEF OneTakePerUser
<1>8. RoomToTake'
  <2> SUFFICES ASSUME NEW r \in taking PROVE Cardinality(InWork(r[2]))' < MaxPending
      BY <1>1 DEF RoomToTake
  <2>1. Cardinality(InWork(r[2])) < MaxPending
      BY DEF RoomToTake
  <2> QED
      BY <1>2, <2>1, InWorkShrinks, InWorkFinite, TablesAssumption
<1>9. InWorkBound'
  <2> SUFFICES ASSUME NEW v \in Users PROVE Cardinality(InWork(v))' <= MaxPending
      BY DEF InWorkBound
  <2>1. Cardinality(InWork(v)) <= MaxPending
      BY DEF InWorkBound
  <2> QED
      BY <1>2, <2>1, InWorkShrinks, InWorkFinite, TablesAssumption
<1> QED
    BY <1>3, <1>5, <1>6, <1>7, <1>8, <1>9

LEMMA SafeInductive ==
    ASSUME SafeInv, TypeOK', [Next]_vars
    PROVE  SafeInv'
<1>1. TypeOK
    BY DEF SafeInv
<1> QED
    BY <1>1, StepKinds, NeutralSafe, BeginTakeSafe, CommitTakeSafe, CompleteSafe

LEMMA SafetyOfTakes == Spec => []SafeInv
<1>1. Init => SafeInv
    BY InitSafe
<1>2. SafeInv /\ TypeOK' /\ [Next]_vars => SafeInv'
    BY SafeInductive
<1> QED
    BY <1>1, <1>2, TypeCorrect, PTL DEF Spec
----------------------------------------------------------------------------
\* No user ever has more than MAX_ORDERS_PENDING orders in work: take() counts under the
\* lock on the profile row, and nothing else makes an order taken.
THEOREM WorkIsBounded == Spec => []InWorkBound
<1>1. SafeInv => InWorkBound
    BY DEF SafeInv
<1> QED
    BY <1>1, SafetyOfTakes, PTL

\* Whoever has an order in work took an offer of it that was his and open.
THEOREM TakersHoldOffers == Spec => []TakerHoldsOffer
<1>1. SafeInv => TakerHoldsOffer
    BY DEF SafeInv
<1> QED
    BY <1>1, SafetyOfTakes, PTL

\* complete() never meets the unique index on (profile_id, order_id): nobody is paid twice
\* for an order, however often its status was overwritten and offered again.
THEOREM PaidOnce == Spec => []NeverPaidBefore
<1>1. SafeInv => NeverPaidBefore
    BY DEF SafeInv
<1> QED
    BY <1>1, SafetyOfTakes, PTL

\* No step changes an answered offer.
LEMMA AnswersStay ==
    ASSUME TypeOK, [Next]_vars
    PROVE  Answered
<1>1. ASSUME NEW o \in Orders, NEW u \in Users,
             BeginTake(o, u) \/ CommitTake(o, u) \/ Complete(o, u)
      PROVE  Answered
  <2>1. CASE BeginTake(o, u) \/ Complete(o, u)
      BY <2>1 DEF BeginTake, Complete, Answered, tableVars, pgVars
  <2>2. CASE CommitTake(o, u)
      BY <2>2 DEF CommitTake, Takeable, Answered, Open
  <2> QED
      BY <1>1, <2>1, <2>2
<1> QED
    BY <1>1, StepKinds DEF Neutral

\* A taken or expired offer never changes again, whoever comes second.
THEOREM OffersAnsweredOnce == Spec => AnsweredOnce
<1>1. TypeOK /\ [Next]_vars => [\A r \in Rows : offer[r] \in {"taken", "expired"} => offer'[r] = offer[r]]_vars
    BY AnswersStay DEF Answered
<1> QED
    BY <1>1, TypeCorrect, PTL DEF Spec, AnsweredOnce
=============================================================================

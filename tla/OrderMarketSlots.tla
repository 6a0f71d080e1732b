-------------------------- MODULE OrderMarketSlots ---------------------------
(***************************************************************************)
(* The slot counters in Redis against the tables, for any number of orders *)
(* and users and any limit. A counter is never lower than the offers and   *)
(* orders in work of its user plus the slots somebody has still to give    *)
(* back, and equal to them as long as nothing fails.                       *)
(*                                                                         *)
(* Every step either moves as much on the one side as on the other, or     *)
(* leaks: a crash forgets slots that were to be released, an unconditional *)
(* UPDATE takes an order out of work behind its counter. What has to be    *)
(* shown for the rest is that nobody releases a slot that is not his to    *)
(* release, above all the rollback of an offer, which gives the slot back  *)
(* without looking whether it expired anything.                            *)
(***************************************************************************)
EXTENDS OrderMarketCalm

\* The rollback is not to meet an offer somebody else has answered: a message that failed
\* was not delivered, and no clean expires the offer while the message is on its way.
Careful ==
    /\ Env \cap {"taskError", "ghostSend"} = {}
    /\ ~({"clean", "sendError"} \subseteq Env)

\* Calm, and no process loses what it had still to do.
Faultless == Calm /\ Careful /\ Env \cap {"crash", "exception"} = {}

Count(R, u) == Cardinality({r \in R : r[2] = u})
Opens(u) == Cardinality({o \in Orders : offer[<<o, u>>] \in Open})
Works(u) == Cardinality(InWork(u))

Reserving(u) == {t \in Tasks : task[t].user = u /\ task[t].pc \in {"record", "releaseOne"}}
Reserves(u) == Cardinality(Reserving(u))

Leaving(u) == {c \in chores : c.step \in {"vacate", "release"} /\ c.user = u}
Leaves(u) == Cardinality(Leaving(u))

\* Held(u) + InTransit(u), given that no take owes anybody a slot.
Load(u) ==
    Opens(u) + Works(u) + Reserves(u)
    + Count(sweep.expired, u) + Count(lapsed, u) + Count(cleaned, u) + Leaves(u)

\* The rows a process has expired and still to release are let go before the next ones.
HandsFree ==
    /\ claimed = {} \/ lapsed = {}
    /\ sweep.expired # {} => sweep.pc = "release"
    /\ \A r \in cleaned : offer[r] = "expired"

\* What a handler has still to release is an order its user took and no longer has.
LeavingIsOver ==
    /\ IsFiniteSet(chores)
    /\ \A c \in chores :
        /\ c.owed = {}
        /\ c.step \in {"vacate", "release"} =>
            offer[<<c.order, c.user>>] = "taken" /\ c.order \notin InWork(c.user)

\* Takes and deadlines are about messages that were delivered.
DeliveredFirst == taking \cup deadlines \cup claimed \subseteq delivered

\* The offer a task may roll back is open, and nobody has seen it.
OwnTask(t) ==
    /\ task[t].pc = "expireOne" => "sendError" \in Env /\ Row(t) \notin delivered
    /\ task[t].pc = "expireOne" \/ (task[t].pc = "send" /\ "clean" \notin Env) =>
        offer[Row(t)] \in Open
    /\ task[t].pc = "schedule" => Row(t) \in delivered

RollbackIsOwn == \A t \in Tasks : OwnTask(t)

SlotsInv == HandsFree /\ LeavingIsOver /\ DeliveredFirst /\ RollbackIsOwn

Covered == \A u \in Users : pending[u] >= Load(u)
Balanced == \A u \in Users : pending[u] = Load(u)

\* The same moves on both sides, or a slot is forgotten that was to be released.
Kept == \A u \in Users : pending'[u] - Load(u)' = pending[u] - Load(u)
Leaked == UNCHANGED pending /\ \A u \in Users : Load(u)' <= Load(u)

\* What makes a leak: a process that stops, or an order in work that is overwritten.
Leaky ==
    \/ Env \cap {"crash", "exception", "clean"} # {}
    \/ \E t \in Tasks : task[t].pc \in {"noTakers", "mark"} /\ status[t[2]] = "taken"
----------------------------------------------------------------------------
(* Counting.                                                                *)

LEMMA OneMore ==
    ASSUME NEW S, IsFiniteSet(S), NEW x, x \notin S
    PROVE  Cardinality(S \cup {x}) = Cardinality(S) + 1
    BY FS_AddElement

LEMMA OneLess ==
    ASSUME NEW S, IsFiniteSet(S), NEW x \in S
    PROVE  Cardinality(S \ {x}) = Cardinality(S) - 1
    BY FS_RemoveElement

LEMMA TasksFinite == IsFiniteSet(Tasks)
    BY TablesAssumption, FanoutAssumption, FS_Product DEF Tasks

\* Everything that is counted is finite.
LEMMA CountsAreNat ==
    ASSUME TypeOK, IsFiniteSet(chores), NEW u
    PROVE  /\ Opens(u) \in Nat /\ Works(u) \in Nat /\ Reserves(u) \in Nat /\ Leaves(u) \in Nat
           /\ \A R \in SUBSET Rows : Count(R, u) \in Nat
           /\ Count(sweep.expired, u) \in Nat
           /\ Count(lapsed, u) \in Nat
           /\ Count(cleaned, u) \in Nat
<1>1. Opens(u) \in Nat
  <2>1. {o \in Orders : offer[<<o, u>>] \in Open} \in SUBSET Orders
      OBVIOUS
  <2> QED
      BY <2>1, TablesAssumption, FS_Subset, FS_CardinalityType DEF Opens
<1>2. Works(u) \in Nat
    BY InWorkFinite DEF Works
<1>3. Reserves(u) \in Nat
  <2>1. Reserving(u) \in SUBSET Tasks
      BY DEF Reserving
  <2> QED
      BY <2>1, TasksFinite, FS_Subset, FS_CardinalityType DEF Reserves
<1>4. Leaves(u) \in Nat
  <2>1. Leaving(u) \in SUBSET chores
      BY DEF Leaving
  <2> QED
      BY <2>1, FS_Subset, FS_CardinalityType DEF Leaves
<1>5. \A R \in SUBSET Rows : Count(R, u) \in Nat
    BY RowsFinite DEF Count
<1>6. sweep.expired \in SUBSET Rows /\ lapsed \in SUBSET Rows /\ cleaned \in SUBSET Rows
    BY DEF TypeOK, FanoutTypeOK, ExpiryTypeOK, IntakeTypeOK
<1> QED
    BY <1>1, <1>2, <1>3, <1>4, <1>5, <1>6

LEMMA Unmoved ==
    ASSUME NEW u
    PROVE  /\ UNCHANGED offer => Opens(u)' = Opens(u)
           /\ UNCHANGED <<status, takenBy>> => Works(u)' = Works(u)
           /\ UNCHANGED task => Reserves(u)' = Reserves(u)
           /\ UNCHANGED chores => Leaves(u)' = Leaves(u)
    BY DEF Opens, Works, InWork, Reserves, Reserving, Leaves, Leaving

LEMMA CountNone == \A u : Count({}, u) = 0
<1>1. \A u : {r \in {} : r[2] = u} = {}
    OBVIOUS
<1> QED
    BY <1>1, FS_EmptySet DEF Count

\* A release that gives back what was in use lowers the counter by as much.
LEMMA ReleasePays ==
    ASSUME TypeOK, IsFiniteSet(chores), NEW R \in SUBSET Rows, Release(R), NEW u \in Users,
           Count(R, u) <= pending[u]
    PROVE  pending'[u] = pending[u] - Count(R, u)
<1>1. pending[u] \in Nat /\ Count(R, u) \in Nat
    BY CountsAreNat DEF TypeOK, TablesTypeOK
<1>2. pending'[u] = IF Count(R, u) < pending[u] THEN pending[u] - Count(R, u) ELSE 0
    BY DEF Release, Count
<1> QED
    BY <1>1, <1>2

\* A set of rows of one user has as many rows as orders.
LEMMA RowsOfUser ==
    ASSUME NEW O \in SUBSET Orders, NEW u
    PROVE  Cardinality({<<o, u>> : o \in O}) = Cardinality(O)
<1> DEFINE T == {<<o, u>> : o \in O}
           f == [o \in O |-> <<o, u>>]
<1>1. f \in Bijection(O, T)
    BY DEF Bijection, Injection, Surjection, IsInjective
<1>2. IsFiniteSet(O)
    BY TablesAssumption, FS_Subset
<1> QED
    BY <1>1, <1>2, FS_Bijection DEF ExistsBijection

\* What an UPDATE expires leaves the open offers of its users, one by one.
LEMMA ExpiredCount ==
    ASSUME TypeOK, NEW R \in SUBSET Rows, ExpireOffers(R), NEW u \in Users
    PROVE  /\ Count({r \in R : offer[r] \in Open}, u) \in Nat
           /\ Opens(u)' \in Nat
           /\ Opens(u) = Opens(u)' + Count({r \in R : offer[r] \in Open}, u)
<1> DEFINE S == {o \in Orders : offer[<<o, u>>] \in Open}
           T == {o \in Orders : <<o, u>> \in R /\ offer[<<o, u>>] \in Open}
           L == {r \in R : offer[r] \in Open}
<1>1. {o \in Orders : offer'[<<o, u>>] \in Open} = S \ T
    BY DEF ExpireOffers, Rows, Open
<1>2. {r \in L : r[2] = u} = {<<o, u>> : o \in T}
  <2>1. \A r \in L : r = <<r[1], r[2]>> /\ r[1] \in Orders /\ r \in R /\ offer[r] \in Open
      BY DEF Rows
  <2>2. \A r \in L : r[2] = u => r[1] \in T /\ r = <<r[1], u>>
      BY <2>1
  <2>3. \A o \in T : <<o, u>> \in L /\ <<o, u>>[2] = u
      OBVIOUS
  <2> HIDE DEF L, T
  <2>4. {r \in L : r[2] = u} \subseteq {<<o, u>> : o \in T}
      BY <2>2
  <2>5. {<<o, u>> : o \in T} \subseteq {r \in L : r[2] = u}
      BY <2>3
  <2> QED
      BY <2>4, <2>5
<1>3. Cardinality({<<o, u>> : o \in T}) = Cardinality(T)
  <2>1. T \in SUBSET Orders
      OBVIOUS
  <2> QED
      BY <2>1, RowsOfUser
<1>4. IsFiniteSet(S) /\ IsFiniteSet(T)
    BY TablesAssumption, FS_Subset
<1>5. S \cap T = T
    OBVIOUS
<1>6. IsFiniteSet(S \ T) /\ Cardinality(S \ T) = Cardinality(S) - Cardinality(T)
  <2> HIDE DEF S, T
  <2>1. IsFiniteSet(S \ T) /\ Cardinality(S \ T) = Cardinality(S) - Cardinality(S \cap T)
      BY <1>4, FS_Difference
  <2> QED
      BY <1>5, <2>1
<1>7. Cardinality(S) \in Nat /\ Cardinality(T) \in Nat /\ Cardinality(S \ T) \in Nat
  <2> HIDE DEF S, T
  <2> QED
      BY <1>4, <1>6, FS_CardinalityType
<1>8. Opens(u) = Cardinality(S) /\ Opens(u)' = Cardinality(S \ T)
    BY <1>1 DEF Opens
<1>9. Count(L, u) = Cardinality(T)
    BY <1>2, <1>3 DEF Count
<1> HIDE DEF S, T, L
<1>10. Opens(u) = Opens(u)' + Count(L, u) /\ Count(L, u) \in Nat /\ Opens(u)' \in Nat
    BY <1>6, <1>7, <1>8, <1>9
<1> QED
    BY <1>10 DEF L

\* One row of the table opened.
LEMMA OpenedCount ==
    ASSUME TypeOK, NEW r \in Rows, offer[r] = "none", offer' = [offer EXCEPT ![r] = "offered"],
           NEW u \in Users
    PROVE  Opens(u)' = Opens(u) + (IF u = r[2] THEN 1 ELSE 0)
<1> DEFINE S == {o \in Orders : offer[<<o, u>>] \in Open}
           N == {o \in Orders : offer'[<<o, u>>] \in Open}
<1>0. \A q \in Rows : offer'[q] = IF q = r THEN "offered" ELSE offer[q]
    BY DEF TypeOK, TablesTypeOK
<1>1. r = <<r[1], r[2]>> /\ r[1] \in Orders
    BY DEF Rows
<1>2. \A o \in Orders : <<o, u>> \in Rows
    BY DEF Rows
<1>3. CASE u = r[2]
  <2>1. N = S \cup {r[1]} /\ r[1] \notin S
      BY <1>0, <1>1, <1>2, <1>3 DEF Open
  <2>2. IsFiniteSet(S)
      BY TablesAssumption, FS_Subset
  <2> QED
      BY <1>3, <2>1, <2>2, OneMore DEF Opens
<1>4. CASE u # r[2]
  <2>1. N = S
      BY <1>0, <1>1, <1>2, <1>4
  <2>2. Opens(u) \in Nat
    <3>1. IsFiniteSet(S)
        BY TablesAssumption, FS_Subset
    <3> QED
        BY <3>1, FS_CardinalityType DEF Opens
  <2>3. Opens(u)' = Opens(u)
      BY <2>1 DEF Opens
  <2> QED
      BY <1>4, <2>2, <2>3
<1> QED
    BY <1>3, <1>4

Counted(k, u) == k.user = u /\ k.pc \in {"record", "releaseOne"}
One(b) == IF b THEN 1 ELSE 0

\* One task moves: what it reserves now in place of what it reserved before.
LEMMA TaskCount ==
    ASSUME TypeOK, NEW t \in Tasks, NEW k, task' = [task EXCEPT ![t] = k], NEW u
    PROVE  Reserves(u)' = Reserves(u) + One(Counted(k, u)) - One(Counted(task[t], u))
<1>0. \A x \in Tasks : task'[x] = IF x = t THEN k ELSE task[x]
    BY DEF TypeOK, FanoutTypeOK
<1>1. IsFiniteSet(Reserving(u)) /\ Cardinality(Reserving(u)) \in Nat
  <2>1. Reserving(u) \in SUBSET Tasks
      BY DEF Reserving
  <2> QED
      BY <2>1, TasksFinite, FS_Subset, FS_CardinalityType
<1>2. t \in Reserving(u) <=> Counted(task[t], u)
    BY DEF Reserving, Counted
<1>3. CASE Counted(k, u) /\ ~Counted(task[t], u)
  <2>1. Reserving(u)' = Reserving(u) \cup {t}
      BY <1>0, <1>3 DEF Reserving, Counted
  <2> QED
      BY <1>1, <1>2, <1>3, <2>1, OneMore DEF Reserves, One
<1>4. CASE ~Counted(k, u) /\ Counted(task[t], u)
  <2>1. Reserving(u)' = Reserving(u) \ {t}
      BY <1>0, <1>4 DEF Reserving, Counted
  <2> QED
      BY <1>1, <1>2, <1>4, <2>1, OneLess DEF Reserves, One
<1>5. CASE Counted(k, u) <=> Counted(task[t], u)
  <2>1. Reserving(u)' = Reserving(u)
      BY <1>0, <1>5 DEF Reserving, Counted
  <2> QED
      BY <1>1, <1>5, <2>1 DEF Reserves, One
<1> QED
    BY <1>3, <1>4, <1>5

\* An UPDATE that takes an order to some status but "taken" at most takes work away, and
\* takes none away if the order was not taken.
LEMMA WorksOverwritten ==
    ASSUME TypeOK, NEW o \in Orders, NEW s, s # "taken", status' = [status EXCEPT ![o] = s],
           UNCHANGED takenBy, NEW u
    PROVE  /\ Works(u)' \in Nat
           /\ Works(u)' <= Works(u)
           /\ status[o] # "taken" => Works(u)' = Works(u)
           /\ o \in InWork(u) => Works(u)' = Works(u) - 1
           /\ o \notin InWork(u) => Works(u)' = Works(u)
<1>1. InWork(u)' = InWork(u) \ {o}
    BY DEF InWork, TypeOK, TablesTypeOK
<1>2. IsFiniteSet(InWork(u)) /\ Cardinality(InWork(u)) \in Nat
    BY InWorkFinite
<1>3. o \notin InWork(u) => InWork(u)' = InWork(u)
    BY <1>1
<1>4. o \in InWork(u) => Cardinality(InWork(u)') = Cardinality(InWork(u)) - 1
    BY <1>1, <1>2, OneLess
<1>5. Works(u)' = Cardinality(InWork(u)') /\ Works(u) = Cardinality(InWork(u))
    BY DEF Works
<1>6. status[o] # "taken" => o \notin InWork(u)
    BY DEF InWork
<1>7. Works(u)' \in Nat
  <2>1. InWork(u)' \subseteq InWork(u)
      BY <1>1
  <2> QED
      BY <2>1, InWorkShrinks DEF Works
<1> QED
    BY <1>2, <1>3, <1>4, <1>5, <1>6, <1>7
----------------------------------------------------------------------------
(* Whose a slot is to release: SlotsInv is inductive in careful             *)
(* surroundings.                                                            *)

\* An order its taker no longer has never comes back to him.
LEMMA OverStaysOver ==
    ASSUME TypeOK, [Next]_vars, NEW o \in Orders, NEW u \in Users,
           offer[<<o, u>>] = "taken", o \notin InWork(u)
    PROVE  offer'[<<o, u>>] = "taken" /\ o \notin InWork(u)'
<1>1. <<o, u>> \in Rows
    BY DEF Rows
<1>2. offer'[<<o, u>>] = "taken"
    BY <1>1, AnswersStay DEF Answered
<1>3. CASE Neutral
    BY <1>2, <1>3 DEF Neutral, InWork
<1>4. ASSUME NEW p \in Orders, NEW v \in Users,
             BeginTake(p, v) \/ CommitTake(p, v) \/ Complete(p, v)
      PROVE  o \notin InWork(u)'
  <2>1. CASE BeginTake(p, v)
      BY <2>1 DEF BeginTake, InWork, tableVars, pgVars
  <2>2. CASE Complete(p, v)
      BY <2>2 DEF Complete, Resolve, InWork, TypeOK, TablesTypeOK
  <2>3. CASE CommitTake(p, v)
    <3>1. /\ <<p, v>> # <<o, u>>
          /\ status' = [status EXCEPT ![p] = "taken"]
          /\ takenBy' = [takenBy EXCEPT ![p] = v]
        BY <2>3 DEF CommitTake, Takeable, Open
    <3> QED
        BY <3>1 DEF InWork, TypeOK, TablesTypeOK
  <2> QED
      BY <1>4, <2>1, <2>2, <2>3
<1> QED
    BY <1>2, <1>3, <1>4, StepKinds

\* Chores may go, and one may come that owes nothing and, if it is to release a slot,
\* one of an order that is over.
LEMMA LeavingGrows ==
    ASSUME TypeOK, [Next]_vars, LeavingIsOver, NEW x, chores' \subseteq chores \cup {x},
           x \in chores' =>
            /\ x.owed = {}
            /\ x.step \in {"vacate", "release"} =>
                offer'[<<x.order, x.user>>] = "taken" /\ x.order \notin InWork(x.user)'
    PROVE  LeavingIsOver'
<1>1. IsFiniteSet(chores')
  <2>1. IsFiniteSet(chores \cup {x})
      BY FS_AddElement DEF LeavingIsOver
  <2> QED
      BY <2>1, FS_Subset
<1>2. ASSUME NEW c \in chores', c \in chores
      PROVE  /\ c.owed = {}
             /\ c.step \in {"vacate", "release"} =>
                 offer'[<<c.order, c.user>>] = "taken" /\ c.order \notin InWork(c.user)'
  <2>1. c.order \in Orders /\ c.user \in Users
      BY <1>2 DEF TypeOK, LifecycleTypeOK, ChoreTypes
  <2> QED
      BY <1>2, <2>1, OverStaysOver DEF LeavingIsOver
<1> QED
    BY <1>1, <1>2 DEF LeavingIsOver

LEMMA LeavingShrinks ==
    ASSUME TypeOK, [Next]_vars, LeavingIsOver, chores' \subseteq chores
    PROVE  LeavingIsOver'
<1>1. chores' \subseteq chores \cup {NoTask}
    OBVIOUS
<1>2. IsFiniteSet(chores')
    BY FS_Subset DEF LeavingIsOver
<1>3. ASSUME NEW c \in chores'
      PROVE  /\ c.owed = {}
             /\ c.step \in {"vacate", "release"} =>
                 offer'[<<c.order, c.user>>] = "taken" /\ c.order \notin InWork(c.user)'
  <2>1. c \in chores /\ c.order \in Orders /\ c.user \in Users
      BY <1>3 DEF TypeOK, LifecycleTypeOK, ChoreTypes
  <2> QED
      BY <2>1, OverStaysOver DEF LeavingIsOver
<1> QED
    BY <1>2, <1>3 DEF LeavingIsOver

\* A row that is expired stays expired.
LEMMA CleanedStays ==
    ASSUME TypeOK, [Next]_vars, HandsFree, NEW r \in cleaned
    PROVE  offer'[r] = "expired"
    BY AnswersStay DEF Answered, HandsFree, TypeOK, IntakeTypeOK

\* What becomes of the offers of tasks that do not move: nobody answers an offer nobody has
\* seen, but for a clean.
LEMMA RollbackKept ==
    ASSUME Careful, TypeOK, AskingInv, RollbackIsOwn, UNCHANGED <<task, delivered>>,
           "clean" \in Env \/
            \A r \in Rows \ delivered : offer[r] \in Open => offer'[r] \in Open
    PROVE  RollbackIsOwn'
<1> SUFFICES ASSUME NEW t \in Tasks PROVE OwnTask(t)'
    BY DEF RollbackIsOwn
<1>1. OwnTask(t) /\ InformedTask(t)
    BY DEF RollbackIsOwn, AskingInv, Informed
<1>2. Row(t)' = Row(t)
    BY DEF Row
<1>3. CASE task[t].pc \in {"send", "expireOne"}
  <2>1. Row(t) \in Rows
      BY <1>3, OfferingTask DEF TypeOK, FanoutTypeOK, OfferPCs
  <2>2. Row(t) \notin delivered
      BY <1>1, <1>3 DEF OwnTask, InformedTask
  <2>3. "clean" \in Env => task[t].pc # "expireOne"
      BY <1>1 DEF OwnTask, Careful
  <2> QED
      BY <1>1, <1>2, <1>3, <2>1, <2>2, <2>3 DEF OwnTask
<1>4. CASE task[t].pc \notin {"send", "expireOne"}
    BY <1>1, <1>2, <1>4 DEF OwnTask
<1> QED
    BY <1>3, <1>4
----------------------------------------------------------------------------
LEMMA ExpirerOwns ==
    ASSUME Careful, TypeOK, [Next]_vars, AskingInv, SlotsInv, Expirer
    PROVE  SlotsInv'
<1> USE DEF pgVars, redisVars, tableVars, fanoutVars, lifecycleVars, intakeVars
<1>1. UNCHANGED <<task, sweep, delivered, taking, chores, cleaned>>
    BY DEF Expirer, ExpiryNext, ExpiryStep, ExpireMany, ReleaseLapsed, ClaimLost, LapseLost,
        ClaimDue
<1>2. /\ claimed' = {} \/ lapsed' = {}
      /\ claimed' \cup deadlines' \subseteq claimed \cup deadlines
    BY DEF SlotsInv, HandsFree, Expirer, ExpiryNext, ExpiryStep, ExpireMany, ReleaseLapsed,
        ClaimLost, LapseLost, ClaimDue
<1>3. HandsFree'
    BY <1>1, <1>2, CleanedStays DEF SlotsInv, HandsFree
<1>4. LeavingIsOver'
    BY <1>1, LeavingShrinks DEF SlotsInv
<1>5. DeliveredFirst'
    BY <1>1, <1>2 DEF SlotsInv, DeliveredFirst
<1>6. offer' = offer \/ ExpireOffers(claimed)
    BY DEF Expirer, ExpiryNext, ExpiryStep, ExpireMany, ReleaseLapsed, ClaimLost, LapseLost,
        ClaimDue
<1>7. \A r \in Rows \ delivered : offer'[r] = offer[r]
    BY <1>6 DEF ExpireOffers, SlotsInv, DeliveredFirst
<1>8. RollbackIsOwn'
    BY <1>1, <1>7, RollbackKept DEF SlotsInv
<1> QED
    BY <1>3, <1>4, <1>5, <1>8 DEF SlotsInv

LEMMA ApiOwns ==
    ASSUME Careful, TypeOK, [Next]_vars, AskingInv, SlotsInv, Api
    PROVE  SlotsInv'
<1> USE DEF pgVars, redisVars, tableVars, fanoutVars, lifecycleVars, expiryVars
<1>1. UNCHANGED <<task, sweep, delivered, taking, chores, deadlines, claimed, lapsed>>
    BY DEF Api, IntakeNext, Create, Clean, ReleaseCleaned, ApiCrash
<1>2. \A r \in cleaned' : offer'[r] = "expired"
  <2>1. ASSUME NEW o \in Orders, Clean(o)
        PROVE  \A r \in OpenRows({o}) : offer'[r] = "expired"
      BY <2>1 DEF Clean, ExpireOffers, OpenRows
  <2>2. cleaned' \subseteq cleaned \/ \E o \in Orders : Clean(o)
      BY DEF Api, IntakeNext, Create, ReleaseCleaned, ApiCrash
  <2> QED
      BY <2>1, <2>2, CleanedStays DEF SlotsInv, Clean
<1>3. HandsFree'
    BY <1>1, <1>2 DEF SlotsInv, HandsFree
<1>4. LeavingIsOver'
    BY <1>1, LeavingShrinks DEF SlotsInv
<1>5. DeliveredFirst'
    BY <1>1 DEF SlotsInv, DeliveredFirst
<1>6. "clean" \in Env \/ UNCHANGED offer
    BY DEF Api, IntakeNext, Create, Clean, ReleaseCleaned, ApiCrash
<1>7. RollbackIsOwn'
    BY <1>1, <1>6, RollbackKept DEF SlotsInv
<1> QED
    BY <1>3, <1>4, <1>5, <1>7 DEF SlotsInv

LEMMA TimeOwns ==
    ASSUME Careful, TypeOK, [Next]_vars, AskingInv, SlotsInv, Time
    PROVE  SlotsInv'
<1> USE DEF pgVars, redisVars, tableVars, fanoutVars, lifecycleVars, intakeVars, expiryVars
<1>1. UNCHANGED <<task, sweep, delivered, taking, chores, deadlines, claimed, lapsed, cleaned>>
    BY DEF Time, GrowStale
<1>2. HandsFree'
    BY <1>1, CleanedStays DEF SlotsInv, HandsFree
<1>3. LeavingIsOver'
    BY <1>1, LeavingShrinks DEF SlotsInv
<1>4. \A r \in Rows : offer[r] \in Open => offer'[r] \in Open
    BY DEF Time, GrowStale, Open, TypeOK, TablesTypeOK
<1>5. RollbackIsOwn'
    BY <1>1, <1>4, RollbackKept DEF SlotsInv
<1> QED
    BY <1>1, <1>2, <1>3, <1>5 DEF SlotsInv, DeliveredFirst

LEMMA BotOwns ==
    ASSUME Careful, TypeOK, [Next]_vars, SafeInv, AskingInv, OffersInv, SlotsInv, Bot
    PROVE  SlotsInv'
<1> USE DEF pgVars, redisVars, tableVars, fanoutVars, expiryVars, intakeVars
<1>1. UNCHANGED <<task, sweep, delivered, deadlines, claimed, lapsed, cleaned>>
    BY DEF Bot, LifecycleNext, UserStep, EndTake, BeginTake, CommitTake, AbortTake, Complete,
        Cancel, TimerFires, ChoreStep, Settle, Arm, TimeOut, Vacate, Clear, ChoreRaises, BotCrash
<1>2. HandsFree'
    BY <1>1, CleanedStays DEF SlotsInv, HandsFree
<1>3. DeliveredFirst'
  <2>1. (\E o \in Orders, u \in Users : BeginTake(o, u)) \/ taking' \subseteq taking
      BY DEF Bot, LifecycleNext, UserStep, EndTake, CommitTake, AbortTake, Complete,
        Cancel, TimerFires, ChoreStep, Settle, Arm, TimeOut, Vacate, Clear, ChoreRaises, BotCrash
  <2>2. taking' \subseteq taking \cup delivered
      BY <2>1 DEF BeginTake
  <2> QED
      BY <1>1, <2>2 DEF SlotsInv, DeliveredFirst
<1>4. ASSUME UNCHANGED offer, LeavingIsOver'
      PROVE  SlotsInv'
    BY <1>1, <1>2, <1>3, <1>4, RollbackKept DEF SlotsInv
<1>5. ASSUME NEW o \in Orders, NEW u \in Users, CommitTake(o, u)
      PROVE  SlotsInv'
  <2> DEFINE rivals == {v \in Users \ {u} : offer[<<o, v>>] \in Open}
  <2>1. offer[<<o, u>>] \in Open /\ <<o, u>> \in delivered
      BY <1>5 DEF CommitTake, Takeable, SlotsInv, DeliveredFirst
  <2>2. rivals = {}
      BY <2>1 DEF OffersInv, AtMostOneOpen
  <2>3. chores' = chores \cup {Chore("arm", o, u, {})}
      BY <1>5, <2>2 DEF CommitTake
  <2>4. LeavingIsOver'
      BY <2>3, LeavingGrows DEF SlotsInv, Chore
  <2>5. \A r \in Rows \ delivered : offer[r] \in Open => offer'[r] \in Open
    <3> SUFFICES ASSUME NEW r \in Rows \ delivered, offer[r] \in Open PROVE offer'[r] \in Open
        OBVIOUS
    <3>1. r = <<r[1], r[2]>> /\ r[1] \in Orders /\ r[2] \in Users
        BY DEF Rows
    <3>2. r[1] # o
        BY <2>1, <3>1 DEF OffersInv, AtMostOneOpen
    <3> QED
        BY <1>5, <2>1, <3>2 DEF CommitTake
  <2>6. RollbackIsOwn'
      BY <1>1, <2>5, RollbackKept DEF SlotsInv
  <2> QED
      BY <1>2, <1>3, <2>4, <2>6 DEF SlotsInv
<1>6. ASSUME NEW o \in Orders, NEW u \in Users, BeginTake(o, u) \/ AbortTake(o, u)
      PROVE  SlotsInv'
    BY <1>4, <1>6, LeavingShrinks DEF BeginTake, AbortTake, SlotsInv
<1>7. ASSUME NEW o \in Orders, NEW u \in Users, NEW s, s # "taken", Resolve(o, u, s),
             UNCHANGED <<takenBy, offer>>
      PROVE  offer'[<<o, u>>] = "taken" /\ o \notin InWork(u)'
    BY <1>7 DEF Resolve, InWork, SafeInv, TakerHoldsOffer, TypeOK, TablesTypeOK
<1>8. ASSUME NEW o \in Orders, NEW u \in Users, Complete(o, u) \/ Cancel(o, u)
      PROVE  SlotsInv'
  <2>1. /\ UNCHANGED <<takenBy, offer>>
        /\ chores' = chores \cup {Chore("release", o, u, {})}
        /\ Resolve(o, u, "completed") \/ Resolve(o, u, "cancelled")
      BY <1>8 DEF Complete, Cancel
  <2>2. offer'[<<o, u>>] = "taken" /\ o \notin InWork(u)'
      BY <1>7, <2>1
  <2>3. LeavingIsOver'
      BY <2>1, <2>2, LeavingGrows DEF SlotsInv, Chore
  <2> QED
      BY <1>4, <2>1, <2>3
<1>9. ASSUME NEW c \in chores, ChoreStep(c) \/ ChoreRaises(c)
      PROVE  SlotsInv'
  <2>0. c.order \in Orders /\ c.user \in Users
      BY DEF TypeOK, LifecycleTypeOK, ChoreTypes
  <2>1. UNCHANGED <<takenBy, offer>>
      BY <1>9 DEF ChoreStep, Settle, Arm, TimeOut, Vacate, Clear, ChoreRaises
  <2>2. CASE TimeOut(c)
    <3>1. CASE Resolve(c.order, c.user, "timed_out") /\ Follow(c, "vacate")
      <4>1. offer'[<<c.order, c.user>>] = "taken" /\ c.order \notin InWork(c.user)'
          BY <1>7, <2>0, <2>1, <3>1
      <4> DEFINE x == Chore("vacate", c.order, c.user, {})
      <4>2. chores' \subseteq chores \cup {x}
          BY <3>1 DEF Follow
      <4>3. x.owed = {} /\ x.order = c.order /\ x.user = c.user
          BY DEF Chore
      <4> HIDE DEF x
      <4>4. LeavingIsOver'
          BY <4>1, <4>2, <4>3, LeavingGrows DEF SlotsInv
      <4> QED
          BY <1>4, <2>1, <4>4
    <3>2. CASE Drop(c)
        BY <1>4, <2>1, <3>2, LeavingShrinks DEF SlotsInv, Drop
    <3> QED
        BY <2>2, <3>1, <3>2 DEF TimeOut
  <2>3. ASSUME NEW step \in {"arm", "clear"}, Follow(c, step)
        PROVE  SlotsInv'
    <3> DEFINE x == Chore(step, c.order, c.user, {})
    <3>1. chores' \subseteq chores \cup {x}
        BY <2>3 DEF Follow
    <3>2. x.owed = {} /\ x.step = step
        BY DEF Chore
    <3> HIDE DEF x
    <3>3. LeavingIsOver'
        BY <3>1, <3>2, LeavingGrows DEF SlotsInv
    <3> QED
        BY <1>4, <2>1, <3>3
  <2>4. CASE Drop(c)
      BY <1>4, <2>1, <2>4, LeavingShrinks DEF SlotsInv, Drop
  <2> QED
      BY <1>9, <2>2, <2>3, <2>4 DEF ChoreStep, Settle, Arm, Vacate, Clear, ChoreRaises
<1>10. ASSUME NEW o \in Orders, TimerFires(o)
       PROVE  SlotsInv'
  <2> DEFINE x == Chore("timeOut", o, timer[o], {})
  <2>1. chores' \subseteq chores \cup {x} /\ UNCHANGED offer
      BY <1>10 DEF TimerFires
  <2>2. x.owed = {} /\ x.step = "timeOut"
      BY DEF Chore
  <2> HIDE DEF x
  <2>3. LeavingIsOver'
      BY <2>1, <2>2, LeavingGrows DEF SlotsInv
  <2> QED
      BY <1>4, <2>1, <2>3
<1>11. CASE BotCrash
    BY <1>4, <1>11, LeavingShrinks DEF BotCrash, SlotsInv
<1> QED
    BY <1>5, <1>6, <1>8, <1>9, <1>10, <1>11 DEF Bot, LifecycleNext, UserStep, EndTake
----------------------------------------------------------------------------
(* The dispatcher.                                                          *)

\* No task is half way through a message.
LEMMA IdleTasksOwn ==
    ASSUME \A t \in Tasks : task'[t].pc \in {"none", "select"}
    PROVE  RollbackIsOwn'
    BY DEF RollbackIsOwn, OwnTask

LEMMA SweepOwns ==
    ASSUME TypeOK, [Next]_vars, AskingInv, SlotsInv, SweepStep \/ DispatcherCrash, Dispatcher
    PROVE  SlotsInv'
<1> USE DEF pgVars, redisVars, tableVars, lifecycleVars, intakeVars, expiryVars
<1>0. sweep \in [pc : SweepPCs, due : SUBSET Orders, expired : SUBSET Rows, tag : Sweeps]
    BY DEF TypeOK, FanoutTypeOK
<1>1. UNCHANGED <<delivered, taking, chores, deadlines, claimed, lapsed, cleaned>>
    BY DEF Dispatcher, SweepStep, SweepOnWake, SweepOnBackstop, ExpireLeftovers,
        ReleaseLeftovers, StartTasks, EndSweep, DispatcherCrash
<1>2. sweep'.expired # {} => sweep'.pc = "release"
  <2>1. CASE SweepOnWake \/ SweepOnBackstop
    <3>1. sweep'.expired = sweep.expired /\ sweep.pc = "idle"
        BY <1>0, <2>1 DEF SweepOnWake, SweepOnBackstop, StartSweep
    <3> QED
        BY <3>1 DEF SlotsInv, HandsFree
  <2>2. CASE ExpireLeftovers
      BY <1>0, <2>2 DEF ExpireLeftovers
  <2>3. CASE ReleaseLeftovers
      BY <1>0, <2>3 DEF ReleaseLeftovers
  <2>4. CASE StartTasks
    <3>1. sweep'.expired = sweep.expired /\ sweep.pc = "snapshot"
        BY <1>0, <2>4 DEF StartTasks
    <3> QED
        BY <3>1 DEF SlotsInv, HandsFree
  <2>5. CASE EndSweep \/ DispatcherCrash
      BY <2>5 DEF EndSweep, DispatcherCrash, IdleSweep
  <2> QED
      BY <2>1, <2>2, <2>3, <2>4, <2>5 DEF SweepStep
<1>3. HandsFree'
    BY <1>1, <1>2, CleanedStays DEF SlotsInv, HandsFree
<1>4. LeavingIsOver'
    BY <1>1, LeavingShrinks DEF SlotsInv
<1>5. DeliveredFirst'
    BY <1>1 DEF SlotsInv, DeliveredFirst
<1>6. \A t \in Tasks : task'[t].pc \in {"none", "select"}
  <2>1. CASE DispatcherCrash
      BY <2>1 DEF DispatcherCrash, NoTask
  <2>2. CASE EndSweep
      BY <2>2 DEF EndSweep, Live, AskingInv, OneSweep
  <2>3. CASE SweepStep /\ ~EndSweep
    <3>1. sweep.pc # "gather"
        BY <2>3 DEF SweepStep, SweepOnWake, SweepOnBackstop, StartSweep, ExpireLeftovers,
            ReleaseLeftovers, StartTasks
    <3>2. \A t \in Tasks : task[t].pc = "none"
        BY <3>1, NobodyAlive DEF AskingInv
    <3>3. CASE StartTasks
        BY <3>2, <3>3 DEF StartTasks
    <3>4. CASE UNCHANGED task
        BY <3>2, <3>4
    <3> QED
        BY <2>3, <3>3, <3>4 DEF SweepStep, SweepOnWake, SweepOnBackstop, ExpireLeftovers,
            ReleaseLeftovers
  <2> QED
      BY <2>1, <2>2, <2>3
<1> QED
    BY <1>3, <1>4, <1>5, <1>6, IdleTasksOwn DEF SlotsInv

\* A task that moves alone, on its own order.
LEMMA OneTaskOwns ==
    ASSUME TypeOK, OneSweep, RollbackIsOwn, NEW t \in Tasks, task[t].pc # "none",
           \A x \in Tasks : x # t => task'[x] = task[x],
           \A r \in Rows : r[1] # t[2] => offer'[r] = offer[r],
           \A r \in Rows : r[1] # t[2] => (r \in delivered' <=> r \in delivered),
           OwnTask(t)'
    PROVE  RollbackIsOwn'
<1> SUFFICES ASSUME NEW x \in Tasks, x # t PROVE OwnTask(x)'
    BY DEF RollbackIsOwn
<1>1. CASE task[x].pc \in {"send", "expireOne", "schedule"}
  <2>1. x[2] # t[2]
      BY <1>1, TasksApart
  <2>2. Row(x) \in Rows /\ Row(x)[1] = x[2] /\ Row(x)' = Row(x)
      BY <1>1, OfferingTask DEF TypeOK, FanoutTypeOK, OfferPCs, Row
  <2> QED
      BY <2>1, <2>2 DEF RollbackIsOwn, OwnTask
<1>2. CASE task[x].pc \notin {"send", "expireOne", "schedule"}
    BY <1>2 DEF OwnTask
<1> QED
    BY <1>1, <1>2

LEMMA TaskOwns ==
    ASSUME Careful, TypeOK, [Next]_vars, AskingInv, SlotsInv, NEW t \in Tasks, TaskStep(t),
           Dispatcher
    PROVE  SlotsInv'
<1> USE DEF pgVars, redisVars, tableVars, lifecycleVars, intakeVars, expiryVars
<1>0. /\ task \in [Tasks -> TaskStates]
      /\ offer \in [Rows -> OfferStatuses]
      /\ OneSweep /\ OwnTask(t) /\ InformedTask(t)
    BY DEF TypeOK, FanoutTypeOK, TablesTypeOK, AskingInv, Informed, SlotsInv, RollbackIsOwn
<1>1. /\ UNCHANGED <<taking, chores, claimed, lapsed, cleaned, sweep>>
      /\ delivered' = delivered \/ delivered' = delivered \cup {Row(t)}
      /\ task[t].pc # "none"
      /\ \A x \in Tasks : x # t => task'[x] = task[x]
      /\ \A r \in Rows : r # Row(t) => offer'[r] = offer[r]
    BY <1>0 DEF Dispatcher, TaskStep, Select, MarkNoTakers, Reserve, RecordOffer, SendOffer,
        SendFails, ExpireOne, ReleaseOne, ScheduleDeadline, MarkOffering, Goto, Finish, ExpireOffers
<1>2. Row(t)[1] = t[2]
    BY DEF Row
<1>3. HandsFree' /\ LeavingIsOver'
    BY <1>1, CleanedStays, LeavingShrinks DEF SlotsInv, HandsFree
<1>4. ASSUME DeliveredFirst', OwnTask(t)'
      PROVE  SlotsInv'
    BY <1>0, <1>1, <1>2, <1>3, <1>4, OneTaskOwns DEF SlotsInv
<1>5. ASSUME UNCHANGED deadlines
      PROVE  DeliveredFirst'
    BY <1>1, <1>5 DEF SlotsInv, DeliveredFirst
<1>6. CASE RecordOffer(t)
  <2>1. /\ UNCHANGED <<delivered, deadlines>> /\ task[t].pc = "record"
        /\ task' = [task EXCEPT ![t].pc = "send"]
        /\ offer' = [offer EXCEPT ![Row(t)] = IF @ = "none" THEN "offered" ELSE @]
      BY <1>6 DEF RecordOffer, Goto
  <2>2. Row(t) \in Rows /\ offer[Row(t)] = "none" /\ Row(t)' = Row(t)
      BY <1>0, <2>1, OfferingTask DEF OfferPCs, InformedTask, Unoffered, Row
  <2>3. task'[t].pc = "send" /\ offer'[Row(t)] = "offered"
      BY <1>0, <2>1, <2>2 DEF TaskStates
  <2>4. OwnTask(t)'
      BY <2>2, <2>3 DEF OwnTask, Open
  <2> QED
      BY <1>4, <1>5, <2>1, <2>4
<1>7. CASE SendOffer(t)
  <2>1. /\ UNCHANGED deadlines /\ task[t].pc = "send"
        /\ task' = [task EXCEPT ![t].pc = "schedule"]
        /\ delivered' = delivered \cup {Row(t)}
      BY <1>7 DEF SendOffer, Goto
  <2>2. task'[t].pc = "schedule" /\ Row(t)' = Row(t)
      BY <1>0, <2>1 DEF TaskStates, Row
  <2>3. OwnTask(t)'
      BY <2>1, <2>2 DEF OwnTask
  <2> QED
      BY <1>4, <1>5, <2>1, <2>3
<1>8. CASE SendFails(t)
  <2>1. /\ UNCHANGED <<deadlines, delivered, offer>> /\ task[t].pc = "send"
        /\ task' = [task EXCEPT ![t].pc = "expireOne"]
        /\ "sendError" \in Env
      BY <1>8 DEF SendFails, Goto, Careful
  <2>2. task'[t].pc = "expireOne" /\ Row(t)' = Row(t)
      BY <1>0, <2>1 DEF TaskStates, Row
  <2>3. Row(t) \notin delivered /\ offer[Row(t)] \in Open
      BY <1>0, <2>1 DEF InformedTask, OwnTask, Careful
  <2>4. OwnTask(t)'
      BY <2>1, <2>2, <2>3 DEF OwnTask
  <2> QED
      BY <1>4, <1>5, <2>1, <2>4
<1>9. CASE ScheduleDeadline(t)
  <2>1. /\ UNCHANGED <<delivered, offer>> /\ task[t].pc = "schedule"
        /\ task' = [task EXCEPT ![t].pc = "mark"]
        /\ deadlines' = deadlines \cup {Row(t)}
      BY <1>9 DEF ScheduleDeadline, Goto
  <2>2. task'[t].pc = "mark"
      BY <1>0, <2>1 DEF TaskStates
  <2>3. OwnTask(t)'
      BY <2>2 DEF OwnTask
  <2>4. DeliveredFirst'
      BY <1>0, <1>1, <2>1 DEF SlotsInv, DeliveredFirst, OwnTask
  <2> QED
      BY <1>4, <2>3, <2>4
<1>10. CASE \/ Select(t) \/ MarkNoTakers(t) \/ Reserve(t) \/ ExpireOne(t) \/ ReleaseOne(t)
            \/ MarkOffering(t)
  <2>1. task'[t].pc \in {"noTakers", "reserve", "record", "none", "releaseOne"}
      BY <1>0, <1>10 DEF Select, MarkNoTakers, Reserve, ExpireOne, ReleaseOne, MarkOffering,
          Goto, Finish, NoTask, TaskStates
  <2>2. OwnTask(t)'
      BY <2>1 DEF OwnTask
  <2>3. UNCHANGED deadlines
      BY <1>10 DEF Select, MarkNoTakers, Reserve, ExpireOne, ReleaseOne, MarkOffering
  <2> QED
      BY <1>4, <1>5, <2>2, <2>3
<1> QED
    BY <1>6, <1>7, <1>8, <1>9, <1>10 DEF TaskStep

LEMMA SlotsInductive ==
    ASSUME Careful, SafeInv, AskingInv, OffersInv, SlotsInv, [Next]_vars
    PROVE  SlotsInv'
<1>0. TypeOK
    BY DEF SafeInv
<1>1. CASE Dispatcher
  <2>1. ~SweepRaises /\ \A t \in Tasks : ~TaskRaises(t)
      BY DEF SweepRaises, TaskRaises, Careful
  <2> QED
      BY <1>0, <1>1, <2>1, SweepOwns, TaskOwns DEF Dispatcher, FanoutNext, FanoutFault
<1>2. CASE UNCHANGED vars
  <2>1. UNCHANGED <<offer, chores, task, delivered, sweep, taking, deadlines, claimed, lapsed,
                    cleaned>>
      BY <1>2 DEF vars, tableVars, pgVars, redisVars, fanoutVars, expiryVars, lifecycleVars,
          intakeVars
  <2>2. LeavingIsOver' /\ RollbackIsOwn'
      BY <1>0, <2>1, LeavingShrinks, RollbackKept DEF SlotsInv
  <2> QED
      BY <2>1, <2>2 DEF SlotsInv, HandsFree, DeliveredFirst
<1> QED
    BY <1>0, <1>1, <1>2, ExpirerOwns, BotOwns, ApiOwns, TimeOwns DEF Next
----------------------------------------------------------------------------
(* Every step keeps the balance, or leaks.                                  *)

LEMMA Loaded ==
    ASSUME TypeOK, SlotsInv, Covered, NEW u \in Users
    PROVE  /\ Opens(u) \in Nat /\ Works(u) \in Nat /\ Reserves(u) \in Nat /\ Leaves(u) \in Nat
           /\ Count(sweep.expired, u) \in Nat /\ Count(lapsed, u) \in Nat
           /\ Count(cleaned, u) \in Nat
           /\ pending[u] \in Nat
           /\ pending[u] >= Opens(u) + Works(u) + Reserves(u) + Count(sweep.expired, u)
                              + Count(lapsed, u) + Count(cleaned, u) + Leaves(u)
<1>1. IsFiniteSet(chores)
    BY DEF SlotsInv, LeavingIsOver
<1>2. pending[u] \in Nat
    BY DEF TypeOK, TablesTypeOK
<1> QED
    BY <1>1, <1>2, CountsAreNat DEF Covered, Load

LEMMA SweepKeeps ==
    ASSUME TypeOK, AskingInv, SlotsInv, Covered, SweepStep, Dispatcher
    PROVE  Kept
<1> USE DEF pgVars, redisVars, tableVars, lifecycleVars, intakeVars, expiryVars
<1>0. sweep \in [pc : SweepPCs, due : SUBSET Orders, expired : SUBSET Rows, tag : Sweeps]
    BY DEF TypeOK, FanoutTypeOK
<1>1. UNCHANGED <<status, takenBy, chores, lapsed, cleaned>>
    BY DEF Dispatcher, SweepStep, SweepOnWake, SweepOnBackstop, ExpireLeftovers,
        ReleaseLeftovers, StartTasks, EndSweep
<1> SUFFICES ASSUME NEW u \in Users PROVE pending'[u] - Load(u)' = pending[u] - Load(u)
    BY DEF Kept
<1>2. /\ Works(u)' = Works(u) /\ Leaves(u)' = Leaves(u)
      /\ Count(lapsed, u)' = Count(lapsed, u) /\ Count(cleaned, u)' = Count(cleaned, u)
    BY <1>1, Unmoved DEF Count
<1>3. ASSUME UNCHANGED <<offer, pending>>, Reserves(u)' = Reserves(u),
             sweep'.expired = sweep.expired
      PROVE  pending'[u] - Load(u)' = pending[u] - Load(u)
  <2>1. Opens(u)' = Opens(u) /\ Count(sweep.expired, u)' = Count(sweep.expired, u)
      BY <1>3, Unmoved DEF Count
  <2> QED
      BY <1>2, <1>3, <2>1 DEF Load
<1>4. CASE SweepOnWake \/ SweepOnBackstop
  <2>1. UNCHANGED <<offer, pending, task>> /\ sweep'.expired = sweep.expired
      BY <1>0, <1>4 DEF SweepOnWake, SweepOnBackstop, StartSweep
  <2> QED
      BY <1>3, <2>1, Unmoved
<1>5. CASE EndSweep
  <2>1. sweep.expired = {}
      BY <1>5 DEF EndSweep, SlotsInv, HandsFree
  <2>2. UNCHANGED <<offer, pending, task>> /\ sweep'.expired = sweep.expired
      BY <1>5, <2>1 DEF EndSweep, IdleSweep
  <2> QED
      BY <1>3, <2>2, Unmoved
<1>6. CASE StartTasks
  <2>1. UNCHANGED <<offer, pending>> /\ sweep'.expired = sweep.expired /\ sweep.pc = "snapshot"
      BY <1>0, <1>6 DEF StartTasks
  <2>2. \A t \in Tasks : task[t].pc = "none" /\ task'[t].pc \in {"none", "select"}
      BY <1>6, <2>1, NobodyAlive DEF StartTasks, AskingInv
  <2>3. Reserving(u)' = Reserving(u)
      BY <2>2 DEF Reserving
  <2> QED
      BY <1>3, <2>1, <2>3 DEF Reserves
<1>7. CASE ExpireLeftovers
  <2> DEFINE R == OpenRows(sweep.due)
  <2>1. UNCHANGED <<pending, task>> /\ ExpireOffers(R) /\ sweep'.expired = R
        /\ sweep.expired = {}
      BY <1>0, <1>7 DEF ExpireLeftovers, SlotsInv, HandsFree
  <2>2. R \in SUBSET Rows /\ {r \in R : offer[r] \in Open} = R
      BY DEF OpenRows
  <2>3. /\ Count(R, u) \in Nat /\ Opens(u)' \in Nat
        /\ Opens(u) = Opens(u)' + Count(R, u)
      BY <2>1, <2>2, ExpiredCount
  <2>4. Count(sweep.expired, u)' = Count(R, u)
      BY <2>1 DEF Count
  <2>5. Count(sweep.expired, u) = 0 /\ Reserves(u)' = Reserves(u) /\ pending'[u] = pending[u]
      BY <2>1, CountNone, Unmoved
  <2> HIDE DEF R
  <2> QED
      BY <1>2, <2>3, <2>4, <2>5, Loaded DEF Load
<1>8. CASE ReleaseLeftovers
  <2>1. UNCHANGED <<offer, task>> /\ Release(sweep.expired) /\ sweep'.expired = {}
      BY <1>0, <1>8 DEF ReleaseLeftovers
  <2>2. pending'[u] = pending[u] - Count(sweep.expired, u)
    <3>1. sweep.expired \in SUBSET Rows /\ IsFiniteSet(chores)
        BY <1>0 DEF SlotsInv, LeavingIsOver
    <3>2. Count(sweep.expired, u) <= pending[u]
        BY Loaded
    <3> QED
        BY <2>1, <3>1, <3>2, ReleasePays
  <2>3. Opens(u)' = Opens(u) /\ Reserves(u)' = Reserves(u)
      BY <2>1, Unmoved
  <2>4. Count(sweep.expired, u)' = 0
      BY <2>1, CountNone DEF Count
  <2> QED
      BY <1>2, <2>2, <2>3, <2>4, Loaded DEF Load
<1> QED
    BY <1>4, <1>5, <1>6, <1>7, <1>8 DEF SweepStep

LEMMA RowCount ==
    ASSUME NEW r, NEW u
    PROVE  Count({r}, u) = One(r[2] = u)
<1>1. CASE r[2] = u
  <2>1. {q \in {r} : q[2] = u} = {r}
      BY <1>1
  <2> QED
      BY <1>1, <2>1, FS_Singleton DEF Count, One
<1>2. CASE r[2] # u
  <2>1. {q \in {r} : q[2] = u} = {}
      BY <1>2
  <2> QED
      BY <1>2, <2>1, FS_EmptySet DEF Count, One
<1> QED
    BY <1>1, <1>2

LEMMA TaskKeeps ==
    ASSUME Careful, TypeOK, AskingInv, SlotsInv, Covered, NEW t \in Tasks, TaskStep(t), Dispatcher
    PROVE  Kept \/ (Leaked /\ Leaky)
<1> USE DEF pgVars, redisVars, tableVars, lifecycleVars, intakeVars, expiryVars
<1>0. /\ task \in [Tasks -> TaskStates]
      /\ pending \in [Users -> 0..MaxPending]
      /\ t[2] \in Orders
      /\ OwnTask(t) /\ InformedTask(t)
    BY DEF TypeOK, FanoutTypeOK, TablesTypeOK, AskingInv, Informed, SlotsInv, RollbackIsOwn, Tasks
<1>1. UNCHANGED <<takenBy, chores, lapsed, cleaned, sweep>>
    BY DEF Dispatcher, TaskStep, Select, MarkNoTakers, Reserve, RecordOffer, SendOffer,
        SendFails, ExpireOne, ReleaseOne, ScheduleDeadline, MarkOffering
<1>2. \A u : /\ Leaves(u)' = Leaves(u)
             /\ Count(sweep.expired, u)' = Count(sweep.expired, u)
             /\ Count(lapsed, u)' = Count(lapsed, u) /\ Count(cleaned, u)' = Count(cleaned, u)
    BY <1>1, Unmoved DEF Count
<1>3. ASSUME UNCHANGED status, NEW k, task' = [task EXCEPT ![t] = k],
             \A u \in Users :
                pending'[u] - Opens(u)' - One(Counted(k, u)) =
                pending[u] - Opens(u) - One(Counted(task[t], u)),
             \A u \in Users : pending'[u] \in Int /\ Opens(u)' \in Int
      PROVE  Kept
  <2> SUFFICES ASSUME NEW u \in Users PROVE pending'[u] - Load(u)' = pending[u] - Load(u)
      BY DEF Kept
  <2>1. Reserves(u)' = Reserves(u) + One(Counted(k, u)) - One(Counted(task[t], u))
      BY <1>3, TaskCount
  <2>2. Works(u)' = Works(u)
      BY <1>1, <1>3, Unmoved
  <2>3. One(Counted(k, u)) \in Int /\ One(Counted(task[t], u)) \in Int
      BY DEF One
  <2>4. /\ pending'[u] - Opens(u)' - One(Counted(k, u))
              = pending[u] - Opens(u) - One(Counted(task[t], u))
        /\ pending'[u] \in Int /\ Opens(u)' \in Int
      BY <1>3
  <2>5. /\ Leaves(u)' = Leaves(u)
        /\ Count(sweep.expired, u)' = Count(sweep.expired, u)
        /\ Count(lapsed, u)' = Count(lapsed, u) /\ Count(cleaned, u)' = Count(cleaned, u)
      BY <1>2
  <2>6. /\ Opens(u) \in Nat /\ Works(u) \in Nat /\ Reserves(u) \in Nat /\ Leaves(u) \in Nat
        /\ Count(sweep.expired, u) \in Nat /\ Count(lapsed, u) \in Nat
        /\ Count(cleaned, u) \in Nat /\ pending[u] \in Nat
      BY Loaded
  <2> DEFINE a == One(Counted(k, u))
             b == One(Counted(task[t], u))
  <2>7. /\ Reserves(u)' = Reserves(u) + a - b
        /\ pending'[u] - Opens(u)' - a = pending[u] - Opens(u) - b
        /\ a \in Int /\ b \in Int
      BY <2>1, <2>3, <2>4
  <2> HIDE DEF a, b
  <2>8. Reserves(u)' \in Int /\ pending'[u] - Opens(u)' - Reserves(u)'
                               = pending[u] - Opens(u) - Reserves(u)
      BY <2>4, <2>6, <2>7
  <2>9. Load(u)' = Opens(u)' + Works(u) + Reserves(u)'
                   + Count(sweep.expired, u) + Count(lapsed, u) + Count(cleaned, u) + Leaves(u)
      BY <2>2, <2>5 DEF Load
  <2>10. Load(u) = Opens(u) + Works(u) + Reserves(u)
                   + Count(sweep.expired, u) + Count(lapsed, u) + Count(cleaned, u) + Leaves(u)
      BY DEF Load
  <2> DEFINE rest == Works(u) + Count(sweep.expired, u) + Count(lapsed, u) + Count(cleaned, u)
                     + Leaves(u)
  <2>11. rest \in Int
      BY <2>6
  <2>12. Load(u)' = Opens(u)' + Reserves(u)' + rest /\ Load(u) = Opens(u) + Reserves(u) + rest
      BY <2>4, <2>6, <2>8, <2>9, <2>10
  <2> HIDE DEF rest
  <2> QED
      BY <2>4, <2>6, <2>8, <2>11, <2>12
\* Nothing but a task that reserves nothing before and after.
<1>4. ASSUME UNCHANGED <<status, offer, pending>>, NEW k, task' = [task EXCEPT ![t] = k],
             k.pc \notin {"record", "releaseOne"}, task[t].pc \notin {"record", "releaseOne"}
      PROVE  Kept
  <2>1. \A u : One(Counted(k, u)) = 0 /\ One(Counted(task[t], u)) = 0
      BY <1>4 DEF One, Counted
  <2>2. \A u \in Users : Opens(u)' = Opens(u) /\ pending'[u] = pending[u]
      BY <1>4, Unmoved
  <2>3. \A u \in Users : pending[u] \in Int /\ Opens(u) \in Int
      BY Loaded
  <2> QED
      BY <1>3, <1>4, <2>1, <2>2, <2>3
<1>5. ASSUME NEW s, s # "taken", status' = [status EXCEPT ![t[2]] = s],
             UNCHANGED <<offer, pending>>, task' = [task EXCEPT ![t] = NoTask],
             task[t].pc \in {"noTakers", "mark"}
      PROVE  Kept \/ (Leaked /\ Leaky)
  <2>1. ASSUME NEW u \in Users
        PROVE  Reserves(u)' = Reserves(u) /\ Opens(u)' = Opens(u)
    <3>1. One(Counted(NoTask, u)) = 0 /\ One(Counted(task[t], u)) = 0
        BY <1>5 DEF One, Counted, NoTask
    <3>2. Reserves(u)' = Reserves(u) + One(Counted(NoTask, u)) - One(Counted(task[t], u))
        BY <1>5, TaskCount
    <3> QED
        BY <1>5, <3>1, <3>2, Loaded, Unmoved
  <2>2. ASSUME NEW u \in Users
        PROVE  /\ Works(u)' \in Nat /\ Works(u)' <= Works(u)
               /\ status[t[2]] # "taken" => Works(u)' = Works(u)
      BY <1>0, <1>1, <1>5, WorksOverwritten
  <2>3. \A u \in Users : pending'[u] = pending[u]
      BY <1>5
  <2>4. CASE status[t[2]] # "taken"
    <3> SUFFICES ASSUME NEW u \in Users PROVE pending'[u] - Load(u)' = pending[u] - Load(u)
        BY DEF Kept
    <3> QED
        BY <1>2, <2>1, <2>2, <2>3, <2>4, Loaded DEF Load
  <2>5. CASE status[t[2]] = "taken"
    <3>1. Leaky
        BY <1>5, <2>5 DEF Leaky
    <3>2. ASSUME NEW u \in Users
          PROVE  Load(u)' <= Load(u)
        BY <1>2, <2>1, <2>2, Loaded DEF Load
    <3> QED
        BY <1>5, <3>1, <3>2 DEF Leaked
  <2> QED
      BY <2>4, <2>5
<1>6. CASE MarkNoTakers(t)
    BY <1>5, <1>6 DEF MarkNoTakers, Overwrite, Finish
<1>7. CASE MarkOffering(t)
    BY <1>5, <1>7 DEF MarkOffering, Overwrite, Finish
<1>8. CASE Select(t)
  <2>1. PICK candidates \in SUBSET (Users \ task[t].users) :
            task' = [task EXCEPT ![t] =
                        [pc |-> IF candidates = {} THEN "noTakers" ELSE "reserve",
                         users |-> candidates, user |-> NoUser]]
      BY <1>8 DEF Select
  <2>2. UNCHANGED <<status, offer, pending>> /\ task[t].pc = "select"
      BY <1>8 DEF Select
  <2> QED
      BY <1>4, <2>1, <2>2
<1>9. ASSUME NEW pc, Goto(t, pc), pc \notin {"record", "releaseOne"},
             task[t].pc \notin {"record", "releaseOne"}, UNCHANGED <<status, offer, pending>>
      PROVE  Kept
  <2>1. [task[t] EXCEPT !.pc = pc].pc = pc
      BY <1>0 DEF TaskStates
  <2>2. task' = [task EXCEPT ![t] = [task[t] EXCEPT !.pc = pc]]
      BY <1>9 DEF Goto
  <2> HIDE DEF Goto
  <2> QED
      BY <1>4, <1>9, <2>1, <2>2
<1>10. CASE SendOffer(t) \/ SendFails(t) \/ ScheduleDeadline(t)
    BY <1>9, <1>10 DEF SendOffer, SendFails, ScheduleDeadline
<1>11. CASE Reserve(t)
  <2>1. PICK u \in task[t].users :
        \/ /\ pending' = [pending EXCEPT ![u] = @ + 1]
           /\ task' = [task EXCEPT ![t] = [pc |-> "record", users |-> {}, user |-> u]]
        \/ /\ IF task[t].users = {u}
              THEN Finish(t)
              ELSE task' = [task EXCEPT ![t].users = @ \ {u}]
           /\ UNCHANGED pending
      BY <1>11 DEF Reserve
  <2>2. UNCHANGED <<status, offer>> /\ task[t].pc = "reserve" /\ u \in Users
      BY <1>0, <1>11 DEF Reserve, TaskStates
  <2>3. \A v : One(Counted(task[t], v)) = 0
      BY <2>2 DEF One, Counted
  <2>4. \A v \in Users : Opens(v)' = Opens(v) /\ Opens(v) \in Nat /\ pending[v] \in Nat
      BY <2>2, Loaded, Unmoved
  <2>5. CASE pending' = [pending EXCEPT ![u] = @ + 1]
             /\ task' = [task EXCEPT ![t] = [pc |-> "record", users |-> {}, user |-> u]]
    <3> DEFINE k == [pc |-> "record", users |-> {}, user |-> u]
    <3>1. \A v \in Users : One(Counted(k, v)) = IF v = u THEN 1 ELSE 0
        BY DEF One, Counted
    <3>2. \A v \in Users : pending'[v] = pending[v] + (IF v = u THEN 1 ELSE 0)
        BY <1>0, <2>4, <2>5
    <3>3. task' = [task EXCEPT ![t] = k]
        BY <2>5
    <3> HIDE DEF k
    <3>4. ASSUME NEW v \in Users
          PROVE  /\ pending'[v] - Opens(v)' - One(Counted(k, v))
                      = pending[v] - Opens(v) - One(Counted(task[t], v))
                 /\ pending'[v] \in Int /\ Opens(v)' \in Int
        BY <2>3, <2>4, <3>1, <3>2
    <3> QED
        BY <1>3, <2>2, <3>3, <3>4
  <2>6. CASE UNCHANGED pending /\ Finish(t)
      BY <1>4, <2>2, <2>6 DEF Finish, NoTask
  <2>7. CASE UNCHANGED pending /\ task' = [task EXCEPT ![t].users = @ \ {u}]
    <3>1. task' = [task EXCEPT ![t] = [task[t] EXCEPT !.users = @ \ {u}]]
        BY <2>7
    <3>2. [task[t] EXCEPT !.users = @ \ {u}].pc = "reserve"
        BY <1>0, <2>2 DEF TaskStates
    <3> QED
        BY <1>4, <2>2, <2>7, <3>1, <3>2
  <2> QED
      BY <2>1, <2>5, <2>6, <2>7
\* The other steps of an offer: the row the task is about, and whether it reserves.
<1>12. ASSUME task[t].pc \in OfferPCs
       PROVE  Row(t) \in Rows /\ Row(t)[2] = task[t].user
    BY <1>12, OfferingTask DEF TypeOK, FanoutTypeOK, Row
<1>13. CASE RecordOffer(t)
  <2> DEFINE k == [task[t] EXCEPT !.pc = "send"]
  <2>1. /\ task' = [task EXCEPT ![t] = k] /\ task[t].pc = "record"
        /\ UNCHANGED <<status, pending>>
        /\ offer' = [offer EXCEPT ![Row(t)] = IF @ = "none" THEN "offered" ELSE @]
      BY <1>13 DEF RecordOffer, Goto
  <2>2. k.pc = "send"
      BY <1>0 DEF TaskStates
  <2> HIDE DEF k
  <2>3. Row(t) \in Rows /\ Row(t)[2] = task[t].user
      BY <1>12, <2>1 DEF OfferPCs
  <2>4. offer[Row(t)] = "none"
      BY <1>0, <2>1, <2>3 DEF InformedTask, Unoffered, Row, AlreadyOffered, TypeOK, TablesTypeOK
  <2>5. offer' = [offer EXCEPT ![Row(t)] = "offered"]
      BY <2>1, <2>3, <2>4
  <2>6. ASSUME NEW u \in Users
        PROVE  /\ pending'[u] - Opens(u)' - One(Counted(k, u))
                    = pending[u] - Opens(u) - One(Counted(task[t], u))
               /\ pending'[u] \in Int /\ Opens(u)' \in Int
    <3>1. Opens(u)' = Opens(u) + (IF u = Row(t)[2] THEN 1 ELSE 0)
        BY <2>3, <2>4, <2>5, OpenedCount
    <3>2. One(Counted(k, u)) = 0 /\ One(Counted(task[t], u)) = IF u = task[t].user THEN 1 ELSE 0
        BY <2>1, <2>2 DEF One, Counted
    <3>3. Opens(u) \in Nat /\ pending[u] \in Nat /\ pending'[u] = pending[u]
        BY <2>1, Loaded
    <3> QED
        BY <2>3, <3>1, <3>2, <3>3
  <2> QED
      BY <1>3, <2>1, <2>6
<1>14. CASE ExpireOne(t)
  <2> DEFINE k == [task[t] EXCEPT !.pc = "releaseOne"]
  <2>1. /\ task' = [task EXCEPT ![t] = k] /\ task[t].pc = "expireOne"
        /\ UNCHANGED <<status, pending>> /\ ExpireOffers({Row(t)})
      BY <1>14 DEF ExpireOne, Goto
  <2>2. k.pc = "releaseOne" /\ k.user = task[t].user
      BY <1>0 DEF TaskStates
  <2> HIDE DEF k
  <2>3. Row(t) \in Rows /\ Row(t)[2] = task[t].user
      BY <1>12, <2>1 DEF OfferPCs
  <2>4. {r \in {Row(t)} : offer[r] \in Open} = {Row(t)}
      BY <1>0, <2>1 DEF OwnTask
  <2>5. ASSUME NEW u \in Users
        PROVE  /\ pending'[u] - Opens(u)' - One(Counted(k, u))
                    = pending[u] - Opens(u) - One(Counted(task[t], u))
               /\ pending'[u] \in Int /\ Opens(u)' \in Int
    <3>1. {Row(t)} \in SUBSET Rows
        BY <2>3
    <3>2. /\ Opens(u)' \in Nat
          /\ Opens(u) = Opens(u)' + Count({Row(t)}, u)
        BY <2>1, <2>4, <3>1, ExpiredCount
    <3>3. Count({Row(t)}, u) = One(task[t].user = u)
        BY <2>3, RowCount
    <3>4. One(Counted(task[t], u)) = 0 /\ One(Counted(k, u)) = One(task[t].user = u)
          /\ One(task[t].user = u) \in Nat
        BY <2>1, <2>2 DEF One, Counted
    <3>5. Opens(u) \in Nat /\ pending[u] \in Nat /\ pending'[u] = pending[u]
        BY <2>1, Loaded
    <3> QED
        BY <3>2, <3>3, <3>4, <3>5
  <2> QED
      BY <1>3, <2>1, <2>5
<1>15. CASE ReleaseOne(t)
  <2>1. /\ task' = [task EXCEPT ![t] = NoTask] /\ task[t].pc = "releaseOne"
        /\ UNCHANGED <<status, offer>> /\ Release({Row(t)})
      BY <1>15 DEF ReleaseOne, Finish
  <2>2. Row(t) \in Rows /\ Row(t)[2] = task[t].user
      BY <1>12, <2>1 DEF OfferPCs
  <2>3. ASSUME NEW u \in Users
        PROVE  /\ pending'[u] - Opens(u)' - One(Counted(NoTask, u))
                    = pending[u] - Opens(u) - One(Counted(task[t], u))
               /\ pending'[u] \in Int /\ Opens(u)' \in Int
    <3>1. Count({Row(t)}, u) = One(task[t].user = u) /\ One(task[t].user = u) \in Nat
        BY <2>2, RowCount DEF One
    <3>2. One(Counted(task[t], u)) = One(task[t].user = u) /\ One(Counted(NoTask, u)) = 0
        BY <2>1 DEF One, Counted, NoTask
    <3>3. /\ Opens(u)' = Opens(u) /\ Opens(u) \in Nat
          /\ pending[u] \in Nat /\ Reserves(u) \in Nat /\ pending[u] >= Reserves(u)
        BY <2>1, Loaded, Unmoved
    <3>4. Reserves(u) >= One(task[t].user = u)
      <4>1. CASE task[t].user = u
        <5>1. t \in Reserving(u) /\ Reserving(u) \in SUBSET Tasks
            BY <2>1, <4>1 DEF Reserving
        <5>2. IsFiniteSet(Reserving(u)) /\ Reserving(u) # {}
            BY <5>1, TasksFinite, FS_Subset
        <5>3. Cardinality(Reserving(u)) # 0
            BY <5>2, FS_EmptySet
        <5> QED
            BY <3>3, <4>1, <5>3 DEF Reserves, One
      <4>2. CASE task[t].user # u
          BY <3>3, <4>2 DEF One
      <4> QED
          BY <4>1, <4>2
    <3>5. pending'[u] = pending[u] - Count({Row(t)}, u)
      <4>1. {Row(t)} \in SUBSET Rows /\ IsFiniteSet(chores)
          BY <2>2 DEF SlotsInv, LeavingIsOver
      <4>2. Count({Row(t)}, u) <= pending[u]
          BY <3>1, <3>3, <3>4
      <4> QED
          BY <2>1, <4>1, <4>2, ReleasePays
    <3> QED
        BY <3>1, <3>2, <3>3, <3>5
  <2> QED
      BY <1>3, <2>1, <2>3
<1> QED
    BY <1>6, <1>7, <1>8, <1>10, <1>11, <1>13, <1>14, <1>15 DEF TaskStep

\* What is taken out of a set of rows is what it has less.
LEMMA CountLess ==
    ASSUME NEW S \in SUBSET Rows, NEW R \in SUBSET S, NEW u
    PROVE  /\ Count(S, u) \in Nat /\ Count(R, u) \in Nat /\ Count(S \ R, u) \in Nat
           /\ Count(S, u) = Count(S \ R, u) + Count(R, u)
<1> DEFINE A == {r \in S : r[2] = u}
           B == {r \in R : r[2] = u}
<1>1. IsFiniteSet(S)
  <2>1. IsFiniteSet(Rows)
      BY TablesAssumption, FS_Product DEF Rows
  <2> QED
      BY <2>1, FS_Subset
<1>2. IsFiniteSet(A) /\ IsFiniteSet(B)
  <2>1. A \in SUBSET S /\ B \in SUBSET S
      OBVIOUS
  <2> QED
      BY <1>1, <2>1, FS_Subset
<1>3. {r \in S \ R : r[2] = u} = A \ B
    OBVIOUS
<1>4. A \cap B = B
    OBVIOUS
<1> HIDE DEF A, B
<1>5. Cardinality(A \ B) = Cardinality(A) - Cardinality(B) /\ IsFiniteSet(A \ B)
    BY <1>2, <1>4, FS_Difference
<1>6. Cardinality(A) \in Nat /\ Cardinality(B) \in Nat /\ Cardinality(A \ B) \in Nat
    BY <1>2, <1>5, FS_CardinalityType
<1>7. Count(S, u) = Cardinality(A) /\ Count(R, u) = Cardinality(B)
      /\ Count(S \ R, u) = Cardinality(A \ B)
    BY <1>3 DEF Count, A, B
<1> QED
    BY <1>5, <1>6, <1>7

\* A dispatcher that stops forgets the slots it was to release, and nothing else.
LEMMA CrashLeaks ==
    ASSUME TypeOK, SlotsInv, Covered, DispatcherCrash, Dispatcher
    PROVE  Leaked /\ Leaky
<1> USE DEF pgVars, redisVars, tableVars, lifecycleVars, intakeVars, expiryVars
<1>1. UNCHANGED <<status, takenBy, offer, pending, chores, lapsed, cleaned>>
      /\ sweep'.expired = {} /\ \A t \in Tasks : task'[t].pc = "none"
    BY DEF Dispatcher, DispatcherCrash, IdleSweep, NoTask
<1>2. ASSUME NEW u \in Users PROVE Load(u)' <= Load(u)
  <2>1. Reserves(u)' = 0
    <3>1. Reserving(u)' = {}
        BY <1>1 DEF Reserving
    <3> QED
        BY <3>1, FS_EmptySet DEF Reserves
  <2>2. Count(sweep.expired, u)' = 0
      BY <1>1, CountNone DEF Count
  <2>3. /\ Opens(u)' = Opens(u) /\ Works(u)' = Works(u) /\ Leaves(u)' = Leaves(u)
        /\ Count(lapsed, u)' = Count(lapsed, u) /\ Count(cleaned, u)' = Count(cleaned, u)
      BY <1>1, Unmoved DEF Count
  <2> QED
      BY <2>1, <2>2, <2>3, Loaded DEF Load
<1> QED
    BY <1>1, <1>2 DEF Leaked, Leaky, DispatcherCrash

LEMMA ExpirerKeeps ==
    ASSUME TypeOK, SlotsInv, Covered, Expirer
    PROVE  Kept \/ (Leaked /\ Leaky)
<1> USE DEF pgVars, redisVars, tableVars, fanoutVars, lifecycleVars, intakeVars
<1>0. claimed \in SUBSET Rows /\ lapsed \in SUBSET Rows
    BY DEF TypeOK, ExpiryTypeOK
<1>1. UNCHANGED <<status, takenBy, chores, task, cleaned, sweep>>
    BY DEF Expirer, ExpiryNext, ExpiryStep, ExpireMany, ReleaseLapsed, ClaimLost, LapseLost,
        ClaimDue
<1>2. ASSUME NEW u
      PROVE  /\ Works(u)' = Works(u) /\ Leaves(u)' = Leaves(u) /\ Reserves(u)' = Reserves(u)
             /\ Count(sweep.expired, u)' = Count(sweep.expired, u)
             /\ Count(cleaned, u)' = Count(cleaned, u)
    BY <1>1, Unmoved DEF Count
<1>3. CASE ExpireMany
  <2> DEFINE L == {r \in claimed : offer[r] \in Open}
  <2>1. ExpireOffers(claimed) /\ lapsed = {} /\ lapsed' = L /\ UNCHANGED pending
      BY <1>3 DEF ExpireMany, SlotsInv, HandsFree
  <2> SUFFICES ASSUME NEW u \in Users PROVE pending'[u] - Load(u)' = pending[u] - Load(u)
      BY DEF Kept
  <2>2. Count(L, u) \in Nat /\ Opens(u)' \in Nat /\ Opens(u) = Opens(u)' + Count(L, u)
      BY <1>0, <2>1, ExpiredCount
  <2>3. Count(lapsed, u)' = Count(L, u) /\ Count(lapsed, u) = 0
      BY <2>1, CountNone DEF Count
  <2>4. pending'[u] = pending[u]
      BY <2>1
  <2> HIDE DEF L
  <2> QED
      BY <1>2, <2>2, <2>3, <2>4, Loaded DEF Load
<1>4. CASE ReleaseLapsed
  <2>1. UNCHANGED offer /\ Release(lapsed) /\ lapsed' = {}
      BY <1>4 DEF ReleaseLapsed
  <2> SUFFICES ASSUME NEW u \in Users PROVE pending'[u] - Load(u)' = pending[u] - Load(u)
      BY DEF Kept
  <2>2. pending'[u] = pending[u] - Count(lapsed, u)
    <3>1. IsFiniteSet(chores) /\ Count(lapsed, u) <= pending[u]
        BY Loaded DEF SlotsInv, LeavingIsOver
    <3> QED
        BY <1>0, <2>1, <3>1, ReleasePays
  <2>3. Opens(u)' = Opens(u) /\ Count(lapsed, u)' = 0
      BY <2>1, Unmoved, CountNone DEF Count
  <2> QED
      BY <1>2, <2>2, <2>3, Loaded DEF Load
<1>5. CASE ClaimLost \/ \E r \in Rows : ClaimDue(r)
  <2>1. UNCHANGED <<offer, pending, lapsed>>
      BY <1>5 DEF ClaimLost, ClaimDue
  <2> SUFFICES ASSUME NEW u \in Users PROVE pending'[u] - Load(u)' = pending[u] - Load(u)
      BY DEF Kept
  <2>2. Opens(u)' = Opens(u) /\ Count(lapsed, u)' = Count(lapsed, u) /\ pending'[u] = pending[u]
      BY <2>1, Unmoved DEF Count
  <2> QED
      BY <1>2, <2>2, Loaded DEF Load
<1>6. CASE LapseLost
  <2>1. UNCHANGED <<offer, pending>> /\ lapsed' = {} /\ Leaky
      BY <1>6 DEF LapseLost, Leaky
  <2>2. ASSUME NEW u \in Users PROVE Load(u)' <= Load(u)
    <3>1. Opens(u)' = Opens(u) /\ Count(lapsed, u)' = 0
        BY <2>1, Unmoved, CountNone DEF Count
    <3> QED
        BY <1>2, <3>1, Loaded DEF Load
  <2> QED
      BY <2>1, <2>2 DEF Leaked
<1> QED
    BY <1>3, <1>4, <1>5, <1>6 DEF Expirer, ExpiryNext, ExpiryStep

LEMMA ApiKeeps ==
    ASSUME TypeOK, SlotsInv, Covered, Api
    PROVE  Kept \/ (Leaked /\ Leaky)
<1> USE DEF pgVars, redisVars, tableVars, fanoutVars, lifecycleVars, expiryVars
<1>0. cleaned \in SUBSET Rows /\ IsFiniteSet(chores)
    BY DEF TypeOK, IntakeTypeOK, SlotsInv, LeavingIsOver
<1>1. UNCHANGED <<takenBy, chores, task, sweep, lapsed>>
    BY DEF Api, IntakeNext, Create, Clean, ReleaseCleaned, ApiCrash
<1>2. ASSUME NEW u
      PROVE  /\ Leaves(u)' = Leaves(u) /\ Reserves(u)' = Reserves(u)
             /\ Count(sweep.expired, u)' = Count(sweep.expired, u)
             /\ Count(lapsed, u)' = Count(lapsed, u)
    BY <1>1, Unmoved DEF Count
<1>3. ASSUME NEW o \in Orders, Create(o)
      PROVE  Kept
  <2>1. /\ UNCHANGED <<offer, pending, cleaned>> /\ status[o] # "taken"
        /\ status' = [status EXCEPT ![o] = "pending"]
      BY <1>3 DEF Create
  <2> SUFFICES ASSUME NEW u \in Users PROVE pending'[u] - Load(u)' = pending[u] - Load(u)
      BY DEF Kept
  <2>2. Works(u)' = Works(u)
      BY <1>1, <2>1, WorksOverwritten
  <2>3. Opens(u)' = Opens(u) /\ Count(cleaned, u)' = Count(cleaned, u) /\ pending'[u] = pending[u]
      BY <2>1, Unmoved DEF Count
  <2> QED
      BY <1>2, <2>2, <2>3, Loaded DEF Load
<1>4. ASSUME NEW o \in Orders, Clean(o)
      PROVE  Leaked /\ Leaky
  <2> DEFINE R == OpenRows({o})
  <2>1. /\ "clean" \in Env /\ UNCHANGED pending
        /\ status' = [status EXCEPT ![o] = "cancelled"]
        /\ ExpireOffers(R) /\ cleaned' = cleaned \cup R
      BY <1>4 DEF Clean, Overwrite
  <2>2. R \in SUBSET Rows /\ {r \in R : offer[r] \in Open} = R
      BY DEF OpenRows
  <2>3. cleaned' \in SUBSET Rows /\ R \in SUBSET cleaned' /\ cleaned' \ R = cleaned
    <3>1. cleaned \cap R = {}
        BY DEF SlotsInv, HandsFree, OpenRows, Open
    <3> QED
        BY <1>0, <2>1, <2>2, <3>1
  <2> HIDE DEF R
  <2>4. ASSUME NEW u \in Users PROVE Load(u)' <= Load(u)
    <3>1. Count(R, u) \in Nat /\ Opens(u)' \in Nat /\ Opens(u) = Opens(u)' + Count(R, u)
        BY <2>1, <2>2, ExpiredCount
    <3>2. Count(cleaned', u) = Count(cleaned, u) + Count(R, u)
        BY <2>3, CountLess
    <3>3. Count(cleaned, u)' = Count(cleaned, u) + Count(R, u)
        BY <3>2 DEF Count
    <3>4. Works(u)' \in Nat /\ Works(u)' <= Works(u)
        BY <1>1, <2>1, WorksOverwritten
    <3> QED
        BY <1>2, <3>1, <3>3, <3>4, Loaded DEF Load
  <2> QED
      BY <2>1, <2>4 DEF Leaked, Leaky
<1>5. ASSUME NEW o \in Orders, ReleaseCleaned(o)
      PROVE  Kept
  <2> DEFINE R == {r \in cleaned : r[1] = o}
  <2>1. UNCHANGED <<status, offer>> /\ Release(R) /\ cleaned' = cleaned \ R
      BY <1>5 DEF ReleaseCleaned
  <2>2. R \in SUBSET cleaned /\ R \in SUBSET Rows
      BY <1>0
  <2> HIDE DEF R
  <2> SUFFICES ASSUME NEW u \in Users PROVE pending'[u] - Load(u)' = pending[u] - Load(u)
      BY DEF Kept
  <2>3. /\ Count(cleaned, u) \in Nat /\ Count(R, u) \in Nat /\ Count(cleaned \ R, u) \in Nat
        /\ Count(cleaned, u) = Count(cleaned \ R, u) + Count(R, u)
      BY <1>0, <2>2, CountLess
  <2>4. Count(cleaned, u)' = Count(cleaned \ R, u)
      BY <2>1 DEF Count
  <2>5. pending'[u] = pending[u] - Count(R, u)
    <3>1. Count(R, u) <= pending[u]
        BY <2>3, Loaded
    <3> QED
        BY <1>0, <2>1, <2>2, <3>1, ReleasePays
  <2>6. Opens(u)' = Opens(u) /\ Works(u)' = Works(u)
      BY <1>1, <2>1, Unmoved
  <2> QED
      BY <1>2, <2>3, <2>4, <2>5, <2>6, Loaded DEF Load
<1>6. CASE ApiCrash
  <2>1. UNCHANGED <<status, offer, pending>> /\ cleaned' = {} /\ Leaky
      BY <1>6 DEF ApiCrash, Leaky
  <2>2. ASSUME NEW u \in Users PROVE Load(u)' <= Load(u)
    <3>1. Opens(u)' = Opens(u) /\ Works(u)' = Works(u) /\ Count(cleaned, u)' = 0
        BY <1>1, <2>1, Unmoved, CountNone DEF Count
    <3> QED
        BY <1>2, <3>1, Loaded DEF Load
  <2> QED
      BY <2>1, <2>2 DEF Leaked
<1> QED
    BY <1>3, <1>4, <1>5, <1>6 DEF Api, IntakeNext

\* Growing old does not close an offer.
LEMMA TimeKeeps ==
    ASSUME TypeOK, SlotsInv, Covered, Time
    PROVE  Kept
<1> USE DEF pgVars, redisVars, tableVars, fanoutVars, lifecycleVars, intakeVars, expiryVars
<1>1. PICK r \in Rows : GrowStale(r)
    BY DEF Time
<1>2. UNCHANGED <<status, takenBy, pending, chores, task, sweep, lapsed, cleaned>>
    BY <1>1 DEF GrowStale
<1>3. \A q \in Rows : offer'[q] \in Open <=> offer[q] \in Open
    BY <1>1 DEF GrowStale, Open, TypeOK, TablesTypeOK
<1> SUFFICES ASSUME NEW u \in Users PROVE pending'[u] - Load(u)' = pending[u] - Load(u)
    BY DEF Kept
<1>4. Opens(u)' = Opens(u)
  <2>1. \A o \in Orders : <<o, u>> \in Rows
      BY DEF Rows
  <2> QED
      BY <1>3, <2>1 DEF Opens
<1>5. /\ Works(u)' = Works(u) /\ Leaves(u)' = Leaves(u) /\ Reserves(u)' = Reserves(u)
      /\ Count(sweep.expired, u)' = Count(sweep.expired, u)
      /\ Count(lapsed, u)' = Count(lapsed, u) /\ Count(cleaned, u)' = Count(cleaned, u)
      /\ pending'[u] = pending[u]
    BY <1>2, Unmoved DEF Count
<1> QED
    BY <1>4, <1>5, Loaded DEF Load

\* One offer answered.
LEMMA ClosedCount ==
    ASSUME TypeOK, NEW r \in Rows, offer[r] \in Open,
           \A q \in Rows : offer'[q] = IF q = r THEN "taken" ELSE offer[q],
           NEW u \in Users
    PROVE  /\ Opens(u)' \in Nat
           /\ Opens(u)' = Opens(u) - One(r[2] = u)
<1> DEFINE S == {o \in Orders : offer[<<o, u>>] \in Open}
           N == {o \in Orders : offer'[<<o, u>>] \in Open}
<1>1. r = <<r[1], r[2]>> /\ r[1] \in Orders
    BY DEF Rows
<1>2. \A o \in Orders : <<o, u>> \in Rows
    BY DEF Rows
<1>3. IsFiniteSet(S) /\ IsFiniteSet(N)
    BY TablesAssumption, FS_Subset
<1>4. Cardinality(S) \in Nat /\ Cardinality(N) \in Nat
    BY <1>3, FS_CardinalityType
<1>5. CASE r[2] = u
  <2>1. N = S \ {r[1]} /\ r[1] \in S
      BY <1>1, <1>2, <1>5 DEF Open
  <2> HIDE DEF S, N
  <2>2. Cardinality(N) = Cardinality(S) - 1
      BY <1>3, <2>1, OneLess
  <2> QED
      BY <1>4, <1>5, <2>2 DEF Opens, One, S, N
<1>6. CASE r[2] # u
  <2>1. N = S
      BY <1>1, <1>2, <1>6
  <2>2. Opens(u)' = Cardinality(N) /\ Opens(u) = Cardinality(S)
      BY DEF Opens
  <2> HIDE DEF S, N
  <2> QED
      BY <1>4, <1>6, <2>1, <2>2 DEF One
<1> QED
    BY <1>5, <1>6

\* An order goes to a user who had it not.
LEMMA WorksTaken ==
    ASSUME TypeOK, NEW o \in Orders, NEW v \in Users, status[o] # "taken",
           status' = [status EXCEPT ![o] = "taken"], takenBy' = [takenBy EXCEPT ![o] = v],
           NEW u
    PROVE  /\ Works(u)' \in Nat
           /\ Works(u)' = Works(u) + (IF v = u THEN 1 ELSE 0)
<1>1. IsFiniteSet(InWork(u)) /\ Cardinality(InWork(u)) \in Nat
    BY InWorkFinite
<1>2. o \notin InWork(u)
    BY DEF InWork
<1>3. InWork(u)' = IF v = u THEN InWork(u) \cup {o} ELSE InWork(u)
    BY DEF InWork, TypeOK, TablesTypeOK
<1>4. Works(u)' = Cardinality(InWork(u)') /\ Works(u) = Cardinality(InWork(u))
    BY DEF Works
<1>5. Cardinality(InWork(u) \cup {o}) = Cardinality(InWork(u)) + 1
    BY <1>1, <1>2, OneMore
<1> QED
    BY <1>1, <1>3, <1>4, <1>5

Going(c, u) == c.step \in {"vacate", "release"} /\ c.user = u

LEMMA ChoreGone ==
    ASSUME IsFiniteSet(chores), NEW c \in chores, chores' = chores \ {c}, NEW u
    PROVE  /\ Leaves(u)' \in Nat
           /\ Leaves(u)' = Leaves(u) - One(Going(c, u))
<1>1. IsFiniteSet(Leaving(u)) /\ IsFiniteSet(Leaving(u)')
  <2>1. Leaving(u) \in SUBSET chores /\ Leaving(u)' \in SUBSET chores
      BY DEF Leaving
  <2> QED
      BY <2>1, FS_Subset
<1>2. Cardinality(Leaving(u)) \in Nat /\ Cardinality(Leaving(u)') \in Nat
    BY <1>1, FS_CardinalityType
<1>3. CASE Going(c, u)
  <2>1. Leaving(u)' = Leaving(u) \ {c} /\ c \in Leaving(u)
      BY <1>3 DEF Leaving, Going
  <2>2. Cardinality(Leaving(u)') = Cardinality(Leaving(u)) - 1
      BY <1>1, <2>1, OneLess
  <2> QED
      BY <1>2, <1>3, <2>2 DEF Leaves, One
<1>4. CASE ~Going(c, u)
  <2>1. Leaving(u)' = Leaving(u)
      BY <1>4 DEF Leaving, Going
  <2> QED
      BY <1>2, <1>4, <2>1 DEF Leaves, One
<1> QED
    BY <1>3, <1>4

\* A chore that is to release a slot is not there before.
LEMMA ChoreCome ==
    ASSUME IsFiniteSet(chores), NEW d, chores' = chores \cup {d}, NEW u,
           Going(d, u) => d \notin chores
    PROVE  /\ Leaves(u)' \in Nat
           /\ Leaves(u)' = Leaves(u) + One(Going(d, u))
<1>1. IsFiniteSet(Leaving(u)) /\ IsFiniteSet(Leaving(u)')
  <2>1. Leaving(u) \in SUBSET chores /\ Leaving(u)' \in SUBSET (chores \cup {d})
      BY DEF Leaving
  <2>2. IsFiniteSet(chores \cup {d})
      BY FS_AddElement
  <2> QED
      BY <2>1, <2>2, FS_Subset
<1>2. Cardinality(Leaving(u)) \in Nat /\ Cardinality(Leaving(u)') \in Nat
    BY <1>1, FS_CardinalityType
<1>3. CASE Going(d, u)
  <2>1. Leaving(u)' = Leaving(u) \cup {d} /\ d \notin Leaving(u)
      BY <1>3 DEF Leaving, Going
  <2>2. Cardinality(Leaving(u)') = Cardinality(Leaving(u)) + 1
      BY <1>1, <2>1, OneMore
  <2> QED
      BY <1>2, <1>3, <2>2 DEF Leaves, One
<1>4. CASE ~Going(d, u)
  <2>1. Leaving(u)' = Leaving(u)
      BY <1>4 DEF Leaving, Going
  <2> QED
      BY <1>2, <1>4, <2>1 DEF Leaves, One
<1> QED
    BY <1>3, <1>4

LEMMA ChoreFollowed ==
    ASSUME IsFiniteSet(chores), NEW c \in chores, NEW d, chores' = (chores \ {c}) \cup {d},
           NEW u, Going(d, u) => d \notin chores
    PROVE  /\ Leaves(u)' \in Nat /\ Leaves(u) >= One(Going(c, u))
           /\ Leaves(u)' = Leaves(u) - One(Going(c, u)) + One(Going(d, u))
<1> DEFINE S == Leaving(u) \ {c}
<1>1. IsFiniteSet(Leaving(u)) /\ IsFiniteSet(S)
  <2>1. Leaving(u) \in SUBSET chores /\ S \in SUBSET chores
      BY DEF Leaving
  <2> QED
      BY <2>1, FS_Subset
<1>2. Cardinality(Leaving(u)) \in Nat /\ Cardinality(S) \in Nat
    BY <1>1, FS_CardinalityType
<1>3. Cardinality(S) = Cardinality(Leaving(u)) - One(Going(c, u))
  <2>1. CASE Going(c, u)
    <3>1. c \in Leaving(u)
        BY <2>1 DEF Leaving, Going
    <3> QED
        BY <1>1, <2>1, <3>1, OneLess DEF One
  <2>2. CASE ~Going(c, u)
    <3>1. S = Leaving(u)
        BY <2>2 DEF Leaving, Going
    <3> HIDE DEF S
    <3> QED
        BY <1>2, <2>2, <3>1 DEF One
  <2> QED
      BY <2>1, <2>2
<1>4. Leaving(u)' = IF Going(d, u) THEN S \cup {d} ELSE S
  <2>1. \A x : x \in Leaving(u) <=> x \in chores /\ Going(x, u)
      BY DEF Leaving, Going
  <2>2. \A x : x \in Leaving(u)' <=> x \in chores' /\ Going(x, u)
      BY DEF Leaving, Going
  <2> HIDE DEF Going
  <2>3. CASE Going(d, u)
      BY <2>1, <2>2, <2>3
  <2>4. CASE ~Going(d, u)
      BY <2>1, <2>2, <2>4
  <2> QED
      BY <2>3, <2>4
<1>5. Going(d, u) => d \notin S
    BY DEF Leaving
<1> HIDE DEF S
<1>6. Going(d, u) => Cardinality(S \cup {d}) = Cardinality(S) + 1
    BY <1>1, <1>5, OneMore
<1>7. Leaves(u) = Cardinality(Leaving(u)) /\ Leaves(u)' = Cardinality(Leaving(u)')
    BY DEF Leaves
<1>8. Cardinality(Leaving(u)') = Cardinality(S) + One(Going(d, u))
    BY <1>2, <1>4, <1>6 DEF One
<1>9. One(Going(c, u)) \in Nat /\ One(Going(d, u)) \in Nat
    BY DEF One
<1> HIDE DEF Going
<1> QED
    BY <1>2, <1>3, <1>7, <1>8, <1>9

LEMMA BotKeeps ==
    ASSUME TypeOK, SlotsInv, SlotsInv', Covered, Bot
    PROVE  Kept \/ (Leaked /\ Leaky)
<1> USE DEF pgVars, redisVars, tableVars, fanoutVars, intakeVars, expiryVars
<1>0. /\ IsFiniteSet(chores)
      /\ \A c \in chores : c.step \in {"vacate", "release"} => c.order \notin InWork(c.user)
      /\ \A c \in chores : c.owed = {}
      /\ \A c \in chores' : c.owed = {}
      /\ \A c \in chores : c.order \in Orders /\ c.user \in Users
    BY DEF SlotsInv, LeavingIsOver, TypeOK, LifecycleTypeOK, ChoreTypes
<1>1. UNCHANGED <<task, sweep, lapsed, cleaned>>
    BY DEF Bot
<1>2. ASSUME NEW u
      PROVE  /\ Reserves(u)' = Reserves(u)
             /\ Count(sweep.expired, u)' = Count(sweep.expired, u)
             /\ Count(lapsed, u)' = Count(lapsed, u)
             /\ Count(cleaned, u)' = Count(cleaned, u)
    BY <1>1, Unmoved DEF Count
\* The slot moves from one of the three to another, or is given back.
<1>3. ASSUME \A u \in Users :
                /\ pending'[u] - Opens(u)' - Works(u)' - Leaves(u)'
                     = pending[u] - Opens(u) - Works(u) - Leaves(u)
                /\ pending'[u] \in Int /\ Opens(u)' \in Int
                /\ Works(u)' \in Int /\ Leaves(u)' \in Int
      PROVE  Kept
  <2> SUFFICES ASSUME NEW u \in Users PROVE pending'[u] - Load(u)' = pending[u] - Load(u)
      BY DEF Kept
  <2>1. /\ pending'[u] - Opens(u)' - Works(u)' - Leaves(u)'
             = pending[u] - Opens(u) - Works(u) - Leaves(u)
        /\ pending'[u] \in Int /\ Opens(u)' \in Int
        /\ Works(u)' \in Int /\ Leaves(u)' \in Int
      BY <1>3
  <2> QED
      BY <1>2, <2>1, Loaded DEF Load
<1>4. ASSUME UNCHANGED <<status, takenBy, offer, pending>>,
             \A u \in Users : Leaves(u)' = Leaves(u)
      PROVE  Kept
  <2>1. ASSUME NEW u \in Users
        PROVE  /\ pending'[u] - Opens(u)' - Works(u)' - Leaves(u)'
                    = pending[u] - Opens(u) - Works(u) - Leaves(u)
               /\ pending'[u] \in Int /\ Opens(u)' \in Int
               /\ Works(u)' \in Int /\ Leaves(u)' \in Int
    <3>1. pending'[u] = pending[u] /\ Opens(u)' = Opens(u) /\ Works(u)' = Works(u)
          /\ Leaves(u)' = Leaves(u)
        BY <1>4, Unmoved
    <3> QED
        BY <3>1, Loaded
  <2> QED
      BY <1>3, <2>1
<1>5. ASSUME NEW o \in Orders, NEW v \in Users, BeginTake(o, v) \/ AbortTake(o, v)
      PROVE  Kept
    BY <1>4, <1>5, Unmoved DEF BeginTake, AbortTake
<1>6. ASSUME NEW o \in Orders, NEW v \in Users, CommitTake(o, v)
      PROVE  Kept
  <2> DEFINE rivals == {w \in Users \ {v} : offer[<<o, w>>] \in Open}
             d == Chore(IF rivals = {} THEN "arm" ELSE "settle", o, v, rivals)
  <2>1. /\ offer[<<o, v>>] \in Open /\ status[o] # "taken"
        /\ offer' = [r \in Rows |->
                IF r = <<o, v>> THEN "taken"
                ELSE IF r[1] = o /\ offer[r] \in Open THEN "expired" ELSE offer[r]]
        /\ status' = [status EXCEPT ![o] = "taken"]
        /\ takenBy' = [takenBy EXCEPT ![o] = v]
        /\ chores' = chores \cup {d}
        /\ UNCHANGED pending
      BY <1>6 DEF CommitTake, Takeable, Active
  <2>2. rivals = {}
    <3>1. d \in chores' /\ d.owed = rivals
        BY <2>1 DEF Chore
    <3> QED
        BY <1>0, <3>1
  <2>3. \A r \in Rows : offer'[r] = IF r = <<o, v>> THEN "taken" ELSE offer[r]
    <3>1. \A r \in Rows : r = <<r[1], r[2]>> /\ r[2] \in Users
        BY DEF Rows
    <3> QED
        BY <2>1, <2>2, <3>1
  <2>4. d.step = "arm"
      BY <2>2 DEF Chore
  <2> HIDE DEF rivals, d
  <2>5. <<o, v>> \in Rows /\ <<o, v>>[2] = v
      BY DEF Rows
  <2>6. ASSUME NEW u \in Users
        PROVE  /\ pending'[u] - Opens(u)' - Works(u)' - Leaves(u)'
                    = pending[u] - Opens(u) - Works(u) - Leaves(u)
               /\ pending'[u] \in Int /\ Opens(u)' \in Int
               /\ Works(u)' \in Int /\ Leaves(u)' \in Int
    <3>1. Opens(u)' \in Nat /\ Opens(u)' = Opens(u) - One(v = u)
        BY <2>1, <2>3, <2>5, ClosedCount
    <3>2. Works(u)' \in Nat /\ Works(u)' = Works(u) + One(v = u)
      <4>1. /\ status[o] # "taken"
            /\ status' = [status EXCEPT ![o] = "taken"]
            /\ takenBy' = [takenBy EXCEPT ![o] = v]
          BY <2>1
      <4> QED
          BY <4>1, WorksTaken DEF One
    <3>3. Leaves(u)' \in Nat /\ Leaves(u)' = Leaves(u)
      <4>1. ~Going(d, u) /\ One(Going(d, u)) = 0
          BY <2>4 DEF Going, One
      <4>2. Leaves(u)' \in Nat /\ Leaves(u)' = Leaves(u) + One(Going(d, u))
          BY <1>0, <2>1, <4>1, ChoreCome
      <4> QED
          BY <4>1, <4>2, Loaded
    <3>4. One(v = u) \in Nat /\ pending'[u] = pending[u]
        BY <2>1 DEF One
    <3> QED
        BY <3>1, <3>2, <3>3, <3>4, Loaded
  <2> QED
      BY <1>3, <2>6
\* An order leaves work, and its handler has a slot to release.
<1>7. ASSUME NEW o \in Orders, NEW v \in Users, NEW s, s # "taken", Resolve(o, v, s),
             UNCHANGED <<takenBy, offer, pending>>,
             \A u \in Users :
                Leaves(u)' \in Nat /\ Leaves(u)' = Leaves(u) + One(v = u)
      PROVE  Kept
  <2>1. ASSUME NEW u \in Users
        PROVE  /\ pending'[u] - Opens(u)' - Works(u)' - Leaves(u)'
                    = pending[u] - Opens(u) - Works(u) - Leaves(u)
               /\ pending'[u] \in Int /\ Opens(u)' \in Int
               /\ Works(u)' \in Int /\ Leaves(u)' \in Int
    <3>1. Works(u)' \in Nat /\ Works(u)' = Works(u) - One(v = u)
      <4>1. status' = [status EXCEPT ![o] = s] /\ takenBy[o] = v /\ status[o] = "taken"
          BY <1>7 DEF Resolve, InWork
      <4>2. o \in InWork(u) <=> v = u
          BY <4>1 DEF InWork
      <4>3. /\ Works(u)' \in Nat
            /\ o \in InWork(u) => Works(u)' = Works(u) - 1
            /\ o \notin InWork(u) => Works(u)' = Works(u)
          BY <1>7, <4>1, WorksOverwritten
      <4> QED
          BY <4>2, <4>3, Loaded DEF One
    <3>2. Leaves(u)' \in Nat /\ Leaves(u)' = Leaves(u) + One(v = u)
        BY <1>7
    <3>3. Opens(u)' = Opens(u) /\ One(v = u) \in Nat /\ pending'[u] = pending[u]
        BY <1>7, Unmoved DEF One
    <3> QED
        BY <3>1, <3>2, <3>3, Loaded
  <2> QED
      BY <1>3, <2>1
<1>8. ASSUME NEW o \in Orders, NEW v \in Users, Complete(o, v) \/ Cancel(o, v)
      PROVE  Kept
  <2> DEFINE d == Chore("release", o, v, {})
  <2>1. /\ Resolve(o, v, "completed") \/ Resolve(o, v, "cancelled")
        /\ chores' = chores \cup {d} /\ UNCHANGED <<takenBy, offer, pending>>
      BY <1>8 DEF Complete, Cancel
  <2>2. d \notin chores
    <3>1. o \in InWork(v) /\ d.step = "release" /\ d.order = o /\ d.user = v
        BY <2>1 DEF Resolve, Chore
    <3> HIDE DEF d
    <3> QED
        BY <1>0, <3>1
  <2>3. \A u : Going(d, u) <=> v = u
      BY DEF Going, Chore
  <2> HIDE DEF d
  <2>4. ASSUME NEW u \in Users
        PROVE  Leaves(u)' \in Nat /\ Leaves(u)' = Leaves(u) + One(v = u)
    <3>1. Leaves(u)' \in Nat /\ Leaves(u)' = Leaves(u) + One(Going(d, u))
        BY <1>0, <2>1, <2>2, ChoreCome
    <3>2. One(Going(d, u)) = One(v = u)
        BY <2>3 DEF One
    <3> QED
        BY <3>1, <3>2
  <2> QED
      BY <1>7, <2>1, <2>4
<1>9. ASSUME NEW o \in Orders, TimerFires(o)
      PROVE  Kept
  <2> DEFINE d == Chore("timeOut", o, timer[o], {})
  <2>1. UNCHANGED <<status, takenBy, offer, pending>> /\ chores' = chores \cup {d}
      BY <1>9 DEF TimerFires
  <2>2. \A u : ~Going(d, u) /\ One(Going(d, u)) = 0
      BY DEF Going, Chore, One
  <2> HIDE DEF d
  <2>3. ASSUME NEW u \in Users PROVE Leaves(u)' = Leaves(u)
    <3>1. Leaves(u)' = Leaves(u) + One(Going(d, u))
        BY <1>0, <2>1, <2>2, ChoreCome
    <3> QED
        BY <2>2, <3>1, Loaded
  <2> QED
      BY <1>4, <2>1, <2>3
\* A chore that is done with has no slot to release, or has released it.
<1>10. ASSUME NEW c \in chores, Drop(c) \/ Follow(c, "arm") \/ Follow(c, "clear"),
              NEW u \in Users
       PROVE  /\ Leaves(u)' \in Nat /\ Leaves(u) >= One(Going(c, u))
              /\ Leaves(u)' = Leaves(u) - One(Going(c, u))
              /\ One(Going(c, u)) \in Nat
  <2>1. One(Going(c, u)) \in Nat
      BY DEF One
  <2>2. CASE Drop(c)
    <3>1. Leaves(u)' \in Nat /\ Leaves(u)' = Leaves(u) - One(Going(c, u))
        BY <1>0, <2>2, ChoreGone DEF Drop
    <3> QED
        BY <2>1, <3>1, Loaded
  <2>3. ASSUME NEW s, s \in {"arm", "clear"}, Follow(c, s)
        PROVE  /\ Leaves(u)' \in Nat /\ Leaves(u) >= One(Going(c, u))
               /\ Leaves(u)' = Leaves(u) - One(Going(c, u))
    <3> DEFINE d == Chore(s, c.order, c.user, {})
    <3>1. chores' = (chores \ {c}) \cup {d}
        BY <2>3 DEF Follow
    <3>2. ~Going(d, u) /\ One(Going(d, u)) = 0
        BY <2>3 DEF Going, Chore, One
    <3> HIDE DEF d
    <3>3. /\ Leaves(u)' \in Nat /\ Leaves(u) >= One(Going(c, u))
          /\ Leaves(u)' = Leaves(u) - One(Going(c, u)) + One(Going(d, u))
        BY <1>0, <3>1, <3>2, ChoreFollowed
    <3> QED
        BY <2>1, <3>2, <3>3, Loaded
  <2> QED
      BY <1>10, <2>1, <2>2, <2>3
<1>11. ASSUME NEW c \in chores, Drop(c) \/ Follow(c, "arm"),
              c.step \notin {"vacate", "release"},
              UNCHANGED <<status, takenBy, offer, pending>>
       PROVE  Kept
  <2>1. ASSUME NEW u \in Users PROVE Leaves(u)' = Leaves(u)
    <3>1. One(Going(c, u)) = 0
        BY <1>11 DEF Going, One
    <3>2. Leaves(u)' = Leaves(u) - One(Going(c, u))
        BY <1>10, <1>11
    <3> QED
        BY <3>1, <3>2, Loaded
  <2> QED
      BY <1>4, <1>11, <2>1
<1>12. ASSUME NEW c \in chores, Settle(c)
       PROVE  Kept
  <2>1. {c.order} \X c.owed = {} /\ c.owed = {}
      BY <1>0
  <2>2. Release({}) /\ Follow(c, "arm") /\ UNCHANGED <<status, takenBy, offer>>
      BY <1>12, <2>1 DEF Settle
  <2>3. pending' = pending
    <3>1. \A u \in Users : Count({}, u) = 0 /\ pending[u] \in Nat
        BY CountNone DEF TypeOK, TablesTypeOK
    <3>2. \A u \in Users : pending'[u] = pending[u]
        BY <1>0, <2>2, <3>1, ReleasePays
    <3> QED
        BY <2>2, <3>2 DEF Release, TypeOK, TablesTypeOK
  <2> QED
      BY <1>11, <1>12, <2>2, <2>3 DEF Settle
<1>13. ASSUME NEW c \in chores, Arm(c) \/ Clear(c)
       PROVE  Kept
    BY <1>11, <1>13 DEF Arm, Clear
<1>14. ASSUME NEW c \in chores, TimeOut(c)
       PROVE  Kept
  <2> DEFINE d == Chore("vacate", c.order, c.user, {})
  <2>1. c.step = "timeOut" /\ UNCHANGED <<takenBy, offer, pending>>
      BY <1>14 DEF TimeOut
  <2>2. CASE Drop(c) /\ UNCHANGED status
      BY <1>11, <2>1, <2>2
  <2>3. CASE Resolve(c.order, c.user, "timed_out") /\ Follow(c, "vacate")
    <3>1. chores' = (chores \ {c}) \cup {d}
        BY <2>3 DEF Follow
    <3>2. d \notin chores
      <4>1. c.order \in InWork(c.user)
          BY <2>3 DEF Resolve
      <4>2. d.step = "vacate" /\ d.order = c.order /\ d.user = c.user
          BY DEF Chore
      <4> HIDE DEF d
      <4> QED
          BY <1>0, <4>1, <4>2
    <3>3. \A u : Going(d, u) <=> c.user = u
        BY DEF Going, Chore
    <3> HIDE DEF d
    <3>4. ASSUME NEW u \in Users
          PROVE  Leaves(u)' \in Nat /\ Leaves(u)' = Leaves(u) + One(c.user = u)
      <4>1. /\ Leaves(u)' \in Nat
            /\ Leaves(u)' = Leaves(u) - One(Going(c, u)) + One(Going(d, u))
          BY <1>0, <3>1, <3>2, ChoreFollowed
      <4>2. One(Going(d, u)) = One(c.user = u) /\ One(Going(c, u)) = 0
          BY <2>1, <3>3 DEF One, Going
      <4>3. One(c.user = u) \in Nat
          BY DEF One
      <4> QED
          BY <4>1, <4>2, <4>3, Loaded
    <3> QED
        BY <1>0, <1>7, <2>1, <2>3, <3>4
  <2> QED
      BY <1>14, <2>2, <2>3 DEF TimeOut
<1>15. ASSUME NEW c \in chores, Vacate(c)
       PROVE  Kept
  <2>1. /\ c.step \in {"vacate", "release"} /\ Release({<<c.order, c.user>>})
        /\ Drop(c) \/ Follow(c, "clear")
        /\ UNCHANGED <<status, takenBy, offer>>
      BY <1>15 DEF Vacate
  <2>2. ASSUME NEW u \in Users
        PROVE  /\ pending'[u] - Opens(u)' - Works(u)' - Leaves(u)'
                    = pending[u] - Opens(u) - Works(u) - Leaves(u)
               /\ pending'[u] \in Int /\ Opens(u)' \in Int
               /\ Works(u)' \in Int /\ Leaves(u)' \in Int
    <3>1. Count({<<c.order, c.user>>}, u) = One(c.user = u)
      <4> DEFINE r == <<c.order, c.user>>
      <4>1. r[2] = c.user
          OBVIOUS
      <4> HIDE DEF r
      <4>2. Count({r}, u) = One(c.user = u)
          BY <4>1, RowCount
      <4> QED
          BY <4>2 DEF r
    <3>2. One(Going(c, u)) = One(c.user = u)
        BY <2>1 DEF Going, One
    <3>3. /\ Leaves(u)' \in Nat /\ Leaves(u) >= One(c.user = u)
          /\ Leaves(u)' = Leaves(u) - One(c.user = u) /\ One(c.user = u) \in Nat
        BY <1>10, <2>1, <3>2
    <3>4. Count({<<c.order, c.user>>}, u) <= pending[u]
        BY <3>1, <3>3, Loaded
    <3>5. {<<c.order, c.user>>} \in SUBSET Rows
        BY <1>0 DEF Rows
    <3>6. pending'[u] = pending[u] - One(c.user = u)
        BY <1>0, <2>1, <3>1, <3>4, <3>5, ReleasePays
    <3>7. Opens(u)' = Opens(u) /\ Works(u)' = Works(u)
        BY <2>1, Unmoved
    <3> QED
        BY <3>3, <3>6, <3>7, Loaded
  <2> QED
      BY <1>3, <2>2
<1>16. ASSUME UNCHANGED <<status, takenBy, offer, pending>>, Leaky,
              \A u \in Users : Leaves(u)' \in Nat /\ Leaves(u)' <= Leaves(u)
       PROVE  Leaked /\ Leaky
  <2>1. ASSUME NEW u \in Users PROVE Load(u)' <= Load(u)
    <3>1. Opens(u)' = Opens(u) /\ Works(u)' = Works(u)
          /\ Leaves(u)' \in Nat /\ Leaves(u)' <= Leaves(u)
        BY <1>16, Unmoved
    <3> QED
        BY <1>2, <3>1, Loaded DEF Load
  <2> QED
      BY <1>16, <2>1 DEF Leaked
<1>17. ASSUME NEW c \in chores, ChoreRaises(c)
       PROVE  Leaked /\ Leaky
  <2>1. Drop(c) /\ UNCHANGED <<status, takenBy, offer, pending>> /\ Leaky
      BY <1>17 DEF ChoreRaises, Leaky
  <2>2. ASSUME NEW u \in Users PROVE Leaves(u)' \in Nat /\ Leaves(u)' <= Leaves(u)
    <3>1. /\ Leaves(u)' \in Nat /\ One(Going(c, u)) \in Nat
          /\ Leaves(u)' = Leaves(u) - One(Going(c, u))
        BY <1>10, <2>1
    <3> QED
        BY <3>1, Loaded
  <2> QED
      BY <1>16, <2>1, <2>2
<1>18. CASE BotCrash
  <2>1. UNCHANGED <<status, takenBy, offer, pending>> /\ chores' = {} /\ Leaky
      BY <1>18 DEF BotCrash, Leaky
  <2>2. ASSUME NEW u \in Users PROVE Leaves(u)' \in Nat /\ Leaves(u)' <= Leaves(u)
    <3>1. Leaving(u)' = {}
        BY <2>1 DEF Leaving
    <3>2. Leaves(u)' = 0
        BY <3>1, FS_EmptySet DEF Leaves
    <3> QED
        BY <3>2, Loaded
  <2> QED
      BY <1>16, <2>1, <2>2
<1> QED
  <2>1. LifecycleNext
      BY DEF Bot
  <2> QED
      BY <1>5, <1>6, <1>8, <1>9, <1>12, <1>13, <1>14, <1>15, <1>17, <1>18, <2>1
      DEF LifecycleNext, UserStep, EndTake, ChoreStep

LEMMA StepKeeps ==
    ASSUME Careful, TypeOK, AskingInv, SlotsInv, SlotsInv', Covered, [Next]_vars
    PROVE  Kept \/ (Leaked /\ Leaky)
<1>1. CASE Dispatcher
  <2>1. ~SweepRaises /\ \A t \in Tasks : ~TaskRaises(t)
      BY DEF SweepRaises, TaskRaises, Careful
  <2>2. SweepStep \/ DispatcherCrash \/ \E t \in Tasks : TaskStep(t)
      BY <1>1, <2>1 DEF Dispatcher, FanoutNext, FanoutFault
  <2> QED
      BY <1>1, <2>2, SweepKeeps, CrashLeaks, TaskKeeps
<1>2. CASE UNCHANGED vars
  <2> SUFFICES ASSUME NEW u \in Users PROVE pending'[u] - Load(u)' = pending[u] - Load(u)
      BY DEF Kept
  <2>1. UNCHANGED <<status, takenBy, offer, pending, chores, task, sweep, lapsed, cleaned>>
      BY <1>2 DEF vars, tableVars, pgVars, redisVars, fanoutVars, expiryVars, lifecycleVars,
          intakeVars
  <2>2. /\ Opens(u)' = Opens(u) /\ Works(u)' = Works(u)
        /\ Leaves(u)' = Leaves(u) /\ Reserves(u)' = Reserves(u)
        /\ Count(sweep.expired, u)' = Count(sweep.expired, u)
        /\ Count(lapsed, u)' = Count(lapsed, u) /\ Count(cleaned, u)' = Count(cleaned, u)
        /\ pending'[u] = pending[u]
      BY <2>1, Unmoved DEF Count
  <2> QED
      BY <2>2, Loaded DEF Load
<1> QED
    BY <1>1, <1>2, ExpirerKeeps, BotKeeps, ApiKeeps, TimeKeeps DEF Next
----------------------------------------------------------------------------
(* The theorems.                                                            *)

LoadsTyped == \A u \in Users : pending[u] \in Nat /\ Load(u) \in Nat

LEMMA LoadIsNat ==
    ASSUME TypeOK, SlotsInv
    PROVE  LoadsTyped
<1> SUFFICES ASSUME NEW u \in Users PROVE pending[u] \in Nat /\ Load(u) \in Nat
    BY DEF LoadsTyped
<1>1. IsFiniteSet(chores)
    BY DEF SlotsInv, LeavingIsOver
<1>2. pending[u] \in Nat
    BY DEF TypeOK, TablesTypeOK
<1> QED
    BY <1>1, <1>2, CountsAreNat DEF Load

\* The load is what the tables hold and what is on its way back to the counter.
LEMMA LoadIsHeld ==
    ASSUME TypeOK, SlotsInv, NEW u \in Users
    PROVE  /\ Held(u) \in Nat /\ InTransit(u) \in Nat
           /\ Load(u) = Held(u) + InTransit(u)
<1>1. /\ Opens(u) \in Nat /\ Works(u) \in Nat /\ Reserves(u) \in Nat /\ Leaves(u) \in Nat
      /\ Count(sweep.expired, u) \in Nat /\ Count(lapsed, u) \in Nat
      /\ Count(cleaned, u) \in Nat
    BY CountsAreNat DEF SlotsInv, LeavingIsOver
<1>2. Held(u) = Opens(u) + Works(u)
    BY DEF Held, Opens, Works
<1>3. Cardinality({c \in chores : u \in c.owed}) = 0
  <2>1. {c \in chores : u \in c.owed} = {}
      BY DEF SlotsInv, LeavingIsOver
  <2> QED
      BY <2>1, FS_EmptySet
<1>4. InTransit(u) = Reserves(u) + Count(sweep.expired, u) + Count(lapsed, u)
                     + Count(cleaned, u) + Leaves(u) + 0
    BY <1>3 DEF InTransit, Reserves, Reserving, Count, Leaves, Leaving
<1>5. Load(u) = Opens(u) + Works(u) + Reserves(u) + Count(sweep.expired, u)
                + Count(lapsed, u) + Count(cleaned, u) + Leaves(u)
    BY DEF Load
<1> QED
    BY <1>1, <1>2, <1>4, <1>5

LEMMA NothingLoaded ==
    ASSUME Init
    PROVE  SlotsInv /\ Balanced
<1>1. /\ offer = [r \in Rows |-> "none"] /\ status = [o \in Orders |-> "absent"]
      /\ pending = [u \in Users |-> 0] /\ task = [t \in Tasks |-> NoTask]
      /\ sweep.expired = {} /\ claimed = {} /\ lapsed = {} /\ cleaned = {} /\ chores = {}
      /\ taking = {} /\ deadlines = {}
    BY DEF Init, TablesInit, FanoutInit, ExpiryInit, LifecycleInit, IntakeInit, IdleSweep
<1>2. SlotsInv
    BY <1>1, FS_EmptySet DEF SlotsInv, HandsFree, LeavingIsOver, DeliveredFirst, RollbackIsOwn,
        OwnTask, NoTask
<1>3. ASSUME NEW u \in Users PROVE pending[u] = Load(u)
  <2>1. {o \in Orders : offer[<<o, u>>] \in Open} = {}
      BY <1>1 DEF Rows, Open
  <2>2. InWork(u) = {} /\ Reserving(u) = {} /\ Leaving(u) = {}
      BY <1>1 DEF InWork, Reserving, Leaving, NoTask
  <2>3. Opens(u) = 0 /\ Works(u) = 0 /\ Reserves(u) = 0 /\ Leaves(u) = 0
      BY <2>1, <2>2, FS_EmptySet DEF Opens, Works, Reserves, Leaves
  <2>4. Count(sweep.expired, u) = 0 /\ Count(lapsed, u) = 0 /\ Count(cleaned, u) = 0
      BY <1>1, CountNone
  <2> QED
      BY <1>1, <2>3, <2>4 DEF Load
<1> QED
    BY <1>2, <1>3 DEF Balanced

LEMMA AlwaysSlots ==
    ASSUME Careful
    PROVE  Spec => [](SlotsInv /\ LoadsTyped)
<1>1. "taskError" \notin Env
    BY DEF Careful
<1>2. Init => SlotsInv
    BY NothingLoaded
<1>3. SafeInv /\ AskingInv /\ OffersInv /\ SlotsInv /\ [Next]_vars => SlotsInv'
    BY SlotsInductive
<1>4. TypeOK /\ SlotsInv => LoadsTyped
    BY LoadIsNat
<1>5. Spec => []AskingInv
    BY <1>1, AlwaysAsking
<1>6. Spec => []OffersInv
    BY <1>1, AlwaysOffers
<1> QED
    BY <1>2, <1>3, <1>4, <1>5, <1>6, TypeCorrect, SafetyOfTakes, PTL DEF Spec

\* A counter is never below what the tables hold: a user whose offers and orders fill the
\* limit is not offered another, whatever crashes, raises, is lost, comes early or late or
\* is overwritten.
THEOREM CountersCover ==
    ASSUME Careful
    PROVE  Spec => []SlotsCoverHeld
<1>1. "taskError" \notin Env
    BY DEF Careful
<1>2. Init => Covered
  <2> SUFFICES ASSUME Init PROVE Covered
      OBVIOUS
  <2>1. TypeOK /\ SlotsInv /\ Balanced
      BY InitType, NothingLoaded
  <2> QED
      BY <2>1, LoadIsNat DEF Covered, Balanced, LoadsTyped
<1>3. /\ TypeOK /\ AskingInv /\ SlotsInv /\ LoadsTyped /\ Covered
      /\ SlotsInv' /\ LoadsTyped' /\ [Next]_vars
      => Covered'
  <2> SUFFICES ASSUME TypeOK, AskingInv, SlotsInv, LoadsTyped, Covered, SlotsInv', LoadsTyped',
                      [Next]_vars, NEW u \in Users
               PROVE  pending'[u] >= Load(u)'
      BY DEF Covered
  <2>1. Kept \/ (Leaked /\ Leaky)
      BY StepKeeps
  <2>2. pending[u] >= Load(u) /\ pending[u] \in Nat /\ Load(u) \in Nat
      BY DEF Covered, LoadsTyped
  <2>3. pending'[u] \in Nat /\ Load(u)' \in Nat
      BY DEF LoadsTyped
  <2>4. CASE Kept
    <3>1. pending'[u] - Load(u)' = pending[u] - Load(u)
        BY <2>4 DEF Kept
    <3> QED
        BY <2>2, <2>3, <3>1
  <2>5. CASE Leaked
    <3>1. pending'[u] = pending[u] /\ Load(u)' <= Load(u)
        BY <2>5 DEF Leaked
    <3> QED
        BY <2>2, <2>3, <3>1
  <2> QED
      BY <2>1, <2>4, <2>5
<1>4. TypeOK /\ SlotsInv /\ Covered => SlotsCoverHeld
  <2> SUFFICES ASSUME TypeOK, SlotsInv, Covered, NEW u \in Users PROVE pending[u] >= Held(u)
      BY DEF SlotsCoverHeld
  <2>1. pending[u] >= Load(u) /\ pending[u] \in Nat
      BY DEF Covered, TypeOK, TablesTypeOK
  <2>2. Held(u) \in Nat /\ InTransit(u) \in Nat /\ Load(u) = Held(u) + InTransit(u)
      BY LoadIsHeld
  <2> QED
      BY <2>1, <2>2
<1>5. Spec => []AskingInv
    BY <1>1, AlwaysAsking
<1>6. Spec => [](SlotsInv /\ LoadsTyped)
    BY AlwaysSlots
<1> QED
    BY <1>2, <1>3, <1>4, <1>5, <1>6, TypeCorrect, PTL DEF Spec

\* While nothing fails no slot is leaked and none given back twice: a counter is exactly
\* what the tables hold and what a process has still to release.
THEOREM CountersExact ==
    ASSUME Faultless
    PROVE  Spec => []SlotsConserved
<1>1. Careful /\ Calm
    BY DEF Faultless
<1>2. Init => Balanced
    BY NothingLoaded
<1>3. /\ TypeOK /\ AskingInv /\ CalmInv /\ SlotsInv /\ LoadsTyped /\ Balanced
      /\ SlotsInv' /\ LoadsTyped' /\ [Next]_vars
      => Balanced'
  <2> SUFFICES ASSUME TypeOK, AskingInv, CalmInv, SlotsInv, LoadsTyped, Balanced, SlotsInv',
                      LoadsTyped', [Next]_vars, NEW u \in Users
               PROVE  pending'[u] = Load(u)'
      BY DEF Balanced
  <2>1. ~Leaky
    <3>1. \A t \in Tasks : task[t].pc \in {"noTakers", "mark"} => status[t[2]] \in Active
        BY DEF CalmInv, CalmTasks, CalmTask, Engaged
    <3> QED
        BY <3>1 DEF Leaky, Faultless, Calm, Active
  <2>2. pending[u] = Load(u) /\ pending[u] \in Nat
      BY DEF Balanced, LoadsTyped
  <2>3. pending'[u] \in Nat /\ Load(u)' \in Nat
      BY DEF LoadsTyped
  <2>4. Covered
      BY DEF Covered, Balanced, LoadsTyped
  <2>5. Kept
      BY <1>1, <2>1, <2>4, StepKeeps
  <2>6. pending'[u] - Load(u)' = pending[u] - Load(u)
      BY <2>5 DEF Kept
  <2> QED
      BY <2>2, <2>3, <2>6
<1>4. TypeOK /\ SlotsInv /\ Balanced => SlotsConserved
    BY LoadIsHeld DEF SlotsConserved, Balanced
<1>5. Spec => [](TypeOK /\ AskingInv /\ OffersInv /\ CalmInv)
    BY <1>1, AlwaysCalm
<1>6. Spec => [](SlotsInv /\ LoadsTyped)
    BY <1>1, AlwaysSlots
<1> QED
    BY <1>2, <1>3, <1>4, <1>5, <1>6, PTL DEF Spec
=============================================================================

-------------------------- MODULE OrderMarketBoard --------------------------
(***************************************************************************)
(* The marketplace implements the board, and what follows for the status   *)
(* of orders and for the ledger, in calm surroundings and for any number   *)
(* of orders and users.                                                    *)
(*                                                                         *)
(* Most steps change nothing the board shows. The others move one order    *)
(* on, as one action of the board does, or let offers lapse.               *)
(***************************************************************************)
EXTENDS OrderMarketCalm

\* What the board shows of an order.
Entry(o) == <<StageOf(o), UserOf(o), AlreadyOffered(o), PaidFor(o)>>

\* The refinement mapping.
stages == [o \in Orders |-> StageOf(o)]
users == [o \in Orders |-> UserOf(o)]
askings == [o \in Orders |-> AlreadyOffered(o)]
payments == [o \in Orders |-> PaidFor(o)]

\* The tables say the same of an order, but for which of the active statuses it has and
\* how old an open offer is.
SameTables(o) ==
    /\ status'[o] = status[o] \/ (status[o] \in Active /\ status'[o] \in Active)
    /\ takenBy'[o] = takenBy[o]
    /\ \A u \in Users :
        /\ ledger'[<<o, u>>] = ledger[<<o, u>>]
        /\ offer'[<<o, u>>] \in Open <=> offer[<<o, u>>] \in Open
        /\ offer'[<<o, u>>] = "none" <=> offer[<<o, u>>] = "none"

\* An order in work is asked of nobody.
LEMMA WorkingEntry ==
    ASSUME NEW o \in Orders, status[o] = "taken"
    PROVE  StageOf(o) = "working" /\ UserOf(o) = takenBy[o]
<1>1. AskedOf(o) = {}
    BY DEF AskedOf, Active
<1> QED
    BY <1>1 DEF StageOf, UserOf, Active

LEMMA SameEntry ==
    ASSUME NEW o \in Orders, SameTables(o)
    PROVE  Entry(o)' = Entry(o)
<1>1. AskedOf(o)' = AskedOf(o)
    BY DEF SameTables, AskedOf, Active
<1>2. StageOf(o)' = StageOf(o)
    BY <1>1 DEF SameTables, StageOf, Active
<1>3. UserOf(o)' = UserOf(o)
    BY <1>1 DEF SameTables, UserOf, Active
<1>4. AlreadyOffered(o)' = AlreadyOffered(o) /\ PaidFor(o)' = PaidFor(o)
    BY DEF SameTables, AlreadyOffered, PaidFor
<1> QED
    BY <1>2, <1>3, <1>4 DEF Entry

LEMMA OneEntryMoves ==
    ASSUME NEW o \in Orders, \A p \in Orders : p # o => SameTables(p)
    PROVE  /\ stages' = [stages EXCEPT ![o] = StageOf(o)']
           /\ users' = [users EXCEPT ![o] = UserOf(o)']
           /\ askings' = [askings EXCEPT ![o] = AlreadyOffered(o)']
           /\ payments' = [payments EXCEPT ![o] = PaidFor(o)']
<1>1. \A p \in Orders : p # o => Entry(p)' = Entry(p)
    BY SameEntry
<1>2. \A p \in Orders : p # o =>
          /\ StageOf(p)' = StageOf(p) /\ UserOf(p)' = UserOf(p)
          /\ AlreadyOffered(p)' = AlreadyOffered(p) /\ PaidFor(p)' = PaidFor(p)
    BY <1>1 DEF Entry
<1> QED
    BY <1>2 DEF stages, users, askings, payments

LEMMA NoEntryMoves ==
    ASSUME \A o \in Orders : SameTables(o)
    PROVE  UNCHANGED Board!boardVars
<1>1. \A o \in Orders : Entry(o)' = Entry(o)
    BY SameEntry
<1>2. \A o \in Orders :
          /\ StageOf(o)' = StageOf(o) /\ UserOf(o)' = UserOf(o)
          /\ AlreadyOffered(o)' = AlreadyOffered(o) /\ PaidFor(o)' = PaidFor(o)
    BY <1>1 DEF Entry
<1> QED
    BY <1>2 DEF Board!boardVars
----------------------------------------------------------------------------
(* The moves.                                                               *)

LEMMA CreatePosts ==
    ASSUME TypeOK, CalmInv, NEW o \in Orders, Create(o)
    PROVE  Board!BoardNext
<1>1. /\ status[o] = "absent" /\ status' = [status EXCEPT ![o] = "pending"]
      /\ UNCHANGED <<takenBy, offer, ledger>>
    BY DEF Create
<1>2. status'[o] = "pending" /\ \A p \in Orders : p # o => SameTables(p)
    BY <1>1 DEF SameTables, TypeOK, TablesTypeOK
<1>3. \A u \in Users : offer[<<o, u>>] \notin Open
    BY <1>1 DEF CalmInv, OpenIsActive, Rows, Active
<1>4. AskedOf(o) = {} /\ AskedOf(o)' = {}
    BY <1>1, <1>3 DEF AskedOf
<1>5. StageOf(o) = "absent" /\ UserOf(o) = NoUser /\ StageOf(o)' = "waiting" /\ UserOf(o)' = NoUser
    BY <1>1, <1>2, <1>4 DEF StageOf, UserOf, Active
<1>6. AlreadyOffered(o)' = AlreadyOffered(o) /\ PaidFor(o)' = PaidFor(o)
    BY <1>1 DEF AlreadyOffered, PaidFor
<1>7. /\ stages' = [stages EXCEPT ![o] = "waiting"]
      /\ UNCHANGED <<users, askings, payments>>
    BY <1>2, <1>5, <1>6, OneEntryMoves DEF users, askings, payments
<1>8. Board!Post(o) /\ stages[o] = "absent" /\ stages'[o] = "waiting"
    BY <1>5, <1>7 DEF Board!Post, Board!Move, stages, users, askings, payments
<1> QED
    BY <1>8 DEF Board!BoardNext, stages

LEMMA RecordAsks ==
    ASSUME TypeOK, AskingInv, CalmInv, NEW t \in Tasks, RecordOffer(t)
    PROVE  Board!BoardNext
<1> DEFINE o == t[2]
           u == task[t].user
<1>1. /\ UNCHANGED <<status, takenBy, ledger>> /\ task[t].pc = "record"
      /\ offer' = [offer EXCEPT ![<<o, u>>] = IF @ = "none" THEN "offered" ELSE @]
    BY DEF RecordOffer, Row
<1>2. o \in Orders /\ u \in Users /\ <<o, u>> \in Rows
    BY <1>1, OfferingTask DEF OfferPCs, Row, TypeOK, FanoutTypeOK, Tasks, Rows
<1>3. status[o] \in Active /\ Closed(o) /\ Unoffered(o, u)
    BY <1>1 DEF CalmInv, CalmTasks, CalmTask, Engaged, Offering, AskingInv, Informed, InformedTask
<1> HIDE DEF o, u
<1>4. offer' = [offer EXCEPT ![<<o, u>>] = "offered"]
    BY <1>1, <1>3 DEF Unoffered
<1>5. \A p \in Orders : p # o => SameTables(p)
    BY <1>1, <1>4 DEF SameTables
<1>6. \A v \in Users : offer'[<<o, v>>] = IF v = u THEN "offered" ELSE offer[<<o, v>>]
    BY <1>2, <1>4 DEF TypeOK, TablesTypeOK, Rows
<1>7. AskedOf(o) = {} /\ AskedOf(o)' = {u}
    BY <1>1, <1>2, <1>3, <1>6 DEF AskedOf, Closed, Open
<1>8. StageOf(o) = "waiting" /\ StageOf(o)' = "asking" /\ UserOf(o)' = u
    BY <1>1, <1>2, <1>3, <1>7 DEF StageOf, UserOf, Active
<1>9. /\ u \notin AlreadyOffered(o) /\ AlreadyOffered(o)' = AlreadyOffered(o) \cup {u}
      /\ PaidFor(o)' = PaidFor(o)
    BY <1>1, <1>2, <1>3, <1>6 DEF AlreadyOffered, PaidFor, Unoffered
<1>10. /\ stages' = [stages EXCEPT ![o] = "asking"]
       /\ users' = [users EXCEPT ![o] = u]
       /\ askings' = [askings EXCEPT ![o] = AlreadyOffered(o) \cup {u}]
       /\ UNCHANGED payments
    BY <1>2, <1>5, <1>8, <1>9, OneEntryMoves DEF payments
<1>11. stages[o] = "waiting" /\ stages'[o] = "asking" /\ askings[o] = AlreadyOffered(o)
    BY <1>2, <1>8, <1>10 DEF stages, askings
<1>12. askings' = [askings EXCEPT ![o] = @ \cup {u}]
    BY <1>10, <1>11
<1>13. Board!Ask(o, u)
    BY <1>9, <1>10, <1>11, <1>12 DEF Board!Ask, Board!Move, stages, users, askings, payments
<1> QED
    BY <1>2, <1>11, <1>13 DEF Board!BoardNext, stages

LEMMA NoTakersGivesUp ==
    ASSUME TypeOK, CalmInv, NEW t \in Tasks, MarkNoTakers(t)
    PROVE  Board!BoardNext
<1> DEFINE o == t[2]
<1>1. /\ status' = [status EXCEPT ![o] = "no_takers"] /\ UNCHANGED <<takenBy, offer, ledger>>
      /\ task[t].pc = "noTakers"
    BY DEF MarkNoTakers, Overwrite
<1>2. o \in Orders /\ status[o] \in Active /\ Closed(o)
    BY <1>1 DEF CalmInv, CalmTasks, CalmTask, Engaged, Tasks
<1> HIDE DEF o
<1>3. status'[o] = "no_takers" /\ \A p \in Orders : p # o => SameTables(p)
    BY <1>1, <1>2 DEF SameTables, TypeOK, TablesTypeOK
<1>4. AskedOf(o) = {} /\ AskedOf(o)' = {}
    BY <1>1, <1>2 DEF AskedOf, Closed
<1>5. StageOf(o) = "waiting" /\ UserOf(o) = NoUser /\ StageOf(o)' = "closed" /\ UserOf(o)' = NoUser
    BY <1>2, <1>3, <1>4 DEF StageOf, UserOf, Active
<1>6. AlreadyOffered(o)' = AlreadyOffered(o) /\ PaidFor(o)' = PaidFor(o)
    BY <1>1 DEF AlreadyOffered, PaidFor
<1>7. /\ stages' = [stages EXCEPT ![o] = "closed"]
      /\ UNCHANGED <<users, askings, payments>>
    BY <1>2, <1>3, <1>5, <1>6, OneEntryMoves DEF users, askings, payments
<1>8. Board!GiveUp(o) /\ stages[o] = "waiting" /\ stages'[o] = "closed"
    BY <1>2, <1>5, <1>7 DEF Board!GiveUp, Board!Move, stages, users, askings, payments
<1> QED
    BY <1>2, <1>8 DEF Board!BoardNext, stages

\* Offers that are expired: of the orders on offer some are asked of nobody any more.
LEMMA ExpiryLapses ==
    ASSUME TypeOK, AtMostOneOpen, UNCHANGED <<status, takenBy, ledger>>,
           \A r \in Rows : offer'[r] = offer[r] \/ (offer[r] \in Open /\ offer'[r] = "expired")
    PROVE  Board!BoardNext \/ UNCHANGED Board!boardVars
<1> DEFINE O == {o \in Orders : AskedOf(o) # {} /\ AskedOf(o)' = {}}
<1>1. \A o \in Orders, u \in Users : <<o, u>> \in Rows
    BY DEF Rows
<1>2. \A o \in Orders : AskedOf(o)' \subseteq AskedOf(o)
    BY <1>1 DEF AskedOf, Open
<1>3. ASSUME NEW o \in Orders
      PROVE  AskedOf(o)' = AskedOf(o) \/ AskedOf(o)' = {}
    BY <1>2 DEF AtMostOneOpen, AskedOf
<1>4. \A o \in Orders : o \notin O => StageOf(o)' = StageOf(o) /\ UserOf(o)' = UserOf(o)
    BY <1>3 DEF StageOf, UserOf
<1>5. \A o \in O : /\ StageOf(o) = "asking" /\ StageOf(o)' = "waiting" /\ UserOf(o)' = NoUser
  <2> SUFFICES ASSUME NEW o \in O
               PROVE  StageOf(o) = "asking" /\ StageOf(o)' = "waiting" /\ UserOf(o)' = NoUser
      OBVIOUS
  <2>1. status[o] \in Active /\ AskedOf(o) # {} /\ AskedOf(o)' = {}
      BY DEF AskedOf
  <2> QED
      BY <2>1 DEF StageOf, UserOf, Active
<1>6. \A o \in Orders : AlreadyOffered(o)' = AlreadyOffered(o) /\ PaidFor(o)' = PaidFor(o)
    BY <1>1 DEF AlreadyOffered, PaidFor, Open
<1>7. UNCHANGED <<askings, payments>>
    BY <1>6 DEF askings, payments
<1> HIDE DEF O
<1>8. CASE O = {}
    BY <1>4, <1>6, <1>8 DEF Board!boardVars
<1>9. CASE O # {}
  <2>1. O \subseteq Orders
      BY DEF O
  <2>2. /\ \A o \in O : stages[o] = "asking" /\ stages'[o] = "waiting"
        /\ stages' = [o \in Orders |-> IF o \in O THEN "waiting" ELSE stages[o]]
        /\ users' = [o \in Orders |-> IF o \in O THEN NoUser ELSE users[o]]
      BY <1>4, <1>5, <2>1 DEF stages, users
  <2>3. Board!Lapse(O)
      BY <1>7, <1>9, <2>2 DEF Board!Lapse, stages, users, askings, payments
  <2>4. PICK o \in O : TRUE
      BY <1>9
  <2> QED
      BY <2>1, <2>2, <2>3, <2>4 DEF Board!BoardNext, stages
<1> QED
    BY <1>8, <1>9

\* The board counts as the marketplace does.
LEMMA BoardCounts ==
    ASSUME NEW S
    PROVE  Board!Cardinality(S) = Cardinality(S)
    BY DEF Board!Cardinality, Cardinality

\* The taker is the one who is asked, and has room.
LEMMA CommitTakes ==
    ASSUME SafeInv, AtMostOneOpen, NEW o \in Orders, NEW u \in Users, CommitTake(o, u)
    PROVE  Board!BoardNext
<1>1. /\ status' = [status EXCEPT ![o] = "taken"]
      /\ takenBy' = [takenBy EXCEPT ![o] = u]
      /\ UNCHANGED ledger
      /\ <<o, u>> \in taking /\ offer[<<o, u>>] \in Open /\ status[o] \in Active
      /\ offer' = [r \in Rows |->
                IF r = <<o, u>> THEN "taken"
                ELSE IF r[1] = o /\ offer[r] \in Open THEN "expired" ELSE offer[r]]
    BY DEF CommitTake, Takeable
<1>2. TypeOK /\ Cardinality(InWork(u)) < MaxPending
    BY <1>1 DEF SafeInv, RoomToTake
<1>3. \A p \in Orders, v \in Users : <<p, v>> \in Rows
    BY DEF Rows
<1>4. \A p \in Orders : p # o => SameTables(p)
    BY <1>1, <1>2, <1>3 DEF SameTables, TypeOK, TablesTypeOK
<1>5. AskedOf(o) = {u}
    BY <1>1 DEF AskedOf, AtMostOneOpen
<1>6. StageOf(o) = "asking" /\ UserOf(o) = u
    BY <1>1, <1>5 DEF StageOf, UserOf, Active
<1>7. status'[o] = "taken" /\ takenBy'[o] = u
    BY <1>1, <1>2 DEF TypeOK, TablesTypeOK
<1>8. StageOf(o)' = "working" /\ UserOf(o)' = u
  <2>1. AskedOf(o)' = {}
      BY <1>7 DEF AskedOf, Active
  <2> QED
      BY <1>7, <2>1 DEF StageOf, UserOf, Active
<1>9. AlreadyOffered(o)' = AlreadyOffered(o) /\ PaidFor(o)' = PaidFor(o)
    BY <1>1, <1>3 DEF AlreadyOffered, PaidFor, Open
<1>10. /\ stages' = [stages EXCEPT ![o] = "working"]
       /\ UNCHANGED <<users, askings, payments>>
    BY <1>4, <1>6, <1>8, <1>9, OneEntryMoves DEF users, askings, payments
<1>11. stages[o] = "asking" /\ stages'[o] = "working" /\ users[o] = u
    BY <1>6, <1>10 DEF stages, users
<1>12. {p \in Orders : stages[p] = "working" /\ users[p] = u} = InWork(u)
  <2>1. \A p \in Orders : StageOf(p) = "working" <=> status[p] = "taken"
      BY DEF StageOf, Active
  <2>2. \A p \in Orders : status[p] = "taken" => UserOf(p) = takenBy[p]
      BY WorkingEntry
  <2> QED
      BY <2>1, <2>2 DEF stages, users, InWork
<1>13. Board!Cardinality(Board!Working(users[o])) < MaxPending
    BY <1>2, <1>11, <1>12, BoardCounts DEF Board!Working, stages, users
<1>14. Board!Move(o, "asking", "working")
    BY <1>10, <1>11 DEF Board!Move, stages
<1>15. Board!Take(o)
    BY <1>10, <1>13, <1>14 DEF Board!Take, users, askings, payments
<1> QED
    BY <1>11, <1>15 DEF Board!BoardNext, stages

LEMMA ResolveDropsOrPays ==
    ASSUME TypeOK, CalmInv, NEW o \in Orders, NEW u \in Users,
           NEW s \in {"completed", "cancelled", "timed_out"}, Resolve(o, u, s),
           UNCHANGED <<takenBy, offer>>,
           \/ UNCHANGED ledger
           \/ ledger' = [ledger EXCEPT ![<<o, u>>] = @ + 1]
    PROVE  Board!BoardNext
<1>1. status[o] = "taken" /\ takenBy[o] = u /\ status' = [status EXCEPT ![o] = s]
    BY DEF Resolve, InWork
<1>2. status'[o] = s /\ <<o, u>> \in Rows
    BY <1>1 DEF TypeOK, TablesTypeOK, Rows
<1>3. \A p \in Orders : p # o => SameTables(p)
    BY <1>1, <1>2 DEF SameTables, TypeOK, TablesTypeOK, Rows
<1>4. AskedOf(o)' = {}
    BY <1>2 DEF AskedOf, Active
<1>5. StageOf(o) = "working" /\ UserOf(o) = u /\ StageOf(o)' = "closed" /\ UserOf(o)' = NoUser
    BY <1>1, <1>2, <1>4, WorkingEntry DEF StageOf, UserOf, Active
<1>6. AlreadyOffered(o)' = AlreadyOffered(o)
    BY DEF AlreadyOffered
<1>7. /\ stages' = [stages EXCEPT ![o] = "closed"]
      /\ users' = [users EXCEPT ![o] = NoUser]
      /\ UNCHANGED askings
    BY <1>3, <1>5, <1>6, OneEntryMoves DEF askings
<1>8. stages[o] = "working" /\ users[o] = u /\ stages'[o] = "closed"
    BY <1>5, <1>7 DEF stages, users
<1>9. CASE UNCHANGED ledger
  <2>1. UNCHANGED payments
      BY <1>9 DEF payments, PaidFor
  <2>2. Board!Drop(o)
      BY <1>7, <1>8, <2>1 DEF Board!Drop, Board!Move, stages, users, askings, payments
  <2> QED
      BY <1>8, <2>2 DEF Board!BoardNext, stages
<1>10. CASE ledger' = [ledger EXCEPT ![<<o, u>>] = @ + 1]
  <2>1. \A v \in Users : ledger[<<o, v>>] = 0
      BY <1>1 DEF CalmInv, PaidIsCompleted, Rows
  <2>2. \A v \in Users : <<o, v>> \in Rows /\ ledger'[<<o, v>>] = IF v = u THEN 1 ELSE 0
      BY <1>2, <1>10, <2>1 DEF TypeOK, TablesTypeOK, Rows
  <2>3. PaidFor(o) = {} /\ PaidFor(o)' = {u}
      BY <2>1, <2>2 DEF PaidFor
  <2>4. payments' = [payments EXCEPT ![o] = {users[o]}] /\ payments[o] = {}
      BY <1>3, <1>8, <2>3, OneEntryMoves DEF payments
  <2>5. Board!Pay(o)
      BY <1>7, <1>8, <2>4 DEF Board!Pay, Board!Move, stages, users, askings, payments
  <2> QED
      BY <1>8, <2>5 DEF Board!BoardNext, stages
<1> QED
    BY <1>9, <1>10
----------------------------------------------------------------------------
(* Every step of the marketplace.                                           *)

LEMMA UnseenSteps ==
    ASSUME UNCHANGED <<status, takenBy, offer, ledger>>
    PROVE  UNCHANGED Board!boardVars
<1>1. \A o \in Orders : SameTables(o)
    BY DEF SameTables
<1> QED
    BY <1>1, NoEntryMoves

LEMMA DispatcherImplements ==
    ASSUME Calm, TypeOK, AskingInv, AtMostOneOpen, CalmInv, Dispatcher
    PROVE  Board!BoardNext \/ UNCHANGED Board!boardVars
<1> USE DEF pgVars, redisVars, tableVars
<1>1. CASE SweepStep
  <2>1. CASE ExpireLeftovers
    <3>1. \A r \in Rows : offer'[r] = offer[r] \/ (offer[r] \in Open /\ offer'[r] = "expired")
        BY <2>1 DEF ExpireLeftovers, ExpireOffers
    <3> QED
        BY <2>1, <3>1, ExpiryLapses DEF ExpireLeftovers
  <2>2. CASE SweepOnWake \/ SweepOnBackstop \/ ReleaseLeftovers \/ StartTasks \/ EndSweep
      BY <2>2, UnseenSteps DEF SweepOnWake, SweepOnBackstop, ReleaseLeftovers, StartTasks, EndSweep
  <2> QED
      BY <1>1, <2>1, <2>2 DEF SweepStep
<1>2. ASSUME NEW t \in Tasks, TaskStep(t)
      PROVE  Board!BoardNext \/ UNCHANGED Board!boardVars
  <2>1. CASE MarkOffering(t)
    <3>1. /\ UNCHANGED <<takenBy, offer, ledger>> /\ task[t].pc = "mark"
          /\ status' = [status EXCEPT ![t[2]] = "offering"]
        BY <2>1 DEF MarkOffering, Overwrite
    <3>2. t[2] \in Orders /\ status[t[2]] \in Active
        BY <3>1 DEF CalmInv, CalmTasks, CalmTask, Engaged, Tasks
    <3>3. \A o \in Orders : SameTables(o)
        BY <3>1, <3>2 DEF SameTables, Active, TypeOK, TablesTypeOK
    <3> QED
        BY <3>3, NoEntryMoves
  <2>2. CASE ExpireOne(t)
    <3>1. \A r \in Rows : offer'[r] = offer[r] \/ (offer[r] \in Open /\ offer'[r] = "expired")
        BY <2>2 DEF ExpireOne, ExpireOffers
    <3> QED
        BY <2>2, <3>1, ExpiryLapses DEF ExpireOne
  <2>3. CASE \/ Select(t) \/ Reserve(t) \/ SendOffer(t) \/ SendFails(t)
             \/ ReleaseOne(t) \/ ScheduleDeadline(t)
      BY <2>3, UnseenSteps DEF Select, Reserve, SendOffer, SendFails, ReleaseOne, ScheduleDeadline
  <2> QED
      BY <1>2, <2>1, <2>2, <2>3, RecordAsks, NoTakersGivesUp DEF TaskStep
<1>3. CASE FanoutFault
    BY <1>3, UnseenSteps DEF FanoutFault, SweepRaises, DispatcherCrash, TaskRaises
<1> QED
    BY <1>1, <1>2, <1>3 DEF Dispatcher, FanoutNext

LEMMA BotImplements ==
    ASSUME SafeInv, AtMostOneOpen, CalmInv, Bot
    PROVE  Board!BoardNext \/ UNCHANGED Board!boardVars
<1> USE DEF pgVars, redisVars, tableVars
<1>0. TypeOK
    BY DEF SafeInv
<1>1. ASSUME NEW o \in Orders, NEW u \in Users, BeginTake(o, u) \/ AbortTake(o, u)
      PROVE  UNCHANGED Board!boardVars
    BY <1>1, UnseenSteps DEF BeginTake, AbortTake
<1>2. ASSUME NEW o \in Orders, NEW u \in Users, Complete(o, u) \/ Cancel(o, u)
      PROVE  Board!BoardNext
    BY <1>0, <1>2, ResolveDropsOrPays DEF Complete, Cancel
<1>3. ASSUME NEW c \in chores, ChoreStep(c) \/ ChoreRaises(c)
      PROVE  Board!BoardNext \/ UNCHANGED Board!boardVars
  <2>1. CASE TimeOut(c)
    <3>1. c.order \in Orders /\ c.user \in Users
        BY <1>0 DEF TypeOK, LifecycleTypeOK, ChoreTypes
    <3> QED
        BY <1>0, <2>1, <3>1, ResolveDropsOrPays, UnseenSteps DEF TimeOut
  <2>2. CASE Settle(c) \/ Arm(c) \/ Vacate(c) \/ Clear(c) \/ ChoreRaises(c)
      BY <2>2, UnseenSteps DEF Settle, Arm, Vacate, Clear, ChoreRaises
  <2> QED
      BY <1>3, <2>1, <2>2 DEF ChoreStep
<1>4. CASE BotCrash \/ \E o \in Orders : TimerFires(o)
    BY <1>4, UnseenSteps DEF BotCrash, TimerFires
<1> QED
    BY <1>1, <1>2, <1>3, <1>4, CommitTakes DEF Bot, LifecycleNext, UserStep, EndTake

LEMMA OthersImplement ==
    ASSUME Calm, TypeOK, AtMostOneOpen, CalmInv, Expirer \/ Api \/ Time
    PROVE  Board!BoardNext \/ UNCHANGED Board!boardVars
<1> USE DEF pgVars, redisVars, tableVars
<1>1. CASE Expirer
  <2>1. CASE ExpireMany
    <3>1. \A r \in Rows : offer'[r] = offer[r] \/ (offer[r] \in Open /\ offer'[r] = "expired")
        BY <2>1 DEF ExpireMany, ExpireOffers
    <3> QED
        BY <2>1, <3>1, ExpiryLapses DEF ExpireMany
  <2>2. CASE ReleaseLapsed \/ ClaimLost \/ LapseLost \/ \E r \in Rows : ClaimDue(r)
      BY <2>2, UnseenSteps DEF ReleaseLapsed, ClaimLost, LapseLost, ClaimDue
  <2> QED
      BY <1>1, <2>1, <2>2 DEF Expirer, ExpiryNext, ExpiryStep
<1>2. CASE Api
  <2>1. ASSUME NEW o \in Orders, ReleaseCleaned(o)
        PROVE  UNCHANGED Board!boardVars
      BY <2>1, UnseenSteps DEF ReleaseCleaned
  <2>2. CASE ApiCrash
      BY <2>2, UnseenSteps DEF ApiCrash
  <2> QED
      BY <1>2, <2>1, <2>2, CreatePosts DEF Api, IntakeNext, Clean, Calm
<1>3. CASE Time
  <2>1. PICK r \in Rows : GrowStale(r)
      BY <1>3 DEF Time
  <2>2. \A o \in Orders : SameTables(o)
      BY <2>1 DEF GrowStale, SameTables, Open, TypeOK, TablesTypeOK, Rows
  <2> QED
      BY <2>2, NoEntryMoves
<1> QED
    BY <1>1, <1>2, <1>3

LEMMA InitImplements == Init => Board!BoardInit
<1> SUFFICES ASSUME Init PROVE Board!BoardInit
    OBVIOUS
<1>1. \A o \in Orders : AskedOf(o) = {} /\ status[o] = "absent"
    BY DEF Init, TablesInit, AskedOf, Active
<1>2. \A o \in Orders : StageOf(o) = "absent" /\ UserOf(o) = NoUser
    BY <1>1 DEF StageOf, UserOf, Active
<1>3. \A o \in Orders : AlreadyOffered(o) = {} /\ PaidFor(o) = {}
    BY DEF Init, TablesInit, AlreadyOffered, PaidFor, Rows
<1> QED
    BY <1>2, <1>3 DEF Board!BoardInit

LEMMA NextImplements ==
    ASSUME Calm, SafeInv, AskingInv, AtMostOneOpen, CalmInv, [Next]_vars
    PROVE  [Board!BoardNext]_(Board!boardVars)
<1>1. CASE UNCHANGED vars
    BY <1>1, UnseenSteps DEF vars, tableVars, pgVars
<1> QED
    BY <1>1, DispatcherImplements, BotImplements, OthersImplement DEF Next, SafeInv

\* In calm surroundings the four processes implement the board: whatever they do to an
\* order puts it up, asks one more user with room, lets the offer lapse, hands it to the
\* user who was asked, closes it or pays for it, and most of what they do is not seen.
THEOREM MarketImplementsBoard ==
    ASSUME Calm
    PROVE  Spec => ImplementsBoard
<1>1. SafeInv /\ AskingInv /\ OffersInv /\ CalmInv /\ [Next]_vars
        => [Board!BoardNext]_(Board!boardVars)
    BY NextImplements DEF OffersInv
<1>2. Spec => []SafeInv
    BY SafetyOfTakes
<1>3. Spec => [](TypeOK /\ AskingInv /\ OffersInv /\ CalmInv)
    BY AlwaysCalm
<1> QED
    BY <1>1, <1>2, <1>3, InitImplements, PTL DEF Spec, ImplementsBoard, Board!BoardSpec
----------------------------------------------------------------------------
(* The status of an order only moves forward.                               *)

Forward(o) ==
    \/ status'[o] = status[o] /\ takenBy'[o] = takenBy[o]
    \/ status[o] \in Active \cup {"absent"}
    \/ status[o] = "taken" /\ status'[o] \in {"completed", "cancelled", "timed_out"}

LEMMA DispatcherForward ==
    ASSUME TypeOK, CalmInv, Dispatcher, NEW o \in Orders
    PROVE  Forward(o)
<1> USE DEF pgVars, redisVars, tableVars, Forward
<1>1. ASSUME NEW t \in Tasks, MarkNoTakers(t) \/ MarkOffering(t)
      PROVE  Forward(o)
  <2>1. t[2] \in Orders /\ status[t[2]] \in Active
      BY <1>1 DEF MarkNoTakers, MarkOffering, CalmInv, CalmTasks, CalmTask, Engaged, Tasks
  <2> QED
      BY <1>1, <2>1 DEF MarkNoTakers, MarkOffering, Overwrite, TypeOK, TablesTypeOK
<1>2. ASSUME NEW t \in Tasks,
             \/ Select(t) \/ Reserve(t) \/ RecordOffer(t) \/ SendOffer(t) \/ SendFails(t)
             \/ ExpireOne(t) \/ ReleaseOne(t) \/ ScheduleDeadline(t)
      PROVE  Forward(o)
    BY <1>2 DEF Select, Reserve, RecordOffer, SendOffer, SendFails, ExpireOne, ReleaseOne,
        ScheduleDeadline
<1>3. CASE SweepStep
    BY <1>3 DEF SweepStep, SweepOnWake, SweepOnBackstop, ExpireLeftovers, ReleaseLeftovers,
        StartTasks, EndSweep
<1>4. CASE FanoutFault
    BY <1>4 DEF FanoutFault, SweepRaises, DispatcherCrash, TaskRaises
<1> QED
    BY <1>1, <1>2, <1>3, <1>4 DEF Dispatcher, FanoutNext, TaskStep

LEMMA BotForward ==
    ASSUME TypeOK, Bot, NEW o \in Orders
    PROVE  Forward(o)
<1> USE DEF pgVars, redisVars, tableVars, Forward
<1>1. ASSUME NEW p \in Orders, NEW u \in Users, UserStep(p, u) \/ EndTake(p, u)
      PROVE  Forward(o)
  <2>1. CASE BeginTake(p, u) \/ AbortTake(p, u)
      BY <2>1 DEF BeginTake, AbortTake
  <2>2. CASE CommitTake(p, u)
      BY <2>2 DEF CommitTake, Takeable, TypeOK, TablesTypeOK
  <2>3. CASE Complete(p, u) \/ Cancel(p, u)
      BY <2>3 DEF Complete, Cancel, Resolve, InWork, TypeOK, TablesTypeOK
  <2> QED
      BY <1>1, <2>1, <2>2, <2>3 DEF UserStep, EndTake
<1>2. ASSUME NEW c \in chores, ChoreStep(c) \/ ChoreRaises(c)
      PROVE  Forward(o)
  <2>1. CASE TimeOut(c)
      BY <2>1 DEF TimeOut, Resolve, InWork, TypeOK, TablesTypeOK
  <2>2. CASE Settle(c) \/ Arm(c) \/ Vacate(c) \/ Clear(c) \/ ChoreRaises(c)
      BY <2>2 DEF Settle, Arm, Vacate, Clear, ChoreRaises
  <2> QED
      BY <1>2, <2>1, <2>2 DEF ChoreStep
<1>3. CASE BotCrash \/ \E p \in Orders : TimerFires(p)
    BY <1>3 DEF BotCrash, TimerFires
<1> QED
    BY <1>1, <1>2, <1>3 DEF Bot, LifecycleNext

LEMMA OthersForward ==
    ASSUME Calm, TypeOK, Expirer \/ Api \/ Time, NEW o \in Orders
    PROVE  Forward(o)
<1> USE DEF pgVars, redisVars, tableVars, Forward
<1>1. CASE Expirer
    BY <1>1 DEF Expirer, ExpiryNext, ExpiryStep, ExpireMany, ReleaseLapsed, ClaimLost, LapseLost,
        ClaimDue
<1>2. CASE Api
    BY <1>2 DEF Api, IntakeNext, Create, Clean, ReleaseCleaned, ApiCrash, Calm, TypeOK,
        TablesTypeOK
<1>3. CASE Time
    BY <1>3 DEF Time, GrowStale
<1> QED
    BY <1>1, <1>2, <1>3

LEMMA AlwaysForward ==
    ASSUME Calm, TypeOK, CalmInv, [Next]_vars, NEW o \in Orders
    PROVE  Forward(o)
<1>1. CASE UNCHANGED vars
    BY <1>1 DEF vars, tableVars, pgVars, Forward
<1> QED
    BY <1>1, DispatcherForward, BotForward, OthersForward DEF Next

\* In calm surroundings an order in work is its taker's until it is completed, cancelled
\* or timed out: mark_offering and mark_no_takers never hit it.
THEOREM TakersKeepOrders ==
    ASSUME Calm
    PROVE  Spec => TakenUntilResolved
<1>1. TypeOK /\ CalmInv /\ [Next]_vars =>
        [\A o \in Orders : status[o] = "taken" =>
            \/ status'[o] \in {"completed", "cancelled", "timed_out"}
            \/ status'[o] = "taken" /\ takenBy'[o] = takenBy[o]]_vars
    BY AlwaysForward DEF Forward, Active
<1>2. Spec => [](TypeOK /\ AskingInv /\ OffersInv /\ CalmInv)
    BY AlwaysCalm
<1> QED
    BY <1>1, <1>2, PTL DEF Spec, TakenUntilResolved

\* In calm surroundings an order that is over stays over.
THEOREM ClosedForGood ==
    ASSUME Calm
    PROVE  Spec => ClosedStaysClosed
<1>1. TypeOK /\ CalmInv /\ [Next]_vars =>
        [\A o \in Orders : status[o] \in Statuses \ (Active \cup {"absent", "taken"}) =>
            status'[o] = status[o]]_vars
    BY AlwaysForward DEF Forward
<1>2. Spec => [](TypeOK /\ AskingInv /\ OffersInv /\ CalmInv)
    BY AlwaysCalm
<1> QED
    BY <1>1, <1>2, PTL DEF Spec, ClosedStaysClosed

\* In calm surroundings the ledger has one row per completed order.
THEOREM OneCredit ==
    ASSUME Calm
    PROVE  Spec => []OneCreditPerOrder
<1>1. TypeOK /\ CalmInv => OneCreditPerOrder
    BY DEF CalmInv, PaidIsCompleted, OneCreditPerOrder, Rows, TypeOK, TablesTypeOK
<1>2. Spec => [](TypeOK /\ AskingInv /\ OffersInv /\ CalmInv)
    BY AlwaysCalm
<1> QED
    BY <1>1, <1>2, PTL
=============================================================================

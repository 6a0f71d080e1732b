--------------------------- MODULE OrderLifecycle ---------------------------
(***************************************************************************)
(* The bot process as far as orders go: the handlers of the Take, Ready    *)
(* and Cancel buttons, which aiogram runs concurrently, and the expiry job *)
(* of a taken order. Each handler commits one Postgres transaction and     *)
(* then works through what it owes Redis and the scheduler; that remainder *)
(* lives in the process only, as a chore.                                  *)
(***************************************************************************)
EXTENDS OrderTables

VARIABLES
    taking,  \* take transactions open past the in-work check, by order and user
    chores,  \* what handlers still have to do after their commit
    timer    \* the job order_timeout:<order> in the scheduler's store, and for whom

lifecycleVars == <<taking, chores, timer>>

ChoreSteps == {"settle", "arm", "timeOut", "vacate", "release", "clear"}

\* owed: the users whose offers of the order the take expired.
ChoreTypes == [step : ChoreSteps, order : Orders, user : Users, owed : SUBSET Users]
Chore(step, o, u, owed) == [step |-> step, order |-> o, user |-> u, owed |-> owed]

LifecycleTypeOK ==
    /\ taking \subseteq Rows
    /\ chores \subseteq ChoreTypes
    /\ timer \in [Orders -> Users \cup {NoUser}]

LifecycleInit ==
    /\ taking = {}
    /\ chores = {}
    /\ timer = [o \in Orders |-> NoUser]

Drop(c) == chores' = chores \ {c}
Follow(c, step) == chores' = (chores \ {c}) \cup {Chore(step, c.order, c.user, {})}
----------------------------------------------------------------------------
(* take: one transaction in two steps, because the count it decides on is   *)
(* read well before the rows it writes. The profile row stays locked in     *)
(* between. A press that is turned away (offline, limit) or comes after the  *)
(* offer was answered changes nothing and is no step.                       *)

\* Mutant: the in-work count is read without a lock on the profile.
BeginTakeUnlocked(o, u) ==
    /\ <<o, u>> \in delivered /\ offer[<<o, u>>] \in Open
    /\ Cardinality(InWork(u)) < MaxPending
    /\ taking' = taking \cup {<<o, u>>}
    /\ UNCHANGED <<tableVars, chores, timer>>

BeginTake(o, u) ==
    /\ <<o, u>> \in delivered /\ offer[<<o, u>>] \in Open
    /\ \A x \in Orders : <<x, u>> \notin taking      \* lock_is_online ... FOR UPDATE
    /\ Cardinality(InWork(u)) < MaxPending
    /\ taking' = taking \cup {<<o, u>>}
    /\ UNCHANGED <<tableVars, chores, timer>>

\* mark_taken finds the offer open and claim_for_take the order active.
Takeable(o, u) == offer[<<o, u>>] \in Open /\ status[o] \in Active

CommitTake(o, u) ==
    LET rivals == {v \in Users \ {u} : offer[<<o, v>>] \in Open}
    IN  /\ <<o, u>> \in taking
        /\ Takeable(o, u)
        /\ taking' = taking \ {<<o, u>>}
        /\ offer' = [r \in Rows |->
                IF r = <<o, u>> THEN "taken"
                ELSE IF r[1] = o /\ offer[r] \in Open THEN "expired" ELSE offer[r]]
        /\ status' = [status EXCEPT ![o] = "taken"]
        /\ takenBy' = [takenBy EXCEPT ![o] = u]
        /\ chores' = chores \cup {Chore(IF rivals = {} THEN "arm" ELSE "settle", o, u, rivals)}
        /\ UNCHANGED <<ledger, redisVars, delivered, timer>>

\* Either statement finds no row: mark_taken is rolled back with the rest.
AbortTake(o, u) ==
    /\ <<o, u>> \in taking
    /\ ~Takeable(o, u)
    /\ taking' = taking \ {<<o, u>>}
    /\ UNCHANGED <<tableVars, chores, timer>>

Settle(c) ==
    /\ c.step = "settle"
    /\ Release({c.order} \X c.owed)
    /\ Follow(c, "arm")
    /\ UNCHANGED <<pgVars, deadlines, wake, delivered, taking, timer>>

\* Mutant: the expiry job is not scheduled.
ArmNothing(c) ==
    /\ c.step = "arm"
    /\ Drop(c)
    /\ UNCHANGED <<tableVars, taking, timer>>

\* OrderTimeoutService.start, replace_existing=True
Arm(c) ==
    /\ c.step = "arm"
    /\ timer' = [timer EXCEPT ![c.order] = c.user]
    /\ Drop(c)
    /\ UNCHANGED <<tableVars, taking>>
----------------------------------------------------------------------------
(* complete, cancel, expire_taken                                           *)

\* Mutant: the UPDATE does not ask for status = 'taken'.
ResolveAnyStatus(o, u, s) ==
    /\ takenBy[o] = u
    /\ status' = [status EXCEPT ![o] = s]

\* _resolve: WHERE id = o AND taken_by = u AND status = 'taken'
Resolve(o, u, s) ==
    /\ o \in InWork(u)
    /\ status' = [status EXCEPT ![o] = s]

\* The credit is written in the transaction that closes the order. The unique index
\* on (profile_id, order_id) would make a second one fail, and the whole with it.
Complete(o, u) ==
    /\ Resolve(o, u, "completed")
    /\ ledger[<<o, u>>] = 0
    /\ ledger' = [ledger EXCEPT ![<<o, u>>] = @ + 1]
    /\ chores' = chores \cup {Chore("release", o, u, {})}
    /\ UNCHANGED <<takenBy, offer, redisVars, delivered, taking, timer>>

Cancel(o, u) ==
    /\ Resolve(o, u, "cancelled")
    /\ chores' = chores \cup {Chore("release", o, u, {})}
    /\ UNCHANGED <<takenBy, offer, ledger, redisVars, delivered, taking, timer>>

\* The scheduler takes the job out of its store when it submits it.
TimerFires(o) ==
    /\ timer[o] # NoUser
    /\ timer' = [timer EXCEPT ![o] = NoUser]
    /\ chores' = chores \cup {Chore("timeOut", o, timer[o], {})}
    /\ UNCHANGED <<tableVars, taking>>

\* Mutant: expire_taken goes on although time_out found no row.
TimeOutUnchecked(c) ==
    /\ c.step = "timeOut"
    /\ status' = IF c.order \in InWork(c.user)
                 THEN [status EXCEPT ![c.order] = "timed_out"] ELSE status
    /\ Follow(c, "vacate")
    /\ UNCHANGED <<takenBy, offer, ledger, redisVars, delivered, taking, timer>>

TimeOut(c) ==
    /\ c.step = "timeOut"
    /\ \/ /\ Resolve(c.order, c.user, "timed_out")
          /\ Follow(c, "vacate")
       \/ /\ c.order \notin InWork(c.user)
          /\ Drop(c)
          /\ UNCHANGED status
    /\ UNCHANGED <<takenBy, offer, ledger, redisVars, delivered, taking, timer>>

\* pending.release, then the wake; a job that timed out has nothing left to clear.
Vacate(c) ==
    /\ c.step \in {"vacate", "release"}
    /\ Release({<<c.order, c.user>>})
    /\ Publish
    /\ IF c.step = "vacate" THEN Drop(c) ELSE Follow(c, "clear")
    /\ UNCHANGED <<pgVars, deadlines, delivered, taking, timer>>

\* OrderTimeoutService.clear
Clear(c) ==
    /\ c.step = "clear"
    /\ timer' = [timer EXCEPT ![c.order] = NoUser]
    /\ Drop(c)
    /\ UNCHANGED <<tableVars, taking>>
----------------------------------------------------------------------------
\* Open transactions roll back, chores are forgotten, jobs stay in the store.
BotCrash ==
    /\ "crash" \in Env
    /\ taking' = {}
    /\ chores' = {}
    /\ UNCHANGED <<tableVars, timer>>

\* A handler raises after its commit (Redis, or an edit Telegram refuses).
ChoreRaises(c) ==
    /\ "exception" \in Env
    /\ Drop(c)
    /\ UNCHANGED <<tableVars, taking, timer>>

ChoreStep(c) == Settle(c) \/ Arm(c) \/ TimeOut(c) \/ Vacate(c) \/ Clear(c)
EndTake(o, u) == CommitTake(o, u) \/ AbortTake(o, u)
UserStep(o, u) == BeginTake(o, u) \/ Complete(o, u) \/ Cancel(o, u)

LifecycleNext ==
    \/ \E o \in Orders, u \in Users : UserStep(o, u) \/ EndTake(o, u)
    \/ \E o \in Orders : TimerFires(o)
    \/ \E c \in chores : ChoreStep(c) \/ ChoreRaises(c)
    \/ BotCrash
=============================================================================

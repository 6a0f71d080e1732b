---------------------------- MODULE OrderFanout ----------------------------
(***************************************************************************)
(* The dispatcher process: one loop that sweeps the due orders when a wake *)
(* arrives or the backstop elapses, and, inside a sweep, one asyncio task  *)
(* per due order that offers it to the next user.                          *)
(*                                                                         *)
(* The tasks run concurrently, and each await is a step of its own. A task *)
(* that raises ends the gather, and with it the sweep, while its siblings  *)
(* go on running beside the next sweep: tasks are therefore named by the   *)
(* sweep that started them and their order.                                *)
(*                                                                         *)
(* Whom the online index, the tiers and the ranking put forward is left    *)
(* open: any set of users the order was not offered to, tried in any order.*)
(***************************************************************************)
EXTENDS OrderTables

CONSTANTS
    BatchLimit,  \* DISPATCH_BATCH_LIMIT
    ChunkSize,   \* FANOUT_CHUNK_SIZE
    Amount,      \* orders.amount, fixed when the row is inserted
    Sweeps       \* bound: tags of the sweeps that may have tasks alive at once

ASSUME FanoutAssumption ==
    /\ BatchLimit \in Nat \ {0}
    /\ ChunkSize \in Nat \ {0}
    /\ Amount \in [Orders -> Nat]
    /\ Sweeps # {} /\ IsFiniteSet(Sweeps)

VARIABLES
    sweep,  \* the locals of sweep_and_fan_out: where it is, due, expired, its tag
    task    \* the locals of each _offer task

fanoutVars == <<sweep, task>>

SweepPCs == {"idle", "expire", "release", "snapshot", "gather"}
SearchPCs == {"none", "select", "reserve", "noTakers"}
OfferPCs == {"record", "send", "schedule", "mark", "expireOne", "releaseOne"}

\* users: the users to exclude at "select", those left to try at "reserve";
\* user: the one a slot is reserved for.
TaskStates ==
    [pc : SearchPCs, users : SUBSET Users, user : {NoUser}] \cup
    [pc : OfferPCs, users : {{}}, user : Users]
Tasks == Sweeps \X Orders
NoTask == [pc |-> "none", users |-> {}, user |-> NoUser]
IdleSweep == [pc |-> "idle", due |-> {}, expired |-> {}, tag |-> CHOOSE s \in Sweeps : TRUE]

FanoutTypeOK ==
    /\ sweep \in [pc : SweepPCs, due : SUBSET Orders, expired : SUBSET Rows, tag : Sweeps]
    /\ task \in [Tasks -> TaskStates]

FanoutInit ==
    /\ sweep = IdleSweep
    /\ task = [t \in Tasks |-> NoTask]

Live(s) == {t \in Tasks : t[1] = s /\ task[t].pc # "none"}
----------------------------------------------------------------------------
(* sweep_and_fan_out                                                        *)

\* ORDER BY amount DESC LIMIT BatchLimit; ties (created_at) are left open.
Batch(D) ==
    /\ D \subseteq Due
    /\ Cardinality(D) <= BatchLimit
    /\ D # Due => Cardinality(D) = BatchLimit
    /\ \A o \in D, p \in Due \ D : Amount[o] >= Amount[p]

StartSweep ==
    /\ sweep.pc = "idle"
    /\ \E D \in SUBSET Orders :
        /\ Batch(D)
        /\ sweep' = IF D = {} THEN sweep ELSE [sweep EXCEPT !.pc = "expire", !.due = D]

SweepOnWake ==
    /\ wake
    /\ wake' = FALSE
    /\ StartSweep
    /\ UNCHANGED <<pgVars, pending, deadlines, delivered, task>>

\* Mutant: the wait has no timeout.
SweepOnlyOnWake == FALSE

\* get_message timed out, or the first sweep after a (re)connection.
SweepOnBackstop ==
    /\ ~wake
    /\ StartSweep
    /\ UNCHANGED <<tableVars, task>>

\* Mutant: an order is offered on while its last offer still stands.
KeepLeftovers ==
    /\ sweep.pc = "expire"
    /\ sweep' = [sweep EXCEPT !.pc = "snapshot"]
    /\ UNCHANGED <<tableVars, task>>

\* expire_offered_for_orders
ExpireLeftovers ==
    /\ sweep.pc = "expire"
    /\ LET R == OpenRows(sweep.due)
       IN  /\ ExpireOffers(R)
           /\ sweep' = [sweep EXCEPT !.pc = IF R = {} THEN "snapshot" ELSE "release",
                                     !.expired = R]
    /\ UNCHANGED <<status, takenBy, ledger, redisVars, delivered, task>>

\* _release_not_taken
ReleaseLeftovers ==
    /\ sweep.pc = "release"
    /\ Release(sweep.expired)
    /\ sweep' = [sweep EXCEPT !.pc = "snapshot", !.expired = {}]
    /\ UNCHANGED <<pgVars, deadlines, wake, delivered, task>>

\* offered_user_ids_many, then one task per due order under a tag no task uses.
StartTasks ==
    /\ sweep.pc = "snapshot"
    /\ \E s \in Sweeps :
        /\ Live(s) = {}
        /\ task' = [t \in Tasks |->
                IF t[1] = s /\ t[2] \in sweep.due
                THEN [pc |-> "select", users |-> AlreadyOffered(t[2]), user |-> NoUser]
                ELSE task[t]]
        /\ sweep' = [sweep EXCEPT !.pc = "gather", !.due = {}, !.tag = s]
    /\ UNCHANGED tableVars

EndSweep ==
    /\ sweep.pc = "gather"
    /\ Live(sweep.tag) = {}
    /\ sweep' = IdleSweep
    /\ UNCHANGED <<tableVars, task>>
----------------------------------------------------------------------------
(* offer_order_to_next_user                                                 *)

Goto(t, pc) == task' = [task EXCEPT ![t].pc = pc]
Finish(t) == task' = [task EXCEPT ![t] = NoTask]
Row(t) == <<t[2], task[t].user>>

\* The semaphore admits ChunkSize tasks of a sweep past this point.
Select(t) ==
    /\ task[t].pc = "select"
    /\ Cardinality({x \in Live(t[1]) : task[x].pc # "select"}) < ChunkSize
    /\ \E candidates \in SUBSET (Users \ task[t].users) :
        task' = [task EXCEPT ![t] =
                    [pc |-> IF candidates = {} THEN "noTakers" ELSE "reserve",
                     users |-> candidates, user |-> NoUser]]
    /\ UNCHANGED <<tableVars, sweep>>

MarkNoTakers(t) ==
    /\ task[t].pc = "noTakers"
    /\ Overwrite(t[2], "no_takers")
    /\ Finish(t)
    /\ UNCHANGED <<takenBy, offer, ledger, redisVars, delivered, sweep>>

\* One run of _RESERVE. A full user is passed over; with nobody left the task ends.
Reserve(t) ==
    /\ task[t].pc = "reserve"
    /\ \E u \in task[t].users :
        \/ /\ pending[u] < MaxPending
           /\ pending' = [pending EXCEPT ![u] = @ + 1]
           /\ task' = [task EXCEPT ![t] = [pc |-> "record", users |-> {}, user |-> u]]
        \/ /\ pending[u] >= MaxPending
           /\ IF task[t].users = {u}
              THEN Finish(t)
              ELSE task' = [task EXCEPT ![t].users = @ \ {u}]
           /\ UNCHANGED pending
    /\ UNCHANGED <<pgVars, deadlines, wake, delivered, sweep>>

\* Mutant: ON CONFLICT DO UPDATE opens an answered offer again.
RecordOfferUpsert(t) ==
    /\ task[t].pc = "record"
    /\ offer' = [offer EXCEPT ![Row(t)] = "offered"]
    /\ Goto(t, "send")
    /\ UNCHANGED <<status, takenBy, ledger, redisVars, delivered, sweep>>

\* INSERT ... ON CONFLICT DO NOTHING
RecordOffer(t) ==
    /\ task[t].pc = "record"
    /\ offer' = [offer EXCEPT ![Row(t)] = IF @ = "none" THEN "offered" ELSE @]
    /\ Goto(t, "send")
    /\ UNCHANGED <<status, takenBy, ledger, redisVars, delivered, sweep>>

SendOffer(t) ==
    /\ task[t].pc = "send"
    /\ delivered' = delivered \cup {Row(t)}
    /\ Goto(t, "schedule")
    /\ UNCHANGED <<pgVars, redisVars, sweep>>

\* The profile has gone, or Telegram refused the message; with "ghostSend" an
\* error (a lost reply) may follow a message that was delivered.
SendFails(t) ==
    /\ task[t].pc = "send"
    /\ \/ "sendError" \in Env /\ UNCHANGED delivered
       \/ "ghostSend" \in Env /\ delivered' = delivered \cup {Row(t)}
    /\ Goto(t, "expireOne")
    /\ UNCHANGED <<pgVars, redisVars, sweep>>

\* _rollback_offer
ExpireOne(t) ==
    /\ task[t].pc = "expireOne"
    /\ ExpireOffers({Row(t)})
    /\ Goto(t, "releaseOne")
    /\ UNCHANGED <<status, takenBy, ledger, redisVars, delivered, sweep>>

ReleaseOne(t) ==
    /\ task[t].pc = "releaseOne"
    /\ Release({Row(t)})
    /\ Finish(t)
    /\ UNCHANGED <<pgVars, deadlines, wake, delivered, sweep>>

ScheduleDeadline(t) ==
    /\ task[t].pc = "schedule"
    /\ deadlines' = deadlines \cup {Row(t)}
    /\ Goto(t, "mark")
    /\ UNCHANGED <<pgVars, pending, wake, delivered, sweep>>

MarkOffering(t) ==
    /\ task[t].pc = "mark"
    /\ Overwrite(t[2], "offering")
    /\ Finish(t)
    /\ UNCHANGED <<takenBy, offer, ledger, redisVars, delivered, sweep>>
----------------------------------------------------------------------------
(* Failures                                                                 *)

\* An exception that is not a TelegramAPIError leaves the task; gather passes the
\* first one on at once, the sweep is logged as failed, the siblings keep running.
TaskRaises(t) ==
    /\ "taskError" \in Env
    /\ task[t].pc # "none"
    /\ Finish(t)
    /\ sweep' = IF sweep.pc = "gather" /\ sweep.tag = t[1] THEN IdleSweep ELSE sweep
    /\ UNCHANGED tableVars

\* A statement of the sweep itself fails; _safe_sweep logs it.
SweepRaises ==
    /\ "taskError" \in Env
    /\ sweep.pc \in {"expire", "release", "snapshot"}
    /\ sweep' = IdleSweep
    /\ UNCHANGED <<tableVars, task>>

\* The container stops and is restarted: what Redis and Postgres hold stays, the
\* subscription and whatever waited in it are gone.
DispatcherCrash ==
    /\ "crash" \in Env
    /\ sweep' = IdleSweep
    /\ task' = [t \in Tasks |-> NoTask]
    /\ wake' = FALSE
    /\ UNCHANGED <<pgVars, pending, deadlines, delivered>>
----------------------------------------------------------------------------
SweepStep ==
    SweepOnWake \/ SweepOnBackstop \/ ExpireLeftovers \/ ReleaseLeftovers \/ StartTasks \/ EndSweep

TaskStep(t) ==
    \/ Select(t) \/ MarkNoTakers(t) \/ Reserve(t) \/ RecordOffer(t)
    \/ SendOffer(t) \/ SendFails(t) \/ ExpireOne(t) \/ ReleaseOne(t)
    \/ ScheduleDeadline(t) \/ MarkOffering(t)

FanoutFault == SweepRaises \/ DispatcherCrash \/ \E t \in Tasks : TaskRaises(t)
FanoutNext == SweepStep \/ FanoutFault \/ \E t \in Tasks : TaskStep(t)
=============================================================================

# A TLA+ model of the order marketplace

The repository is a marketplace for top-up orders. A store posts orders to an
API; every order is offered, one user at a time, to the Telegram users who are
online, cheapest and best rated first; the first one to press *Take* works on it
and presses *Ready* or *Cancel* when done. Four processes do this without talking
to each other directly: they share a Postgres database and a Redis server.

| process | entry point | what it does to orders |
|---|---|---|
| api | `src/api` (FastAPI) | inserts orders; cleans (cancels) them on a service endpoint |
| dispatcher | `src/dispatcher/__main__.py` | sweeps the due orders and offers each to its next user |
| offer expirer | `src/offer_expirer/__main__.py` | expires offers whose deadline has passed |
| bot | `src/bot` (aiogram, APScheduler) | Take, Ready and Cancel buttons, expiry of taken orders, all dialogues |

All run under docker compose with `restart: unless-stopped`.

## Inventory

State, operations and the properties that make each part correct.

**Shared tables** (`common/repositories`). Postgres: `orders` (status, taken_by),
`order_offers` (one row per order and user ever asked; offered, then taken or
expired), `transactions` (the ledger, unique per profile and order). Redis:
`orders:pending:<user>` (how many offers and orders a user has in use, at most
`MAX_ORDERS_PENDING`), `orders:offer_deadlines` (sorted set), the pub/sub channel
`orders:dispatch:wake`. Every operation is one SQL statement or one Lua script.
*Correct when* counters agree with the rows, offers are answered once, orders in
work belong to those whose offer was taken.

**Dispatcher** (`order_fanout.py`). State: the locals of one sweep and of one task
per due order. Waits for a wake or the 30 s backstop; reads due orders (active, no
offer younger than 75 s), withdraws what is left of their old offers, and starts
concurrent tasks that select candidates, reserve a slot, record the offer, send the
message, queue its deadline and mark the order `offering`. *Hard*: every await is
a point where a user, the expirer or another sweep may act; the message is out
before the order is marked; an exception in one task ends the sweep but not the
other tasks; Telegram may deliver and still answer with an error.
*Correct when* an order is open to one user at a time, nobody is asked twice and
every order is decided in the end.

**Offer expirer** (`offer_expiry.py`). Claims due deadlines (which takes them off the
queue), expires the offers still open, gives the slots back, wakes the dispatcher.
*Hard*: a batch that fails after the claim is lost; the user's press, the
reconciler and the rollback compete for the same row.

**Order lifecycle** (`order_processing.py`, `bot/handlers/orders.py`). `take` is one
transaction under a lock on the profile row, followed by releases of the rivals'
slots and by scheduling the expiry job; `complete`, `cancel` and `expire_taken`
close an order with a conditional UPDATE and then release the slot and wake the
dispatcher. *Hard*: what comes after the commit exists only in the process.
*Correct when* the limit of orders in work holds, an order is paid once, a taken
order is always resolved.

**Order timeouts** (`order_timeouts.py`, `jobs/order_timeouts.py`). Three chained
jobs in the Redis job store: check-in after 180 s, last call after 240 s, expiry
after 180 s; and a record of the messages to clean up. *Hard*: jobs race the
buttons, a job re-arms the chain after it looked at the order, restarts, and every call to
Telegram between two steps may fail, or be done and not answered. *Correct when* a
chain never forks, nobody loses an order unasked, every message is cleaned up, and the
buttons on the screen fit what the order is.

**Order intake** (`api/services/order_entity.py`, `external_order_api.py`). `create`
checks for a duplicate, calls the store several times, inserts; `clean_order`
cancels an order, expires its offers and releases their slots. *Hard*: the checks
and the insert are apart; half the calls may have succeeded when one fails; substitutes for
bad codes come unchecked, and an order may name no player.

*Correct when* an order has one row, no code is lost, sold and handed out at once, or
handed out twice, and the review bans whom it should.

**Ranking, tiers, packages** (`ranking.py`, `catalog/`). Pure: greedy decomposition of
an amount into packages, tier ranges, cheapest price bucket and rating order, cost.
*Hard*: boundaries of the ranges, amounts no greedy choice decomposes; the ranking reads
the index, `take` reads the row.
*Correct when* the split adds up, candidates are ordered, and whom the ranking picks
`take` does not refuse.

**Online index, profiles, moderation** (`redis/online_index.py`,
`services/user_profiles.py`, `services/moderation.py`, `services/request_service.py`).
A Redis index of online users mirrors profile rows; requests are moderated. *Hard*:
row and index are written one after the other by concurrent handlers; administrators go on
working while the bot is off.
*Correct when* the index mirrors the rows, a ban lasts, a switched-off bot has nobody but
administrators online.

**Forms and dialogues** (`bot/forms`, `handlers/registration.py`, `handlers/editing.py`).
State: per chat, in Redis: the state of the dialogue and what was entered so far. Buttons
of old messages can still be pressed, and a handler sets the next state several awaits after
it checked the last, whatever a ban or an approval set in between. *Correct when* only complete profiles are saved and
no dialogue gets stuck.

**The rest**: rating counters, panels that only read, broadcast, languages and
rendering, authorization, maintenance scripts.

`PROJECT.json` lists the components with their status, and the hazards at their lines.

## Modules

| module | models | state |
|---|---|---|
| `OrderTables` | the repositories: one operator per statement or script | `status takenBy offer ledger pending deadlines wake delivered` |
| `OrderFanout` | `sweep_and_fan_out`, `offer_order_to_next_user`, the dispatcher's loop | `sweep task` |
| `OfferExpiry` | the expirer's loop, `expire_offers` | `claimed lapsed` |
| `OrderLifecycle` | `take`, `complete`, `cancel`, `expire_taken`, their handlers, the expiry job | `taking chores timer` |
| `OrderIntake` | the INSERT of an order, `clean_order` | `cleaned` |
| `OrderMarket` | the four processes side by side, time, fairness, the properties | all of the above |
| `OrderBoard` | abstract: what is promised of an order, without processes or tables | `stage user asked paid` |
| `OrderTimeouts` | the chain of jobs, the message record, the buttons and dialogues of an order in work | `status holder job record screen fsm data threads` |
| `OrderCreation` | `POST /orders/create` against the store, the review behind Ready | `store mark used worth request row review` |
| `PackageMath` | split of amounts, package sizes, tiers | operators |
| `OnlineIndex` | the transactions of both online indexes and the router | operators |
| `OrderRanking` | candidates, price bucket, sort key, `validate_take` | operators |
| `ProfileForms` | the registration and edit dialogues | `fsm form due` |
| `ProfileDesk` | profile rows, index, switch, moderators, bans, over the modules above | `rows index enabled threads posted work review` |
| `MCOrderMarket`, `MCOrderTimeouts`, `MCOrderCreation`, `MCProfileDesk` | instances for TLC | |
| `OrderMarketSafety` | proofs of type correctness and of the safety of taking and paying | |
| `OrderMarketOffers` | proofs that nobody is sent an order twice and that it is open to one user at a time | |
| `OrderMarketCalm` | lemmas on the calm environment: the unconditional UPDATEs hit nobody | |
| `OrderMarketBoard` | proof that the market implements the board, and what follows | |
| `OrderMarketSlots` | proofs that slot counters cover what is held, and are exact while nothing fails | |
| `OrderTimeoutsProofs` | proofs about the chain of jobs, the messages and the record | |
| `OrderCreationProofs` | proofs about the intake of orders, their codes and the review | |
| `ProfileDeskProofs` | proofs about profiles, their index and forms, the switch and the ranking | |

`OrderMarket` EXTENDS the component modules, which all EXTEND `OrderTables`: they
share its variables, and a process may change only its own locals and the tables.
`OrderTimeouts`, `OrderCreation` and `ProfileDesk` stand beside it. They open up what it
keeps closed: its one timer per order is a chain of three jobs there, its arrival of an
order a request with a dozen calls, its candidates a ranking over an index. `ProfileDesk`
EXTENDS `OrderRanking` (over `OnlineIndex`, over `PackageMath`) and `ProfileForms`.

### How state and actions correspond to the code

* `offer[<<o, u>>]` is the row of `order_offers`. The status `offered` is split in
  two, `"offered"` and `"stale"`, by whether it is older than TTL plus grace:
  that is all any query asks of `offered_at`. `GrowStale` is the passing of time.
* `task[<<s, o>>]` holds the locals of the asyncio task of order `o` started by the
  sweep with tag `s`. Each await that changes shared state is one action; local
  computation is merged into the one before it. `Sweeps` bounds how many sweeps
  may have tasks alive at once; sweeps overlap only after a task raised.
* `chores` is what a handler still owes after its commit: release the slots of
  rivals (`Settle`), schedule the job (`Arm`), release the own slot and wake the
  dispatcher (`Vacate`), remove the job (`Clear`).
* `taking` is an open `take` transaction between the count of orders in work and the
  UPDATEs. Nothing it does is visible before `CommitTake`; the profile row it
  locked is the conjunct of `BeginTake` that says so.
* `pending` is clipped exactly as the scripts do it: `Reserve` refuses at the limit,
  `Release` floors at zero.
* `delivered` is Telegram's: which messages with a Take button a user can see.

Abstractions. The users put forward by the ranking are any subset of those the
order was not offered to, tried in any order. Deadlines are due at any time after
they are queued. Several waiting wakes are one. The three timeout jobs are one
timer per order. Presses that are turned away change nothing and are no steps.
A release and the wake that follows are one step in the expirer and in `Vacate`:
the wake carries no data and the dispatcher reads only the tables. Moderator
notices, message edits and the third-party hand-off (a log line and a notice)
are left out, as are rating counters.

**Timeouts.** A thread of `OrderTimeouts` is one run of a job or of a button's handler; `at`
is the await it has reached. `screen` is what each message shows, and what it shows is
which buttons can be pressed. A press reads nothing but the message it came from, so a
handler may act on an order that has changed hands or state: the code's own checks
(`InWork`) are in the threads, where the code has them. An edit may be refused at any time
(`Edit`), which leaves the old buttons; the edit inside `take_order` (`Render`) may also be
done without an answer, and either failure ends the handler before it starts the timer. A
prompt may be sent without an answer, and a deletion refused. `MaxFailures` bounds such
calls. What they leave behind is noted, so that each property exempts no more than it must:
`cut` (orders whose take broke off at the card), `misled` (users whose dialogue opened while
the question was refused), `strays` (prompts nothing will delete).

**Intake.** A request of `OrderCreation` is a thread whose every call to the store may be
done or refused, answered or not. `Answers` gives what the store can say of a code.
Where the order names no player (`Nameless`) the code
compares with the string `None`, so that every activated code is somebody else's (`Seen`).
Substitutes have a history like all codes. Answers drive the bookkeeping of `check_unused_codes`, which collects while it loops
(`redeemed`, `broken`, `new`) and applies at the end (`Unused`). A call without an
answer raises an `AttributeError` past the handlers of `create`: the request is `lost`.

**Desk.** `rows[u]` is the profile row, `index[u]` what Redis holds of the user, written
script by script. A handler that writes is a thread with the row it read; `touched`
remembers whose row and entry were written by two handlers at once, or by one that does
not sync. A ban is what follows on a Ready: `review[u]` goes from `asked` over `blocked` (the row
is banned, the moderators are being told) to the closed chat (`CloseChat`), each after an await.
The switch lets administrators in (`Admitted`), whom the review does not ban either.
`ProfileForms` keeps the dialogue state and the entered data as the chat does,
missing values as empty sets. A step of an edit checks and fills the form at once and leaves
the state to set in `due`; `Arrive` sets it later, over whatever the chat was set to
meanwhile (`overtaken` notes the users whose chat others closed in between). A registration
being filled in has no row to ban or approve, so there the two are one (`Proceed`).

### The board

`OrderBoard` is the promise to whoever looks at one order: put up, asked of one user
at a time and never twice of the same, taken only by the one asked and only with
room, closed for good, paid at most once. `OrderMarket` defines the mapping: `StageOf`
reads the status and whether an offer is open, `UserOf` who holds the order or is asked,
`AskedOf` and `AlreadyOffered` the offers, `PaidFor` the ledger. Sweeps, slots, wakes,
deadlines, messages and jobs do not show.

### The environment

`Env` says what may go wrong, so that each run asks for what its properties are
promised under: refused messages (`sendError`), messages delivered although the
call failed (`ghostSend`), a Take before the order is marked (`earlyTake`), a Take
of an offer the reconciler is due to withdraw (`lateTake`), the service endpoint
(`clean`), process restarts (`crash`), a statement of the
dispatcher (`taskError`) or of another process (`exception`) that fails, a lost
batch (`claimLost`) and lost wakes (`wakeLost`). `OrderMarket` explains each.

## Runs

The runs `market_*` use `MCOrderMarket`. Limits of 1 for slots (`MaxPending`) make every full
counter and every contended slot reachable with few users; two users are needed for
rivals and for passing an order on, two orders for the limit, the batch and
cross-order slots. Larger amounts go first (`MCAmount`).

| run | instance | environment | shows |
|---|---|---|---|
| `market_quiet` | 2 orders, 2 users, chunk 1 | sendError | `SlotsConserved`: each counter is exactly the open offers, the orders in work and the slots some process has still to release. `OneOpenOffer`, `OneCreditPerOrder`, `TakenUntilResolved`, `ClosedStaysClosed`; `ImplementsBoard`: every step of every process is a step of the board or none |
| `market_hostile` | 1 order, 2 users | all but claimLost | `TypeOK`, `TakerHoldsOffer`, `AnsweredOnce` hold whatever happens |
| `market_overlap` | 2 orders, 1 user, 2 sweeps at once, bounds `AllArrived`, `WithinTTL`, `OneHandler` | earlyTake, taskError | a task raises and its sibling goes on beside the next sweep, with the snapshot of offers it was started with: `NeverPaidBefore`, `AnsweredOnce` |
| `market_limit` | 3 orders, 1 user, bounds `AllArrived`, `WithinTTL` | ghostSend | `InWorkBound`: a rollback gives back a slot in use, two orders are open to a user with one slot, and the lock in take still keeps the limit; three orders are the fewest with which this happens |
| `market_faulty` | 2 orders, 1 user, batch 1 | sendError, earlyTake, lateTake, crash | `SlotsCoverHeld`: restarts leak slots but never give away one in use. `AskedOnce`: nobody is sent an order twice |
| `market_live` | 2 orders, 1 user | wakeLost, claimLost, sendError | `OrderDecided`, `TakenResolved`, `OfferAnswered` |
| `market_two_credits` | 1 order, 2 users | earlyTake | finding: `OneCreditPerOrder` fails |
| `market_clean_leak` | 1 order, 1 user | clean | finding: `SlotsConserved` fails |
| `market_untimed` | 1 order, 1 user | crash | finding: `TakenResolved` fails |
| `timeouts` | 1 order, 1 user, 2 presses in flight, 2 failures, bound `OneTrouble` | restart, calls to Telegram refused, or done and not answered | `OneTimer`: the chain never forks or ends early. `WarnedFirst`: no order is lost to the clock before both prompts were tried. `PromptsRemembered`: every prompt on the screen is about to be deleted or in a record that will be popped. `NoFalseTimeout`: no card says timed out on an order still in work. `HolderCanFinish`: whoever holds an order has a card for it. `AwaitingIsVisible`: no text cancels an order whose message offers to go on working. All but for what a failed call itself leaves behind (`cut`, `misled`, `strays`) |
| `intake` | 3 orders with 2, 1 and no codes, 1 spare code, 2 requests; `y` names no player, the spare code may be used | refused and unanswered calls, restart of the API | `OneRowPerOrder`, `CodesAccounted`, `NotForSale`, `CodesApart`: orders and codes are neither lost nor given out twice. `HandedOverIsKnown`, `BannedForCause`, `CompletedIsDone` |
| `desk` | 1 user, 2 packages, 1 price, 2 times, 2 tiers, 2 threads, 2 saves, 2 decisions | moderators, bans, the switch | `IndexFollowsRows`, `DisabledIsEmpty`, `RankedCanTake`, `CanBePaid`, `FormsComplete`, `PricesAwaited`, `BannedStaysOut`; before it starts, the pure operators over bounded inputs |

Three large instances of the market are cut by CONSTRAINTS of `MCOrderMarket`: `AllArrived` (the
orders are there before the first sweep), `WithinTTL` (the run is over before a
deadline is due, an offer grows stale or a job fires: what these runs are about
takes seconds) and `OneHandler` (one chore at a time; `market_quiet` has this one alone, and what it
checks is proved without it). Lapse and timeouts are
explored without bounds in the other runs.

**The other instances.** In `timeouts` one order and one user suffice because jobs, records
and cards are per order and user, and a chat is per user; three threads at once (two
presses and a job) are the most that meet on one card, and every stage of the chain can
race every button. Failures are not combined with overlapping presses or the restart
(`OneTrouble`): what a failure leaves behind concerns one handler and the next one, and two of
them suffice for every pair; the combination is covered by the proofs.
In `intake` two requests are either for the same order (duplicates,
overlaps, a retry after a crash) or for two that compete for the one spare code; the
histories give the two codes of the first order every two answers of the store
(`MCHistories`: the two can be exchanged for each other), the second order is there to compete
and names no player, the third comes with no code that is unused. In `desk` every write
is of one user's row and entry, so one user meets all the races; two packages of which
one needs a higher tier, and two orders, one for packages and one for codes, make
every branch of `take` and of the ranking's filters happen; the price bucket and the sort
key, which compare users, are beyond one user (the key has `RankingIsTotal`). Three of two saves and two decisions
(`ThreeChanges`) allow register, approve, edit, or a second decision instead. A review meets at
most one handler that writes, and no take (`ShortReview`): what can undo its ban is a single
save, begun before or after the row is written, or a single step of a dialogue that the closing of
the chat overtakes (`ShortSteps`: such a step meets reviews and decisions, no handler that
writes, and who got past a ban with one takes no further order). The steps inside a dialogue are not
interleaved with handlers that write, with which they share nothing (`Resting`). The user is no administrator, who could neither be banned
nor switched off; the proofs are for any administrators among any users.

**Pure operators.** The ASSUMEs of `MCProfileDesk` compare them with what they should be:
the split adds up for every amount up to 9000 (`SplitAddsUp`), the greedy choice fails
where other packages would do (`GreedyFails`), a tier serves all a lower one serves, so
that `required` decides (`TiersAreNested`), and the sort key is a strict total order of any
three candidates (`RankingIsTotal`). Three of these are also proved for all inputs (below).

Users are symmetric in the runs of the market without liveness. Deadlock is checked in
the market and the desk, where some process can always move; `timeouts` and `intake` end
when the order is resolved or the requests are used up. `clean` is checked with one order or one user
because it touches one order at a time.

Fairness (`FairSpec`): weak fairness of the dispatcher's sweep, of each of its tasks,
of the expirer's batch and of each deadline, of the end of each take, of each chore,
of each scheduled job and of the ageing of each offer. The processes are event loops
that keep running and no step of theirs waits for a user. Nothing is assumed of
users (who may never press a button), of arrivals, or of failures. The live run
leaves out crashes: with them, a slot that leaks is never repaired and an order may
find every candidate full for ever.

Every property has a mutant in `PROJECT.json`: a plausible bug in a mapped
definition that makes TLC report the property violated under the run's own cfg.

### What the model found

1. `mark_offering` (order_fanout.py:128) is unconditional and runs after the message
   is out. A user who takes the order and completes it before Telegram's answer
   is processed has it reset to `offering`; it is offered to, and paid to, a second
   user. `market_two_credits` shows the trace; the ledger is meant to hold one row
   per completed order (migrations/020). `NeverPaidBefore` shows that at least the
   same user is not paid twice.
2. `clean_order` on a taken order cancels it but releases only the slots of open
   offers (order_entity.py:122): the taker's counter stays one too high. His buttons
   and his timer find the order no longer taken and release nothing.
   `market_clean_leak` shows the trace.
3. A take commits first and schedules its expiry job last (orders.py:120). A restart
   of the bot in between leaves an order taken with no job, and nothing looks for
   such orders afterwards. `market_untimed` shows the trace, under fairness of every
   process; without restarts `market_live` shows that taken orders are resolved.

Weaknesses the modelling met, of which no document says that they should not be. The
properties are stated around them, each exemption with its reason in the module:

* `approve`, `ban` and price changes by moderators never sync the online index, and
  overlapping toggles and saves may leave a wrong entry until the user's next change
  (`touched`). A code worker whose tier changes stays in the old tier's set as well.
* A profile saved or approved again, or repriced, while an order is in work: completing
  it raises a `KeyError` for a size without a price (`repriced`).
* A save that overlaps with a ban, or begins while moderators and administrators are still being
  told of it, makes the banned row `inactive` again, to be approved as any other: the chat is
  closed only afterwards (orders.py:76). So does a save that follows a step of an edit which
  was under way when the chat was closed: its handler sets its own state over `blocked`
  (fields.py:505, 525; `overtaken`). `BannedStaysOut` is about who is banned, his chat closed
  with no step under way and no save of his (`ShutOut`).
* Administrators stay online, and can go online, while the bot is off; orders would be offered
  to them alone. Whether that is meant nothing says (`DisabledIsEmpty` is about the others).
* Approving a user for codes and then for packages leaves an active profile without
  prices. Approving a banned user's old request makes him active. `LeaveForm` overrides a
  dialogue state that an approval set meanwhile.
* Two overlapping create requests insert an order twice (`overlapped`). A request that
  crashes after it gave a code back for sale, and is retried, may hand out the code it
  sold (`BrokenOff`).
* The gap of finding 3 needs no restart: `_render_taken` (orders.py:47-56) lets every error but
  "not modified" out, so an edit that Telegram refused, or did and did not answer, ends
  `take_order` before `order_timeouts.start`. The order is in work with no timer and, if the
  edit was refused, with the old Take button and none to finish it (`cut`). A refused edit in
  `cancel_order` leaves a card that says work while the next text cancels the order (`misled`).
* A prompt sent while the order is completed is added to a record that is already popped,
  where no later pop finds it; it stays on the screen, as do prompts sent without an answer and
  those Telegram would not delete (`strays`).
* `check_order_finished` wraps the player's id in `str()` (external_order_api.py:102): a missing
  one becomes `'None'`, which makes the guard of line 125 dead, and a worker who activated the
  code correctly is banned. `BannedForCause` says so of orders that name no player
  (`Nameless`). At intake the same comparison (:196) takes codes their player has used for sold
  ones.
* Substitutes are handed out unverified: a worker may be banned for one that was used before
  (`BannedForCause` says when).
* A code fetched for one of a different amount is booked with the amount of the one it
  replaces (`Substitute`). An order without unused codes is inserted as pending (`Insert`).
* A fraud verdict takes the buttons away while the order stays in work until it times
  out (`Flag`).
* Handlers of one chat that overlap, when a user presses again before he is answered, may
  leave a dialogue open that the screen does not show (`hasty`).
* A clean while a message of the same order is being refused gives its slot back twice,
  once by `clean_order` and once by `_rollback_offer` (order_processing.py:183), which does not
  look at what its UPDATE found: a counter falls below what its user holds. `Careful` in
  `OrderMarketSlots` excludes this.
* 360 or 975 cannot be split by the greedy choice; the error leaves the offering task.

## Proofs

`tlapm` on the `OrderMarket*` proof modules, `OrderTimeoutsProofs`, `OrderCreationProofs` and
`ProfileDeskProofs` checks them. They hold
for every value of the constants under `TablesAssumption`, `FanoutAssumption`,
`TimeoutsAssumption` (finite sets of orders, users and sweep tags, positive limits),
`CreationAssumption` (finitely many codes; the store reserves a code for one order),
`FormsAssumption` and `DeskAssumption` (packages of the catalogue; amounts that were split), in every
behaviour of the specification with no constraint on it, and in every environment unless the
theorem excludes one.

* `TypeCorrect == Spec => []TypeOK`. One lemma per component. The part with content is
  that `pending` stays within `0..MaxPending`: the reserve script refuses at the
  limit and the release script floors, so no double release can break the range.
* `WorkIsBounded`, `TakersHoldOffers`, `PaidOnce` from one inductive invariant,
  `SafeInv`: besides the three claims it says that only taken offers were paid
  (`PaidWasTaken`), that a user is inside one take at a time (`OneTakePerUser`, the
  row lock) and that whoever is inside a take still has room (`RoomToTake`). The
  last two are what makes the bound inductive: a commit adds an order to a user who
  was counted under the lock, and meanwhile nobody else can add one for him. The
  first is what makes the ledger safe: a paid order has its payer's offer taken, a
  take needs an open offer, so no take can bring a paid order back to its payer.
* The proof sorts the steps: all but `BeginTake`, `CommitTake` and `Complete` are
  *neutral* (`StepKinds`), that is they create no taken order, leave `taken_by`, the
  ledger and answered offers alone and open no take. The unconditional UPDATEs of
  the dispatcher and of clean are neutral. `NeutralSafe` disposes of them at once;
  the other three have a lemma each.
* `OffersAnsweredOnce == Spec => AnsweredOnce`, an action property, from the same split.

* `NobodyAskedTwice == Spec => AskedOnce` in every environment without `taskError`.
  The dispatcher reads once, when the sweep starts its tasks, whom an order was
  offered to (`offered_user_ids_many`), and a task relies on that for as long as it
  lasts. `AskingInv` says why it may: only the tasks of the sweep in its gather are
  alive (`OneSweep`), so one task at a time works on an order (`TasksApart`) and what
  it read stays true until it records an offer itself (`Informed`); and a message is
  on a screen only if its offer was recorded (`Recorded`). Everyone else is a
  `Bystander`. A task that raises breaks `OneSweep`: `gather` returns, its siblings
  live on beside the next sweep, and both may ask the same user.
* `OneUserAtATime == Spec => []OneOpenOffer`, from `AskingInv` and `OffersInv`: what is
  left of an order's offers is withdrawn before its task starts (`ClearSweep`), and
  until that task records the next offer nothing of the order is open
  (`ClearTasks`). The take of a stale offer, a crash or a lost deadline cannot
  reopen one: steps outside the dispatcher only close offers (`NothingOpened`).

* `MarketImplementsBoard == ... Spec => ImplementsBoard`, and from the same lemmas
  `TakersKeepOrders`, `ClosedForGood`, `OneCredit`: in a calm environment (`Calm`: no early or
  late takes, no cleans, no statement of the dispatcher that fails; restarts, refused and
  ghost messages, lost wakes and batches, failing statements elsewhere are allowed).
  `mark_offering` and `mark_no_takers` overwrite any status, so what has to be shown is
  that from the query that finds an order due until that UPDATE nobody can take the
  order. `CalmInv` says so part by part: a due order's offers are stale until its task
  starts (`CalmSweep`), a task on its way to an UPDATE works on an order on offer of
  which nothing is open, or nothing delivered, or no take begun (`CalmTask`), and whoever
  is inside a take has the message of a fresh offer (`CalmTakes`). Then a status only moves
  forward (`Forward`), an order paid is completed and was paid to one user
  (`PaidIsCompleted`), and every step maps to a board step or to none.

* `CountersCover == Careful => (Spec => []SlotsCoverHeld)` and
  `CountersExact == Faultless => (Spec => []SlotsConserved)`. `Load(u)` counts what a user's slots
  are for: open offers, orders in work, reservations whose offer is not recorded yet, and
  rows that the sweep, the expirer, a clean or a handler has closed and still to release. Every
  step changes the counter and the load alike (`Kept`) or only forgets a release (`Leaked`,
  which needs a crash, an exception or an overwritten status: `Leaky`); hence `Covered` is inductive in one
  environment and `Balanced` in the other. `SlotsInv` is what the counting leans on: a
  process has released one batch before it closes the next (`HandsFree`), what a handler
  releases is an order its user took and no longer has (`LeavingIsOver`), nobody has
  seen the offer a task rolls back (`RollbackIsOwn`). Restarts, early and late takes, lost deadlines and wakes and
  failing handlers are in `Careful` environments; excluded are failing statements and ghost
  messages of the dispatcher (its rollback would release a slot in use: `market_limit` shows that
  the limit on orders in work holds all the same) and a clean beside a refused
  message (see above).

**Timeouts.** Four kinds of facts, each inductive given those before it (the head of
`OrderTimeoutsProofs` lists them), for any number of orders, users, presses and failures.

* `TimeoutsTyped`, and `ThreadInv`: what a thread goes by when it resumes after an await. Orders
  never leave what the thread saw behind its back in a way that matters: once settled,
  an order stays so (`ThreadOK`), and the stage of a job or thread says which prompts were
  tried (`Before`). From this `TimeoutsTrue` and `NobodyTimedOutUnasked`.
* `ChainInv` attributes the timer of each order in work to one job or one thread
  (`InChain`). A job is consumed by the run it starts and a run re-arms before it ends, whatever
  Telegram does. Only the take's own edit comes before the timer: an order it `cut` has no
  chain to fork (`CutInv`). Hence `ChainHolds`.
* `CardStays`: a card is never deleted and shows what the last edit that succeeded made of it; a
  thread that edits one to an ending has seen the order closed, which it stays.
* `AwaitingShown` needs to know that a prompt still ahead cannot be what a user's dialogue is
  about (`UnsentInv`), which needs to know that before the card is rendered nobody has
  anything to press on (`FreshInv`); `AwaitInv` then follows the one press in flight of a
  user who waits for his answers, to the question on the screen or to `misled`.
* `PromptsKept`: `RecordInv` says who may still add to a record and who is about to clear it. The
  order of the awaits carries it: while an order is in work its record, once it has a card,
  keeps it, so pop will return what is added; a closed order has a pop to come (`PopSure`)
  or nothing left to return.

**Intake.** Requests for an order may overlap, break off or be repeated, and each goes
on with what it has collected.

* `CreationTyped`, and `CodesInOnePlace` from `Ledger`: the codes a request has put aside as
  redeemed or broken and those still to look at are apart and of its order, a row has
  every code of the order in one place, and one activated by somebody else is among
  the unused only where the store would not tell (`doubt`) or it was activated since.
* `BansHaveCause`, `PassedIsDone` from `ReviewInv`: the review of a Ready asks about unused codes of its
  row only, and those it has already asked about were activated by the player. What it holds against
  the worker (`Blamed`) is a code used by somebody else, who did so since the order was taken,
  or before and it was not verified at intake, or it is a substitute; or any code used, if the
  order names no player.
* `OrdersHaveOneRow` from `OnlyOne`: without an overlap at most one request of an order is
  in flight, and once past its lookup it finds no row until it inserts one. With an overlap
  two rows are possible (the lookup and the INSERT are a dozen calls apart), hence the exemption.
* `OrdersAreKnown`: an order the store has handed over has a row, a request still at work on
  it or moderators who were told; only a request that broke off leaves it unknown.
* `RowsShareNoCode` needs `SparesKept` (a replacement belongs to one request or one row and is
  off sale); `HandedOutIsSold` needs `SaleInv`: a code goes back on sale only after
  the request noted it as broken, and the note ends up in the row. The order is carried by
  the awaits of the substitution; a request that broke off between them is the exemption of
  `Muddled`.

**Profiles.** Everything goes by `Typed`, which also says which handlers there are
(`Kinds`): a thread of one kind never does the step of another.

* `Filled` says what a form holds in each state of its dialogue (`FormFits`), so that wherever old
  buttons lead, `FormsAreComplete` and `PricesHaveSizes`; while a handler is under way the form
  already fits the state it is about to set (`Fit`). A form that is being saved
  (`ThreadOK`) stays whole because no dialogue of the user moves meanwhile.
* `BansLast` from `BanInv`: a banned user whose chat is no longer to be closed rests in a
  dialogue state from which no save begins, with no handler under way (`Closed`), and whatever
  he presses (`DialogueRests`) leaves him in one; or his chat was closed over a step that was
  under way (`overtaken`), which lasts until a handler of his own ends the dialogue. Only a save
  writes his row besides moderators and the ban itself, and it would have to be under way,
  which `ShutOut` excludes and this invariant keeps excluded.
* `IndexIsRight` from `IndexInv`, stated user by user. A handler that is `lone`, or whose user is not
  `touched`, is the only writer of row and entry (`Sole`), and its `Claim` says what it has
  done so far: the row it read is still the row, the entry is that of the row before the button was
  pressed, or half synced. Its last script makes the entry right whatever it was
  (`SyncRight`), with one exception: code tiers add up, so a sync of a code worker needs the
  entry it started from to be right. This is why an undisturbed toggle of a code worker does
  not end the doubt (`SecondScript`). A handler that overlaps puts all of them in doubt
  (`Pushed`), and a write by a moderator or a ban leaves the user in doubt unless he was
  offline and out of the index (`DisturbIndex`).
* `SwitchedOff` from `OffInv`: at the moment the switch goes off either something was under way,
  and then everyone is in doubt and no handler can clear it for who is no administrator, or
  nothing was, and then nothing but the switch itself, takes, and what administrators do to
  their own rows and entries can run until it goes on again.
* `RankedMayTake` from `IndexInv`: what the index says is what the row says, and the ranking's
  filter agrees with the check of take. The latter is `RequiredDecides`: tiers are nested for
  every set of amounts, so "at least the required tier" and "own tier allows it" are the same.
* `PaidAtItsPrices` from `PayInv`: the row that a press of Take has read has the prices the row has
  when the take commits, since every change of prices notes the users it hits between
  press and completion.
* Pure operators, for all inputs: `SplitLosesNothing`, `RequiredDecides`, and `RankingOrders`
  (the sort key is lexicographic over keys that are strict weak orders each; failure rates are
  compared by cross multiplication, which needs the counts of zero to be turned into 0/1).

Model-checked only: all liveness (fairness and ENABLED are outside TLAPS's reach here), that
`SetToSortSeq` sorts by the key, and sums of prices (`FullPrice`), both defined by recursion over
data. Every safety and action property of a passing run is proved.

## Plan

Done: all the modules above, the proofs about the market and its slots, the board and the
refinement, and the proofs about the timeouts, the intake and the profiles. Next: the
connection pool of `complete`, and the dialogue of two steps moderators set prices in.

## Not modelled

* Rating counters: written inside or beside the transactions modelled here, read by the
  ranking alone; how they are compared is in `OrderRanking`.
* The connection pool, and row-lock deadlocks: Postgres breaks the latter and the loser
  changes nothing.
* Starvation of small orders by the batch limit, for which no promise is stated.
* The moderators' own dialogue (a decision is one action), price limits and the code price
  (one value each), the debug command that wipes a profile, withdrawals (a message).
* The caches of a sweep and the arithmetic of money: prices are whole minor units.
* Broadcast, languages, rendering, keyboards and menus (output only; which buttons an
  order's messages carry is in `OrderTimeouts`), authorization (stateless), migrations and
  one-off scripts, among them the counter backfill.

See the notes in `PROJECT.json`.

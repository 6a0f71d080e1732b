--------------------------- MODULE OrderTimeouts ---------------------------
(***************************************************************************)
(* What surrounds an order in work: the chain of three jobs in the         *)
(* scheduler's store (check-in, last call, expiry), the Redis record of    *)
(* the messages to clean up, the cancel dialogue, the anti-fraud review    *)
(* behind Ready, and the messages of the user's chat, whose buttons are    *)
(* all he can do.                                                          *)
(*                                                                         *)
(* Jobs and button handlers run concurrently in the bot. Each is a thread: *)
(* what it does between two awaits is one action. An order is taken once.  *)
(***************************************************************************)
EXTENDS Naturals, FiniteSets

CONSTANTS
    Orders,
    Users,
    NoUser,
    MaxPresses,  \* bound: handlers of one user in flight at once
    MaxFailures  \* bound: calls to Telegram that fail

ASSUME TimeoutsAssumption ==
    /\ IsFiniteSet(Orders)
    /\ NoUser \notin Users
    /\ MaxPresses \in Nat \ {0}
    /\ MaxFailures \in Nat

VARIABLES
    status, holder,  \* the order's row: status and taken_by
    job,             \* order_timeout:<order> in the job store: stage and user
    record,          \* orders:timeout_msgs:<order>: whose card, which pings
    screen,          \* the text of each message, and with it its buttons
    fsm, data,       \* dialogue state, and the prompt it was opened from
    threads,         \* job runs and handlers in flight
    warned,          \* auxiliary: the prompts a chain has tried to send
    restarted,       \* auxiliary: the bot was restarted
    hasty,           \* auxiliary: users who pressed before their last press was answered
    cut,             \* auxiliary: orders whose take broke off at the card, with no timer
    misled,          \* auxiliary: users awaiting whose reason was to be asked, and was not
    strays,          \* auxiliary: prompts on the screen that the bot has lost track of
    failures         \* auxiliary: calls to Telegram that failed

rowVars == <<status, holder>>
chatVars == <<fsm, data>>
mishaps == <<cut, misled, strays>>
histVars == <<warned, restarted, hasty>>
auxVars == <<histVars, mishaps, failures>>
vars == <<rowVars, job, record, screen, chatVars, threads, auxVars>>

Pings == {"checkIn", "lastCall"}
Stages == Pings \cup {"expiry"}
Messages == Orders \X Users \X (Pings \cup {"card"})
Texts == {"none", "offer", "work", "reason", "ask", "done", "timedOut", "flagged", "unavailable"}
Jobs == [stage : Stages, user : Users]
NoJob == [stage |-> "none", user |-> NoUser]
NoRecord == [card |-> NoUser, pings |-> {}]

RunSteps == {"check", "send", "note", "arm", "expire", "pop", "timedOut"}
PressSteps == {"render", "schedule", "remember", "review", "freeze", "flag", "complete",
    "cancel", "clear", "finish", "data", "prompt", "look", "back", "gone"}

\* msg: the message a handler edits; stage: of a job run; pings: those it will delete.
Threads == [at : RunSteps \cup PressSteps \cup {"wipe", "wipeLast"}, order : Orders, user : Users,
            stage : Stages \cup {"none"}, msg : Messages, pings : SUBSET Messages]

TypeOK ==
    /\ status \in [Orders -> {"offering", "taken", "completed", "cancelled", "timed_out"}]
    /\ holder \in [Orders -> Users \cup {NoUser}]
    /\ job \in [Orders -> Jobs \cup {NoJob}]
    /\ record \in [Orders -> [card : Users \cup {NoUser}, pings : SUBSET Messages]]
    /\ screen \in [Messages -> Texts]
    /\ fsm \in [Users -> {"none", "awaiting_reason", "blocked"}]
    /\ data \in [Users -> SUBSET Messages]
    /\ threads \subseteq Threads
    /\ warned \subseteq Messages
    /\ restarted \in BOOLEAN
    /\ hasty \subseteq Users
    /\ cut \subseteq Orders
    /\ misled \subseteq Users
    /\ strays \subseteq Messages
    /\ failures \in 0..MaxFailures

Init ==
    /\ status = [o \in Orders |-> "offering"]
    /\ holder = [o \in Orders |-> NoUser]
    /\ job = [o \in Orders |-> NoJob]
    /\ record = [o \in Orders |-> NoRecord]
    /\ screen = [m \in Messages |-> IF m[3] = "card" THEN "offer" ELSE "none"]
    /\ fsm = [u \in Users |-> "none"]
    /\ data = [u \in Users |-> {}]
    /\ threads = {}
    /\ warned = {}
    /\ restarted = FALSE
    /\ hasty = {}
    /\ cut = {} /\ misled = {} /\ strays = {} /\ failures = 0

InWork(o, u) == status[o] = "taken" /\ holder[o] = u
Card(o, u) == <<o, u, "card">>

Press(at, m) == [at |-> at, order |-> m[1], user |-> m[2], stage |-> "none", msg |-> m,
                 pings |-> {}]
StartSteps == {"render", "schedule", "remember"}
Presses(u) == {t \in threads : t.user = u /\ t.stage = "none" /\ t.at \notin StartSteps}
Begin(t) == threads' = threads \cup {t}
Hurry(u) ==
    /\ Presses(u) # {} => ~restarted
    /\ hasty' = IF Presses(u) = {} THEN hasty ELSE hasty \cup {u}
pressVars == <<warned, restarted, mishaps, failures>>
Goto(t, at) == threads' = (threads \ {t}) \cup {[t EXCEPT !.at = at]}
End(t) == threads' = threads \ {t}

\* Telegram refuses a call, or does it and the answer is lost.
Fail == failures < MaxFailures /\ failures' = failures + 1

\* edit_text, refused at any time and always on a message that is gone.
Edited(m, text) ==
    /\ screen[m] # "none"
    /\ screen' = [screen EXCEPT ![m] = text]

Edit(m, text) ==
    \/ Edited(m, text) /\ UNCHANGED failures
    \/ screen[m] = "none" /\ UNCHANGED <<screen, failures>>
    \/ Fail /\ UNCHANGED screen
----------------------------------------------------------------------------
(* take_order, after the transaction that made the order the user's.        *)

Take(o, u) ==
    /\ screen[Card(o, u)] = "offer"
    /\ status[o] = "offering"
    /\ status' = [status EXCEPT ![o] = "taken"]
    /\ holder' = [holder EXCEPT ![o] = u]
    /\ Begin(Press("render", Card(o, u)))
    /\ UNCHANGED <<job, record, screen, chatVars, auxVars>>

\* _render_taken. Refused, or unanswered and perhaps done, it raises: the handler ends
\* and no timer is started.
Render(t) ==
    /\ t.at = "render"
    /\ \/ Edited(t.msg, "work") /\ Goto(t, "schedule") /\ UNCHANGED <<cut, failures>>
       \/ /\ Fail
          /\ Edited(t.msg, "work") \/ UNCHANGED screen
          /\ End(t)
          /\ cut' = cut \cup {t.order}
    /\ UNCHANGED <<rowVars, job, record, chatVars, histVars, misled, strays>>

\* _schedule: one job per order, replace_existing=True
Arm(o, u, stage) == job' = [job EXCEPT ![o] = [stage |-> stage, user |-> u]]

Schedule(t) ==
    /\ t.at = "schedule"
    /\ Arm(t.order, t.user, "checkIn")
    /\ Goto(t, "remember")
    /\ UNCHANGED <<rowVars, record, screen, chatVars, auxVars>>

\* remember_taken: the fields are set and the key gets its TTL.
RememberTaken(t) ==
    /\ t.at = "remember"
    /\ record' = [record EXCEPT ![t.order].card = t.user]
    /\ End(t)
    /\ UNCHANGED <<rowVars, job, screen, chatVars, auxVars>>

\* The TTL runs out; it is longer than the chain and its last handler. A key made by
\* add_ping alone has none.
RecordExpires(o) ==
    /\ record[o].card # NoUser
    /\ job[o] = NoJob /\ \A t \in threads : t.order # o
    /\ record' = [record EXCEPT ![o] = NoRecord]
    /\ UNCHANGED <<rowVars, job, screen, chatVars, threads, auxVars>>
----------------------------------------------------------------------------
(* The jobs. The scheduler takes a job out of its store when it submits it. *)

\* Assumption: the delays (minutes) are longer than the rest of the run or of the take
\* that scheduled the job.
JobFires(o) ==
    /\ job[o] # NoJob
    /\ \A t \in threads : t.order = o => t.stage = "none" /\ t.at # "remember"
    /\ Begin([at |-> "check", order |-> o, user |-> job[o].user, stage |-> job[o].stage,
              msg |-> IF job[o].stage = "expiry" THEN Card(o, job[o].user)
                      ELSE <<o, job[o].user, job[o].stage>>,
              pings |-> {}])
    /\ job' = [job EXCEPT ![o] = NoJob]
    /\ UNCHANGED <<rowVars, record, screen, chatVars, auxVars>>

\* Mutant: the card is rendered without expiring the order.
CheckAndRender(t) ==
    /\ t.at = "check"
    /\ IF InWork(t.order, t.user)
       THEN Goto(t, IF t.stage = "expiry" THEN "pop" ELSE "send")
       ELSE End(t)
    /\ UNCHANGED <<rowVars, job, record, screen, chatVars, auxVars>>

\* _in_work
Check(t) ==
    /\ t.at = "check"
    /\ IF InWork(t.order, t.user)
       THEN Goto(t, IF t.stage = "expiry" THEN "expire" ELSE "send")
       ELSE End(t)
    /\ UNCHANGED <<rowVars, job, record, screen, chatVars, auxVars>>

\* Mutant: a refused message ends the run.
SendOrGiveUp(t) ==
    /\ t.at = "send"
    /\ warned' = warned \cup {t.msg}
    /\ \/ /\ screen' = [screen EXCEPT ![t.msg] = "ask"]
          /\ Goto(t, "note")
          /\ UNCHANGED failures
       \/ /\ Fail
          /\ UNCHANGED screen
          /\ End(t)
    /\ UNCHANGED <<rowVars, job, record, chatVars, restarted, hasty, mishaps>>

\* _notify: Telegram may refuse the message, or send it and not answer; the error is
\* logged, the message not remembered, and the chain goes on.
SendPrompt(t) ==
    /\ t.at = "send"
    /\ warned' = warned \cup {t.msg}
    /\ \/ /\ screen' = [screen EXCEPT ![t.msg] = "ask"]
          /\ Goto(t, "note")
          /\ UNCHANGED <<strays, failures>>
       \/ /\ Fail
          /\ \/ UNCHANGED <<screen, strays>>
             \/ screen' = [screen EXCEPT ![t.msg] = "ask"] /\ strays' = strays \cup {t.msg}
          /\ Goto(t, "arm")
    /\ UNCHANGED <<rowVars, job, record, chatVars, restarted, hasty, cut, misled>>

\* Mutant: the pings share one field.
AddPingOnly(t) ==
    /\ t.at = "note"
    /\ record' = [record EXCEPT ![t.order].pings = {t.msg}]
    /\ Goto(t, "arm")
    /\ UNCHANGED <<rowVars, job, screen, chatVars, auxVars>>

\* add_ping. Once the record was popped the field makes a record without a card, of which
\* pop returns nothing.
AddPing(t) ==
    /\ t.at = "note"
    /\ record' = [record EXCEPT ![t.order].pings = @ \cup {t.msg}]
    /\ strays' = IF record[t.order].card = NoUser THEN strays \cup {t.msg} ELSE strays
    /\ Goto(t, "arm")
    /\ UNCHANGED <<rowVars, job, screen, chatVars, histVars, cut, misled, failures>>

\* Mutant: the last call is skipped.
RearmExpiry(t) ==
    /\ t.at = "arm"
    /\ Arm(t.order, t.user, "expiry")
    /\ End(t)
    /\ UNCHANGED <<rowVars, record, screen, chatVars, auxVars>>

\* The next job of the chain is scheduled whatever became of the order meanwhile.
Rearm(t) ==
    /\ t.at = "arm"
    /\ Arm(t.order, t.user, IF t.stage = "checkIn" THEN "lastCall" ELSE "expiry")
    /\ End(t)
    /\ UNCHANGED <<rowVars, record, screen, chatVars, auxVars>>

\* _resolve
Resolve(o, u, s) ==
    /\ InWork(o, u)
    /\ status' = [status EXCEPT ![o] = s]

\* expire_taken, whose result run_order_expiry ignores.
ExpireTaken(t) ==
    /\ t.at = "expire"
    /\ \/ Resolve(t.order, t.user, "timed_out")
       \/ ~InWork(t.order, t.user) /\ UNCHANGED status
    /\ Goto(t, "pop")
    /\ UNCHANGED <<holder, job, record, screen, chatVars, auxVars>>

\* pop returns nothing, pings included, for a record without a card.
Popped(o) == IF record[o].card = NoUser THEN {} ELSE record[o].pings

\* Mutant: a record without a card is rendered too.
PopUnchecked(t) ==
    /\ t.at = "pop"
    /\ record' = [record EXCEPT ![t.order] = NoRecord]
    /\ threads' = (threads \ {t}) \cup {[t EXCEPT !.at = "timedOut", !.pings = Popped(t.order),
                                           !.msg = Card(t.order, record[t.order].card)]}
    /\ UNCHANGED <<rowVars, job, screen, chatVars, auxVars>>

\* _render_timed_out
PopTimedOut(t) ==
    /\ t.at = "pop"
    /\ record' = [record EXCEPT ![t.order] = NoRecord]
    /\ threads' = IF record[t.order].card = NoUser THEN threads \ {t}
                  ELSE (threads \ {t}) \cup {[t EXCEPT !.at = "timedOut", !.pings = Popped(t.order),
                                              !.msg = Card(t.order, record[t.order].card)]}
    /\ UNCHANGED <<rowVars, job, screen, chatVars, auxVars>>

RenderTimedOut(t) ==
    /\ t.at = "timedOut"
    /\ Edit(t.msg, "timedOut")
    /\ Goto(t, "wipeLast")
    /\ UNCHANGED <<rowVars, job, record, chatVars, histVars, mishaps>>

\* _delete_pings goes on past those Telegram refuses to delete.
DeletePings(t) ==
    /\ t.at \in {"wipe", "wipeLast"}
    /\ \E kept \in SUBSET {m \in t.pings : screen[m] # "none"} :
        /\ screen' = [m \in Messages |-> IF m \in t.pings \ kept THEN "none" ELSE screen[m]]
        /\ strays' = strays \cup kept
        /\ IF kept = {} THEN UNCHANGED failures ELSE Fail
    /\ IF t.at = "wipe" THEN threads' = (threads \ {t}) \cup {[t EXCEPT !.at = "finish", !.pings = {}]}
       ELSE End(t)
    /\ UNCHANGED <<rowVars, job, record, chatVars, histVars, cut, misled>>
----------------------------------------------------------------------------
(* The buttons                                                              *)

\* A user presses what a message offers.
MayPress(m, buttons) ==
    /\ screen[m] \in buttons
    /\ Cardinality(Presses(m[2])) < MaxPresses

\* ready_order. The review looks at the order first and asks the store next.
PressReady(m) ==
    /\ MayPress(m, {"work"})
    /\ Begin(Press("review", m))
    /\ Hurry(m[2])
    /\ UNCHANGED <<rowVars, job, record, screen, chatVars, pressVars>>

\* Verdicts: not his or not finished (an alert), fraud, fine.
Review(t) ==
    /\ t.at = "review"
    /\ \/ End(t)
       \/ InWork(t.order, t.user) /\ \E at \in {"freeze", "flag", "complete"} : Goto(t, at)
    /\ UNCHANGED <<rowVars, job, record, screen, chatVars, auxVars>>

\* _report_fraud. The privileged are not blocked. The order stays in work.
Freeze(t) ==
    /\ t.at = "freeze"
    /\ fsm' = [fsm EXCEPT ![t.user] = "blocked"]
    /\ Goto(t, "flag")
    /\ UNCHANGED <<rowVars, job, record, screen, data, auxVars>>

Flag(t) ==
    /\ t.at = "flag"
    /\ Edit(t.msg, "flagged")
    /\ End(t)
    /\ UNCHANGED <<rowVars, job, record, chatVars, histVars, mishaps>>

\* complete and cancel of OrderLifecycle; no row, no change.
Close(t) ==
    /\ t.at \in {"complete", "cancel"}
    /\ \/ /\ Resolve(t.order, t.user, IF t.at = "complete" THEN "completed" ELSE "cancelled")
          /\ Goto(t, "clear")
       \/ ~InWork(t.order, t.user) /\ End(t) /\ UNCHANGED status
    /\ UNCHANGED <<holder, job, record, screen, chatVars, auxVars>>

\* clear: the job goes, the record is popped.
Clear(t) ==
    /\ t.at = "clear"
    /\ job' = [job EXCEPT ![t.order] = NoJob]
    /\ record' = [record EXCEPT ![t.order] = NoRecord]
    /\ threads' = (threads \ {t}) \cup {[t EXCEPT !.at = "wipe", !.pings = Popped(t.order)]}
    /\ UNCHANGED <<rowVars, screen, chatVars, auxVars>>

Finish(t) ==
    /\ t.at = "finish"
    /\ Edit(t.msg, "done")
    /\ End(t)
    /\ UNCHANGED <<rowVars, job, record, chatVars, histVars, mishaps>>

\* cancel_order: whatever the order's status, the dialogue opens.
PressCancel(m) ==
    /\ MayPress(m, {"work", "ask"})
    /\ fsm' = [fsm EXCEPT ![m[2]] = "awaiting_reason"]
    /\ Begin(Press("data", m))
    /\ Hurry(m[2])
    /\ UNCHANGED <<rowVars, job, record, screen, data, pressVars>>

NameOrder(t) ==
    /\ t.at = "data"
    /\ data' = [data EXCEPT ![t.user] = {t.msg}]
    /\ Goto(t, "prompt")
    /\ UNCHANGED <<rowVars, job, record, screen, fsm, auxVars>>

\* The state and the data stand if the edit is refused.
PromptReason(t) ==
    /\ t.at = "prompt"
    /\ Edit(t.msg, "reason")
    /\ misled' = IF screen'[t.msg] = "reason" THEN misled \ {t.user} ELSE misled \cup {t.user}
    /\ End(t)
    /\ UNCHANGED <<rowVars, job, record, chatVars, histVars, cut, strays>>

\* Mutant: going back does not leave the dialogue.
AbortKeepsState(m) ==
    /\ MayPress(m, {"reason"})
    /\ Begin(Press("look", m))
    /\ Hurry(m[2])
    /\ UNCHANGED <<rowVars, job, record, screen, chatVars, pressVars>>

\* abort_cancel_reason
AbortReason(m) ==
    /\ MayPress(m, {"reason"})
    /\ fsm' = [fsm EXCEPT ![m[2]] = "none"]
    /\ Begin(Press("look", m))
    /\ Hurry(m[2])
    /\ UNCHANGED <<rowVars, job, record, screen, data, pressVars>>

\* Mutant: the order is found unavailable whoever it belongs to.
LookAway(t) ==
    /\ t.at = "look"
    /\ Goto(t, "gone")
    /\ UNCHANGED <<rowVars, job, record, screen, chatVars, auxVars>>

LookBack(t) ==
    /\ t.at = "look"
    /\ Goto(t, IF InWork(t.order, t.user) THEN "back" ELSE "gone")
    /\ UNCHANGED <<rowVars, job, record, screen, chatVars, auxVars>>

GoBack(t) ==
    /\ t.at \in {"back", "gone"}
    /\ Edit(t.msg, IF t.at = "back" THEN "work" ELSE "unavailable")
    /\ End(t)
    /\ UNCHANGED <<rowVars, job, record, chatVars, histVars, mishaps>>

\* submit_cancel_reason: any text sent while a reason is awaited. Assumption: a text is
\* not handled within the instant between set_state and update_data of cancel_order.
SubmitReason(u) ==
    /\ fsm[u] = "awaiting_reason"
    /\ Cardinality(Presses(u)) < MaxPresses
    /\ \A t \in Presses(u) : t.at # "data"
    /\ \E m \in data[u] : Begin(Press("cancel", m))
    /\ fsm' = [fsm EXCEPT ![u] = "none"]
    /\ Hurry(u)
    /\ UNCHANGED <<rowVars, job, record, screen, data, pressVars>>

\* dismiss_order
Dismiss(m) ==
    /\ screen[m] = "ask"
    /\ screen' = [screen EXCEPT ![m] = "none"]
    /\ UNCHANGED <<rowVars, job, record, chatVars, threads, auxVars>>

\* /start, the menu and every other dialogue leave this one.
LeaveDialogue(u) ==
    /\ fsm[u] # "none"
    /\ fsm' = [fsm EXCEPT ![u] = "none"]
    /\ UNCHANGED <<rowVars, job, record, screen, data, threads, auxVars>>
----------------------------------------------------------------------------
\* Threads die with the bot; the job store, the record and the dialogue are in Redis.
\* Bound: one restart, and hasty users only before it.
Restart ==
    /\ ~restarted
    /\ hasty = {}
    /\ restarted' = TRUE
    /\ threads' = {}
    /\ UNCHANGED <<rowVars, job, record, screen, chatVars, warned, hasty, mishaps, failures>>

ThreadStep(t) ==
    \/ Render(t) \/ Schedule(t) \/ RememberTaken(t)
    \/ Check(t) \/ SendPrompt(t) \/ AddPing(t) \/ Rearm(t)
    \/ ExpireTaken(t) \/ PopTimedOut(t) \/ RenderTimedOut(t) \/ DeletePings(t)
    \/ Review(t) \/ Freeze(t) \/ Flag(t) \/ Close(t) \/ Clear(t) \/ Finish(t)
    \/ NameOrder(t) \/ PromptReason(t) \/ LookBack(t) \/ GoBack(t)

UserStep ==
    \/ \E o \in Orders, u \in Users : Take(o, u)
    \/ \E m \in Messages : PressReady(m) \/ PressCancel(m) \/ AbortReason(m) \/ Dismiss(m)
    \/ \E u \in Users : SubmitReason(u) \/ LeaveDialogue(u)

Next ==
    \/ UserStep
    \/ \E t \in threads : ThreadStep(t)
    \/ \E o \in Orders : JobFires(o) \/ RecordExpires(o)
    \/ Restart

Spec == Init /\ [][Next]_vars
----------------------------------------------------------------------------
(* Properties                                                               *)

\* The chain of an order never forks. An order in work has one, unless the bot was
\* restarted or Telegram failed the edit of the card that comes before the timer: its next
\* job, the run that will schedule it, or the take that will start it.
ChainSteps == {"render", "schedule", "check", "send", "note", "arm", "expire"}
Timers(o) ==
    (IF job[o] = NoJob THEN 0 ELSE 1)
    + Cardinality({t \in threads : t.order = o /\ t.at \in ChainSteps})

OneTimer ==
    \A o \in Orders :
        /\ Timers(o) <= 1
        /\ status[o] = "taken" /\ ~restarted /\ o \notin cut => Timers(o) = 1

\* A user loses an order to the clock only after the bot tried to ask him twice,
\* restarts or not.
WarnedFirst ==
    [][\A o \in Orders : status'[o] = "timed_out" /\ status[o] # "timed_out" =>
            \A p \in Pings : <<o, holder[o], p>> \in warned]_vars

\* Every prompt on the screen is on its way to be deleted: pop would return it and will be
\* called, a run is about to add it, or a thread is about to delete it. Lost are only those
\* Telegram sent without answering or would not delete, and those added to a record that
\* was popped while they were sent.
PopComes(o) == status[o] = "taken" \/ \E t \in threads : t.order = o /\ t.at \in {"clear", "pop"}

PromptsRemembered ==
    restarted \/ \A m \in Messages \ strays : m[3] \in Pings /\ screen[m] # "none" =>
        \/ m \in Popped(m[1]) /\ PopComes(m[1])
        \/ \E t \in threads : (t.msg = m /\ t.at = "note") \/ m \in t.pings

\* A card says "timed out" only once the order is no longer its user's, though the result
\* of expire_taken is not looked at.
NoFalseTimeout ==
    \A o \in Orders, u \in Users : screen[Card(o, u)] = "timedOut" => ~InWork(o, u)

\* Who has an order in work has a card to finish it with, whatever he and the jobs did at
\* the same time and whichever edits Telegram refused; unless the bot was restarted, his
\* Ready was found fraudulent, or it was the take's own edit.
HolderCanFinish ==
    \A o \in Orders, u \in Users :
        InWork(o, u) /\ ~restarted /\ (\A t \in threads : t.order = o => t.at # "render")
            => \/ screen[Card(o, u)] \in {"work", "reason", "flagged"}
               \/ screen[Card(o, u)] = "offer" /\ o \in cut

\* Whenever the next text a user types will cancel an order in work, the message it will
\* cancel does not offer him to go on working on it; if he waits for his presses to be
\* answered and Telegram did not refuse to turn that message into the question. The jobs
\* do not wait.
AwaitingIsVisible ==
    \A u \in Users \ (hasty \cup misled) :
        fsm[u] = "awaiting_reason" /\ Presses(u) = {} /\ ~restarted =>
            \A m \in data[u] : InWork(m[1], u) => screen[m] \in {"reason", "flagged", "none"}
=============================================================================

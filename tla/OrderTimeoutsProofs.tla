------------------------ MODULE OrderTimeoutsProofs ------------------------
(***************************************************************************)
(* An order in work, for any number of orders, users, presses and failed   *)
(* calls to Telegram: the chain of jobs neither forks nor breaks, nobody   *)
(* loses an order unasked, prompts on the screen will be deleted, and the  *)
(* messages of a user say what his next press or text will do.             *)
(*                                                                         *)
(* The facts are of four kinds, each of which is inductive given those     *)
(* before it: what a thread knows of its order (ThreadInv, JobInv), who    *)
(* carries the chain (ChainInv, and CutInv for a take that broke off),     *)
(* what is on the screens (ChatInv, FreshInv, UnsentInv, AwaitInv), and    *)
(* what the Redis record still has (RecordInv, PopSure).                   *)
(***************************************************************************)
EXTENDS OrderTimeouts, FiniteSetTheorems, TLAPS

Closed == {"completed", "cancelled", "timed_out"}
Over == {"clear", "wipe", "finish", "pop", "timedOut", "wipeLast"}
Handling == {"review", "freeze", "flag", "complete", "cancel", "clear", "wipe", "finish"}
Dialogue == {"data", "prompt", "look", "back", "gone"}

\* The prompts a chain has been through before a stage, and those it has still to send.
Before(s) == {p \in Pings : s = "expiry" \/ (s = "lastCall" /\ p = "checkIn")}
Ahead(s) == Pings \ Before(s)

\* What a thread goes by: its message is of its order, the order is settled as the thread
\* left it, the prompts before its stage were sent.
ThreadOK(t) ==
    /\ t.msg[1] = t.order
    /\ status[t.order] # "offering"
    /\ \A m \in t.pings : m[3] \in Pings
    /\ t.pings # {} => t.at \in {"timedOut", "wipe", "wipeLast"}
    /\ t.at \in Over => status[t.order] \in Closed
    /\ t.at = "gone" => ~InWork(t.order, t.user)
    /\ t.at \in ChainSteps => holder[t.order] = t.user
    /\ t.stage = "none" =>
        /\ t.msg[2] = t.user
        /\ t.at \in StartSteps \cup Handling \cup Dialogue
    /\ t.stage # "none" => t.at \in RunSteps \cup {"wipeLast"}
    /\ t.at \in StartSteps => t.msg[3] = "card"
    /\ t.stage # "none" /\ t.at \in ChainSteps =>
        \A p \in Before(t.stage) : <<t.order, t.user, p>> \in warned
    /\ t.at = "check" /\ t.stage # "expiry" => t.msg = <<t.order, t.user, t.stage>>
    /\ t.at \in {"send", "note", "arm"} =>
        t.stage \in Pings /\ t.msg = <<t.order, t.user, t.stage>>
    /\ t.at \in {"note", "arm"} => t.msg \in warned
    /\ t.at = "expire" => t.stage = "expiry"

ThreadInv == \A t \in threads : ThreadOK(t)

JobOK(o) ==
    job[o] # NoJob =>
        /\ status[o] # "offering"
        /\ job[o].user = holder[o]
        /\ \A p \in Before(job[o].stage) : <<o, job[o].user, p>> \in warned

JobInv == \A o \in Orders : JobOK(o)

\* The chain of an order is in one place at a time, and not lost while it is in work.
InChain(t, o) == t \in threads /\ t.order = o /\ t.at \in ChainSteps

ChainOK(o) ==
    /\ \A t, x \in threads : InChain(t, o) /\ InChain(x, o) => t = x
    /\ job[o] # NoJob => \A t \in threads : ~InChain(t, o)
    /\ status[o] = "taken" /\ ~restarted /\ o \notin cut =>
        job[o] # NoJob \/ \E t \in threads : InChain(t, o)

ChainInv == \A o \in Orders : ChainOK(o)

\* Cards stay, only closed orders time out, and what is not an offer is about an order
\* that was taken.
MessageOK(m) ==
    /\ m[3] = "card" => screen[m] \notin {"none", "ask"}
    /\ screen[m] = "offer" => m[3] = "card"
    /\ screen[m] = "timedOut" => status[m[1]] \in Closed
    /\ screen[m] \notin {"none", "offer"} => status[m[1]] # "offering"

DataOK(u) == \A m \in data[u] : m[2] = u /\ status[m[1]] # "offering"

ChatInv == (\A m \in Messages : MessageOK(m)) /\ \A u \in Users : DataOK(u)

\* Until the card of an order is rendered nobody has anything to press on.
Rendering(o) == \E t \in threads : t.order = o /\ t.at = "render"
Fresh(o) ==
    /\ \A m \in Messages : m[1] = o => screen[m] \in {"none", "offer"}
    /\ \A u \in Users : \A m \in data[u] : m[1] # o
    /\ \A t \in threads : t.order = o => t.at = "render"

FreshInv == \A o \in Orders : Rendering(o) => Fresh(o)

\* A prompt ahead was never on the screen.
Unsent(m) ==
    /\ screen[m] = "none"
    /\ m \notin data[m[2]]
    /\ \A t \in threads : t.stage = "none" => t.msg # m

UnsentThread(t) ==
    /\ t.at \in {"render", "schedule"} => \A p \in Pings : Unsent(<<t.order, t.user, p>>)
    /\ t.at \in {"check", "send"} => \A p \in Ahead(t.stage) : Unsent(<<t.order, t.user, p>>)
    /\ t.at \in {"note", "arm"} =>
        \A p \in Ahead(t.stage) \ {t.stage} : Unsent(<<t.order, t.user, p>>)

UnsentJob(o) ==
    job[o] # NoJob => \A p \in Ahead(job[o].stage) : Unsent(<<o, job[o].user, p>>)

UnsentInv == (\A t \in threads : UnsentThread(t)) /\ \A o \in Orders : UnsentJob(o)

\* Whoever waits for his presses to be answered has one in flight, and while a reason is
\* awaited that one opens the dialogue anew or leaves what is visible alone.
Visible(u) ==
    u \in misled \/ \A m \in data[u] : InWork(m[1], u) => screen[m] \in {"reason", "flagged", "none"}

AwaitOK(u) ==
    /\ \A t, x \in Presses(u) : t = x
    /\ ~restarted /\ fsm[u] = "awaiting_reason" =>
        /\ Presses(u) = {} => Visible(u)
        /\ \A t \in Presses(u) :
            \/ t.at = "data"
            \/ t.at = "prompt" /\ data[u] = {t.msg}
            \/ t.at \in Handling /\ Visible(u)

AwaitInv == \A u \in Users \ hasty : AwaitOK(u)

\* The record of an order, until the bot is restarted.
Starting(o) == \E t \in threads : t.order = o /\ t.at \in StartSteps
At(o, S) == \E t \in threads : t.order = o /\ t.at \in S
Quiet(o) == record[o].pings = {} /\ ~At(o, {"send", "note"})

StartOK(o) == Starting(o) =>
    record[o].pings = {} /\ \A t \in threads : t.order = o => t.stage = "none"

RecordsOwn ==
    \A o \in Orders :
        /\ \A m \in record[o].pings : m[1] = o /\ m[3] \in Pings
        /\ record[o] # NoRecord => status[o] # "offering"

RecordOK(o) ==
    /\ StartOK(o)
    /\ \A t, x \in threads : t.order = o /\ x.order = o /\ t.at = "clear" /\ x.at = "clear" => t = x
    /\ At(o, {"pop"}) => ~At(o, {"send", "note"})
    /\ ~restarted =>
        /\ status[o] = "taken" => record[o].card # NoUser \/ Starting(o) \/ o \in cut
        /\ At(o, {"clear", "pop", "expire"}) /\ record[o].card = NoUser => Quiet(o)
        /\ status[o] \in Closed /\ record[o].card # NoUser /\ ~Quiet(o) => At(o, {"clear", "pop"})

RecordInv == \A o \in Orders : RecordOK(o)

\* An order whose card is not rendered has no record, no job and no job run; nor will it,
\* if that broke the take off.
CutOK(o) ==
    /\ o \in cut => status[o] # "offering" /\ ~Rendering(o)
    /\ o \in cut \/ Rendering(o) =>
        /\ job[o] = NoJob /\ record[o] = NoRecord
        /\ \A t \in threads : t.order = o => t.stage = "none" /\ t.at \notin {"schedule", "remember"}

CutInv == \A o \in Orders : CutOK(o)
----------------------------------------------------------------------------
(* Types.                                                                   *)

\* The threads after a step: those that were there but t, and x.
Moved(t, x) == threads' = (threads \ {t}) \cup {x}

LEMMA GotoMoves ==
    ASSUME TypeOK, NEW t \in threads, NEW at, at \in RunSteps \cup PressSteps \cup {"wipe", "wipeLast"}
    PROVE  LET x == [t EXCEPT !.at = at]
           IN  /\ x \in Threads /\ x.at = at /\ x.order = t.order /\ x.user = t.user
               /\ x.stage = t.stage /\ x.msg = t.msg /\ x.pings = t.pings
               /\ Goto(t, at) => Moved(t, x)
    BY DEF TypeOK, Threads, Goto, Moved

LEMMA PressTyped ==
    ASSUME NEW m \in Messages, NEW at \in PressSteps
    PROVE  LET x == Press(at, m)
           IN  /\ x \in Threads /\ x.at = at /\ x.order = m[1] /\ x.user = m[2]
               /\ x.stage = "none" /\ x.msg = m /\ x.pings = {}
    BY DEF Press, Threads, Messages

LEMMA InitType == Init => TypeOK
<1> SUFFICES ASSUME Init PROVE TypeOK
    OBVIOUS
<1> USE DEF Init
<1>1. screen \in [Messages -> Texts]
    BY DEF Texts
<1>2. record \in [Orders -> [card : Users \cup {NoUser}, pings : SUBSET Messages]]
    BY DEF NoRecord
<1>3. job \in [Orders -> Jobs \cup {NoJob}] /\ threads \subseteq Threads /\ warned \subseteq Messages
    OBVIOUS
<1>4. cut \subseteq Orders /\ misled \subseteq Users /\ strays \subseteq Messages /\ failures \in 0..MaxFailures
    BY TimeoutsAssumption
<1> QED
    BY <1>1, <1>2, <1>3, <1>4 DEF TypeOK

LEMMA ThreadType ==
    ASSUME TypeOK, NEW t \in threads, ThreadStep(t)
    PROVE  TypeOK'
<1> USE DEF TypeOK, rowVars, chatVars, auxVars, histVars, mishaps
<1>0. t \in Threads /\ t.order \in Orders /\ t.user \in Users /\ t.msg \in Messages
      /\ t.pings \in SUBSET Messages /\ t.stage \in Stages \cup {"none"}
    BY DEF Threads
<1>1. ASSUME NEW at, Goto(t, at), at \in RunSteps \cup PressSteps \cup {"wipe", "wipeLast"}
      PROVE  threads' \subseteq Threads
  <2>1. [t EXCEPT !.at = at] \in Threads
      BY <1>0, <1>1 DEF Threads
  <2> QED
      BY <1>1, <2>1 DEF Goto
<1>2. End(t) => threads' \subseteq Threads
    BY DEF End
<1>25. Fail => failures' \in 0..MaxFailures
    BY TimeoutsAssumption DEF Fail
<1>3. ASSUME NEW text \in Texts, NEW m, Edit(m, text)
      PROVE  screen' \in [Messages -> Texts] /\ failures' \in 0..MaxFailures
    BY <1>3, <1>25 DEF Edit, Edited
<1> USE DEF RunSteps, PressSteps
<1>4. CASE Render(t)
  <2>1. screen' \in [Messages -> Texts] /\ failures' \in 0..MaxFailures
      BY <1>4, <1>25 DEF Render, Edited, Texts
  <2>2. cut' \subseteq Orders
      BY <1>0, <1>4 DEF Render
  <2>3. threads' \subseteq Threads
      BY <1>1, <1>2, <1>4 DEF Render
  <2> QED
      BY <1>4, <2>1, <2>2, <2>3 DEF Render
<1>5. CASE Schedule(t)
    BY <1>0, <1>1, <1>5 DEF Schedule, Arm, Jobs, Stages, Pings
<1>6. CASE RememberTaken(t)
    BY <1>0, <1>2, <1>6 DEF RememberTaken
<1>7. CASE Check(t)
    BY <1>1, <1>2, <1>7 DEF Check
<1>8. CASE SendPrompt(t)
  <2>1. screen' \in [Messages -> Texts] /\ failures' \in 0..MaxFailures
      BY <1>8, <1>25 DEF SendPrompt, Texts
  <2>2. warned' \subseteq Messages /\ strays' \subseteq Messages
      BY <1>0, <1>8 DEF SendPrompt
  <2>3. threads' \subseteq Threads
      BY <1>1, <1>8 DEF SendPrompt
  <2> QED
      BY <1>8, <2>1, <2>2, <2>3 DEF SendPrompt
<1>9. CASE AddPing(t)
    BY <1>0, <1>1, <1>9 DEF AddPing
<1>10. CASE Rearm(t)
    BY <1>0, <1>2, <1>10 DEF Rearm, Arm, Jobs, Stages, Pings
<1>11. CASE ExpireTaken(t)
    BY <1>0, <1>1, <1>11 DEF ExpireTaken, Resolve
<1>12. CASE PopTimedOut(t)
  <2> DEFINE x == [t EXCEPT !.at = "timedOut", !.pings = Popped(t.order),
                            !.msg = Card(t.order, record[t.order].card)]
  <2>1. record' \in [Orders -> [card : Users \cup {NoUser}, pings : SUBSET Messages]]
      BY <1>12 DEF PopTimedOut, NoRecord
  <2>2. Popped(t.order) \in SUBSET Messages
      BY <1>0 DEF Popped
  <2>3. record[t.order].card # NoUser => Card(t.order, record[t.order].card) \in Messages
      BY <1>0 DEF Card, Messages
  <2>4. record[t.order].card # NoUser => x \in Threads
      BY <1>0, <2>2, <2>3 DEF Threads
  <2>5. threads' \subseteq Threads
      BY <1>12, <2>4 DEF PopTimedOut
  <2> QED
      BY <1>12, <2>1, <2>5 DEF PopTimedOut
<1>13. CASE RenderTimedOut(t)
    BY <1>1, <1>3, <1>13 DEF RenderTimedOut, Texts
<1>14. CASE DeletePings(t)
  <2>1. screen' \in [Messages -> Texts] /\ failures' \in 0..MaxFailures
      BY <1>14, <1>25 DEF DeletePings, Texts
  <2>4. strays' \subseteq Messages
      BY <1>0, <1>14 DEF DeletePings
  <2>2. [t EXCEPT !.at = "finish", !.pings = {}] \in Threads
      BY <1>0 DEF Threads
  <2>3. threads' \subseteq Threads
      BY <1>2, <1>14, <2>2 DEF DeletePings
  <2> QED
      BY <1>14, <2>1, <2>3, <2>4 DEF DeletePings
<1>15. CASE Review(t)
    BY <1>1, <1>2, <1>15 DEF Review
<1>16. CASE Freeze(t)
    BY <1>0, <1>1, <1>16 DEF Freeze
<1>17. CASE Flag(t)
    BY <1>2, <1>3, <1>17 DEF Flag, Texts
<1>18. CASE Close(t)
    BY <1>0, <1>1, <1>2, <1>18 DEF Close, Resolve
<1>19. CASE Clear(t)
  <2>1. record' \in [Orders -> [card : Users \cup {NoUser}, pings : SUBSET Messages]]
      BY <1>19 DEF Clear, NoRecord
  <2>2. Popped(t.order) \in SUBSET Messages
      BY <1>0 DEF Popped
  <2>3. [t EXCEPT !.at = "wipe", !.pings = Popped(t.order)] \in Threads
      BY <1>0, <2>2 DEF Threads
  <2>4. threads' \subseteq Threads
      BY <1>19, <2>3 DEF Clear
  <2> QED
      BY <1>19, <2>1, <2>4 DEF Clear
<1>20. CASE Finish(t)
    BY <1>2, <1>3, <1>20 DEF Finish, Texts
<1>21. CASE NameOrder(t)
    BY <1>0, <1>1, <1>21 DEF NameOrder
<1>22. CASE PromptReason(t)
  <2>1. misled' \subseteq Users
      BY <1>0, <1>22 DEF PromptReason
  <2> QED
      BY <1>2, <1>3, <1>22, <2>1 DEF PromptReason, Texts
<1>23. CASE LookBack(t)
    BY <1>1, <1>23 DEF LookBack
<1>24. CASE GoBack(t)
    BY <1>2, <1>3, <1>24 DEF GoBack, Texts
<1> QED
    BY <1>4, <1>5, <1>6, <1>7, <1>8, <1>9, <1>10, <1>11, <1>12, <1>13, <1>14, <1>15, <1>16,
        <1>17, <1>18, <1>19, <1>20, <1>21, <1>22, <1>23, <1>24 DEF ThreadStep

LEMMA UserType ==
    ASSUME TypeOK, UserStep
    PROVE  TypeOK'
<1> USE DEF TypeOK, rowVars, chatVars, auxVars, histVars, mishaps, pressVars
<1>1. ASSUME NEW m \in Messages, NEW at \in PressSteps, Begin(Press(at, m))
      PROVE  threads' \subseteq Threads
    BY <1>1, PressTyped DEF Begin
<1>2. ASSUME NEW u \in Users, Hurry(u)
      PROVE  hasty' \subseteq Users
    BY <1>2 DEF Hurry
<1>3. \A m \in Messages : m[2] \in Users
    BY DEF Messages
<1>4. ASSUME NEW o \in Orders, NEW u \in Users, Take(o, u)
      PROVE  TypeOK'
  <2>1. Card(o, u) \in Messages
      BY DEF Card, Messages
  <2> QED
      BY <1>1, <1>4, <2>1 DEF Take, PressSteps
<1>5. ASSUME NEW m \in Messages, PressReady(m)
      PROVE  TypeOK'
    BY <1>1, <1>2, <1>3, <1>5 DEF PressReady, PressSteps
<1>6. ASSUME NEW m \in Messages, PressCancel(m)
      PROVE  TypeOK'
    BY <1>1, <1>2, <1>3, <1>6 DEF PressCancel, PressSteps
<1>7. ASSUME NEW m \in Messages, AbortReason(m)
      PROVE  TypeOK'
    BY <1>1, <1>2, <1>3, <1>7 DEF AbortReason, PressSteps
<1>8. ASSUME NEW m \in Messages, Dismiss(m)
      PROVE  TypeOK'
    BY <1>8 DEF Dismiss, Texts
<1>9. ASSUME NEW u \in Users, SubmitReason(u)
      PROVE  TypeOK'
    BY <1>1, <1>2, <1>9 DEF SubmitReason, PressSteps
<1>10. ASSUME NEW u \in Users, LeaveDialogue(u)
      PROVE  TypeOK'
    BY <1>10 DEF LeaveDialogue
<1> QED
    BY <1>4, <1>5, <1>6, <1>7, <1>8, <1>9, <1>10 DEF UserStep

LEMMA OtherType ==
    ASSUME TypeOK, (\E o \in Orders : JobFires(o) \/ RecordExpires(o)) \/ Restart
    PROVE  TypeOK'
<1> USE DEF TypeOK, rowVars, chatVars, auxVars, histVars, mishaps
<1>1. ASSUME NEW o \in Orders, JobFires(o)
      PROVE  TypeOK'
  <2>1. job[o] \in Jobs
      BY <1>1 DEF JobFires
  <2> DEFINE m == IF job[o].stage = "expiry" THEN Card(o, job[o].user)
                  ELSE <<o, job[o].user, job[o].stage>>
             x == [at |-> "check", order |-> o, user |-> job[o].user, stage |-> job[o].stage,
                   msg |-> m, pings |-> {}]
  <2>2. m \in Messages
      BY <2>1 DEF Jobs, Stages, Messages, Card
  <2>3. x \in Threads
      BY <2>1, <2>2 DEF Threads, RunSteps, Jobs
  <2>4. threads' \subseteq Threads
      BY <1>1, <2>3 DEF JobFires, Begin
  <2> QED
      BY <1>1, <2>4 DEF JobFires
<1>2. ASSUME NEW o \in Orders, RecordExpires(o)
      PROVE  TypeOK'
    BY <1>2 DEF RecordExpires, NoRecord
<1>3. CASE Restart
    BY <1>3 DEF Restart
<1> QED
    BY <1>1, <1>2, <1>3

\* The type invariant.
THEOREM TimeoutsTyped == Spec => []TypeOK
<1>1. TypeOK /\ [Next]_vars => TypeOK'
  <2>1. ASSUME TypeOK, UNCHANGED vars PROVE TypeOK'
      BY <2>1 DEF TypeOK, vars, rowVars, chatVars, auxVars, histVars, mishaps
  <2> QED
      BY <2>1, ThreadType, UserType, OtherType DEF Next
<1> QED
    BY <1>1, InitType, PTL DEF Spec
----------------------------------------------------------------------------
(* What a step never undoes.                                                *)

Settled ==
    /\ \A o \in Orders : status[o] # "offering" =>
        status'[o] # "offering" /\ holder'[o] = holder[o]
    /\ \A o \in Orders : status[o] # "offering" /\ status'[o] = "taken" => status[o] = "taken"
    /\ \A o \in Orders : status[o] \in Closed => status'[o] \in Closed
    /\ warned \subseteq warned' /\ cut \subseteq cut'

LEMMA StepsSettle ==
    ASSUME TypeOK, [Next]_vars
    PROVE  Settled
<1> USE DEF rowVars, chatVars, auxVars, histVars, mishaps, pressVars, Settled
<1>1. ASSUME NEW o \in Orders, NEW u, NEW s \in Closed, Resolve(o, u, s),
             UNCHANGED <<holder, cut>>, warned \subseteq warned'
      PROVE  Settled
    BY <1>1 DEF Resolve, InWork, TypeOK, Closed
<1>2. ASSUME NEW t \in threads, ThreadStep(t) PROVE Settled
  <2>1. t.order \in Orders
      BY DEF TypeOK, Threads
  <2>2. CASE ExpireTaken(t)
      BY <1>1, <2>1, <2>2 DEF ExpireTaken, Closed
  <2>3. CASE Close(t)
    <3>1. UNCHANGED <<holder, warned, cut>>
        BY <2>3 DEF Close
    <3>2. CASE UNCHANGED status
        BY <3>1, <3>2
    <3>3. CASE Resolve(t.order, t.user, "completed") \/ Resolve(t.order, t.user, "cancelled")
        BY <1>1, <2>1, <3>1, <3>3 DEF Closed
    <3> QED
        BY <2>3, <3>2, <3>3 DEF Close
  <2>4. CASE ~ExpireTaken(t) /\ ~Close(t)
      BY <1>2, <2>4 DEF ThreadStep, Render, Schedule, RememberTaken, Check, SendPrompt, AddPing,
          Rearm, PopTimedOut, RenderTimedOut, DeletePings, Review, Freeze, Flag, Clear, Finish,
          NameOrder, PromptReason, LookBack, GoBack
  <2> QED
      BY <2>2, <2>3, <2>4
<1>3. ASSUME NEW o \in Orders, NEW u \in Users, Take(o, u) PROVE Settled
    BY <1>3 DEF Take, TypeOK, Closed
<1>4. CASE UserStep /\ ~\E o \in Orders, u \in Users : Take(o, u)
    BY <1>4 DEF UserStep, PressReady, PressCancel, AbortReason, Dismiss, SubmitReason,
        LeaveDialogue
<1>5. CASE UNCHANGED vars
    BY <1>5 DEF vars
<1>6. CASE (\E o \in Orders : JobFires(o) \/ RecordExpires(o)) \/ Restart
    BY <1>6 DEF JobFires, RecordExpires, Restart
<1> QED
    BY <1>2, <1>3, <1>4, <1>5, <1>6 DEF Next, UserStep
----------------------------------------------------------------------------
(* What threads and jobs go by.                                             *)

Known == ThreadInv /\ JobInv /\ ChatInv /\ RecordsOwn

LEMMA ThreadKept ==
    ASSUME TypeOK, Settled, NEW t \in threads, ThreadOK(t)
    PROVE  ThreadOK(t)'
<1>1. t.order \in Orders
    BY DEF TypeOK, Threads
<1> QED
    BY <1>1 DEF ThreadOK, Settled, InWork

LEMMA ThreadsGrow ==
    ASSUME TypeOK, Settled, ThreadInv, NEW x, threads' \subseteq threads \cup {x},
           x \in threads' => ThreadOK(x)'
    PROVE  ThreadInv'
<1>1. \A t \in threads : ThreadOK(t)'
    BY ThreadKept DEF ThreadInv
<1> QED
    BY <1>1 DEF ThreadInv

LEMMA ThreadsShrink ==
    ASSUME TypeOK, Settled, ThreadInv, threads' \subseteq threads
    PROVE  ThreadInv'
<1>1. \A t \in threads : ThreadOK(t)'
    BY ThreadKept DEF ThreadInv
<1> QED
    BY <1>1 DEF ThreadInv

\* x is t at another point.
Same(t, x) ==
    /\ x.order = t.order /\ x.user = t.user /\ x.stage = t.stage
    /\ x.msg = t.msg /\ x.pings = t.pings

LEMMA GotoKnown ==
    ASSUME TypeOK, Settled, ThreadInv, NEW t \in threads, NEW at, Goto(t, at),
           at \in RunSteps \cup PressSteps \cup {"wipe", "wipeLast"},
           \A x : x.at = at /\ Same(t, x) => ThreadOK(x)'
    PROVE  ThreadInv'
<1> DEFINE x == [t EXCEPT !.at = at]
<1>1. x.at = at /\ Same(t, x) /\ (Goto(t, at) => Moved(t, x))
    BY GotoMoves DEF Same
<1>2. threads' \subseteq threads \cup {x}
    BY <1>1 DEF Moved
<1> HIDE DEF x
<1> QED
    BY <1>1, <1>2, ThreadsGrow

LEMMA StepKnows ==
    ASSUME TypeOK, TypeOK', Settled, Known, NEW t \in threads, ThreadStep(t)
    PROVE  ThreadInv'
<1> USE DEF rowVars, chatVars, auxVars, histVars, mishaps, Known
<1>0. ThreadOK(t) /\ ThreadOK(t)' /\ t.order \in Orders /\ t.user \in Users
      /\ t.msg \in Messages /\ t.stage \in Stages \cup {"none"} /\ t.pings \in SUBSET Messages
    BY ThreadKept DEF ThreadInv, TypeOK, Threads
<1>2. End(t) => ThreadInv'
    BY ThreadsShrink DEF End
<1> USE DEF RunSteps, PressSteps
<1>4. CASE Render(t)
  <2>1. ASSUME NEW x, x.at = "schedule", Same(t, x) PROVE ThreadOK(x)'
      BY <1>0, <1>4, <2>1 DEF Render, ThreadOK, Same, ChainSteps, StartSteps, Over
  <2>2. Goto(t, "schedule") => ThreadInv'
      BY <2>1, GotoKnown
  <2> QED
      BY <1>2, <1>4, <2>2 DEF Render
<1>5. CASE Schedule(t)
    BY <1>0, <1>5, GotoKnown DEF Schedule, ThreadOK, Same, ChainSteps, StartSteps, Over
<1>7. CASE Check(t)
  <2>1. CASE End(t)
      BY <1>2, <2>1
  <2>2. CASE t.stage = "expiry" /\ Goto(t, "expire")
    <3>1. ASSUME NEW x, x.at = "expire", Same(t, x) PROVE ThreadOK(x)'
        BY <1>0, <1>7, <2>2, <3>1 DEF Check, ThreadOK, Same, ChainSteps, StartSteps, Over
    <3> QED
        BY <2>2, <3>1, GotoKnown
  <2>3. CASE t.stage # "expiry" /\ Goto(t, "send")
    <3>1. ASSUME NEW x, x.at = "send", Same(t, x) PROVE ThreadOK(x)'
        BY <1>0, <1>7, <2>3, <3>1 DEF Check, ThreadOK, Same, ChainSteps, StartSteps, Over, Stages,
            Handling, Dialogue
    <3> QED
        BY <2>3, <3>1, GotoKnown
  <2> QED
      BY <1>7, <2>1, <2>2, <2>3 DEF Check
<1>8. CASE SendPrompt(t)
  <2>1. ASSUME NEW x, x.at \in {"note", "arm"}, Same(t, x) PROVE ThreadOK(x)'
      BY <1>0, <1>8, <2>1 DEF SendPrompt, ThreadOK, Same, ChainSteps, StartSteps, Over, Handling,
          Dialogue, Pings
  <2> QED
      BY <1>8, <2>1, GotoKnown DEF SendPrompt
<1>9. CASE AddPing(t)
  <2>1. ASSUME NEW x, x.at = "arm", Same(t, x) PROVE ThreadOK(x)'
      BY <1>0, <1>9, <2>1 DEF AddPing, ThreadOK, Same, ChainSteps, StartSteps, Over, Pings
  <2> QED
      BY <1>9, <2>1, GotoKnown DEF AddPing
<1>11. CASE ExpireTaken(t)
  <2>1. Goto(t, "pop") /\ t.at = "expire"
      BY <1>11 DEF ExpireTaken
  <2>2. status'[t.order] \in Closed
    <3>1. status[t.order] = "taken" => InWork(t.order, t.user)
        BY <1>0, <2>1 DEF ThreadOK, ChainSteps, InWork
    <3>2. CASE Resolve(t.order, t.user, "timed_out")
        BY <1>0, <3>2 DEF Resolve, TypeOK, Closed
    <3>3. CASE ~InWork(t.order, t.user) /\ UNCHANGED status
        BY <1>0, <3>1, <3>3 DEF ThreadOK, TypeOK, Closed
    <3> QED
        BY <1>11, <3>2, <3>3 DEF ExpireTaken
  <2>3. ASSUME NEW x, x.at = "pop", Same(t, x) PROVE ThreadOK(x)'
      BY <1>0, <2>1, <2>2, <2>3 DEF ThreadOK, Same, ChainSteps, StartSteps, Handling, Dialogue
  <2> QED
      BY <2>1, <2>3, GotoKnown
<1>12. CASE PopTimedOut(t)
  <2>1. PICK x :
        /\ threads' \subseteq threads \cup {x}
        /\ x.at = "timedOut" /\ x.order = t.order /\ x.user = t.user /\ x.stage = t.stage
        /\ x.pings = Popped(t.order) /\ x.msg = Card(t.order, record[t.order].card)
        /\ t.at = "pop"
    <3> DEFINE y == [t EXCEPT !.at = "timedOut", !.pings = Popped(t.order),
                              !.msg = Card(t.order, record[t.order].card)]
    <3>1. /\ y.at = "timedOut" /\ y.order = t.order /\ y.user = t.user /\ y.stage = t.stage
          /\ y.pings = Popped(t.order) /\ y.msg = Card(t.order, record[t.order].card)
        BY DEF TypeOK, Threads
    <3>2. threads' \subseteq threads \cup {y} /\ t.at = "pop"
        BY <1>12 DEF PopTimedOut
    <3> HIDE DEF y
    <3> QED
        BY <3>1, <3>2
  <2>2. \A m \in Popped(t.order) : m[3] \in Pings
      BY <1>0 DEF Popped, RecordsOwn
  <2>3. x.msg[1] = t.order
      BY <2>1 DEF Card
  <2>4. ThreadOK(x)'
      BY <1>0, <2>1, <2>2, <2>3 DEF ThreadOK, ChainSteps, StartSteps, Over, Handling, Dialogue
  <2> QED
      BY <2>1, <2>4, ThreadsGrow
<1>13. CASE RenderTimedOut(t)
    BY <1>0, <1>13, GotoKnown DEF RenderTimedOut, ThreadOK, Same, ChainSteps, StartSteps, Over,
        Handling, Dialogue
<1>14. CASE DeletePings(t)
  <2> DEFINE x == [t EXCEPT !.at = "finish", !.pings = {}]
  <2>1. CASE End(t)
      BY <1>2, <2>1
  <2>2. CASE t.at = "wipe" /\ threads' = (threads \ {t}) \cup {x}
    <3>1. x.at = "finish" /\ x.order = t.order /\ x.user = t.user /\ x.stage = t.stage
          /\ x.pings = {} /\ x.msg = t.msg
        BY DEF TypeOK, Threads
    <3> HIDE DEF x
    <3>2. ThreadOK(x)'
        BY <1>0, <2>2, <3>1 DEF ThreadOK, ChainSteps, StartSteps, Over, Handling, Dialogue
    <3> QED
        BY <2>2, <3>2, ThreadsGrow
  <2> QED
      BY <1>14, <2>1, <2>2 DEF DeletePings
<1>15. CASE Review(t)
  <2>1. ASSUME NEW x, x.at \in {"freeze", "flag", "complete"}, Same(t, x) PROVE ThreadOK(x)'
      BY <1>0, <1>15, <2>1 DEF Review, ThreadOK, Same, ChainSteps, StartSteps, Over, Handling, Dialogue
  <2> QED
      BY <1>2, <1>15, <2>1, GotoKnown DEF Review
<1>16. CASE Freeze(t)
    BY <1>0, <1>16, GotoKnown DEF Freeze, ThreadOK, Same, ChainSteps, StartSteps, Over, Handling, Dialogue
<1>18. CASE Close(t)
  <2>1. CASE End(t)
      BY <1>2, <2>1
  <2>2. CASE Goto(t, "clear") /\ Resolve(t.order, t.user, IF t.at = "complete" THEN "completed" ELSE "cancelled")
    <3>1. status'[t.order] \in Closed
        BY <1>0, <2>2 DEF Resolve, TypeOK, Closed
    <3>2. ASSUME NEW x, x.at = "clear", Same(t, x) PROVE ThreadOK(x)'
        BY <1>0, <1>18, <3>1, <3>2 DEF Close, ThreadOK, Same, ChainSteps, StartSteps, Handling, Dialogue
    <3> QED
        BY <2>2, <3>2, GotoKnown
  <2> QED
      BY <1>18, <2>1, <2>2 DEF Close
<1>19. CASE Clear(t)
  <2>1. PICK x :
        /\ threads' \subseteq threads \cup {x}
        /\ x.at = "wipe" /\ x.order = t.order /\ x.user = t.user /\ x.stage = t.stage
        /\ x.pings = Popped(t.order) /\ x.msg = t.msg
        /\ t.at = "clear"
    <3> DEFINE y == [t EXCEPT !.at = "wipe", !.pings = Popped(t.order)]
    <3>1. /\ y.at = "wipe" /\ y.order = t.order /\ y.user = t.user /\ y.stage = t.stage
          /\ y.pings = Popped(t.order) /\ y.msg = t.msg
        BY DEF TypeOK, Threads
    <3>2. threads' \subseteq threads \cup {y} /\ t.at = "clear"
        BY <1>19 DEF Clear
    <3> HIDE DEF y
    <3> QED
        BY <3>1, <3>2
  <2>2. \A m \in Popped(t.order) : m[3] \in Pings
      BY <1>0 DEF Popped, RecordsOwn
  <2>4. ThreadOK(x)'
      BY <1>0, <2>1, <2>2 DEF ThreadOK, ChainSteps, StartSteps, Over, Handling, Dialogue
  <2> QED
      BY <2>1, <2>4, ThreadsGrow
<1>21. CASE NameOrder(t)
    BY <1>0, <1>21, GotoKnown DEF NameOrder, ThreadOK, Same, ChainSteps, StartSteps, Over, Handling, Dialogue
<1>23. CASE LookBack(t)
  <2>1. CASE InWork(t.order, t.user) /\ Goto(t, "back")
    <3>1. ASSUME NEW x, x.at = "back", Same(t, x) PROVE ThreadOK(x)'
        BY <1>0, <1>23, <3>1 DEF LookBack, ThreadOK, Same, ChainSteps, StartSteps, Over, Handling, Dialogue
    <3> QED
        BY <2>1, <3>1, GotoKnown
  <2>2. CASE ~InWork(t.order, t.user) /\ Goto(t, "gone")
    <3>1. ~InWork(t.order, t.user)'
        BY <2>2, <1>23 DEF LookBack, InWork
    <3>2. ASSUME NEW x, x.at = "gone", Same(t, x) PROVE ThreadOK(x)'
        BY <1>0, <1>23, <3>1, <3>2 DEF LookBack, ThreadOK, Same, ChainSteps, StartSteps, Over, Handling, Dialogue
    <3> QED
        BY <2>2, <3>2, GotoKnown
  <2> QED
      BY <1>23, <2>1, <2>2 DEF LookBack
<1>24. CASE RememberTaken(t) \/ Rearm(t) \/ Flag(t) \/ Finish(t) \/ PromptReason(t) \/ GoBack(t)
    BY <1>2, <1>24 DEF RememberTaken, Rearm, Flag, Finish, PromptReason, GoBack
<1> QED
    BY <1>4, <1>5, <1>7, <1>8, <1>9, <1>11, <1>12, <1>13, <1>14, <1>15, <1>16,
        <1>18, <1>19, <1>21, <1>23, <1>24 DEF ThreadStep

\* A press starts on an order that was taken.
LEMMA PressKnown ==
    ASSUME TypeOK, Settled, ThreadInv, NEW m \in Messages, NEW at, Begin(Press(at, m)),
           at \in {"review", "data", "look", "cancel"}, status[m[1]] # "offering"
    PROVE  ThreadInv'
<1> DEFINE x == Press(at, m)
<1>1. /\ x.at = at /\ x.order = m[1] /\ x.user = m[2]
      /\ x.stage = "none" /\ x.msg = m /\ x.pings = {}
    BY DEF Press
<1>2. threads' \subseteq threads \cup {x}
    BY DEF Begin
<1>3. status'[m[1]] # "offering"
    BY DEF Settled, Messages
<1> HIDE DEF x
<1>4. ThreadOK(x)'
    BY <1>1, <1>3 DEF ThreadOK, ChainSteps, StartSteps, Over, Handling, Dialogue
<1> QED
    BY <1>2, <1>4, ThreadsGrow

LEMMA UserKnows ==
    ASSUME TypeOK, TypeOK', Settled, Known, UserStep
    PROVE  ThreadInv'
<1> USE DEF rowVars, chatVars, auxVars, histVars, mishaps, pressVars, Known
<1>1. ASSUME NEW o \in Orders, NEW u \in Users, Take(o, u)
      PROVE  ThreadInv'
  <2> DEFINE x == Press("render", Card(o, u))
  <2>1. /\ x.at = "render" /\ x.order = o /\ x.user = u /\ x.stage = "none"
        /\ x.msg = Card(o, u) /\ x.pings = {}
      BY DEF Press, Card
  <2>2. threads' \subseteq threads \cup {x} /\ status'[o] = "taken" /\ holder'[o] = u
      BY <1>1 DEF Take, Begin, TypeOK
  <2>3. x.msg[1] = o /\ x.msg[2] = u /\ x.msg[3] = "card"
      BY <2>1 DEF Card
  <2> HIDE DEF x
  <2>4. ThreadOK(x)'
      BY <2>1, <2>2, <2>3 DEF ThreadOK, ChainSteps, StartSteps, Over
  <2> QED
      BY <2>2, <2>4, ThreadsGrow
<1>2. ASSUME NEW m \in Messages, screen[m] \in {"work", "ask", "reason"}
      PROVE  status[m[1]] # "offering"
    BY <1>2 DEF ChatInv, MessageOK
<1>3. ASSUME NEW m \in Messages, PressReady(m) \/ PressCancel(m) \/ AbortReason(m) \/ Dismiss(m)
      PROVE  ThreadInv'
    BY <1>2, <1>3, PressKnown, ThreadsShrink DEF PressReady, PressCancel, AbortReason, Dismiss, MayPress
<1>4. ASSUME NEW u \in Users, SubmitReason(u)
      PROVE  ThreadInv'
  <2>1. PICK m \in data[u] : Begin(Press("cancel", m))
      BY <1>4 DEF SubmitReason
  <2>2. m \in Messages /\ status[m[1]] # "offering"
      BY DEF ChatInv, DataOK, TypeOK
  <2> QED
      BY <2>1, <2>2, PressKnown
<1>5. ASSUME NEW u \in Users, LeaveDialogue(u)
      PROVE  ThreadInv'
    BY <1>5, ThreadsShrink DEF LeaveDialogue
<1> QED
    BY <1>1, <1>3, <1>4, <1>5 DEF UserStep

LEMMA OthersKnow ==
    ASSUME TypeOK, TypeOK', Settled, Known,
           (\E o \in Orders : JobFires(o) \/ RecordExpires(o)) \/ Restart \/ UNCHANGED vars
    PROVE  ThreadInv'
<1> USE DEF rowVars, chatVars, auxVars, histVars, mishaps, Known
<1>1. ASSUME NEW o \in Orders, JobFires(o)
      PROVE  ThreadInv'
  <2> DEFINE m == IF job[o].stage = "expiry" THEN Card(o, job[o].user)
                  ELSE <<o, job[o].user, job[o].stage>>
  <2>1. PICK x :
        /\ x.at = "check" /\ x.order = o /\ x.user = job[o].user /\ x.stage = job[o].stage
        /\ x.msg = m /\ x.pings = {} /\ threads' = threads \cup {x}
    <3> DEFINE y == [at |-> "check", order |-> o, user |-> job[o].user, stage |-> job[o].stage,
                     msg |-> m, pings |-> {}]
    <3>1. threads' = threads \cup {y}
        BY <1>1 DEF JobFires, Begin
    <3> HIDE DEF m
    <3>2. /\ y.at = "check" /\ y.order = o /\ y.user = job[o].user /\ y.stage = job[o].stage
          /\ y.msg = m /\ y.pings = {}
        OBVIOUS
    <3> HIDE DEF y
    <3> QED
        BY <3>1, <3>2
  <2>2. job[o] \in Jobs /\ job[o] # NoJob /\ UNCHANGED <<status, holder, warned>>
      BY <1>1 DEF JobFires, TypeOK
  <2>3. x.stage \in Stages
      BY <2>1, <2>2 DEF Jobs
  <2>4. m[1] = o
      BY DEF Card
  <2>5. x.stage # "expiry" => x.msg = <<x.order, x.user, x.stage>>
      BY <2>1
  <2>6. /\ status[o] # "offering" /\ x.user = holder[o]
        /\ \A p \in Before(x.stage) : <<o, x.user, p>> \in warned
      BY <2>1, <2>2 DEF JobInv, JobOK
  <2> HIDE DEF m
  <2>7. ThreadOK(x)'
      BY <2>1, <2>2, <2>3, <2>4, <2>5, <2>6
      DEF ThreadOK, ChainSteps, StartSteps, Over, RunSteps, Stages, Pings
  <2> QED
      BY <2>1, <2>7, ThreadsGrow
<1>2. CASE (\E o \in Orders : RecordExpires(o)) \/ Restart \/ UNCHANGED vars
  <2>1. threads' \subseteq threads
      BY <1>2 DEF RecordExpires, Restart, vars
  <2> QED
      BY <2>1, ThreadsShrink
<1> QED
    BY <1>1, <1>2

\* Jobs: those a step leaves in the store stay true.
LEMMA JobKept ==
    ASSUME TypeOK, Settled, NEW o \in Orders, JobOK(o), job'[o] = job[o] \/ job'[o] = NoJob
    PROVE  JobOK(o)'
    BY DEF JobOK, Settled, TypeOK

LEMMA JobsKnow ==
    ASSUME TypeOK, Settled, Known, [Next]_vars
    PROVE  JobInv'
<1> USE DEF rowVars, chatVars, auxVars, histVars, mishaps, pressVars, Known
<1>1. ASSUME NEW t \in threads, NEW s \in Stages, Arm(t.order, t.user, s),
             t.at \in ChainSteps, UNCHANGED <<status, holder, warned>>,
             \A p \in Before(s) : <<t.order, t.user, p>> \in warned
      PROVE  JobInv'
  <2>1. ThreadOK(t) /\ t.order \in Orders /\ t.user \in Users
      BY DEF ThreadInv, TypeOK, Threads
  <2>2. job'[t.order] = [stage |-> s, user |-> t.user]
      BY <1>1, <2>1 DEF Arm, TypeOK
  <2>3. \A o \in Orders \ {t.order} : job'[o] = job[o]
      BY <1>1, <2>1 DEF Arm, TypeOK
  <2>4. JobOK(t.order)'
      BY <1>1, <2>1, <2>2 DEF JobOK, ThreadOK
  <2> QED
      BY <2>3, <2>4, JobKept DEF JobInv
<1>2. ASSUME NEW t \in threads, Schedule(t)
      PROVE  JobInv'
  <2>1. Before("checkIn") = {}
      BY DEF Before
  <2> QED
      BY <1>1, <1>2, <2>1 DEF Schedule, ChainSteps, Stages, Pings
<1>3. ASSUME NEW t \in threads, Rearm(t)
      PROVE  JobInv'
  <2> DEFINE s == IF t.stage = "checkIn" THEN "lastCall" ELSE "expiry"
  <2>1. ThreadOK(t) /\ t.at = "arm" /\ Arm(t.order, t.user, s) /\ UNCHANGED <<status, holder, warned>>
      BY <1>3 DEF ThreadInv, Rearm
  <2>2. /\ t.stage \in Pings /\ <<t.order, t.user, t.stage>> \in warned
        /\ \A p \in Before(t.stage) : <<t.order, t.user, p>> \in warned
      BY <2>1 DEF ThreadOK, ChainSteps, Pings
  <2>3. \A p \in Before(s) : p = t.stage \/ p \in Before(t.stage)
      BY <2>2 DEF Before, Pings
  <2>4. s \in Stages
      BY DEF Stages, Pings
  <2> HIDE DEF s
  <2> QED
      BY <1>1, <2>1, <2>2, <2>3, <2>4 DEF ChainSteps
<1>4. CASE \A o \in Orders : job'[o] = job[o] \/ job'[o] = NoJob
    BY <1>4, JobKept DEF JobInv
<1>5. ASSUME NEW o \in Orders, JobFires(o)
      PROVE  \A p \in Orders : job'[p] = job[p] \/ job'[p] = NoJob
    BY <1>5 DEF JobFires, TypeOK
<1>6. ASSUME NEW t \in threads, ThreadStep(t), ~Schedule(t), ~Rearm(t)
      PROVE  \A p \in Orders : job'[p] = job[p] \/ job'[p] = NoJob
    BY <1>6 DEF ThreadStep, Render, RememberTaken, Check, SendPrompt, AddPing,
          ExpireTaken, PopTimedOut, RenderTimedOut, DeletePings, Review, Freeze, Flag, Close, Clear, Finish,
          NameOrder, PromptReason, LookBack, GoBack, TypeOK
<1>7. ASSUME UserStep \/ (\E o \in Orders : RecordExpires(o)) \/ Restart \/ UNCHANGED vars
      PROVE  job' = job
    BY <1>7 DEF UserStep, Take, PressReady, PressCancel, AbortReason, Dismiss, SubmitReason,
        LeaveDialogue, RecordExpires, Restart, vars
<1> QED
    BY <1>2, <1>3, <1>4, <1>5, <1>6, <1>7 DEF Next

\* The chat: a message that changes changes for a reason.
LEMMA MessageKept ==
    ASSUME Settled, NEW m \in Messages, MessageOK(m), screen'[m] = screen[m]
    PROVE  MessageOK(m)'
<1>1. m[1] \in Orders
    BY DEF Messages
<1> QED
    BY <1>1 DEF MessageOK, Settled

LEMMA EditKnown ==
    ASSUME TypeOK, Settled, Known, NEW t \in threads, NEW text \in Texts \ {"none", "ask", "offer"},
           Edited(t.msg, text), text = "timedOut" => status[t.order] \in Closed
    PROVE  \A m \in Messages : MessageOK(m)'
<1>1. ThreadOK(t) /\ t.msg \in Messages /\ t.order \in Orders
    BY DEF Known, ThreadInv, TypeOK, Threads
<1>2. \A m \in Messages : MessageOK(m)
    BY DEF Known, ChatInv
<1>3. screen'[t.msg] = text /\ \A m \in Messages \ {t.msg} : screen'[m] = screen[m]
    BY <1>1 DEF Edited, TypeOK
<1>4. MessageOK(t.msg)'
    BY <1>1, <1>3 DEF MessageOK, ThreadOK, Settled, Edited
<1> QED
    BY <1>2, <1>3, <1>4, MessageKept

LEMMA ScreensKnow ==
    ASSUME TypeOK, Settled, Known, [Next]_vars
    PROVE  \A m \in Messages : MessageOK(m)'
<1> USE DEF rowVars, chatVars, auxVars, histVars, mishaps, pressVars
<1>0. \A m \in Messages : MessageOK(m)
    BY DEF Known, ChatInv
<1>1. CASE UNCHANGED screen
    BY <1>0, <1>1, MessageKept
<1>2. ASSUME NEW t \in threads, Render(t) \/ Flag(t) \/ Finish(t) \/ PromptReason(t) \/ GoBack(t)
      PROVE  \A m \in Messages : MessageOK(m)'
  <2>1. PICK text \in Texts \ {"none", "ask", "offer", "timedOut"} :
            Edited(t.msg, text) \/ UNCHANGED screen
      BY <1>2 DEF Render, Flag, Finish, PromptReason, GoBack, Edit, Texts
  <2> QED
      BY <1>1, <2>1, EditKnown
<1>3. ASSUME NEW t \in threads, RenderTimedOut(t)
      PROVE  \A m \in Messages : MessageOK(m)'
  <2>1. status[t.order] \in Closed
      BY <1>3 DEF RenderTimedOut, Known, ThreadInv, ThreadOK, Over
  <2> QED
      BY <1>1, <1>3, <2>1, EditKnown DEF RenderTimedOut, Edit, Texts
<1>4. ASSUME NEW m \in Messages, m[3] \in Pings, NEW text \in {"ask", "none"}, status[m[1]] # "offering",
             screen' = [screen EXCEPT ![m] = text]
      PROVE  \A x \in Messages : MessageOK(x)'
  <2>1. screen'[m] = text /\ \A x \in Messages \ {m} : screen'[x] = screen[x]
      BY <1>4 DEF TypeOK
  <2>2. MessageOK(m)'
      BY <1>4, <2>1 DEF MessageOK, Settled, Messages, Pings
  <2> QED
      BY <1>0, <2>1, <2>2, MessageKept
<1>5. ASSUME NEW t \in threads, SendPrompt(t), screen' = [screen EXCEPT ![t.msg] = "ask"]
      PROVE  \A m \in Messages : MessageOK(m)'
  <2>1. ThreadOK(t) /\ t.msg \in Messages /\ t.at = "send"
      BY <1>5 DEF SendPrompt, Known, ThreadInv, TypeOK, Threads
  <2>2. t.msg[3] \in Pings /\ status[t.msg[1]] # "offering"
      BY <2>1 DEF ThreadOK
  <2> QED
      BY <1>4, <1>5, <2>1, <2>2
<1>6. ASSUME NEW m \in Messages, Dismiss(m)
      PROVE  \A x \in Messages : MessageOK(x)'
  <2>1. m[3] \in Pings /\ status[m[1]] # "offering"
      BY <1>0, <1>6 DEF Dismiss, MessageOK, Messages
  <2> QED
      BY <1>4, <1>6, <2>1 DEF Dismiss
<1>7. ASSUME NEW t \in threads, DeletePings(t)
      PROVE  \A m \in Messages : MessageOK(m)'
  <2>1. \A m \in t.pings : m[3] \in Pings
      BY DEF Known, ThreadInv, ThreadOK
  <2>2. ASSUME NEW m \in Messages, m \in t.pings PROVE MessageOK(m)'
    <3>1. screen'[m] = "none" \/ screen'[m] = screen[m]
        BY <1>7, <2>2 DEF DeletePings
    <3>2. screen'[m] = "none" => MessageOK(m)'
        BY <2>1, <2>2 DEF MessageOK, Pings
    <3> QED
        BY <1>0, <3>1, <3>2, MessageKept
  <2>3. ASSUME NEW m \in Messages, m \notin t.pings PROVE MessageOK(m)'
      BY <1>0, <1>7, <2>3, MessageKept DEF DeletePings
  <2> QED
      BY <2>2, <2>3
<1>8. ASSUME NEW t \in threads, ThreadStep(t)
      PROVE  \A m \in Messages : MessageOK(m)'
  <2>1. CASE UNCHANGED screen
      BY <1>1, <2>1
  <2>2. CASE screen' # screen
      BY <1>2, <1>3, <1>5, <1>7, <1>8, <2>2 DEF ThreadStep, Schedule, RememberTaken, Check, SendPrompt, AddPing,
          Rearm, ExpireTaken, PopTimedOut, Review, Freeze, Close, Clear, NameOrder, LookBack
  <2> QED
      BY <2>1, <2>2
<1>9. ASSUME NEW o \in Orders, JobFires(o) \/ RecordExpires(o)
      PROVE  UNCHANGED screen
    BY <1>9 DEF JobFires, RecordExpires
<1>10. ASSUME UserStep, ~\E m \in Messages : Dismiss(m)
      PROVE  UNCHANGED screen
    BY <1>10 DEF UserStep, Take, PressReady, PressCancel, AbortReason, SubmitReason, LeaveDialogue
<1>11. CASE Restart \/ UNCHANGED vars
    BY <1>1, <1>11 DEF Restart, vars
<1> QED
    BY <1>1, <1>6, <1>8, <1>9, <1>10, <1>11 DEF Next

LEMMA DataKnows ==
    ASSUME TypeOK, Settled, Known, [Next]_vars
    PROVE  \A u \in Users : DataOK(u)'
<1> USE DEF rowVars, chatVars, auxVars, histVars, mishaps, pressVars
<1>1. ASSUME NEW u \in Users, data'[u] = data[u] PROVE DataOK(u)'
    BY <1>1 DEF DataOK, Known, ChatInv, Settled, TypeOK, Messages
<1>2. ASSUME NEW t \in threads, NameOrder(t)
      PROVE  \A u \in Users : DataOK(u)'
  <2>1. ThreadOK(t) /\ t.order \in Orders /\ t.user \in Users
      BY DEF Known, ThreadInv, TypeOK, Threads
  <2>2. data'[t.user] = {t.msg} /\ \A u \in Users \ {t.user} : data'[u] = data[u]
      BY <1>2, <2>1 DEF NameOrder, TypeOK
  <2>3. t.msg[2] = t.user /\ t.msg[1] = t.order
    <3>1. t.stage = "none"
        BY <1>2, <2>1 DEF NameOrder, ThreadOK, RunSteps
    <3> QED
        BY <2>1, <3>1 DEF ThreadOK
  <2>4. DataOK(t.user)'
      BY <2>1, <2>2, <2>3 DEF DataOK, ThreadOK, Settled
  <2> QED
      BY <1>1, <2>2, <2>4
<1>3. ASSUME NEW t \in threads, ThreadStep(t), ~NameOrder(t)
      PROVE  UNCHANGED data
    BY <1>3 DEF ThreadStep, Render, Schedule, RememberTaken, Check, SendPrompt, AddPing,
          Rearm, ExpireTaken, PopTimedOut, RenderTimedOut, DeletePings, Review, Freeze, Flag, Close, Clear, Finish,
          PromptReason, LookBack, GoBack
<1>4. ASSUME UserStep \/ (\E o \in Orders : JobFires(o) \/ RecordExpires(o)) \/ Restart \/ UNCHANGED vars
      PROVE  UNCHANGED data
    BY <1>4 DEF UserStep, Take, PressReady, PressCancel, AbortReason, Dismiss, SubmitReason,
        LeaveDialogue, JobFires, RecordExpires, Restart, vars
<1> QED
    BY <1>1, <1>2, <1>3, <1>4 DEF Next

LEMMA RecordsKnow ==
    ASSUME TypeOK, Settled, Known, [Next]_vars
    PROVE  RecordsOwn'
<1> USE DEF rowVars, chatVars, auxVars, histVars, mishaps, pressVars, RecordsOwn, Known
<1>1. CASE UNCHANGED record
    BY <1>1 DEF Settled
<1>2. ASSUME NEW o \in Orders, record' = [record EXCEPT ![o] = NoRecord]
      PROVE  RecordsOwn'
    BY <1>2 DEF Settled, TypeOK, NoRecord
<1>3. ASSUME NEW t \in threads, RememberTaken(t)
      PROVE  RecordsOwn'
  <2>1. t.order \in Orders /\ status[t.order] # "offering"
      BY DEF ThreadInv, ThreadOK, TypeOK, Threads
  <2> QED
      BY <1>3, <2>1 DEF RememberTaken, Settled, TypeOK
<1>4. ASSUME NEW t \in threads, AddPing(t)
      PROVE  RecordsOwn'
  <2>1. t.order \in Orders /\ status[t.order] # "offering" /\ t.msg[1] = t.order /\ t.msg[3] \in Pings
      BY <1>4 DEF AddPing, ThreadInv, ThreadOK, TypeOK, Threads
  <2> QED
      BY <1>4, <2>1 DEF AddPing, Settled, TypeOK
<1>5. ASSUME NEW t \in threads, PopTimedOut(t) \/ Clear(t)
      PROVE  RecordsOwn'
    BY <1>2, <1>5 DEF PopTimedOut, Clear, TypeOK, Threads
<1>6. ASSUME NEW t \in threads, ThreadStep(t), ~RememberTaken(t), ~AddPing(t), ~PopTimedOut(t), ~Clear(t)
      PROVE  UNCHANGED record
    BY <1>6 DEF ThreadStep, Render, Schedule, Check, SendPrompt,
          Rearm, ExpireTaken, RenderTimedOut, DeletePings, Review, Freeze, Flag, Close, Finish,
          NameOrder, PromptReason, LookBack, GoBack
<1>7. ASSUME UserStep \/ (\E o \in Orders : JobFires(o)) \/ Restart \/ UNCHANGED vars
      PROVE  UNCHANGED record
    BY <1>7 DEF UserStep, Take, PressReady, PressCancel, AbortReason, Dismiss, SubmitReason,
        LeaveDialogue, JobFires, Restart, vars
<1>8. ASSUME NEW o \in Orders, RecordExpires(o)
      PROVE  RecordsOwn'
    BY <1>2, <1>8 DEF RecordExpires
<1> QED
    BY <1>1, <1>3, <1>4, <1>5, <1>6, <1>7, <1>8 DEF Next

LEMMA KnownInductive ==
    ASSUME TypeOK, TypeOK', Known, [Next]_vars
    PROVE  Settled /\ Known'
<1>1. Settled
    BY StepsSettle
<1>2. ThreadInv'
    BY <1>1, StepKnows, UserKnows, OthersKnow DEF Next
<1> QED
    BY <1>1, <1>2, JobsKnow, ScreensKnow, DataKnows, RecordsKnow DEF Known, ChatInv

LEMMA AlwaysKnown == Spec => []Known
<1>1. Init => Known
    BY DEF Init, Known, ThreadInv, JobInv, JobOK, ChatInv, MessageOK, DataOK, RecordsOwn, NoRecord, NoJob,
        Messages
<1>2. TypeOK /\ TypeOK' /\ Known /\ [Next]_vars => Known'
    BY KnownInductive
<1> QED
    BY <1>1, <1>2, TimeoutsTyped, PTL DEF Spec

\* A card says "timed out" only once the order is no longer its user's.
THEOREM TimeoutsTrue == Spec => []NoFalseTimeout
<1>1. Known => NoFalseTimeout
    BY DEF Known, ChatInv, MessageOK, NoFalseTimeout, InWork, Closed, Card, Messages
<1> QED
    BY <1>1, AlwaysKnown, PTL

\* Nobody loses an order to the clock unasked, bot restarts included.
THEOREM NobodyTimedOutUnasked == Spec => WarnedFirst
<1>1. TypeOK /\ Known /\ [Next]_vars =>
        [\A o \in Orders : status'[o] = "timed_out" /\ status[o] # "timed_out" =>
            \A p \in Pings : <<o, holder[o], p>> \in warned]_vars
  <2> SUFFICES ASSUME TypeOK, Known, [Next]_vars, NEW o \in Orders,
                      status'[o] = "timed_out", status[o] # "timed_out", NEW p \in Pings
               PROVE  <<o, holder[o], p>> \in warned
      OBVIOUS
  <2> USE DEF rowVars, chatVars, auxVars, histVars, mishaps, pressVars
  <2>1. ASSUME NEW t \in threads, ExpireTaken(t)
        PROVE  <<o, holder[o], p>> \in warned
    <3>1. ThreadOK(t) /\ t.at = "expire" /\ t.order \in Orders
        BY <2>1 DEF ExpireTaken, Known, ThreadInv, TypeOK, Threads
    <3>2. t.order = o /\ holder[o] = t.user
        BY <2>1, <3>1 DEF ExpireTaken, Resolve, InWork, TypeOK
    <3>3. p \in Before(t.stage) /\ t.stage # "none"
        BY <3>1 DEF ThreadOK, Before
    <3> QED
        BY <3>1, <3>2, <3>3 DEF ThreadOK, ChainSteps
  <2>2. ASSUME NEW t \in threads, ThreadStep(t), ~ExpireTaken(t)
        PROVE  FALSE
    <3>1. UNCHANGED status \/ Close(t)
        BY <2>2 DEF ThreadStep, Render, Schedule, RememberTaken, Check, SendPrompt, AddPing,
          Rearm, PopTimedOut, RenderTimedOut, DeletePings, Review, Freeze, Flag, Clear, Finish,
          NameOrder, PromptReason, LookBack, GoBack
    <3>2. t.order \in Orders
        BY DEF TypeOK, Threads
    <3> QED
        BY <3>1, <3>2 DEF Close, Resolve, TypeOK
  <2>3. ASSUME UserStep PROVE FALSE
      BY <2>3 DEF UserStep, Take, PressReady, PressCancel, AbortReason, Dismiss, SubmitReason,
        LeaveDialogue, TypeOK
  <2>4. ASSUME (\E q \in Orders : JobFires(q) \/ RecordExpires(q)) \/ Restart \/ UNCHANGED vars
        PROVE  FALSE
      BY <2>4 DEF JobFires, RecordExpires, Restart, vars
  <2> QED
      BY <2>1, <2>2, <2>3, <2>4 DEF Next
<1> QED
    BY <1>1, TimeoutsTyped, AlwaysKnown, PTL DEF Spec, WarnedFirst
----------------------------------------------------------------------------
(* The chain.                                                               *)

\* No order goes into work.
Untaken == \A o \in Orders : status'[o] = "taken" => status[o] = "taken"

\* An order nobody moves on.
LEMMA ChainKept ==
    ASSUME NEW o \in Orders, ChainOK(o), Untaken,
           job'[o] = job[o] \/ (job'[o] = NoJob /\ status'[o] # "taken"),
           restarted => restarted', restarted \in BOOLEAN, o \in cut => o \in cut',
           \A t : (t \in threads' /\ t.order = o /\ t.at \in ChainSteps) <=> InChain(t, o)
    PROVE  ChainOK(o)'
<1>1. \A t : InChain(t, o)' <=> InChain(t, o)
    BY DEF InChain
<1>2. \A t, x \in threads' : InChain(t, o)' /\ InChain(x, o)' => t = x
    BY <1>1 DEF ChainOK, InChain
<1>3. job'[o] # NoJob => \A t \in threads' : ~InChain(t, o)'
    BY <1>1 DEF ChainOK, InChain
<1>4. status'[o] = "taken" /\ ~restarted' /\ o \notin cut' => job'[o] # NoJob \/ \E t \in threads' : InChain(t, o)'
    BY <1>1 DEF ChainOK, InChain, Untaken
<1> QED
    BY <1>2, <1>3, <1>4 DEF ChainOK

\* A thread moves: N holds what becomes of it. Only a thread of the chain goes on in it,
\* and the chain ends with a job or an order that is not in work.
LEMMA ThreadChain ==
    ASSUME TypeOK, Known, ChainInv, Untaken, NEW t \in threads, NEW N,
           threads' = (threads \ {t}) \cup N,
           \A x, y \in N : x = y, \A x \in N : x.order = t.order,
           UNCHANGED restarted, cut \subseteq cut', \A o \in Orders \ {t.order} : job'[o] = job[o],
           (\E x \in N : x.at \in ChainSteps) => t.at \in ChainSteps /\ job'[t.order] = job[t.order],
           t.at \in ChainSteps /\ (\A x \in N : x.at \notin ChainSteps) =>
                \/ job'[t.order] # NoJob
                \/ (status'[t.order] # "taken" \/ t.order \in cut') /\ job'[t.order] = job[t.order],
           t.at \notin ChainSteps =>
                job'[t.order] = job[t.order] \/ (job'[t.order] = NoJob /\ status'[t.order] # "taken")
    PROVE  ChainInv'
<1>1. t.order \in Orders /\ ChainOK(t.order) /\ restarted \in BOOLEAN
    BY DEF ChainInv, TypeOK, Threads
<1>2. ASSUME NEW o \in Orders, o # t.order PROVE ChainOK(o)'
  <2>1. \A x : (x \in threads' /\ x.order = o /\ x.at \in ChainSteps) <=> InChain(x, o)
      BY <1>2 DEF InChain
  <2> QED
      BY <1>1, <1>2, <2>1, ChainKept DEF ChainInv
<1>3. CASE t.at \in ChainSteps
  <2>1. \A x \in threads \ {t} : x.order = t.order => x.at \notin ChainSteps
      BY <1>1, <1>3 DEF ChainOK, InChain
  <2>2. job[t.order] = NoJob
      BY <1>1, <1>3 DEF ChainOK, InChain
  <2>3. \A x \in threads' : InChain(x, t.order)' => x \in N /\ x.at \in ChainSteps
      BY <2>1 DEF InChain
  <2>6. ChainOK(t.order)'
    <3>1. CASE \E x \in N : x.at \in ChainSteps
      <4>1. PICK x \in N : x.at \in ChainSteps
          BY <3>1
      <4>2. InChain(x, t.order)' /\ x \in threads'
          BY <4>1 DEF InChain
      <4>3. job'[t.order] = NoJob
          BY <2>2, <3>1
      <4>4. \A y, z \in threads' : InChain(y, t.order)' /\ InChain(z, t.order)' => y = z
          BY <2>3
      <4> QED
          BY <4>2, <4>3, <4>4 DEF ChainOK
    <3>2. CASE \A x \in N : x.at \notin ChainSteps
      <4>1. \A x \in threads' : ~InChain(x, t.order)'
          BY <2>3, <3>2
      <4>2. job'[t.order] # NoJob \/ status'[t.order] # "taken" \/ t.order \in cut'
          BY <1>3, <3>2
      <4> QED
          BY <4>1, <4>2 DEF ChainOK
    <3> QED
        BY <3>1, <3>2
  <2> QED
      BY <1>2, <2>6 DEF ChainInv
<1>4. CASE t.at \notin ChainSteps
  <2>1. \A x : (x \in threads' /\ x.order = t.order /\ x.at \in ChainSteps) <=> InChain(x, t.order)
      BY <1>4 DEF InChain
  <2>2. ChainOK(t.order)'
      BY <1>1, <1>4, <2>1, ChainKept
  <2> QED
      BY <1>2, <2>2 DEF ChainInv
<1> QED
    BY <1>3, <1>4

LEMMA EndChain ==
    ASSUME TypeOK, Known, ChainInv, Untaken, NEW t \in threads, End(t), UNCHANGED restarted,
           cut \subseteq cut',
           \A o \in Orders \ {t.order} : job'[o] = job[o],
           \/ t.at \notin ChainSteps /\ job'[t.order] = job[t.order]
           \/ t.at \in ChainSteps /\ job'[t.order] # NoJob
           \/ /\ t.at \in ChainSteps /\ job'[t.order] = job[t.order]
              /\ status'[t.order] # "taken" \/ t.order \in cut'
    PROVE  ChainInv'
<1> DEFINE N == {}
<1>1. threads' = (threads \ {t}) \cup N
    BY DEF End
<1>2. \A x \in N : FALSE
    OBVIOUS
<1> HIDE DEF N
<1>3. (\A x, y \in N : x = y) /\ \A x \in N : x.order = t.order
    BY <1>2
<1>4. (\E x \in N : x.at \in ChainSteps) => t.at \in ChainSteps /\ job'[t.order] = job[t.order]
    BY <1>2
<1> QED
    BY <1>1, <1>3, <1>4, ThreadChain

\* What becomes of t is x.
LEMMA BecomesChain ==
    ASSUME TypeOK, Known, ChainInv, Untaken, NEW t \in threads, UNCHANGED <<restarted, cut>>,
           NEW x, Moved(t, x), x.order = t.order,
           \A o \in Orders \ {t.order} : job'[o] = job[o],
           \/ job'[t.order] = job[t.order] /\ (t.at \in ChainSteps <=> x.at \in ChainSteps)
           \/ t.at \notin ChainSteps /\ x.at \notin ChainSteps
                /\ job'[t.order] = NoJob /\ status'[t.order] # "taken"
           \/ t.at \in ChainSteps /\ x.at \notin ChainSteps /\ job'[t.order] # NoJob
           \/ t.at \in ChainSteps /\ x.at \notin ChainSteps
                /\ job'[t.order] = job[t.order] /\ status'[t.order] # "taken"
    PROVE  ChainInv'
<1> DEFINE N == {x}
<1>1. threads' = (threads \ {t}) \cup N
    BY DEF Moved
<1>2. \A y : y \in N <=> y = x
    OBVIOUS
<1> HIDE DEF N
<1>3. (\A y, z \in N : y = z) /\ \A y \in N : y.order = t.order
    BY <1>2
<1>4. (\E y \in N : y.at \in ChainSteps) <=> x.at \in ChainSteps
    BY <1>2
<1>5. (\A y \in N : y.at \notin ChainSteps) <=> x.at \notin ChainSteps
    BY <1>2
<1>6. (\E y \in N : y.at \in ChainSteps) => t.at \in ChainSteps /\ job'[t.order] = job[t.order]
    BY <1>4
<1>7. t.at \in ChainSteps /\ (\A y \in N : y.at \notin ChainSteps) =>
        job'[t.order] # NoJob \/ (status'[t.order] # "taken" /\ job'[t.order] = job[t.order])
    BY <1>5
<1>8. t.at \notin ChainSteps =>
        job'[t.order] = job[t.order] \/ (job'[t.order] = NoJob /\ status'[t.order] # "taken")
    OBVIOUS
<1> QED
    BY <1>1, <1>3, <1>6, <1>7, <1>8, ThreadChain

LEMMA GotoChain ==
    ASSUME TypeOK, Known, ChainInv, Untaken, NEW t \in threads, UNCHANGED <<restarted, cut>>,
           NEW at, Goto(t, at), at \in RunSteps \cup PressSteps \cup {"wipe", "wipeLast"},
           \A o \in Orders \ {t.order} : job'[o] = job[o],
           \/ job'[t.order] = job[t.order] /\ (t.at \in ChainSteps <=> at \in ChainSteps)
           \/ t.at \in ChainSteps /\ at \notin ChainSteps /\ job'[t.order] # NoJob
           \/ t.at \in ChainSteps /\ at \notin ChainSteps
                /\ job'[t.order] = job[t.order] /\ status'[t.order] # "taken"
    PROVE  ChainInv'
<1> DEFINE x == [t EXCEPT !.at = at]
<1>1. x.at = at /\ x.order = t.order /\ (Goto(t, at) => Moved(t, x))
    BY GotoMoves
<1> HIDE DEF x
<1> QED
    BY <1>1, BecomesChain

LEMMA StepChains ==
    ASSUME TypeOK, Settled, Known, Known', ChainInv, NEW t \in threads, ThreadStep(t)
    PROVE  ChainInv'
<1> USE DEF rowVars, chatVars, auxVars, histVars, mishaps, RunSteps, PressSteps, ChainSteps
<1>0. ThreadOK(t) /\ t.order \in Orders /\ t.user \in Users /\ t.stage \in Stages \cup {"none"}
    BY DEF Known, ThreadInv, TypeOK, Threads
<1>1. Untaken
    BY <1>0 DEF Untaken, Settled, ThreadStep, Render, Schedule, RememberTaken, Check, SendPrompt, AddPing,
        Rearm, ExpireTaken, PopTimedOut, RenderTimedOut, DeletePings, Review, Freeze, Flag, Close, Clear,
        Finish, NameOrder, PromptReason, LookBack, GoBack, Resolve, InWork, TypeOK
<1>12. CASE Render(t)
  <2>1. CASE Goto(t, "schedule") /\ UNCHANGED cut
      BY <1>1, <1>12, <2>1, GotoChain DEF Render
  <2>2. CASE End(t) /\ cut' = cut \cup {t.order}
      BY <1>1, <1>12, <2>2, EndChain DEF Render
  <2> QED
      BY <1>12, <2>1, <2>2 DEF Render
<1>2. CASE SendPrompt(t) \/ AddPing(t) \/ RenderTimedOut(t) \/ Freeze(t) \/ NameOrder(t) \/ LookBack(t)
    BY <1>1, <1>2, GotoChain DEF SendPrompt, AddPing, RenderTimedOut, Freeze, NameOrder, LookBack
<1>3. CASE RememberTaken(t) \/ Flag(t) \/ Finish(t) \/ PromptReason(t) \/ GoBack(t)
    BY <1>1, <1>3, EndChain DEF RememberTaken, Flag, Finish, PromptReason, GoBack
<1>4. CASE Schedule(t) \/ Rearm(t)
  <2>1. PICK s : Arm(t.order, t.user, s)
      BY <1>4 DEF Schedule, Rearm
  <2>2. s \in Stages => job'[t.order] # NoJob
      BY <1>0, <2>1 DEF Arm, NoJob, TypeOK, Stages, Pings
  <2>3. \A o \in Orders \ {t.order} : job'[o] = job[o]
      BY <1>0, <2>1 DEF Arm, TypeOK
  <2>4. job'[t.order] # NoJob
      BY <1>0, <1>4 DEF Schedule, Rearm, Arm, NoJob, TypeOK
  <2>5. CASE Schedule(t)
      BY <1>1, <2>3, <2>4, <2>5, GotoChain DEF Schedule
  <2>6. CASE Rearm(t)
      BY <1>1, <2>3, <2>4, <2>6, EndChain DEF Rearm
  <2> QED
      BY <1>4, <2>5, <2>6
<1>5. CASE Check(t)
  <2>1. CASE InWork(t.order, t.user)
    <3>1. Goto(t, "expire") \/ Goto(t, "send")
        BY <1>5, <2>1 DEF Check
    <3> QED
        BY <1>1, <1>5, <3>1, GotoChain DEF Check
  <2>2. CASE ~InWork(t.order, t.user)
    <3>1. status'[t.order] # "taken"
        BY <1>0, <1>5, <2>2 DEF Check, ThreadOK, InWork
    <3> QED
        BY <1>1, <1>5, <2>2, <3>1, EndChain DEF Check
  <2> QED
      BY <2>1, <2>2
<1>6. CASE ExpireTaken(t)
  <2>1. status'[t.order] # "taken"
      BY <1>0, <1>6 DEF ExpireTaken, Resolve, ThreadOK, InWork, TypeOK
  <2> QED
      BY <1>1, <1>6, <2>1, GotoChain DEF ExpireTaken
<1>7. CASE PopTimedOut(t)
  <2>1. t.at = "pop" /\ UNCHANGED <<job, restarted, cut>>
      BY <1>7 DEF PopTimedOut
  <2>2. CASE End(t)
      BY <1>1, <2>1, <2>2, EndChain
  <2> DEFINE y == [t EXCEPT !.at = "timedOut", !.pings = Popped(t.order),
                            !.msg = Card(t.order, record[t.order].card)]
  <2>3. y.at = "timedOut" /\ y.order = t.order
      BY DEF TypeOK, Threads
  <2>4. End(t) \/ Moved(t, y)
      BY <1>7 DEF PopTimedOut, End, Moved
  <2> HIDE DEF y
  <2> QED
      BY <1>1, <2>1, <2>2, <2>3, <2>4, BecomesChain
<1>8. CASE DeletePings(t)
  <2>1. t.at \in {"wipe", "wipeLast"} /\ UNCHANGED <<job, restarted, cut>>
      BY <1>8 DEF DeletePings
  <2>2. CASE End(t)
      BY <1>1, <2>1, <2>2, EndChain
  <2> DEFINE y == [t EXCEPT !.at = "finish", !.pings = {}]
  <2>3. y.at = "finish" /\ y.order = t.order
      BY DEF TypeOK, Threads
  <2>4. End(t) \/ Moved(t, y)
      BY <1>8 DEF DeletePings, Moved
  <2> HIDE DEF y
  <2> QED
      BY <1>1, <2>1, <2>2, <2>3, <2>4, BecomesChain
<1>9. CASE Review(t)
    BY <1>1, <1>9, EndChain, GotoChain DEF Review
<1>10. CASE Close(t)
    BY <1>1, <1>10, EndChain, GotoChain DEF Close
<1>11. CASE Clear(t)
  <2>1. t.at = "clear" /\ UNCHANGED <<status, restarted, cut>> /\ job'[t.order] = NoJob
        /\ \A o \in Orders \ {t.order} : job'[o] = job[o]
      BY <1>0, <1>11 DEF Clear, TypeOK
  <2>2. status'[t.order] # "taken"
      BY <1>0, <2>1 DEF ThreadOK, Over, Closed
  <2> DEFINE y == [t EXCEPT !.at = "wipe", !.pings = Popped(t.order)]
  <2>3. y.at = "wipe" /\ y.order = t.order /\ Moved(t, y)
      BY <1>11 DEF TypeOK, Threads, Clear, Moved
  <2> HIDE DEF y
  <2> QED
      BY <1>1, <2>1, <2>2, <2>3, BecomesChain
<1> QED
    BY <1>2, <1>3, <1>4, <1>5, <1>6, <1>7, <1>8, <1>9, <1>10, <1>11, <1>12 DEF ThreadStep

LEMMA ChainInductive ==
    ASSUME TypeOK, TypeOK', Known, Known', ChainInv, [Next]_vars
    PROVE  ChainInv'
<1> USE DEF rowVars, chatVars, auxVars, histVars, mishaps, pressVars
<1>0. Settled /\ restarted \in BOOLEAN
    BY StepsSettle DEF TypeOK
<1>1. ASSUME NEW t \in threads, ThreadStep(t) PROVE ChainInv'
    BY <1>0, <1>1, StepChains
\* Steps of which the chain takes no notice.
<1>2. ASSUME UNCHANGED <<status, job, cut>>, restarted => restarted',
             \A t : (t \in threads' /\ t.at \in ChainSteps) <=> (t \in threads /\ t.at \in ChainSteps)
      PROVE  ChainInv'
    BY <1>0, <1>2, ChainKept DEF ChainInv, Untaken, InChain
<1>3. ASSUME NEW o \in Orders, NEW u \in Users, Take(o, u) PROVE ChainInv'
  <2> DEFINE x == Press("render", Card(o, u))
  <2>1. x.at = "render" /\ x.order = o
      BY DEF Press, Card
  <2>2. /\ threads' = threads \cup {x} /\ status[o] = "offering"
        /\ status' = [status EXCEPT ![o] = "taken"] /\ UNCHANGED <<job, restarted, cut>>
      BY <1>3 DEF Take, Begin
  <2> HIDE DEF x
  <2>3. \A t \in threads : t.order # o
      BY <2>2 DEF Known, ThreadInv, ThreadOK
  <2>4. job[o] = NoJob
      BY <2>2 DEF Known, JobInv, JobOK
  <2>5. ChainOK(o)'
    <3>1. \A t \in threads' : t.order = o => t = x
        BY <2>2, <2>3
    <3>2. InChain(x, o)' /\ x \in threads'
        BY <2>1, <2>2 DEF InChain, ChainSteps
    <3> QED
        BY <2>2, <2>4, <3>1, <3>2 DEF ChainOK, InChain
  <2>6. ASSUME NEW p \in Orders, p # o PROVE ChainOK(p)'
    <3>1. \A t : (t \in threads' /\ t.order = p /\ t.at \in ChainSteps) <=> InChain(t, p)
        BY <2>1, <2>2, <2>6 DEF InChain
    <3>2. status'[p] = status[p]
        BY <2>2, <2>6 DEF TypeOK
    <3> QED
        BY <2>2, <3>1, <3>2 DEF ChainInv, ChainOK, InChain
  <2> QED
      BY <2>5, <2>6 DEF ChainInv
<1>4. ASSUME NEW m \in Messages, PressReady(m) \/ PressCancel(m) \/ AbortReason(m) \/ Dismiss(m)
      PROVE  ChainInv'
    BY <1>2, <1>4 DEF PressReady, PressCancel, AbortReason, Dismiss, Begin, Press, ChainSteps
<1>5. ASSUME NEW u \in Users, SubmitReason(u) \/ LeaveDialogue(u)
      PROVE  ChainInv'
    BY <1>2, <1>5 DEF SubmitReason, LeaveDialogue, Begin, Press, ChainSteps
<1>6. ASSUME NEW o \in Orders, JobFires(o) PROVE ChainInv'
  <2>1. PICK x : x.at = "check" /\ x.order = o /\ threads' = threads \cup {x}
    <3> DEFINE m == IF job[o].stage = "expiry" THEN Card(o, job[o].user)
                    ELSE <<o, job[o].user, job[o].stage>>
               y == [at |-> "check", order |-> o, user |-> job[o].user, stage |-> job[o].stage,
                     msg |-> m, pings |-> {}]
    <3>1. threads' = threads \cup {y}
        BY <1>6 DEF JobFires, Begin
    <3> HIDE DEF m
    <3>2. y.at = "check" /\ y.order = o
        OBVIOUS
    <3> HIDE DEF y
    <3> QED
        BY <3>1, <3>2
  <2>2. job[o] # NoJob /\ job'[o] = NoJob /\ (\A p \in Orders \ {o} : job'[p] = job[p])
        /\ UNCHANGED <<status, restarted, cut>>
      BY <1>6 DEF JobFires, TypeOK
  <2>3. \A t \in threads : ~InChain(t, o)
      BY <2>2 DEF ChainInv, ChainOK
  <2>4. ChainOK(o)'
    <3>1. InChain(x, o)' /\ x \in threads'
        BY <2>1 DEF InChain, ChainSteps
    <3>2. \A t \in threads' : InChain(t, o)' => t = x
        BY <2>1, <2>3 DEF InChain
    <3> QED
        BY <2>2, <3>1, <3>2 DEF ChainOK
  <2>5. ASSUME NEW p \in Orders, p # o PROVE ChainOK(p)'
    <3>1. \A t : (t \in threads' /\ t.order = p /\ t.at \in ChainSteps) <=> InChain(t, p)
        BY <2>1, <2>5 DEF InChain
    <3> QED
        BY <1>0, <2>2, <2>5, <3>1, ChainKept DEF ChainInv, Untaken
  <2> QED
      BY <2>4, <2>5 DEF ChainInv
<1>7. ASSUME NEW o \in Orders, RecordExpires(o) PROVE ChainInv'
    BY <1>2, <1>7 DEF RecordExpires
<1>8. CASE UNCHANGED vars
    BY <1>2, <1>8 DEF vars
<1>9. CASE Restart
    BY <1>9 DEF Restart, ChainInv, ChainOK, InChain
<1> QED
    BY <1>1, <1>3, <1>4, <1>5, <1>6, <1>7, <1>8, <1>9 DEF Next, UserStep

LEMMA AlwaysChained == Spec => []ChainInv
<1>1. Init => ChainInv
    BY DEF Init, ChainInv, ChainOK, InChain
<1>2. TypeOK /\ TypeOK' /\ Known /\ Known' /\ ChainInv /\ [Next]_vars => ChainInv'
    BY ChainInductive
<1> QED
    BY <1>1, <1>2, TimeoutsTyped, AlwaysKnown, PTL DEF Spec

\* The chain of jobs of an order neither forks nor breaks, whoever presses what while it
\* runs and whatever Telegram refuses; a restart or a failed take may end it, nothing
\* doubles it.
THEOREM ChainHolds == Spec => []OneTimer
<1>1. ChainInv => OneTimer
  <2> SUFFICES ASSUME ChainInv, NEW o \in Orders
               PROVE  Timers(o) <= 1 /\ (status[o] = "taken" /\ ~restarted /\ o \notin cut => Timers(o) = 1)
      BY DEF OneTimer
  <2> DEFINE C == {t \in threads : t.order = o /\ t.at \in ChainSteps}
  <2>1. /\ \A t, x \in C : t = x
        /\ job[o] # NoJob => C = {}
        /\ status[o] = "taken" /\ ~restarted /\ o \notin cut => job[o] # NoJob \/ C # {}
      BY DEF ChainInv, ChainOK, InChain
  <2>2. C = {} => Cardinality(C) = 0
      BY FS_EmptySet
  <2>3. ASSUME NEW t \in C PROVE Cardinality(C) = 1
    <3>1. C = {t}
        BY <2>1
    <3> QED
        BY <3>1, FS_Singleton
  <2>4. Timers(o) = (IF job[o] = NoJob THEN 0 ELSE 1) + Cardinality(C)
      BY DEF Timers
  <2> HIDE DEF C
  <2>5. CASE C = {}
      BY <2>1, <2>2, <2>4, <2>5
  <2>6. CASE C # {}
      BY <2>1, <2>3, <2>4, <2>6
  <2> QED
      BY <2>5, <2>6
<1> QED
    BY <1>1, AlwaysChained, PTL
----------------------------------------------------------------------------
(* What a step does to the threads and to the messages.                     *)

Moves == {
    <<"render", "schedule">>, <<"schedule", "remember">>,
    <<"check", "send">>, <<"check", "expire">>, <<"send", "note">>, <<"send", "arm">>, <<"note", "arm">>,
    <<"expire", "pop">>, <<"pop", "timedOut">>, <<"timedOut", "wipeLast">>,
    <<"review", "freeze">>, <<"review", "flag">>, <<"review", "complete">>, <<"freeze", "flag">>,
    <<"complete", "clear">>, <<"cancel", "clear">>, <<"clear", "wipe">>, <<"wipe", "finish">>,
    <<"data", "prompt">>, <<"look", "back">>, <<"look", "gone">>}

Follows(t, x) ==
    /\ <<t.at, x.at>> \in Moves
    /\ x.order = t.order /\ x.user = t.user /\ x.stage = t.stage
    /\ t.at # "pop" => x.msg = t.msg
    /\ x.pings = IF t.at \in {"pop", "clear"} THEN Popped(t.order)
                 ELSE IF t.at = "wipe" THEN {} ELSE t.pings

LEMMA RestartOnce ==
    ASSUME TypeOK, [Next]_vars, ~restarted'
    PROVE  ~restarted
    BY DEF Next, UserStep, ThreadStep, Render, Schedule, RememberTaken, Check, SendPrompt, AddPing,
        Rearm, ExpireTaken, PopTimedOut, RenderTimedOut, DeletePings, Review, Freeze, Flag, Close, Clear,
        Finish, NameOrder, PromptReason, LookBack, GoBack, Take, PressReady, PressCancel, AbortReason,
        Dismiss, SubmitReason, LeaveDialogue, JobFires, RecordExpires, Restart, vars, TypeOK,
        rowVars, chatVars, auxVars, histVars, mishaps, pressVars

\* What a thread does next is where it is.
LEMMA StepAt ==
    ASSUME NEW t, ThreadStep(t)
    PROVE  /\ t.at = "render" => Render(t)
           /\ t.at = "schedule" => Schedule(t)
           /\ t.at = "remember" => RememberTaken(t)
           /\ t.at = "check" => Check(t)
           /\ t.at = "send" => SendPrompt(t)
           /\ t.at = "note" => AddPing(t)
           /\ t.at = "pop" => PopTimedOut(t)
           /\ t.at = "timedOut" => RenderTimedOut(t)
           /\ t.at \in {"wipe", "wipeLast"} => DeletePings(t)
           /\ t.at \in {"complete", "cancel"} => Close(t)
           /\ t.at = "clear" => Clear(t)
           /\ t.at = "data" => NameOrder(t)
           /\ t.at = "prompt" => PromptReason(t)
    BY DEF ThreadStep, Render, Schedule, RememberTaken, Check, SendPrompt, AddPing,
        Rearm, ExpireTaken, PopTimedOut, RenderTimedOut, DeletePings, Review, Freeze, Flag, Close, Clear,
        Finish, NameOrder, PromptReason, LookBack, GoBack

LEMMA StepMoves ==
    ASSUME TypeOK, NEW t \in threads, ThreadStep(t)
    PROVE  End(t) \/ \E x : Moved(t, x) /\ Follows(t, x)
<1> USE DEF RunSteps, PressSteps
<1>1. ASSUME NEW at, Goto(t, at), at \in RunSteps \cup PressSteps \cup {"wipe", "wipeLast"},
             <<t.at, at>> \in Moves, t.at \notin {"pop", "clear", "wipe"}
      PROVE  \E x : Moved(t, x) /\ Follows(t, x)
  <2> DEFINE x == [t EXCEPT !.at = at]
  <2>1. x.at = at /\ Same(t, x) /\ Moved(t, x)
      BY <1>1, GotoMoves DEF Same
  <2> HIDE DEF x
  <2>2. Follows(t, x)
      BY <1>1, <2>1 DEF Follows, Same
  <2> QED
      BY <2>1, <2>2
<1>2. CASE PopTimedOut(t)
  <2> DEFINE y == [t EXCEPT !.at = "timedOut", !.pings = Popped(t.order),
                            !.msg = Card(t.order, record[t.order].card)]
  <2>1. /\ y.at = "timedOut" /\ y.order = t.order /\ y.user = t.user /\ y.stage = t.stage
        /\ y.pings = Popped(t.order)
      BY DEF TypeOK, Threads
  <2>2. t.at = "pop" /\ (End(t) \/ Moved(t, y))
      BY <1>2 DEF PopTimedOut, End, Moved
  <2> HIDE DEF y
  <2>3. Follows(t, y)
      BY <2>1, <2>2 DEF Follows, Moves
  <2> QED
      BY <2>2, <2>3
<1>3. CASE DeletePings(t)
  <2> DEFINE y == [t EXCEPT !.at = "finish", !.pings = {}]
  <2>1. /\ y.at = "finish" /\ y.order = t.order /\ y.user = t.user /\ y.stage = t.stage
        /\ y.pings = {} /\ y.msg = t.msg
      BY DEF TypeOK, Threads
  <2>2. End(t) \/ (t.at = "wipe" /\ Moved(t, y))
      BY <1>3 DEF DeletePings, Moved
  <2> HIDE DEF y
  <2>3. t.at = "wipe" => Follows(t, y)
      BY <2>1 DEF Follows, Moves
  <2> QED
      BY <2>2, <2>3
<1>4. CASE Clear(t)
  <2> DEFINE y == [t EXCEPT !.at = "wipe", !.pings = Popped(t.order)]
  <2>1. /\ y.at = "wipe" /\ y.order = t.order /\ y.user = t.user /\ y.stage = t.stage
        /\ y.pings = Popped(t.order) /\ y.msg = t.msg
      BY DEF TypeOK, Threads
  <2>2. t.at = "clear" /\ Moved(t, y)
      BY <1>4 DEF Clear, Moved
  <2> HIDE DEF y
  <2>3. Follows(t, y)
      BY <2>1, <2>2 DEF Follows, Moves
  <2> QED
      BY <2>2, <2>3
<1>11. CASE Render(t)
    BY <1>1, <1>11 DEF Render, Moves
<1>5. CASE Schedule(t) \/ SendPrompt(t) \/ AddPing(t) \/ ExpireTaken(t) \/ RenderTimedOut(t)
           \/ Freeze(t) \/ NameOrder(t)
    BY <1>1, <1>5 DEF Schedule, SendPrompt, AddPing, ExpireTaken, RenderTimedOut, Freeze, NameOrder,
        Moves
<1>6. CASE Review(t)
    BY <1>1, <1>6 DEF Review, Moves
<1>7. CASE Check(t)
  <2>1. t.at = "check" /\ (End(t) \/ Goto(t, "expire") \/ Goto(t, "send"))
      BY <1>7 DEF Check
  <2> QED
      BY <1>1, <2>1 DEF Moves
<1>8. CASE LookBack(t)
  <2>1. t.at = "look" /\ (Goto(t, "back") \/ Goto(t, "gone"))
      BY <1>8 DEF LookBack
  <2> QED
      BY <1>1, <2>1 DEF Moves
<1>9. CASE Close(t)
    BY <1>1, <1>9 DEF Close, Moves
<1>10. CASE RememberTaken(t) \/ Rearm(t) \/ Flag(t) \/ Finish(t) \/ PromptReason(t) \/ GoBack(t)
    BY <1>10 DEF RememberTaken, Rearm, Flag, Finish, PromptReason, GoBack
<1> QED
    BY <1>2, <1>3, <1>4, <1>5, <1>6, <1>7, <1>8, <1>9, <1>10, <1>11 DEF ThreadStep

LEMMA StepLeaves ==
    ASSUME TypeOK, NEW t \in threads, ThreadStep(t)
    PROVE  t \notin threads' /\ threads \ {t} \subseteq threads'
<1>1. CASE End(t)
    BY <1>1 DEF End
<1>2. ASSUME NEW x, Moved(t, x), Follows(t, x)
      PROVE  t \notin threads' /\ threads \ {t} \subseteq threads'
  <2>1. x.at # t.at
      BY <1>2 DEF Follows, Moves
  <2> QED
      BY <1>2, <2>1 DEF Moved
<1> QED
    BY <1>1, <1>2, StepMoves

\* A handler or a job run that was not there before.
Taken(x) == \E o \in Orders, u \in Users : Take(o, u)
    /\ x.at = "render" /\ x.order = o /\ x.user = u /\ x.stage = "none"
    /\ x.msg = Card(o, u) /\ x.pings = {}
Pressed(x) == \E m \in Messages :
    /\ x.order = m[1] /\ x.user = m[2] /\ x.stage = "none" /\ x.msg = m /\ x.pings = {}
    /\ \/ PressReady(m) /\ x.at = "review"
       \/ PressCancel(m) /\ x.at = "data"
       \/ AbortReason(m) /\ x.at = "look"
Submitted(x) == \E u \in Users : SubmitReason(u) /\ \E m \in data[u] :
    /\ x.at = "cancel" /\ x.order = m[1] /\ x.user = m[2] /\ x.stage = "none" /\ x.msg = m /\ x.pings = {}
Fired(x) == \E o \in Orders : JobFires(o)
    /\ x.at = "check" /\ x.order = o /\ x.user = job[o].user /\ x.stage = job[o].stage /\ x.pings = {}

LEMMA ThreadsFrom ==
    ASSUME TypeOK, [Next]_vars, NEW x \in threads'
    PROVE  \/ x \in threads
           \/ \E t \in threads : ThreadStep(t) /\ Follows(t, x)
           \/ Taken(x) \/ Pressed(x) \/ Submitted(x) \/ Fired(x)
<1>1. ASSUME NEW m, NEW at, x = Press(at, m)
      PROVE  /\ x.at = at /\ x.order = m[1] /\ x.user = m[2] /\ x.stage = "none" /\ x.msg = m
             /\ x.pings = {}
    BY <1>1 DEF Press
<1>2. ASSUME NEW t \in threads, ThreadStep(t), x \notin threads
      PROVE  \E z \in threads : ThreadStep(z) /\ Follows(z, x)
  <2>1. PICK y : Moved(t, y) /\ Follows(t, y)
      BY <1>2, StepMoves DEF End
  <2>2. x = y
      BY <1>2, <2>1 DEF Moved
  <2> QED
      BY <1>2, <2>1, <2>2
<1>3. ASSUME NEW o \in Orders, NEW u \in Users, Take(o, u), x \notin threads
      PROVE  Taken(x)
  <2>1. x = Press("render", Card(o, u))
      BY <1>3 DEF Take, Begin
  <2>2. Card(o, u)[1] = o /\ Card(o, u)[2] = u
      BY DEF Card
  <2>3. /\ x.at = "render" /\ x.order = o /\ x.user = u /\ x.stage = "none"
        /\ x.msg = Card(o, u) /\ x.pings = {}
      BY <1>1, <2>1, <2>2
  <2> QED
      BY <1>3, <2>3 DEF Taken
<1>4. ASSUME NEW m \in Messages, PressReady(m) \/ PressCancel(m) \/ AbortReason(m), x \notin threads
      PROVE  Pressed(x)
  <2>1. CASE PressReady(m)
    <3>1. x = Press("review", m)
        BY <1>4, <2>1 DEF PressReady, Begin
    <3> QED
        BY <1>1, <2>1, <3>1 DEF Pressed
  <2>2. CASE PressCancel(m)
    <3>1. x = Press("data", m)
        BY <1>4, <2>2 DEF PressCancel, Begin
    <3> QED
        BY <1>1, <2>2, <3>1 DEF Pressed
  <2>3. CASE AbortReason(m)
    <3>1. x = Press("look", m)
        BY <1>4, <2>3 DEF AbortReason, Begin
    <3> QED
        BY <1>1, <2>3, <3>1 DEF Pressed
  <2> QED
      BY <1>4, <2>1, <2>2, <2>3
<1>5. ASSUME NEW u \in Users, SubmitReason(u), x \notin threads
      PROVE  Submitted(x)
  <2>1. PICK m \in data[u] : x = Press("cancel", m)
      BY <1>5 DEF SubmitReason, Begin
  <2> QED
      BY <1>1, <1>5, <2>1 DEF Submitted
<1>6. ASSUME NEW o \in Orders, JobFires(o), x \notin threads
      PROVE  Fired(x)
  <2> DEFINE m == IF job[o].stage = "expiry" THEN Card(o, job[o].user)
                  ELSE <<o, job[o].user, job[o].stage>>
             y == [at |-> "check", order |-> o, user |-> job[o].user, stage |-> job[o].stage,
                   msg |-> m, pings |-> {}]
  <2>1. x = y
      BY <1>6 DEF JobFires, Begin
  <2> HIDE DEF m
  <2>2. /\ x.at = "check" /\ x.order = o /\ x.user = job[o].user /\ x.stage = job[o].stage
        /\ x.pings = {}
      BY <2>1
  <2> QED
      BY <1>6, <2>2 DEF Fired
<1>7. ASSUME \/ \E m \in Messages : Dismiss(m)
             \/ \E u \in Users : LeaveDialogue(u)
             \/ \E o \in Orders : RecordExpires(o)
             \/ Restart \/ UNCHANGED vars
      PROVE  x \in threads
    BY <1>7 DEF Dismiss, LeaveDialogue, RecordExpires, Restart, vars
<1> QED
    BY <1>2, <1>3, <1>4, <1>5, <1>6, <1>7 DEF Next, UserStep

LEMMA ThreadsStay ==
    ASSUME TypeOK, [Next]_vars, NEW t \in threads, t \notin threads'
    PROVE  ThreadStep(t) \/ Restart
<1>1. ASSUME NEW x \in threads, ThreadStep(x) PROVE ThreadStep(t)
    BY <1>1, StepLeaves
<1>2. ASSUME UserStep \/ (\E o \in Orders : JobFires(o) \/ RecordExpires(o)) \/ UNCHANGED vars
      PROVE  threads \subseteq threads'
    BY <1>2 DEF UserStep, Take, PressReady, PressCancel, AbortReason, Dismiss, SubmitReason,
        LeaveDialogue, JobFires, RecordExpires, vars, Begin
<1> QED
    BY <1>1, <1>2 DEF Next

\* A thread writes on a message.
Writes == {
    <<"render", "work">>, <<"flag", "flagged">>, <<"finish", "done">>, <<"prompt", "reason">>,
    <<"back", "work">>, <<"gone", "unavailable">>, <<"timedOut", "timedOut">>}
Written(t, m) ==
    \/ m = t.msg /\ <<t.at, screen'[m]>> \in Writes /\ screen[m] # "none"
    \/ m = t.msg /\ t.at = "send" /\ screen'[m] = "ask"
    \/ m \in t.pings /\ screen'[m] = "none"

LEMMA ScreenMoves ==
    ASSUME TypeOK, [Next]_vars, NEW m \in Messages, screen'[m] # screen[m]
    PROVE  \/ screen[m] = "ask" /\ screen'[m] = "none"
           \/ \E t \in threads : ThreadStep(t) /\ Written(t, m)
<1> USE DEF rowVars, chatVars, auxVars, histVars, mishaps, pressVars
<1>1. ASSUME NEW t \in threads, ThreadStep(t)
      PROVE  Written(t, m)
  <2>1. ASSUME NEW text, Edited(t.msg, text) \/ UNCHANGED screen, <<t.at, text>> \in Writes
        PROVE  Written(t, m)
    <3>1. screen[t.msg] # "none" /\ screen' = [screen EXCEPT ![t.msg] = text]
        BY <2>1 DEF Edited
    <3>2. m = t.msg /\ screen'[m] = text
        BY <3>1 DEF TypeOK
    <3> QED
        BY <2>1, <3>1, <3>2 DEF Written
  <2>2. CASE Render(t) \/ Flag(t) \/ Finish(t) \/ PromptReason(t) \/ RenderTimedOut(t)
      BY <2>1, <2>2 DEF Render, Flag, Finish, PromptReason, RenderTimedOut, Edit, Writes
  <2>3. CASE GoBack(t)
    <3>1. \/ t.at = "back" /\ (Edited(t.msg, "work") \/ UNCHANGED screen)
          \/ t.at = "gone" /\ (Edited(t.msg, "unavailable") \/ UNCHANGED screen)
        BY <2>3 DEF GoBack, Edit
    <3> QED
        BY <2>1, <3>1 DEF Writes
  <2>4. CASE SendPrompt(t)
      BY <2>4 DEF SendPrompt, Written, TypeOK
  <2>5. CASE DeletePings(t)
      BY <2>5 DEF DeletePings, Written
  <2> QED
      BY <1>1, <2>2, <2>3, <2>4, <2>5 DEF ThreadStep, Schedule, RememberTaken, Check, AddPing,
          Rearm, ExpireTaken, PopTimedOut, Review, Freeze, Close, Clear, NameOrder, LookBack
<1>2. ASSUME NEW x \in Messages, Dismiss(x)
      PROVE  screen[m] = "ask" /\ screen'[m] = "none"
    BY <1>2 DEF Dismiss, TypeOK
<1>3. ASSUME UserStep, ~\E x \in Messages : Dismiss(x)
      PROVE  FALSE
    BY <1>3 DEF UserStep, Take, PressReady, PressCancel, AbortReason, SubmitReason, LeaveDialogue
<1>4. ASSUME (\E o \in Orders : JobFires(o) \/ RecordExpires(o)) \/ Restart \/ UNCHANGED vars
      PROVE  FALSE
    BY <1>4 DEF JobFires, RecordExpires, Restart, vars
<1> QED
    BY <1>1, <1>2, <1>3, <1>4 DEF Next
----------------------------------------------------------------------------
(* Until its card is rendered, an order is nowhere else.                    *)

\* The order of which a handler starts was taken, and is named on a message.
LEMMA PressedOn ==
    ASSUME TypeOK, Known, NEW x, Pressed(x) \/ Submitted(x)
    PROVE  /\ x.msg \in Messages /\ x.order = x.msg[1] /\ x.user = x.msg[2] /\ x.stage = "none"
           /\ x.user \in Users /\ x.order \in Orders
           /\ screen[x.msg] \in {"work", "ask", "reason"} \/ x.msg \in data[x.user]
           /\ status[x.order] # "offering"
<1>1. CASE Pressed(x)
  <2>1. PICK m \in Messages : /\ x.order = m[1] /\ x.user = m[2] /\ x.stage = "none" /\ x.msg = m
                              /\ screen[m] \in {"work", "ask", "reason"}
      BY <1>1 DEF Pressed, PressReady, PressCancel, AbortReason, MayPress
  <2> QED
      BY <2>1 DEF Known, ChatInv, MessageOK, Messages
<1>2. CASE Submitted(x)
  <2>0. PICK u \in Users : \E m \in data[u] :
            x.order = m[1] /\ x.user = m[2] /\ x.stage = "none" /\ x.msg = m
      BY <1>2 DEF Submitted
  <2>1. PICK m \in data[u] : x.order = m[1] /\ x.user = m[2] /\ x.stage = "none" /\ x.msg = m
      BY <2>0
  <2>2. m \in Messages /\ m[2] = u /\ status[m[1]] # "offering"
      BY DEF Known, ChatInv, DataOK, TypeOK
  <2> QED
      BY <2>1, <2>2 DEF Messages
<1> QED
    BY <1>1, <1>2

\* What a user's dialogue names changes with one of his handlers alone.
LEMMA DataMoves ==
    ASSUME TypeOK, Known, [Next]_vars, NEW u \in Users, data'[u] # data[u]
    PROVE  \E t \in threads : NameOrder(t) /\ t.user = u /\ t.stage = "none" /\ data'[u] = {t.msg}
<1> USE DEF rowVars, chatVars, auxVars, histVars, mishaps, pressVars
<1>1. ASSUME NEW t \in threads, NameOrder(t)
      PROVE  t.user = u /\ t.stage = "none" /\ data'[u] = {t.msg}
  <2>1. t.stage = "none"
      BY <1>1 DEF NameOrder, Known, ThreadInv, ThreadOK, RunSteps
  <2> QED
      BY <1>1, <2>1 DEF NameOrder, TypeOK
<1>2. ASSUME NEW t \in threads, ThreadStep(t), ~NameOrder(t)
      PROVE  FALSE
    BY <1>2 DEF ThreadStep, Render, Schedule, RememberTaken, Check, SendPrompt, AddPing,
          Rearm, ExpireTaken, PopTimedOut, RenderTimedOut, DeletePings, Review, Freeze, Flag, Close, Clear, Finish,
          PromptReason, LookBack, GoBack
<1>3. ASSUME UserStep \/ (\E o \in Orders : JobFires(o) \/ RecordExpires(o)) \/ Restart \/ UNCHANGED vars
      PROVE  FALSE
    BY <1>3 DEF UserStep, Take, PressReady, PressCancel, AbortReason, Dismiss, SubmitReason,
        LeaveDialogue, JobFires, RecordExpires, Restart, vars
<1> QED
    BY <1>1, <1>2, <1>3 DEF Next

LEMMA FreshInductive ==
    ASSUME TypeOK, TypeOK', Known, ChainInv, FreshInv, [Next]_vars
    PROVE  FreshInv'
<1> SUFFICES ASSUME NEW o \in Orders, NEW r \in threads', r.order = o, r.at = "render"
             PROVE  Fresh(o)'
    BY DEF FreshInv, Rendering
<1>1. CASE r \notin threads
  <2>1. PICK u \in Users : Take(o, u)
    <3>1. ~\E t \in threads : Follows(t, r)
        BY DEF Follows, Moves
    <3>2. Taken(r)
        BY <1>1, <3>1, ThreadsFrom DEF Pressed, Submitted, Fired
    <3> QED
        BY <3>2 DEF Taken
  <2>2. status[o] = "offering" /\ UNCHANGED <<screen, data>>
      BY <2>1 DEF Take, chatVars
  <2>3. \A m \in Messages : m[1] = o => screen[m] \in {"none", "offer"}
      BY <2>2 DEF Known, ChatInv, MessageOK
  <2>4. \A u2 \in Users : \A m \in data[u2] : m[1] # o
      BY <2>2 DEF Known, ChatInv, DataOK
  <2>5. \A t \in threads : t.order # o
      BY <2>2 DEF Known, ThreadInv, ThreadOK
  <2>6. ASSUME NEW t \in threads', t.order = o PROVE t.at = "render"
    <3>1. t = Press("render", Card(o, u))
        BY <2>1, <2>5, <2>6 DEF Take, Begin
    <3> QED
        BY <3>1 DEF Press
  <2> QED
      BY <2>2, <2>3, <2>4, <2>6 DEF Fresh
<1>2. CASE r \in threads
  <2>1. Fresh(o)
      BY <1>2 DEF FreshInv, Rendering
  <2>2. ~\E t \in threads : t.order = o /\ ThreadStep(t)
    <3> SUFFICES ASSUME NEW t \in threads, t.order = o, ThreadStep(t) PROVE FALSE
        OBVIOUS
    <3>1. t.at = "render"
        BY <2>1 DEF Fresh
    <3>2. t = r
        BY <1>2, <3>1 DEF ChainInv, ChainOK, InChain, ChainSteps
    <3> QED
        BY <3>2, StepLeaves
  <2>3. ASSUME NEW m \in Messages, m[1] = o PROVE screen'[m] \in {"none", "offer"}
    <3>1. screen[m] \in {"none", "offer"}
        BY <2>1, <2>3 DEF Fresh
    <3>2. CASE screen'[m] # screen[m]
      <4>1. PICK t \in threads : ThreadStep(t) /\ Written(t, m)
          BY <3>1, <3>2, ScreenMoves
      <4>2. t.msg # m
          BY <2>2, <2>3, <4>1 DEF Known, ThreadInv, ThreadOK
      <4> QED
          BY <4>1, <4>2 DEF Written
    <3> QED
        BY <3>1, <3>2
  <2>4. ASSUME NEW u \in Users, NEW m \in data'[u] PROVE m[1] # o
    <3>1. CASE data'[u] = data[u]
        BY <2>1, <3>1 DEF Fresh
    <3>2. CASE data'[u] # data[u]
      <4>1. PICK t \in threads : NameOrder(t) /\ data'[u] = {t.msg}
          BY <3>2, DataMoves
      <4>2. t.order # o
          BY <2>2, <4>1 DEF ThreadStep
      <4> QED
          BY <4>1, <4>2 DEF Known, ThreadInv, ThreadOK
    <3> QED
        BY <3>1, <3>2
  <2>5. ASSUME NEW x \in threads', x.order = o PROVE x.at = "render"
    <3>1. status[o] # "offering"
        BY <1>2 DEF Known, ThreadInv, ThreadOK
    <3>2. ~Taken(x)
        BY <2>5, <3>1 DEF Taken, Take
    <3>3. ~(Pressed(x) \/ Submitted(x))
      <4> SUFFICES ASSUME Pressed(x) \/ Submitted(x) PROVE FALSE
          OBVIOUS
      <4>1. x.msg \in Messages /\ x.msg[1] = o /\ x.user \in Users
            /\ (screen[x.msg] \in {"work", "ask", "reason"} \/ x.msg \in data[x.user])
          BY <2>5, PressedOn
      <4> QED
          BY <2>1, <4>1 DEF Fresh
    <3>4. ~Fired(x)
      <4> SUFFICES ASSUME Fired(x) PROVE FALSE
          OBVIOUS
      <4>1. job[o] # NoJob
          BY <2>5 DEF Fired, JobFires
      <4> QED
          BY <1>2, <4>1 DEF ChainInv, ChainOK, InChain, ChainSteps
    <3>5. ~\E t \in threads : ThreadStep(t) /\ Follows(t, x)
        BY <2>2, <2>5 DEF Follows
    <3>6. x \in threads
        BY <3>2, <3>3, <3>4, <3>5, ThreadsFrom
    <3> QED
        BY <2>1, <2>5, <3>6 DEF Fresh
  <2> QED
      BY <2>3, <2>4, <2>5 DEF Fresh
<1> QED
    BY <1>1, <1>2

LEMMA AlwaysFresh == Spec => []FreshInv
<1>1. Init => FreshInv
    BY DEF Init, FreshInv, Rendering
<1>2. TypeOK /\ TypeOK' /\ Known /\ ChainInv /\ FreshInv /\ [Next]_vars => FreshInv'
    BY FreshInductive
<1> QED
    BY <1>1, <1>2, TimeoutsTyped, AlwaysKnown, AlwaysChained, PTL DEF Spec
----------------------------------------------------------------------------
(* The card of an order.                                                    *)

LEMMA CardsHeld ==
    ASSUME TypeOK, TypeOK', Known, FreshInv, HolderCanFinish, [Next]_vars
    PROVE  HolderCanFinish'
<1> USE DEF rowVars, chatVars, auxVars, histVars, mishaps, pressVars
<1> SUFFICES ASSUME NEW o \in Orders, NEW u \in Users, InWork(o, u)', ~restarted',
                    \A t \in threads' : t.order = o => t.at # "render"
             PROVE  \/ screen'[Card(o, u)] \in {"work", "reason", "flagged"}
                    \/ screen'[Card(o, u)] = "offer" /\ o \in cut'
    BY DEF HolderCanFinish
<1> DEFINE c == Card(o, u)
<1>1. c \in Messages /\ c[1] = o /\ c[2] = u /\ c[3] = "card"
    BY DEF Card, Messages
<1>2. Settled
    BY StepsSettle
<1>3. InWork(o, u)
  <2>1. status[o] # "offering"
    <3>1. ASSUME NEW q \in Orders, NEW v \in Users, Take(q, v) PROVE q # o
      <4>1. Press("render", Card(q, v)) \in threads'
          BY <3>1 DEF Take, Begin
      <4>2. Press("render", Card(q, v)).order = q /\ Press("render", Card(q, v)).at = "render"
          BY DEF Press, Card
      <4> QED
          BY <4>1, <4>2
    <3>2. ASSUME NEW t \in threads, ThreadStep(t) PROVE status[o] # "offering"
      <4>1. status'[o] = "taken" => status[o] = "taken"
        <5>1. t.order \in Orders
            BY DEF TypeOK, Threads
        <5> QED
            BY <3>2, <5>1 DEF ThreadStep, Render, Schedule, RememberTaken, Check, SendPrompt, AddPing,
              Rearm, ExpireTaken, PopTimedOut, RenderTimedOut, DeletePings, Review, Freeze, Flag, Close, Clear,
              Finish, NameOrder, PromptReason, LookBack, GoBack, Resolve, InWork, TypeOK
      <4> QED
          BY <4>1 DEF InWork
    <3>3. ASSUME NEW q \in Orders, NEW v \in Users, Take(q, v) PROVE status[o] # "offering"
        BY <3>1, <3>3 DEF Take, InWork, TypeOK
    <3>4. ASSUME UserStep, ~\E q \in Orders, v \in Users : Take(q, v) PROVE status[o] # "offering"
        BY <3>4 DEF UserStep, PressReady, PressCancel, AbortReason, Dismiss, SubmitReason,
            LeaveDialogue, InWork
    <3>5. ASSUME (\E q \in Orders : JobFires(q) \/ RecordExpires(q)) \/ Restart \/ UNCHANGED vars
          PROVE  status[o] # "offering"
        BY <3>5 DEF JobFires, RecordExpires, Restart, vars, InWork
    <3> QED
        BY <3>2, <3>3, <3>4, <3>5 DEF Next
  <2> QED
      BY <1>2, <2>1 DEF Settled, InWork
<1>4. ~restarted
    BY RestartOnce
<1> HIDE DEF c
<1>5. CASE \E t \in threads : t.order = o /\ t.at = "render"
  <2>1. PICK t \in threads : t.order = o /\ t.at = "render"
      BY <1>5
  <2>2. ThreadStep(t) \/ Restart
      BY <2>1, ThreadsStay
  <2>3. ThreadStep(t)
      BY <2>2 DEF Restart
  <2>4. Render(t)
      BY <2>1, <2>3, StepAt
  <2>5. t.msg = c
    <3>1. ThreadOK(t) /\ t.msg \in Messages
        BY DEF Known, ThreadInv, TypeOK, Threads
    <3>2. t.user = u /\ t.stage = "none"
        BY <1>3, <2>1, <3>1 DEF ThreadOK, ChainSteps, InWork, RunSteps
    <3>3. t.msg[1] = o /\ t.msg[2] = u /\ t.msg[3] = "card"
        BY <2>1, <3>1, <3>2 DEF ThreadOK, StartSteps
    <3> QED
        BY <1>1, <3>1, <3>3 DEF Messages
  <2>6. screen[c] = "offer"
      BY <1>1, <2>1 DEF Known, ChatInv, MessageOK, FreshInv, Fresh, Rendering
  <2>7. \/ screen'[c] = "work"
        \/ screen'[c] = "offer" /\ o \in cut'
      BY <1>1, <2>1, <2>4, <2>5, <2>6 DEF Render, Edited, TypeOK
  <2> QED
      BY <2>7 DEF c
<1>6. CASE ~\E t \in threads : t.order = o /\ t.at = "render"
  <2>1. \/ screen[c] \in {"work", "reason", "flagged"}
        \/ screen[c] = "offer" /\ o \in cut
      BY <1>3, <1>4, <1>6 DEF HolderCanFinish, c
  <2>2. CASE screen'[c] = screen[c]
      BY <1>2, <2>1, <2>2 DEF Settled, c
  <2>3. CASE screen'[c] # screen[c]
    <3>1. PICK t \in threads : ThreadStep(t) /\ Written(t, c)
        BY <1>1, <2>1, <2>3, ScreenMoves
    <3>2. ThreadOK(t)
        BY DEF Known, ThreadInv
    <3>3. c \notin t.pings
        BY <1>1, <3>2 DEF ThreadOK, Pings
    <3>4. c = t.msg
        BY <3>1, <3>3 DEF Written
    <3>5. t.order = o /\ (t.stage = "none" => t.user = u)
        BY <1>1, <3>2, <3>4 DEF ThreadOK
    <3>6. t.at \notin Over /\ t.at # "gone"
      <4>1. status[o] = "taken"
          BY <1>3 DEF InWork
      <4>2. t.at \notin Over
          BY <3>2, <3>5, <4>1 DEF ThreadOK, Closed
      <4>3. t.at = "gone" => t.stage = "none"
          BY <3>2 DEF ThreadOK, RunSteps
      <4> QED
          BY <1>3, <3>2, <3>5, <4>2, <4>3 DEF ThreadOK
    <3>7. t.at # "send"
        BY <1>1, <3>2, <3>4 DEF ThreadOK, Pings
    <3> QED
        BY <3>1, <3>3, <3>6, <3>7 DEF Written, Writes, Over, c
  <2> QED
      BY <2>2, <2>3
<1> QED
    BY <1>5, <1>6

\* Whoever has an order in work has a card to finish it with, whatever he and the jobs did
\* at the same time and whichever edits Telegram refused; until a restart, once the card
\* was rendered, and unless it was that edit.
THEOREM CardStays == Spec => []HolderCanFinish
<1>1. Init => HolderCanFinish
    BY DEF Init, HolderCanFinish, InWork
<1>2. TypeOK /\ TypeOK' /\ Known /\ FreshInv /\ HolderCanFinish /\ [Next]_vars => HolderCanFinish'
    BY CardsHeld
<1> QED
    BY <1>1, <1>2, TimeoutsTyped, AlwaysKnown, AlwaysFresh, PTL DEF Spec
----------------------------------------------------------------------------
(* A prompt ahead was never on the screen.                                  *)

\* Only the run that sends a prompt takes it out of those ahead.
LEMMA UnsentKept ==
    ASSUME TypeOK, Known, [Next]_vars, NEW m \in Messages, m[3] \in Pings, Unsent(m),
           ~\E t \in threads : ThreadStep(t) /\ t.at = "send" /\ t.msg = m
    PROVE  Unsent(m)'
<1>1. screen'[m] = "none"
  <2>1. ASSUME screen'[m] # screen[m] PROVE FALSE
    <3>1. PICK t \in threads : ThreadStep(t) /\ Written(t, m)
        BY <2>1, ScreenMoves DEF Unsent
    <3> QED
        BY <2>1, <3>1 DEF Written, Unsent
  <2> QED
      BY <2>1 DEF Unsent
<1>2. m[2] \in Users
    BY DEF Messages
<1>3. m \notin data'[m[2]]
  <2>1. CASE data'[m[2]] = data[m[2]]
      BY <2>1 DEF Unsent
  <2>2. CASE data'[m[2]] # data[m[2]]
      BY <1>2, <2>2, DataMoves DEF Unsent
  <2> QED
      BY <2>1, <2>2
<1>4. ASSUME NEW x \in threads', x.stage = "none", x.msg = m PROVE FALSE
  <2>1. x \notin threads
      BY <1>4 DEF Unsent
  <2>2. ~Taken(x)
      BY <1>4 DEF Taken, Card, Pings
  <2>3. ~(Pressed(x) \/ Submitted(x))
    <3> SUFFICES ASSUME Pressed(x) \/ Submitted(x) PROVE FALSE
        OBVIOUS
    <3>1. x.user = m[2] /\ (screen[m] \in {"work", "ask", "reason"} \/ m \in data[x.user])
        BY <1>4, PressedOn
    <3> QED
        BY <3>1 DEF Unsent
  <2>4. ~Fired(x)
    <3> SUFFICES ASSUME Fired(x) PROVE FALSE
        OBVIOUS
    <3>1. PICK o \in Orders : job[o] # NoJob /\ x.stage = job[o].stage
        BY DEF Fired, JobFires
    <3> QED
        BY <1>4, <3>1 DEF TypeOK, Jobs, Stages, Pings
  <2>5. ASSUME NEW t \in threads, Follows(t, x) PROVE FALSE
    <3>1. t.stage = "none" /\ ThreadOK(t)
        BY <1>4, <2>5 DEF Follows, Known, ThreadInv
    <3>2. t.at # "pop"
        BY <3>1 DEF ThreadOK, StartSteps, Handling, Dialogue
    <3> QED
        BY <1>4, <2>5, <3>1, <3>2 DEF Follows, Unsent
  <2> QED
      BY <2>1, <2>2, <2>3, <2>4, <2>5, ThreadsFrom
<1> QED
    BY <1>1, <1>3, <1>4 DEF Unsent

\* A run that sends is of one order, whose chain it is.
LEMMA UnsentApart ==
    ASSUME TypeOK, Known, ChainInv, [Next]_vars, NEW o \in Orders, NEW u \in Users,
           ~\E t \in threads : ThreadStep(t) /\ t.at = "send" /\ t.order = o
    PROVE  \A p \in Pings : Unsent(<<o, u, p>>) => Unsent(<<o, u, p>>)'
<1> SUFFICES ASSUME NEW p \in Pings, Unsent(<<o, u, p>>) PROVE Unsent(<<o, u, p>>)'
    OBVIOUS
<1> DEFINE m == <<o, u, p>>
<1>1. m \in Messages /\ m[1] = o /\ m[3] = p
    BY DEF Messages
<1> HIDE DEF m
<1>2. ~\E t \in threads : ThreadStep(t) /\ t.at = "send" /\ t.msg = m
    BY <1>1 DEF Known, ThreadInv, ThreadOK
<1>3. Unsent(m)
    BY DEF m
<1>4. Unsent(m)'
    BY <1>1, <1>2, <1>3, UnsentKept
<1> QED
    BY <1>4 DEF m

LEMMA UnsentThreads ==
    ASSUME TypeOK, TypeOK', Known, ChainInv, UnsentInv, [Next]_vars, NEW x \in threads'
    PROVE  UnsentThread(x)'
<1> SUFFICES ASSUME x.at \in ChainSteps PROVE UnsentThread(x)'
    BY DEF UnsentThread, ChainSteps
<1>0. x.order \in Orders /\ x.user \in Users
    BY DEF TypeOK, Threads
<1>1. CASE x \in threads
  <2>1. ~\E t \in threads : ThreadStep(t) /\ t.at = "send" /\ t.order = x.order
    <3> SUFFICES ASSUME NEW t \in threads, ThreadStep(t), t.at = "send", t.order = x.order PROVE FALSE
        OBVIOUS
    <3>1. t = x
        BY <1>0, <1>1 DEF ChainInv, ChainOK, InChain, ChainSteps
    <3> QED
        BY <3>1, StepLeaves
  <2>2. \A p \in Pings : Unsent(<<x.order, x.user, p>>) => Unsent(<<x.order, x.user, p>>)'
      BY <1>0, <2>1, UnsentApart
  <2>3. UnsentThread(x)
      BY <1>1 DEF UnsentInv
  <2> QED
      BY <2>2, <2>3 DEF UnsentThread, Ahead
<1>2. ASSUME NEW t \in threads, ThreadStep(t), Follows(t, x) PROVE UnsentThread(x)'
  <2>1. UnsentThread(t) /\ ThreadOK(t)
      BY DEF UnsentInv, Known, ThreadInv
  <2>2. t.order = x.order /\ t.user = x.user /\ t.stage = x.stage /\ <<t.at, x.at>> \in Moves
      BY <1>2 DEF Follows
  <2>3. t.at \in ChainSteps
      BY <2>2 DEF Moves, ChainSteps
  <2>4. ASSUME NEW p \in Pings, Unsent(<<x.order, x.user, p>>), t.at = "send" => p # t.stage
        PROVE  Unsent(<<x.order, x.user, p>>)'
    <3> DEFINE m == <<x.order, x.user, p>>
    <3>1. m \in Messages /\ m[1] = x.order /\ m[3] = p
        BY <1>0 DEF Messages
    <3>2. t.at = "send" => t.msg # m
        BY <2>1, <2>4 DEF ThreadOK
    <3>3. ASSUME NEW y \in threads, ThreadStep(y), y.at = "send", y.msg = m PROVE y = t
      <4>1. y.order = t.order
          BY <2>2, <3>1, <3>3 DEF Known, ThreadInv, ThreadOK
      <4> QED
          BY <1>0, <2>2, <2>3, <3>3, <4>1 DEF ChainInv, ChainOK, InChain, ChainSteps
    <3>4. Unsent(m)
        BY <2>4
    <3> HIDE DEF m
    <3>5. ~\E y \in threads : ThreadStep(y) /\ y.at = "send" /\ y.msg = m
        BY <3>2, <3>3
    <3>6. Unsent(m)'
        BY <3>1, <3>4, <3>5, UnsentKept
    <3> QED
        BY <3>6 DEF m
  <2>5. CASE t.at = "send"
      BY <2>1, <2>2, <2>4, <2>5 DEF UnsentThread, Moves, Ahead
  <2>6. CASE t.at # "send"
      BY <2>1, <2>2, <2>4, <2>6 DEF UnsentThread, Moves, Ahead, ChainSteps
  <2> QED
      BY <2>5, <2>6
<1>3. CASE Taken(x)
  <2>1. status[x.order] = "offering" /\ Take(x.order, x.user)
      BY <1>3 DEF Taken, Take
  <2>2. ASSUME NEW p \in Pings PROVE Unsent(<<x.order, x.user, p>>)'
    <3> DEFINE m == <<x.order, x.user, p>>
    <3>1. m \in Messages /\ m[1] = x.order /\ m[2] = x.user /\ m[3] = p
        BY <1>0 DEF Messages
    <3> HIDE DEF m
    <3>2. screen[m] = "none"
        BY <2>1, <3>1 DEF Known, ChatInv, MessageOK, Pings
    <3>3. m \notin data[m[2]]
        BY <1>0, <2>1, <3>1 DEF Known, ChatInv, DataOK
    <3>4. \A t \in threads : t.msg # m
        BY <2>1, <3>1 DEF Known, ThreadInv, ThreadOK
    <3>5. Unsent(m)'
        BY <3>1, <3>2, <3>3, <3>4, UnsentKept DEF Unsent
    <3> QED
        BY <3>5 DEF m
  <2> QED
      BY <1>3, <2>2 DEF Taken, UnsentThread
<1>4. CASE Fired(x)
  <2>1. JobFires(x.order) /\ job[x.order] # NoJob /\ x.user = job[x.order].user
        /\ x.stage = job[x.order].stage /\ x.at = "check"
      BY <1>4 DEF Fired, JobFires
  <2>2. ~\E t \in threads : ThreadStep(t) /\ t.at = "send" /\ t.order = x.order
      BY <1>0, <2>1 DEF ChainInv, ChainOK, InChain, ChainSteps
  <2>3. \A p \in Pings : Unsent(<<x.order, x.user, p>>) => Unsent(<<x.order, x.user, p>>)'
      BY <1>0, <2>2, UnsentApart
  <2>4. \A p \in Ahead(x.stage) : Unsent(<<x.order, x.user, p>>)
      BY <1>0, <2>1 DEF UnsentInv, UnsentJob
  <2> QED
      BY <2>1, <2>3, <2>4 DEF UnsentThread, Ahead
<1>5. ~Pressed(x) /\ ~Submitted(x)
    BY DEF Pressed, Submitted, ChainSteps
<1> QED
    BY <1>1, <1>2, <1>3, <1>4, <1>5, ThreadsFrom

LEMMA UnsentJobs ==
    ASSUME TypeOK, TypeOK', Known, ChainInv, UnsentInv, [Next]_vars, NEW o \in Orders
    PROVE  UnsentJob(o)'
<1> USE DEF rowVars, chatVars, auxVars, histVars, mishaps, pressVars
<1> SUFFICES ASSUME job'[o] # NoJob PROVE UnsentJob(o)'
    BY DEF UnsentJob
<1>0. ASSUME NEW j, j = job'[o], \A p \in Ahead(j.stage) : Unsent(<<o, j.user, p>>)'
      PROVE  UnsentJob(o)'
    BY <1>0 DEF UnsentJob, Unsent
<1>1. CASE job'[o] = job[o]
  <2>1. ~\E t \in threads : ThreadStep(t) /\ t.at = "send" /\ t.order = o
      BY <1>1 DEF ChainInv, ChainOK, InChain, ChainSteps
  <2>2. job[o].user \in Users
      BY <1>1 DEF TypeOK, Jobs
  <2>3. PICK j : j = job[o] /\ j = job'[o] /\ j.user \in Users
      BY <1>1, <2>2
  <2>4. \A p \in Pings : Unsent(<<o, j.user, p>>) => Unsent(<<o, j.user, p>>)'
      BY <2>1, <2>3, UnsentApart
  <2>5. \A p \in Ahead(j.stage) : Unsent(<<o, j.user, p>>)
      BY <1>1, <2>3 DEF UnsentInv, UnsentJob
  <2>6. \A p \in Ahead(j.stage) : Unsent(<<o, j.user, p>>)'
      BY <2>4, <2>5 DEF Ahead
  <2> QED
      BY <1>0, <2>3, <2>6
<1>2. CASE job'[o] # job[o]
  <2>1. PICK t \in threads : ThreadStep(t) /\ (Schedule(t) \/ Rearm(t)) /\ t.order = o
    <3>1. ASSUME NEW t \in threads, Schedule(t) \/ Rearm(t) PROVE t.order = o
      <4>1. PICK s : Arm(t.order, t.user, s)
          BY <3>1 DEF Schedule, Rearm
      <4> QED
          BY <1>2, <4>1 DEF Arm, TypeOK
    <3>2. ASSUME NEW t \in threads, ThreadStep(t), ~Schedule(t), ~Rearm(t)
          PROVE  FALSE
        BY <1>2, <3>2 DEF ThreadStep, Render, RememberTaken, Check, SendPrompt, AddPing,
          ExpireTaken, PopTimedOut, RenderTimedOut, DeletePings, Review, Freeze, Flag, Close, Clear, Finish,
          NameOrder, PromptReason, LookBack, GoBack, TypeOK, Threads
    <3>3. ASSUME NEW q \in Orders, JobFires(q) PROVE FALSE
        BY <1>2, <3>3 DEF JobFires, TypeOK
    <3>4. ASSUME UserStep \/ (\E q \in Orders : RecordExpires(q)) \/ Restart \/ UNCHANGED vars
          PROVE  FALSE
        BY <1>2, <3>4 DEF UserStep, Take, PressReady, PressCancel, AbortReason, Dismiss, SubmitReason,
          LeaveDialogue, RecordExpires, Restart, vars
    <3> QED
        BY <3>1, <3>2, <3>3, <3>4 DEF Next, ThreadStep
  <2>2. UnsentThread(t) /\ ThreadOK(t) /\ t.user \in Users
      BY DEF UnsentInv, Known, ThreadInv, TypeOK, Threads
  <2>3. t.at \in {"schedule", "arm"}
      BY <2>1 DEF Schedule, Rearm
  <2>4. ~\E y \in threads : ThreadStep(y) /\ y.at = "send" /\ y.order = o
      BY <2>1, <2>3 DEF ChainInv, ChainOK, InChain, ChainSteps
  <2>5. \A p \in Pings : Unsent(<<o, t.user, p>>) => Unsent(<<o, t.user, p>>)'
      BY <2>2, <2>4, UnsentApart
  <2>6. /\ job'[o].user = t.user
        /\ \A p \in Ahead(job'[o].stage) : p \in Pings /\ Unsent(<<o, t.user, p>>)
    <3>1. CASE Schedule(t)
        BY <2>1, <2>2, <3>1 DEF Schedule, Arm, TypeOK, UnsentThread, Ahead
    <3>2. CASE Rearm(t)
      <4>1. t.stage \in Pings /\ t.at = "arm"
          BY <2>2, <3>2 DEF Rearm, ThreadOK
      <4>2. job'[o] = [stage |-> IF t.stage = "checkIn" THEN "lastCall" ELSE "expiry", user |-> t.user]
          BY <2>1, <3>2 DEF Rearm, Arm, TypeOK
      <4>3. \A p \in Ahead(job'[o].stage) : p \in Ahead(t.stage) \ {t.stage}
          BY <4>1, <4>2 DEF Ahead, Before, Pings
      <4> QED
          BY <2>1, <2>2, <4>1, <4>2, <4>3 DEF UnsentThread, Ahead
    <3> QED
        BY <2>1, <3>1, <3>2
  <2>7. PICK j : j = job'[o] /\ j.user = t.user
      BY <2>6
  <2>8. \A p \in Ahead(j.stage) : Unsent(<<o, j.user, p>>)'
      BY <2>5, <2>6, <2>7
  <2> QED
      BY <1>0, <2>7, <2>8
<1> QED
    BY <1>1, <1>2

LEMMA AlwaysUnsent == Spec => []UnsentInv
<1>1. Init => UnsentInv
    BY DEF Init, UnsentInv, UnsentJob
<1>2. TypeOK /\ TypeOK' /\ Known /\ ChainInv /\ UnsentInv /\ [Next]_vars => UnsentInv'
    BY UnsentThreads, UnsentJobs DEF UnsentInv
<1> QED
    BY <1>1, <1>2, TimeoutsTyped, AlwaysKnown, AlwaysChained, PTL DEF Spec
----------------------------------------------------------------------------
(* The cancel dialogue.                                                     *)

LEMMA OneNew ==
    ASSUME TypeOK, [Next]_vars, NEW x \in threads' \ threads, NEW y \in threads' \ threads
    PROVE  x = y
<1> SUFFICES \E z : threads' \subseteq threads \cup {z}
    OBVIOUS
<1>1. CASE threads' \subseteq threads
    BY <1>1
<1>2. ASSUME NEW z, Begin(z) PROVE \E v : threads' \subseteq threads \cup {v}
    BY <1>2 DEF Begin
<1>3. ASSUME NEW t \in threads, ThreadStep(t) PROVE \E v : threads' \subseteq threads \cup {v}
    BY <1>1, <1>3, StepMoves DEF End, Moved
<1>4. CASE UserStep
    BY <1>1, <1>2, <1>4 DEF UserStep, Take, PressReady, PressCancel, AbortReason, Dismiss, SubmitReason,
        LeaveDialogue
<1>5. CASE (\E o \in Orders : JobFires(o) \/ RecordExpires(o)) \/ Restart \/ UNCHANGED vars
    BY <1>1, <1>2, <1>5 DEF JobFires, RecordExpires, Restart, vars
<1> QED
    BY <1>3, <1>4, <1>5 DEF Next

\* The users who waited until now did; who presses now had no handler in flight.
LEMMA HastyMoves ==
    ASSUME TypeOK, Known, [Next]_vars
    PROVE  /\ hasty \subseteq hasty'
           /\ \A x : (Pressed(x) \/ Submitted(x)) /\ x.user \notin hasty' => Presses(x.user) = {}
<1> USE DEF rowVars, chatVars, auxVars, histVars, mishaps, pressVars
<1>1. hasty \subseteq hasty'
  <2>1. ASSUME NEW u \in Users, Hurry(u) PROVE hasty \subseteq hasty'
      BY <2>1 DEF Hurry
  <2>2. ASSUME NEW m \in Messages PROVE m[2] \in Users
      BY DEF Messages
  <2>3. ASSUME NEW t \in threads, ThreadStep(t) PROVE UNCHANGED hasty
      BY <2>3 DEF ThreadStep, Render, Schedule, RememberTaken, Check, SendPrompt, AddPing,
          Rearm, ExpireTaken, PopTimedOut, RenderTimedOut, DeletePings, Review, Freeze, Flag, Close, Clear, Finish,
          NameOrder, PromptReason, LookBack, GoBack
  <2>4. ASSUME UserStep PROVE hasty \subseteq hasty'
      BY <2>1, <2>2, <2>4 DEF UserStep, Take, PressReady, PressCancel, AbortReason, Dismiss, SubmitReason,
        LeaveDialogue
  <2>5. ASSUME (\E o \in Orders : JobFires(o) \/ RecordExpires(o)) \/ Restart \/ UNCHANGED vars
        PROVE  UNCHANGED hasty
      BY <2>5 DEF JobFires, RecordExpires, Restart, vars
  <2> QED
      BY <2>3, <2>4, <2>5 DEF Next
<1>2. ASSUME NEW x, Pressed(x) \/ Submitted(x), x.user \notin hasty' PROVE Presses(x.user) = {}
  <2>1. CASE Pressed(x)
    <3>1. PICK m \in Messages : x.user = m[2] /\ Hurry(m[2])
        BY <2>1 DEF Pressed, PressReady, PressCancel, AbortReason
    <3>2. Hurry(x.user)
        BY <3>1
    <3> QED
        BY <1>2, <3>2 DEF Hurry
  <2>2. CASE Submitted(x)
    <3>1. PICK u \in Users : Hurry(u) /\ \E m \in data[u] : x.user = m[2]
        BY <2>2 DEF Submitted, SubmitReason
    <3>2. x.user = u
        BY <3>1 DEF Known, ChatInv, DataOK
    <3> QED
        BY <1>2, <3>1, <3>2 DEF Hurry
  <2> QED
      BY <1>2, <2>1, <2>2
<1> QED
    BY <1>1, <1>2

LEMMA FsmMoves ==
    ASSUME TypeOK, Known, [Next]_vars, NEW u \in Users, fsm'[u] = "awaiting_reason"
    PROVE  /\ fsm[u] = "awaiting_reason" \/ \E x \in threads' : Pressed(x) /\ x.user = u /\ x.at = "data"
           /\ \A x : (Pressed(x) /\ x.at = "look") \/ Submitted(x) => x.user # u
<1> USE DEF rowVars, chatVars, auxVars, histVars, mishaps, pressVars
<1>1. ASSUME fsm[u] # "awaiting_reason"
      PROVE  \E x \in threads' : Pressed(x) /\ x.user = u /\ x.at = "data"
  <2>1. ASSUME NEW m \in Messages, PressCancel(m)
        PROVE  \E x \in threads' : Pressed(x) /\ x.user = u /\ x.at = "data"
    <3> DEFINE x == Press("data", m)
    <3>1. /\ x.order = m[1] /\ x.user = m[2] /\ x.stage = "none" /\ x.msg = m /\ x.pings = {}
          /\ x.at = "data"
        BY DEF Press
    <3>2. x \in threads' /\ m[2] = u
        BY <1>1, <2>1 DEF PressCancel, Begin, TypeOK
    <3> HIDE DEF x
    <3> QED
        BY <2>1, <3>1, <3>2 DEF Pressed
  <2>2. ASSUME NEW t \in threads, ThreadStep(t)
        PROVE  FALSE
      BY <1>1, <2>2 DEF ThreadStep, Render, Schedule, RememberTaken, Check, SendPrompt, AddPing,
          Rearm, ExpireTaken, PopTimedOut, RenderTimedOut, DeletePings, Review, Freeze, Flag, Close, Clear, Finish,
          NameOrder, PromptReason, LookBack, GoBack, TypeOK
  <2>3. ASSUME UserStep, ~\E m \in Messages : PressCancel(m)
        PROVE  FALSE
      BY <1>1, <2>3 DEF UserStep, Take, PressReady, AbortReason, Dismiss, SubmitReason,
        LeaveDialogue, TypeOK
  <2>4. ASSUME (\E o \in Orders : JobFires(o) \/ RecordExpires(o)) \/ Restart \/ UNCHANGED vars
        PROVE  FALSE
      BY <1>1, <2>4 DEF JobFires, RecordExpires, Restart, vars
  <2> QED
      BY <2>1, <2>2, <2>3, <2>4 DEF Next, UserStep
<1>2. ASSUME NEW x, Pressed(x), x.at = "look", x.user = u PROVE FALSE
  <2>1. PICK m \in Messages : AbortReason(m) /\ m[2] = u
      BY <1>2 DEF Pressed
  <2> QED
      BY <2>1 DEF AbortReason, TypeOK
<1>3. ASSUME NEW x, Submitted(x), x.user = u PROVE FALSE
  <2>1. PICK v \in Users : SubmitReason(v) /\ \E m \in data[v] : x.user = m[2]
      BY <1>3 DEF Submitted
  <2>2. v = u
      BY <1>3, <2>1 DEF Known, ChatInv, DataOK
  <2> QED
      BY <2>1, <2>2 DEF SubmitReason, TypeOK
<1> QED
    BY <1>1, <1>2, <1>3

\* Only a prompt on the screen makes up for one that was not.
LEMMA MisledMoves ==
    ASSUME TypeOK, Known, [Next]_vars, NEW u \in misled, u \notin misled'
    PROVE  \E t \in Presses(u) : t.at = "prompt"
<1> USE DEF rowVars, chatVars, auxVars, histVars, mishaps, pressVars
<1>1. ASSUME NEW t \in threads, ThreadStep(t) PROVE \E x \in Presses(u) : x.at = "prompt"
  <2>1. PromptReason(t)
      BY <1>1 DEF ThreadStep, Render, Schedule, RememberTaken, Check, SendPrompt, AddPing,
          Rearm, ExpireTaken, PopTimedOut, RenderTimedOut, DeletePings, Review, Freeze, Flag, Close, Clear, Finish,
          NameOrder, LookBack, GoBack
  <2>2. t.at = "prompt" /\ t.user = u
      BY <2>1 DEF PromptReason
  <2>3. t.stage = "none"
      BY <2>2 DEF Known, ThreadInv, ThreadOK, RunSteps
  <2> QED
      BY <2>2, <2>3 DEF Presses, StartSteps
<1>2. ASSUME UserStep PROVE FALSE
    BY <1>2 DEF UserStep, Take, PressReady, PressCancel, AbortReason, Dismiss, SubmitReason,
        LeaveDialogue
<1>3. ASSUME (\E o \in Orders : JobFires(o) \/ RecordExpires(o)) \/ Restart \/ UNCHANGED vars
      PROVE  FALSE
    BY <1>3 DEF JobFires, RecordExpires, Restart, vars
<1> QED
    BY <1>1, <1>2, <1>3 DEF Next

LEMMA VisibleKept ==
    ASSUME TypeOK, Known, FreshInv, UnsentInv, [Next]_vars, NEW u \in Users, Visible(u),
           data'[u] = data[u], ~\E t \in Presses(u) : t.at \in {"back", "gone", "prompt"}
    PROVE  Visible(u)'
<1>0. CASE u \in misled
    BY <1>0, MisledMoves DEF Visible
<1> SUFFICES ASSUME u \notin misled,
                    NEW m \in data[u], InWork(m[1], u)', screen'[m] # screen[m]
             PROVE  screen'[m] \in {"reason", "flagged", "none"}
  <2>1. \A m \in data[u] : m \in Messages /\ status[m[1]] # "offering"
      BY DEF Known, ChatInv, DataOK, TypeOK
  <2>2. \A m \in data[u] : InWork(m[1], u)' => InWork(m[1], u)
      BY <2>1, StepsSettle DEF Settled, InWork, Messages
  <2> QED
      BY <1>0, <2>2 DEF Visible
<1>1. m \in Messages /\ m[2] = u /\ m[1] \in Orders /\ status[m[1]] # "offering"
    BY DEF Known, ChatInv, DataOK, TypeOK, Messages
<1>2. status[m[1]] = "taken" /\ holder[m[1]] = u
    BY <1>1, StepsSettle DEF Settled, InWork
<1>3. CASE screen'[m] = "none"
    BY <1>3
<1>4. ASSUME NEW t \in threads, ThreadStep(t), Written(t, m), t.msg = m, screen'[m] # "none"
      PROVE  screen'[m] \in {"reason", "flagged", "none"}
  <2>1. ThreadOK(t) /\ t.order = m[1]
      BY <1>4 DEF Known, ThreadInv, ThreadOK
  <2>2. t.at # "render"
      BY <1>1, <2>1 DEF FreshInv, Rendering, Fresh
  <2>3. t.at \notin Over
      BY <1>2, <2>1 DEF ThreadOK, Closed
  <2>4. t.at \notin {"back", "gone"}
    <3> SUFFICES ASSUME t.at \in {"back", "gone"} PROVE FALSE
        OBVIOUS
    <3>1. t.stage = "none"
        BY <2>1 DEF ThreadOK, RunSteps
    <3>2. t \in Presses(u)
        BY <1>1, <1>4, <2>1, <3>1 DEF ThreadOK, Presses, StartSteps
    <3> QED
        BY <3>2
  <2>5. t.at # "send"
    <3> SUFFICES ASSUME t.at = "send" PROVE FALSE
        OBVIOUS
    <3>1. t.stage \in Pings /\ t.msg = <<t.order, t.user, t.stage>>
        BY <2>1 DEF ThreadOK
    <3>2. t.stage \in Ahead(t.stage)
        BY <3>1 DEF Ahead, Before, Pings
    <3>3. Unsent(m)
        BY <1>4, <3>1, <3>2 DEF UnsentInv, UnsentThread
    <3> QED
        BY <1>1, <3>3 DEF Unsent
  <2> QED
      BY <1>4, <2>2, <2>3, <2>4, <2>5 DEF Written, Writes, Over
<1> QED
    BY <1>1, <1>3, <1>4, ScreenMoves DEF Written

\* Where a press of a user comes from.
LEMMA PressesFrom ==
    ASSUME TypeOK, [Next]_vars, NEW u \in Users, NEW x \in Presses(u)'
    PROVE  \/ x \in Presses(u)
           \/ x \notin threads /\ \E t \in Presses(u) : ThreadStep(t) /\ Follows(t, x)
           \/ x \notin threads /\ x.user = u /\ (Pressed(x) \/ Submitted(x))
<1>1. x \in threads' /\ x.user = u /\ x.stage = "none" /\ x.at \notin StartSteps
    BY DEF Presses
<1>2. CASE x \in threads
    BY <1>1, <1>2 DEF Presses
<1>3. ~Taken(x)
    BY <1>1 DEF Taken, StartSteps
<1>4. ~Fired(x)
    BY <1>1 DEF Fired, JobFires, TypeOK, Jobs, Stages, Pings
<1>5. ASSUME NEW t \in threads, Follows(t, x) PROVE t \in Presses(u)
    BY <1>1, <1>5 DEF Follows, Moves, Presses, StartSteps
<1> QED
    BY <1>1, <1>2, <1>3, <1>4, <1>5, ThreadsFrom

LEMMA AwaitOne ==
    ASSUME TypeOK, Known, [Next]_vars, NEW u \in Users \ hasty', \A t, x \in Presses(u) : t = x
    PROVE  \A x, y \in Presses(u)' : x = y
<1> SUFFICES ASSUME NEW x \in Presses(u)', NEW y \in Presses(u)', x # y
             PROVE  FALSE
    OBVIOUS
<1>1. x \in threads' /\ y \in threads'
    BY DEF Presses
<1>2. ASSUME NEW z \in Presses(u)', z \notin threads, NEW v \in Presses(u)', v \in threads
      PROVE  FALSE
  <2>1. v \in Presses(u) /\ v \in threads'
      BY <1>2 DEF Presses
  <2>2. ~(Pressed(z) \/ Submitted(z)) \/ z.user # u
      BY <2>1, HastyMoves
  <2>3. PICK t \in Presses(u) : ThreadStep(t)
      BY <1>2, <2>2, PressesFrom DEF Presses
  <2>4. t = v /\ t \in threads
      BY <2>1, <2>3 DEF Presses
  <2> QED
      BY <2>1, <2>3, <2>4, StepLeaves
<1>3. CASE x \in threads /\ y \in threads
    BY <1>3 DEF Presses
<1>4. CASE x \notin threads /\ y \notin threads
    BY <1>1, <1>4, OneNew
<1> QED
    BY <1>2, <1>3, <1>4

LEMMA AwaitInductive ==
    ASSUME TypeOK, TypeOK', Known, FreshInv, UnsentInv, AwaitInv, [Next]_vars
    PROVE  AwaitInv'
<1> SUFFICES ASSUME NEW u \in Users \ hasty' PROVE AwaitOK(u)'
    BY DEF AwaitInv
<1>1. AwaitOK(u) /\ u \in Users
    BY HastyMoves DEF AwaitInv
<1>2. \A x, y \in Presses(u)' : x = y
    BY <1>1, AwaitOne DEF AwaitOK
<1> SUFFICES ASSUME ~restarted', fsm'[u] = "awaiting_reason"
             PROVE  /\ Presses(u)' = {} => Visible(u)'
                    /\ \A t \in Presses(u)' :
                        \/ t.at = "data"
                        \/ t.at = "prompt" /\ data'[u] = {t.msg}
                        \/ t.at \in Handling /\ Visible(u)'
    BY <1>2 DEF AwaitOK
<1>3. CASE \E x \in threads' : Pressed(x) /\ x.user = u /\ x.at = "data"
  <2>1. PICK x \in threads' : Pressed(x) /\ x.user = u /\ x.at = "data"
      BY <1>3
  <2>2. x \in Presses(u)'
      BY <2>1 DEF Presses, Pressed, StartSteps
  <2> QED
      BY <1>2, <2>1, <2>2
<1>4. CASE ~\E x \in threads' : Pressed(x) /\ x.user = u /\ x.at = "data"
  <2>1. fsm[u] = "awaiting_reason"
      BY <1>1, <1>4, FsmMoves
  <2>2. ~restarted /\ ~Restart
      BY RestartOnce DEF Restart
  <2>3. /\ Presses(u) = {} => Visible(u)
        /\ \A t \in Presses(u) :
            \/ t.at = "data"
            \/ t.at = "prompt" /\ data[u] = {t.msg}
            \/ t.at \in Handling /\ Visible(u)
      BY <1>1, <2>1, <2>2 DEF AwaitOK
  <2>4. ~\E t \in Presses(u) : t.at \in {"back", "gone", "look"}
      BY <2>3 DEF Handling
  <2>5. ASSUME data'[u] # data[u]
        PROVE  \E t \in Presses(u) : NameOrder(t) /\ t.at = "data" /\ t \notin threads' /\ data'[u] = {t.msg}
    <3>1. PICK t \in threads : NameOrder(t) /\ t.user = u /\ t.stage = "none" /\ data'[u] = {t.msg}
        BY <1>1, <2>5, DataMoves
    <3>2. t.at = "data" /\ ThreadStep(t)
        BY <3>1 DEF NameOrder, ThreadStep
    <3> QED
        BY <3>1, <3>2, StepLeaves DEF Presses, StartSteps
  <2>6. ASSUME Visible(u), data'[u] = data[u], ~\E t \in Presses(u) : t.at = "prompt"
        PROVE  Visible(u)'
      BY <1>1, <2>4, <2>6, VisibleKept
  <2>65. ASSUME NEW t \in Presses(u), t.at \in Handling PROVE ~\E x \in Presses(u) : x.at = "prompt"
      BY <1>1, <2>65 DEF AwaitOK, Handling
  <2>7. ASSUME NEW t \in Presses(u)'
        PROVE  \/ t.at = "data"
               \/ t.at = "prompt" /\ data'[u] = {t.msg}
               \/ t.at \in Handling /\ Visible(u)'
    <3>1. CASE t \in Presses(u)
      <4>1. data'[u] = data[u]
          BY <1>1, <2>5, <3>1 DEF AwaitOK, Presses
      <4> QED
          BY <2>3, <2>6, <2>65, <3>1, <4>1
    <3>2. ASSUME NEW z \in Presses(u), ThreadStep(z), Follows(z, t)
          PROVE  \/ t.at = "prompt" /\ data'[u] = {t.msg}
                 \/ t.at \in Handling /\ Visible(u)'
      <4>1. <<z.at, t.at>> \in Moves /\ (z.at # "pop" => t.msg = z.msg)
          BY <3>2 DEF Follows
      <4>2. CASE z.at = "data"
        <5>1. NameOrder(z)
            BY <3>2, <4>2, StepAt
        <5>2. data'[u] = {z.msg}
            BY <1>1, <5>1 DEF NameOrder, Presses, TypeOK
        <5> QED
            BY <4>1, <4>2, <5>2 DEF Moves
      <4>3. CASE z.at \in Handling /\ Visible(u)
        <5>1. data'[u] = data[u]
            BY <1>1, <2>5, <4>3 DEF AwaitOK, Handling
        <5>2. t.at \in Handling
            BY <4>1, <4>3 DEF Moves, Handling
        <5> QED
            BY <2>6, <2>65, <4>3, <5>1, <5>2
      <4>4. z.at # "prompt"
          BY <4>1 DEF Moves
      <4> QED
          BY <2>3, <4>2, <4>3, <4>4
    <3>3. ASSUME t \notin threads, t.user = u, Pressed(t) \/ Submitted(t)
          PROVE  t.at = "data" \/ (t.at \in Handling /\ Visible(u)')
      <4>1. Presses(u) = {}
          BY <3>3, HastyMoves
      <4>2. Visible(u)'
          BY <2>3, <2>5, <2>6, <4>1
      <4>3. ~Submitted(t) /\ t.at # "look"
          BY <1>1, <3>3, FsmMoves
      <4> QED
          BY <3>3, <4>2, <4>3 DEF Pressed, Handling
    <3> QED
        BY <1>1, <3>1, <3>2, <3>3, PressesFrom
  <2>8. ASSUME Presses(u)' = {} PROVE Visible(u)'
    <3>1. CASE Presses(u) = {}
        BY <2>3, <2>5, <2>6, <3>1
    <3>2. ASSUME NEW t \in Presses(u) PROVE Visible(u)'
      <4>1. t \in threads /\ t \notin threads' /\ t.user = u /\ t.stage = "none"
          BY <2>8, <3>2 DEF Presses
      <4>2. ThreadStep(t)
          BY <2>2, <4>1, ThreadsStay
      <4>3. t.at # "data"
        <5> SUFFICES ASSUME t.at = "data" PROVE FALSE
            OBVIOUS
        <5>1. NameOrder(t)
            BY <4>2, StepAt
        <5> DEFINE y == [t EXCEPT !.at = "prompt"]
        <5>2. y.at = "prompt" /\ y.user = u /\ y.stage = "none"
            BY <4>1 DEF TypeOK, Threads
        <5>3. y \in threads'
            BY <5>1 DEF NameOrder, Goto
        <5> HIDE DEF y
        <5> QED
            BY <2>8, <5>2, <5>3 DEF Presses, StartSteps
      <4>4. data'[u] = data[u]
          BY <1>1, <2>5, <3>2, <4>3 DEF AwaitOK
      <4>5. CASE t.at = "prompt" /\ data[u] = {t.msg}
        <5>1. PromptReason(t) /\ t.msg \in Messages
            BY <4>1, <4>2, <4>5, StepAt DEF TypeOK, Threads
        <5>2. u \in misled' \/ screen'[t.msg] = "reason"
            BY <4>1, <5>1 DEF PromptReason
        <5> QED
            BY <4>4, <4>5, <5>2 DEF Visible
      <4>6. CASE Visible(u) /\ t.at \in Handling
          BY <2>6, <2>65, <4>4, <4>6
      <4> QED
          BY <2>3, <3>2, <4>3, <4>5, <4>6
    <3> QED
        BY <3>1, <3>2
  <2> QED
      BY <2>7, <2>8
<1> QED
    BY <1>1, <1>3, <1>4, FsmMoves

\* The order a user's next text will cancel is not on offer to be worked on, whatever the
\* jobs did meanwhile; if he waits for his presses to be answered.
THEOREM AwaitingShown == Spec => []AwaitingIsVisible
<1>1. Init => AwaitInv
  <2>1. Init => \A u \in Users : Presses(u) = {} /\ fsm[u] = "none"
      BY DEF Init, Presses
  <2> QED
      BY <2>1 DEF AwaitInv, AwaitOK
<1>2. TypeOK /\ TypeOK' /\ Known /\ FreshInv /\ UnsentInv /\ AwaitInv /\ [Next]_vars => AwaitInv'
    BY AwaitInductive
<1>3. AwaitInv => AwaitingIsVisible
    BY DEF AwaitInv, AwaitOK, AwaitingIsVisible, Visible
<1> QED
    BY <1>1, <1>2, <1>3, TimeoutsTyped, AlwaysKnown, AlwaysFresh, AlwaysUnsent, PTL DEF Spec
----------------------------------------------------------------------------
(* The record.                                                              *)

\* What may become of the record of an order.
LEMMA RecordMoves ==
    ASSUME TypeOK, [Next]_vars, NEW o \in Orders, record'[o] # record[o]
    PROVE  \/ /\ record'[o] = NoRecord
              /\ \/ RecordExpires(o)
                 \/ \E t \in threads : ThreadStep(t) /\ t.order = o /\ t.at \in {"clear", "pop"}
           \/ \E t \in threads : /\ ThreadStep(t) /\ t.order = o /\ t.at = "remember"
                                 /\ record'[o].card \in Users /\ record'[o].pings = record[o].pings
           \/ \E t \in threads : /\ ThreadStep(t) /\ t.order = o /\ t.at = "note"
                                 /\ record'[o].card = record[o].card
                                 /\ record'[o].pings = record[o].pings \cup {t.msg}
<1> USE DEF rowVars, chatVars, auxVars, histVars, mishaps, pressVars
<1>1. ASSUME NEW t \in threads PROVE t.order \in Orders /\ t.user \in Users
    BY DEF TypeOK, Threads
<1>2. ASSUME NEW t \in threads, PopTimedOut(t) \/ Clear(t)
      PROVE  record'[o] = NoRecord /\ t.order = o /\ t.at \in {"clear", "pop"}
    BY <1>1, <1>2 DEF PopTimedOut, Clear, TypeOK
<1>3. ASSUME NEW t \in threads, RememberTaken(t)
      PROVE  /\ t.order = o /\ t.at = "remember"
             /\ record'[o].card \in Users /\ record'[o].pings = record[o].pings
    BY <1>1, <1>3 DEF RememberTaken, TypeOK
<1>4. ASSUME NEW t \in threads, AddPing(t)
      PROVE  /\ t.order = o /\ t.at = "note"
             /\ record'[o].card = record[o].card /\ record'[o].pings = record[o].pings \cup {t.msg}
    BY <1>1, <1>4 DEF AddPing, TypeOK
<1>5. ASSUME NEW t \in threads, ThreadStep(t), ~PopTimedOut(t), ~Clear(t), ~RememberTaken(t), ~AddPing(t)
      PROVE  FALSE
    BY <1>5 DEF ThreadStep, Render, Schedule, Check, SendPrompt,
          Rearm, ExpireTaken, RenderTimedOut, DeletePings, Review, Freeze, Flag, Close, Finish,
          NameOrder, PromptReason, LookBack, GoBack
<1>6. ASSUME UserStep \/ (\E q \in Orders : JobFires(q)) \/ Restart \/ UNCHANGED vars
      PROVE  FALSE
    BY <1>6 DEF UserStep, Take, PressReady, PressCancel, AbortReason, Dismiss, SubmitReason,
        LeaveDialogue, JobFires, Restart, vars
<1>7. ASSUME NEW q \in Orders, RecordExpires(q)
      PROVE  q = o /\ record'[o] = NoRecord
    BY <1>7 DEF RecordExpires, TypeOK
<1> QED
    BY <1>2, <1>3, <1>4, <1>5, <1>6, <1>7 DEF Next

\* What may become of the status of an order.
LEMMA StatusMoves ==
    ASSUME TypeOK, [Next]_vars, NEW o \in Orders, status'[o] # status[o]
    PROVE  \/ status[o] = "offering" /\ \E x \in threads' : x.order = o /\ x.at = "render"
           \/ status[o] = "taken" /\ \E x \in threads' : x.order = o /\ x.at \in {"clear", "pop"}
<1> USE DEF rowVars, chatVars, auxVars, histVars, mishaps, pressVars
<1>1. ASSUME NEW t \in threads, ThreadStep(t)
      PROVE  status[o] = "taken" /\ \E x \in threads' : x.order = o /\ x.at \in {"clear", "pop"}
  <2>1. t.order \in Orders
      BY DEF TypeOK, Threads
  <2>2. ASSUME NEW at \in {"clear", "pop"}, NEW s, Goto(t, at), Resolve(t.order, t.user, s)
        PROVE  status[o] = "taken" /\ \E x \in threads' : x.order = o /\ x.at \in {"clear", "pop"}
    <3> DEFINE x == [t EXCEPT !.at = at]
    <3>1. x.at = at /\ x.order = t.order /\ x \in threads'
        BY <2>2 DEF TypeOK, Threads, Goto
    <3>2. t.order = o /\ status[o] = "taken"
        BY <2>1, <2>2 DEF Resolve, InWork, TypeOK
    <3> HIDE DEF x
    <3> QED
        BY <3>1, <3>2
  <2>3. ExpireTaken(t) \/ Close(t)
      BY <1>1 DEF ThreadStep, Render, Schedule, RememberTaken, Check, SendPrompt, AddPing,
          Rearm, PopTimedOut, RenderTimedOut, DeletePings, Review, Freeze, Flag, Clear,
          Finish, NameOrder, PromptReason, LookBack, GoBack
  <2>4. CASE ExpireTaken(t)
      BY <2>2, <2>4 DEF ExpireTaken
  <2>5. CASE Close(t)
      BY <2>2, <2>5 DEF Close
  <2> QED
      BY <2>3, <2>4, <2>5
<1>2. ASSUME NEW q \in Orders, NEW u \in Users, Take(q, u)
      PROVE  status[o] = "offering" /\ \E x \in threads' : x.order = o /\ x.at = "render"
  <2> DEFINE x == Press("render", Card(q, u))
  <2>1. x.at = "render" /\ x.order = q /\ x \in threads'
      BY <1>2 DEF Press, Card, Take, Begin
  <2>2. q = o /\ status[o] = "offering"
      BY <1>2 DEF Take, TypeOK
  <2> HIDE DEF x
  <2> QED
      BY <2>1, <2>2
<1>3. ASSUME UserStep, ~\E q \in Orders, u \in Users : Take(q, u)
      PROVE  FALSE
    BY <1>3 DEF UserStep, PressReady, PressCancel, AbortReason, Dismiss, SubmitReason, LeaveDialogue
<1>4. ASSUME (\E q \in Orders : JobFires(q) \/ RecordExpires(q)) \/ Restart \/ UNCHANGED vars
      PROVE  FALSE
    BY <1>4 DEF JobFires, RecordExpires, Restart, vars
<1> QED
    BY <1>1, <1>2, <1>3, <1>4 DEF Next

\* The threads the record is about come from others, and only while the order is in work.
LEMMA RecordThreads ==
    ASSUME TypeOK, Known, [Next]_vars, NEW x \in threads' \ threads,
           x.at \in {"clear", "pop", "expire", "send", "note"}
    PROVE  \E t \in threads :
             /\ ThreadStep(t) /\ t.order = x.order /\ t.stage = x.stage
             /\ <<t.at, x.at>> \in {<<"complete", "clear">>, <<"cancel", "clear">>, <<"expire", "pop">>,
                                    <<"check", "expire">>, <<"check", "send">>, <<"send", "note">>}
             /\ x.at \in {"clear", "expire", "send"} => status[x.order] = "taken" /\ UNCHANGED record
<1>1. PICK t \in threads : ThreadStep(t) /\ Follows(t, x)
    BY ThreadsFrom DEF Taken, Pressed, Submitted, Fired
<1>2. /\ t.order = x.order /\ t.stage = x.stage
      /\ <<t.at, x.at>> \in {<<"complete", "clear">>, <<"cancel", "clear">>, <<"expire", "pop">>,
                             <<"check", "expire">>, <<"check", "send">>, <<"send", "note">>}
    BY <1>1 DEF Follows, Moves
<1>3. ~End(t)
    BY DEF End
<1>4. CASE t.at = "check"
  <2>1. Check(t)
      BY <1>1, <1>4, StepAt
  <2> QED
      BY <1>1, <1>2, <1>3, <2>1 DEF Check, InWork
<1>5. CASE t.at \in {"complete", "cancel"}
  <2>1. Close(t)
      BY <1>1, <1>5, StepAt
  <2> QED
      BY <1>1, <1>2, <1>3, <2>1 DEF Close, Resolve, InWork
<1> QED
    BY <1>1, <1>2, <1>4, <1>5
----------------------------------------------------------------------------
(* An order whose take broke off at the card.                               *)

LEMMA CutMoves ==
    ASSUME TypeOK, [Next]_vars, NEW o \in cut', o \notin cut
    PROVE  \E t \in threads : t.order = o /\ t.at = "render" /\ End(t)
<1> USE DEF rowVars, chatVars, auxVars, histVars, mishaps, pressVars
<1>1. ASSUME NEW t \in threads, ThreadStep(t)
      PROVE  t.order = o /\ t.at = "render" /\ End(t)
  <2>1. Render(t)
      BY <1>1 DEF ThreadStep, Schedule, RememberTaken, Check, SendPrompt, AddPing,
          Rearm, ExpireTaken, PopTimedOut, RenderTimedOut, DeletePings, Review, Freeze, Flag, Close, Clear,
          Finish, NameOrder, PromptReason, LookBack, GoBack
  <2> QED
      BY <2>1 DEF Render
<1>2. ASSUME UserStep PROVE FALSE
    BY <1>2 DEF UserStep, Take, PressReady, PressCancel, AbortReason, Dismiss, SubmitReason,
        LeaveDialogue
<1>3. ASSUME (\E q \in Orders : JobFires(q) \/ RecordExpires(q)) \/ Restart \/ UNCHANGED vars
      PROVE  FALSE
    BY <1>3 DEF JobFires, RecordExpires, Restart, vars
<1> QED
    BY <1>1, <1>2, <1>3 DEF Next

\* A job comes from the take or from the run before it.
LEMMA JobMoves ==
    ASSUME TypeOK, [Next]_vars, NEW o \in Orders, job'[o] # job[o], job'[o] # NoJob
    PROVE  \E t \in threads : t.order = o /\ t.at \in {"schedule", "arm"}
<1> USE DEF rowVars, chatVars, auxVars, histVars, mishaps, pressVars
<1>1. ASSUME NEW t \in threads, ThreadStep(t)
      PROVE  t.order = o /\ t.at \in {"schedule", "arm"}
  <2>1. t.order \in Orders
      BY DEF TypeOK, Threads
  <2>2. Schedule(t) \/ Rearm(t) \/ Clear(t)
      BY <1>1 DEF ThreadStep, Render, RememberTaken, Check, SendPrompt, AddPing,
          ExpireTaken, PopTimedOut, RenderTimedOut, DeletePings, Review, Freeze, Flag, Close,
          Finish, NameOrder, PromptReason, LookBack, GoBack
  <2> QED
      BY <2>1, <2>2 DEF Schedule, Rearm, Clear, Arm, TypeOK
<1>2. ASSUME UserStep PROVE FALSE
    BY <1>2 DEF UserStep, Take, PressReady, PressCancel, AbortReason, Dismiss, SubmitReason,
        LeaveDialogue
<1>3. ASSUME (\E q \in Orders : RecordExpires(q)) \/ Restart \/ UNCHANGED vars
      PROVE  FALSE
    BY <1>3 DEF RecordExpires, Restart, vars
<1>4. ASSUME NEW q \in Orders, JobFires(q) PROVE FALSE
    BY <1>4 DEF JobFires, TypeOK
<1> QED
    BY <1>1, <1>2, <1>3, <1>4 DEF Next

\* A card to render is that of an order just taken.
LEMMA RenderFrom ==
    ASSUME TypeOK, [Next]_vars, NEW x \in threads', x.at = "render"
    PROVE  x \in threads \/ (Taken(x) /\ status[x.order] = "offering" /\ UNCHANGED <<job, record, cut>>)
<1>1. x \in threads \/ Taken(x)
    BY ThreadsFrom DEF Follows, Moves, Pressed, Submitted, Fired
<1> QED
    BY <1>1 DEF Taken, Take, auxVars, mishaps

LEMMA CutKept ==
    ASSUME TypeOK, TypeOK', Known, ChainInv, CutInv, [Next]_vars, NEW o \in Orders
    PROVE  CutOK(o)'
<1>0. CutOK(o)
    BY DEF CutInv
<1>1. ASSUME NEW t \in threads, t.order = o PROVE status[o] # "offering"
    BY <1>1 DEF Known, ThreadInv, ThreadOK
<1>2. ASSUME o \in cut' PROVE status'[o] # "offering" /\ ~Rendering(o)'
  <2>1. CASE o \in cut
    <3>1. status[o] # "offering" /\ ~Rendering(o)
        BY <1>0, <2>1 DEF CutOK
    <3>2. status'[o] # "offering"
        BY <3>1, StepsSettle DEF Settled
    <3>3. ASSUME NEW x \in threads', x.order = o, x.at = "render" PROVE FALSE
        BY <3>1, <3>3, RenderFrom DEF Rendering
    <3> QED
        BY <3>2, <3>3 DEF Rendering
  <2>2. CASE o \notin cut
    <3>1. PICK t \in threads : t.order = o /\ t.at = "render" /\ End(t)
        BY <1>2, <2>2, CutMoves
    <3>2. status'[o] # "offering"
        BY <1>1, <3>1, StepsSettle DEF Settled
    <3>3. ASSUME NEW x \in threads', x.order = o, x.at = "render" PROVE FALSE
      <4>1. x \in threads /\ x # t
          BY <3>1 DEF End
      <4> QED
          BY <3>1, <3>3, <4>1 DEF ChainInv, ChainOK, InChain, ChainSteps
    <3> QED
        BY <3>2, <3>3 DEF Rendering
  <2> QED
      BY <2>1, <2>2
<1>3. ASSUME o \in cut \/ Rendering(o), o \in cut' \/ Rendering(o)'
      PROVE  /\ job'[o] = NoJob /\ record'[o] = NoRecord
             /\ \A x \in threads' : x.order = o => x.stage = "none" /\ x.at \notin {"schedule", "remember"}
  <2>1. /\ job[o] = NoJob /\ record[o] = NoRecord
        /\ \A t \in threads : t.order = o => t.stage = "none" /\ t.at \notin {"schedule", "remember"}
      BY <1>0, <1>3 DEF CutOK
  <2>2. \A t \in threads : t.order = o => t.at \notin {"schedule", "remember", "arm", "note"}
      BY <2>1 DEF Known, ThreadInv, ThreadOK, Pings
  <2>3. job'[o] = NoJob
      BY <2>1, <2>2, JobMoves
  <2>4. record'[o] = NoRecord
      BY <2>1, <2>2, RecordMoves
  <2>5. ASSUME NEW x \in threads', x.order = o, x \notin threads
        PROVE  x.stage = "none" /\ x.at \notin {"schedule", "remember"}
    <3>1. ~Fired(x)
        BY <2>1, <2>5 DEF Fired, JobFires
    <3>2. CASE Taken(x) \/ Pressed(x) \/ Submitted(x)
        BY <3>2 DEF Taken, Pressed, Submitted
    <3>3. ASSUME NEW t \in threads, ThreadStep(t), Follows(t, x)
          PROVE  x.stage = "none" /\ x.at \notin {"schedule", "remember"}
      <4>1. t.order = o /\ t.stage = "none" /\ t.at \notin {"schedule", "remember"}
          BY <2>1, <2>5, <3>3 DEF Follows
      <4>2. x.stage = "none" /\ <<t.at, x.at>> \in Moves
          BY <3>3, <4>1 DEF Follows
      <4>3. x.at # "remember" /\ (x.at = "schedule" => t.at = "render")
          BY <4>1, <4>2 DEF Moves
      <4>4. ASSUME t.at = "render" PROVE FALSE
        <5>1. Rendering(o) /\ o \notin cut
            BY <1>0, <4>1, <4>4 DEF Rendering, CutOK
        <5>2. t \notin threads'
            BY <3>3, StepLeaves
        <5>3. o \notin cut'
          <6> SUFFICES ASSUME o \in cut' PROVE FALSE
              OBVIOUS
          <6>1. threads' \subseteq threads
              BY <5>1, CutMoves DEF End
          <6> QED
              BY <2>5, <6>1
        <5>4. PICK y \in threads' : y.order = o /\ y.at = "render"
            BY <1>3, <5>3 DEF Rendering
        <5>5. y \in threads
            BY <1>1, <4>1, <5>4, RenderFrom
        <5>6. y = t
            BY <4>1, <4>4, <5>4, <5>5 DEF ChainInv, ChainOK, InChain, ChainSteps
        <5> QED
            BY <5>2, <5>4, <5>6
      <4> QED
          BY <4>2, <4>3, <4>4
    <3> QED
        BY <2>5, <3>1, <3>2, <3>3, ThreadsFrom
  <2> QED
      BY <2>1, <2>3, <2>4, <2>5
<1>4. ASSUME ~(o \in cut \/ Rendering(o)), o \in cut' \/ Rendering(o)'
      PROVE  /\ job'[o] = NoJob /\ record'[o] = NoRecord
             /\ \A x \in threads' : x.order = o => x.stage = "none" /\ x.at \notin {"schedule", "remember"}
  <2>1. o \notin cut'
      BY <1>4, CutMoves DEF Rendering
  <2>2. PICK x \in threads' : x.order = o /\ x.at = "render"
      BY <1>4, <2>1 DEF Rendering
  <2>3. x \notin threads
      BY <1>4, <2>2 DEF Rendering
  <2>4. Taken(x) /\ status[o] = "offering" /\ UNCHANGED <<job, record>>
      BY <2>2, <2>3, RenderFrom
  <2>5. job[o] = NoJob /\ record[o] = NoRecord
      BY <2>4 DEF Known, JobInv, JobOK, RecordsOwn
  <2>6. ASSUME NEW y \in threads', y.order = o PROVE y = x
      BY <1>1, <2>3, <2>4, <2>6, OneNew
  <2>7. x.stage = "none"
      BY <2>4 DEF Taken
  <2> QED
      BY <2>2, <2>4, <2>5, <2>6, <2>7
<1> QED
    BY <1>2, <1>3, <1>4 DEF CutOK

LEMMA AlwaysCut == Spec => []CutInv
<1>1. Init => CutInv
    BY DEF Init, CutInv, CutOK, Rendering
<1>2. TypeOK /\ TypeOK' /\ Known /\ ChainInv /\ CutInv /\ [Next]_vars => CutInv'
    BY CutKept DEF CutInv
<1> QED
    BY <1>1, <1>2, TimeoutsTyped, AlwaysKnown, AlwaysChained, PTL DEF Spec
----------------------------------------------------------------------------
(* What the record has.                                                     *)

LEMMA StartKept ==
    ASSUME TypeOK, TypeOK', Known, ChainInv, [Next]_vars, NEW o \in Orders, StartOK(o)
    PROVE  StartOK(o)'
<1> SUFFICES ASSUME NEW x \in threads', x.order = o, x.at \in StartSteps
             PROVE  record'[o].pings = {} /\ \A t \in threads' : t.order = o => t.stage = "none"
    BY DEF StartOK, Starting
<1>1. CASE Taken(x)
  <2>1. status[o] = "offering" /\ record' = record /\ x.stage = "none"
      BY <1>1 DEF Taken, Take
  <2>2. \A t \in threads : t.order # o
      BY <2>1 DEF Known, ThreadInv, ThreadOK
  <2>3. \A t \in threads' : t.order = o => t = x
      BY <2>2, OneNew
  <2>4. record[o] = NoRecord
      BY <2>1 DEF Known, RecordsOwn
  <2> QED
      BY <2>1, <2>3, <2>4 DEF NoRecord
<1>2. CASE ~Taken(x)
  <2>1. PICK s \in threads : s.order = o /\ s.at \in StartSteps
    <3>1. \A t : Follows(t, x) => t.order = o /\ t.at \in StartSteps
        BY DEF Follows, Moves, StartSteps
    <3>2. ~Pressed(x) /\ ~Submitted(x) /\ ~Fired(x)
        BY DEF Pressed, Submitted, Fired, StartSteps
    <3> QED
        BY <1>2, <3>1, <3>2, ThreadsFrom
  <2>2. record[o].pings = {} /\ \A t \in threads : t.order = o => t.stage = "none"
      BY <2>1 DEF StartOK, Starting
  <2>3. record'[o].pings = {}
    <3>1. ~\E t \in threads : t.order = o /\ t.at = "note"
        BY <2>2 DEF Known, ThreadInv, ThreadOK, Pings
    <3> QED
        BY <2>2, <3>1, RecordMoves DEF NoRecord
  <2>4. ASSUME NEW t \in threads', t.order = o PROVE t.stage = "none"
    <3>1. ~Fired(t)
      <4> SUFFICES ASSUME Fired(t) PROVE FALSE
          OBVIOUS
      <4>1. job[o] # NoJob /\ s.at # "remember"
          BY <2>1, <2>4 DEF Fired, JobFires
      <4> QED
          BY <2>1, <4>1 DEF ChainInv, ChainOK, InChain, ChainSteps, StartSteps
    <3> QED
        BY <2>2, <2>4, <3>1, ThreadsFrom DEF Taken, Pressed, Submitted, Follows
  <2> QED
      BY <2>3, <2>4
<1> QED
    BY <1>1, <1>2

LEMMA ClearKept ==
    ASSUME TypeOK, Known, ChainInv, [Next]_vars, NEW o \in Orders, RecordOK(o)
    PROVE  /\ \A t, x \in threads' : t.order = o /\ x.order = o /\ t.at = "clear" /\ x.at = "clear" => t = x
           /\ At(o, {"pop"})' => ~At(o, {"send", "note"})'
<1>1. ASSUME NEW x \in threads, x.order = o, x.at \in {"clear", "pop"} PROVE status[o] # "taken"
    BY <1>1 DEF Known, ThreadInv, ThreadOK, Over, Closed
<1>2. ASSUME NEW t \in threads', NEW x \in threads', t.order = o, x.order = o, t.at = "clear", x.at = "clear"
      PROVE  t = x
    BY <1>1, <1>2, OneNew, RecordThreads DEF RecordOK
<1>3. ASSUME NEW x \in threads', NEW y \in threads', x.order = o, y.order = o, x.at = "pop",
             y.at \in {"send", "note"}
      PROVE  FALSE
  <2>1. CASE x \in threads /\ y \in threads
      BY <1>3, <2>1 DEF RecordOK, At
  <2>2. CASE x \notin threads /\ y \notin threads
      BY <1>3, <2>2, OneNew
  <2>3. CASE x \notin threads /\ y \in threads
    <3>1. PICK t \in threads : t.order = o /\ t.at = "expire"
        BY <1>3, <2>3, RecordThreads
    <3> QED
        BY <1>3, <2>3, <3>1 DEF ChainInv, ChainOK, InChain, ChainSteps
  <2>4. CASE x \in threads /\ y \notin threads
    <3>1. PICK t \in threads : t.order = o /\ t.at = "send"
        BY <1>1, <1>3, <2>4, RecordThreads
    <3> QED
        BY <1>3, <2>4, <3>1 DEF RecordOK, At
  <2> QED
      BY <2>1, <2>2, <2>3, <2>4
<1> QED
    BY <1>2, <1>3 DEF At

\* Whoever has an order in work is remembered, or will be.
LEMMA CardKept ==
    ASSUME TypeOK, TypeOK', Known, ChainInv, CutInv, [Next]_vars, NEW o \in Orders, RecordOK(o),
           ~restarted, ~restarted', status'[o] = "taken"
    PROVE  record'[o].card # NoUser \/ Starting(o)' \/ o \in cut'
<1> USE DEF rowVars, chatVars, auxVars, histVars, mishaps, pressVars
<1>1. CASE status[o] # "taken"
    BY <1>1, StatusMoves DEF Starting, StartSteps
<1>2. CASE status[o] = "taken" /\ record[o].card # NoUser
  <2>1. ~\E t \in threads : t.order = o /\ t.at \in {"clear", "pop"}
      BY <1>2 DEF Known, ThreadInv, ThreadOK, Over, Closed
  <2>2. o \notin cut
      BY <1>2 DEF CutInv, CutOK, NoRecord
  <2>3. ~RecordExpires(o)
      BY <1>2, <2>2 DEF RecordExpires, ChainInv, ChainOK, InChain
  <2> QED
      BY <1>2, <2>1, <2>3, RecordMoves, TimeoutsAssumption
<1>3. CASE o \in cut
    BY <1>3, StepsSettle DEF Settled
<1>4. CASE status[o] = "taken" /\ Starting(o)
  <2>1. PICK t \in threads : t.order = o /\ t.at \in StartSteps
      BY <1>4 DEF Starting
  <2>2. CASE t \in threads'
      BY <2>1, <2>2 DEF Starting
  <2>3. CASE t \notin threads'
    <3>1. ThreadStep(t)
        BY <2>3, ThreadsStay DEF Restart
    <3>2. (Render(t) \/ Schedule(t)) \/ RememberTaken(t)
        BY <2>1, <3>1, StepAt DEF StartSteps
    <3>3. CASE RememberTaken(t)
      <4>1. t.user \in Users
          BY DEF TypeOK, Threads
      <4> QED
          BY <2>1, <3>3, <4>1, TimeoutsAssumption DEF RememberTaken, TypeOK
    <3>4. ASSUME NEW at \in {"schedule", "remember"}, Goto(t, at) PROVE Starting(o)'
      <4> DEFINE x == [t EXCEPT !.at = at]
      <4>1. x.at = at /\ x.order = t.order /\ x \in threads'
          BY <3>4 DEF TypeOK, Threads, Goto
      <4> HIDE DEF x
      <4> QED
          BY <2>1, <4>1 DEF Starting, StartSteps
    <3> QED
        BY <2>1, <3>2, <3>3, <3>4 DEF Render, Schedule
  <2> QED
      BY <2>2, <2>3
<1> QED
    BY <1>1, <1>2, <1>3, <1>4 DEF RecordOK

\* Without a card there is nothing to pop.
LEMMA QuietKept ==
    ASSUME TypeOK, TypeOK', Known, ChainInv, CutInv, [Next]_vars, NEW o \in Orders, RecordOK(o),
           ~restarted, ~restarted', NEW x \in threads', x.order = o, x.at \in {"clear", "pop", "expire"},
           record'[o].card = NoUser
    PROVE  Quiet(o)'
<1>1. ASSUME NEW t \in threads, ThreadStep(t), status[o] = "taken", UNCHANGED record,
             <<t.at, x.at>> \in {<<"complete", "clear">>, <<"cancel", "clear">>, <<"check", "expire">>},
             t.order = o, x \notin threads
      PROVE  Quiet(o)'
  <2>1. Starting(o) \/ o \in cut
      BY <1>1 DEF RecordOK
  <2>2. record[o].pings = {} /\ \A y \in threads : y.order = o => y.stage = "none"
      BY <2>1 DEF RecordOK, StartOK, CutInv, CutOK, NoRecord
  <2>3. ASSUME NEW y \in threads', y.order = o, y.at \in {"send", "note"} PROVE FALSE
    <3>1. y \in threads
        BY <2>3, <1>1, OneNew
    <3> QED
        BY <2>2, <2>3, <3>1 DEF Known, ThreadInv, ThreadOK, Pings
  <2> QED
      BY <1>1, <2>2, <2>3 DEF Quiet, At
<1>2. ASSUME NEW z \in threads, z.order = o, z.at \in {"clear", "pop", "expire"},
             x = z \/ (x \notin threads /\ x.at = "pop" /\ z.at = "expire")
      PROVE  Quiet(o)'
  <2>1. ASSUME record[o].card = NoUser PROVE Quiet(o)'
    <3>1. Quiet(o)
        BY <1>2, <2>1 DEF RecordOK, At
    <3>2. record'[o].pings = {}
      <4>1. ~\E t \in threads : t.order = o /\ t.at = "note"
          BY <3>1 DEF Quiet, At
      <4> QED
          BY <3>1, <4>1, RecordMoves DEF NoRecord, Quiet
    <3>3. ASSUME NEW y \in threads', y.order = o, y.at \in {"send", "note"} PROVE FALSE
      <4>1. y \notin threads
          BY <3>1, <3>3 DEF Quiet, At
      <4>2. PICK t \in threads : t.order = o
                 /\ (t.at = "send" \/ (t.at = "check" /\ status[o] = "taken"))
          BY <3>3, <4>1, RecordThreads
      <4>3. t.at # "send"
          BY <3>1, <4>2 DEF Quiet, At
      <4>4. z.at = "expire"
          BY <1>2, <4>2, <4>3 DEF Known, ThreadInv, ThreadOK, Over, Closed
      <4> QED
          BY <1>2, <4>2, <4>3, <4>4 DEF ChainInv, ChainOK, InChain, ChainSteps
    <3> QED
        BY <3>2, <3>3 DEF Quiet, At
  <2>2. ASSUME record[o].card # NoUser PROVE Quiet(o)'
    <3>1. ~RecordExpires(o)
        BY <1>2 DEF RecordExpires
    <3>2. PICK t \in threads : ThreadStep(t) /\ t.order = o /\ t.at \in {"clear", "pop"}
        BY <2>2, <3>1, RecordMoves, TimeoutsAssumption
    <3>3. record'[o] = NoRecord
        BY <2>2, <3>1, RecordMoves, TimeoutsAssumption
    <3>4. x # t /\ x \in threads
      <4>1. x # t
          BY <3>2, StepLeaves
      <4>2. x \notin threads => FALSE
        <5> SUFFICES ASSUME x \notin threads PROVE FALSE
            OBVIOUS
        <5>1. PICK s \in threads : ThreadStep(s) /\ s.at = "expire"
            BY <1>2, RecordThreads
        <5>2. s = t
            BY <3>2, <5>1, StepLeaves
        <5> QED
            BY <3>2, <5>1, <5>2
      <4> QED
          BY <4>1, <4>2
    <3>5. ASSUME NEW y \in threads', y.order = o, y.at \in {"send", "note"} PROVE FALSE
      <4>1. y \in threads
        <5> SUFFICES ASSUME y \notin threads PROVE FALSE
            OBVIOUS
        <5>1. PICK s \in threads : ThreadStep(s) /\ s.at \in {"check", "send"}
            BY <3>5, RecordThreads
        <5>2. s = t
            BY <3>2, <5>1, StepLeaves
        <5> QED
            BY <3>2, <5>1, <5>2
      <4>2. ~At(o, {"pop"})
          BY <3>5, <4>1 DEF RecordOK, At
      <4>3. t.at = "clear" /\ x.at # "pop"
          BY <1>2, <3>2, <3>4, <4>2 DEF At
      <4>4. x.at # "clear"
          BY <3>2, <3>4, <4>3 DEF RecordOK
      <4> QED
          BY <1>2, <3>4, <3>5, <4>1, <4>3, <4>4 DEF ChainInv, ChainOK, InChain, ChainSteps
    <3> QED
        BY <3>3, <3>5 DEF Quiet, At, NoRecord
  <2> QED
      BY <2>1, <2>2
<1>3. CASE x \in threads
    BY <1>2, <1>3
<1>4. CASE x \notin threads
    BY <1>1, <1>2, <1>4, RecordThreads
<1> QED
    BY <1>3, <1>4

\* What is left of a closed order somebody is about to pop.
LEMMA PopKept ==
    ASSUME TypeOK, TypeOK', Known, ChainInv, [Next]_vars, NEW o \in Orders, RecordOK(o),
           ~restarted, ~restarted', status'[o] \in Closed, record'[o].card # NoUser, ~Quiet(o)'
    PROVE  At(o, {"clear", "pop"})'
<1>1. CASE status'[o] # status[o]
  <2>1. status[o] # "offering" \/ ~\E x \in threads' : x.order = o /\ x.at = "render"
    <3> SUFFICES ASSUME NEW x \in threads', x.order = o, x.at = "render", status[o] = "offering"
                 PROVE  FALSE
        OBVIOUS
    <3>1. x \notin threads
        BY DEF Known, ThreadInv, ThreadOK
    <3>2. Taken(x)
        BY <3>1, ThreadsFrom DEF Follows, Moves, Pressed, Submitted, Fired
    <3>3. status'[o] = "taken"
        BY <3>2 DEF Taken, Take, TypeOK
    <3> QED
        BY <3>3 DEF Closed
  <2> QED
      BY <1>1, <2>1, StatusMoves DEF At
<1>2. CASE status'[o] = status[o]
  <2>0. status[o] \in Closed
      BY <1>2
  <2>1. ASSUME Quiet(o) PROVE FALSE
    <3>1. ~\E t \in threads : t.order = o /\ t.at \in {"send", "note"}
        BY <2>1 DEF Quiet, At
    <3>2. record'[o].pings = {}
        BY <2>1, <3>1, RecordMoves DEF NoRecord, Quiet
    <3>3. ASSUME NEW y \in threads', y.order = o, y.at \in {"send", "note"} PROVE FALSE
        BY <2>0, <3>1, <3>3, RecordThreads DEF Closed
    <3> QED
        BY <3>2, <3>3 DEF Quiet, At
  <2>2. record[o].card # NoUser
    <3> SUFFICES ASSUME record[o].card = NoUser PROVE FALSE
        OBVIOUS
    <3>1. Starting(o)
        BY RecordMoves DEF NoRecord, Starting, StartSteps
    <3>2. record[o].pings = {} /\ \A t \in threads : t.order = o => t.stage = "none"
        BY <3>1 DEF RecordOK, StartOK
    <3>3. Quiet(o)
        BY <3>2 DEF Quiet, At, Known, ThreadInv, ThreadOK, Pings
    <3> QED
        BY <2>1, <3>3
  <2>3. PICK z \in threads : z.order = o /\ z.at \in {"clear", "pop"}
      BY <2>0, <2>1, <2>2 DEF RecordOK, At
  <2>4. z \in threads'
    <3> SUFFICES ASSUME z \notin threads' PROVE FALSE
        OBVIOUS
    <3>1. ThreadStep(z)
        BY ThreadsStay DEF Restart
    <3>2. PopTimedOut(z) \/ Clear(z)
        BY <2>3, <3>1, StepAt
    <3>3. record'[o] = NoRecord
        BY <2>3, <3>2 DEF PopTimedOut, Clear, TypeOK
    <3> QED
        BY <3>3 DEF NoRecord
  <2> QED
      BY <2>3, <2>4 DEF At
<1> QED
    BY <1>1, <1>2

LEMMA RecordInductive ==
    ASSUME TypeOK, TypeOK', Known, ChainInv, CutInv, RecordInv, [Next]_vars
    PROVE  RecordInv'
<1> SUFFICES ASSUME NEW o \in Orders PROVE RecordOK(o)'
    BY DEF RecordInv
<1>1. RecordOK(o)
    BY DEF RecordInv
<1>2. StartOK(o)'
    BY <1>1, StartKept DEF RecordOK
<1>3. ~restarted' => ~restarted
    BY RestartOnce
<1>4. ~restarted' /\ At(o, {"clear", "pop", "expire"})' /\ record'[o].card = NoUser => Quiet(o)'
    BY <1>1, <1>3, QuietKept DEF At
<1>5. ~restarted' /\ status'[o] \in Closed /\ record'[o].card # NoUser /\ ~Quiet(o)' => At(o, {"clear", "pop"})'
    BY <1>1, <1>3, PopKept
<1>6. ~restarted' /\ status'[o] = "taken" => record'[o].card # NoUser \/ Starting(o)' \/ o \in cut'
    BY <1>1, <1>3, CardKept
<1>7. /\ \A t, x \in threads' : t.order = o /\ x.order = o /\ t.at = "clear" /\ x.at = "clear" => t = x
      /\ At(o, {"pop"})' => ~At(o, {"send", "note"})'
    BY <1>1, ClearKept
<1> QED
    BY <1>2, <1>4, <1>5, <1>6, <1>7 DEF RecordOK

LEMMA AlwaysRecorded == Spec => []RecordInv
<1>1. Init => RecordInv
    BY DEF Init, RecordInv, RecordOK, StartOK, Starting, At, Quiet, NoRecord, Closed
<1>2. TypeOK /\ TypeOK' /\ Known /\ ChainInv /\ CutInv /\ RecordInv /\ [Next]_vars => RecordInv'
    BY RecordInductive
<1> QED
    BY <1>1, <1>2, TimeoutsTyped, AlwaysKnown, AlwaysChained, AlwaysCut, PTL DEF Spec

LEMMA StraysGrow ==
    ASSUME TypeOK, [Next]_vars
    PROVE  strays \subseteq strays'
<1> USE DEF rowVars, chatVars, auxVars, histVars, mishaps, pressVars
<1>1. ASSUME NEW t \in threads, ThreadStep(t) PROVE strays \subseteq strays'
    BY <1>1 DEF ThreadStep, Render, Schedule, RememberTaken, Check, SendPrompt, AddPing,
        Rearm, ExpireTaken, PopTimedOut, RenderTimedOut, DeletePings, Review, Freeze, Flag, Close, Clear,
        Finish, NameOrder, PromptReason, LookBack, GoBack
<1>2. ASSUME UserStep PROVE UNCHANGED strays
    BY <1>2 DEF UserStep, Take, PressReady, PressCancel, AbortReason, Dismiss, SubmitReason,
        LeaveDialogue
<1>3. ASSUME (\E o \in Orders : JobFires(o) \/ RecordExpires(o)) \/ Restart \/ UNCHANGED vars
      PROVE  UNCHANGED strays
    BY <1>3 DEF JobFires, RecordExpires, Restart, vars
<1> QED
    BY <1>1, <1>2, <1>3 DEF Next

\* Somebody will pop what a record with a card has.
PopSure == restarted \/ \A o \in Orders : Popped(o) # {} => PopComes(o)

LEMMA PopWillCome ==
    ASSUME TypeOK, Known, RecordInv
    PROVE  PopSure
<1> SUFFICES ASSUME ~restarted, NEW o \in Orders, NEW m \in Popped(o) PROVE PopComes(o)
    BY DEF PopSure
<1>1. record[o].card # NoUser /\ m \in record[o].pings
    BY DEF Popped
<1>2. status[o] # "offering"
    BY <1>1 DEF Known, RecordsOwn, NoRecord
<1>3. CASE status[o] = "taken"
    BY <1>3 DEF PopComes
<1>4. CASE status[o] \in Closed
  <2>1. ~Quiet(o)
      BY <1>1 DEF Quiet
  <2> QED
      BY <1>1, <1>4, <2>1 DEF RecordInv, RecordOK, At, PopComes
<1> QED
    BY <1>2, <1>3, <1>4 DEF TypeOK, Closed

LEMMA AlwaysPopSure == Spec => []PopSure
    BY PopWillCome, TimeoutsTyped, AlwaysKnown, AlwaysRecorded, PTL

\* The prompts on the screen that the bot keeps track of are in a record with a card, or in
\* the hands of who adds or deletes them.
LEMMA RememberedKept ==
    ASSUME TypeOK, Known, ChainInv, CutInv, RecordInv, PopSure, PopSure',
           PromptsRemembered, [Next]_vars
    PROVE  PromptsRemembered'
<1> USE DEF rowVars, chatVars, auxVars, histVars, mishaps, pressVars
<1> SUFFICES ASSUME ~restarted', NEW m \in Messages, m \notin strays', m[3] \in Pings, screen'[m] # "none"
             PROVE  \/ m \in Popped(m[1])'
                    \/ \E t \in threads' : (t.msg = m /\ t.at = "note") \/ m \in t.pings
  <2>1. \A m \in Messages : m[1] \in Orders
      BY DEF Messages
  <2>2. \A m \in Messages : ~restarted' /\ m \in Popped(m[1])' => PopComes(m[1])'
      BY <2>1 DEF PopSure
  <2> QED
      BY <2>2 DEF PromptsRemembered
<1> DEFINE o == m[1]
<1>0. o \in Orders /\ ~restarted /\ RecordOK(o) /\ m \notin strays
    BY RestartOnce, StraysGrow DEF Messages, RecordInv
<1> HIDE DEF o
<1>1. CASE screen[m] = "none"
  <2>1. PICK t \in threads : ThreadStep(t) /\ t.at = "send" /\ t.msg = m /\ screen'[m] = "ask"
      BY <1>1, ScreenMoves DEF Written
  <2>2. SendPrompt(t)
      BY <2>1, StepAt
  <2>3. Goto(t, "note")
      BY <1>1, <2>1, <2>2 DEF SendPrompt
  <2> DEFINE x == [t EXCEPT !.at = "note"]
  <2>4. x.at = "note" /\ x.msg = m /\ x \in threads'
      BY <2>1, <2>3 DEF TypeOK, Threads, Goto
  <2> HIDE DEF x
  <2> QED
      BY <2>4
<1>2. CASE m \in Popped(o)
  <2>0. record[o].card # NoUser /\ m \in record[o].pings
      BY <1>2 DEF Popped
  <2>1. CASE m \in record'[o].pings
    <3>1. record'[o].card # NoUser
        BY <1>0, <2>0, <2>1, RecordMoves, TimeoutsAssumption DEF NoRecord
    <3> QED
        BY <2>1, <3>1 DEF Popped, o
  <2>2. CASE m \notin record'[o].pings
    <3>1. record'[o] = NoRecord
        BY <1>0, <2>0, <2>2, RecordMoves
    <3>2. ~RecordExpires(o)
      <4> SUFFICES ASSUME RecordExpires(o) PROVE FALSE
          OBVIOUS
      <4>1. job[o] = NoJob /\ \A t \in threads : t.order # o
          BY DEF RecordExpires
      <4>2. o \notin cut
          BY <1>0, <2>0 DEF CutInv, CutOK, NoRecord
      <4>3. status[o] # "taken"
          BY <1>0, <4>1, <4>2 DEF ChainInv, ChainOK, InChain
      <4>4. PopComes(o)
          BY <1>0, <1>2 DEF PopSure
      <4> QED
          BY <4>1, <4>3, <4>4 DEF PopComes
    <3>3. PICK t \in threads : ThreadStep(t) /\ t.order = o /\ t.at \in {"clear", "pop"}
        BY <1>0, <2>0, <2>2, <3>2, RecordMoves
    <3>4. PICK x \in threads' : x.pings = Popped(o)
      <4> DEFINE y == [t EXCEPT !.at = "timedOut", !.pings = Popped(t.order),
                                !.msg = Card(t.order, record[t.order].card)]
                 z == [t EXCEPT !.at = "wipe", !.pings = Popped(t.order)]
      <4>1. y.pings = Popped(o) /\ z.pings = Popped(o)
          BY <3>3 DEF TypeOK, Threads
      <4>2. PopTimedOut(t) \/ Clear(t)
          BY <3>3, StepAt
      <4>3. y \in threads' \/ z \in threads'
          BY <2>0, <3>3, <4>2 DEF PopTimedOut, Clear
      <4> HIDE DEF y, z
      <4> QED
          BY <4>1, <4>3
    <3> QED
        BY <1>2, <3>4
  <2> QED
      BY <2>1, <2>2
<1>3. ASSUME NEW t \in threads, t.msg = m, t.at = "note"
      PROVE  m \in Popped(o)' \/ t \in threads'
  <2>1. CASE t \notin threads'
    <3>1. AddPing(t)
        BY <1>3, <2>1, ThreadsStay, StepAt DEF Restart
    <3>2. t.order = o
        BY <1>3 DEF Known, ThreadInv, ThreadOK, o
    <3>3. record[o].card # NoUser
        BY <1>3, <3>1, <3>2 DEF AddPing
    <3>4. record'[o].card = record[o].card /\ m \in record'[o].pings
        BY <1>0, <1>3, <3>1, <3>2 DEF AddPing, TypeOK
    <3> QED
        BY <3>3, <3>4 DEF Popped
  <2> QED
      BY <2>1
<1>4. ASSUME NEW t \in threads, m \in t.pings
      PROVE  \E x \in threads' : m \in x.pings
  <2>1. CASE t \in threads'
      BY <1>4, <2>1
  <2>2. CASE t \notin threads'
    <3>1. ThreadStep(t)
        BY <2>2, ThreadsStay DEF Restart
    <3>2. t.at \in {"timedOut", "wipe", "wipeLast"}
        BY <1>4 DEF Known, ThreadInv, ThreadOK
    <3>3. t.at = "timedOut"
      <4> SUFFICES ASSUME DeletePings(t) PROVE FALSE
          BY <3>1, <3>2, StepAt
      <4>1. PICK kept \in SUBSET {n \in t.pings : screen[n] # "none"} :
                /\ screen' = [n \in Messages |-> IF n \in t.pings \ kept THEN "none" ELSE screen[n]]
                /\ strays' = strays \cup kept
          BY DEF DeletePings
      <4>2. m \notin kept
          BY <4>1
      <4> QED
          BY <1>4, <4>1, <4>2
    <3>4. Goto(t, "wipeLast")
        BY <3>1, <3>3, StepAt DEF RenderTimedOut
    <3> DEFINE x == [t EXCEPT !.at = "wipeLast"]
    <3>5. x.pings = t.pings /\ x \in threads'
        BY <3>4 DEF TypeOK, Threads, Goto
    <3> HIDE DEF x
    <3> QED
        BY <1>4, <3>5
  <2> QED
      BY <2>1, <2>2
<1>5. CASE screen[m] # "none" /\ m \notin Popped(o)
  <2>1. PICK t \in threads : (t.msg = m /\ t.at = "note") \/ m \in t.pings
      BY <1>0, <1>5 DEF PromptsRemembered, o
  <2> QED
      BY <1>3, <1>4, <2>1 DEF o
<1> QED
    BY <1>1, <1>2, <1>5

\* A prompt on the screen whose sending and deleting Telegram did not fail, and whose record
\* was not popped while it was sent, does not stay there for good, until a restart: the
\* record has it and somebody will pop it, or a thread holds it to add or delete it.
THEOREM PromptsKept == Spec => []PromptsRemembered
<1>1. Init => PromptsRemembered
    BY DEF Init, PromptsRemembered, Pings
<1>2. TypeOK /\ Known /\ ChainInv /\ CutInv /\ RecordInv /\ PopSure /\ PopSure'
        /\ PromptsRemembered /\ [Next]_vars => PromptsRemembered'
    BY RememberedKept
<1> QED
    BY <1>1, <1>2, TimeoutsTyped, AlwaysKnown, AlwaysChained, AlwaysCut, AlwaysRecorded,
       AlwaysPopSure, PTL DEF Spec
=============================================================================

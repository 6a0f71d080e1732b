----------------------------- MODULE ProfileDesk -----------------------------
(***************************************************************************)
(* The profiles of the users: the row in Postgres, its mirror in the       *)
(* online index, the switch of the bot, and who changes them: the user     *)
(* (his forms, his online button, the orders he takes), moderators,        *)
(* the anti-fraud review and the administrator.                            *)
(*                                                                         *)
(* Handlers run concurrently. Each is a thread: what it does between two   *)
(* awaits is one action.                                                   *)
(***************************************************************************)
EXTENDS OrderRanking, ProfileForms

CONSTANTS
    Admins,      \* users with the role of administrator; no moderator is among the users
    Orders,      \* [codes, amount, amounts]
    NoOrder,
    Tiers,       \* bound: the tiers moderators hand out
    MaxThreads,  \* bound: handlers in flight at once
    MaxSaves,    \* bound: forms saved
    MaxDecisions \* bound: decisions and price changes of moderators

ASSUME DeskAssumption ==
    /\ Admins \subseteq Users
    /\ \A o \in Orders : o.codes \in BOOLEAN /\ o.amount \in Int
    /\ \A o \in Orders : ~o.codes => Decomposes(o.amount)
    /\ NoOrder \notin Orders
    /\ "everyone" \notin Users
    /\ Tiers \subseteq TierNumbers /\ DefaultTier \in Tiers
    /\ MaxThreads \in Nat \ {0} /\ MaxSaves \in Nat /\ MaxDecisions \in Nat

VARIABLES
    rows,      \* user_profiles
    index,     \* OnlineIndex: the entry of each user
    enabled,   \* bot:enabled
    threads,   \* handlers in flight
    posted,    \* users of whom moderators have a decision message
    work,      \* the order a user has in work
    review,    \* how far the review of his Ready is
    touched,   \* auxiliary: users whose entry may differ from their row
    repriced,  \* auxiliary: users whose prices changed since they pressed Take
    saves, decisions  \* auxiliary: for the bounds

auxVars == <<touched, repriced, saves, decisions>>
vars == <<formVars, rows, index, enabled, threads, posted, work, review, auxVars>>

Rows == [status : {"none", "inactive", "active", "banned"}, online : BOOLEAN, codes : BOOLEAN,
         tier : TierNumbers, prices : PriceTables, start : Hours \cup {0}, end : Hours \cup {0}]
NoRow == [status |-> "none", online |-> FALSE, codes |-> FALSE, tier |-> DefaultTier,
          prices |-> NoTable, start |-> 0, end |-> 0]
Everyone == "everyone"
Saves == {"registration", "edit"}

\* row: what the handler has read, or what it will write; lone: nothing else has touched
\* the user's row and entry since the thread began.
Threads == [op : {"toggle", "take", "disable"} \cup Saves, user : Users \cup {Everyone},
            at : {"flip", "first", "second", "upsert", "deactivate", "leave", "commit"},
            row : Rows, order : Orders \cup {NoOrder}, lone : BOOLEAN]

TypeOK ==
    /\ FormsTypeOK
    /\ rows \in [Users -> Rows]
    /\ index \in [Users -> [prices : PriceTables, tier : TierNumbers \cup {NoTier},
                            keys : SUBSET TierNumbers]]
    /\ enabled \in BOOLEAN
    /\ threads \subseteq Threads
    /\ posted \subseteq Users
    /\ work \in [Users -> Orders \cup {NoOrder}]
    /\ review \in [Users -> {"none", "asked", "blocked"}]
    /\ touched \subseteq Users /\ repriced \subseteq Users
    /\ saves \in 0..MaxSaves /\ decisions \in 0..MaxDecisions

Init ==
    /\ FormsInit
    /\ rows = [u \in Users |-> NoRow]
    /\ index = [u \in Users |-> NoEntry]
    /\ enabled = TRUE
    /\ threads = {}
    /\ posted = {}
    /\ work = [u \in Users |-> NoOrder]
    /\ review = [u \in Users |-> "none"]
    /\ touched = {} /\ repriced = {}
    /\ saves = 0 /\ decisions = 0

Known(u) == rows[u].status # "none"

\* BotSwitchMiddleware
Admitted(u) == enabled \/ (u \in Admins /\ Known(u))
Writers(u) == {t \in threads : t.op # "take" /\ t.user \in {u, Everyone}}
Saving(u) == \E t \in threads : t.op \in Saves /\ t.user = u
Taking(u) == \E t \in threads : t.op = "take" /\ t.user = u

Scope(who) == IF who = Everyone THEN Users ELSE {who}
Meets(t, who) == t.op # "take" /\ (t.user = who \/ Everyone \in {t.user, who})

Thread(op, who, at, row, order, lone) ==
    [op |-> op, user |-> who, at |-> at, row |-> row, order |-> order, lone |-> lone]
Jostled(who) == {IF Meets(t, who) THEN [t EXCEPT !.lone = FALSE] ELSE t : t \in threads}

\* Dialogues share nothing with the threads between their saves, so their inner steps need
\* no interleaving with handlers that write: these begin where a dialogue rests.
Resting(u) ==
    due[u] = {} /\ fsm[u] \in {"none", "blocked", "reg_finished", "reg_end", "edit_menu"}

\* A handler that writes begins. It and those it overlaps with may leave the entry wrong.
Start(op, who, at, row) ==
    LET alone == \A t \in threads : ~Meets(t, who)
    IN /\ Cardinality(threads) < MaxThreads
       /\ \A u \in Scope(who) : Resting(u)
       /\ threads' = Jostled(who) \cup {Thread(op, who, at, row, NoOrder, alone)}
       /\ touched' = IF alone THEN touched ELSE touched \cup Scope(who)

Goto(t, at) == threads' = (threads \ {t}) \cup {[t EXCEPT !.at = at]}
End(t) == threads' = threads \ {t}

\* A write without a sync, by somebody else than the user.
Disturb(u) ==
    /\ threads' = Jostled(u)
    /\ touched' = IF rows[u].online \/ index[u] # NoEntry \/ Writers(u) # {}
                  THEN touched \cup {u} ELSE touched
    /\ UNCHANGED <<index, enabled, posted, work>>

Reprice(u, row) ==
    repriced' = IF row.prices # rows[u].prices /\ (work[u] # NoOrder \/ Taking(u))
                THEN repriced \cup {u} ELSE repriced
----------------------------------------------------------------------------
(* The online button: toggle_online                                         *)

\* ProfileMiddleware lets in who is active.
PressToggle(u) ==
    /\ Admitted(u)
    /\ rows[u].status = "active"
    /\ ~\E t \in threads : t.user = u /\ t.at = "flip"
    /\ Start("toggle", u, "flip", NoRow)
    /\ UNCHANGED <<formVars, rows, index, enabled, posted, work, review, repriced, saves, decisions>>

\* toggle_is_online_and_get
Flip(t) ==
    /\ t.op = "toggle" /\ t.at = "flip"
    /\ rows' = [rows EXCEPT ![t.user].online = ~@]
    /\ threads' = (threads \ {t}) \cup {[t EXCEPT !.at = "first", !.row = rows'[t.user]]}
    /\ UNCHANGED <<formVars, index, enabled, posted, work, review, auxVars>>

FirstScript(t) ==
    /\ t.op = "toggle" /\ t.at = "first"
    /\ index' = [index EXCEPT ![t.user] = SyncFirst(@, t.row)]
    /\ Goto(t, "second")
    /\ UNCHANGED <<formVars, rows, enabled, posted, work, review, auxVars>>

\* An undisturbed sync makes the entry right again, except that code tiers add up.
SecondScript(t) ==
    /\ t.op = "toggle" /\ t.at = "second"
    /\ index' = [index EXCEPT ![t.user] = SyncSecond(@, t.row)]
    /\ End(t)
    /\ touched' = IF t.lone /\ ~(Eligible(t.row) /\ t.row.codes) THEN touched \ {t.user} ELSE touched
    /\ UNCHANGED <<formVars, rows, enabled, posted, work, review, repriced, saves, decisions>>
----------------------------------------------------------------------------
(* Saving a form: save_profile_from_data, deactivate_and_notify             *)

The(s) == CHOOSE x \in s : TRUE

Content(f) == [NoRow EXCEPT !.codes = The(f.codes), !.start = The(f.start), !.end = The(f.end),
                            !.prices = IF The(f.codes) THEN NoTable ELSE f.prices]

\* process_work_end: the last answer of a registration saves it. The branch that asks for
\* a missing start again is left out: reg_end follows only an answered start.
FinishRegistration(u, h) ==
    LET f == [form[u] EXCEPT !.end = {h}] IN
    /\ Admitted(u)
    /\ fsm[u] = "reg_end"
    /\ f.start # {} /\ Valid(f.start, {h})
    /\ Fill(u, f)
    /\ saves < MaxSaves /\ saves' = saves + 1
    /\ Start("registration", u, "upsert", Content(f))
    /\ UNCHANGED <<fsm, due, overtaken, rows, index, enabled, posted, work, review, repriced,
                   decisions>>

SaveEdit(u) ==
    /\ Admitted(u)
    /\ fsm[u] = "edit_menu"
    /\ saves < MaxSaves /\ saves' = saves + 1
    /\ Start("edit", u, "upsert", Content(form[u]))
    /\ UNCHANGED <<formVars, rows, index, enabled, posted, work, review, repriced, decisions>>

Reset(row) == [row EXCEPT !.status = "inactive", !.online = FALSE]

\* create_or_update: the tier stays.
Upsert(t) ==
    LET u == t.user IN
    /\ t.at = "upsert"
    /\ rows' = [rows EXCEPT ![u] = Reset([t.row EXCEPT !.tier = rows[u].tier])]
    /\ Reprice(u, rows'[u])
    /\ Goto(t, "deactivate")
    /\ UNCHANGED <<formVars, index, enabled, posted, work, review, touched, saves, decisions>>

Deactivate(t) ==
    /\ t.at = "deactivate"
    /\ rows' = [rows EXCEPT ![t.user] = Reset(@)]
    /\ Goto(t, "first")
    /\ UNCHANGED <<formVars, index, enabled, posted, work, review, auxVars>>

\* OnlineIndexRouter.remove, and the broadcast to the moderators after it
RemovePack(t) ==
    /\ t.op \in Saves /\ t.at = "first"
    /\ index' = [index EXCEPT ![t.user] = PackRemove(@)]
    /\ Goto(t, "second")
    /\ UNCHANGED <<formVars, rows, enabled, posted, work, review, auxVars>>

RemoveCode(t) ==
    /\ t.op \in Saves /\ t.at = "second"
    /\ index' = [index EXCEPT ![t.user] = CodeRemove(@)]
    /\ posted' = posted \cup {t.user}
    /\ touched' = IF t.lone THEN touched \ {t.user} ELSE touched
    /\ Goto(t, "leave")
    /\ UNCHANGED <<formVars, rows, enabled, work, review, repriced, saves, decisions>>

\* The state is set whatever was set since.
LeaveForm(t) ==
    /\ t.at = "leave"
    /\ Leave(t.user, IF t.op = "registration" THEN "reg_finished" ELSE "none")
    /\ End(t)
    /\ UNCHANGED <<rows, index, enabled, posted, work, review, auxVars>>
----------------------------------------------------------------------------
(* Moderators                                                               *)

\* approve_user, for what the buttons of the decision message were set to.
Approve(u, codes, tier) ==
    /\ u \in posted /\ decisions < MaxDecisions
    /\ decisions' = decisions + 1
    /\ rows' = [rows EXCEPT ![u].status = "active", ![u].codes = codes, ![u].tier = tier,
                            ![u].prices = IF codes THEN NoTable ELSE @]
    /\ Close(u, "none")
    /\ Disturb(u)
    /\ Reprice(u, rows'[u])
    /\ UNCHANGED <<review, saves>>

\* save_packs, at the end of the moderator's own dialogue
SetPrices(u, prices) ==
    /\ u \in posted /\ decisions < MaxDecisions
    /\ decisions' = decisions + 1
    /\ rows' = [rows EXCEPT ![u].prices = prices]
    /\ Disturb(u)
    /\ Reprice(u, rows'[u])
    /\ UNCHANGED <<formVars, review, saves>>
----------------------------------------------------------------------------
(* The switch                                                               *)

Disable ==
    /\ enabled
    /\ enabled' = FALSE
    /\ Start("disable", Everyone, "flip", NoRow)
    /\ UNCHANGED <<formVars, rows, index, posted, work, review, repriced, saves, decisions>>

Enable ==
    /\ ~enabled
    /\ enabled' = TRUE
    /\ UNCHANGED <<formVars, rows, index, threads, posted, work, review, auxVars>>

\* go_everyone_full_offline
AllOffline(t) ==
    /\ t.op = "disable" /\ t.at = "flip"
    /\ rows' = [u \in Users |-> [rows[u] EXCEPT !.online = FALSE]]
    /\ Goto(t, "first")
    /\ UNCHANGED <<formVars, index, enabled, posted, work, review, auxVars>>

\* Mutant: the switch leaves the packages' sets alone.
ClearNoPack(t) ==
    /\ t.op = "disable" /\ t.at = "first"
    /\ Goto(t, "second")
    /\ UNCHANGED <<formVars, rows, index, enabled, posted, work, review, auxVars>>

ClearPack(t) ==
    /\ t.op = "disable" /\ t.at = "first"
    /\ index' = [u \in Users |-> PackRemove(index[u])]
    /\ Goto(t, "second")
    /\ UNCHANGED <<formVars, rows, enabled, posted, work, review, auxVars>>

ClearCode(t) ==
    /\ t.op = "disable" /\ t.at = "second"
    /\ index' = [u \in Users |-> CodeRemove(index[u])]
    /\ touched' = IF t.lone THEN {} ELSE touched
    /\ End(t)
    /\ UNCHANGED <<formVars, rows, enabled, posted, work, review, repriced, saves, decisions>>
----------------------------------------------------------------------------
(* Orders                                                                   *)

\* take_order: the profile is read before the handler. Cards of old offers can be pressed.
\* Bound: a user has one order in work at a time.
PressTake(u, o) ==
    /\ Admitted(u)
    /\ Known(u) /\ Resting(u) /\ work[u] = NoOrder /\ ~Taking(u)
    /\ Cardinality(threads) < MaxThreads
    /\ threads' = threads \cup {Thread("take", u, "commit", rows[u], o, TRUE)}
    /\ repriced' = repriced \ {u}
    /\ UNCHANGED <<formVars, rows, index, enabled, posted, work, review, touched, saves, decisions>>

\* OrderLifecycle.take, of an order still open to the user or not.
CommitTake(t) ==
    /\ t.at = "commit"
    /\ \/ /\ rows[t.user].online
          /\ t.row.codes = t.order.codes
          /\ ValidateTake(t.order, t.row)
          /\ work' = [work EXCEPT ![t.user] = t.order]
       \/ UNCHANGED work
    /\ End(t)
    /\ UNCHANGED <<formVars, rows, index, enabled, posted, review, auxVars>>

CanPay(o, row) == o.codes \/ PackSizes(o.amount) \subseteq DOMAIN row.prices

\* complete fails with a KeyError when a size has no price any more; or the order is
\* cancelled, timed out or cleaned.
Finish(u) ==
    /\ work[u] # NoOrder
    /\ work' = [work EXCEPT ![u] = NoOrder]
    /\ UNCHANGED <<formVars, rows, index, enabled, threads, posted, review, auxVars>>

----------------------------------------------------------------------------
(* The review behind Ready: ready_order, AntiFraudService.review            *)

\* The order is read, and the store asked. Bound: one review of a user at a time.
PressReady(u) ==
    /\ Admitted(u)
    /\ work[u] # NoOrder /\ review[u] = "none"
    /\ review' = [review EXCEPT ![u] = "asked"]
    /\ UNCHANGED <<formVars, rows, index, enabled, threads, posted, work, auxVars>>

\* No fraud, no answer, or an administrator. Completing the order is in Finish.
Pass(u) ==
    /\ review[u] = "asked"
    /\ review' = [review EXCEPT ![u] = "none"]
    /\ UNCHANGED <<formVars, rows, index, enabled, threads, posted, work, auxVars>>

\* Fraud: UserProfileService.block, except for administrators. The entry stays in the index.
Ban(u) ==
    /\ review[u] = "asked" /\ u \notin Admins
    /\ review' = [review EXCEPT ![u] = "blocked"]
    /\ rows' = [rows EXCEPT ![u].status = "banned"]
    /\ Disturb(u)
    /\ UNCHANGED <<formVars, repriced, saves, decisions>>

\* Mutant: the dialogue of who is banned goes on.
CloseNothing(u) ==
    /\ review[u] = "blocked"
    /\ review' = [review EXCEPT ![u] = "none"]
    /\ UNCHANGED <<formVars, rows, index, enabled, threads, posted, work, auxVars>>

\* _report_fraud: the state of the chat, once every moderator has been told.
CloseChat(u) ==
    /\ review[u] = "blocked"
    /\ review' = [review EXCEPT ![u] = "none"]
    /\ Close(u, "blocked")
    /\ UNCHANGED <<rows, index, enabled, threads, posted, work, auxVars>>
----------------------------------------------------------------------------
\* The dialogue moves only between the user's saves, its inner steps while nothing else does.
Dialogue(u) ==
    /\ Admitted(u) /\ ~Saving(u) /\ due[u] = {}
    /\ \/ StartCommand(u, Known(u))
       \/ MenuTrigger(u, Known(u))
       \/ OpenEdit(u, rows[u])
       \/ threads = {} /\ FormStep(u)
    /\ UNCHANGED <<rows, index, enabled, threads, posted, work, review, auxVars>>

\* The handler of a dialogue ends.
EndDialogue(u) ==
    /\ Arrive(u)
    /\ UNCHANGED <<rows, index, enabled, threads, posted, work, review, auxVars>>

ThreadStep(t) ==
    \/ Flip(t)
    \/ FirstScript(t) \/ SecondScript(t)
    \/ Upsert(t) \/ Deactivate(t) \/ RemovePack(t) \/ RemoveCode(t) \/ LeaveForm(t)
    \/ AllOffline(t) \/ ClearPack(t) \/ ClearCode(t)
    \/ CommitTake(t)

Next ==
    \/ \E u \in Users :
        \/ Dialogue(u) \/ EndDialogue(u) \/ PressToggle(u) \/ SaveEdit(u)
        \/ \E h \in Hours : FinishRegistration(u, h)
        \/ \E o \in Orders : PressTake(u, o)
        \/ Finish(u) \/ PressReady(u) \/ Pass(u) \/ Ban(u) \/ CloseChat(u)
        \/ \E codes \in BOOLEAN, tier \in Tiers : Approve(u, codes, tier)
        \/ \E prices \in PriceTables \ {NoTable} : SetPrices(u, prices)
    \/ Disable \/ Enable
    \/ \E t \in threads : ThreadStep(t)

Spec == Init /\ [][Next]_vars
----------------------------------------------------------------------------
(* Properties                                                               *)

\* No two handlers met on the user, and nobody wrote his row while he was online.
Settled(u) == Writers(u) = {} /\ u \notin touched

\* The online index mirrors the rows: once handlers have run one by one, whoever was left
\* with a wrong entry by others is right again after his next undisturbed change.
IndexFollowsRows == \A u \in Users : Settled(u) => index[u] = Mirror(rows[u])

\* Switched off, the bot has nobody online and nobody to offer an order to but
\* administrators, whom it lets in.
DisabledIsEmpty ==
    ~enabled => \A u \in Users \ Admins : Settled(u) => ~rows[u].online /\ index[u] = NoEntry

\* Whom the ranking picks from the index may take the order by the rules of take, which
\* reads the row; else the order would be offered round in vain.
RankedCanTake ==
    \A o \in Orders : \A u \in Candidates(index, o, {}) : Settled(u) =>
        rows[u].online /\ rows[u].codes = o.codes /\ ValidateTake(o, rows[u])

\* An order in work can be paid at the prices of the row when it is completed, unless
\* they were changed after the user pressed Take.
CanBePaid ==
    \A u \in Users : work[u] # NoOrder /\ u \notin repriced => CanPay(work[u], rows[u])

\* A form is saved with ordered hours and, for packages, with a price for exactly the sizes
\* last selected, however its dialogue wandered. An edit that leaves the packages alone
\* keeps what the row had, which moderators may have emptied.
FormsComplete ==
    \A u \in Users :
        /\ \A t \in threads : t.user = u /\ t.at = "upsert" =>
              /\ t.row.start < t.row.end
              /\ \/ t.row.codes \/ t.row.prices # NoTable
                 \/ t.op = "edit" /\ form[u].selected = {}
        /\ fsm[u] \in {"edit_menu", "reg_withdrawal", "reg_start", "reg_end"}
              /\ form[u].selected # {} => DOMAIN form[u].prices = form[u].selected

\* While a price is awaited, and no handler about to leave it, there is a size it is for:
\* else texts are swallowed.
PricesAwaited ==
    \A u \in Users : fsm[u] \in PricesStates /\ due[u] = {} => form[u].queue # {}

\* Banned and his chat closed, with no step of a dialogue under way then and no save now.
ShutOut(u) ==
    /\ rows[u].status = "banned"
    /\ review[u] # "blocked" /\ u \notin overtaken
    /\ ~Saving(u)

\* Who is shut out comes back only by a moderator's decision, though a save of his would
\* reset the status of the row: no dialogue he had open, or can open, leads to one. (A save
\* that overlaps with the ban, or begins before the chat is closed, does undo it, and so does
\* one after a step that the closing of the chat overtook.)
BannedStaysOut ==
    [][\A u \in Users : ShutOut(u) =>
            \/ rows'[u].status = "active"
            \/ rows'[u].status = "banned" /\ ~Saving(u)']_vars
=============================================================================

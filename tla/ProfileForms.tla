---------------------------- MODULE ProfileForms ----------------------------
(***************************************************************************)
(* The dialogue in which a user fills in or edits his profile: the state   *)
(* of his chat (fsm) and what he has entered so far (form). Buttons and    *)
(* texts are filtered by the state only, so old messages can be pressed.   *)
(*                                                                         *)
(* A value that may be missing is a set of at most one. Fields no property *)
(* reads (language, chat, withdrawal) are steps without a value. What a    *)
(* chat keeps after its dialogue is over is never read and is dropped.     *)
(*                                                                         *)
(* A handler checks the state of the chat, or the row, first and sets the  *)
(* state last: due is what it will set, whatever the state is by then.     *)
(*                                                                         *)
(* Assumption: the dialogue of one user is handled press by press.         *)
(***************************************************************************)
EXTENDS PackageMath, FiniteSets

CONSTANTS
    Users,
    Packs,   \* bound: the package sizes users are asked about
    Prices,  \* the prices within the limit
    Hours    \* the times of day

ASSUME FormsAssumption ==
    /\ Packs \subseteq PackageSizes /\ IsFiniteSet(Packs)
    /\ Prices \subseteq Nat \ {0}
    /\ Hours \subseteq Nat

VARIABLES
    fsm,
    form,
    due,        \* the state the handler under way is to set, if there is one
    overtaken   \* auxiliary: users whose chat others closed while such a handler was under way
formVars == <<fsm, form, due, overtaken>>

\* UserSession, Registration and ProfileEdit
InputStates == {"reg_plain", "reg_with_codes", "reg_packages", "reg_prices",
                "reg_withdrawal", "reg_start", "reg_end"}
FieldStates == {"edit_plain", "edit_packages", "edit_prices", "edit_start", "edit_end"}
States == {"none", "blocked", "reg_finished", "edit_menu"} \cup InputStates \cup FieldStates

PackagesStates == {"reg_packages", "edit_packages"}
PricesStates == {"reg_prices", "edit_prices"}
PricesStateOf(s) == IF s = "reg_packages" THEN "reg_prices" ELSE "edit_prices"
PackagesStateOf(s) == IF s \in {"reg_packages", "reg_prices"} THEN "reg_packages" ELSE "edit_packages"

PriceTables == UNION {[S -> Prices] : S \in SUBSET Packs}
NoTable == [s \in {} |-> 0]

Forms == [codes : SUBSET BOOLEAN, tier : SUBSET TierNumbers, prices : PriceTables,
          selected : SUBSET Packs, queue : SUBSET Packs, start : SUBSET Hours, end : SUBSET Hours]
Blank == [codes |-> {}, tier |-> {}, prices |-> NoTable, selected |-> {}, queue |-> {},
          start |-> {}, end |-> {}]

FormsTypeOK ==
    /\ fsm \in [Users -> States] /\ form \in [Users -> Forms]
    /\ due \in [Users -> SUBSET States] /\ overtaken \subseteq Users

FormsInit ==
    /\ fsm = [u \in Users |-> "none"] /\ form = [u \in Users |-> Blank]
    /\ due = [u \in Users |-> {}] /\ overtaken = {}

Enter(u, s) == fsm' = [fsm EXCEPT ![u] = s]
Fill(u, f) == form' = [form EXCEPT ![u] = f]

\* set_state, at the end of the handler
Arrive(u) ==
    \E s \in due[u] : /\ Enter(u, s)
                      /\ due' = [due EXCEPT ![u] = {}]
                      /\ UNCHANGED <<form, overtaken>>

Due(u, s) == due' = [due EXCEPT ![u] = {s}] /\ UNCHANGED <<fsm, overtaken>>
Reach(u, s) == Enter(u, s) /\ UNCHANGED <<due, overtaken>>

\* While a registration is filled in there is no row to ban or approve, so nobody else sets
\* the state and when it is set makes no difference.
Proceed(u, s) == IF fsm[u] \in InputStates THEN Reach(u, s) ELSE Due(u, s)

\* The user's own handler ends the dialogue.
Leave(u, s) ==
    /\ Enter(u, s) /\ Fill(u, Blank)
    /\ overtaken' = overtaken \ {u}
    /\ UNCHANGED due

\* Somebody else sets the state. What the chat keeps is not touched by that.
Close(u, s) ==
    /\ Enter(u, s)
    /\ IF due[u] = {} THEN Fill(u, Blank) /\ overtaken' = overtaken \ {u}
       ELSE UNCHANGED form /\ overtaken' = overtaken \cup {u}
    /\ UNCHANGED due

\* /start: who has no profile begins the registration anew. For who has one the back button
\* of a panel (back_to_welcome) does the same.
StartCommand(u, known) == Leave(u, IF known THEN "none" ELSE "reg_plain")

\* The menu button and /menu are refused while a registration is being filled in.
MenuTrigger(u, known) ==
    /\ fsm[u] \notin InputStates
    /\ Leave(u, IF known THEN "none" ELSE "reg_plain")

\* process_language, process_chat_addable
AnswerPlain(u) ==
    /\ fsm[u] = "reg_plain"
    /\ Reach(u, "reg_with_codes")
    /\ UNCHANGED form

\* show_packages_grid
Grid(f) == [f EXCEPT !.selected = DOMAIN f.prices]

\* process_with_codes
AnswerWithCodes(u, codes) ==
    /\ fsm[u] = "reg_with_codes"
    /\ LET f == [form[u] EXCEPT !.codes = {codes}]
       IN IF codes THEN Reach(u, "reg_withdrawal") /\ Fill(u, f)
          ELSE Reach(u, "reg_packages") /\ Fill(u, Grid(f))

Allowed(f) == {s \in Packs : \A t \in f.tier : s \in AllowedPacks(t)}

\* toggle_pack
TogglePack(u, s) ==
    LET f == form[u] IN
    /\ fsm[u] \in PackagesStates
    /\ s \in f.selected \/ s \in Allowed(f)
    /\ Fill(u, [f EXCEPT !.selected = IF s \in @ THEN @ \ {s} ELSE @ \cup {s}])
    /\ UNCHANGED <<fsm, due, overtaken>>

\* Mutant: nothing selected is accepted.
PacksDoneUnselected(u) ==
    /\ fsm[u] \in PackagesStates
    /\ form[u].selected \subseteq Allowed(form[u])
    /\ Proceed(u, PricesStateOf(fsm[u]))
    /\ Fill(u, [form[u] EXCEPT !.queue = form[u].selected])

\* ensure_packages_selected, start_price_entry
PacksDone(u) ==
    /\ fsm[u] \in PackagesStates
    /\ form[u].selected # {} /\ form[u].selected \subseteq Allowed(form[u])
    /\ Proceed(u, PricesStateOf(fsm[u]))
    /\ Fill(u, [form[u] EXCEPT !.queue = form[u].selected])

\* pack_cancel: what was priced so far stays.
CancelPack(u) ==
    /\ fsm[u] \in PackagesStates \cup PricesStates
    /\ IF fsm[u] \in PricesStates THEN Proceed(u, PackagesStateOf(fsm[u]))
       ELSE UNCHANGED <<fsm, due, overtaken>>
    /\ Fill(u, [form[u] EXCEPT !.queue = {}])

Pruned(prices, S) == [s \in S \cap DOMAIN prices |-> prices[s]]

\* Mutant: the last price is not pruned to what is selected.
SubmitPriceUnpruned(u, price) ==
    LET f == form[u]
        size == CHOOSE s \in f.queue : \A r \in f.queue : s <= r
        rest == f.queue \ {size}
        prices == [s \in DOMAIN f.prices \cup {size} |-> IF s = size THEN price ELSE f.prices[s]]
    IN
    /\ fsm[u] \in PricesStates /\ f.queue # {}
    /\ Fill(u, [f EXCEPT !.queue = rest, !.prices = prices])
    /\ IF rest # {} THEN UNCHANGED <<fsm, due, overtaken>>
       ELSE Proceed(u, IF fsm[u] = "reg_prices" THEN "reg_withdrawal" ELSE "edit_menu")

\* submit_pack_price: the sizes of the queue in ascending order.
SubmitPrice(u, price) ==
    LET f == form[u]
        size == CHOOSE s \in f.queue : \A r \in f.queue : s <= r
        rest == f.queue \ {size}
        prices == [s \in DOMAIN f.prices \cup {size} |-> IF s = size THEN price ELSE f.prices[s]]
    IN
    /\ fsm[u] \in PricesStates /\ f.queue # {}
    /\ Fill(u, [f EXCEPT !.queue = rest,
                         !.prices = IF rest # {} THEN prices ELSE Pruned(prices, f.selected)])
    /\ IF rest # {} THEN UNCHANGED <<fsm, due, overtaken>>
       ELSE Proceed(u, IF fsm[u] = "reg_prices" THEN "reg_withdrawal" ELSE "edit_menu")

\* process_withdrawal_method
AnswerWithdrawal(u) ==
    /\ fsm[u] = "reg_withdrawal"
    /\ Reach(u, "reg_start")
    /\ UNCHANGED form

\* _apply_work_time, is_valid_work_hours: against the other end, if there is one.
Valid(starts, ends) == \A s \in starts, e \in ends : s < e

\* process_work_start, edit_work_start
AnswerStart(u, h) ==
    /\ fsm[u] \in {"reg_start", "edit_start"}
    /\ Valid({h}, form[u].end)
    /\ Fill(u, [form[u] EXCEPT !.start = {h}])
    /\ Proceed(u, IF fsm[u] = "reg_start" THEN "reg_end" ELSE "edit_menu")

\* edit_work_end
EditEnd(u, h) ==
    /\ fsm[u] = "edit_end"
    /\ Valid(form[u].start, {h})
    /\ Fill(u, [form[u] EXCEPT !.end = {h}])
    /\ Due(u, "edit_menu")

\* Mutant: the profile need not be active.
OpenEditAnyway(u, row) ==
    /\ Due(u, "edit_menu")
    /\ Fill(u, [Blank EXCEPT !.codes = {row.codes}, !.tier = {row.tier}, !.prices = row.prices,
                             !.start = {row.start}, !.end = {row.end}])

\* open_edit, load_profile_into_state: ProfileMiddleware has read the row.
OpenEdit(u, row) ==
    /\ row.status = "active"
    /\ Due(u, "edit_menu")
    /\ Fill(u, [Blank EXCEPT !.codes = {row.codes}, !.tier = {row.tier}, !.prices = row.prices,
                             !.start = {row.start}, !.end = {row.end}])

\* open_field, begin_field_edit
OpenField(u, s) ==
    /\ fsm[u] = "edit_menu"
    /\ s \in FieldStates \ PricesStates
    /\ Due(u, s)
    /\ Fill(u, IF s = "edit_packages" THEN Grid(form[u]) ELSE form[u])

\* edit_language, edit_chat_addable, edit_withdrawal
EditPlain(u) ==
    /\ fsm[u] = "edit_plain"
    /\ Due(u, "edit_menu")
    /\ UNCHANGED form

FormStep(u) ==
    \/ AnswerPlain(u) \/ AnswerWithdrawal(u) \/ EditPlain(u)
    \/ \E codes \in BOOLEAN : AnswerWithCodes(u, codes)
    \/ \E s \in Packs : TogglePack(u, s)
    \/ PacksDone(u) \/ CancelPack(u)
    \/ \E p \in Prices : SubmitPrice(u, p)
    \/ \E h \in Hours : AnswerStart(u, h) \/ EditEnd(u, h)
    \/ \E s \in FieldStates : OpenField(u, s)
=============================================================================

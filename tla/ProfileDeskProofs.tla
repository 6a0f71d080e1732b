------------------------- MODULE ProfileDeskProofs -------------------------
(***************************************************************************)
(* Proofs about the profiles, for any number of users, handlers, saves and *)
(* decisions: what forms and rows hold, that the index follows the rows,   *)
(* that whom the ranking picks may take the order and be paid for it, that *)
(* the switch leaves nobody but administrators online, that bans last.     *)
(***************************************************************************)
EXTENDS ProfileDesk, TLAPS

EditStates == {"edit_menu"} \cup FieldStates
AnsweredStates == {"reg_withdrawal", "reg_start", "reg_end"}
\* Where the prices entered are those of the sizes selected.
PricedStates == AnsweredStates \cup {"edit_menu", "edit_plain", "edit_start", "edit_end"}

\* What a form holds by the state of its dialogue.
FormFits(s, f) ==
    /\ s \in {"reg_plain", "reg_with_codes"} => f = Blank
    /\ s \in EditStates => f.codes \in {{TRUE}, {FALSE}}
    /\ s \in EditStates => f.start # {} /\ f.end # {} /\ Valid(f.start, f.end)
    /\ s \in {"reg_packages", "reg_prices"} => f.codes = {FALSE}
    /\ s \in AnsweredStates => f.codes \in {{TRUE}, {FALSE}}
    /\ s \in AnsweredStates => f.codes = {TRUE} \/ f.selected # {}
    /\ s \in PricesStates => f.queue # {} /\ f.queue \subseteq f.selected
    /\ s \in PricesStates => f.selected \ f.queue \subseteq DOMAIN f.prices
    /\ s \in PricedStates /\ f.selected # {} => DOMAIN f.prices = f.selected

\* Where FormsComplete looks at the form.
Agrees(s, f) ==
    s \in AnsweredStates \cup {"edit_menu"} /\ f.selected # {} => DOMAIN f.prices = f.selected

\* The form fits the state of the chat, or the one it is about to get.
Fit(u) ==
    /\ due[u] = {} => FormFits(fsm[u], form[u])
    /\ \A s \in due[u] : FormFits(s, form[u])
    /\ Agrees(fsm[u], form[u])

\* The hours of a row, once there is one.
Timed(row) == row.start \in Hours /\ row.end \in Hours /\ row.start < row.end

Entries == [prices : PriceTables, tier : TierNumbers \cup {NoTier}, keys : SUBSET TierNumbers]

SaveSteps == {"upsert", "deactivate", "first", "second", "leave"}
Toggles == [op : {"toggle"}, user : Users, at : {"flip", "first", "second"}, row : Rows,
            order : {NoOrder}, lone : BOOLEAN]
Savings == [op : Saves, user : Users, at : SaveSteps, row : Rows, order : {NoOrder}, lone : BOOLEAN]
Disables == [op : {"disable"}, user : {Everyone}, at : {"flip", "first", "second"}, row : Rows,
             order : {NoOrder}, lone : BOOLEAN]
Takes == [op : {"take"}, user : Users, at : {"commit"}, row : Rows, order : Orders, lone : BOOLEAN]
Kinds == Toggles \cup Savings \cup Disables \cup Takes

\* What a handler will write is complete, and who has written or takes has a row.
ThreadOK(t) ==
    /\ t.at = "upsert" =>
          /\ Timed(t.row)
          /\ t.row.codes \/ t.row.prices # NoTable \/ (t.op = "edit" /\ form[t.user].selected = {})
    /\ t.op \in Saves => due[t.user] = {}
    /\ t.op \in Saves /\ t.at # "upsert" => Known(t.user)
    /\ t.op = "take" => Known(t.user)

Typed ==
    /\ FormsTypeOK
    /\ rows \in [Users -> Rows]
    /\ index \in [Users -> Entries]
    /\ enabled \in BOOLEAN
    /\ threads \subseteq Kinds
    /\ posted \subseteq Users
    /\ work \in [Users -> Orders \cup {NoOrder}]
    /\ review \in [Users -> {"none", "asked", "blocked"}]
    /\ touched \subseteq Users /\ repriced \subseteq Users
    /\ saves \in 0..MaxSaves /\ decisions \in 0..MaxDecisions

Filled ==
    /\ \A u \in Users : Fit(u)
    /\ \A u \in Users : Known(u) => Timed(rows[u])
    /\ \A t \in threads : ThreadOK(t)
    /\ \A u \in Users : u \in posted \/ work[u] # NoOrder \/ review[u] # "none" => Known(u)

\* No form of a banned user is open or about to be, unless his chat is still to be closed or
\* its closing was overtaken.
IdleStates == {"none", "blocked", "reg_finished"}
Closed(u) == due[u] = {} /\ fsm[u] \in IdleStates
Shut(u) == Closed(u) \/ u \in overtaken
BanInv == \A u \in Users : rows[u].status = "banned" => review[u] = "blocked" \/ Shut(u)

\* What a handler alone with the user, or whose user nobody else has touched, has done to
\* row and entry so far.
Flipped(row) == [row EXCEPT !.online = ~@]

Claim(t, u) ==
    /\ t.at \in {"flip", "upsert"} /\ u \notin touched => index[u] = Mirror(rows[u])
    /\ t.op = "toggle" /\ t.at # "flip" => t.row = rows[u]
    /\ t.op = "toggle" /\ t.at = "first" /\ u \notin touched => index[u] = Mirror(Flipped(rows[u]))
    /\ t.op = "toggle" /\ t.at = "second" /\ (u \notin touched \/ ~(Eligible(rows[u]) /\ rows[u].codes))
          => SyncSecond(index[u], rows[u]) = Mirror(rows[u])
    /\ t.op # "toggle" /\ t.at \notin {"flip", "upsert"} => ~rows[u].online
    /\ t.op # "toggle" /\ t.at = "second" => index[u].prices = NoPrices /\ index[u].tier = NoTier
    /\ t.at = "leave" => index[u] = NoEntry

Sole(u) == \A s, t \in Writers(u) : u \notin touched \/ s.lone => s = t
Entered(u) == u \notin touched /\ Writers(u) = {} => index[u] = Mirror(rows[u])
Staged(u) == \A t \in Writers(u) : u \notin touched \/ t.lone => Claim(t, u)

IndexInv == \A u \in Users : Sole(u) /\ Entered(u) /\ Staged(u)

\* Handlers that were under way when the bot was switched off leave everyone in doubt;
\* without any, everyone is offline once the switch has done its first step. Only
\* administrators begin new ones, each of which changes his own row and entry.
Barred == Users \ Admins
Theirs(t) == t.op # "take" /\ t.user \notin Admins
Doubted == Barred \subseteq touched /\ \A t \in threads : Theirs(t) => ~t.lone
Offline == \A u \in Barred : ~rows[u].online
Emptied ==
    /\ \A t \in threads : Theirs(t) => t.op = "disable"
    /\ Offline \/ \E t \in threads : t.op = "disable" /\ t.at = "flip"
OffInv == ~enabled => Doubted \/ Emptied

\* The prices a take goes by are those of the row, unless they were changed since.
PayInv ==
    \A u \in Users \ repriced :
        /\ \A t \in threads : t.op = "take" /\ t.user = u => t.row.prices = rows[u].prices
        /\ work[u] # NoOrder => CanPay(work[u], rows[u])
----------------------------------------------------------------------------
(* Forms.                                                                   *)

LEMMA TableIs ==
    /\ \A p \in PriceTables : p \in [DOMAIN p -> Prices] /\ DOMAIN p \subseteq Packs
    /\ \A S \in SUBSET Packs : \A p \in [S -> Prices] : p \in PriceTables
    /\ NoTable \in PriceTables /\ DOMAIN NoTable = {}
<1>1. \A S \in SUBSET Packs : \A p \in [S -> Prices] : p \in PriceTables
    BY DEF PriceTables
<1>2. NoTable \in [{} -> Prices]
    BY DEF NoTable
<1> QED
    BY <1>1, <1>2 DEF PriceTables

LEMMA BlankForm == Blank \in Forms /\ Blank.selected = {}
    BY TableIs DEF Blank, Forms

LEMMA LeastSize ==
    ASSUME NEW q \in SUBSET PackageSizes, q # {}
    PROVE  (CHOOSE s \in q : \A r \in q : s <= r) \in q
<1>1. \E s \in q : \A r \in q : s <= r
  <2>1. CASE 60 \in q
      BY <2>1 DEF PackageSizes
  <2>2. CASE 60 \notin q /\ 325 \in q
      BY <2>2 DEF PackageSizes
  <2>3. CASE 60 \notin q /\ 325 \notin q /\ 660 \in q
      BY <2>3 DEF PackageSizes
  <2>4. CASE q \subseteq {1800, 3850, 8100} /\ 1800 \in q
      BY <2>4
  <2>5. CASE q \subseteq {3850, 8100} /\ 3850 \in q
      BY <2>5
  <2>6. CASE q \subseteq {8100}
    <3>1. PICK x \in q : TRUE
        OBVIOUS
    <3>2. \A r \in q : r = 8100
        BY <2>6
    <3>3. \A r \in q : x <= r
        BY <3>1, <3>2
    <3> QED
        BY <3>1, <3>3
  <2>7. 60 \notin q /\ 325 \notin q /\ 660 \notin q => q \subseteq {1800, 3850, 8100}
      BY DEF PackageSizes
  <2>8. q \subseteq {1800, 3850, 8100} /\ 1800 \notin q => q \subseteq {3850, 8100}
      OBVIOUS
  <2>9. q \subseteq {3850, 8100} /\ 3850 \notin q => q \subseteq {8100}
      OBVIOUS
  <2> QED
      BY <2>1, <2>2, <2>3, <2>4, <2>5, <2>6, <2>7, <2>8, <2>9
<1> QED
    BY <1>1

\* A dialogue goes to a state, or is about to.
Goes(u, s, f) ==
    /\ overtaken' \in {overtaken, overtaken \ {u}}
    /\ \/ Enter(u, s) /\ UNCHANGED due
       \/ UNCHANGED fsm /\ due' = [due EXCEPT ![u] = {s}] /\ Agrees(fsm[u], f)

\* It does with a form that fits the state.
Comes(u, s, f) == Goes(u, s, f) /\ Fill(u, f) /\ s \in States /\ f \in Forms /\ FormFits(s, f)
MovesForm(u) == \E s \in States, f \in Forms : Comes(u, s, f)

LEMMA Moved ==
    ASSUME FormsTypeOK, NEW u \in Users, due[u] = {}, NEW s, NEW f, Comes(u, s, f)
    PROVE  /\ FormsTypeOK' /\ form'[u] = f
           /\ Fit(u)'
           /\ \A v \in Users \ {u} : fsm'[v] = fsm[v] /\ form'[v] = form[v] /\ due'[v] = due[v]
<1>1. form' \in [Users -> Forms] /\ form'[u] = f /\ \A v \in Users \ {u} : form'[v] = form[v]
    BY DEF FormsTypeOK, Comes, Fill
<1>2. FormFits(s, f) /\ s \in States /\ overtaken' \subseteq Users
    BY DEF Comes, Goes, FormsTypeOK
<1>3. Agrees(s, f)
    BY <1>2 DEF FormFits, Agrees, PricedStates
<1>4. CASE Enter(u, s) /\ UNCHANGED due
  <2>1. /\ fsm' \in [Users -> States] /\ fsm'[u] = s /\ due'[u] = {}
        /\ \A v \in Users \ {u} : fsm'[v] = fsm[v]
      BY <1>2, <1>4 DEF FormsTypeOK, Enter
  <2>2. Fit(u)'
      BY <1>1, <1>2, <1>3, <2>1 DEF Fit
  <2> QED
      BY <1>1, <1>2, <1>4, <2>1, <2>2 DEF FormsTypeOK
<1>5. CASE UNCHANGED fsm /\ due' = [due EXCEPT ![u] = {s}] /\ Agrees(fsm[u], f)
  <2>1. /\ due' \in [Users -> SUBSET States] /\ due'[u] = {s}
        /\ \A v \in Users \ {u} : due'[v] = due[v]
      BY <1>2, <1>5 DEF FormsTypeOK
  <2>2. Fit(u)'
      BY <1>1, <1>2, <1>5, <2>1 DEF Fit
  <2> QED
      BY <1>1, <1>2, <1>5, <2>1, <2>2 DEF FormsTypeOK
<1> QED
    BY <1>4, <1>5 DEF Comes, Goes

LEMMA Keeps ==
    ASSUME FormsTypeOK, NEW u \in Users
    PROVE  /\ UNCHANGED fsm => Enter(u, fsm[u])
           /\ UNCHANGED form => Fill(u, form[u])
           /\ fsm[u] \in States /\ form[u] \in Forms
    BY DEF FormsTypeOK, Enter, Fill

\* The ways the steps of a dialogue go.
LEMMA Ways ==
    ASSUME FormsTypeOK, NEW u \in Users, NEW s, NEW f
    PROVE  /\ Reach(u, s) => Goes(u, s, f)
           /\ Due(u, s) /\ Agrees(fsm[u], f) => Goes(u, s, f)
           /\ Proceed(u, s) /\ (fsm[u] \in InputStates \/ Agrees(fsm[u], f)) => Goes(u, s, f)
           /\ UNCHANGED <<fsm, due, overtaken>> => Goes(u, fsm[u], f)
           /\ Leave(u, s) => Goes(u, s, f)
<1>1. overtaken \subseteq Users /\ (UNCHANGED fsm => Enter(u, fsm[u]))
    BY Keeps DEF FormsTypeOK
<1> QED
    BY <1>1 DEF Reach, Due, Proceed, Leave, Goes

LEMMA AnswerPlainFits ==
    ASSUME FormsTypeOK, NEW u \in Users, FormFits(fsm[u], form[u]), AnswerPlain(u)
    PROVE  Comes(u, "reg_with_codes", form[u])
<1>1. Fill(u, form[u]) /\ form[u] \in Forms
    BY Keeps DEF AnswerPlain
<1>2. FormFits("reg_with_codes", form[u])
    BY DEF AnswerPlain, FormFits, EditStates, FieldStates, AnsweredStates, PricesStates, PricedStates
<1>3. Goes(u, "reg_with_codes", form[u])
    BY Ways DEF AnswerPlain
<1> QED
    BY <1>1, <1>2, <1>3 DEF Comes, States, InputStates

LEMMA AnswerWithdrawalFits ==
    ASSUME FormsTypeOK, NEW u \in Users, FormFits(fsm[u], form[u]), AnswerWithdrawal(u)
    PROVE  Comes(u, "reg_start", form[u])
<1>1. Fill(u, form[u]) /\ form[u] \in Forms
    BY Keeps DEF AnswerWithdrawal
<1>2. FormFits("reg_start", form[u])
    BY DEF AnswerWithdrawal, FormFits, EditStates, FieldStates, AnsweredStates, PricesStates, PricedStates
<1>3. Goes(u, "reg_start", form[u])
    BY Ways DEF AnswerWithdrawal
<1> QED
    BY <1>1, <1>2, <1>3 DEF Comes, States, InputStates

LEMMA EditPlainFits ==
    ASSUME FormsTypeOK, NEW u \in Users, FormFits(fsm[u], form[u]), EditPlain(u)
    PROVE  Comes(u, "edit_menu", form[u])
<1>1. Fill(u, form[u]) /\ form[u] \in Forms
    BY Keeps DEF EditPlain
<1>2. FormFits("edit_menu", form[u])
    BY DEF EditPlain, FormFits, EditStates, FieldStates, AnsweredStates, PricesStates, PricedStates
<1>3. Goes(u, "edit_menu", form[u])
    BY Ways DEF Agrees, AnsweredStates, EditPlain
<1> QED
    BY <1>1, <1>2, <1>3 DEF Comes, States

LEMMA AnswerWithCodesFits ==
    ASSUME FormsTypeOK, NEW u \in Users, FormFits(fsm[u], form[u]), NEW codes \in BOOLEAN,
           AnswerWithCodes(u, codes)
    PROVE  MovesForm(u)
<1> DEFINE f == [form[u] EXCEPT !.codes = {codes}]
<1>1. /\ fsm[u] = "reg_with_codes" /\ form[u] = Blank
      /\ f \in Forms /\ f.selected = {} /\ f.codes = {codes} /\ DOMAIN f.prices = {}
    BY TableIs DEF AnswerWithCodes, FormFits, Blank, Forms
<1>2. CASE codes
  <2>1. Goes(u, "reg_withdrawal", f) /\ Fill(u, f)
      BY <1>2, Ways DEF AnswerWithCodes
  <2> HIDE DEF f
  <2>2. FormFits("reg_withdrawal", f)
      BY <1>1, <1>2 DEF FormFits, EditStates, FieldStates, AnsweredStates, PricesStates, PricedStates
  <2> QED
      BY <1>1, <2>1, <2>2 DEF MovesForm, Comes, States, InputStates
<1>3. CASE ~codes
  <2> DEFINE g == Grid(f)
  <2>1. Goes(u, "reg_packages", g) /\ Fill(u, g)
      BY <1>3, Ways DEF AnswerWithCodes
  <2>2. g \in Forms /\ g.codes = {FALSE}
      BY <1>1, <1>3 DEF Grid, Forms, Blank
  <2> HIDE DEF f, g
  <2>3. FormFits("reg_packages", g)
      BY <2>2 DEF FormFits, EditStates, FieldStates, AnsweredStates, PricesStates, PricedStates
  <2> QED
      BY <2>1, <2>2, <2>3 DEF MovesForm, Comes, States, InputStates
<1> QED
    BY <1>2, <1>3

LEMMA TogglePackFits ==
    ASSUME FormsTypeOK, NEW u \in Users, FormFits(fsm[u], form[u]), NEW x \in Packs, TogglePack(u, x)
    PROVE  MovesForm(u)
<1> DEFINE S == IF x \in form[u].selected THEN form[u].selected \ {x} ELSE form[u].selected \cup {x}
           f == [form[u] EXCEPT !.selected = S]
<1>1. Goes(u, fsm[u], f) /\ Fill(u, f) /\ fsm[u] \in States /\ form[u] \in Forms
    BY Keeps, Ways DEF TogglePack
<1>2. f \in Forms /\ f.codes = form[u].codes /\ f.start = form[u].start /\ f.end = form[u].end
    BY <1>1 DEF Forms
<1>3. fsm[u] \in {"reg_packages", "edit_packages"}
    BY DEF TogglePack, PackagesStates
<1> HIDE DEF f
<1>4. FormFits(fsm[u], f)
    BY <1>2, <1>3 DEF FormFits, EditStates, FieldStates, AnsweredStates, PricesStates, PricedStates
<1> QED
    BY <1>1, <1>2, <1>4 DEF MovesForm, Comes

LEMMA PacksDoneFits ==
    ASSUME FormsTypeOK, NEW u \in Users, FormFits(fsm[u], form[u]), PacksDone(u)
    PROVE  MovesForm(u)
<1> DEFINE f == [form[u] EXCEPT !.queue = form[u].selected]
           s == PricesStateOf(fsm[u])
<1>1. Proceed(u, s) /\ Fill(u, f) /\ form[u] \in Forms
    BY Keeps DEF PacksDone
<1>2. /\ f \in Forms /\ f.codes = form[u].codes /\ f.start = form[u].start /\ f.end = form[u].end
      /\ f.queue = f.selected /\ f.selected # {}
    BY <1>1 DEF Forms, PacksDone
<1>3. \/ fsm[u] = "reg_packages" /\ s = "reg_prices"
      \/ fsm[u] = "edit_packages" /\ s = "edit_prices"
    BY DEF PacksDone, PackagesStates, PricesStateOf
<1> HIDE DEF f, s
<1>4. FormFits(s, f)
    BY <1>2, <1>3 DEF FormFits, EditStates, FieldStates, AnsweredStates, PricesStates, PricedStates
<1>5. Goes(u, s, f)
  <2>1. Agrees(fsm[u], f)
      BY <1>3 DEF Agrees, AnsweredStates
  <2> QED
      BY <1>1, <2>1, Ways
<1> QED
    BY <1>1, <1>2, <1>3, <1>4, <1>5 DEF MovesForm, Comes, States, InputStates, FieldStates

LEMMA CancelPackFits ==
    ASSUME FormsTypeOK, NEW u \in Users, FormFits(fsm[u], form[u]), CancelPack(u)
    PROVE  MovesForm(u)
<1> DEFINE f == [form[u] EXCEPT !.queue = {}]
           s == PackagesStateOf(fsm[u])
<1>1. /\ Fill(u, f) /\ form[u] \in Forms
      /\ \/ Proceed(u, s)
         \/ fsm[u] \in PackagesStates /\ UNCHANGED <<fsm, due, overtaken>>
    BY Keeps DEF CancelPack
<1>2. /\ f \in Forms /\ f.codes = form[u].codes /\ f.start = form[u].start /\ f.end = form[u].end
    BY <1>1 DEF Forms
<1>3. \/ fsm[u] \in {"reg_packages", "reg_prices"} /\ s = "reg_packages"
      \/ fsm[u] \in {"edit_packages", "edit_prices"} /\ s = "edit_packages"
    BY DEF CancelPack, PackagesStates, PricesStates, PackagesStateOf
<1>4. fsm[u] \in PackagesStates => s = fsm[u]
    BY DEF PackagesStates, PackagesStateOf
<1> HIDE DEF f, s
<1>5. FormFits(s, f)
    BY <1>2, <1>3 DEF FormFits, EditStates, FieldStates, AnsweredStates, PricesStates, PricedStates
<1>6. Goes(u, s, f)
  <2>1. Agrees(fsm[u], f)
      BY <1>3 DEF Agrees, AnsweredStates
  <2> QED
      BY <1>1, <1>4, <2>1, Ways
<1> QED
    BY <1>1, <1>2, <1>3, <1>5, <1>6 DEF MovesForm, Comes, States, InputStates, FieldStates

\* The price of one more size, and of the last: the prices are those of the sizes selected.
LEMMA SubmitPriceFits ==
    ASSUME FormsTypeOK, NEW u \in Users, FormFits(fsm[u], form[u]), NEW price \in Prices,
           SubmitPrice(u, price)
    PROVE  MovesForm(u)
<1> DEFINE f == form[u]
           size == CHOOSE s \in f.queue : \A r \in f.queue : s <= r
           rest == f.queue \ {size}
           prices == [s \in DOMAIN f.prices \cup {size} |-> IF s = size THEN price ELSE f.prices[s]]
           last == Pruned(prices, f.selected)
           g == [f EXCEPT !.queue = rest, !.prices = IF rest # {} THEN prices ELSE last]
<1>1. fsm[u] \in States /\ f \in Forms /\ fsm[u] \in PricesStates /\ f.queue # {} /\ Fill(u, g)
    BY Keeps DEF SubmitPrice
<1>2. size \in f.queue /\ f.queue \subseteq Packs
  <2>1. f.queue \in SUBSET PackageSizes /\ f.queue \subseteq Packs
      BY <1>1, FormsAssumption DEF Forms
  <2> QED
      BY <1>1, <2>1, LeastSize
<1>3. rest # {} => UNCHANGED <<fsm, due, overtaken>>
    BY DEF SubmitPrice
<1>4. rest = {} => Proceed(u, IF fsm[u] = "reg_prices" THEN "reg_withdrawal" ELSE "edit_menu")
    BY DEF SubmitPrice
<1>5. f.queue \subseteq f.selected /\ f.selected \ f.queue \subseteq DOMAIN f.prices
    BY <1>1 DEF FormFits
<1>a. /\ fsm[u] = "reg_prices" => f.codes = {FALSE}
      /\ fsm[u] = "edit_prices" =>
            f.codes \in {{TRUE}, {FALSE}} /\ f.start # {} /\ f.end # {} /\ Valid(f.start, f.end)
      /\ fsm[u] \in {"reg_prices", "edit_prices"}
    BY <1>1 DEF FormFits, EditStates, FieldStates, PricesStates
<1> HIDE DEF size
<1>6. f.prices \in [DOMAIN f.prices -> Prices] /\ DOMAIN f.prices \subseteq Packs
    BY <1>1, TableIs DEF Forms
<1>7. prices \in [DOMAIN f.prices \cup {size} -> Prices]
    BY <1>6
<1>8. prices \in PriceTables /\ DOMAIN prices = DOMAIN f.prices \cup {size}
    BY <1>2, <1>6, <1>7, TableIs
<1> HIDE DEF prices
<1>9. last \in [f.selected \cap DOMAIN prices -> Prices]
    BY <1>7, <1>8 DEF Pruned
<1>10. last \in PriceTables /\ DOMAIN last = f.selected \cap (DOMAIN f.prices \cup {size})
    BY <1>1, <1>8, <1>9, TableIs DEF Forms
<1> HIDE DEF last
<1>11. /\ g \in Forms /\ g.codes = f.codes /\ g.start = f.start /\ g.end = f.end
       /\ g.selected = f.selected /\ g.queue = rest
       /\ rest # {} => g.prices = prices
       /\ rest = {} => g.prices = last
    BY <1>1, <1>8, <1>10 DEF Forms
<1> HIDE DEF g, f
<1>12. CASE rest # {}
  <2>1. Goes(u, fsm[u], g)
      BY <1>3, <1>12, Ways
  <2>2. rest \subseteq f.selected /\ f.selected \ rest \subseteq DOMAIN prices
      BY <1>5, <1>8
  <2>3. FormFits(fsm[u], g)
      BY <1>a, <1>11, <1>12, <2>2 DEF FormFits, EditStates, FieldStates, AnsweredStates, PricesStates, PricedStates
  <2> QED
      BY <1>1, <1>11, <2>1, <2>3 DEF MovesForm, Comes
<1>13. CASE rest = {}
  <2>1. f.selected # {} /\ f.selected \subseteq DOMAIN f.prices \cup {size}
      BY <1>1, <1>5, <1>13
  <2>2. DOMAIN last = f.selected
      BY <1>10, <2>1
  <2>3. CASE fsm[u] = "reg_prices"
    <3>1. FormFits("reg_withdrawal", g)
        BY <1>a, <1>11, <1>13, <2>1, <2>2, <2>3
           DEF FormFits, EditStates, FieldStates, AnsweredStates, PricesStates, PricedStates
    <3>2. Agrees(fsm[u], g)
        BY <2>3 DEF Agrees, AnsweredStates
    <3>3. Goes(u, "reg_withdrawal", g)
        BY <1>4, <1>13, <2>3, <3>2, Ways
    <3> QED
        BY <1>1, <1>11, <3>1, <3>3 DEF MovesForm, Comes, States, InputStates
  <2>4. CASE fsm[u] = "edit_prices"
    <3>1. FormFits("edit_menu", g)
        BY <1>a, <1>11, <1>13, <2>1, <2>2, <2>4
           DEF FormFits, EditStates, FieldStates, AnsweredStates, PricesStates, PricedStates
    <3>2. Agrees(fsm[u], g)
        BY <2>4 DEF Agrees, AnsweredStates
    <3>3. Goes(u, "edit_menu", g)
        BY <1>4, <1>13, <2>4, <3>2, Ways
    <3> QED
        BY <1>1, <1>11, <3>1, <3>3 DEF MovesForm, Comes, States
  <2> QED
      BY <1>a, <2>3, <2>4
<1> QED
    BY <1>12, <1>13

LEMMA AnswerStartFits ==
    ASSUME FormsTypeOK, NEW u \in Users, FormFits(fsm[u], form[u]), NEW h \in Hours, AnswerStart(u, h)
    PROVE  MovesForm(u)
<1> DEFINE f == [form[u] EXCEPT !.start = {h}]
           s == IF fsm[u] = "reg_start" THEN "reg_end" ELSE "edit_menu"
<1>1. Proceed(u, s) /\ Fill(u, f) /\ form[u] \in Forms
    BY Keeps DEF AnswerStart
<1>2. /\ f \in Forms /\ f.codes = form[u].codes /\ f.start = {h} /\ f.end = form[u].end
      /\ f.selected = form[u].selected /\ f.prices = form[u].prices
    BY <1>1 DEF Forms
<1>3. \/ fsm[u] = "reg_start" /\ s = "reg_end"
      \/ fsm[u] = "edit_start" /\ s = "edit_menu"
    BY DEF AnswerStart
<1>4. Valid({h}, form[u].end)
    BY DEF AnswerStart
<1> HIDE DEF f, s
<1>5. FormFits(s, f)
    BY <1>2, <1>3, <1>4 DEF FormFits, EditStates, FieldStates, AnsweredStates, PricesStates, PricedStates
<1>6. Goes(u, s, f)
  <2>1. fsm[u] \in InputStates \/ Agrees(fsm[u], f)
      BY <1>3 DEF Agrees, AnsweredStates, InputStates
  <2> QED
      BY <1>1, <2>1, Ways
<1> QED
    BY <1>1, <1>2, <1>3, <1>5, <1>6 DEF MovesForm, Comes, States, InputStates

LEMMA EditEndFits ==
    ASSUME FormsTypeOK, NEW u \in Users, FormFits(fsm[u], form[u]), NEW h \in Hours, EditEnd(u, h)
    PROVE  MovesForm(u)
<1> DEFINE f == [form[u] EXCEPT !.end = {h}]
<1>1. Due(u, "edit_menu") /\ Fill(u, f) /\ form[u] \in Forms
    BY Keeps DEF EditEnd
<1>2. /\ f \in Forms /\ f.codes = form[u].codes /\ f.end = {h} /\ f.start = form[u].start
      /\ f.selected = form[u].selected /\ f.prices = form[u].prices
    BY <1>1 DEF Forms
<1>3. fsm[u] = "edit_end" /\ Valid(form[u].start, {h})
    BY DEF EditEnd
<1> HIDE DEF f
<1>4. FormFits("edit_menu", f)
    BY <1>2, <1>3 DEF FormFits, EditStates, FieldStates, AnsweredStates, PricesStates, PricedStates
<1>5. Goes(u, "edit_menu", f)
  <2>1. Agrees(fsm[u], f)
      BY <1>3 DEF Agrees, AnsweredStates
  <2> QED
      BY <1>1, <2>1, Ways
<1> QED
    BY <1>1, <1>2, <1>4, <1>5 DEF MovesForm, Comes, States

LEMMA OpenFieldFits ==
    ASSUME FormsTypeOK, NEW u \in Users, FormFits(fsm[u], form[u]), NEW s \in FieldStates, OpenField(u, s)
    PROVE  MovesForm(u)
<1>1. Due(u, s) /\ fsm[u] = "edit_menu" /\ s \notin PricesStates /\ form[u] \in Forms
    BY Keeps DEF OpenField
<1>2. CASE s = "edit_packages"
  <2> DEFINE f == Grid(form[u])
  <2>1. Fill(u, f)
      BY <1>2 DEF OpenField
  <2>2. /\ f \in Forms /\ f.codes = form[u].codes /\ f.start = form[u].start /\ f.end = form[u].end
        /\ DOMAIN f.prices = f.selected
      BY <1>1, TableIs DEF Forms, Grid
  <2> HIDE DEF f
  <2>3. FormFits(s, f)
      BY <1>1, <1>2, <2>2 DEF FormFits, EditStates, FieldStates, AnsweredStates, PricesStates, PricedStates
  <2>4. Goes(u, s, f)
      BY <1>1, <2>2, Ways DEF Agrees
  <2> QED
      BY <1>1, <1>2, <2>1, <2>2, <2>3, <2>4 DEF MovesForm, Comes, States, FieldStates
<1>3. CASE s # "edit_packages"
  <2>1. Fill(u, form[u])
      BY <1>3 DEF OpenField
  <2>2. s \in {"edit_plain", "edit_start", "edit_end"}
      BY <1>1, <1>3 DEF FieldStates, PricesStates
  <2>3. FormFits(s, form[u])
      BY <1>1, <2>2 DEF FormFits, EditStates, FieldStates, AnsweredStates, PricesStates, PricedStates
  <2>4. Agrees(fsm[u], form[u])
      BY <1>1 DEF FormFits, Agrees, PricedStates
  <2>5. Goes(u, s, form[u])
      BY <1>1, <2>4, Ways
  <2> QED
      BY <1>1, <2>1, <2>2, <2>3, <2>5 DEF MovesForm, Comes, States, FieldStates
<1> QED
    BY <1>2, <1>3

LEMMA FormStepFits ==
    ASSUME FormsTypeOK, NEW u \in Users, FormFits(fsm[u], form[u]), FormStep(u)
    PROVE  MovesForm(u)
<1>1. CASE AnswerPlain(u)
    BY <1>1, AnswerPlainFits DEF MovesForm, Comes
<1>2. CASE AnswerWithdrawal(u)
    BY <1>2, AnswerWithdrawalFits DEF MovesForm, Comes
<1>3. CASE EditPlain(u)
    BY <1>3, EditPlainFits DEF MovesForm, Comes
<1>4. ASSUME NEW codes \in BOOLEAN, AnswerWithCodes(u, codes) PROVE MovesForm(u)
    BY <1>4, AnswerWithCodesFits
<1>5. ASSUME NEW x \in Packs, TogglePack(u, x) PROVE MovesForm(u)
    BY <1>5, TogglePackFits
<1>6. CASE PacksDone(u)
    BY <1>6, PacksDoneFits
<1>7. CASE CancelPack(u)
    BY <1>7, CancelPackFits
<1>8. ASSUME NEW p \in Prices, SubmitPrice(u, p) PROVE MovesForm(u)
    BY <1>8, SubmitPriceFits
<1>9. ASSUME NEW h \in Hours, AnswerStart(u, h) \/ EditEnd(u, h) PROVE MovesForm(u)
    BY <1>9, AnswerStartFits, EditEndFits
<1>10. ASSUME NEW s \in FieldStates, OpenField(u, s) PROVE MovesForm(u)
    BY <1>10, OpenFieldFits
<1> QED
    BY <1>1, <1>2, <1>3, <1>4, <1>5, <1>6, <1>7, <1>8, <1>9, <1>10 DEF FormStep

LEMMA LeaveFits ==
    ASSUME FormsTypeOK, NEW u \in Users,
           NEW s \in {"none", "blocked", "reg_finished", "reg_plain"}, Leave(u, s)
    PROVE  Comes(u, s, Blank)
<1>1. FormFits(s, Blank)
    BY BlankForm DEF FormFits, EditStates, FieldStates, AnsweredStates, PricesStates, PricedStates
<1>2. Goes(u, s, Blank)
    BY Ways
<1> QED
    BY <1>1, <1>2, BlankForm DEF Leave, Comes, States, InputStates

LEMMA OpenEditFits ==
    ASSUME FormsTypeOK, NEW u \in Users, rows[u] \in Rows, Timed(rows[u]), OpenEdit(u, rows[u])
    PROVE  MovesForm(u)
<1> DEFINE f == [Blank EXCEPT !.codes = {rows[u].codes}, !.tier = {rows[u].tier},
                              !.prices = rows[u].prices, !.start = {rows[u].start}, !.end = {rows[u].end}]
<1>1. Due(u, "edit_menu") /\ Fill(u, f)
    BY DEF OpenEdit
<1>2. /\ f \in Forms /\ f.codes \in {{TRUE}, {FALSE}} /\ f.selected = {}
      /\ f.start = {rows[u].start} /\ f.end = {rows[u].end}
    BY DEF Timed, Rows, Forms, Blank
<1>3. Valid(f.start, f.end)
    BY <1>2 DEF Timed, Valid
<1> HIDE DEF f
<1>4. FormFits("edit_menu", f)
    BY <1>2, <1>3 DEF FormFits, EditStates, FieldStates, AnsweredStates, PricesStates, PricedStates
<1>5. Goes(u, "edit_menu", f)
    BY <1>1, <1>2, Ways DEF Agrees
<1> QED
    BY <1>1, <1>2, <1>4, <1>5 DEF MovesForm, Comes, States

LEMMA DialogueFits ==
    ASSUME Typed, Filled, NEW u \in Users, Dialogue(u)
    PROVE  MovesForm(u) /\ due[u] = {}
<1>0. /\ FormsTypeOK /\ due[u] = {} /\ FormFits(fsm[u], form[u])
      /\ rows[u] \in Rows /\ (Known(u) => Timed(rows[u]))
    BY DEF Typed, Filled, Fit, Dialogue
<1>1. CASE StartCommand(u, Known(u)) \/ MenuTrigger(u, Known(u))
  <2>1. \E s \in {"none", "reg_plain"} : Leave(u, s)
      BY <1>1 DEF StartCommand, MenuTrigger
  <2> QED
      BY <1>0, <2>1, LeaveFits DEF MovesForm, Comes
<1>2. CASE OpenEdit(u, rows[u])
  <2>1. Known(u)
      BY <1>2 DEF OpenEdit, Known
  <2> QED
      BY <1>0, <1>2, <2>1, OpenEditFits
<1>3. CASE FormStep(u)
    BY <1>0, <1>3, FormStepFits
<1> QED
    BY <1>0, <1>1, <1>2, <1>3 DEF Dialogue
----------------------------------------------------------------------------
(* Types, and what forms, rows and handlers are filled with.                *)

LEMMA ThreadIs ==
    ASSUME NEW t \in Kinds
    PROVE  /\ t = Thread(t.op, t.user, t.at, t.row, t.order, t.lone)
           /\ t.lone \in BOOLEAN /\ t.row \in Rows
           /\ t.user \in Users <=> t.op # "disable"
           /\ t.op # "disable" => t.user # Everyone
           /\ t.op = "disable" => t.user = Everyone
           /\ t.at = "commit" <=> t.op = "take"
           /\ t.at \in {"upsert", "deactivate", "leave"} => t.op \in Saves
           /\ t.op = "take" => t.order \in Orders
    BY DeskAssumption DEF Kinds, Toggles, Savings, Disables, Takes, SaveSteps, Saves, Everyone, Thread

\* The places a handler goes through.
LEMMA WrittenAt ==
    ASSUME NEW t \in Kinds, NEW s
    PROVE  /\ t.op = "toggle" /\ s \in {"flip", "first", "second"} => [t EXCEPT !.at = s] \in Kinds
           /\ t.op = "disable" /\ s \in {"flip", "first", "second"} => [t EXCEPT !.at = s] \in Kinds
           /\ t.op \in Saves /\ s \in SaveSteps => [t EXCEPT !.at = s] \in Kinds
<1>1. t.op = "toggle" => t \in Toggles
    BY DEF Kinds, Toggles, Savings, Disables, Takes, Saves
<1>2. t.op = "disable" => t \in Disables
    BY DEF Kinds, Toggles, Savings, Disables, Takes, Saves
<1>3. t.op \in Saves => t \in Savings
    BY DEF Kinds, Toggles, Savings, Disables, Takes, Saves
<1>4. t \in Toggles /\ s \in {"flip", "first", "second"} => [t EXCEPT !.at = s] \in Toggles
    BY DEF Toggles
<1>5. t \in Disables /\ s \in {"flip", "first", "second"} => [t EXCEPT !.at = s] \in Disables
    BY DEF Disables
<1>6. t \in Savings /\ s \in SaveSteps => [t EXCEPT !.at = s] \in Savings
    BY DEF Savings
<1> QED
    BY <1>1, <1>2, <1>3, <1>4, <1>5, <1>6 DEF Kinds

\* The handlers after one of a user's has begun: the same, some of them no longer alone.
LEMMA JostledIs ==
    ASSUME NEW who, threads \subseteq Kinds
    PROVE  /\ Jostled(who) \subseteq Kinds
           /\ \A x \in Jostled(who) : \E t \in threads :
                 /\ x.op = t.op /\ x.user = t.user /\ x.at = t.at /\ x.row = t.row /\ x.order = t.order
                 /\ x.lone => t.lone
           /\ \A t \in threads : \E x \in Jostled(who) :
                 x.op = t.op /\ x.user = t.user /\ x.at = t.at
<1> DEFINE J(t) == IF Meets(t, who) THEN [t EXCEPT !.lone = FALSE] ELSE t
<1>1. Jostled(who) = {J(t) : t \in threads}
    BY DEF Jostled
<1>2. ASSUME NEW t \in threads
      PROVE  /\ J(t) \in Kinds
             /\ J(t).op = t.op /\ J(t).user = t.user /\ J(t).at = t.at
             /\ J(t).row = t.row /\ J(t).order = t.order
             /\ J(t).lone => t.lone
  <2>1. t \in Kinds
      OBVIOUS
  <2>2. CASE t \in Toggles
      BY <2>2 DEF Toggles, Kinds
  <2>3. CASE t \in Savings
      BY <2>3 DEF Savings, Kinds
  <2>4. CASE t \in Disables
      BY <2>4 DEF Disables, Kinds
  <2>5. CASE t \in Takes
      BY <2>5 DEF Takes, Kinds
  <2> QED
      BY <2>1, <2>2, <2>3, <2>4, <2>5 DEF Kinds
<1> HIDE DEF J
<1> QED
    BY <1>1, <1>2

LEMMA StartTyped ==
    ASSUME Typed, NEW op, NEW who, NEW at, NEW row \in Rows,
           \/ op = "toggle" /\ who \in Users /\ at = "flip"
           \/ op \in Saves /\ who \in Users /\ at = "upsert"
           \/ op = "disable" /\ who = Everyone /\ at = "flip",
           Start(op, who, at, row)
    PROVE  threads' \subseteq Kinds /\ touched' \subseteq Users
<1> DEFINE alone == \A t \in threads : ~Meets(t, who)
           new == Thread(op, who, at, row, NoOrder, alone)
<1>1. new \in Kinds
  <2>1. alone \in BOOLEAN
      OBVIOUS
  <2> HIDE DEF alone
  <2> QED
      BY <2>1 DEF Thread, Kinds, Toggles, Savings, Disables, SaveSteps
<1>2. threads' = Jostled(who) \cup {new}
    BY DEF Start
<1>3. Jostled(who) \subseteq Kinds
    BY JostledIs DEF Typed
<1>4. Scope(who) \subseteq Users /\ touched \subseteq Users
    BY DEF Scope, Typed
<1>5. touched' = touched \/ touched' = touched \cup Scope(who)
    BY DEF Start
<1> QED
    BY <1>1, <1>2, <1>3, <1>4, <1>5

LEMMA DisturbTyped ==
    ASSUME Typed, NEW u \in Users, Disturb(u)
    PROVE  threads' \subseteq Kinds /\ touched' \subseteq Users
    BY JostledIs DEF Disturb, Typed

LEMMA RepriceTyped ==
    ASSUME Typed, NEW u \in Users, NEW row, Reprice(u, row)
    PROVE  repriced' \subseteq Users
    BY DEF Reprice, Typed

\* What a dialogue leaves behind is a whole row.
LEMMA ContentIs ==
    ASSUME NEW f \in Forms, f.codes \in {{TRUE}, {FALSE}}, f.start # {}, f.end # {},
           Valid(f.start, f.end)
    PROVE  /\ Content(f) \in Rows /\ Timed(Content(f))
           /\ Content(f).codes <=> f.codes = {TRUE}
           /\ ~Content(f).codes => Content(f).prices = f.prices
<1>1. The(f.codes) \in f.codes /\ The(f.start) \in f.start /\ The(f.end) \in f.end
    BY DEF The
<1>2. /\ The(f.codes) \in BOOLEAN /\ The(f.start) \in Hours /\ The(f.end) \in Hours
      /\ The(f.start) < The(f.end)
    BY <1>1 DEF Forms, Valid
<1>3. f.codes = {TRUE} <=> The(f.codes) = TRUE
    BY <1>1
<1>4. f.prices \in PriceTables /\ NoTable \in PriceTables
    BY TableIs DEF Forms
<1>5. NoRow \in Rows
    BY <1>4 DEF NoRow, Rows, TierNumbers, DefaultTier
<1> DEFINE codes == The(f.codes)
           start == The(f.start)
           end == The(f.end)
           prices == IF codes THEN NoTable ELSE f.prices
           row == [NoRow EXCEPT !.codes = codes, !.start = start, !.end = end, !.prices = prices]
<1>6. Content(f) = row
    BY DEF Content
<1>7. prices \in PriceTables /\ (~codes => prices = f.prices)
    BY <1>4
<1>8. codes \in BOOLEAN /\ start \in Hours /\ end \in Hours /\ start < end /\ (f.codes = {TRUE} <=> codes)
    BY <1>2, <1>3
<1> HIDE DEF codes, start, end, prices
<1>9. /\ row \in Rows /\ row.start = start /\ row.end = end /\ row.prices = prices
      /\ row.codes = codes
    BY <1>5, <1>7, <1>8 DEF Rows
<1> HIDE DEF row
<1> QED
    BY <1>6, <1>7, <1>8, <1>9 DEF Timed

LEMMA EntriesStay ==
    ASSUME NEW e \in Entries, NEW row \in Rows
    PROVE  /\ PackRemove(e) \in Entries /\ CodeRemove(e) \in Entries /\ NoEntry \in Entries
           /\ SyncFirst(e, row) \in Entries /\ SyncSecond(e, row) \in Entries
<1>1. NoPrices \in PriceTables
    BY TableIs DEF NoPrices, NoTable
<1>2. PackRemove(e) \in Entries /\ CodeRemove(e) \in Entries /\ NoEntry \in Entries
    BY <1>1 DEF Entries, PackRemove, CodeRemove, NoEntry
<1>3. CodeAdd(e, row) \in Entries
    BY DEF Entries, CodeAdd, Rows
<1>4. PackAdd(e, row) \in Entries
    BY DEF Entries, PackAdd, Rows
<1> QED
    BY <1>2, <1>3, <1>4 DEF SyncFirst, SyncSecond

\* A handler that was there before, perhaps no longer alone.
Older(x) == \E t \in threads : x.op = t.op /\ x.user = t.user /\ x.at = t.at /\ x.row = t.row

\* What a save under way counts on.
Held(u) == form'[u].selected \in {{}, form[u].selected} /\ due'[u] = due[u]

LEMMA FilledKept ==
    ASSUME Filled, threads' \subseteq Kinds, threads \subseteq Kinds,
           \A u \in Users : Fit(u)',
           \A u \in Users : Known(u)' => Timed(rows'[u]),
           \A u \in Users : Known(u) => Known(u)',
           \A x \in threads' : Older(x) \/ ThreadOK(x)',
           \A u \in Users : Saving(u) => Held(u),
           \A u \in Users : u \in posted' \/ work'[u] # NoOrder \/ review'[u] # "none" => Known(u)'
    PROVE  Filled'
<1>1. ASSUME NEW x \in threads', Older(x) PROVE ThreadOK(x)'
  <2>1. PICK t \in threads : x.op = t.op /\ x.user = t.user /\ x.at = t.at /\ x.row = t.row
      BY <1>1 DEF Older
  <2>2. ThreadOK(t) /\ t \in Kinds /\ x \in Kinds
      BY DEF Filled
  <2>3. ASSUME x.at = "upsert"
        PROVE  /\ Timed(x.row)
               /\ x.row.codes \/ x.row.prices # NoTable \/ (x.op = "edit" /\ form'[x.user].selected = {})
    <3>1. t.op \in Saves /\ t.user \in Users /\ Saving(t.user)
        BY <2>1, <2>2, <2>3, ThreadIs DEF Saves, Saving
    <3> QED
        BY <2>1, <2>2, <2>3, <3>1 DEF ThreadOK, Held
  <2>4. /\ x.op \in Saves /\ x.at # "upsert" => Known(x.user)'
        /\ x.op \in Saves => due'[x.user] = {}
    <3>1. t.op \in Saves => t.user \in Users /\ Saving(t.user)
        BY <2>1, <2>2, ThreadIs DEF Saves, Saving
    <3> QED
        BY <2>1, <2>2, <3>1, ThreadIs DEF ThreadOK, Saves, Held
  <2>5. x.op = "take" => Known(x.user)'
      BY <2>1, <2>2, ThreadIs DEF ThreadOK
  <2> QED
      BY <2>3, <2>4, <2>5 DEF ThreadOK
<1> QED
    BY <1>1 DEF Filled

LEMMA SameForms ==
    ASSUME Typed, Filled, UNCHANGED formVars
    PROVE  /\ FormsTypeOK'
           /\ \A u \in Users : Fit(u)'
           /\ \A u \in Users : Held(u)
    BY DEF Typed, Filled, Fit, Held, formVars, FormsTypeOK

LEMMA NewForm ==
    ASSUME Typed, Filled, NEW u \in Users, due[u] = {}, NEW s, NEW f, Comes(u, s, f)
    PROVE  /\ FormsTypeOK'
           /\ \A v \in Users : Fit(v)'
           /\ \A v \in Users \ {u} : Held(v)
           /\ form'[u].selected = f.selected
<1>1. /\ FormsTypeOK' /\ form'[u] = f /\ Fit(u)'
      /\ \A v \in Users \ {u} : fsm'[v] = fsm[v] /\ form'[v] = form[v] /\ due'[v] = due[v]
    BY Moved DEF Typed
<1>2. ASSUME NEW v \in Users \ {u} PROVE Fit(v)' /\ Held(v)
    BY <1>1 DEF Filled, Fit, Held
<1> QED
    BY <1>1, <1>2

LEMMA LeftForm ==
    ASSUME Typed, Filled, NEW u \in Users,
           NEW s \in {"none", "blocked", "reg_finished", "reg_plain"}, Leave(u, s), due[u] = {}
    PROVE  /\ FormsTypeOK'
           /\ \A v \in Users : Fit(v)'
           /\ \A v \in Users : Held(v)
<1>1. Comes(u, s, Blank)
    BY LeaveFits DEF Typed
<1>2. Held(u)
    BY <1>1, NewForm, BlankForm DEF Held, Leave
<1> QED
    BY <1>1, <1>2, NewForm, BlankForm

\* A chat that others close.
LEMMA ClosedForm ==
    ASSUME Typed, Filled, NEW u \in Users, NEW s \in {"none", "blocked"}, Close(u, s)
    PROVE  /\ FormsTypeOK'
           /\ \A v \in Users : Fit(v)'
           /\ \A v \in Users : Held(v)
<1>1. CASE due[u] = {}
  <2>1. Leave(u, s)
      BY <1>1 DEF Close, Leave
  <2> QED
      BY <1>1, <2>1, LeftForm
<1>2. CASE due[u] # {}
  <2>1. Enter(u, s) /\ UNCHANGED <<form, due>> /\ overtaken' = overtaken \cup {u}
      BY <1>2 DEF Close
  <2>2. FormsTypeOK' /\ fsm'[u] = s /\ \A v \in Users \ {u} : fsm'[v] = fsm[v]
      BY <2>1 DEF Typed, FormsTypeOK, Enter, States
  <2>3. Fit(u)'
      BY <1>2, <2>1, <2>2 DEF Filled, Fit, Agrees, AnsweredStates
  <2>4. \A v \in Users \ {u} : Fit(v)'
      BY <2>1, <2>2 DEF Filled, Fit
  <2> QED
      BY <2>1, <2>2, <2>3, <2>4 DEF Held
<1> QED
    BY <1>1, <1>2

LEMMA SameRows ==
    ASSUME Filled, UNCHANGED rows
    PROVE  /\ \A u \in Users : Known(u)' <=> Known(u)
           /\ \A u \in Users : Known(u)' => Timed(rows'[u])
    BY DEF Filled, Known
----------------------------------------------------------------------------
LEMMA DialogueTyped ==
    ASSUME Typed, Filled, NEW u \in Users, Dialogue(u)
    PROVE  Typed' /\ Filled'
<1>1. UNCHANGED <<rows, index, enabled, threads, posted, work, review, auxVars>> /\ ~Saving(u)
    BY DEF Dialogue
<1>2. due[u] = {} /\ \E s, f : Comes(u, s, f)
    BY DialogueFits DEF MovesForm
<1>3. /\ FormsTypeOK'
      /\ \A v \in Users : Fit(v)'
      /\ \A v \in Users \ {u} : Held(v)
    BY <1>2, NewForm
<1>4. Typed'
    BY <1>1, <1>3 DEF Typed, auxVars
<1>5. \A x \in threads' : Older(x)
    BY <1>1 DEF Older
<1>6. \A v \in Users : v \in posted' \/ work'[v] # NoOrder \/ review'[v] # "none" => Known(v)'
    BY <1>1, SameRows DEF Filled
<1>7. Filled'
    BY <1>1, <1>3, <1>4, <1>5, <1>6, SameRows, FilledKept DEF Typed
<1> QED
    BY <1>4, <1>7

LEMMA EndDialogueTyped ==
    ASSUME Typed, Filled, NEW u \in Users, EndDialogue(u)
    PROVE  Typed' /\ Filled'
<1>1. UNCHANGED <<rows, index, enabled, threads, posted, work, review, auxVars>>
    BY DEF EndDialogue
<1>2. PICK s \in due[u] : /\ Enter(u, s) /\ due' = [due EXCEPT ![u] = {}]
                          /\ UNCHANGED <<form, overtaken>>
    BY DEF EndDialogue, Arrive
<1>3. /\ FormsTypeOK' /\ fsm'[u] = s /\ due'[u] = {}
      /\ \A v \in Users \ {u} : fsm'[v] = fsm[v] /\ due'[v] = due[v]
    BY <1>2 DEF Typed, FormsTypeOK, Enter
<1>4. Fit(u)'
  <2>1. FormFits(s, form[u])
      BY DEF Filled, Fit
  <2>2. Agrees(s, form[u])
      BY <2>1 DEF FormFits, Agrees, PricedStates
  <2> QED
      BY <1>2, <1>3, <2>1, <2>2 DEF Fit
<1>5. \A v \in Users \ {u} : Fit(v)' /\ Held(v)
    BY <1>2, <1>3 DEF Filled, Fit, Held
<1>6. ~Saving(u)
    BY DEF Filled, ThreadOK, Saving
<1>7. Typed'
    BY <1>1, <1>3 DEF Typed, auxVars
<1>8. \A x \in threads' : Older(x)
    BY <1>1 DEF Older
<1>9. \A v \in Users : v \in posted' \/ work'[v] # NoOrder \/ review'[v] # "none" => Known(v)'
    BY <1>1, SameRows DEF Filled
<1>10. Filled'
    BY <1>1, <1>4, <1>5, <1>6, <1>7, <1>8, <1>9, SameRows, FilledKept DEF Typed
<1> QED
    BY <1>7, <1>10

\* A handler of the bot begins: what it will write is complete.
LEMMA StartFilled ==
    ASSUME Typed, Filled, NEW op, NEW who, NEW at, NEW row \in Rows,
           \/ op = "toggle" /\ who \in Users /\ at = "flip"
           \/ op \in Saves /\ who \in Users /\ at = "upsert"
           \/ op = "disable" /\ who = Everyone /\ at = "flip",
           Start(op, who, at, row),
           op \in Saves =>
              /\ Timed(row)
              /\ row.codes \/ row.prices # NoTable \/ (op = "edit" /\ form'[who].selected = {})
              /\ due'[who] = {}
    PROVE  \A x \in threads' : Older(x) \/ ThreadOK(x)'
<1>1. PICK lone : threads' = Jostled(who) \cup {Thread(op, who, at, row, NoOrder, lone)}
    BY DEF Start
<1>2. ASSUME NEW x \in Jostled(who) PROVE Older(x)
    BY JostledIs DEF Typed, Older
<1>3. ThreadOK(Thread(op, who, at, row, NoOrder, lone))'
    BY DEF ThreadOK, Thread, Saves
<1> QED
    BY <1>1, <1>2, <1>3

LEMMA PressToggleTyped ==
    ASSUME Typed, Filled, NEW u \in Users, PressToggle(u)
    PROVE  Typed' /\ Filled'
<1>1. /\ UNCHANGED <<formVars, rows, index, enabled, posted, work, review, repriced, saves, decisions>>
      /\ Start("toggle", u, "flip", NoRow)
    BY DEF PressToggle
<1>2. NoRow \in Rows
    BY TableIs DEF NoRow, Rows, TierNumbers, DefaultTier
<1>3. threads' \subseteq Kinds /\ touched' \subseteq Users
    BY <1>1, <1>2, StartTyped
<1>4. \A x \in threads' : Older(x) \/ ThreadOK(x)'
    BY <1>1, <1>2, StartFilled DEF Saves
<1>5. Typed'
    BY <1>1, <1>3, SameForms DEF Typed
<1>6. \A v \in Users : v \in posted' \/ work'[v] # NoOrder \/ review'[v] # "none" => Known(v)'
    BY <1>1, SameRows DEF Filled
<1>7. Filled'
    BY <1>1, <1>3, <1>4, <1>6, SameForms, SameRows, FilledKept DEF Typed
<1> QED
    BY <1>5, <1>7

LEMMA DisableTyped ==
    ASSUME Typed, Filled, Disable
    PROVE  Typed' /\ Filled'
<1>1. /\ UNCHANGED <<formVars, rows, index, posted, work, review, repriced, saves, decisions>>
      /\ Start("disable", Everyone, "flip", NoRow) /\ enabled' = FALSE
    BY DEF Disable
<1>2. NoRow \in Rows
    BY TableIs DEF NoRow, Rows, TierNumbers, DefaultTier
<1>3. threads' \subseteq Kinds /\ touched' \subseteq Users
    BY <1>1, <1>2, StartTyped
<1>4. \A x \in threads' : Older(x) \/ ThreadOK(x)'
    BY <1>1, <1>2, StartFilled DEF Saves
<1>5. Typed'
    BY <1>1, <1>3, SameForms DEF Typed
<1>6. \A v \in Users : v \in posted' \/ work'[v] # NoOrder \/ review'[v] # "none" => Known(v)'
    BY <1>1, SameRows DEF Filled
<1>7. Filled'
    BY <1>1, <1>3, <1>4, <1>6, SameForms, SameRows, FilledKept DEF Typed
<1> QED
    BY <1>5, <1>7

LEMMA SaveEditTyped ==
    ASSUME Typed, Filled, NEW u \in Users, SaveEdit(u)
    PROVE  Typed' /\ Filled'
<1>1. /\ UNCHANGED <<formVars, rows, index, enabled, posted, work, review, repriced, decisions>>
      /\ Start("edit", u, "upsert", Content(form[u]))
      /\ fsm[u] = "edit_menu" /\ saves < MaxSaves /\ saves' = saves + 1
    BY DEF SaveEdit
<1>2. FormFits(fsm[u], form[u]) /\ form[u] \in Forms /\ due[u] = {}
    BY <1>1 DEF Typed, Filled, Fit, FormsTypeOK, Start, Resting, Scope, Everyone
<1>3. /\ form[u].codes \in {{TRUE}, {FALSE}} /\ form[u].start # {} /\ form[u].end # {}
      /\ Valid(form[u].start, form[u].end)
      /\ form[u].selected # {} => DOMAIN form[u].prices = form[u].selected
    BY <1>1, <1>2 DEF FormFits, EditStates, PricedStates
<1>4. /\ Content(form[u]) \in Rows /\ Timed(Content(form[u]))
      /\ ~Content(form[u]).codes => Content(form[u]).prices = form[u].prices
    BY <1>2, <1>3, ContentIs
<1>5. /\ Content(form[u]).codes \/ Content(form[u]).prices # NoTable \/ form'[u].selected = {}
      /\ due'[u] = {}
    BY <1>1, <1>2, <1>3, <1>4, TableIs DEF formVars
<1>6. threads' \subseteq Kinds /\ touched' \subseteq Users
    BY <1>1, <1>4, StartTyped DEF Saves
<1>7. \A x \in threads' : Older(x) \/ ThreadOK(x)'
    BY <1>1, <1>4, <1>5, StartFilled DEF Saves
<1>8. Typed'
    BY <1>1, <1>6, SameForms, DeskAssumption DEF Typed
<1>9. \A v \in Users : v \in posted' \/ work'[v] # NoOrder \/ review'[v] # "none" => Known(v)'
    BY <1>1, SameRows DEF Filled
<1>10. Filled'
    BY <1>1, <1>6, <1>7, <1>9, SameForms, SameRows, FilledKept DEF Typed
<1> QED
    BY <1>8, <1>10

LEMMA FinishRegistrationTyped ==
    ASSUME Typed, Filled, NEW u \in Users, NEW h \in Hours, FinishRegistration(u, h)
    PROVE  Typed' /\ Filled'
<1> DEFINE f == [form[u] EXCEPT !.end = {h}]
<1>1. /\ UNCHANGED <<fsm, due, overtaken, rows, index, enabled, posted, work, review, repriced,
                     decisions>>
      /\ Start("registration", u, "upsert", Content(f)) /\ Fill(u, f)
      /\ fsm[u] = "reg_end" /\ saves < MaxSaves /\ saves' = saves + 1
      /\ f.start # {} /\ Valid(f.start, {h})
    BY DEF FinishRegistration
<1>2. FormFits(fsm[u], form[u]) /\ form[u] \in Forms /\ due[u] = {}
    BY <1>1 DEF Typed, Filled, Fit, FormsTypeOK, Start, Resting, Scope, Everyone
<1>3. /\ form[u].codes \in {{TRUE}, {FALSE}}
      /\ form[u].codes = {TRUE} \/ form[u].selected # {}
      /\ form[u].selected # {} => DOMAIN form[u].prices = form[u].selected
    BY <1>1, <1>2 DEF FormFits, AnsweredStates, PricedStates
<1>4. /\ f \in Forms /\ f.codes = form[u].codes /\ f.end = {h} /\ f.selected = form[u].selected
      /\ f.prices = form[u].prices
    BY <1>2 DEF Forms
<1> HIDE DEF f
<1>5. /\ Content(f) \in Rows /\ Timed(Content(f))
      /\ Content(f).codes <=> f.codes = {TRUE}
      /\ ~Content(f).codes => Content(f).prices = f.prices
    BY <1>1, <1>3, <1>4, ContentIs
<1>6. Content(f).codes \/ Content(f).prices # NoTable
    BY <1>3, <1>4, <1>5, TableIs
<1>7. threads' \subseteq Kinds /\ touched' \subseteq Users
    BY <1>1, <1>5, StartTyped DEF Saves
<1>8. \A x \in threads' : Older(x) \/ ThreadOK(x)'
    BY <1>1, <1>2, <1>5, <1>6, StartFilled DEF Saves
<1>9. Comes(u, "reg_end", f)
  <2>1. FormFits("reg_end", f)
      BY <1>3, <1>4 DEF FormFits, EditStates, FieldStates, AnsweredStates, PricesStates, PricedStates
  <2>2. Goes(u, "reg_end", f)
      BY <1>1, Ways DEF Typed
  <2> QED
      BY <1>1, <1>4, <2>1, <2>2 DEF Comes, States, InputStates
<1>10. /\ FormsTypeOK'
       /\ \A v \in Users : Fit(v)'
       /\ \A v \in Users : Held(v)
  <2>1. due'[u] = due[u]
      BY <1>1
  <2> QED
      BY <1>2, <1>4, <1>9, <2>1, NewForm DEF Held
<1>11. Typed'
    BY <1>1, <1>7, <1>10, DeskAssumption DEF Typed
<1>12. \A v \in Users : v \in posted' \/ work'[v] # NoOrder \/ review'[v] # "none" => Known(v)'
    BY <1>1, SameRows DEF Filled
<1>13. Filled'
    BY <1>1, <1>7, <1>8, <1>10, <1>12, SameRows, FilledKept DEF Typed
<1> QED
    BY <1>11, <1>13

LEMMA PressTakeTyped ==
    ASSUME Typed, Filled, NEW u \in Users, NEW o \in Orders, PressTake(u, o)
    PROVE  Typed' /\ Filled'
<1> DEFINE new == Thread("take", u, "commit", rows[u], o, TRUE)
<1>1. /\ UNCHANGED <<formVars, rows, index, enabled, posted, work, review, touched, saves, decisions>>
      /\ Known(u) /\ threads' = threads \cup {new} /\ repriced' = repriced \ {u}
    BY DEF PressTake
<1>2. new \in Kinds
    BY DEF Typed, Thread, Kinds, Takes
<1>3. ThreadOK(new)'
    BY <1>1, SameRows DEF ThreadOK, Thread, Saves
<1>4. \A x \in threads' : Older(x) \/ ThreadOK(x)'
    BY <1>1, <1>3 DEF Older
<1> HIDE DEF new
<1>5. Typed'
    BY <1>1, <1>2, SameForms DEF Typed
<1>6. \A v \in Users : v \in posted' \/ work'[v] # NoOrder \/ review'[v] # "none" => Known(v)'
    BY <1>1, SameRows DEF Filled
<1>7. Filled'
    BY <1>1, <1>4, <1>5, <1>6, SameForms, SameRows, FilledKept DEF Typed
<1> QED
    BY <1>5, <1>7

LEMMA FinishTyped ==
    ASSUME Typed, Filled, NEW u \in Users, Finish(u)
    PROVE  Typed' /\ Filled'
<1>1. /\ UNCHANGED <<formVars, rows, index, enabled, threads, posted, review, auxVars>>
      /\ work' = [work EXCEPT ![u] = NoOrder]
    BY DEF Finish
<1>2. Typed'
    BY <1>1, SameForms DEF Typed, auxVars
<1>3. \A v \in Users : v \in posted' \/ work'[v] # NoOrder \/ review'[v] # "none" => Known(v)'
    BY <1>1, SameRows DEF Filled, Typed
<1>4. \A x \in threads' : Older(x)
    BY <1>1 DEF Older
<1>5. Filled'
    BY <1>1, <1>2, <1>3, <1>4, SameForms, SameRows, FilledKept DEF Typed
<1> QED
    BY <1>2, <1>5

LEMMA EnableTyped ==
    ASSUME Typed, Filled, Enable
    PROVE  Typed' /\ Filled'
<1>1. UNCHANGED <<formVars, rows, index, threads, posted, work, review, auxVars>> /\ enabled' = TRUE
    BY DEF Enable
<1>2. Typed'
    BY <1>1, SameForms DEF Typed, auxVars
<1>3. \A v \in Users : v \in posted' \/ work'[v] # NoOrder \/ review'[v] # "none" => Known(v)'
    BY <1>1, SameRows DEF Filled
<1>4. \A x \in threads' : Older(x)
    BY <1>1 DEF Older
<1>5. Filled'
    BY <1>1, <1>2, <1>3, <1>4, SameForms, SameRows, FilledKept DEF Typed
<1> QED
    BY <1>2, <1>5

\* A row that is rewritten keeps or gets whole hours, and no row is taken away.
LEMMA RowRewritten ==
    ASSUME Typed, Filled, NEW u \in Users, NEW row, rows' = [rows EXCEPT ![u] = row],
           row.status # "none", Timed(row)
    PROVE  /\ \A v \in Users : Known(v) => Known(v)'
           /\ \A v \in Users : Known(v)' => Timed(rows'[v])
           /\ Known(u)'
<1>1. rows'[u] = row /\ \A v \in Users \ {u} : rows'[v] = rows[v]
    BY DEF Typed
<1> QED
    BY <1>1 DEF Filled, Known

LEMMA DisturbOlder ==
    ASSUME Typed, NEW u \in Users, Disturb(u)
    PROVE  \A x \in threads' : Older(x)
    BY JostledIs DEF Disturb, Typed, Older

LEMMA BanTyped ==
    ASSUME Typed, Filled, NEW u \in Users, Ban(u)
    PROVE  Typed' /\ Filled'
<1> DEFINE row == [rows[u] EXCEPT !.status = "banned"]
<1>1. /\ UNCHANGED <<formVars, index, enabled, posted, work, repriced, saves, decisions>>
      /\ review[u] = "asked" /\ review' = [review EXCEPT ![u] = "blocked"] /\ Disturb(u)
      /\ rows' = [rows EXCEPT ![u] = row]
    BY DEF Ban, Disturb
<1>2. Known(u) /\ Timed(rows[u]) /\ rows[u] \in Rows
    BY <1>1 DEF Filled, Typed
<1>3. row \in Rows /\ row.status # "none" /\ Timed(row)
    BY <1>2 DEF Rows, Timed
<1> HIDE DEF row
<1>4. /\ \A v \in Users : Known(v) => Known(v)'
      /\ \A v \in Users : Known(v)' => Timed(rows'[v])
    BY <1>1, <1>3, RowRewritten
<1>5. threads' \subseteq Kinds /\ touched' \subseteq Users /\ \A x \in threads' : Older(x)
    BY <1>1, DisturbTyped, DisturbOlder
<1>6. Typed'
    BY <1>1, <1>3, <1>5, SameForms DEF Typed
<1>7. \A v \in Users : v \in posted' \/ work'[v] # NoOrder \/ review'[v] # "none" => Known(v)'
  <2>1. \A v \in Users : review'[v] # "none" => review[v] # "none"
      BY <1>1 DEF Typed
  <2> QED
      BY <1>1, <1>4, <2>1 DEF Filled
<1>8. Filled'
    BY <1>1, <1>4, <1>5, <1>7, SameForms, FilledKept DEF Typed
<1> QED
    BY <1>6, <1>8

\* The steps of a review that write no row.
LEMMA ReviewTyped ==
    ASSUME Typed, Filled, NEW u \in Users, PressReady(u) \/ Pass(u) \/ CloseChat(u)
    PROVE  Typed' /\ Filled'
<1>1. /\ UNCHANGED <<rows, index, enabled, threads, posted, work, auxVars>>
      /\ UNCHANGED formVars \/ Close(u, "blocked")
      /\ \E s \in {"none", "asked"} : review' = [review EXCEPT ![u] = s]
      /\ PressReady(u) => work[u] # NoOrder
      /\ ~PressReady(u) => review' = [review EXCEPT ![u] = "none"]
    BY DEF PressReady, Pass, CloseChat
<1>2. /\ FormsTypeOK'
      /\ \A v \in Users : Fit(v)'
      /\ \A v \in Users : Held(v)
    BY <1>1, SameForms, ClosedForm
<1>3. review' \in [Users -> {"none", "asked", "blocked"}]
    BY <1>1 DEF Typed
<1>4. Typed'
    BY <1>1, <1>2, <1>3 DEF Typed, auxVars
<1>5. \A v \in Users : review'[v] # "none" => review[v] # "none" \/ work[v] # NoOrder
    BY <1>1 DEF Typed
<1>6. \A v \in Users : v \in posted' \/ work'[v] # NoOrder \/ review'[v] # "none" => Known(v)'
    BY <1>1, <1>5, SameRows DEF Filled
<1>7. \A x \in threads' : Older(x)
    BY <1>1 DEF Older
<1>8. Filled'
    BY <1>1, <1>2, <1>6, <1>7, SameRows, FilledKept DEF Typed
<1> QED
    BY <1>4, <1>8

LEMMA ApproveTyped ==
    ASSUME Typed, Filled, NEW u \in Users, NEW codes \in BOOLEAN, NEW tier \in Tiers,
           Approve(u, codes, tier)
    PROVE  Typed' /\ Filled'
<1> DEFINE prices == IF codes THEN NoTable ELSE rows[u].prices
           row == [rows[u] EXCEPT !.status = "active", !.codes = codes, !.tier = tier, !.prices = prices]
<1>1. /\ UNCHANGED <<index, enabled, posted, work, review, saves>>
      /\ u \in posted /\ decisions < MaxDecisions /\ decisions' = decisions + 1
      /\ Close(u, "none") /\ Disturb(u) /\ Reprice(u, rows'[u])
    BY DEF Approve, Disturb
<1>2. Known(u) /\ Timed(rows[u]) /\ rows[u] \in Rows
    BY <1>1 DEF Filled, Typed
<1>3. rows' = [rows EXCEPT ![u] = row]
    BY <1>2 DEF Approve, Typed, Rows
<1>4. prices \in PriceTables /\ tier \in TierNumbers
    BY <1>2, TableIs, DeskAssumption DEF Rows
<1> HIDE DEF prices
<1>5. row \in Rows /\ row.status # "none" /\ Timed(row)
    BY <1>2, <1>4 DEF Rows, Timed
<1> HIDE DEF row
<1>6. /\ \A v \in Users : Known(v) => Known(v)'
      /\ \A v \in Users : Known(v)' => Timed(rows'[v])
    BY <1>3, <1>5, RowRewritten
<1>7. threads' \subseteq Kinds /\ touched' \subseteq Users /\ \A x \in threads' : Older(x)
    BY <1>1, DisturbTyped, DisturbOlder
<1>8. repriced' \subseteq Users
    BY <1>1, RepriceTyped
<1>9. Typed'
    BY <1>1, <1>3, <1>5, <1>7, <1>8, ClosedForm, DeskAssumption DEF Typed
<1>10. \A v \in Users : v \in posted' \/ work'[v] # NoOrder \/ review'[v] # "none" => Known(v)'
    BY <1>1, <1>6 DEF Filled
<1>11. Filled'
    BY <1>1, <1>6, <1>7, <1>10, ClosedForm, FilledKept DEF Typed
<1> QED
    BY <1>9, <1>11

LEMMA SetPricesTyped ==
    ASSUME Typed, Filled, NEW u \in Users, NEW prices \in PriceTables, SetPrices(u, prices)
    PROVE  Typed' /\ Filled'
<1> DEFINE row == [rows[u] EXCEPT !.prices = prices]
<1>1. /\ UNCHANGED <<formVars, index, enabled, posted, work, review, saves>>
      /\ u \in posted /\ decisions < MaxDecisions /\ decisions' = decisions + 1
      /\ Disturb(u) /\ Reprice(u, rows'[u]) /\ rows' = [rows EXCEPT ![u] = row]
    BY DEF SetPrices, Disturb
<1>2. Known(u) /\ Timed(rows[u]) /\ rows[u] \in Rows
    BY <1>1 DEF Filled, Typed
<1>3. row \in Rows /\ row.status # "none" /\ Timed(row)
    BY <1>2 DEF Rows, Timed, Known
<1> HIDE DEF row
<1>4. /\ \A v \in Users : Known(v) => Known(v)'
      /\ \A v \in Users : Known(v)' => Timed(rows'[v])
    BY <1>1, <1>3, RowRewritten
<1>5. threads' \subseteq Kinds /\ touched' \subseteq Users /\ \A x \in threads' : Older(x)
    BY <1>1, DisturbTyped, DisturbOlder
<1>6. repriced' \subseteq Users
    BY <1>1, RepriceTyped
<1>7. Typed'
    BY <1>1, <1>3, <1>5, <1>6, SameForms, DeskAssumption DEF Typed
<1>8. \A v \in Users : v \in posted' \/ work'[v] # NoOrder \/ review'[v] # "none" => Known(v)'
    BY <1>1, <1>4 DEF Filled
<1>9. Filled'
    BY <1>1, <1>4, <1>5, <1>8, SameForms, FilledKept DEF Typed
<1> QED
    BY <1>7, <1>9
----------------------------------------------------------------------------
\* A handler goes on, or is over.
LEMMA GoneOn ==
    ASSUME Typed, Filled, NEW t \in threads, NEW x \in Kinds,
           threads' = (threads \ {t}) \cup {x},
           ThreadOK(x)'
    PROVE  threads' \subseteq Kinds /\ \A y \in threads' : Older(y) \/ ThreadOK(y)'
    BY DEF Typed, Older

LEMMA Over ==
    ASSUME Typed, NEW t \in threads, End(t)
    PROVE  threads' \subseteq Kinds /\ \A y \in threads' : Older(y)
    BY DEF Typed, Older, End

LEMMA FlipTyped ==
    ASSUME Typed, Filled, NEW t \in threads, Flip(t)
    PROVE  Typed' /\ Filled'
<1> DEFINE u == t.user
           row == [rows[u] EXCEPT !.online = ~@]
<1>1. /\ UNCHANGED <<formVars, index, enabled, posted, work, review, auxVars>>
      /\ t.op = "toggle" /\ rows' = [rows EXCEPT ![u] = row]
    BY DEF Flip
<1>2. t \in Toggles /\ u \in Users /\ rows[u] \in Rows
    BY <1>1 DEF Typed, Kinds, Toggles, Savings, Disables, Takes, Saves
<1>3. row \in Rows /\ row.status = rows[u].status /\ row.start = rows[u].start /\ row.end = rows[u].end
    BY <1>2 DEF Rows
<1>4. rows'[u] = row /\ \A v \in Users \ {u} : rows'[v] = rows[v]
    BY <1>1, <1>2 DEF Typed
<1>5. threads' = (threads \ {t}) \cup {[t EXCEPT !.at = "first", !.row = row]}
    BY <1>4 DEF Flip
<1> HIDE DEF row
<1>x. PICK x : x = [t EXCEPT !.at = "first", !.row = row]
    OBVIOUS
<1>6. x \in Kinds /\ x.op = "toggle" /\ x.at = "first"
    BY <1>2, <1>3, <1>x DEF Toggles, Kinds
<1>7. /\ \A v \in Users : Known(v) <=> Known(v)'
      /\ \A v \in Users : Known(v)' => Timed(rows'[v])
    BY <1>2, <1>3, <1>4 DEF Known, Timed, Filled
<1>8. ThreadOK(x)'
    BY <1>6 DEF ThreadOK, Saves
<1>9. threads' \subseteq Kinds /\ \A y \in threads' : Older(y) \/ ThreadOK(y)'
    BY <1>5, <1>x, <1>6, <1>8, GoneOn
<1>10. Typed'
    BY <1>1, <1>3, <1>9, SameForms DEF Typed, auxVars
<1>11. \A v \in Users : v \in posted' \/ work'[v] # NoOrder \/ review'[v] # "none" => Known(v)'
    BY <1>1, <1>7 DEF Filled
<1>12. Filled'
    BY <1>1, <1>7, <1>9, <1>11, SameForms, FilledKept DEF Typed
<1> QED
    BY <1>10, <1>12

\* A handler goes on and writes the index only.
LEMMA IndexWritten ==
    ASSUME Typed, Filled, NEW t \in threads, NEW s,
           UNCHANGED <<formVars, rows, enabled, work, review, repriced, saves, decisions>>,
           index' \in [Users -> Entries], touched' \subseteq Users,
           posted' = posted \/ (posted' = posted \cup {t.user} /\ t.op \in Saves /\ t.at # "upsert"),
           End(t) \/ (Goto(t, s) /\ [t EXCEPT !.at = s] \in Kinds /\ s # "upsert" /\ t.at # "upsert")
    PROVE  Typed' /\ Filled'
<1>0. t \in Kinds /\ ThreadOK(t)
    BY DEF Typed, Filled
<1>1. threads' \subseteq Kinds /\ \A y \in threads' : Older(y) \/ ThreadOK(y)'
  <2>1. CASE End(t)
      BY <2>1, Over
  <2>2. CASE Goto(t, s) /\ [t EXCEPT !.at = s] \in Kinds /\ s # "upsert" /\ t.at # "upsert"
    <3> DEFINE x == [t EXCEPT !.at = s]
    <3>1. x.op = t.op /\ x.user = t.user /\ x.at = s /\ threads' = (threads \ {t}) \cup {x}
        BY <1>0, <2>2, ThreadIs DEF Goto, Thread
    <3> HIDE DEF x
    <3>2. t.op # "disable" => t.user \in Users
        BY <1>0, ThreadIs
    <3>3. ThreadOK(x)'
        BY <1>0, <2>2, <3>1, <3>2, SameRows DEF ThreadOK, Saves, formVars
    <3> QED
        BY <2>2, <3>1, <3>3, GoneOn DEF x
  <2> QED
      BY <2>1, <2>2
<1>2. t.op \in Saves /\ t.at # "upsert" => t.user \in Users /\ Known(t.user)
    BY <1>0, ThreadIs DEF ThreadOK, Saves
<1>3. posted' \subseteq Users
    BY <1>2 DEF Typed
<1>4. Typed'
    BY <1>1, <1>3, SameForms DEF Typed
<1>5. \A v \in Users : v \in posted' \/ work'[v] # NoOrder \/ review'[v] # "none" => Known(v)'
    BY <1>2, SameRows DEF Filled
<1>6. Filled'
    BY <1>1, <1>5, SameForms, SameRows, FilledKept DEF Typed
<1> QED
    BY <1>4, <1>6

LEMMA FirstScriptTyped ==
    ASSUME Typed, Filled, NEW t \in threads, FirstScript(t)
    PROVE  Typed' /\ Filled'
<1>1. /\ UNCHANGED <<formVars, rows, enabled, posted, work, review, auxVars>>
      /\ t.op = "toggle" /\ t.at = "first" /\ Goto(t, "second")
      /\ index' = [index EXCEPT ![t.user] = SyncFirst(index[t.user], t.row)]
    BY DEF FirstScript
<1>2. t \in Kinds /\ t.user \in Users /\ t.row \in Rows
    BY <1>1, ThreadIs DEF Typed
<1>3. index' \in [Users -> Entries]
    BY <1>1, <1>2, EntriesStay DEF Typed
<1>4. [t EXCEPT !.at = "second"] \in Kinds
    BY <1>1, <1>2, WrittenAt
<1>5. touched' \subseteq Users
    BY <1>1 DEF auxVars, Typed
<1> QED
    BY <1>1, <1>3, <1>4, <1>5, IndexWritten DEF auxVars

LEMMA SecondScriptTyped ==
    ASSUME Typed, Filled, NEW t \in threads, SecondScript(t)
    PROVE  Typed' /\ Filled'
<1>1. /\ UNCHANGED <<formVars, rows, enabled, posted, work, review, repriced, saves, decisions>>
      /\ t.op = "toggle" /\ End(t)
      /\ index' = [index EXCEPT ![t.user] = SyncSecond(index[t.user], t.row)]
      /\ touched' = touched \/ touched' = touched \ {t.user}
    BY DEF SecondScript
<1>2. t \in Kinds /\ t.user \in Users /\ t.row \in Rows
    BY <1>1, ThreadIs DEF Typed
<1>3. index' \in [Users -> Entries]
    BY <1>1, <1>2, EntriesStay DEF Typed
<1>4. touched' \subseteq Users
    BY <1>1 DEF Typed
<1> QED
    BY <1>1, <1>3, <1>4, IndexWritten

LEMMA RemovePackTyped ==
    ASSUME Typed, Filled, NEW t \in threads, RemovePack(t)
    PROVE  Typed' /\ Filled'
<1>1. /\ UNCHANGED <<formVars, rows, enabled, posted, work, review, auxVars>>
      /\ t.op \in Saves /\ t.at = "first" /\ Goto(t, "second")
      /\ index' = [index EXCEPT ![t.user] = PackRemove(index[t.user])]
    BY DEF RemovePack
<1>2. t \in Kinds /\ t.user \in Users /\ t.row \in Rows
    BY <1>1, ThreadIs DEF Typed, Saves
<1>3. index' \in [Users -> Entries]
    BY <1>1, <1>2, EntriesStay DEF Typed
<1>4. [t EXCEPT !.at = "second"] \in Kinds
    BY <1>1, <1>2, WrittenAt DEF SaveSteps
<1>5. touched' \subseteq Users
    BY <1>1 DEF auxVars, Typed
<1> QED
    BY <1>1, <1>3, <1>4, <1>5, IndexWritten DEF auxVars

LEMMA RemoveCodeTyped ==
    ASSUME Typed, Filled, NEW t \in threads, RemoveCode(t)
    PROVE  Typed' /\ Filled'
<1>1. /\ UNCHANGED <<formVars, rows, enabled, work, review, repriced, saves, decisions>>
      /\ t.op \in Saves /\ t.at = "second" /\ Goto(t, "leave")
      /\ index' = [index EXCEPT ![t.user] = CodeRemove(index[t.user])]
      /\ posted' = posted \cup {t.user}
      /\ touched' = touched \/ touched' = touched \ {t.user}
    BY DEF RemoveCode
<1>2. t \in Kinds /\ t.user \in Users /\ t.row \in Rows
    BY <1>1, ThreadIs DEF Typed, Saves
<1>3. index' \in [Users -> Entries]
    BY <1>1, <1>2, EntriesStay DEF Typed
<1>4. [t EXCEPT !.at = "leave"] \in Kinds
    BY <1>1, <1>2, WrittenAt DEF SaveSteps
<1>5. touched' \subseteq Users
    BY <1>1 DEF Typed
<1> QED
    BY <1>1, <1>3, <1>4, <1>5, IndexWritten

LEMMA ClearPackTyped ==
    ASSUME Typed, Filled, NEW t \in threads, ClearPack(t)
    PROVE  Typed' /\ Filled'
<1>1. /\ UNCHANGED <<formVars, rows, enabled, posted, work, review, auxVars>>
      /\ t.op = "disable" /\ t.at = "first" /\ Goto(t, "second")
      /\ index' = [u \in Users |-> PackRemove(index[u])]
    BY DEF ClearPack
<1>2. t \in Kinds
    BY DEF Typed
<1>3. index' \in [Users -> Entries]
  <2>1. \A u \in Users : PackRemove(index[u]) \in Entries
    <3> SUFFICES ASSUME NEW u \in Users PROVE PackRemove(index[u]) \in Entries
        OBVIOUS
    <3>1. index[u] \in Entries /\ rows[u] \in Rows
        BY DEF Typed
    <3> QED
        BY <3>1, EntriesStay
  <2> QED
      BY <1>1, <2>1
<1>4. [t EXCEPT !.at = "second"] \in Kinds
    BY <1>1, <1>2, WrittenAt
<1>5. touched' \subseteq Users
    BY <1>1 DEF auxVars, Typed
<1> QED
    BY <1>1, <1>3, <1>4, <1>5, IndexWritten DEF auxVars

LEMMA ClearCodeTyped ==
    ASSUME Typed, Filled, NEW t \in threads, ClearCode(t)
    PROVE  Typed' /\ Filled'
<1>1. /\ UNCHANGED <<formVars, rows, enabled, posted, work, review, repriced, saves, decisions>>
      /\ t.op = "disable" /\ End(t)
      /\ index' = [u \in Users |-> CodeRemove(index[u])]
      /\ touched' = touched \/ touched' = {}
    BY DEF ClearCode
<1>2. index' \in [Users -> Entries]
  <2>1. \A u \in Users : CodeRemove(index[u]) \in Entries
    <3> SUFFICES ASSUME NEW u \in Users PROVE CodeRemove(index[u]) \in Entries
        OBVIOUS
    <3>1. index[u] \in Entries /\ rows[u] \in Rows
        BY DEF Typed
    <3> QED
        BY <3>1, EntriesStay
  <2> QED
      BY <1>1, <2>1
<1>3. touched' \subseteq Users
    BY <1>1 DEF Typed
<1> QED
    BY <1>1, <1>2, <1>3, IndexWritten

LEMMA LeaveFormTyped ==
    ASSUME Typed, Filled, NEW t \in threads, LeaveForm(t)
    PROVE  Typed' /\ Filled'
<1>1. /\ UNCHANGED <<rows, index, enabled, posted, work, review, auxVars>>
      /\ t.at = "leave" /\ End(t)
      /\ \E s \in {"reg_finished", "none"} : Leave(t.user, s)
    BY DEF LeaveForm
<1>2. t \in Kinds /\ t.user \in Users
    BY <1>1, ThreadIs DEF Typed, Saves
<1>3. /\ FormsTypeOK'
      /\ \A v \in Users : Fit(v)'
      /\ \A v \in Users : Held(v)
  <2>1. due[t.user] = {}
      BY <1>1, <1>2, ThreadIs DEF Filled, ThreadOK
  <2> QED
      BY <1>1, <1>2, <2>1, LeftForm
<1>4. threads' \subseteq Kinds /\ \A y \in threads' : Older(y)
    BY <1>1, Over
<1>5. Typed'
    BY <1>1, <1>3, <1>4 DEF Typed, auxVars
<1>6. \A v \in Users : v \in posted' \/ work'[v] # NoOrder \/ review'[v] # "none" => Known(v)'
    BY <1>1, SameRows DEF Filled
<1>7. Filled'
    BY <1>1, <1>3, <1>4, <1>6, SameRows, FilledKept DEF Typed
<1> QED
    BY <1>5, <1>7

LEMMA CommitTakeTyped ==
    ASSUME Typed, Filled, NEW t \in threads, CommitTake(t)
    PROVE  Typed' /\ Filled'
<1>1. /\ UNCHANGED <<formVars, rows, index, enabled, posted, review, auxVars>>
      /\ t.at = "commit" /\ End(t)
      /\ work' = work \/ work' = [work EXCEPT ![t.user] = t.order]
    BY DEF CommitTake
<1>2. t \in Kinds /\ t.op = "take" /\ t.order \in Orders /\ t.user \in Users /\ Known(t.user)
    BY <1>1, ThreadIs DEF Typed, Filled, ThreadOK
<1>3. threads' \subseteq Kinds /\ \A y \in threads' : Older(y)
    BY <1>1, Over
<1>4. work' \in [Users -> Orders \cup {NoOrder}]
    BY <1>1, <1>2 DEF Typed
<1>5. Typed'
    BY <1>1, <1>3, <1>4, SameForms DEF Typed, auxVars
<1>6. \A v \in Users : v \in posted' \/ work'[v] # NoOrder \/ review'[v] # "none" => Known(v)'
    BY <1>1, <1>2, SameRows DEF Filled, Typed
<1>7. Filled'
    BY <1>1, <1>3, <1>5, <1>6, SameForms, SameRows, FilledKept DEF Typed
<1> QED
    BY <1>5, <1>7

\* A write of a handler to the row of its user, which is there afterwards.
LEMMA RowSaved ==
    ASSUME Typed, Filled, NEW t \in threads, t.op \in Saves, NEW s \in {"deactivate", "first"},
           NEW row \in Rows, row.status # "none", Timed(row),
           rows' = [rows EXCEPT ![t.user] = row], Goto(t, s),
           UNCHANGED <<formVars, index, enabled, posted, work, review, touched, saves, decisions>>,
           repriced' \subseteq Users
    PROVE  Typed' /\ Filled'
<1>1. t \in Kinds /\ t.user \in Users
    BY ThreadIs DEF Typed, Saves
<1>2. /\ \A v \in Users : Known(v) => Known(v)'
      /\ \A v \in Users : Known(v)' => Timed(rows'[v])
      /\ Known(t.user)'
    BY <1>1, RowRewritten
<1> DEFINE x == [t EXCEPT !.at = s]
<1>3. x \in Kinds /\ x.at = s /\ x.op = t.op /\ x.user = t.user
    BY <1>1, WrittenAt, ThreadIs DEF SaveSteps, Thread
<1>4. threads' = (threads \ {t}) \cup {x}
    BY DEF Goto
<1> HIDE DEF x
<1>5. ThreadOK(x)'
  <2>1. due'[t.user] = {}
      BY DEF Filled, ThreadOK, formVars
  <2> QED
      BY <1>2, <1>3, <2>1 DEF ThreadOK, Saves
<1>6. threads' \subseteq Kinds /\ \A y \in threads' : Older(y) \/ ThreadOK(y)'
    BY <1>3, <1>4, <1>5, GoneOn DEF x
<1>7. Typed'
    BY <1>1, <1>6, SameForms DEF Typed
<1>8. \A v \in Users : v \in posted' \/ work'[v] # NoOrder \/ review'[v] # "none" => Known(v)'
    BY <1>2 DEF Filled
<1>9. Filled'
    BY <1>2, <1>6, <1>8, SameForms, FilledKept DEF Typed
<1> QED
    BY <1>7, <1>9

LEMMA ResetIs ==
    ASSUME NEW row \in Rows
    PROVE  /\ Reset(row) \in Rows /\ Reset(row).status = "inactive" /\ Reset(row).online = FALSE
           /\ Reset(row).start = row.start /\ Reset(row).end = row.end
           /\ Reset(row).prices = row.prices
    BY DEF Rows, Reset

LEMMA UpsertTyped ==
    ASSUME Typed, Filled, NEW t \in threads, Upsert(t)
    PROVE  Typed' /\ Filled'
<1> DEFINE u == t.user
           given == [t.row EXCEPT !.tier = rows[u].tier]
<1>1. /\ UNCHANGED <<formVars, index, enabled, posted, work, review, touched, saves, decisions>>
      /\ t.at = "upsert" /\ Goto(t, "deactivate") /\ Reprice(u, rows'[u])
      /\ rows' = [rows EXCEPT ![u] = Reset(given)]
    BY DEF Upsert
<1>2. t \in Kinds /\ t.op \in Saves /\ u \in Users /\ t.row \in Rows /\ Timed(t.row) /\ rows[u] \in Rows
    BY <1>1, ThreadIs DEF Typed, Filled, ThreadOK, Saves
<1>3. given \in Rows /\ given.start = t.row.start /\ given.end = t.row.end
    BY <1>2 DEF Rows
<1> HIDE DEF given
<1>4. Reset(given) \in Rows /\ Reset(given).status # "none" /\ Timed(Reset(given))
    BY <1>2, <1>3, ResetIs DEF Timed
<1>5. repriced' \subseteq Users
    BY <1>1, <1>2, RepriceTyped
<1> QED
    BY <1>1, <1>2, <1>4, <1>5, RowSaved

LEMMA DeactivateTyped ==
    ASSUME Typed, Filled, NEW t \in threads, Deactivate(t)
    PROVE  Typed' /\ Filled'
<1> DEFINE u == t.user
<1>1. /\ UNCHANGED <<formVars, index, enabled, posted, work, review, auxVars>>
      /\ t.at = "deactivate" /\ Goto(t, "first")
      /\ rows' = [rows EXCEPT ![u] = Reset(rows[u])]
    BY DEF Deactivate
<1>2. t \in Kinds /\ t.op \in Saves /\ u \in Users /\ rows[u] \in Rows /\ Timed(rows[u])
    BY <1>1, ThreadIs DEF Typed, Filled, ThreadOK, Saves
<1>3. Reset(rows[u]) \in Rows /\ Reset(rows[u]).status # "none" /\ Timed(Reset(rows[u]))
    BY <1>2, ResetIs DEF Timed
<1>4. repriced' \subseteq Users
    BY <1>1 DEF Typed, auxVars
<1> QED
    BY <1>1, <1>2, <1>3, <1>4, RowSaved DEF auxVars

LEMMA AllOfflineTyped ==
    ASSUME Typed, Filled, NEW t \in threads, AllOffline(t)
    PROVE  Typed' /\ Filled'
<1>1. /\ UNCHANGED <<formVars, index, enabled, posted, work, review, auxVars>>
      /\ t.op = "disable" /\ t.at = "flip" /\ Goto(t, "first")
      /\ rows' = [u \in Users |-> [rows[u] EXCEPT !.online = FALSE]]
    BY DEF AllOffline
<1>2. \A u \in Users : rows[u] \in Rows
    BY DEF Typed
<1>3. ASSUME NEW u \in Users
      PROVE  /\ rows'[u] \in Rows /\ rows'[u].status = rows[u].status
             /\ rows'[u].start = rows[u].start /\ rows'[u].end = rows[u].end
    BY <1>1, <1>2 DEF Rows
<1>4. rows' \in [Users -> Rows]
    BY <1>1, <1>3
<1>5. /\ \A u \in Users : Known(u) <=> Known(u)'
      /\ \A u \in Users : Known(u)' => Timed(rows'[u])
    BY <1>3 DEF Known, Timed, Filled
<1> DEFINE x == [t EXCEPT !.at = "first"]
<1>6. t \in Kinds /\ x \in Kinds /\ x.at = "first" /\ x.op = "disable"
  <2>1. t \in Kinds
      BY DEF Typed
  <2>2. t = Thread(t.op, t.user, t.at, t.row, t.order, t.lone)
      BY <2>1, ThreadIs
  <2>3. x.at = "first" /\ x.op = "disable"
      BY <1>1, <2>2 DEF Thread
  <2>4. x \in Kinds
      BY <1>1, <2>1, WrittenAt
  <2> QED
      BY <2>1, <2>3, <2>4
<1>7. threads' = (threads \ {t}) \cup {x}
    BY <1>1 DEF Goto
<1> HIDE DEF x
<1>8. ThreadOK(x)'
    BY <1>6 DEF ThreadOK, Saves
<1>9. threads' \subseteq Kinds /\ \A y \in threads' : Older(y) \/ ThreadOK(y)'
    BY <1>6, <1>7, <1>8, GoneOn DEF x
<1>10. Typed'
    BY <1>1, <1>4, <1>9, SameForms DEF Typed, auxVars
<1>11. \A v \in Users : v \in posted' \/ work'[v] # NoOrder \/ review'[v] # "none" => Known(v)'
    BY <1>1, <1>5 DEF Filled
<1>12. Filled'
    BY <1>1, <1>5, <1>9, <1>11, SameForms, FilledKept DEF Typed
<1> QED
    BY <1>10, <1>12

LEMMA ThreadTyped ==
    ASSUME Typed, Filled, NEW t \in threads, ThreadStep(t)
    PROVE  Typed' /\ Filled'
    BY FlipTyped, FirstScriptTyped, SecondScriptTyped, UpsertTyped, DeactivateTyped, RemovePackTyped,
       RemoveCodeTyped, LeaveFormTyped, AllOfflineTyped, ClearPackTyped, ClearCodeTyped, CommitTakeTyped
       DEF ThreadStep

LEMMA UnchangedTyped ==
    ASSUME Typed, Filled, UNCHANGED vars
    PROVE  Typed' /\ Filled'
<1>1. UNCHANGED <<formVars, rows, index, enabled, threads, posted, work, review, auxVars>>
    BY DEF vars
<1>2. Typed'
    BY <1>1, SameForms DEF Typed, auxVars
<1>3. \A x \in threads' : Older(x)
    BY <1>1 DEF Older
<1>4. \A v \in Users : v \in posted' \/ work'[v] # NoOrder \/ review'[v] # "none" => Known(v)'
    BY <1>1, SameRows DEF Filled
<1>5. Filled'
    BY <1>1, <1>2, <1>3, <1>4, SameForms, SameRows, FilledKept DEF Typed
<1> QED
    BY <1>2, <1>5

LEMMA TypedStep ==
    ASSUME Typed, Filled, [Next]_vars
    PROVE  Typed' /\ Filled'
<1>1. ASSUME NEW u \in Users,
             \/ Dialogue(u) \/ EndDialogue(u) \/ PressToggle(u) \/ SaveEdit(u) \/ Finish(u)
             \/ PressReady(u) \/ Pass(u) \/ Ban(u) \/ CloseChat(u)
      PROVE  Typed' /\ Filled'
    BY <1>1, DialogueTyped, EndDialogueTyped, PressToggleTyped, SaveEditTyped, FinishTyped,
       BanTyped, ReviewTyped
<1>2. ASSUME NEW u \in Users, NEW h \in Hours, FinishRegistration(u, h) PROVE Typed' /\ Filled'
    BY <1>2, FinishRegistrationTyped
<1>3. ASSUME NEW u \in Users, NEW o \in Orders, PressTake(u, o) PROVE Typed' /\ Filled'
    BY <1>3, PressTakeTyped
<1>4. ASSUME NEW u \in Users, NEW codes \in BOOLEAN, NEW tier \in Tiers, Approve(u, codes, tier)
      PROVE  Typed' /\ Filled'
    BY <1>4, ApproveTyped
<1>5. ASSUME NEW u \in Users, NEW prices \in PriceTables, SetPrices(u, prices) PROVE Typed' /\ Filled'
    BY <1>5, SetPricesTyped
<1>6. CASE Disable \/ Enable
    BY <1>6, DisableTyped, EnableTyped
<1>7. ASSUME NEW t \in threads, ThreadStep(t) PROVE Typed' /\ Filled'
    BY <1>7, ThreadTyped
<1>8. CASE UNCHANGED vars
    BY <1>8, UnchangedTyped
<1> QED
    BY <1>1, <1>2, <1>3, <1>4, <1>5, <1>6, <1>7, <1>8 DEF Next

LEMMA InitTyped == Init => Typed /\ Filled
<1> SUFFICES ASSUME Init PROVE Typed /\ Filled
    OBVIOUS
<1>1. NoRow \in Rows
    BY TableIs DEF NoRow, Rows, TierNumbers, DefaultTier
<1>2. NoEntry \in Entries
    BY <1>1, TableIs DEF Entries, NoEntry, NoPrices, NoTable
<1>3. FormsTypeOK /\ \A u \in Users : fsm[u] = "none" /\ due[u] = {}
    BY BlankForm DEF Init, FormsInit, FormsTypeOK, States
<1>4. Typed
    BY <1>1, <1>2, <1>3, DeskAssumption DEF Init, Typed
<1>5. \A u \in Users : Fit(u)
    BY <1>3 DEF Fit, Agrees, FormFits, EditStates, FieldStates, AnsweredStates, PricesStates, PricedStates
<1>6. \A u \in Users : ~Known(u)
    BY DEF Init, Known, NoRow
<1>7. Filled
    BY <1>5, <1>6 DEF Init, Filled
<1> QED
    BY <1>4, <1>7

LEMMA AlwaysTyped == Spec => [](Typed /\ Filled)
<1>1. Typed /\ Filled /\ [Next]_vars => Typed' /\ Filled'
    BY TypedStep
<1> QED
    BY <1>1, InitTyped, PTL DEF Spec

\* Every variable keeps its type: a dialogue that saves has an answer to every question,
\* and no handler writes a row it has not read whole.
THEOREM DeskTyped == Spec => []TypeOK
<1>1. Typed => TypeOK
  <2>1. Kinds \subseteq Threads
      BY DEF Kinds, Toggles, Savings, Disables, Takes, Threads, SaveSteps, Saves
  <2> QED
      BY <2>1 DEF Typed, TypeOK, Entries
<1> QED
    BY <1>1, AlwaysTyped, PTL

\* A form is saved with ordered hours and, for packages, with the prices of exactly the
\* sizes selected, through whatever buttons and texts its dialogue went.
THEOREM FormsAreComplete == Spec => []FormsComplete
<1>1. Typed /\ Filled => FormsComplete
  <2> SUFFICES ASSUME Typed, Filled, NEW u \in Users
               PROVE  /\ \A t \in threads : t.user = u /\ t.at = "upsert" =>
                            /\ t.row.start < t.row.end
                            /\ \/ t.row.codes \/ t.row.prices # NoTable
                               \/ t.op = "edit" /\ form[u].selected = {}
                      /\ fsm[u] \in {"edit_menu", "reg_withdrawal", "reg_start", "reg_end"}
                            /\ form[u].selected # {} => DOMAIN form[u].prices = form[u].selected
      BY DEF FormsComplete
  <2>1. ASSUME NEW t \in threads, t.user = u, t.at = "upsert"
        PROVE  /\ t.row.start < t.row.end
               /\ \/ t.row.codes \/ t.row.prices # NoTable
                  \/ t.op = "edit" /\ form[u].selected = {}
      BY <2>1 DEF Filled, ThreadOK, Timed
  <2>2. Agrees(fsm[u], form[u])
      BY DEF Filled, Fit
  <2> QED
      BY <2>1, <2>2 DEF Agrees, AnsweredStates
<1> QED
    BY <1>1, AlwaysTyped, PTL

\* While a price is awaited there is a size it is for, also after a cancelled and repeated
\* selection of the packages.
THEOREM PricesHaveSizes == Spec => []PricesAwaited
<1>1. Filled => PricesAwaited
    BY DEF Filled, Fit, FormFits, PricesAwaited
<1> QED
    BY <1>1, AlwaysTyped, PTL
----------------------------------------------------------------------------
(* Bans.                                                                    *)

\* A chat that stays as it is.
Stays(u) == fsm'[u] = fsm[u] /\ due'[u] = due[u] /\ (u \in overtaken => u \in overtaken')
Follow == \A x \in threads' : \E t \in threads : x.op = t.op /\ x.user = t.user


StaysOut ==
    \A u \in Users : ShutOut(u) =>
        \/ rows'[u].status = "active"
        \/ rows'[u].status = "banned" /\ ~Saving(u)'

\* No save begins for who is shut out, and forms are closed where they must be.
LEMMA BanKept ==
    ASSUME BanInv,
           \A x \in threads' : x.op \in Saves =>
              \/ \E t \in threads : x.op = t.op /\ x.user = t.user
              \/ x.user \in Users => ~ShutOut(x.user),
           \A u \in Users : rows'[u].status = "banned" =>
              \/ review'[u] = "blocked" \/ Shut(u)'
              \/ rows[u].status = "banned" /\ review[u] # "blocked" /\ Stays(u),
           \A u \in Users : ShutOut(u) => rows'[u].status \in {"active", "banned"}
    PROVE  BanInv' /\ StaysOut
<1>1. BanInv'
    BY DEF BanInv, Shut, Closed, Stays
<1>2. ASSUME NEW u \in Users, ShutOut(u)
      PROVE  ~Saving(u)'
    BY <1>2 DEF ShutOut, Saving
<1> QED
    BY <1>1, <1>2 DEF StaysOut

\* The same where no review moves.
LEMMA BanQuiet ==
    ASSUME BanInv, UNCHANGED review,
           \A x \in threads' : x.op \in Saves =>
              \/ \E t \in threads : x.op = t.op /\ x.user = t.user
              \/ x.user \in Users => ~ShutOut(x.user),
           \A u \in Users : rows'[u].status = "banned" =>
              /\ rows[u].status = "banned"
              /\ Stays(u) \/ Shut(u)' \/ review[u] = "blocked",
           \A u \in Users : ShutOut(u) => rows'[u].status \in {"active", "banned"}
    PROVE  BanInv' /\ StaysOut
<1>1. \A u \in Users : rows'[u].status = "banned" =>
              \/ review'[u] = "blocked" \/ Shut(u)'
              \/ rows[u].status = "banned" /\ review[u] # "blocked" /\ Stays(u)
    OBVIOUS
<1> QED
    BY <1>1, BanKept

LEMMA JostledFollow ==
    ASSUME Typed, NEW who
    PROVE  \A x \in Jostled(who) : \E t \in threads : x.op = t.op /\ x.user = t.user
    BY JostledIs DEF Typed

LEMMA GotoFollow ==
    ASSUME Typed, NEW t \in threads, NEW s, Goto(t, s) \/ End(t)
    PROVE  Follow
<1>1. CASE End(t)
    BY <1>1 DEF End, Follow
<1>2. CASE Goto(t, s)
  <2>1. t = Thread(t.op, t.user, t.at, t.row, t.order, t.lone)
      BY ThreadIs DEF Typed
  <2> DEFINE x == [t EXCEPT !.at = s]
  <2>2. x.op = t.op /\ x.user = t.user
      BY <2>1 DEF Thread
  <2>3. threads' = (threads \ {t}) \cup {x}
      BY <1>2 DEF Goto
  <2> HIDE DEF x
  <2> QED
      BY <2>2, <2>3 DEF Follow
<1> QED
    BY <1>1, <1>2

\* Who moves in his dialogue while he is banned comes to rest, unless the closing of his
\* chat was overtaken.
LEMMA DialogueRests ==
    ASSUME Typed, NEW u \in Users, Dialogue(u), rows[u].status = "banned", Shut(u)
    PROVE  Shut(u)'
<1>1. Known(u) /\ ~OpenEdit(u, rows[u]) /\ due[u] = {}
    BY DEF Known, OpenEdit, Dialogue
<1>2. CASE FormStep(u)
  <2>1. fsm[u] \notin IdleStates
      BY <1>2 DEF IdleStates, FormStep, AnswerPlain, AnswerWithdrawal, EditPlain, AnswerWithCodes, TogglePack,
             PacksDone, CancelPack, SubmitPrice, AnswerStart, EditEnd, OpenField, PackagesStates, PricesStates
  <2>2. UNCHANGED overtaken
      BY <1>2 DEF FormStep, AnswerPlain, AnswerWithdrawal, EditPlain, AnswerWithCodes, TogglePack,
             PacksDone, CancelPack, SubmitPrice, AnswerStart, EditEnd, OpenField, Proceed, Reach, Due
  <2> QED
      BY <2>1, <2>2 DEF Shut, Closed
<1>3. CASE Leave(u, "none")
    BY <1>1, <1>3 DEF Leave, Enter, Typed, FormsTypeOK, IdleStates, Shut, Closed
<1> QED
    BY <1>1, <1>2, <1>3 DEF Dialogue, StartCommand, MenuTrigger

LEMMA DialogueElsewhere ==
    ASSUME Typed, Filled, NEW u \in Users, Dialogue(u), NEW v \in Users, v # u
    PROVE  Stays(v)
<1>1. due[u] = {} /\ \E s, f : Comes(u, s, f)
    BY DialogueFits DEF MovesForm
<1>2. fsm'[v] = fsm[v] /\ due'[v] = due[v]
    BY <1>1, Moved DEF Typed
<1>3. overtaken' \in {overtaken, overtaken \ {u}}
    BY <1>1 DEF Comes, Goes
<1> QED
    BY <1>2, <1>3 DEF Stays

LEMMA DialogueBan ==
    ASSUME Typed, Filled, BanInv, NEW u \in Users, Dialogue(u)
    PROVE  BanInv' /\ StaysOut
<1>1. UNCHANGED <<rows, threads, review>>
    BY DEF Dialogue
<1>2. \A v \in Users : rows[v].status = "banned" =>
          Stays(v) \/ Shut(v)' \/ review[v] = "blocked"
    BY DialogueRests, DialogueElsewhere DEF BanInv
<1>3. \A v \in Users : ShutOut(v) => rows'[v].status \in {"active", "banned"}
    BY <1>1 DEF ShutOut
<1> QED
    BY <1>1, <1>2, <1>3, BanQuiet

\* A step of a dialogue ends: not of one that is closed.
LEMMA EndDialogueBan ==
    ASSUME Typed, BanInv, NEW u \in Users, EndDialogue(u)
    PROVE  BanInv' /\ StaysOut
<1>1. UNCHANGED <<rows, threads, review, overtaken>>
    BY DEF EndDialogue, Arrive
<1>2. due[u] # {} /\ \A v \in Users \ {u} : fsm'[v] = fsm[v] /\ due'[v] = due[v]
    BY DEF EndDialogue, Arrive, Enter, Typed, FormsTypeOK
<1>3. \A v \in Users : rows[v].status = "banned" => Stays(v) \/ Shut(v)' \/ review[v] = "blocked"
  <2>1. rows[u].status = "banned" => review[u] = "blocked" \/ u \in overtaken
      BY <1>2 DEF BanInv, Shut, Closed
  <2>2. rows[u].status = "banned" => Shut(u)' \/ review[u] = "blocked"
      BY <1>1, <2>1 DEF Shut
  <2>3. \A v \in Users \ {u} : Stays(v)
      BY <1>1, <1>2 DEF Stays
  <2> QED
      BY <2>2, <2>3
<1>4. \A v \in Users : ShutOut(v) => rows'[v].status \in {"active", "banned"}
    BY <1>1 DEF ShutOut
<1> QED
    BY <1>1, <1>3, <1>4, BanQuiet

LEMMA StartBan ==
    ASSUME Typed, BanInv, NEW op, NEW who, NEW at, NEW row, Start(op, who, at, row),
           UNCHANGED <<rows, fsm, due, overtaken, review>>,
           op \in Saves => who \in Users /\ fsm[who] \notin IdleStates
    PROVE  BanInv' /\ StaysOut
<1>1. PICK lone : threads' = Jostled(who) \cup {Thread(op, who, at, row, NoOrder, lone)}
    BY DEF Start
<1>2. op \in Saves => ~ShutOut(who)
    BY DEF BanInv, ShutOut, Shut, Closed
<1>3. \A x \in threads' : x.op \in Saves =>
              \/ \E t \in threads : x.op = t.op /\ x.user = t.user
              \/ ~ShutOut(x.user)
  <2> SUFFICES ASSUME NEW x \in threads', x.op \in Saves
               PROVE  \/ \E t \in threads : x.op = t.op /\ x.user = t.user
                      \/ ~ShutOut(x.user)
      OBVIOUS
  <2>1. CASE x \in Jostled(who)
      BY <2>1, JostledFollow
  <2>2. CASE x = Thread(op, who, at, row, NoOrder, lone)
      BY <1>2, <2>2 DEF Thread
  <2> QED
      BY <1>1, <2>1, <2>2
<1>4. \A v \in Users : ShutOut(v) => rows'[v].status \in {"active", "banned"}
    BY DEF ShutOut
<1>5. \A v \in Users : Stays(v)
    BY DEF Stays
<1> QED
    BY <1>3, <1>4, <1>5, BanQuiet

LEMMA ApproveBan ==
    ASSUME Typed, BanInv, NEW u \in Users, NEW codes, NEW tier, Approve(u, codes, tier)
    PROVE  BanInv' /\ StaysOut
<1>1. /\ rows' = [rows EXCEPT ![u].status = "active", ![u].codes = codes, ![u].tier = tier,
                              ![u].prices = IF codes THEN NoTable ELSE @]
      /\ Close(u, "none") /\ Disturb(u) /\ UNCHANGED review
    BY DEF Approve
<1>2. rows'[u].status = "active" /\ \A v \in Users \ {u} : rows'[v] = rows[v]
    BY <1>1 DEF Typed, Rows
<1>3. \A v \in Users \ {u} : Stays(v)
    BY <1>1 DEF Close, Enter, Typed, FormsTypeOK, Stays
<1>4. \A v \in Users : rows'[v].status = "banned" => rows[v].status = "banned"
    BY <1>2
<1>5. \A v \in Users : ShutOut(v) => rows'[v].status \in {"active", "banned"}
    BY <1>2 DEF ShutOut
<1> QED
    BY <1>1, <1>2, <1>3, <1>4, <1>5, JostledFollow, BanQuiet DEF Disturb

LEMMA SetPricesBan ==
    ASSUME Typed, BanInv, NEW u \in Users, NEW prices, SetPrices(u, prices)
    PROVE  BanInv' /\ StaysOut
<1>1. rows' = [rows EXCEPT ![u].prices = prices] /\ UNCHANGED <<formVars, review>> /\ Disturb(u)
    BY DEF SetPrices
<1>2. \A v \in Users : rows'[v].status = rows[v].status
    BY <1>1 DEF Typed, Rows
<1>3. \A v \in Users : ShutOut(v) => rows'[v].status \in {"active", "banned"}
    BY <1>2 DEF ShutOut
<1> QED
  <2>1. \A v \in Users : Stays(v)
      BY <1>1 DEF Stays, formVars
  <2> QED
      BY <1>1, <1>2, <1>3, <2>1, JostledFollow, BanQuiet DEF Disturb

\* The ban opens the time in which a save undoes it, the closing of the chat ends it.
LEMMA ReviewBan ==
    ASSUME Typed, BanInv, NEW u \in Users,
           PressReady(u) \/ Pass(u) \/ Ban(u) \/ CloseChat(u)
    PROVE  BanInv' /\ StaysOut
<1>1. CASE PressReady(u) \/ Pass(u)
  <2>1. UNCHANGED <<rows, threads>> /\ \A v \in Users : Stays(v)
      BY <1>1 DEF PressReady, Pass, formVars, Stays
  <2>2. \A v \in Users : review'[v] = review[v] \/ review[v] # "blocked"
      BY <1>1 DEF PressReady, Pass, Typed
  <2>3. \A v \in Users : rows'[v].status = "banned" =>
              \/ review'[v] = "blocked" \/ Shut(v)'
              \/ rows[v].status = "banned" /\ review[v] # "blocked" /\ Stays(v)
      BY <2>1, <2>2 DEF BanInv
  <2>4. \A v \in Users : ShutOut(v) => rows'[v].status \in {"active", "banned"}
      BY <2>1 DEF ShutOut
  <2> QED
      BY <2>1, <2>3, <2>4, BanKept
<1>2. CASE Ban(u)
  <2>1. /\ rows' = [rows EXCEPT ![u].status = "banned"] /\ review' = [review EXCEPT ![u] = "blocked"]
        /\ threads' = Jostled(u) /\ \A v \in Users : Stays(v)
      BY <1>2 DEF Ban, Disturb, formVars, Stays
  <2>2. /\ rows'[u].status = "banned" /\ review'[u] = "blocked"
        /\ \A v \in Users \ {u} : rows'[v] = rows[v] /\ review'[v] = review[v]
      BY <2>1 DEF Typed, Rows
  <2>3. \A v \in Users : rows'[v].status = "banned" =>
              \/ review'[v] = "blocked" \/ Shut(v)'
              \/ rows[v].status = "banned" /\ review[v] # "blocked" /\ Stays(v)
      BY <2>1, <2>2 DEF BanInv
  <2>4. \A v \in Users : ShutOut(v) => rows'[v].status \in {"active", "banned"}
      BY <2>2 DEF ShutOut
  <2> QED
      BY <2>1, <2>3, <2>4, JostledFollow, BanKept
<1>3. CASE CloseChat(u)
  <2>1. /\ review' = [review EXCEPT ![u] = "none"] /\ Close(u, "blocked")
        /\ UNCHANGED <<rows, threads>>
      BY <1>3 DEF CloseChat
  <2>2. /\ Shut(u)'
        /\ \A v \in Users \ {u} : Stays(v) /\ review'[v] = review[v]
    <3>1. fsm'[u] = "blocked" /\ \A v \in Users \ {u} : Stays(v)
        BY <2>1 DEF Close, Enter, Typed, FormsTypeOK, Stays
    <3>2. \/ due'[u] = {}
          \/ u \in overtaken'
        BY <2>1 DEF Close
    <3> QED
        BY <2>1, <3>1, <3>2 DEF Shut, Closed, IdleStates, Typed
  <2>3. \A v \in Users : rows'[v].status = "banned" =>
              \/ review'[v] = "blocked" \/ Shut(v)'
              \/ rows[v].status = "banned" /\ review[v] # "blocked" /\ Stays(v)
      BY <2>1, <2>2 DEF BanInv
  <2>4. \A v \in Users : ShutOut(v) => rows'[v].status \in {"active", "banned"}
      BY <2>1 DEF ShutOut
  <2> QED
      BY <2>1, <2>3, <2>4, BanKept
<1> QED
    BY <1>1, <1>2, <1>3

LEMMA ThreadBan ==
    ASSUME Typed, Filled, BanInv, NEW t \in threads, ThreadStep(t)
    PROVE  BanInv' /\ StaysOut
<1>0. t \in Kinds /\ t = Thread(t.op, t.user, t.at, t.row, t.order, t.lone)
    BY ThreadIs DEF Typed
<1>a. UNCHANGED review
    BY DEF ThreadStep, Flip, FirstScript, SecondScript, Upsert, Deactivate, RemovePack, RemoveCode,
           LeaveForm, AllOffline, ClearPack, ClearCode, CommitTake, auxVars
<1>b. ASSUME Follow,
             \A v \in Users : rows'[v].status = "banned" =>
                rows[v].status = "banned" /\ (Stays(v) \/ Shut(v)'),
             \A v \in Users : ~Saving(v) => rows'[v].status = rows[v].status
      PROVE  BanInv' /\ StaysOut
  <2>1. \A v \in Users : ShutOut(v) => rows'[v].status \in {"active", "banned"}
      BY <1>b DEF ShutOut
  <2> QED
      BY <1>a, <1>b, <2>1, BanQuiet DEF Follow
<1>c. UNCHANGED formVars => \A v \in Users : Stays(v)
    BY DEF formVars, Stays
<1>1. CASE Flip(t)
  <2>1. rows' = [rows EXCEPT ![t.user].online = ~@] /\ UNCHANGED formVars
      BY <1>1 DEF Flip
  <2>2. \A v \in Users : rows'[v].status = rows[v].status
      BY <2>1 DEF Typed, Rows
  <2> DEFINE x == [t EXCEPT !.at = "first", !.row = rows'[t.user]]
  <2>3. threads' = (threads \ {t}) \cup {x}
      BY <1>1 DEF Flip
  <2>4. x.op = t.op /\ x.user = t.user
      BY <1>0 DEF Thread
  <2> HIDE DEF x
  <2>5. Follow
      BY <2>3, <2>4 DEF Follow
  <2> QED
      BY <1>b, <1>c, <2>1, <2>2, <2>5
<1>2. CASE Upsert(t) \/ Deactivate(t)
  <2>1. t.op \in Saves /\ t.user \in Users
      BY <1>0, <1>2, ThreadIs DEF Upsert, Deactivate, Saves
  <2>2. \E row : rows' = [rows EXCEPT ![t.user] = Reset(row)]
      BY <1>2 DEF Upsert, Deactivate
  <2>3. \A v \in Users \ {t.user} : rows'[v] = rows[v]
      BY <2>2 DEF Typed
  <2>4. Saving(t.user)
      BY <2>1 DEF Saving
  <2>5. Follow /\ UNCHANGED formVars
      BY <1>2, GotoFollow DEF Upsert, Deactivate
  <2>6. rows'[t.user].status # "banned"
    <3>1. CASE Upsert(t)
      <4> DEFINE given == [t.row EXCEPT !.tier = rows[t.user].tier]
      <4>1. rows'[t.user] = Reset(given)
          BY <3>1, <2>1 DEF Upsert, Typed
      <4>2. given \in Rows
        <5>1. t.row \in Rows /\ rows[t.user] \in Rows
            BY <1>0, <2>1, ThreadIs DEF Typed
        <5> QED
            BY <5>1 DEF Rows
      <4> HIDE DEF given
      <4> QED
          BY <4>1, <4>2, ResetIs
    <3>2. CASE Deactivate(t)
      <4>1. rows'[t.user] = Reset(rows[t.user]) /\ rows[t.user] \in Rows
          BY <3>2, <2>1 DEF Deactivate, Typed
      <4> QED
          BY <4>1, ResetIs
    <3> QED
        BY <1>2, <3>1, <3>2
  <2> QED
      BY <1>b, <1>c, <2>3, <2>4, <2>5, <2>6
<1>3. CASE LeaveForm(t)
  <2>1. UNCHANGED rows /\ Follow
      BY <1>3, GotoFollow DEF LeaveForm
  <2>2. /\ due[t.user] = {} /\ t.user \in Users
        /\ \E x \in {"reg_finished", "none"} : Leave(t.user, x)
      BY <1>0, <1>3, ThreadIs DEF LeaveForm, Filled, ThreadOK, Saves
  <2>3. \A v \in Users : Stays(v) \/ Shut(v)'
      BY <2>2 DEF Leave, Enter, Typed, FormsTypeOK, IdleStates, Stays, Shut, Closed
  <2> QED
      BY <1>b, <2>1, <2>3
<1>4. CASE AllOffline(t)
  <2>1. Follow /\ UNCHANGED formVars
      BY <1>4, GotoFollow DEF AllOffline
  <2>2. \A v \in Users : rows'[v].status = rows[v].status
      BY <1>4 DEF AllOffline, Typed, Rows
  <2> QED
      BY <1>b, <1>c, <2>1, <2>2
<1>5. CASE \/ FirstScript(t) \/ SecondScript(t) \/ RemovePack(t) \/ RemoveCode(t)
           \/ ClearPack(t) \/ ClearCode(t) \/ CommitTake(t)
  <2>1. UNCHANGED <<rows, formVars>> /\ Follow
      BY <1>5, GotoFollow
         DEF FirstScript, SecondScript, RemovePack, RemoveCode, ClearPack, ClearCode, CommitTake
  <2> QED
      BY <1>b, <1>c, <2>1
<1> QED
    BY <1>1, <1>2, <1>3, <1>4, <1>5 DEF ThreadStep

LEMMA BanStep ==
    ASSUME Typed, Filled, BanInv, [Next]_vars
    PROVE  BanInv' /\ StaysOut
<1>0. ASSUME UNCHANGED <<rows, formVars, review>>, \A x \in threads' : x.op \in Saves => x \in threads
      PROVE  BanInv' /\ StaysOut
  <2>1. \A v \in Users : ShutOut(v) => rows'[v].status \in {"active", "banned"}
      BY <1>0 DEF ShutOut
  <2> QED
      BY <1>0, <2>1, BanQuiet DEF formVars, Stays
<1>1. ASSUME NEW u \in Users, Dialogue(u)
      PROVE  BanInv' /\ StaysOut
    BY <1>1, DialogueBan
<1>2. ASSUME NEW u \in Users, PressToggle(u)
      PROVE  BanInv' /\ StaysOut
    BY <1>2, StartBan DEF PressToggle, Saves, formVars
<1>3. ASSUME NEW u \in Users, SaveEdit(u)
      PROVE  BanInv' /\ StaysOut
    BY <1>3, StartBan DEF SaveEdit, formVars, IdleStates
<1>4. ASSUME NEW u \in Users, NEW h \in Hours, FinishRegistration(u, h)
      PROVE  BanInv' /\ StaysOut
    BY <1>4, StartBan DEF FinishRegistration, IdleStates
<1>5. ASSUME NEW u \in Users, NEW o \in Orders, PressTake(u, o)
      PROVE  BanInv' /\ StaysOut
  <2>1. UNCHANGED <<rows, formVars, review>>
      BY <1>5 DEF PressTake
  <2>2. threads' = threads \cup {Thread("take", u, "commit", rows[u], o, TRUE)}
      BY <1>5 DEF PressTake
  <2>3. \A x \in threads' : x.op \in Saves => x \in threads
      BY <2>2 DEF Thread, Saves
  <2> QED
      BY <1>0, <2>1, <2>3
<1>6. ASSUME NEW u \in Users, Finish(u)
      PROVE  BanInv' /\ StaysOut
    BY <1>0, <1>6 DEF Finish
<1>7. ASSUME Disable
      PROVE  BanInv' /\ StaysOut
    BY <1>7, StartBan DEF Disable, Saves, formVars
<1>8. ASSUME Enable \/ UNCHANGED vars
      PROVE  BanInv' /\ StaysOut
    BY <1>0, <1>8 DEF Enable, vars
<1>9. ASSUME NEW u \in Users, NEW codes \in BOOLEAN, NEW tier \in Tiers, Approve(u, codes, tier)
      PROVE  BanInv' /\ StaysOut
    BY <1>9, ApproveBan
<1>10. ASSUME NEW u \in Users, NEW prices \in PriceTables, SetPrices(u, prices)
       PROVE  BanInv' /\ StaysOut
    BY <1>10, SetPricesBan
<1>11. ASSUME NEW u \in Users, PressReady(u) \/ Pass(u) \/ Ban(u) \/ CloseChat(u)
       PROVE  BanInv' /\ StaysOut
    BY <1>11, ReviewBan
<1>12. ASSUME NEW t \in threads, ThreadStep(t)
       PROVE  BanInv' /\ StaysOut
    BY <1>12, ThreadBan
<1>13. ASSUME NEW u \in Users, EndDialogue(u)
       PROVE  BanInv' /\ StaysOut
    BY <1>13, EndDialogueBan
<1> QED
    BY <1>1, <1>2, <1>3, <1>4, <1>5, <1>6, <1>7, <1>8, <1>9, <1>10, <1>11, <1>12, <1>13
       DEF Next

\* Who was banned and his chat closed, with no save nor step of a dialogue of his under way
\* then, comes back only by a moderator's decision, though any save of a form resets the
\* status: no form of his is open, nor about to be.
THEOREM BansLast == Spec => BannedStaysOut
<1>1. Init => BanInv
    BY DEF Init, BanInv, NoRow
<1>2. Typed /\ Filled /\ BanInv /\ [Next]_vars => BanInv'
    BY BanStep
<1>3. Typed /\ Filled /\ BanInv /\ [Next]_vars =>
          [\A u \in Users : ShutOut(u) =>
              \/ rows'[u].status = "active"
              \/ rows'[u].status = "banned" /\ ~Saving(u)']_vars
    BY BanStep DEF StaysOut
<1> QED
    BY <1>1, <1>2, <1>3, AlwaysTyped, PTL DEF Spec, BannedStaysOut
----------------------------------------------------------------------------
(* The index follows the rows: what a sync does to an entry.                *)

LEMMA EntryIs ==
    ASSUME NEW e \in Entries
    PROVE  /\ e = [prices |-> e.prices, tier |-> e.tier, keys |-> e.keys]
           /\ PackRemove(e) = [prices |-> NoPrices, tier |-> NoTier, keys |-> e.keys]
           /\ CodeRemove(e) = [prices |-> e.prices, tier |-> e.tier, keys |-> {}]
           /\ CodeRemove(PackRemove(e)) = NoEntry
           /\ e.prices = NoPrices /\ e.tier = NoTier => CodeRemove(e) = NoEntry
<1>1. e = [prices |-> e.prices, tier |-> e.tier, keys |-> e.keys]
    BY DEF Entries
<1>2. PackRemove(e) = [prices |-> NoPrices, tier |-> NoTier, keys |-> e.keys]
  <2> DEFINE f == PackRemove(e)
  <2>1. f \in [prices : {NoPrices}, tier : {NoTier}, keys : {e.keys}]
      BY DEF PackRemove, Entries
  <2> HIDE DEF f
  <2>2. f = [prices |-> f.prices, tier |-> f.tier, keys |-> f.keys]
      BY <2>1
  <2>3. f.prices = NoPrices /\ f.tier = NoTier /\ f.keys = e.keys
      BY <2>1
  <2>4. f = [prices |-> NoPrices, tier |-> NoTier, keys |-> e.keys]
      BY <2>2, <2>3
  <2> QED
      BY <2>4 DEF f
<1>3. CodeRemove(e) = [prices |-> e.prices, tier |-> e.tier, keys |-> {}]
    BY <1>1 DEF CodeRemove
<1>4. CodeRemove(PackRemove(e)) = [PackRemove(e) EXCEPT !.keys = {}]
    BY DEF CodeRemove
<1>5. [[prices |-> NoPrices, tier |-> NoTier, keys |-> e.keys] EXCEPT !.keys = {}] = NoEntry
    BY DEF NoEntry
<1>6. CodeRemove(PackRemove(e)) = NoEntry
    BY <1>2, <1>4, <1>5
<1> QED
    BY <1>1, <1>2, <1>3, <1>6 DEF NoEntry

LEMMA OfflineMirror ==
    ASSUME NEW row \in Rows, ~row.online
    PROVE  ~Eligible(row) /\ Mirror(row) = NoEntry
    BY DEF Eligible, Mirror

LEMMA FlippedIs ==
    ASSUME NEW row \in Rows
    PROVE  /\ Flipped(row) \in Rows /\ Flipped(row).online = ~row.online
           /\ Flipped(Flipped(row)) = row
    BY DEF Flipped, Rows

\* An undisturbed sync leaves the entry right whatever it was, but for code tiers, which
\* add up: then it has to start from the entry of the row before the button was pressed.
LEMMA SyncRight ==
    ASSUME NEW row \in Rows, NEW e \in Entries,
           e = Mirror(Flipped(row)) \/ ~(Eligible(row) /\ row.codes)
    PROVE  SyncSecond(SyncFirst(e, row), row) = Mirror(row)
<1>1. CASE ~Eligible(row)
    BY <1>1, EntryIs DEF SyncSecond, SyncFirst, Mirror
<1>2. CASE Eligible(row) /\ ~row.codes
    BY <1>2, EntryIs DEF SyncSecond, SyncFirst, Mirror, PackAdd, CodeRemove, NoEntry, Entries
<1>3. CASE Eligible(row) /\ row.codes
  <2>1. Flipped(row) \in Rows /\ ~Flipped(row).online
      BY <1>3, FlippedIs DEF Eligible
  <2>2. e = NoEntry
      BY <1>3, <2>1, OfflineMirror
  <2>3. CodeAdd(e, row) = [prices |-> NoPrices, tier |-> NoTier, keys |-> {row.tier}]
      BY <2>2 DEF CodeAdd, NoEntry
  <2>4. Mirror(row) = [prices |-> NoPrices, tier |-> NoTier, keys |-> {row.tier}]
      BY <1>3 DEF Mirror, NoEntry
  <2>5. CodeAdd(e, row) \in Entries
      BY DEF CodeAdd, Entries, Rows
  <2>6. PackRemove(CodeAdd(e, row)) = [prices |-> NoPrices, tier |-> NoTier, keys |-> CodeAdd(e, row).keys]
      BY <2>5, EntryIs
  <2> QED
      BY <1>3, <2>3, <2>4, <2>6 DEF SyncSecond, SyncFirst
<1> QED
    BY <1>1, <1>2, <1>3
----------------------------------------------------------------------------
(* What a step does to the handlers of one user.                            *)

UserInv(u) == Sole(u) /\ Entered(u) /\ Staged(u)
Pushed(t, who) == IF Meets(t, who) THEN [t EXCEPT !.lone = FALSE] ELSE t

LEMMA PushedIs ==
    ASSUME NEW t \in Kinds, NEW who
    PROVE  /\ Pushed(t, who).op = t.op /\ Pushed(t, who).user = t.user
           /\ Pushed(t, who).at = t.at /\ Pushed(t, who).row = t.row
           /\ Pushed(t, who).lone => t.lone
           /\ Meets(t, who) => ~Pushed(t, who).lone
<1>1. t = Thread(t.op, t.user, t.at, t.row, t.order, t.lone)
    BY ThreadIs
<1> QED
    BY <1>1 DEF Pushed, Thread

LEMMA JostledPushed == ASSUME NEW who PROVE Jostled(who) = {Pushed(t, who) : t \in threads}
    BY DEF Jostled, Pushed

LEMMA WritersPushed ==
    ASSUME Typed, NEW u \in Users, NEW who
    PROVE  {x \in Jostled(who) : x.op # "take" /\ x.user \in {u, Everyone}}
                = {Pushed(t, who) : t \in Writers(u)}
<1>1. \A t \in threads : Pushed(t, who).op = t.op /\ Pushed(t, who).user = t.user
    BY PushedIs DEF Typed
<1> QED
    BY <1>1, JostledPushed DEF Writers

\* A handler's claim is about its user's row and entry.
LEMMA ClaimStays ==
    ASSUME NEW u, NEW t, NEW x, Claim(t, u),
           x.op = t.op, x.at = t.at, x.row = t.row,
           rows'[u] = rows[u], index'[u] = index[u], u \in touched' <=> u \in touched
    PROVE  Claim(x, u)'
    BY DEF Claim

LEMMA Aside ==
    ASSUME Typed, NEW u \in Users, UserInv(u),
           rows'[u] = rows[u], index'[u] = index[u], u \in touched' <=> u \in touched,
           NEW who, Writers(u)' = {Pushed(t, who) : t \in Writers(u)}
    PROVE  UserInv(u)'
<1>1. \A t \in Writers(u) : t \in Kinds
    BY DEF Writers, Typed
<1>2. Sole(u)'
  <2> SUFFICES ASSUME NEW x \in Writers(u)', NEW y \in Writers(u)', u \notin touched' \/ x.lone
               PROVE  x = y
      BY DEF Sole
  <2>1. PICK s \in Writers(u) : x = Pushed(s, who)
      OBVIOUS
  <2>2. PICK t \in Writers(u) : y = Pushed(t, who)
      OBVIOUS
  <2>3. u \notin touched \/ s.lone
      BY <1>1, <2>1, PushedIs
  <2>4. s = t
      BY <2>3 DEF UserInv, Sole
  <2> QED
      BY <2>1, <2>2, <2>4
<1>3. Entered(u)'
    BY DEF UserInv, Entered
<1>4. Staged(u)'
  <2> SUFFICES ASSUME NEW x \in Writers(u)', u \notin touched' \/ x.lone
               PROVE  Claim(x, u)'
      BY DEF Staged
  <2>1. PICK t \in Writers(u) : x = Pushed(t, who)
      OBVIOUS
  <2>2. /\ x.op = t.op /\ x.at = t.at /\ x.row = t.row
        /\ u \notin touched \/ t.lone
      BY <1>1, <2>1, PushedIs
  <2>3. Claim(t, u)
      BY <2>2 DEF UserInv, Staged
  <2> QED
      BY <2>2, <2>3, ClaimStays
<1> QED
    BY <1>2, <1>3, <1>4 DEF UserInv

LEMMA Untroubled ==
    ASSUME NEW u \in Users, UserInv(u), Writers(u)' = Writers(u),
           rows'[u] = rows[u], index'[u] = index[u], u \in touched' <=> u \in touched
    PROVE  UserInv(u)'
<1>1. Sole(u)'
    BY DEF UserInv, Sole
<1>2. Entered(u)'
    BY DEF UserInv, Entered
<1>3. Staged(u)'
  <2> SUFFICES ASSUME NEW t \in Writers(u), u \notin touched \/ t.lone
               PROVE  Claim(t, u)'
      BY DEF Staged
  <2>1. Claim(t, u)
      BY DEF UserInv, Staged
  <2> QED
      BY <2>1, ClaimStays
<1> QED
    BY <1>1, <1>2, <1>3 DEF UserInv

\* Nothing is claimed of who is touched while none of his handlers is alone.
LEMMA Doubtful ==
    ASSUME NEW u \in Users, u \in touched', \A x \in Writers(u)' : ~x.lone
    PROVE  UserInv(u)'
    BY DEF UserInv, Sole, Entered, Staged

LEMMA Begun ==
    ASSUME NEW u \in Users, UserInv(u), Writers(u) = {}, NEW x, Writers(u)' = {x},
           x.at = "flip" \/ (x.at = "upsert" /\ x.op # "toggle"),
           rows'[u] = rows[u], index'[u] = index[u], u \in touched' <=> u \in touched
    PROVE  UserInv(u)'
<1>1. u \notin touched => index[u] = Mirror(rows[u])
    BY DEF UserInv, Entered
<1>2. Claim(x, u)'
    BY <1>1 DEF Claim
<1> QED
    BY <1>2 DEF UserInv, Sole, Entered, Staged

\* A handler that counts on being the only one is.
LEMMA OnlyWriter ==
    ASSUME NEW u \in Users, UserInv(u), NEW t \in Writers(u), u \notin touched \/ t.lone
    PROVE  Writers(u) = {t} /\ Claim(t, u)
    BY DEF UserInv, Sole, Staged

LEMMA OthersDoubt ==
    ASSUME NEW u \in Users, UserInv(u), NEW t \in Writers(u), ~t.lone
    PROVE  \A s \in Writers(u) \ {t} : ~s.lone
    BY DEF UserInv, Sole

LEMMA Passing ==
    ASSUME NEW u \in Users, UserInv(u), NEW t \in Writers(u), NEW x,
           threads' = (threads \ {t}) \cup {x}, x.op = t.op, x.user = t.user, x.lone = t.lone,
           u \notin touched' => u \notin touched \/ t.lone,
           u \notin touched' \/ t.lone => Claim(x, u)'
    PROVE  UserInv(u)'
<1>1. Writers(u)' = (Writers(u) \ {t}) \cup {x}
    BY DEF Writers
<1>2. CASE u \in touched' /\ ~t.lone
  <2>1. \A s \in Writers(u)' : ~s.lone
      BY <1>1, <1>2, OthersDoubt
  <2> QED
      BY <1>2, <2>1, Doubtful
<1>3. CASE u \notin touched' \/ t.lone
  <2>1. Writers(u)' = {x}
      BY <1>1, <1>3, OnlyWriter
  <2> QED
      BY <1>3, <2>1 DEF UserInv, Sole, Entered, Staged
<1> QED
    BY <1>2, <1>3

LEMMA Ending ==
    ASSUME NEW u \in Users, UserInv(u), NEW t \in Writers(u), End(t),
           u \notin touched' => u \notin touched \/ t.lone,
           u \notin touched' => index'[u] = Mirror(rows'[u])
    PROVE  UserInv(u)'
<1>1. Writers(u)' = Writers(u) \ {t}
    BY DEF Writers, End
<1>2. CASE u \notin touched'
  <2>1. Writers(u)' = {}
      BY <1>1, <1>2, OnlyWriter
  <2> QED
      BY <1>2, <2>1 DEF UserInv, Sole, Entered, Staged
<1>3. CASE u \in touched'
  <2>1. \A s \in Writers(u)' : ~s.lone
      BY <1>1, <1>3 DEF UserInv, Sole
  <2> QED
      BY <1>3, <2>1, Doubtful
<1> QED
    BY <1>2, <1>3
----------------------------------------------------------------------------
(* The index follows the rows, step by step.                                *)

\* A step that leaves rows, index and the handlers that write alone.
LEMMA Quiet ==
    ASSUME IndexInv, UNCHANGED <<rows, index, touched>>,
           \A t : t.op # "take" => (t \in threads' <=> t \in threads)
    PROVE  IndexInv'
<1> SUFFICES ASSUME NEW u \in Users PROVE UserInv(u)'
    BY DEF IndexInv, UserInv
<1>1. UserInv(u)
    BY DEF IndexInv, UserInv
<1>2. Writers(u)' = Writers(u)
    BY DEF Writers
<1> QED
    BY <1>1, <1>2, Untroubled

LEMMA StartIndex ==
    ASSUME Typed, IndexInv, NEW op, NEW who \in Users \cup {Everyone}, NEW at, NEW row,
           op # "take", at = "flip" \/ (at = "upsert" /\ op # "toggle"),
           Start(op, who, at, row), UNCHANGED <<rows, index>>
    PROVE  IndexInv'
<1> DEFINE alone == \A t \in threads : ~Meets(t, who)
<1>0. PICK new : new = Thread(op, who, at, row, NoOrder, alone)
    OBVIOUS
<1>1. /\ threads' = Jostled(who) \cup {new}
      /\ new.op = op /\ new.user = who /\ new.at = at /\ new.lone = alone
    BY <1>0 DEF Start, Thread
<1>2. touched' = IF alone THEN touched ELSE touched \cup Scope(who)
    BY DEF Start
<1>3. Everyone \notin Users
    BY DeskAssumption DEF Everyone
<1> SUFFICES ASSUME NEW u \in Users PROVE UserInv(u)'
    BY DEF IndexInv, UserInv
<1>4. UserInv(u)
    BY DEF IndexInv, UserInv
<1>5. /\ u \in Scope(who) => who \in {u, Everyone}
      /\ u \notin Scope(who) => who \notin {u, Everyone}
    BY <1>3 DEF Scope
<1>6. Writers(u)' = {Pushed(t, who) : t \in Writers(u)} \cup {x \in {new} : u \in Scope(who)}
    BY <1>1, <1>5, WritersPushed DEF Writers
<1>7. \A t \in Writers(u) : t \in Kinds
    BY DEF Writers, Typed
<1>8. CASE u \notin Scope(who)
  <2>1. Writers(u)' = {Pushed(t, who) : t \in Writers(u)}
      BY <1>6, <1>8
  <2>2. u \in touched' <=> u \in touched
      BY <1>2, <1>8
  <2> QED
      BY <1>4, <2>1, <2>2, Aside
<1>9. CASE u \in Scope(who) /\ alone
  <2>1. Writers(u) = {}
      BY <1>5, <1>9 DEF Writers, Meets
  <2>2. Writers(u)' = {new}
      BY <1>6, <1>9, <2>1
  <2>3. u \in touched' <=> u \in touched
      BY <1>2, <1>9
  <2> HIDE DEF alone
  <2> QED
      BY <1>1, <1>4, <2>1, <2>2, <2>3, Begun
<1>10. CASE u \in Scope(who) /\ ~alone
  <2>1. u \in touched'
      BY <1>2, <1>10
  <2>2. \A t \in Writers(u) : Meets(t, who)
      BY <1>5, <1>10 DEF Writers, Meets
  <2>3. \A t \in Writers(u) : ~Pushed(t, who).lone
      BY <1>7, <2>2, PushedIs
  <2>4. ~new.lone
      BY <1>1, <1>10
  <2>5. \A x \in Writers(u)' : ~x.lone
      BY <1>6, <2>3, <2>4
  <2> QED
      BY <2>1, <2>5, Doubtful
<1> QED
    BY <1>8, <1>9, <1>10

\* A write of somebody else: whoever has an entry, is online or is being written is touched.
LEMMA DisturbIndex ==
    ASSUME Typed, IndexInv, NEW w \in Users, Disturb(w),
           rows' \in [Users -> Rows], rows'[w].online = rows[w].online,
           \A v \in Users \ {w} : rows'[v] = rows[v]
    PROVE  IndexInv'
<1>1. threads' = Jostled(w) /\ UNCHANGED index
    BY DEF Disturb
<1>2. touched' = IF rows[w].online \/ index[w] # NoEntry \/ Writers(w) # {}
                 THEN touched \cup {w} ELSE touched
    BY DEF Disturb
<1>3. Everyone \notin Users
    BY DeskAssumption DEF Everyone
<1> SUFFICES ASSUME NEW u \in Users PROVE UserInv(u)'
    BY DEF IndexInv, UserInv
<1>4. UserInv(u)
    BY DEF IndexInv, UserInv
<1>5. Writers(u)' = {Pushed(t, w) : t \in Writers(u)}
    BY <1>1, WritersPushed DEF Writers
<1>6. \A t \in Writers(u) : t \in Kinds
    BY DEF Writers, Typed
<1>7. CASE u # w
  <2>1. u \in touched' <=> u \in touched
      BY <1>2, <1>7
  <2> QED
      BY <1>1, <1>4, <1>5, <1>7, <2>1, Aside
<1>8. CASE u = w /\ u \in touched'
  <2>1. \A t \in Writers(u) : Meets(t, w)
      BY <1>8 DEF Writers, Meets
  <2>2. \A x \in Writers(u)' : ~x.lone
      BY <1>5, <1>6, <2>1, PushedIs
  <2> QED
      BY <1>8, <2>2, Doubtful
<1>9. CASE u = w /\ u \notin touched'
  <2>1. ~rows[u].online /\ index[u] = NoEntry /\ Writers(u) = {} /\ u \notin touched
      BY <1>2, <1>9
  <2>2. Writers(u)' = {}
      BY <1>5, <2>1
  <2>3. index'[u] = Mirror(rows'[u])
      BY <1>1, <1>9, <2>1, OfflineMirror
  <2> QED
      BY <2>2, <2>3 DEF UserInv, Sole, Entered, Staged
<1> QED
    BY <1>7, <1>8, <1>9

\* A step of a handler of one user, which touches nobody else.
LEMMA OneUser ==
    ASSUME Typed, IndexInv, NEW w \in Users, UserInv(w)',
           \A t : t.user # w => (t \in threads' <=> t \in threads),
           \A v \in Users \ {w} : /\ rows'[v] = rows[v] /\ index'[v] = index[v]
                                  /\ v \in touched' <=> v \in touched
    PROVE  IndexInv'
<1>1. Everyone \notin Users
    BY DeskAssumption DEF Everyone
<1> SUFFICES ASSUME NEW u \in Users, u # w PROVE UserInv(u)'
    BY DEF IndexInv, UserInv
<1>2. UserInv(u)
    BY DEF IndexInv, UserInv
<1>3. Writers(u)' = Writers(u)
    BY <1>1 DEF Writers
<1> QED
    BY <1>2, <1>3, Untroubled

LEMMA GotoIs ==
    ASSUME NEW t \in Kinds, NEW s, Goto(t, s)
    PROVE  \E x : /\ threads' = (threads \ {t}) \cup {x} /\ x.at = s
                  /\ x.op = t.op /\ x.user = t.user /\ x.row = t.row /\ x.lone = t.lone
<1>1. t = Thread(t.op, t.user, t.at, t.row, t.order, t.lone)
    BY ThreadIs
<1> DEFINE x == [t EXCEPT !.at = s]
<1>2. /\ x.at = s /\ x.op = t.op /\ x.user = t.user /\ x.row = t.row /\ x.lone = t.lone
    BY <1>1 DEF Thread
<1>3. threads' = (threads \ {t}) \cup {x}
    BY DEF Goto
<1> HIDE DEF x
<1> QED
    BY <1>2, <1>3

LEMMA OthersThreads ==
    ASSUME NEW t \in threads, NEW x, x.user = t.user,
           threads' = (threads \ {t}) \cup {x} \/ End(t)
    PROVE  \A y : y.user # t.user => (y \in threads' <=> y \in threads)
    BY DEF End

LEMMA HandlerOf ==
    ASSUME Typed, IndexInv, NEW t \in threads, t.op # "take", t.op # "disable"
    PROVE  /\ t \in Kinds /\ t.user \in Users /\ t \in Writers(t.user) /\ UserInv(t.user)
           /\ t.user \notin touched \/ t.lone => Claim(t, t.user)
<1>1. t \in Kinds /\ t.user \in Users
    BY ThreadIs DEF Typed
<1>2. t \in Writers(t.user)
    BY <1>1 DEF Writers
<1> QED
    BY <1>1, <1>2 DEF IndexInv, UserInv, Staged

LEMMA FlipIndex ==
    ASSUME Typed, IndexInv, NEW t \in threads, Flip(t)
    PROVE  IndexInv'
<1> DEFINE u == t.user
<1>1. t.op = "toggle" /\ t.at = "flip" /\ UNCHANGED <<index, touched>>
    BY DEF Flip, auxVars
<1>2. /\ t \in Kinds /\ u \in Users /\ t \in Writers(u) /\ UserInv(u)
      /\ u \notin touched \/ t.lone => Claim(t, u)
    BY <1>1, HandlerOf
<1>3. rows[u] \in Rows
    BY <1>2 DEF Typed
<1>4. rows'[u] = Flipped(rows[u]) /\ \A v \in Users \ {u} : rows'[v] = rows[v]
    BY <1>2 DEF Flip, Typed, Flipped
<1>5. PICK x : /\ threads' = (threads \ {t}) \cup {x} /\ x.at = "first"
               /\ x.op = t.op /\ x.user = u /\ x.row = rows'[u] /\ x.lone = t.lone
  <2> DEFINE y == [t EXCEPT !.at = "first", !.row = rows'[u]]
  <2>1. t = Thread(t.op, t.user, t.at, t.row, t.order, t.lone)
      BY <1>2, ThreadIs
  <2>2. /\ y.at = "first" /\ y.op = t.op /\ y.user = u /\ y.row = rows'[u] /\ y.lone = t.lone
      BY <2>1 DEF Thread
  <2>3. threads' = (threads \ {t}) \cup {y}
      BY DEF Flip
  <2> HIDE DEF y
  <2> QED
      BY <2>2, <2>3
<1>6. u \notin touched => index[u] = Mirror(Flipped(rows'[u]))
    BY <1>1, <1>2, <1>3, <1>4, FlippedIs DEF Claim
<1>7. Claim(x, u)'
    BY <1>1, <1>5, <1>6 DEF Claim
<1>8. UserInv(u)'
    BY <1>1, <1>2, <1>5, <1>7, Passing
<1> QED
    BY <1>1, <1>2, <1>4, <1>5, <1>8, OneUser, OthersThreads

\* A handler of a user goes on and keeps its claim.
LEMMA GoesOnIndex ==
    ASSUME Typed, IndexInv, NEW t \in threads, t.op # "take", t.op # "disable", NEW s, Goto(t, s),
           touched' = IF t.lone /\ s = "leave" THEN touched \ {t.user} ELSE touched,
           \A v \in Users \ {t.user} : rows'[v] = rows[v] /\ index'[v] = index[v],
           t.user \notin touched \/ t.lone =>
              \A x : x.op = t.op /\ x.at = s /\ x.row = t.row => Claim(x, t.user)'
    PROVE  IndexInv'
<1>1. t \in Kinds /\ t.user \in Users /\ t \in Writers(t.user) /\ UserInv(t.user)
    BY HandlerOf
<1>2. PICK x : /\ threads' = (threads \ {t}) \cup {x} /\ x.at = s
               /\ x.op = t.op /\ x.user = t.user /\ x.row = t.row /\ x.lone = t.lone
    BY <1>1, GotoIs
<1>3. t.user \notin touched' => t.user \notin touched \/ t.lone
    OBVIOUS
<1>4. t.user \notin touched' \/ t.lone => Claim(x, t.user)'
    BY <1>2, <1>3
<1>5. UserInv(t.user)'
    BY <1>1, <1>2, <1>3, <1>4, Passing
<1>6. \A v \in Users \ {t.user} : v \in touched' <=> v \in touched
    OBVIOUS
<1> QED
    BY <1>1, <1>2, <1>5, <1>6, OneUser, OthersThreads

LEMMA EndsIndex ==
    ASSUME Typed, IndexInv, NEW t \in threads, t.op # "take", t.op # "disable", End(t),
           \A v \in Users \ {t.user} : rows'[v] = rows[v] /\ index'[v] = index[v],
           touched' = touched \/ (t.lone /\ touched' = touched \ {t.user}),
           t.user \notin touched' => index'[t.user] = Mirror(rows'[t.user])
    PROVE  IndexInv'
<1>1. t \in Kinds /\ t.user \in Users /\ t \in Writers(t.user) /\ UserInv(t.user)
    BY HandlerOf
<1>2. UserInv(t.user)'
    BY <1>1, Ending
<1>3. \A v \in Users \ {t.user} : v \in touched' <=> v \in touched
    OBVIOUS
<1> QED
    BY <1>1, <1>2, <1>3, OneUser, OthersThreads

LEMMA FirstScriptIndex ==
    ASSUME Typed, IndexInv, NEW t \in threads, FirstScript(t)
    PROVE  IndexInv'
<1> DEFINE u == t.user
<1>1. /\ t.op = "toggle" /\ t.at = "first" /\ UNCHANGED <<rows, touched>> /\ Goto(t, "second")
      /\ index' = [index EXCEPT ![u] = SyncFirst(index[u], t.row)]
    BY DEF FirstScript, auxVars
<1>2. u \in Users /\ (u \notin touched \/ t.lone => Claim(t, u))
    BY <1>1, HandlerOf
<1>3. rows[u] \in Rows /\ index[u] \in Entries
    BY <1>2 DEF Typed
<1>4. /\ index'[u] = SyncFirst(index[u], t.row)
      /\ \A v \in Users \ {u} : index'[v] = index[v]
    BY <1>1, <1>2 DEF Typed
<1>5. ASSUME u \notin touched \/ t.lone
      PROVE  \A x : x.op = t.op /\ x.at = "second" /\ x.row = t.row => Claim(x, u)'
  <2>1. t.row = rows[u] /\ (u \notin touched => index[u] = Mirror(Flipped(rows[u])))
      BY <1>1, <1>2, <1>5 DEF Claim
  <2>2. u \notin touched \/ ~(Eligible(rows[u]) /\ rows[u].codes) =>
            SyncSecond(index'[u], rows[u]) = Mirror(rows[u])
      BY <1>3, <1>4, <2>1, SyncRight
  <2> QED
      BY <1>1, <2>1, <2>2 DEF Claim
<1> QED
    BY <1>1, <1>4, <1>5, GoesOnIndex

LEMMA SecondScriptIndex ==
    ASSUME Typed, IndexInv, NEW t \in threads, SecondScript(t)
    PROVE  IndexInv'
<1> DEFINE u == t.user
<1>1. /\ t.op = "toggle" /\ t.at = "second" /\ UNCHANGED rows /\ End(t)
      /\ index' = [index EXCEPT ![u] = SyncSecond(index[u], t.row)]
      /\ touched' = IF t.lone /\ ~(Eligible(t.row) /\ t.row.codes) THEN touched \ {u} ELSE touched
    BY DEF SecondScript
<1>2. u \in Users /\ (u \notin touched \/ t.lone => Claim(t, u))
    BY <1>1, HandlerOf
<1>3. /\ index'[u] = SyncSecond(index[u], t.row)
      /\ \A v \in Users \ {u} : index'[v] = index[v]
    BY <1>1, <1>2 DEF Typed
<1>4. ASSUME u \notin touched'
      PROVE  index'[u] = Mirror(rows'[u])
  <2>1. u \notin touched \/ (t.lone /\ ~(Eligible(t.row) /\ t.row.codes))
      BY <1>1, <1>4
  <2>2. t.row = rows[u]
      BY <1>1, <1>2, <2>1 DEF Claim
  <2>3. SyncSecond(index[u], rows[u]) = Mirror(rows[u])
      BY <1>1, <1>2, <2>1, <2>2 DEF Claim
  <2> QED
      BY <1>1, <1>3, <2>2, <2>3
<1>5. touched' = touched \/ (t.lone /\ touched' = touched \ {u})
    BY <1>1
<1> QED
    BY <1>1, <1>3, <1>4, <1>5, EndsIndex

\* After a save has reset the row, the user is offline.
LEMMA SavedIndex ==
    ASSUME Typed, IndexInv, NEW t \in threads, Upsert(t) \/ Deactivate(t)
    PROVE  IndexInv'
<1> DEFINE u == t.user
<1>1. /\ UNCHANGED <<index, touched>> /\ t.at \in {"upsert", "deactivate"}
      /\ \E s \in {"deactivate", "first"} : Goto(t, s)
    BY DEF Upsert, Deactivate, auxVars
<1>2. t \in Kinds /\ t.op \in Saves /\ u \in Users /\ t.row \in Rows
    BY <1>1, ThreadIs DEF Typed, Saves
<1>3. \E row \in Rows : rows' = [rows EXCEPT ![u] = Reset(row)]
  <2>1. rows[u] \in Rows /\ [t.row EXCEPT !.tier = rows[u].tier] \in Rows
      BY <1>2 DEF Typed, Rows
  <2> QED
      BY <1>2, <2>1 DEF Upsert, Deactivate
<1>4. ~rows'[u].online /\ \A v \in Users \ {u} : rows'[v] = rows[v]
    BY <1>2, <1>3, ResetIs DEF Typed
<1>5. PICK s \in {"deactivate", "first"} : Goto(t, s)
    BY <1>1
<1>6. \A x : x.op = t.op /\ x.at = s => Claim(x, u)'
    BY <1>2, <1>4, <1>5 DEF Claim, Saves
<1> QED
    BY <1>1, <1>2, <1>4, <1>5, <1>6, GoesOnIndex DEF Saves

LEMMA RemovePackIndex ==
    ASSUME Typed, IndexInv, NEW t \in threads, RemovePack(t)
    PROVE  IndexInv'
<1> DEFINE u == t.user
<1>1. /\ t.op \in Saves /\ t.at = "first" /\ UNCHANGED <<rows, touched>> /\ Goto(t, "second")
      /\ index' = [index EXCEPT ![u] = PackRemove(index[u])]
    BY DEF RemovePack, auxVars
<1>2. u \in Users /\ (u \notin touched \/ t.lone => Claim(t, u))
    BY <1>1, HandlerOf DEF Saves
<1>3. /\ index'[u] = PackRemove(index[u]) /\ index[u] \in Entries
      /\ \A v \in Users \ {u} : index'[v] = index[v]
    BY <1>1, <1>2 DEF Typed
<1>4. index'[u].prices = NoPrices /\ index'[u].tier = NoTier
    BY <1>3, EntryIs
<1>5. ASSUME u \notin touched \/ t.lone
      PROVE  \A x : x.op = t.op /\ x.at = "second" /\ x.row = t.row => Claim(x, u)'
  <2>1. ~rows[u].online
      BY <1>1, <1>2, <1>5 DEF Claim, Saves
  <2> QED
      BY <1>1, <1>4, <2>1 DEF Claim, Saves
<1> QED
    BY <1>1, <1>3, <1>5, GoesOnIndex DEF Saves

LEMMA RemoveCodeIndex ==
    ASSUME Typed, IndexInv, NEW t \in threads, RemoveCode(t)
    PROVE  IndexInv'
<1> DEFINE u == t.user
<1>1. /\ t.op \in Saves /\ t.at = "second" /\ UNCHANGED rows /\ Goto(t, "leave")
      /\ index' = [index EXCEPT ![u] = CodeRemove(index[u])]
      /\ touched' = IF t.lone THEN touched \ {u} ELSE touched
    BY DEF RemoveCode
<1>2. u \in Users /\ (u \notin touched \/ t.lone => Claim(t, u))
    BY <1>1, HandlerOf DEF Saves
<1>3. /\ index'[u] = CodeRemove(index[u]) /\ index[u] \in Entries
      /\ \A v \in Users \ {u} : index'[v] = index[v]
    BY <1>1, <1>2 DEF Typed
<1>4. ASSUME u \notin touched \/ t.lone
      PROVE  \A x : x.op = t.op /\ x.at = "leave" /\ x.row = t.row => Claim(x, u)'
  <2>1. ~rows[u].online /\ index[u].prices = NoPrices /\ index[u].tier = NoTier
      BY <1>1, <1>2, <1>4 DEF Claim, Saves
  <2>2. index'[u] = NoEntry
      BY <1>3, <2>1, EntryIs
  <2> QED
      BY <1>1, <2>1, <2>2 DEF Claim, Saves
<1> QED
    BY <1>1, <1>3, <1>4, GoesOnIndex DEF Saves

LEMMA LeaveFormIndex ==
    ASSUME Typed, IndexInv, NEW t \in threads, LeaveForm(t)
    PROVE  IndexInv'
<1> DEFINE u == t.user
<1>1. t.at = "leave" /\ UNCHANGED <<rows, index, touched>> /\ End(t)
    BY DEF LeaveForm, auxVars
<1>2. t \in Kinds /\ t.op \in Saves
    BY <1>1, ThreadIs DEF Typed
<1>3. u \in Users /\ (u \notin touched \/ t.lone => Claim(t, u))
    BY <1>2, HandlerOf DEF Saves
<1>4. u \notin touched => index[u] = NoEntry /\ ~rows[u].online /\ rows[u] \in Rows
    BY <1>1, <1>2, <1>3 DEF Claim, Saves, Typed
<1>5. u \notin touched' => index'[u] = Mirror(rows'[u])
    BY <1>1, <1>4, OfflineMirror
<1> QED
    BY <1>1, <1>2, <1>5, EndsIndex DEF Saves
----------------------------------------------------------------------------
(* The switch writes every user.                                            *)

LEMMA SwitchIs ==
    ASSUME Typed, IndexInv, NEW t \in threads, t.op = "disable", NEW u \in Users
    PROVE  t \in Kinds /\ t \in Writers(u) /\ UserInv(u) /\ (u \notin touched \/ t.lone => Claim(t, u))
<1>1. t \in Kinds /\ t.user = Everyone
    BY ThreadIs DEF Typed
<1>2. t \in Writers(u)
    BY <1>1 DEF Writers
<1> QED
    BY <1>1, <1>2 DEF IndexInv, UserInv, Staged

LEMMA SwitchGoesOn ==
    ASSUME Typed, IndexInv, NEW t \in threads, t.op = "disable", NEW s, Goto(t, s), UNCHANGED touched,
           \A u \in Users : u \notin touched \/ t.lone =>
              \A x : x.op = t.op /\ x.at = s => Claim(x, u)'
    PROVE  IndexInv'
<1> SUFFICES ASSUME NEW u \in Users PROVE UserInv(u)'
    BY DEF IndexInv, UserInv
<1>1. t \in Kinds /\ t \in Writers(u) /\ UserInv(u)
    BY SwitchIs
<1>2. PICK x : /\ threads' = (threads \ {t}) \cup {x} /\ x.at = s
               /\ x.op = t.op /\ x.user = t.user /\ x.row = t.row /\ x.lone = t.lone
    BY <1>1, GotoIs
<1>3. u \notin touched' \/ t.lone => Claim(x, u)'
    BY <1>2
<1> QED
    BY <1>1, <1>2, <1>3, Passing

LEMMA AllOfflineIndex ==
    ASSUME Typed, IndexInv, NEW t \in threads, AllOffline(t)
    PROVE  IndexInv'
<1>1. t.op = "disable" /\ t.at = "flip" /\ UNCHANGED touched /\ Goto(t, "first")
    BY DEF AllOffline, auxVars
<1>2. \A u \in Users : ~rows'[u].online
    BY DEF AllOffline, Typed, Rows
<1>3. \A u \in Users : \A x : x.op = t.op /\ x.at = "first" => Claim(x, u)'
    BY <1>1, <1>2 DEF Claim
<1> QED
    BY <1>1, <1>3, SwitchGoesOn

LEMMA ClearPackIndex ==
    ASSUME Typed, IndexInv, NEW t \in threads, ClearPack(t)
    PROVE  IndexInv'
<1>1. t.op = "disable" /\ t.at = "first" /\ UNCHANGED <<rows, touched>> /\ Goto(t, "second")
    BY DEF ClearPack, auxVars
<1>2. ASSUME NEW u \in Users
      PROVE  index'[u].prices = NoPrices /\ index'[u].tier = NoTier
  <2>1. index'[u] = PackRemove(index[u]) /\ index[u] \in Entries
      BY DEF ClearPack, Typed
  <2> QED
      BY <2>1, EntryIs
<1>3. ASSUME NEW u \in Users, u \notin touched \/ t.lone
      PROVE  \A x : x.op = t.op /\ x.at = "second" => Claim(x, u)'
  <2>1. Claim(t, u)
      BY <1>1, <1>3, SwitchIs
  <2>2. ~rows[u].online
      BY <1>1, <2>1 DEF Claim
  <2> QED
      BY <1>1, <1>2, <2>2 DEF Claim
<1> QED
    BY <1>1, <1>3, SwitchGoesOn

LEMMA ClearCodeIndex ==
    ASSUME Typed, IndexInv, NEW t \in threads, ClearCode(t)
    PROVE  IndexInv'
<1>1. /\ t.op = "disable" /\ t.at = "second" /\ UNCHANGED rows /\ End(t)
      /\ touched' = IF t.lone THEN {} ELSE touched
    BY DEF ClearCode
<1> SUFFICES ASSUME NEW u \in Users PROVE UserInv(u)'
    BY DEF IndexInv, UserInv
<1>2. t \in Writers(u) /\ UserInv(u) /\ (u \notin touched \/ t.lone => Claim(t, u))
    BY <1>1, SwitchIs
<1>3. u \notin touched' => u \notin touched \/ t.lone
    BY <1>1
<1>4. ASSUME u \notin touched' PROVE index'[u] = Mirror(rows'[u])
  <2>1. Claim(t, u)
      BY <1>2, <1>3, <1>4
  <2>2. ~rows[u].online /\ index[u].prices = NoPrices /\ index[u].tier = NoTier
      BY <1>1, <2>1 DEF Claim
  <2>3. index'[u] = CodeRemove(index[u]) /\ index[u] \in Entries /\ rows[u] \in Rows
      BY DEF ClearCode, Typed
  <2>4. index'[u] = NoEntry
      BY <2>2, <2>3, EntryIs
  <2> QED
      BY <1>1, <2>2, <2>3, <2>4, OfflineMirror
<1> QED
    BY <1>1, <1>2, <1>3, <1>4, Ending

LEMMA ThreadIndex ==
    ASSUME Typed, IndexInv, NEW t \in threads, ThreadStep(t)
    PROVE  IndexInv'
<1>1. CASE CommitTake(t)
  <2>1. UNCHANGED <<rows, index, touched>> /\ t.op = "take" /\ End(t)
      BY <1>1, ThreadIs DEF CommitTake, auxVars, Typed
  <2>2. \A x : x.op # "take" => (x \in threads' <=> x \in threads)
      BY <2>1 DEF End
  <2> QED
      BY <2>1, <2>2, Quiet
<1> QED
    BY <1>1, FlipIndex, FirstScriptIndex, SecondScriptIndex, SavedIndex, RemovePackIndex,
       RemoveCodeIndex, LeaveFormIndex, AllOfflineIndex, ClearPackIndex, ClearCodeIndex
       DEF ThreadStep

\* The row after somebody else's write of it: as online as before.
LEMMA WrittenByOthers ==
    ASSUME Typed, Typed', NEW w \in Users,
           \/ \E codes, tier : Approve(w, codes, tier)
           \/ \E prices : SetPrices(w, prices)
           \/ Ban(w)
    PROVE  /\ Disturb(w) /\ rows' \in [Users -> Rows]
           /\ rows'[w].online = rows[w].online
           /\ \A v \in Users \ {w} : rows'[v] = rows[v]
<1>1. ASSUME NEW codes, NEW tier, Approve(w, codes, tier)
      PROVE  rows'[w].online = rows[w].online /\ \A v \in Users \ {w} : rows'[v] = rows[v]
  <2>1. rows[w] \in Rows /\ rows \in [Users -> Rows]
      BY DEF Typed
  <2>2. \A v \in Users \ {w} : rows'[v] = rows[v]
      BY <1>1, <2>1 DEF Approve
  <2>3. rows'[w].online = rows[w].online
      BY <1>1, <2>1 DEF Approve, Rows
  <2> QED
      BY <2>2, <2>3
<1>2. ASSUME (\E prices : SetPrices(w, prices)) \/ Ban(w)
      PROVE  rows'[w].online = rows[w].online /\ \A v \in Users \ {w} : rows'[v] = rows[v]
  <2>1. rows[w] \in Rows /\ rows \in [Users -> Rows]
      BY DEF Typed
  <2> QED
      BY <1>2, <2>1 DEF SetPrices, Ban, Rows
<1>3. Disturb(w) /\ rows' \in [Users -> Rows]
    BY DEF Approve, SetPrices, Ban, Typed
<1> QED
    BY <1>1, <1>2, <1>3

LEMMA IndexStep ==
    ASSUME Typed, Typed', IndexInv, [Next]_vars
    PROVE  IndexInv'
<1>1. ASSUME NEW u \in Users,
             \/ Dialogue(u) \/ EndDialogue(u) \/ Finish(u)
             \/ PressReady(u) \/ Pass(u) \/ CloseChat(u)
      PROVE  IndexInv'
    BY <1>1, Quiet DEF Dialogue, EndDialogue, Finish, PressReady, Pass, CloseChat, auxVars
<1>2. ASSUME NEW u \in Users, PressToggle(u) PROVE IndexInv'
    BY <1>2, StartIndex DEF PressToggle
<1>3. ASSUME NEW u \in Users, SaveEdit(u) PROVE IndexInv'
    BY <1>3, StartIndex DEF SaveEdit
<1>4. ASSUME NEW u \in Users, NEW h \in Hours, FinishRegistration(u, h) PROVE IndexInv'
    BY <1>4, StartIndex DEF FinishRegistration
<1>5. ASSUME NEW u \in Users, NEW o \in Orders, PressTake(u, o) PROVE IndexInv'
  <2>1. threads' = threads \cup {Thread("take", u, "commit", rows[u], o, TRUE)}
      BY <1>5 DEF PressTake
  <2>2. \A x : x.op # "take" => (x \in threads' <=> x \in threads)
      BY <2>1 DEF Thread
  <2> QED
      BY <1>5, <2>2, Quiet DEF PressTake
<1>6. ASSUME NEW u \in Users, Ban(u) PROVE IndexInv'
    BY <1>6, WrittenByOthers, DisturbIndex
<1>7. ASSUME NEW u \in Users, NEW codes \in BOOLEAN, NEW tier \in Tiers, Approve(u, codes, tier)
      PROVE  IndexInv'
    BY <1>7, WrittenByOthers, DisturbIndex
<1>8. ASSUME NEW u \in Users, NEW prices \in PriceTables, SetPrices(u, prices) PROVE IndexInv'
    BY <1>8, WrittenByOthers, DisturbIndex
<1>9. CASE Disable
    BY <1>9, StartIndex DEF Disable
<1>10. CASE Enable \/ UNCHANGED vars
    BY <1>10, Quiet DEF Enable, vars, auxVars
<1>11. ASSUME NEW t \in threads, ThreadStep(t) PROVE IndexInv'
    BY <1>11, ThreadIndex
<1> QED
    BY <1>1, <1>2, <1>3, <1>4, <1>5, <1>6, <1>7, <1>8, <1>9, <1>10, <1>11 DEF Next

LEMMA InitIndex == Init => IndexInv
<1> SUFFICES ASSUME Init PROVE IndexInv
    OBVIOUS
<1>1. \A u \in Users : Writers(u) = {}
    BY DEF Init, Writers
<1>2. Mirror(NoRow) = NoEntry
    BY DEF Mirror, Eligible, NoRow
<1>3. \A u \in Users : index[u] = Mirror(rows[u])
    BY <1>2 DEF Init
<1> QED
    BY <1>1, <1>3 DEF IndexInv, Sole, Entered, Staged

LEMMA AlwaysIndexed == Spec => [](Typed /\ IndexInv)
<1>1. Typed /\ Filled /\ IndexInv /\ [Next]_vars => IndexInv'
    BY TypedStep, IndexStep
<1> QED
    BY <1>1, InitIndex, InitTyped, AlwaysTyped, PTL DEF Spec

\* The online index mirrors the rows of all users on whom no two handlers met: a toggle, a
\* save or the switch that runs alone makes up for whatever others left wrong.
THEOREM IndexIsRight == Spec => []IndexFollowsRows
<1>1. IndexInv => IndexFollowsRows
    BY DEF IndexInv, Entered, IndexFollowsRows, Settled
<1> QED
    BY <1>1, AlwaysIndexed, PTL
----------------------------------------------------------------------------
(* The pure operators the ranking is built from.                            *)

\* The split of an amount loses nothing, whatever the amount.
THEOREM SplitLosesNothing ==
    ASSUME NEW amount \in Int, Decomposes(amount)
    PROVE  /\ \A i \in 1..6 : Count(amount, i) \in Nat
           /\ amount = Count(amount, 1) * 8100 + Count(amount, 2) * 3850 + Count(amount, 3) * 1800
                         + Count(amount, 4) * 660 + Count(amount, 5) * 325 + Count(amount, 6) * 60
<1> DEFINE r1 == amount % 8100
           r2 == r1 % 3850
           r3 == r2 % 1800
           r4 == r3 % 660
           r5 == r4 % 325
<1>1. /\ r1 \in Nat /\ r2 \in Nat /\ r3 \in Nat /\ r4 \in Nat /\ r5 \in Nat
      /\ amount \in Nat /\ r5 % 60 = 0
    BY DEF Decomposes, Rests
<1>2. /\ Count(amount, 1) = amount \div 8100 /\ Count(amount, 2) = r1 \div 3850
      /\ Count(amount, 3) = r2 \div 1800 /\ Count(amount, 4) = r3 \div 660
      /\ Count(amount, 5) = r4 \div 325 /\ Count(amount, 6) = r5 \div 60
    BY DEF Count, Rests, DescSizes
<1>3. amount = (amount \div 8100) * 8100 + r1
    BY <1>1
<1>4. r1 = (r1 \div 3850) * 3850 + r2 /\ r2 = (r2 \div 1800) * 1800 + r3
    BY <1>1
<1>5. r3 = (r3 \div 660) * 660 + r4 /\ r4 = (r4 \div 325) * 325 + r5
    BY <1>1
<1>6. r5 = (r5 \div 60) * 60
    BY <1>1
<1>7. /\ Count(amount, 1) \in Nat /\ Count(amount, 2) \in Nat /\ Count(amount, 3) \in Nat
      /\ Count(amount, 4) \in Nat /\ Count(amount, 5) \in Nat /\ Count(amount, 6) \in Nat
    BY <1>1, <1>2
<1> HIDE DEF r1, r2, r3, r4, r5
<1>8. amount = Count(amount, 1) * 8100 + Count(amount, 2) * 3850 + Count(amount, 3) * 1800
                 + Count(amount, 4) * 660 + Count(amount, 5) * 325 + Count(amount, 6) * 60
    BY <1>1, <1>2, <1>3, <1>4, <1>5, <1>6, <1>7
<1> QED
    BY <1>7, <1>8

LEMMA HigherServes ==
    ASSUME NEW codes \in BOOLEAN, NEW S \in SUBSET Int, NEW t \in TierNumbers, NEW q \in TierNumbers,
           t <= q, Allows(codes, t, S)
    PROVE  Allows(codes, q, S)
<1> SUFFICES ASSUME NEW a \in S
             PROVE  LowEnd <= a /\ ((~codes /\ q = 2) \/ a <= HighEnd(codes)[q + 1])
    BY DEF Allows
<1>1. LowEnd <= a /\ ((~codes /\ t = 2) \/ a <= HighEnd(codes)[t + 1])
    BY DEF Allows
<1>2. CASE codes
    BY <1>1, <1>2 DEF HighEnd, TierNumbers
<1>3. CASE ~codes
    BY <1>1, <1>3 DEF HighEnd, TierNumbers
<1> QED
    BY <1>2, <1>3

\* The least of the tiers that serve an order.
LEMMA LeastTier ==
    ASSUME NEW T \in SUBSET (0..2), T # {}, NEW r, r = CHOOSE q \in T : \A s \in T : q <= s
    PROVE  r \in T /\ \A s \in T : r <= s
<1>1. \E q \in T : \A s \in T : q <= s
  <2>1. CASE 0 \in T
    <3>1. \A s \in T : 0 <= s
        OBVIOUS
    <3> QED
        BY <2>1, <3>1
  <2>2. CASE 0 \notin T /\ 1 \in T
    <3>1. \A s \in T : 1 <= s
        BY <2>2
    <3> QED
        BY <2>2, <3>1
  <2>3. CASE 0 \notin T /\ 1 \notin T
    <3>1. \A s \in T : s = 2
        BY <2>3
    <3>2. 2 \in T
        BY <3>1
    <3>3. \A s \in T : 2 <= s
        BY <3>1
    <3> QED
        BY <3>2, <3>3
  <2> QED
      BY <2>1, <2>2, <2>3
<1> QED
    BY <1>1

\* What the ranking asks for, the required tier, decides as take does, which asks for the
\* user's own tier: who has that tier or a higher one, and nobody else, may serve the order.
THEOREM RequiredDecides ==
    ASSUME NEW codes \in BOOLEAN, NEW S \in SUBSET Int
    PROVE  /\ Required(codes, S) \in 0..3
           /\ \A t \in TierNumbers : Allows(codes, t, S) <=> Required(codes, S) <= t
<1> DEFINE T == Serving(codes, S)
           r == Required(codes, S)
<1>1. T \in SUBSET (0..2) /\ \A t \in TierNumbers : t \in T <=> Allows(codes, t, S)
    BY DEF Serving, TierNumbers
<1>2. CASE T = {}
  <2>1. r = 3
      BY <1>2 DEF Required, NoTier
  <2> QED
      BY <1>1, <1>2, <2>1 DEF TierNumbers
<1>3. CASE T # {}
  <2>1. r = CHOOSE q \in T : \A s \in T : q <= s
      BY <1>3 DEF Required
  <2> HIDE DEF T, r
  <2>2. r \in T /\ \A s \in T : r <= s
      BY <1>1, <1>3, <2>1, LeastTier
  <2>3. r \in TierNumbers /\ Allows(codes, r, S)
      BY <1>1, <2>2 DEF TierNumbers
  <2>4. \A t \in TierNumbers : r <= t => Allows(codes, t, S)
      BY <2>3, HigherServes
  <2>5. r \in 0..3
      BY <1>1, <2>2
  <2>6. \A t \in TierNumbers : Allows(codes, t, S) => r <= t
      BY <1>1, <2>2
  <2> QED
      BY <2>4, <2>5, <2>6 DEF r
<1> QED
    BY <1>2, <1>3
----------------------------------------------------------------------------
(* The sort key.                                                            *)

Rating == [speed : {{}} \cup {{x} : x \in Int}, complete : Nat, failed : Nat]

LEMMA FasterIs ==
    ASSUME NEW a \in Rating, NEW b \in Rating, NEW c \in Rating
    PROVE  /\ ~(Faster(a, b) /\ Faster(b, a))
           /\ Faster(a, b) /\ Faster(b, c) => Faster(a, c)
           /\ ~Faster(b, a) /\ ~Faster(c, b) => ~Faster(c, a)
    BY DEF Faster, Rating

\* Fractions are compared by cross multiplication.
LEMMA CrossIs ==
    ASSUME NEW p \in Nat, NEW q \in Nat, NEW r \in Nat,
           NEW x \in Nat \ {0}, NEW y \in Nat \ {0}, NEW z \in Nat \ {0}
    PROVE  /\ p * y < q * x /\ q * z < r * y => p * z < r * x
           /\ p * y <= q * x /\ q * z <= r * y => p * z <= r * x
<1>1. ASSUME p * y < q * x, q * z < r * y PROVE p * z < r * x
  <2>1. (p * y) * z < (q * x) * z /\ (q * z) * x < (r * y) * x
      BY <1>1
  <2>2. (p * z) * y < (r * x) * y
      BY <2>1
  <2> QED
      BY <2>2
<1>2. ASSUME p * y <= q * x, q * z <= r * y PROVE p * z <= r * x
  <2>1. (p * y) * z <= (q * x) * z /\ (q * z) * x <= (r * y) * x
      BY <1>2
  <2>2. (p * z) * y <= (r * x) * y
      BY <2>1
  <2> QED
      BY <2>2
<1> QED
    BY <1>1, <1>2

LEMMA SurerIs ==
    ASSUME NEW a \in Rating, NEW b \in Rating, NEW c \in Rating
    PROVE  /\ ~(Surer(a, b) /\ Surer(b, a))
           /\ Surer(a, b) /\ Surer(b, c) => Surer(a, c)
           /\ ~Surer(b, a) /\ ~Surer(c, b) => ~Surer(c, a)
<1>1. \A d \in Rating : Failures(d)[1] \in Nat /\ Failures(d)[2] \in Nat \ {0}
    BY DEF Failures, Rating
<1> DEFINE p == Failures(a)[1]  x == Failures(a)[2]
           q == Failures(b)[1]  y == Failures(b)[2]
           r == Failures(c)[1]  z == Failures(c)[2]
<1>2. p \in Nat /\ q \in Nat /\ r \in Nat /\ x \in Nat \ {0} /\ y \in Nat \ {0} /\ z \in Nat \ {0}
    BY <1>1
<1>3. /\ Surer(a, b) <=> p * y < q * x
      /\ Surer(b, a) <=> q * x < p * y
      /\ Surer(b, c) <=> q * z < r * y
      /\ Surer(c, b) <=> r * y < q * z
      /\ Surer(a, c) <=> p * z < r * x
      /\ Surer(c, a) <=> r * x < p * z
    BY DEF Surer
<1> HIDE DEF p, q, r, x, y, z
<1>4. /\ p * y < q * x /\ q * z < r * y => p * z < r * x
      /\ p * y <= q * x /\ q * z <= r * y => p * z <= r * x
    BY <1>2, CrossIs
<1>5. p * y \in Nat /\ q * x \in Nat /\ q * z \in Nat /\ r * y \in Nat /\ p * z \in Nat /\ r * x \in Nat
    BY <1>2
<1> QED
    BY <1>3, <1>4, <1>5

\* One key after the other.
LEMMA BeforeIs ==
    ASSUME NEW u, NEW v, NEW rating, NEW price
    PROVE  Before(u, v, rating, price) <=>
              \/ Faster(rating[u], rating[v])
              \/ /\ ~Faster(rating[v], rating[u])
                 /\ \/ Surer(rating[u], rating[v])
                    \/ /\ ~Surer(rating[v], rating[u])
                       /\ \/ rating[u].complete > rating[v].complete
                          \/ /\ ~(rating[v].complete > rating[u].complete)
                             /\ \/ price[u] < price[v]
                                \/ ~(price[v] < price[u]) /\ u < v
<1> DEFINE a == rating[u]
           b == rating[v]
           keys == << <<Faster(a, b), Faster(b, a)>>, <<Surer(a, b), Surer(b, a)>>,
                      <<a.complete > b.complete, b.complete > a.complete>>,
                      <<price[u] < price[v], price[v] < price[u]>>, <<u < v, v < u>> >>
<1>1. Before(u, v, rating, price) <=> \E i \in 1..5 : keys[i][1] /\ \A j \in 1..(i - 1) : ~keys[j][2]
    BY DEF Before
<1>2. /\ (keys[1][1] <=> Faster(a, b)) /\ (keys[1][2] <=> Faster(b, a))
      /\ (keys[2][1] <=> Surer(a, b)) /\ (keys[2][2] <=> Surer(b, a))
      /\ (keys[3][1] <=> a.complete > b.complete) /\ (keys[3][2] <=> b.complete > a.complete)
      /\ (keys[4][1] <=> price[u] < price[v]) /\ (keys[4][2] <=> price[v] < price[u])
      /\ (keys[5][1] <=> u < v)
    OBVIOUS
<1> HIDE DEF keys
<1>3. /\ \A j \in 1..(1 - 1) : FALSE
      /\ \A j \in 1..(2 - 1) : j = 1
      /\ \A j \in 1..(3 - 1) : j \in {1, 2}
      /\ \A j \in 1..(4 - 1) : j \in {1, 2, 3}
      /\ \A j \in 1..(5 - 1) : j \in {1, 2, 3, 4}
      /\ 1 \in 1..(2 - 1) /\ 1 \in 1..(3 - 1) /\ 1 \in 1..(4 - 1) /\ 1 \in 1..(5 - 1)
      /\ 2 \in 1..(3 - 1) /\ 2 \in 1..(4 - 1) /\ 2 \in 1..(5 - 1)
      /\ 3 \in 1..(4 - 1) /\ 3 \in 1..(5 - 1) /\ 4 \in 1..(5 - 1)
    OBVIOUS
<1>4. (\E i \in 1..5 : keys[i][1] /\ \A j \in 1..(i - 1) : ~keys[j][2]) <=>
         \/ keys[1][1]
         \/ keys[2][1] /\ ~keys[1][2]
         \/ keys[3][1] /\ ~keys[1][2] /\ ~keys[2][2]
         \/ keys[4][1] /\ ~keys[1][2] /\ ~keys[2][2] /\ ~keys[3][2]
         \/ keys[5][1] /\ ~keys[1][2] /\ ~keys[2][2] /\ ~keys[3][2] /\ ~keys[4][2]
  <2>1. 1..5 = {1, 2, 3, 4, 5}
      OBVIOUS
  <2> QED
      BY <1>3, <2>1
<1> QED
    BY <1>1, <1>2, <1>4

\* The keys order any candidates strictly and totally, missing ratings included: whom an
\* order is offered to first is determined.
THEOREM RankingOrders ==
    ASSUME NEW Ids \in SUBSET Int, NEW rating \in [Ids -> Rating], NEW price \in [Ids -> Int]
    PROVE  /\ \A u, v \in Ids : u # v =>
                (Before(u, v, rating, price) <=> ~Before(v, u, rating, price))
           /\ \A u, v, w \in Ids :
                Before(u, v, rating, price) /\ Before(v, w, rating, price) => Before(u, w, rating, price)
           /\ \A u \in Ids : ~Before(u, u, rating, price)
<1>1. \A d \in Ids : rating[d] \in Rating /\ rating[d].complete \in Nat /\ price[d] \in Int /\ d \in Int
    BY DEF Rating
<1> SUFFICES ASSUME NEW u \in Ids, NEW v \in Ids, NEW w \in Ids
             PROVE  /\ u # v => (Before(u, v, rating, price) <=> ~Before(v, u, rating, price))
                    /\ Before(u, v, rating, price) /\ Before(v, w, rating, price)
                          => Before(u, w, rating, price)
                    /\ ~Before(u, u, rating, price)
    OBVIOUS
<1>2. ASSUME NEW d \in Ids, NEW e \in Ids
      PROVE  /\ ~(Faster(rating[d], rating[e]) /\ Faster(rating[e], rating[d]))
             /\ ~(Surer(rating[d], rating[e]) /\ Surer(rating[e], rating[d]))
    BY <1>1, FasterIs, SurerIs
<1>3. /\ u # v => (Before(u, v, rating, price) <=> ~Before(v, u, rating, price))
      /\ ~Before(u, u, rating, price)
  <2>1. ~Faster(rating[u], rating[u]) /\ ~Surer(rating[u], rating[u])
      BY <1>2
  <2>2. ~Before(u, u, rating, price)
    <3>1. ~(rating[u].complete > rating[u].complete) /\ ~(price[u] < price[u]) /\ ~(u < u)
        BY <1>1
    <3> QED
        BY <2>1, <3>1, BeforeIs
  <2> QED
      BY <1>1, <1>2, <2>2, BeforeIs
<1>4. ASSUME Before(u, v, rating, price), Before(v, w, rating, price)
      PROVE  Before(u, w, rating, price)
  <2> DEFINE F(d, e) == Faster(rating[d], rating[e])
             S(d, e) == Surer(rating[d], rating[e])
  <2>1. /\ ~(F(u, v) /\ F(v, u)) /\ ~(F(v, w) /\ F(w, v)) /\ ~(F(u, w) /\ F(w, u))
        /\ ~(S(u, v) /\ S(v, u)) /\ ~(S(v, w) /\ S(w, v)) /\ ~(S(u, w) /\ S(w, u))
      BY <1>2
  <2>2. /\ F(u, v) /\ F(v, w) => F(u, w)
        /\ ~F(v, u) /\ ~F(w, v) => ~F(w, u)
        /\ F(u, v) /\ ~F(w, v) => F(u, w)
        /\ ~F(v, u) /\ F(v, w) => F(u, w)
      BY <1>1, FasterIs
  <2>3. /\ S(u, v) /\ S(v, w) => S(u, w)
        /\ ~S(v, u) /\ ~S(w, v) => ~S(w, u)
        /\ S(u, v) /\ ~S(w, v) => S(u, w)
        /\ ~S(v, u) /\ S(v, w) => S(u, w)
      BY <1>1, SurerIs
  <2> QED
      BY <1>1, <1>4, <2>1, <2>2, <2>3, BeforeIs
<1> QED
    BY <1>3, <1>4
----------------------------------------------------------------------------
(* Whom the ranking picks.                                                  *)

\* An order that is split has at least one package.
LEMMA SomePackage ==
    ASSUME NEW amount \in Int, Decomposes(amount)
    PROVE  PackSizes(amount) # {} /\ \A s \in PackSizes(amount) : s \in PackageSizes
<1>1. \E i \in 1..6 : Count(amount, i) > 0
    BY DEF Decomposes, Count, Rests, DescSizes
<1>2. \A i \in 1..6 : DescSizes[i] \in PackageSizes
    BY DEF DescSizes, PackageSizes
<1> QED
    BY <1>1, <1>2 DEF PackSizes

\* The highest tier serves all packages, so there is a required one.
LEMMA RequiredSuffices ==
    ASSUME NEW S \in SUBSET PackageSizes, NEW t \in TierNumbers,
           \/ Required(FALSE, S) \in {DefaultTier, NoTier}
           \/ t >= Required(FALSE, S)
    PROVE  Allows(FALSE, t, S)
<1> DEFINE r == Required(FALSE, S)
<1>1. S \in SUBSET Int /\ \A s \in S : 60 <= s
    BY DEF PackageSizes
<1>2. Allows(FALSE, 2, S) /\ 2 \in TierNumbers
    BY <1>1 DEF Allows, LowEnd, TierNumbers
<1>3. r \in 0..3 /\ r <= 2
    BY <1>1, <1>2, RequiredDecides
<1>4. r \in {0, 3} \/ t >= r
    BY DEF DefaultTier, NoTier
<1>5. t \in 0..2
    BY DEF TierNumbers
<1> HIDE DEF r
<1>6. r <= t
    BY <1>3, <1>4, <1>5
<1> USE DEF r
<1> QED
    BY <1>1, <1>6, RequiredDecides

LEMMA MirrorIs ==
    ASSUME NEW row
    PROVE  /\ Mirror(row).keys # {} =>
                Eligible(row) /\ row.codes /\ Mirror(row).keys = {row.tier}
           /\ DOMAIN Mirror(row).prices # {} =>
                /\ Eligible(row) /\ ~row.codes
                /\ Mirror(row).prices = row.prices /\ Mirror(row).tier = row.tier
<1>1. CASE ~Eligible(row)
    BY <1>1 DEF Mirror, NoEntry, NoPrices
<1>2. CASE Eligible(row) /\ row.codes
    BY <1>2 DEF Mirror, NoEntry, NoPrices
<1>3. CASE Eligible(row) /\ ~row.codes
    BY <1>3 DEF Mirror, NoEntry
<1> QED
    BY <1>1, <1>2, <1>3

\* Whom the ranking picks from the index may take the order, and take agrees: the tiers
\* asked for when candidates are filtered are those that validate_take asks for.
THEOREM RankedMayTake == Spec => []RankedCanTake
<1>1. Typed /\ IndexInv => RankedCanTake
  <2> SUFFICES ASSUME Typed, IndexInv, NEW o \in Orders, NEW u \in Candidates(index, o, {}), Settled(u)
               PROVE  rows[u].online /\ rows[u].codes = o.codes /\ ValidateTake(o, rows[u])
      BY DEF RankedCanTake
  <2>1. DOMAIN index = Users /\ o.codes \in BOOLEAN /\ o.amount \in Int
      BY DeskAssumption DEF Typed
  <2>2. CASE o.codes
    <3>1. u \in Users /\ index[u].keys \cap Serving(TRUE, o.amounts) # {}
        BY <2>1, <2>2 DEF Candidates, CodeCandidates
    <3>2. index[u] = Mirror(rows[u]) /\ rows[u] \in Rows
        BY <3>1 DEF IndexInv, Entered, Settled, Typed
    <3>3. Eligible(rows[u]) /\ rows[u].codes /\ index[u].keys = {rows[u].tier}
        BY <3>1, <3>2, MirrorIs
    <3>4. rows[u].tier \in Serving(TRUE, o.amounts)
        BY <3>1, <3>3
    <3>5. Allows(TRUE, rows[u].tier, o.amounts)
        BY <3>4 DEF Serving
    <3> QED
        BY <2>2, <3>2, <3>3, <3>5 DEF Eligible, ValidateTake, Rows
  <2>3. CASE ~o.codes
    <3> DEFINE S == PackSizes(o.amount)
    <3>1. u \in Priced(index, o.amount) /\ u \in Trusted(index, o.amount)
        BY <2>3 DEF Candidates, PackCandidates, Bucket
    <3>2. u \in Users /\ S \subseteq DOMAIN index[u].prices
        BY <2>1, <3>1 DEF Priced
    <3>3. S # {} /\ S \in SUBSET PackageSizes
        BY <2>1, <2>3, SomePackage, DeskAssumption
    <3>4. index[u] = Mirror(rows[u]) /\ rows[u] \in Rows
        BY <3>2 DEF IndexInv, Entered, Settled, Typed
    <3>5. /\ Eligible(rows[u]) /\ ~rows[u].codes
          /\ index[u].prices = rows[u].prices /\ index[u].tier = rows[u].tier
        BY <3>2, <3>3, <3>4, MirrorIs
    <3>6. Required(FALSE, S) \in {DefaultTier, NoTier} \/ rows[u].tier >= Required(FALSE, S)
      <4>1. \/ Required(FALSE, S) \in {DefaultTier, NoTier}
            \/ index[u].tier >= Required(FALSE, S)
          BY <3>1 DEF Trusted
      <4> QED
          BY <3>5, <4>1
    <3>7. Allows(FALSE, rows[u].tier, S)
        BY <3>3, <3>4, <3>6, RequiredSuffices DEF Rows
    <3> QED
        BY <2>1, <2>3, <3>2, <3>4, <3>5, <3>7 DEF Eligible, ValidateTake, Rows
  <2> QED
      BY <2>1, <2>2, <2>3
<1> QED
    BY <1>1, AlwaysIndexed, PTL
----------------------------------------------------------------------------
(* Switched off.                                                            *)

\* A handler stays what it is, and settles nothing unless it is alone.
LEMMA StaysItself ==
    ASSUME Typed, NEW t \in threads, ThreadStep(t)
    PROVE  /\ enabled' = enabled
           /\ ~t.lone \/ t.op = "take" => touched' = touched
           /\ \A x \in threads' : x \in threads \/ (x.op = t.op /\ x.user = t.user /\ x.lone = t.lone)
           /\ threads \ {t} \subseteq threads'
<1>0. t \in Kinds /\ t = Thread(t.op, t.user, t.at, t.row, t.order, t.lone)
      /\ (t.at = "commit" <=> t.op = "take")
    BY ThreadIs DEF Typed
<1>1. enabled' = enabled /\ (~t.lone \/ t.op = "take" => touched' = touched)
    BY <1>0 DEF ThreadStep, Flip, FirstScript, SecondScript, Upsert, Deactivate, RemovePack, RemoveCode,
           LeaveForm, AllOffline, ClearPack, ClearCode, CommitTake, auxVars, Saves
<1>2. CASE Flip(t)
  <2> DEFINE x == [t EXCEPT !.at = "first", !.row = rows'[t.user]]
  <2>1. threads' = (threads \ {t}) \cup {x}
      BY <1>2 DEF Flip
  <2>2. x.op = t.op /\ x.user = t.user /\ x.lone = t.lone
      BY <1>0 DEF Thread
  <2> HIDE DEF x
  <2> QED
      BY <1>1, <2>1, <2>2
<1>3. ASSUME NEW s, Goto(t, s)
      PROVE  /\ \A x \in threads' : x \in threads \/ (x.op = t.op /\ x.user = t.user /\ x.lone = t.lone)
             /\ threads \ {t} \subseteq threads'
  <2> DEFINE x == [t EXCEPT !.at = s]
  <2>1. threads' = (threads \ {t}) \cup {x}
      BY <1>3 DEF Goto
  <2>2. x.op = t.op /\ x.user = t.user /\ x.lone = t.lone
      BY <1>0 DEF Thread
  <2> HIDE DEF x
  <2> QED
      BY <2>1, <2>2
<1>4. CASE End(t)
    BY <1>1, <1>4 DEF End
<1> QED
    BY <1>1, <1>2, <1>3, <1>4 DEF ThreadStep, FirstScript, SecondScript, Upsert, Deactivate, RemovePack,
                      RemoveCode, LeaveForm, AllOffline, ClearPack, ClearCode, CommitTake

\* What a handler does to others than its user.
LEMMA KeepsToItself ==
    ASSUME Typed, NEW t \in threads, t.op # "disable", ThreadStep(t), NEW v \in Users, v # t.user
    PROVE  rows'[v] = rows[v] /\ (v \in touched => v \in touched')
    BY DEF ThreadStep, Flip, FirstScript, SecondScript, Upsert, Deactivate, RemovePack, RemoveCode,
           LeaveForm, AllOffline, ClearPack, ClearCode, CommitTake, auxVars, Typed

LEMMA ThreadOff ==
    ASSUME Typed, OffInv, NEW t \in threads, ThreadStep(t)
    PROVE  OffInv'
<1>1. /\ enabled' = enabled
      /\ ~t.lone \/ t.op = "take" => touched' = touched
      /\ \A x \in threads' : x \in threads \/ (x.op = t.op /\ x.user = t.user /\ x.lone = t.lone)
      /\ threads \ {t} \subseteq threads'
    BY StaysItself
<1>2. t \in Kinds /\ (t.at = "commit" <=> t.op = "take")
      /\ (t.at \in {"upsert", "deactivate", "leave"} => t.op \in Saves)
      /\ (t.user \in Users <=> t.op # "disable")
    BY ThreadIs DEF Typed
<1>3. CASE enabled
    BY <1>1, <1>3 DEF OffInv
<1>4. \A x \in threads' : Theirs(x) => (x \in threads \/ (Theirs(t) /\ x.op = t.op /\ x.lone = t.lone))
    BY <1>1 DEF Theirs
<1>5. CASE Doubted
  <2>1. \A x \in threads' : Theirs(x) => ~x.lone
      BY <1>4, <1>5 DEF Doubted
  <2>2. Barred \subseteq touched'
    <3>1. CASE Theirs(t) \/ t.op = "take"
        BY <1>1, <1>5, <3>1 DEF Doubted
    <3>2. CASE ~Theirs(t) /\ t.op # "take"
      <4>1. t.user \in Admins /\ t.op # "disable"
          BY <1>2, <3>2, DeskAssumption DEF Theirs
      <4> QED
          BY <1>5, <4>1, KeepsToItself DEF Doubted, Barred
    <3> QED
        BY <3>1, <3>2
  <2> QED
      BY <2>1, <2>2 DEF OffInv, Doubted
<1>6. CASE Emptied
  <2>1. \A x \in threads' : Theirs(x) => x.op = "disable"
      BY <1>4, <1>6 DEF Emptied
  <2>2. CASE AllOffline(t)
    <3>1. \A u \in Users : rows'[u].online = FALSE
        BY <2>2 DEF AllOffline, Typed, Rows
    <3> QED
        BY <2>1, <3>1 DEF OffInv, Emptied, Offline, Barred
  <2>3. CASE ~AllOffline(t)
    <3>1. \A u \in Barred : rows'[u] = rows[u]
      <4>1. CASE t.op = "disable"
          BY <1>2, <2>3, <4>1
             DEF ThreadStep, Flip, FirstScript, SecondScript, Upsert, Deactivate, RemovePack,
                 RemoveCode, LeaveForm, ClearPack, ClearCode, CommitTake, Barred, Saves
      <4>2. CASE t.op = "take"
          BY <1>2, <4>2
             DEF ThreadStep, Flip, FirstScript, SecondScript, Upsert, Deactivate, RemovePack,
                 RemoveCode, LeaveForm, AllOffline, ClearPack, ClearCode, CommitTake, Barred, Saves
      <4>3. CASE t.op \notin {"take", "disable"}
        <5>1. t.user \in Admins
            BY <1>6, <4>3 DEF Emptied, Theirs
        <5> QED
            BY <4>3, <5>1, KeepsToItself DEF Barred
      <4> QED
          BY <4>1, <4>2, <4>3
    <3>2. t.op = "disable" => t.at # "flip"
        BY <1>2, <2>3
           DEF ThreadStep, Flip, FirstScript, SecondScript, Upsert, Deactivate, RemovePack,
               RemoveCode, LeaveForm, ClearPack, ClearCode, CommitTake, Saves
    <3>3. \/ Offline'
          \/ \E d \in threads' : d.op = "disable" /\ d.at = "flip"
      <4>1. CASE Offline
          BY <3>1, <4>1 DEF Offline
      <4>2. ASSUME NEW d \in threads, d.op = "disable", d.at = "flip"
            PROVE  d \in threads'
          BY <1>1, <3>2, <4>2
      <4> QED
          BY <1>6, <4>1, <4>2 DEF Emptied
    <3> QED
        BY <2>1, <3>3 DEF OffInv, Emptied
  <2> QED
      BY <2>2, <2>3
<1> QED
    BY <1>3, <1>5, <1>6 DEF OffInv

\* Others write a row, or an administrator's handler begins: some handlers are no longer
\* alone, none of the barred users' is new.
LEMMA OthersOff ==
    ASSUME Typed, OffInv, UNCHANGED enabled, NEW w,
           \A t \in threads : Pushed(t, w) \in threads',
           \A x \in threads' : Theirs(x) => \E t \in threads : x = Pushed(t, w),
           touched \subseteq touched',
           \A v \in Barred : rows'[v].online = rows[v].online
    PROVE  OffInv'
<1>1. /\ \A t \in threads : /\ Pushed(t, w).op = t.op /\ Pushed(t, w).at = t.at
                            /\ Pushed(t, w).user = t.user
                            /\ Pushed(t, w).lone => t.lone
      /\ \A x \in threads' : Theirs(x) =>
            \E t \in threads : x.op = t.op /\ x.user = t.user /\ (x.lone => t.lone)
    BY PushedIs DEF Typed
<1>2. CASE enabled
    BY <1>2 DEF OffInv
<1>3. CASE Doubted
  <2>1. \A x \in threads' : Theirs(x) => ~x.lone
      BY <1>1, <1>3 DEF Doubted, Theirs
  <2> QED
      BY <1>3, <2>1 DEF Doubted, OffInv
<1>4. CASE Emptied
  <2>1. \A x \in threads' : Theirs(x) => x.op = "disable"
      BY <1>1, <1>4 DEF Emptied, Theirs
  <2>2. Offline' \/ \E d \in threads' : d.op = "disable" /\ d.at = "flip"
      BY <1>1, <1>4 DEF Emptied, Offline
  <2> QED
      BY <2>1, <2>2 DEF Emptied, OffInv
<1> QED
    BY <1>2, <1>3, <1>4 DEF OffInv

LEMMA StartOff ==
    ASSUME Typed, OffInv, UNCHANGED <<enabled, rows>>, NEW u \in Users, u \in Admins \/ enabled,
           NEW op, NEW at, NEW row, Start(op, u, at, row)
    PROVE  OffInv'
<1>1. CASE enabled
    BY <1>1 DEF OffInv
<1>2. CASE u \in Admins
  <2> DEFINE alone == \A t \in threads : ~Meets(t, u)
             new == Thread(op, u, at, row, NoOrder, alone)
  <2>1. threads' = {Pushed(t, u) : t \in threads} \cup {new} /\ touched \subseteq touched'
      BY JostledPushed DEF Start
  <2>2. new.user = u
      BY DEF Thread
  <2> HIDE DEF new
  <2>3. \A x \in threads' : Theirs(x) => \E t \in threads : x = Pushed(t, u)
      BY <1>2, <2>1, <2>2 DEF Theirs
  <2>4. \A t \in threads : Pushed(t, u) \in threads'
      BY <2>1
  <2> QED
      BY <2>1, <2>3, <2>4, OthersOff DEF Barred
<1> QED
    BY <1>1, <1>2

LEMMA DisableOff ==
    ASSUME Typed, Disable
    PROVE  OffInv'
<1> DEFINE alone == \A t \in threads : ~Meets(t, Everyone)
           new == Thread("disable", Everyone, "flip", NoRow, NoOrder, alone)
<1>1. /\ threads' = {Pushed(t, Everyone) : t \in threads} \cup {new}
      /\ touched' = IF alone THEN touched ELSE touched \cup Users
    BY JostledPushed DEF Disable, Start, Scope
<1>2. \A t \in threads : Meets(t, Everyone) <=> t.op # "take"
    BY DEF Meets
<1>3. /\ \A t \in threads : Pushed(t, Everyone).op = t.op
      /\ \A t \in threads : Meets(t, Everyone) => ~Pushed(t, Everyone).lone
    BY PushedIs DEF Typed
<1>4. new.op = "disable" /\ new.at = "flip" /\ new.lone = alone
    BY DEF Thread
<1> HIDE DEF new
<1>5. CASE alone
  <2>1. \A x \in threads' : Theirs(x) => x.op = "disable"
      BY <1>1, <1>2, <1>3, <1>4, <1>5 DEF Theirs
  <2> QED
      BY <1>1, <1>4, <2>1 DEF OffInv, Emptied
<1>6. CASE ~alone
  <2>1. Barred \subseteq touched'
      BY <1>1, <1>6 DEF Barred
  <2>2. \A x \in threads' : Theirs(x) => ~x.lone
      BY <1>1, <1>2, <1>3, <1>4, <1>6 DEF Theirs
  <2> QED
      BY <2>1, <2>2 DEF OffInv, Doubted
<1> QED
    BY <1>5, <1>6

LEMMA OffStep ==
    ASSUME Typed, Typed', OffInv, [Next]_vars
    PROVE  OffInv'
<1>1. ASSUME UNCHANGED <<enabled, rows, threads, touched>> PROVE OffInv'
    BY <1>1 DEF OffInv, Doubted, Emptied, Offline
<1>2. ASSUME NEW u \in Users,
             \/ PressToggle(u) \/ SaveEdit(u)
             \/ \E h \in Hours : FinishRegistration(u, h)
      PROVE  OffInv'
  <2>1. (u \in Admins \/ enabled) /\ UNCHANGED <<enabled, rows>>
      BY <1>2 DEF PressToggle, SaveEdit, FinishRegistration, Admitted
  <2>2. \E op, at, row : Start(op, u, at, row)
      BY <1>2 DEF PressToggle, SaveEdit, FinishRegistration
  <2> QED
      BY <2>1, <2>2, StartOff
<1>3. ASSUME NEW u \in Users, NEW o \in Orders, PressTake(u, o) PROVE OffInv'
  <2> DEFINE new == Thread("take", u, "commit", rows[u], o, TRUE)
  <2>1. UNCHANGED <<enabled, rows, touched>> /\ threads' = threads \cup {new}
      BY <1>3 DEF PressTake
  <2>2. ~Theirs(new)
      BY DEF Theirs, Thread
  <2> HIDE DEF new
  <2> QED
      BY <2>1, <2>2 DEF OffInv, Doubted, Emptied, Offline
<1>4. ASSUME NEW u \in Users,
             \/ Dialogue(u) \/ EndDialogue(u) \/ Finish(u)
             \/ PressReady(u) \/ Pass(u) \/ CloseChat(u)
      PROVE  OffInv'
    BY <1>1, <1>4 DEF Dialogue, EndDialogue, Finish, PressReady, Pass, CloseChat, auxVars
<1>5. ASSUME NEW u \in Users,
             \/ Ban(u)
             \/ \E codes, tier : Approve(u, codes, tier)
             \/ \E prices : SetPrices(u, prices)
      PROVE  OffInv'
  <2>1. /\ Disturb(u) /\ rows'[u].online = rows[u].online
        /\ \A v \in Users \ {u} : rows'[v] = rows[v]
      BY <1>5, WrittenByOthers
  <2>2. UNCHANGED enabled /\ touched \subseteq touched'
      BY <2>1 DEF Disturb
  <2>3. \A v \in Barred : rows'[v].online = rows[v].online
      BY <2>1 DEF Barred
  <2>4. threads' = {Pushed(t, u) : t \in threads}
      BY <2>1, JostledPushed DEF Disturb
  <2> QED
      BY <2>2, <2>3, <2>4, OthersOff
<1>6. CASE Disable
    BY <1>6, DisableOff
<1>7. CASE Enable
    BY <1>7 DEF Enable, OffInv
<1>8. CASE UNCHANGED vars
    BY <1>1, <1>8 DEF vars, auxVars
<1>9. ASSUME NEW t \in threads, ThreadStep(t) PROVE OffInv'
    BY <1>9, ThreadOff
<1> QED
    BY <1>2, <1>3, <1>4, <1>5, <1>6, <1>7, <1>8, <1>9 DEF Next

\* Switched off, nobody but administrators, whom it lets in, is online, in the row or in the
\* index, of all on whom no two handlers met.
THEOREM SwitchedOff == Spec => []DisabledIsEmpty
<1>1. Init => OffInv
    BY DEF Init, OffInv
<1>2. Typed /\ IndexInv /\ OffInv => DisabledIsEmpty
  <2> SUFFICES ASSUME Typed, IndexInv, OffInv, ~enabled, NEW u \in Barred, Settled(u)
               PROVE  ~rows[u].online /\ index[u] = NoEntry
      BY DEF DisabledIsEmpty, Barred
  <2>1. u \notin touched /\ Writers(u) = {}
      BY DEF Settled
  <2>2. ~rows[u].online
    <3>1. \A t \in threads : t.op # "disable"
      <4> SUFFICES ASSUME NEW t \in threads, t.op = "disable" PROVE FALSE
          OBVIOUS
      <4>1. t.user = Everyone
          BY ThreadIs DEF Typed
      <4> QED
          BY <2>1, <4>1 DEF Writers
    <3> QED
        BY <2>1, <3>1 DEF OffInv, Doubted, Emptied, Offline
  <2>3. rows[u] \in Rows /\ index[u] = Mirror(rows[u])
      BY <2>1 DEF IndexInv, Entered, Typed, Barred
  <2> QED
      BY <2>2, <2>3, OfflineMirror
<1>3. Typed /\ Typed' /\ OffInv /\ [Next]_vars => OffInv'
    BY OffStep
<1> QED
    BY <1>1, <1>2, <1>3, AlwaysIndexed, PTL DEF Spec
----------------------------------------------------------------------------
(* What orders are paid at.                                                 *)

LEMMA PayKept ==
    ASSUME PayInv, repriced \subseteq repriced',
           \A u \in Users : u \notin repriced' =>
              \/ rows'[u].prices = rows[u].prices
              \/ ~Taking(u) /\ work[u] = NoOrder,
           \A u \in Users : work'[u] \in {work[u], NoOrder},
           \A x \in threads' : x.op = "take" =>
              \E t \in threads : t.op = "take" /\ t.user = x.user /\ t.row = x.row
    PROVE  PayInv'
<1> SUFFICES ASSUME NEW u \in Users, u \notin repriced'
             PROVE  /\ \A x \in threads' : x.op = "take" /\ x.user = u => x.row.prices = rows'[u].prices
                    /\ work'[u] # NoOrder => CanPay(work'[u], rows'[u])
    BY DEF PayInv, CanPay
<1>1. /\ \A t \in threads : t.op = "take" /\ t.user = u => t.row.prices = rows[u].prices
      /\ work[u] # NoOrder => CanPay(work[u], rows[u])
    BY DEF PayInv
<1>2. CASE rows'[u].prices = rows[u].prices
    BY <1>1, <1>2 DEF CanPay
<1>3. CASE ~Taking(u) /\ work[u] = NoOrder
    BY <1>3 DEF Taking
<1> QED
    BY <1>2, <1>3

LEMMA SameTakes ==
    ASSUME Typed, NEW who, threads' = Jostled(who) \/ \E x : threads' = Jostled(who) \cup {x} /\ x.op # "take"
    PROVE  \A x \in threads' : x.op = "take" =>
              \E t \in threads : t.op = "take" /\ t.user = x.user /\ t.row = x.row
    BY JostledIs DEF Typed

LEMMA StartPay ==
    ASSUME Typed, PayInv, UNCHANGED <<rows, work, repriced>>, NEW op, NEW who, NEW at, NEW row,
           op # "take", Start(op, who, at, row)
    PROVE  PayInv'
<1>1. PICK alone : threads' = Jostled(who) \cup {Thread(op, who, at, row, NoOrder, alone)}
    BY DEF Start
<1>2. Thread(op, who, at, row, NoOrder, alone).op # "take"
    BY DEF Thread
<1> QED
    BY <1>1, <1>2, SameTakes, PayKept

\* Prices change under an order, or a press of Take, only with a note of it.
LEMMA Noted ==
    ASSUME Typed, NEW u \in Users, Reprice(u, rows'[u]),
           \A v \in Users \ {u} : rows'[v] = rows[v]
    PROVE  /\ repriced \subseteq repriced'
           /\ \A v \in Users : v \notin repriced' =>
                \/ rows'[v].prices = rows[v].prices
                \/ ~Taking(v) /\ work[v] = NoOrder
    BY DEF Reprice

LEMMA PressTakePay ==
    ASSUME Typed, PayInv, NEW u \in Users, NEW o \in Orders, PressTake(u, o)
    PROVE  PayInv'
<1> DEFINE new == Thread("take", u, "commit", rows[u], o, TRUE)
<1>1. /\ UNCHANGED <<rows, work>> /\ work[u] = NoOrder /\ ~Taking(u)
      /\ threads' = threads \cup {new} /\ repriced' = repriced \ {u}
    BY DEF PressTake
<1>2. new.user = u /\ new.row = rows[u]
    BY DEF Thread
<1> HIDE DEF new
<1> SUFFICES ASSUME NEW v \in Users, v \notin repriced'
             PROVE  /\ \A x \in threads' : x.op = "take" /\ x.user = v => x.row.prices = rows[v].prices
                    /\ work[v] # NoOrder => CanPay(work[v], rows[v])
    BY <1>1 DEF PayInv, CanPay
<1>3. CASE v = u
    BY <1>1, <1>2, <1>3 DEF Taking
<1>4. CASE v # u
    BY <1>1, <1>2, <1>4 DEF PayInv
<1> QED
    BY <1>3, <1>4

\* Take goes by the row read when it was pressed: it is still the row's prices.
LEMMA CommitTakePay ==
    ASSUME Typed, PayInv, NEW t \in threads, CommitTake(t)
    PROVE  PayInv'
<1> DEFINE u == t.user
<1>1. /\ UNCHANGED <<rows, repriced>> /\ threads' = threads \ {t} /\ t.op = "take"
      /\ u \in Users /\ t.order \in Orders
    BY ThreadIs DEF CommitTake, End, auxVars, Typed
<1>2. CASE UNCHANGED work
    BY <1>1, <1>2, PayKept
<1>3. CASE ValidateTake(t.order, t.row) /\ work' = [work EXCEPT ![u] = t.order]
  <2>1. u \notin repriced => CanPay(t.order, rows[u])
    <3>1. t.order.codes \/ PackSizes(t.order.amount) \subseteq DOMAIN t.row.prices
        BY <1>3 DEF ValidateTake
    <3>2. u \notin repriced => t.row.prices = rows[u].prices
        BY <1>1 DEF PayInv
    <3> QED
        BY <3>1, <3>2 DEF CanPay
  <2>2. work'[u] = t.order /\ \A v \in Users \ {u} : work'[v] = work[v]
      BY <1>1, <1>3 DEF Typed
  <2> SUFFICES ASSUME NEW v \in Users, v \notin repriced
               PROVE  /\ \A x \in threads' : x.op = "take" /\ x.user = v => x.row.prices = rows[v].prices
                      /\ work'[v] # NoOrder => CanPay(work'[v], rows[v])
      BY <1>1 DEF PayInv, CanPay
  <2> QED
      BY <1>1, <2>1, <2>2 DEF PayInv
<1> QED
    BY <1>2, <1>3 DEF CommitTake

LEMMA ThreadPay ==
    ASSUME Typed, PayInv, NEW t \in threads, ThreadStep(t)
    PROVE  PayInv'
<1>0. t \in Kinds /\ t = Thread(t.op, t.user, t.at, t.row, t.order, t.lone)
      /\ (t.at = "commit" <=> t.op = "take")
    BY ThreadIs DEF Typed
<1>1. ASSUME t.op # "take", (\E s : Goto(t, s)) \/ End(t)
      PROVE  \A x \in threads' : x.op = "take" =>
                \E y \in threads : y.op = "take" /\ y.user = x.user /\ y.row = x.row
    BY <1>0, <1>1, GotoIs DEF End
<1>2. CASE CommitTake(t)
    BY <1>2, CommitTakePay
<1>3. CASE Flip(t)
  <2> DEFINE x == [t EXCEPT !.at = "first", !.row = rows'[t.user]]
  <2>1. /\ threads' = (threads \ {t}) \cup {x} /\ UNCHANGED <<work, repriced>>
        /\ rows' = [rows EXCEPT ![t.user].online = ~@]
      BY <1>3 DEF Flip, auxVars
  <2>2. x.op # "take"
      BY <1>0, <1>3 DEF Thread, Flip
  <2> HIDE DEF x
  <2>3. \A v \in Users : rows'[v].prices = rows[v].prices
      BY <2>1 DEF Typed, Rows
  <2> QED
      BY <2>1, <2>2, <2>3, PayKept
<1>4. CASE Upsert(t)
  <2>1. t.op # "take" /\ Goto(t, "deactivate") /\ UNCHANGED work /\ Reprice(t.user, rows'[t.user])
        /\ t.user \in Users /\ \A v \in Users \ {t.user} : rows'[v] = rows[v]
    <3>1. t.op \in Saves /\ t.user \in Users
        BY <1>4, ThreadIs DEF Upsert, Typed, Saves
    <3>2. \A v \in Users \ {t.user} : rows'[v] = rows[v]
        BY <1>4 DEF Upsert, Typed
    <3> QED
        BY <1>4, <3>1, <3>2 DEF Upsert, Saves
  <2> QED
      BY <1>1, <2>1, Noted, PayKept
<1>5. CASE Deactivate(t)
  <2>1. t.op # "take" /\ t.user \in Users /\ Goto(t, "first") /\ UNCHANGED <<work, repriced>>
        /\ rows' = [rows EXCEPT ![t.user] = Reset(rows[t.user])]
      BY <1>0, <1>5, ThreadIs DEF Deactivate, auxVars, Typed, Saves
  <2>2. \A v \in Users : rows'[v].prices = rows[v].prices
      BY <2>1, ResetIs DEF Typed
  <2> QED
      BY <1>1, <2>1, <2>2, PayKept
<1>6. CASE AllOffline(t)
  <2>1. t.op # "take" /\ Goto(t, "first") /\ UNCHANGED <<work, repriced>>
      BY <1>6 DEF AllOffline, auxVars
  <2>2. \A v \in Users : rows'[v].prices = rows[v].prices
      BY <1>6 DEF AllOffline, Typed, Rows
  <2> QED
      BY <1>1, <2>1, <2>2, PayKept
<1>7. CASE \/ FirstScript(t) \/ SecondScript(t) \/ RemovePack(t) \/ RemoveCode(t) \/ LeaveForm(t)
           \/ ClearPack(t) \/ ClearCode(t)
  <2>1. /\ t.op # "take"
        /\ (\E s : Goto(t, s)) \/ End(t)
        /\ UNCHANGED <<rows, work, repriced>>
      BY <1>0, <1>7
         DEF FirstScript, SecondScript, RemovePack, RemoveCode, LeaveForm, ClearPack, ClearCode,
             auxVars, Saves
  <2> QED
      BY <1>1, <2>1, PayKept
<1> QED
    BY <1>2, <1>3, <1>4, <1>5, <1>6, <1>7 DEF ThreadStep

LEMMA PayStep ==
    ASSUME Typed, PayInv, [Next]_vars
    PROVE  PayInv'
<1>1. ASSUME UNCHANGED <<rows, threads, repriced>>, \A u \in Users : work'[u] \in {work[u], NoOrder}
      PROVE  PayInv'
    BY <1>1, PayKept
<1>2. ASSUME NEW u \in Users, Dialogue(u) \/ EndDialogue(u) PROVE PayInv'
    BY <1>1, <1>2 DEF Dialogue, EndDialogue, auxVars
<1>3. ASSUME NEW u \in Users, Finish(u) \/ PressReady(u) \/ Pass(u) \/ CloseChat(u) PROVE PayInv'
    BY <1>1, <1>3 DEF Finish, PressReady, Pass, CloseChat, auxVars, Typed
<1>4. CASE Enable \/ UNCHANGED vars
    BY <1>1, <1>4 DEF Enable, vars, auxVars
<1>5. ASSUME NEW u \in Users,
             PressToggle(u) \/ SaveEdit(u) \/ \E h \in Hours : FinishRegistration(u, h)
      PROVE  PayInv'
    BY <1>5, StartPay DEF PressToggle, SaveEdit, FinishRegistration
<1>6. CASE Disable
    BY <1>6, StartPay DEF Disable
<1>7. ASSUME NEW u \in Users, NEW o \in Orders, PressTake(u, o) PROVE PayInv'
    BY <1>7, PressTakePay
<1>8. ASSUME NEW u \in Users, Ban(u) PROVE PayInv'
  <2>1. /\ threads' = Jostled(u) /\ UNCHANGED <<work, repriced>>
        /\ rows' = [rows EXCEPT ![u].status = "banned"]
      BY <1>8 DEF Ban, Disturb
  <2>2. \A v \in Users : rows'[v].prices = rows[v].prices
      BY <2>1 DEF Typed, Rows
  <2> QED
      BY <2>1, <2>2, SameTakes, PayKept
<1>9. ASSUME NEW u \in Users,
             \/ \E codes \in BOOLEAN, tier \in Tiers : Approve(u, codes, tier)
             \/ \E prices \in PriceTables : SetPrices(u, prices)
      PROVE  PayInv'
  <2>1. threads' = Jostled(u) /\ UNCHANGED work /\ Reprice(u, rows'[u])
      BY <1>9 DEF Approve, SetPrices, Disturb
  <2>2. \A v \in Users \ {u} : rows'[v] = rows[v]
      BY <1>9 DEF Approve, SetPrices, Typed
  <2> QED
      BY <2>1, <2>2, SameTakes, Noted, PayKept
<1>10. ASSUME NEW t \in threads, ThreadStep(t) PROVE PayInv'
    BY <1>10, ThreadPay
<1> QED
    BY <1>2, <1>3, <1>4, <1>5, <1>6, <1>7, <1>8, <1>9, <1>10 DEF Next

\* An order in work is paid at the prices of the row, unless they were changed after Take
\* was pressed: then its sizes may have no price any more.
THEOREM PaidAtItsPrices == Spec => []CanBePaid
<1>1. Init => PayInv
    BY DEF Init, PayInv
<1>2. PayInv => CanBePaid
    BY DEF PayInv, CanBePaid
<1>3. Typed /\ PayInv /\ [Next]_vars => PayInv'
    BY PayStep
<1> QED
    BY <1>1, <1>2, <1>3, AlwaysIndexed, PTL DEF Spec
=============================================================================

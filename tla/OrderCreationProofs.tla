------------------------ MODULE OrderCreationProofs ------------------------
(***************************************************************************)
(* Proofs about the creation of orders and the review of their codes, for  *)
(* any number of orders, codes and requests: orders and codes are neither  *)
(* lost nor given out twice, whatever the store refuses or leaves          *)
(* unanswered, and the review bans and completes whom it should.           *)
(***************************************************************************)
EXTENDS OrderCreation, FiniteSetTheorems, TLAPS

Early == {"find", "get", "status"}
Judging == {"check", "replace", "fetch"}

Amounted(S) == UNION {[T -> Amounts] : T \in SUBSET S}
LiveRequests ==
    [at : Early \cup Judging \cup {"complete"}, order : Originals, left : SUBSET Codes,
     code : Codes \cup {"none"}, new : Amounted(Spares), redeemed : SUBSET Codes,
     broken : SUBSET Codes, doubt : SUBSET Codes]
Lost == [at : {"lost"}, order : Originals]
OverRequest == [at |-> "over"]
Rows ==
    [order : Originals, unused : Amounted(Codes), redeemed : SUBSET Codes,
     broken : SUBSET Codes, doubt : SUBSET Codes, external : {"REDEEMED", "open"}]
Reviews ==
    [at : {"none", "taken", "ask", "banned", "completed"}, row : 0..MaxRequests,
     withCodes : BOOLEAN, left : SUBSET Codes, doubt : SUBSET Codes]

Typed ==
    /\ store \in [Originals -> {"open", "manual", "done"}]
    /\ mark \in [Codes -> {"available", "reserved", "redeemed", "broken"}]
    /\ used \in [Codes -> {"no", "player", "other"}]
    /\ worth \in [Codes -> Amounts]
    /\ request \in [Requests -> LiveRequests \cup Lost \cup {NoRequest, OverRequest}]
    /\ row \in [Requests -> Rows \cup {NoRow}]
    /\ review \in Reviews
    /\ review.at # "none" => review.row \in Requests /\ row[review.row] # NoRow
    /\ told \subseteq Originals /\ overlapped \subseteq Originals /\ deeds \subseteq Codes
    /\ restarted \in BOOLEAN

\* What a request has collected of the codes it has looked at. One activated for somebody
\* else before is kept only if the store would not tell. Substitutes nobody looks at.
RequestOK(r) ==
    Live(r) =>
        /\ request[r].left \cup request[r].redeemed \cup request[r].broken
              \cup request[r].doubt \subseteq Given[request[r].order]
        /\ request[r].left \cap request[r].redeemed = {}
        /\ request[r].left \cap request[r].broken = {}
        /\ request[r].redeemed \cap request[r].broken = {}
        /\ request[r].at \in Early =>
              request[r].redeemed = {} /\ request[r].broken = {} /\ DOMAIN request[r].new = {}
        /\ request[r].at \in {"replace", "fetch"} => request[r].code \in request[r].broken
        /\ request[r].at \in Judging =>
              \A c \in Given[request[r].order] \
                         (request[r].left \cup request[r].redeemed \cup request[r].broken) :
                  used[c] = "other" => c \in deeds \cup request[r].doubt
        /\ request[r].at # "complete" => row[r] = NoRow
        /\ request[r].at = "complete" => row[r].order = request[r].order

RowOK(r) ==
    row[r] # NoRow =>
        /\ row[r].redeemed \cap row[r].broken = {}
        /\ row[r].redeemed \cup row[r].broken \subseteq Given[row[r].order]
        /\ DOMAIN row[r].unused \ Spares = Given[row[r].order] \ (row[r].redeemed \cup row[r].broken)
        /\ \A c \in DOMAIN row[r].unused \cap Given[row[r].order] :
              used[c] = "other" => c \in deeds \cup row[r].doubt
        /\ request[r].at # "unsent"

Ledger == \A r \in Requests : RequestOK(r) /\ RowOK(r)

\* The codes of the store a request or its row has been given.
Got(r) ==
    IF row[r] # NoRow THEN DOMAIN row[r].unused \cap Spares
    ELSE IF Live(r) THEN DOMAIN request[r].new ELSE {}

SparesKept ==
    /\ \A r \in Requests : \A n \in Got(r) : mark[n] # "available"
    /\ \A q, r \in Requests : q # r => Got(q) \cap Got(r) = {}

\* While requests for an order do not overlap, one that found no row finds none later.
Alone(o) ==
    /\ \A q, r \in InFlight(o) : q = r
    /\ \A q, r \in RowsOf(o) : q = r
    /\ \A q \in InFlight(o) : request[q].at \notin {"find", "complete"} => RowsOf(o) = {}

OnlyOne == \A o \in Originals \ overlapped : Alone(o)

\* A code given back for sale is noted as broken by the request that gave it back.
Noted(c, o) ==
    \/ \E r \in InFlight(o) : request[r].at # "complete" /\ c \in request[r].broken
    \/ \E r \in RowsOf(o) : c \in row[r].broken

SaleInv == \A o \in Originals : ~Muddled(o) =>
    \A c \in Given[o] : mark[c] = "available" => Noted(c, o)

\* What the review holds against the worker.
Blamed(c) ==
    \/ used[c] = "other"
    \/ row[review.row].order \in Nameless /\ used[c] # "no"

ReviewInv ==
    /\ review.at \in {"ask", "completed"} /\ review.withCodes =>
          \A c \in DOMAIN row[review.row].unused \ (review.left \cup review.doubt) :
              used[c] = "player"
    /\ review.at = "ask" => review.left \subseteq DOMAIN row[review.row].unused /\ review.withCodes
    /\ review.at = "completed" /\ review.withCodes => review.left = {}
    /\ review.at = "banned" => \E c \in DOMAIN row[review.row].unused : Blamed(c)
----------------------------------------------------------------------------
(* Types.                                                                   *)

Kinds == LiveRequests \cup Lost \cup {NoRequest, OverRequest}

LEMMA CodeSets ==
    /\ Spares \subseteq Codes
    /\ \A o \in Originals : Given[o] \subseteq Codes /\ Given[o] \cap Spares = {}
<1>1. Spares \subseteq Codes
    BY DEF Codes
<1>2. ASSUME NEW o \in Originals PROVE Given[o] \subseteq Codes
  <2>1. Given[o] \subseteq UNION {Given[p] : p \in Originals}
      OBVIOUS
  <2> QED
      BY <2>1 DEF Codes
<1> QED
    BY <1>1, <1>2, CreationAssumption

LEMMA LiveIs ==
    ASSUME Typed, NEW r \in Requests, Live(r)
    PROVE  request[r] \in LiveRequests
<1>1. request[r] \in Kinds
    BY DEF Typed, Kinds
<1> QED
    BY <1>1 DEF Kinds, Live, Lost, NoRequest, OverRequest

LEMMA RowIs ==
    ASSUME Typed, NEW r \in Requests, row[r] # NoRow
    PROVE  row[r] \in Rows
    BY DEF Typed

LEMMA NewType ==
    ASSUME NEW S, NEW f \in Amounted(S)
    PROVE  DOMAIN f \subseteq S /\ \A c \in DOMAIN f : f[c] \in Amounts
    BY DEF Amounted

LEMMA BookedType ==
    ASSUME NEW f \in Amounted(Spares), NEW n \in Spares, NEW a \in Amounts
    PROVE  Booked(f, n, a) \in Amounted(Spares) /\ DOMAIN Booked(f, n, a) = DOMAIN f \cup {n}
<1>1. DOMAIN f \subseteq Spares /\ \A c \in DOMAIN f : f[c] \in Amounts
    BY NewType
<1>2. Booked(f, n, a) \in [DOMAIN f \cup {n} -> Amounts]
    BY <1>1 DEF Booked
<1> QED
    BY <1>1, <1>2 DEF Amounted

LEMMA BlankType ==
    ASSUME NEW o \in Originals
    PROVE  Blank(o) \in LiveRequests /\ DOMAIN Blank(o).new = {}
<1>1. << >> \in [{} -> Amounts] /\ DOMAIN << >> = {}
    OBVIOUS
<1>2. << >> \in Amounted(Spares)
    BY <1>1 DEF Amounted
<1> QED
    BY <1>1, <1>2 DEF Blank, LiveRequests, Early

LEMMA UnusedType ==
    ASSUME Typed, NEW r \in Requests, Live(r)
    PROVE  /\ Unused(r) \in Amounted(Codes)
           /\ DOMAIN Unused(r) = (Given[request[r].order] \ (request[r].redeemed \cup request[r].broken))
                                     \cup DOMAIN request[r].new
<1>1. request[r] \in LiveRequests
    BY LiveIs
<1>2. request[r].new \in Amounted(Spares) /\ request[r].order \in Originals
    BY <1>1 DEF LiveRequests
<1>3. DOMAIN request[r].new \subseteq Codes /\ \A c \in DOMAIN request[r].new : request[r].new[c] \in Amounts
    BY <1>2, NewType, CodeSets
<1> DEFINE D == (Given[request[r].order] \ (request[r].redeemed \cup request[r].broken))
                    \cup DOMAIN request[r].new
<1>4. D \subseteq Codes
    BY <1>2, <1>3, CodeSets
<1>5. Unused(r) \in [D -> Amounts] /\ DOMAIN Unused(r) = D
    BY <1>3, CreationAssumption DEF Unused
<1> HIDE DEF D
<1>6. Unused(r) \in Amounted(Codes)
    BY <1>4, <1>5 DEF Amounted
<1> QED
    BY <1>5, <1>6 DEF D

LEMMA JudgeType ==
    ASSUME Typed, NEW r \in Requests, Live(r), request[r].at = "check",
           NEW c \in request[r].left, NEW answer
    PROVE  /\ Judge(r, c, answer) \in LiveRequests
           /\ Judge(r, c, answer).at \in Judging
           /\ c \in Codes
<1>1. request[r] \in LiveRequests
    BY LiveIs
<1>2. c \in Codes
    BY <1>1 DEF LiveRequests
<1> QED
    BY <1>1, <1>2 DEF Judge, LiveRequests, Judging

\* What a request may become in one step.
LEMMA SetType ==
    ASSUME Typed, NEW r \in Requests, NEW x \in Kinds, Set(r, x)
    PROVE  /\ request' \in [Requests -> Kinds]
           /\ request'[r] = x
           /\ \A q \in Requests : q # r => request'[q] = request[q]
    BY DEF Typed, Kinds, Set

LEMMA InitTyped == Init => Typed
<1> SUFFICES ASSUME Init PROVE Typed
    OBVIOUS
<1>1. PICK h \in Histories :
        /\ used = [c \in Codes |-> IF c \in DOMAIN h /\ h[c] # "misvalued" THEN h[c] ELSE "no"]
        /\ \E a \in Amounts \ {Claimed} :
            worth = [c \in Codes |-> IF c \in DOMAIN h /\ h[c] = "misvalued" THEN a ELSE Claimed]
    BY DEF Init
<1>2. \A c \in DOMAIN h : h[c] \in {"no", "player", "other", "misvalued"}
    BY CreationAssumption
<1>3. used \in [Codes -> {"no", "player", "other"}]
    BY <1>1, <1>2
<1>4. worth \in [Codes -> Amounts]
    BY <1>1, CreationAssumption
<1>5. /\ store \in [Originals -> {"open", "manual", "done"}]
      /\ mark \in [Codes -> {"available", "reserved", "redeemed", "broken"}]
      /\ request \in [Requests -> Kinds] /\ row \in [Requests -> Rows \cup {NoRow}]
    BY DEF Init, Kinds
<1>6. review \in Reviews /\ review.at = "none"
    BY CreationAssumption DEF Init, NoReview, Reviews
<1> QED
    BY <1>3, <1>4, <1>5, <1>6 DEF Init, Typed, Kinds


\* A step of a request changes that request alone, to one of these kinds.
LEMMA GotoType ==
    ASSUME Typed, NEW r \in Requests, Live(r), NEW at \in Early \cup Judging \cup {"complete"}
    PROVE  [request[r] EXCEPT !.at = at] \in Kinds
<1>1. request[r] \in LiveRequests
    BY LiveIs
<1> QED
    BY <1>1 DEF LiveRequests, Kinds

LEMMA CrashType ==
    ASSUME Typed, NEW r \in Requests, Live(r)
    PROVE  /\ [at |-> "lost", order |-> request[r].order] \in Kinds
           /\ request[r].order \in Originals
<1>1. request[r] \in LiveRequests
    BY LiveIs
<1> QED
    BY <1>1 DEF LiveRequests, Kinds, Lost

\* The call for a substitute: a code booked, none, or no answer.
Substituted(r, n) ==
    [request[r] EXCEPT !.at = "check", !.code = "none",
        !.new = Booked(@, n, IF request[r].at = "replace" THEN Claimed ELSE worth[request[r].code])]
Unsubstituted(r) == [request[r] EXCEPT !.at = "check", !.code = "none"]

LEMMA SubstituteCases ==
    ASSUME NEW r \in Requests, Substitute(r)
    PROVE  /\ Live(r) /\ request[r].at \in {"replace", "fetch"}
           /\ \/ \E n \in Spares : /\ mark[n] = "available"
                                   /\ mark' = [mark EXCEPT ![n] = "reserved"]
                                   /\ Set(r, Substituted(r, n)) \/ Crash(r)
              \/ UNCHANGED mark /\ (Set(r, Unsubstituted(r)) \/ Crash(r))
           /\ UNCHANGED <<store, factVars, row, review, auxVars>>
<1>1. Live(r) /\ request[r].at \in {"replace", "fetch"}
    BY DEF Substitute, Live
<1>2. UNCHANGED <<store, factVars, row, review, auxVars>>
    BY DEF Substitute
<1>3. CASE UNCHANGED mark /\ Set(r, [request[r] EXCEPT !.at = "check", !.code = "none"])
    BY <1>1, <1>2, <1>3 DEF Unsubstituted
<1>4. CASE UNCHANGED mark /\ Crash(r)
    BY <1>1, <1>2, <1>4
<1>5. CASE \E n \in Spares :
            /\ mark[n] = "available"
            /\ mark' = [mark EXCEPT ![n] = "reserved"]
            /\ \/ Set(r, [request[r] EXCEPT !.at = "check", !.code = "none",
                             !.new = Booked(@, n, IF request[r].at = "replace" THEN Claimed
                                                  ELSE worth[request[r].code])])
               \/ Crash(r)
    BY <1>1, <1>2, <1>5 DEF Substituted
<1> QED
    BY <1>3, <1>4, <1>5 DEF Substitute

LEMMA SubstitutedType ==
    ASSUME NEW r \in Requests, Typed, RequestOK(r), Live(r),
           request[r].at \in {"replace", "fetch"}
    PROVE  /\ Unsubstituted(r) \in LiveRequests
           /\ \A n \in Spares : /\ Substituted(r, n) \in LiveRequests
                                /\ DOMAIN Substituted(r, n).new = DOMAIN request[r].new \cup {n}
<1>1. request[r] \in LiveRequests
    BY LiveIs
<1>2. Unsubstituted(r) \in LiveRequests
    BY <1>1 DEF LiveRequests, Unsubstituted, Judging
<1>3. ASSUME NEW n \in Spares
      PROVE  /\ Substituted(r, n) \in LiveRequests
             /\ DOMAIN Substituted(r, n).new = DOMAIN request[r].new \cup {n}
  <2> DEFINE a == IF request[r].at = "replace" THEN Claimed ELSE worth[request[r].code]
             f == Booked(request[r].new, n, a)
  <2>1. request[r].code \in Codes
      BY <1>1 DEF RequestOK, LiveRequests
  <2>2. a \in Amounts
      BY <2>1, CreationAssumption DEF Typed
  <2>3. request[r].new \in Amounted(Spares)
      BY <1>1 DEF LiveRequests
  <2>4. f \in Amounted(Spares) /\ DOMAIN f = DOMAIN request[r].new \cup {n}
    <3> HIDE DEF a
    <3> QED
        BY <2>2, <2>3, BookedType
  <2>5. Substituted(r, n) = [Unsubstituted(r) EXCEPT !.new = f]
      BY <1>1 DEF Substituted, Unsubstituted, LiveRequests
  <2> HIDE DEF f
  <2> QED
      BY <1>2, <2>4, <2>5 DEF LiveRequests
<1> QED
    BY <1>2, <1>3

\* The facts that only an order's requests change.
LEMMA SameTables ==
    ASSUME Typed, UNCHANGED <<factVars, row, review>>,
           request' \in [Requests -> Kinds],
           store' \in [Originals -> {"open", "manual", "done"}],
           mark' \in [Codes -> {"available", "reserved", "redeemed", "broken"}],
           told' \subseteq Originals, overlapped' \subseteq Originals, deeds' \subseteq Codes,
           restarted' \in BOOLEAN
    PROVE  Typed'
    BY DEF Typed, factVars, Kinds

\* The check of a code: an answer judged, or no additional_data to look the player up in.
LEMMA CheckCases ==
    ASSUME NEW r \in Requests, CheckCode(r)
    PROVE  /\ Live(r) /\ request[r].at = "check"
           /\ \/ Crash(r) /\ mark' = mark
              \/ \E c \in request[r].left : \E answer \in Answers(request[r].order, c) :
                    /\ Set(r, Judge(r, c, answer))
                    /\ IF answer \in {"silent", "good"} THEN UNCHANGED mark
                       ELSE Mark(c, MarkOf(answer))
           /\ UNCHANGED <<store, factVars, row, review, auxVars>>
<1>1. Live(r) /\ request[r].at = "check" /\ UNCHANGED <<store, factVars, row, review, auxVars>>
    BY DEF CheckCode, At, Live
<1>2. \/ Crash(r) /\ mark' = mark
      \/ \E c \in request[r].left : \E answer \in Answers(request[r].order, c) :
            /\ Set(r, Judge(r, c, answer))
            /\ IF answer \in {"silent", "good"} THEN UNCHANGED mark ELSE Mark(c, MarkOf(answer))
    BY DEF CheckCode
<1> QED
    BY <1>1, <1>2

LEMMA RequestTyped ==
    ASSUME NEW r \in Requests, Typed, RequestOK(r), RequestStep(r)
    PROVE  Typed'
<1> USE DEF storeVars, factVars, auxVars
<1>1. ASSUME NEW o \in Originals, Send(r, o) PROVE Typed'
  <2>1. Blank(o) \in Kinds /\ Set(r, Blank(o))
      BY <1>1, BlankType DEF Send, Kinds
  <2>2. request' \in [Requests -> Kinds]
      BY <2>1, SetType
  <2> QED
      BY <1>1, <2>2, SameTables DEF Send, Typed
<1>2. CASE Find(r)
  <2>1. Live(r)
      BY <1>2 DEF Find, At, Live
  <2>2. \E x \in Kinds : Set(r, x)
      BY <1>2, <2>1, GotoType DEF Find, Goto, Over, OverRequest, Kinds, Early
  <2>3. request' \in [Requests -> Kinds]
      BY <2>2, SetType
  <2> QED
      BY <1>2, <2>3, SameTables DEF Find, Typed
<1>3. CASE GetOrder(r)
  <2>1. Live(r)
      BY <1>3 DEF GetOrder, At, Live
  <2>2. \E x \in Kinds : Set(r, x)
      BY <1>3, <2>1, GotoType DEF GetOrder, Refuse, Goto, Over, OverRequest, Kinds, Early
  <2>3. request' \in [Requests -> Kinds]
      BY <2>2, SetType
  <2>4. told' \subseteq Originals
    <3>1. request[r].order \in Originals
        BY <2>1, CrashType
    <3> QED
        BY <1>3, <3>1 DEF GetOrder, Refuse, Typed
  <2> QED
      BY <1>3, <2>3, <2>4, SameTables DEF GetOrder, Typed
<1>4. CASE ChangeStatus(r)
  <2>1. Live(r)
      BY <1>4 DEF ChangeStatus, At, Live
  <2>2. request[r].order \in Originals /\ [at |-> "lost", order |-> request[r].order] \in Kinds
      BY <2>1, CrashType
  <2>3. [request[r] EXCEPT !.at = "check", !.left = Given[request[r].order]] \in Kinds
      BY <2>1, <2>2, LiveIs, CodeSets DEF LiveRequests, Kinds, Judging
  <2>4. \E x \in Kinds : Set(r, x)
      BY <1>4, <2>2, <2>3 DEF ChangeStatus, Refuse, Crash, Over, OverRequest, Kinds
  <2>5. request' \in [Requests -> Kinds]
      BY <2>4, SetType
  <2>6. told' \subseteq Originals
      BY <1>4, <2>2 DEF ChangeStatus, Refuse, Typed
  <2>7. store' \in [Originals -> {"open", "manual", "done"}]
      BY <1>4 DEF ChangeStatus, Typed
  <2> QED
      BY <1>4, <2>5, <2>6, <2>7, SameTables DEF ChangeStatus, Typed
<1>5. CASE CheckCode(r)
  <2>1. Live(r) /\ request[r].at = "check"
      BY <1>5, CheckCases
  <2>2. CASE Crash(r) /\ mark' = mark
    <3>1. request' \in [Requests -> Kinds]
        BY <2>1, <2>2, CrashType, SetType DEF Crash
    <3> QED
        BY <1>5, <2>2, <3>1, CheckCases, SameTables DEF Typed
  <2>3. ASSUME NEW c \in request[r].left, NEW answer, Set(r, Judge(r, c, answer)),
               IF answer \in {"silent", "good"} THEN UNCHANGED mark ELSE Mark(c, MarkOf(answer))
        PROVE  Typed'
    <3>1. request' \in [Requests -> Kinds]
        BY <2>1, <2>3, JudgeType, SetType DEF Kinds
    <3>2. mark' \in [Codes -> {"available", "reserved", "redeemed", "broken"}]
        BY <2>3 DEF Mark, MarkOf, Typed
    <3> QED
        BY <1>5, <3>1, <3>2, CheckCases, SameTables DEF Typed
  <2> QED
      BY <1>5, <2>2, <2>3, CheckCases
<1>6. CASE Substitute(r)
  <2>1. Live(r) /\ request[r].at \in {"replace", "fetch"}
      BY <1>6, SubstituteCases
  <2>2. \E x \in Kinds : Set(r, x)
      BY <1>6, <2>1, SubstituteCases, SubstitutedType, CrashType DEF Crash, Kinds
  <2>3. request' \in [Requests -> Kinds]
      BY <2>2, SetType
  <2>4. mark' \in [Codes -> {"available", "reserved", "redeemed", "broken"}]
      BY <1>6, SubstituteCases DEF Typed
  <2> QED
      BY <1>6, <2>3, <2>4, SameTables DEF Substitute, Typed
<1>7. CASE Insert(r)
  <2>1. Live(r)
      BY <1>7 DEF Insert, At, Live
  <2>2. \E x \in Kinds : Set(r, x)
      BY <1>7, <2>1, GotoType DEF Insert, Goto, Over, OverRequest, Kinds
  <2>3. request' \in [Requests -> Kinds]
      BY <2>2, SetType
  <2>4. request[r] \in LiveRequests /\ request[r].order \in Originals
      BY <2>1, LiveIs, CrashType
  <2>5. [order |-> request[r].order, unused |-> Unused(r), redeemed |-> request[r].redeemed,
         broken |-> request[r].broken, doubt |-> request[r].doubt,
         external |-> IF DOMAIN Unused(r) = {} THEN "REDEEMED" ELSE "open"] \in Rows
      BY <2>1, <2>4, UnusedType DEF LiveRequests, Rows
  <2>6. row' \in [Requests -> Rows \cup {NoRow}]
      BY <1>7, <2>5 DEF Insert, Typed
  <2>7. \A q \in Requests : row[q] # NoRow => row'[q] # NoRow
    <3>1. \A x \in Rows : x # NoRow
        BY CreationAssumption DEF Rows, NoRow
    <3> QED
        BY <1>7, <2>5, <3>1 DEF Insert, Typed
  <2>8. told' \subseteq Originals
      BY <1>7, <2>4 DEF Insert, Typed
  <2> QED
      BY <1>7, <2>3, <2>6, <2>7, <2>8 DEF Insert, Typed, Kinds
<1>8. CASE CompleteAtStore(r)
  <2>1. \E x \in Kinds : Set(r, x)
      BY <1>8 DEF CompleteAtStore, Over, OverRequest, Kinds
  <2>2. request' \in [Requests -> Kinds]
      BY <2>1, SetType
  <2>3. store' \in [Originals -> {"open", "manual", "done"}]
      BY <1>8 DEF CompleteAtStore, Typed
  <2> QED
      BY <1>8, <2>2, <2>3, SameTables DEF CompleteAtStore, Typed
<1> QED
    BY <1>1, <1>2, <1>3, <1>4, <1>5, <1>6, <1>7, <1>8 DEF RequestStep

LEMMA OtherTyped ==
    ASSUME Typed,
           \/ \E r \in Requests : TakeRow(r)
           \/ \E o \in Originals : Reopen(o)
           \/ \E c \in Codes, who \in {"player", "other"} : Activate(c, who)
           \/ BeginReview \/ AskUsed \/ Pass \/ Restart
    PROVE  Typed'
<1> USE DEF storeVars, factVars, auxVars
<1>1. ASSUME NEW r \in Requests, TakeRow(r) PROVE Typed'
  <2>1. PICK w \in BOOLEAN : review' =
            [at |-> "taken", row |-> r, withCodes |-> w, left |-> {}, doubt |-> {}]
      BY <1>1 DEF TakeRow, NoReview
  <2>2. r \in 0..MaxRequests
      BY CreationAssumption DEF Requests
  <2>3. review' \in Reviews /\ review'.row = r
      BY <2>1, <2>2 DEF Reviews
  <2> QED
      BY <1>1, <2>3 DEF TakeRow, Typed
<1>2. ASSUME NEW o \in Originals, Reopen(o) PROVE Typed'
    BY <1>2, SameTables DEF Reopen, Typed, Kinds
<1>3. ASSUME NEW c \in Codes, NEW who \in {"player", "other"}, Activate(c, who) PROVE Typed'
    BY <1>3 DEF Activate, Typed
<1>4. CASE BeginReview
  <2>1. row[review.row] \in Rows
      BY <1>4, RowIs DEF BeginReview, Typed
  <2>2. DOMAIN row[review.row].unused \subseteq Codes
      BY <2>1, NewType DEF Rows
  <2> QED
      BY <1>4, <2>2 DEF BeginReview, Typed, Reviews
<1>5. CASE AskUsed
  <2>1. review \in Reviews /\ review.left \subseteq Codes
      BY DEF Typed, Reviews
  <2>2. review' \in Reviews /\ review'.row = review.row
    <3>1. PICK c \in review.left :
              \/ review' = [review EXCEPT !.left = @ \ {c}, !.doubt = @ \cup {c}]
              \/ Reported(c) = "player" /\ review' = [review EXCEPT !.left = @ \ {c}]
              \/ Reported(c) = "no" /\ review' = [review EXCEPT !.at = "taken", !.left = {}, !.doubt = {}]
              \/ Reported(c) = "other" /\ review' = [review EXCEPT !.at = "banned"]
        BY <1>5 DEF AskUsed
    <3>2. CASE review' = [review EXCEPT !.left = @ \ {c}, !.doubt = @ \cup {c}]
        BY <2>1, <3>2 DEF Reviews
    <3>3. CASE review' = [review EXCEPT !.left = @ \ {c}]
        BY <2>1, <3>3 DEF Reviews
    <3>4. CASE review' = [review EXCEPT !.at = "taken", !.left = {}, !.doubt = {}]
        BY <2>1, <3>4 DEF Reviews
    <3>5. CASE review' = [review EXCEPT !.at = "banned"]
        BY <2>1, <3>5 DEF Reviews
    <3> QED
        BY <3>1, <3>2, <3>3, <3>4, <3>5
  <2> QED
      BY <1>5, <2>2 DEF AskUsed, Typed
<1>6. CASE Pass
    BY <1>6 DEF Pass, Typed, Reviews
<1>7. CASE Restart
  <2>1. \A r \in Requests : Live(r) => [at |-> "lost", order |-> request[r].order] \in Kinds
      BY CrashType
  <2>2. request' \in [Requests -> Kinds]
      BY <1>7, <2>1 DEF Restart, Typed, Kinds
  <2> QED
      BY <1>7, <2>2, SameTables DEF Restart, Typed
<1> QED
    BY <1>1, <1>2, <1>3, <1>4, <1>5, <1>6, <1>7

LEMMA TypedStep ==
    ASSUME Typed, Ledger, [Next]_vars
    PROVE  Typed'
<1>1. ASSUME NEW r \in Requests, RequestStep(r) PROVE Typed'
    BY <1>1, RequestTyped DEF Ledger
<1>2. CASE UNCHANGED vars
    BY <1>2 DEF vars, storeVars, factVars, auxVars, Typed
<1> QED
    BY <1>1, <1>2, OtherTyped DEF Next
----------------------------------------------------------------------------
(* The ledger of codes.                                                     *)

\* Only the worker activates codes, and what he does for somebody else is a deed.
Honest ==
    /\ deeds \subseteq deeds'
    /\ \A c \in Codes : used'[c] = "other" => used[c] = "other" \/ c \in deeds'

LEMMA LiveOrder ==
    ASSUME NEW r \in Requests, Typed, Live(r)
    PROVE  request[r].order \in Originals /\ Given[request[r].order] \subseteq Codes
    BY LiveIs, CodeSets DEF LiveRequests

LEMMA RequestKept ==
    ASSUME NEW q \in Requests, Typed, RequestOK(q), Honest,
           request'[q] = request[q], row'[q] = row[q]
    PROVE  RequestOK(q)'
<1> SUFFICES ASSUME Live(q)' PROVE RequestOK(q)'
    BY DEF RequestOK
<1>1. Live(q)
    BY DEF Live
<1>2. Given[request[q].order] \subseteq Codes
    BY <1>1, LiveOrder
<1>3. \A c \in Given[request[q].order] :
        used'[c] = "other" => used[c] = "other" \/ c \in deeds'
    BY <1>2 DEF Honest
<1>4. deeds \subseteq deeds'
    BY DEF Honest
<1> QED
    BY <1>1, <1>3, <1>4 DEF RequestOK

LEMMA RowKept ==
    ASSUME NEW q \in Requests, Typed, RowOK(q), Honest, row'[q] = row[q],
           row[q] = NoRow \/ request'[q].at # "unsent"
    PROVE  RowOK(q)'
<1> SUFFICES ASSUME row[q] # NoRow PROVE RowOK(q)'
    BY DEF RowOK
<1>1. row[q] \in Rows
    BY RowIs
<1>2. DOMAIN row[q].unused \subseteq Codes
    BY <1>1, NewType DEF Rows
<1>3. \A c \in DOMAIN row[q].unused :
        used'[c] = "other" => used[c] = "other" \/ c \in deeds'
    BY <1>2 DEF Honest
<1>4. deeds \subseteq deeds'
    BY DEF Honest
<1> QED
    BY <1>1, <1>3, <1>4 DEF RowOK

\* A request whose step leaves the rows and the facts alone.
LEMMA MovedLedger ==
    ASSUME NEW r \in Requests, Typed, Ledger, NEW x, Set(r, x), x.at # "unsent",
           UNCHANGED <<factVars, row, deeds>>, RequestOK(r)'
    PROVE  Ledger'
<1>1. Honest
    BY DEF Honest, factVars
<1>2. ASSUME NEW q \in Requests PROVE RequestOK(q)' /\ RowOK(q)'
  <2>1. q # r => request'[q] = request[q]
      BY DEF Set, Typed
  <2>2. q = r => request'[q] = x
      BY DEF Set, Typed
  <2>3. RequestOK(q)'
      BY <1>1, <2>1, RequestKept DEF Ledger
  <2>4. row[q] = NoRow \/ request'[q].at # "unsent"
      BY <2>1, <2>2 DEF Ledger, RowOK
  <2>5. RowOK(q)'
      BY <1>1, <2>4, RowKept DEF Ledger
  <2> QED
      BY <2>3, <2>5
<1> QED
    BY <1>2 DEF Ledger

LEMMA JudgedCode ==
    ASSUME NEW r \in Requests, Typed, Ledger, request[r].at = "check", NEW c \in request[r].left,
           NEW answer \in Answers(request[r].order, c), Set(r, Judge(r, c, answer)),
           UNCHANGED <<factVars, row, deeds>>
    PROVE  RequestOK(r)'
<1> DEFINE q == request[r]
<1>1. Live(r) /\ RequestOK(r) /\ q \in LiveRequests
    BY LiveIs DEF Live, Ledger
<1>2. request'[r] = Judge(r, c, answer)
    BY DEF Set, Typed
<1>3. used' = used /\ row' = row /\ deeds' = deeds
    BY DEF factVars
<1>4. row[r] = NoRow
    BY <1>1 DEF RequestOK
<1>5. c \in Given[q.order] /\ c \notin q.redeemed /\ c \notin q.broken
    BY <1>1 DEF RequestOK
<1>6. \A d \in Given[q.order] \ (q.left \cup q.redeemed \cup q.broken) :
        used[d] = "other" => d \in deeds \cup q.doubt
    BY <1>1 DEF RequestOK, Judging
<1>7. CASE answer = "silent"
  <2>1. request'[r] = [q EXCEPT !.left = @ \ {c}, !.doubt = @ \cup {c}]
      BY <1>2, <1>7 DEF Judge
  <2>2. /\ request'[r].at = "check" /\ request'[r].order = q.order /\ request'[r].left = q.left \ {c}
        /\ request'[r].doubt = q.doubt \cup {c} /\ request'[r].redeemed = q.redeemed
        /\ request'[r].broken = q.broken /\ request'[r].new = q.new
      BY <1>1, <2>1 DEF LiveRequests
  <2> HIDE DEF q
  <2> QED
      BY <1>1, <1>3, <1>4, <1>5, <1>6, <2>2 DEF RequestOK, Live, Early, Judging, q
<1>8. CASE answer = "good"
  <2>1. request'[r] = [q EXCEPT !.left = @ \ {c}]
      BY <1>2, <1>8 DEF Judge
  <2>2. /\ request'[r].at = "check" /\ request'[r].order = q.order /\ request'[r].left = q.left \ {c}
        /\ request'[r].doubt = q.doubt /\ request'[r].redeemed = q.redeemed
        /\ request'[r].broken = q.broken /\ request'[r].new = q.new
      BY <1>1, <2>1 DEF LiveRequests
  <2>3. used[c] = "no"
      BY <1>8, <1>5, LiveOrder, <1>1 DEF Answers, Seen, Typed
  <2> HIDE DEF q
  <2> QED
      BY <1>1, <1>3, <1>4, <1>5, <1>6, <2>2, <2>3 DEF RequestOK, Live, Early, Judging, q
<1>9. CASE answer \in {"bad", "player"}
  <2>1. request'[r] = [q EXCEPT !.left = @ \ {c}, !.redeemed = @ \cup {c}]
      BY <1>2, <1>9 DEF Judge
  <2>2. /\ request'[r].at = "check" /\ request'[r].order = q.order /\ request'[r].left = q.left \ {c}
        /\ request'[r].doubt = q.doubt /\ request'[r].redeemed = q.redeemed \cup {c}
        /\ request'[r].broken = q.broken /\ request'[r].new = q.new
      BY <1>1, <2>1 DEF LiveRequests
  <2> HIDE DEF q
  <2> QED
      BY <1>1, <1>3, <1>4, <1>5, <1>6, <2>2 DEF RequestOK, Live, Early, Judging, q
<1>10. CASE answer \notin {"silent", "good", "bad", "player"}
  <2> DEFINE at == IF answer = "other" THEN "replace" ELSE "fetch"
  <2>1. request'[r] = [q EXCEPT !.left = @ \ {c}, !.broken = @ \cup {c}, !.code = c, !.at = at]
      BY <1>2, <1>10 DEF Judge
  <2>2. at \in {"replace", "fetch"}
      OBVIOUS
  <2> HIDE DEF at
  <2>3. /\ request'[r].at \in {"replace", "fetch"} /\ request'[r].order = q.order
        /\ request'[r].left = q.left \ {c}
        /\ request'[r].doubt = q.doubt /\ request'[r].redeemed = q.redeemed
        /\ request'[r].broken = q.broken \cup {c} /\ request'[r].new = q.new /\ request'[r].code = c
      BY <1>1, <2>1, <2>2 DEF LiveRequests
  <2> HIDE DEF q
  <2> QED
      BY <1>1, <1>3, <1>4, <1>5, <1>6, <2>3 DEF RequestOK, Live, Early, Judging, q
<1> QED
    BY <1>7, <1>8, <1>9, <1>10

\* A request that is not at work any more has nothing to keep to.
LEMMA EndedLedger ==
    ASSUME NEW r \in Requests, Typed, Ledger, NEW x, Set(r, x), x.at \in {"over", "lost"},
           UNCHANGED <<factVars, row, deeds>>
    PROVE  Ledger'
<1>1. request'[r] = x
    BY DEF Set, Typed
<1>2. RequestOK(r)'
    BY <1>1 DEF RequestOK, Live
<1> QED
    BY <1>2, MovedLedger

LEMMA CrashLedger ==
    ASSUME NEW r \in Requests, Typed, Ledger, Crash(r), UNCHANGED <<factVars, row, deeds>>
    PROVE  Ledger'
    BY EndedLedger DEF Crash

LEMMA OverLedger ==
    ASSUME NEW r \in Requests, Typed, Ledger, Over(r), UNCHANGED <<factVars, row, deeds>>
    PROVE  Ledger'
    BY EndedLedger DEF Over

LEMMA EarlyLedger ==
    ASSUME NEW r \in Requests, Typed, Ledger, request[r].at \in Early, NEW at \in Early,
           Goto(r, at), UNCHANGED <<factVars, row, deeds>>
    PROVE  Ledger'
<1>1. Live(r) /\ RequestOK(r) /\ request[r] \in LiveRequests
    BY LiveIs DEF Live, Ledger, Early
<1> DEFINE x == [request[r] EXCEPT !.at = at]
<1>2. /\ x.at = at /\ x.order = request[r].order /\ x.left = request[r].left /\ x.code = request[r].code
      /\ x.new = request[r].new /\ x.redeemed = request[r].redeemed
      /\ x.broken = request[r].broken /\ x.doubt = request[r].doubt
    BY <1>1 DEF LiveRequests
<1>3. Set(r, x)
    BY DEF Goto
<1> HIDE DEF x
<1>4. request'[r] = x /\ row'[r] = row[r]
    BY <1>3 DEF Set, Typed
<1>5. RequestOK(r)'
    BY <1>1, <1>2, <1>4 DEF RequestOK, Live, Early, Judging
<1>6. x.at # "unsent"
    BY <1>2 DEF Early
<1> QED
    BY <1>3, <1>5, <1>6, MovedLedger

LEMMA SendLedger ==
    ASSUME NEW r \in Requests, NEW o \in Originals, Typed, Ledger, Send(r, o)
    PROVE  Ledger'
<1>1. row[r] = NoRow
    BY DEF Send, At, Ledger, RowOK
<1>2. Set(r, Blank(o)) /\ UNCHANGED <<factVars, row, deeds>>
    BY DEF Send
<1>3. request'[r] = Blank(o) /\ row'[r] = NoRow
    BY <1>1, <1>2 DEF Set, Typed
<1>4. /\ Blank(o).at = "find" /\ Blank(o).order = o /\ Blank(o).left = {} /\ DOMAIN Blank(o).new = {}
      /\ Blank(o).redeemed = {} /\ Blank(o).broken = {} /\ Blank(o).doubt = {}
    BY BlankType DEF Blank
<1>5. RequestOK(r)'
    BY <1>3, <1>4 DEF RequestOK, Live, Early, Judging
<1> QED
    BY <1>2, <1>4, <1>5, MovedLedger

LEMMA StatusLedger ==
    ASSUME NEW r \in Requests, Typed, Ledger, ChangeStatus(r)
    PROVE  Ledger'
<1>1. Live(r) /\ RequestOK(r) /\ request[r] \in LiveRequests
    BY LiveIs DEF Live, Ledger, ChangeStatus, At
<1>2. UNCHANGED <<factVars, row, deeds>>
    BY DEF ChangeStatus
<1> DEFINE x == [request[r] EXCEPT !.at = "check", !.left = Given[request[r].order]]
<1>3. CASE Set(r, x)
  <2>1. /\ x.at = "check" /\ x.order = request[r].order /\ x.left = Given[request[r].order]
        /\ x.new = request[r].new /\ x.redeemed = request[r].redeemed
        /\ x.broken = request[r].broken /\ x.doubt = request[r].doubt
      BY <1>1 DEF LiveRequests
  <2> HIDE DEF x
  <2>2. request'[r] = x /\ row'[r] = row[r]
      BY <1>2, <1>3 DEF Set, Typed
  <2>3. RequestOK(r)'
      BY <1>1, <2>1, <2>2 DEF ChangeStatus, At, RequestOK, Live, Early, Judging
  <2> QED
      BY <1>2, <1>3, <2>1, <2>3, MovedLedger
<1>4. Set(r, x) \/ Crash(r) \/ Over(r)
    BY DEF ChangeStatus, Refuse
<1> QED
    BY <1>2, <1>3, <1>4, CrashLedger, OverLedger

LEMMA SubstituteLedger ==
    ASSUME NEW r \in Requests, Typed, Ledger, Substitute(r)
    PROVE  Ledger'
<1>1. Live(r) /\ RequestOK(r) /\ request[r] \in LiveRequests /\ request[r].at \in {"replace", "fetch"}
    BY LiveIs, SubstituteCases DEF Ledger
<1>2. UNCHANGED <<factVars, row, deeds>>
    BY DEF Substitute, auxVars
<1>3. ASSUME NEW x, Set(r, x), x.at = "check", x.order = request[r].order, x.left = request[r].left,
             x.redeemed = request[r].redeemed, x.broken = request[r].broken,
             x.doubt = request[r].doubt
      PROVE  Ledger'
  <2>1. request'[r] = x /\ row'[r] = row[r]
      BY <1>2, <1>3 DEF Set, Typed
  <2>2. RequestOK(r)'
      BY <1>1, <1>2, <1>3, <2>1 DEF RequestOK, Live, Early, Judging, factVars
  <2> QED
      BY <1>2, <1>3, <2>2, MovedLedger
<1>4. \A x : x = Unsubstituted(r) \/ (\E n \in Spares : x = Substituted(r, n)) =>
        /\ x.at = "check" /\ x.order = request[r].order /\ x.left = request[r].left
        /\ x.redeemed = request[r].redeemed /\ x.broken = request[r].broken
        /\ x.doubt = request[r].doubt
    BY <1>1 DEF Unsubstituted, Substituted, LiveRequests
<1>5. Crash(r) \/ Set(r, Unsubstituted(r)) \/ \E n \in Spares : Set(r, Substituted(r, n))
    BY SubstituteCases
<1> QED
    BY <1>2, <1>3, <1>4, <1>5, CrashLedger

\* The row a request inserts.
Inserted(r) ==
    [order |-> request[r].order, unused |-> Unused(r), redeemed |-> request[r].redeemed,
     broken |-> request[r].broken, doubt |-> request[r].doubt,
     external |-> IF DOMAIN Unused(r) = {} THEN "REDEEMED" ELSE "open"]

\* Where an Insert leaves its request.
LEMMA InsertCases ==
    ASSUME NEW r \in Requests, Typed, Ledger, Insert(r)
    PROVE  /\ Live(r) /\ RequestOK(r) /\ request[r] \in LiveRequests
           /\ request[r].at = "check" /\ request[r].left = {} /\ row[r] = NoRow
           /\ row'[r] = Inserted(r) /\ Inserted(r).order \in Originals
           /\ \A q \in Requests : q # r => row'[q] = row[q] /\ request'[q] = request[q]
           /\ \/ request'[r].at = "over"
              \/ request'[r].at = "complete" /\ request'[r].order = request[r].order
           /\ UNCHANGED <<storeVars, factVars, review, restarted, overlapped, deeds>>
           /\ told \subseteq told'
<1>1. Live(r) /\ RequestOK(r) /\ request[r].at = "check" /\ request[r].left = {}
    BY DEF Insert, At, Live, Ledger
<1>2. request[r] \in LiveRequests /\ row[r] = NoRow
    BY <1>1, LiveIs DEF RequestOK
<1>3. row'[r] = Inserted(r) /\ \A q \in Requests : q # r => row'[q] = row[q]
    BY DEF Insert, Inserted, Typed
<1>4. Inserted(r).order \in Originals
    BY <1>2 DEF Inserted, LiveRequests
<1>5. \/ request'[r] = [at |-> "over"]
      \/ request'[r] = [request[r] EXCEPT !.at = "complete"]
    BY DEF Insert, Over, Goto, Set, Typed
<1>6. \/ request'[r].at = "over"
      \/ request'[r].at = "complete" /\ request'[r].order = request[r].order
  <2>1. CASE request'[r] = [at |-> "over"]
      BY <2>1
  <2>2. CASE request'[r] = [request[r] EXCEPT !.at = "complete"]
      BY <1>2, <2>2 DEF LiveRequests
  <2> QED
      BY <1>5, <2>1, <2>2
<1>7. \A q \in Requests : q # r => request'[q] = request[q]
    BY DEF Insert, Over, Goto, Set, Typed
<1>8. UNCHANGED <<storeVars, factVars, review, restarted, overlapped, deeds>> /\ told \subseteq told'
    BY DEF Insert
<1> QED
    BY <1>1, <1>2, <1>3, <1>4, <1>6, <1>7, <1>8

LEMMA InsertedIs ==
    ASSUME NEW r \in Requests, Typed, Ledger, Insert(r)
    PROVE  /\ Inserted(r).redeemed = request[r].redeemed
           /\ Inserted(r).broken = request[r].broken
           /\ Inserted(r).doubt = request[r].doubt
           /\ Inserted(r).order = request[r].order
           /\ DOMAIN Inserted(r).unused =
                (Given[request[r].order] \ (request[r].redeemed \cup request[r].broken))
                    \cup DOMAIN request[r].new
           /\ DOMAIN request[r].new \subseteq Spares
           /\ Given[request[r].order] \cap Spares = {}
<1>1. Live(r) /\ request[r] \in LiveRequests
    BY InsertCases
<1>2. request[r].new \in Amounted(Spares) /\ request[r].order \in Originals
    BY <1>1 DEF LiveRequests
<1>3. Inserted(r).unused = Unused(r)
    BY DEF Inserted
<1>4. DOMAIN Unused(r) = (Given[request[r].order] \ (request[r].redeemed \cup request[r].broken))
                             \cup DOMAIN request[r].new
    BY <1>1, UnusedType
<1>5. DOMAIN request[r].new \subseteq Spares
    BY <1>2, NewType
<1> QED
    BY <1>2, <1>3, <1>4, <1>5, CodeSets DEF Inserted

LEMMA InsertLedger ==
    ASSUME NEW r \in Requests, Typed, Ledger, Insert(r)
    PROVE  Ledger'
<1>1. /\ Live(r) /\ RequestOK(r)
      /\ request[r].at = "check" /\ request[r].left = {}
      /\ row'[r] = Inserted(r) /\ used' = used /\ deeds' = deeds
      /\ \A q \in Requests : q # r => row'[q] = row[q] /\ request'[q] = request[q]
      /\ \/ request'[r].at = "over"
         \/ request'[r].at = "complete" /\ request'[r].order = request[r].order
    BY InsertCases DEF factVars
<1>2. Honest
    BY <1>1 DEF Honest
<1> DEFINE x == Inserted(r)
<1>3. /\ x.redeemed = request[r].redeemed /\ x.broken = request[r].broken
      /\ x.doubt = request[r].doubt /\ x.order = request[r].order
      /\ DOMAIN x.unused = (Given[request[r].order] \ (request[r].redeemed \cup request[r].broken))
                               \cup DOMAIN request[r].new
      /\ DOMAIN request[r].new \subseteq Spares
      /\ Given[request[r].order] \cap Spares = {}
    BY InsertedIs
<1> HIDE DEF x
<1>4. row'[r] = x
    BY <1>1 DEF x
<1>5. /\ request[r].redeemed \cup request[r].broken \subseteq Given[request[r].order]
      /\ request[r].redeemed \cap request[r].broken = {}
      /\ \A c \in Given[request[r].order] \ (request[r].redeemed \cup request[r].broken) :
            used[c] = "other" => c \in deeds \cup request[r].doubt
    BY <1>1 DEF RequestOK, Judging
<1>6. RowOK(r)'
  <2>1. x.redeemed \cap x.broken = {} /\ x.redeemed \cup x.broken \subseteq Given[x.order]
      BY <1>3, <1>5
  <2>2. DOMAIN x.unused \ Spares = Given[x.order] \ (x.redeemed \cup x.broken)
      BY <1>3
  <2>3. \A c \in DOMAIN x.unused \cap Given[x.order] : used[c] = "other" => c \in deeds \cup x.doubt
      BY <1>3, <1>5
  <2> QED
      BY <1>1, <1>4, <2>1, <2>2, <2>3 DEF RowOK
<1>7. RequestOK(r)'
  <2>1. CASE request'[r].at = "over"
      BY <2>1 DEF RequestOK, Live
  <2>2. CASE request'[r].at # "over"
    <3>1. request'[r] = [request[r] EXCEPT !.at = "complete"]
        BY <2>2 DEF Insert, Over, Goto, Set, Typed
    <3>2. request[r] \in LiveRequests
        BY <1>1, LiveIs
    <3>3. /\ request'[r].at = "complete" /\ request'[r].left = request[r].left
          /\ request'[r].redeemed = request[r].redeemed /\ request'[r].broken = request[r].broken
          /\ request'[r].doubt = request[r].doubt /\ request'[r].order = request[r].order
        BY <3>1, <3>2 DEF LiveRequests
    <3> QED
        BY <1>1, <1>3, <1>4, <3>3 DEF RequestOK, Live, Early, Judging
  <2> QED
      BY <2>1, <2>2
<1>8. ASSUME NEW q \in Requests, q # r PROVE RequestOK(q)' /\ RowOK(q)'
  <2>1. row[q] = NoRow \/ request'[q].at # "unsent"
      BY <1>1, <1>8 DEF Ledger, RowOK
  <2> QED
      BY <1>1, <1>2, <1>8, <2>1, RequestKept, RowKept DEF Ledger
<1> QED
    BY <1>1, <1>6, <1>7, <1>8 DEF Ledger

LEMMA RequestLedger ==
    ASSUME NEW r \in Requests, Typed, Ledger, RequestStep(r)
    PROVE  Ledger'
<1>1. CASE Find(r)
  <2>1. UNCHANGED <<factVars, row, deeds>> /\ request[r].at \in Early
      BY <1>1 DEF Find, auxVars, At, Early
  <2>2. Goto(r, "get") \/ Over(r)
      BY <1>1 DEF Find
  <2> QED
      BY <2>1, <2>2, EarlyLedger, OverLedger DEF Early
<1>2. CASE GetOrder(r)
  <2>1. UNCHANGED <<factVars, row, deeds>> /\ request[r].at \in Early
      BY <1>2 DEF GetOrder, At, Early
  <2>2. Goto(r, "status") \/ Over(r)
      BY <1>2 DEF GetOrder, Refuse
  <2> QED
      BY <2>1, <2>2, EarlyLedger, OverLedger DEF Early
<1>3. CASE CheckCode(r)
  <2>1. UNCHANGED <<factVars, row, deeds>> /\ request[r].at = "check" /\ Live(r)
      BY <1>3, CheckCases DEF auxVars
  <2>2. CASE Crash(r)
      BY <2>1, <2>2, CrashLedger
  <2>3. ASSUME NEW c \in request[r].left, NEW answer \in Answers(request[r].order, c),
               Set(r, Judge(r, c, answer))
        PROVE  Ledger'
    <3>1. RequestOK(r)'
        BY <2>1, <2>3, JudgedCode
    <3>2. Judge(r, c, answer).at # "unsent"
        BY <2>1, JudgeType DEF Judging
    <3> QED
        BY <2>1, <2>3, <3>1, <3>2, MovedLedger
  <2> QED
      BY <1>3, <2>2, <2>3, CheckCases
<1>4. CASE CompleteAtStore(r)
    BY <1>4, OverLedger DEF CompleteAtStore, auxVars
<1> QED
    BY <1>1, <1>2, <1>3, <1>4, SendLedger, StatusLedger, SubstituteLedger, InsertLedger DEF RequestStep

LEMMA LedgerStep ==
    ASSUME Typed, Ledger, [Next]_vars
    PROVE  Ledger'
<1>1. ASSUME NEW c \in Codes, NEW who \in {"player", "other"}, Activate(c, who) PROVE Ledger'
  <2>1. UNCHANGED <<request, row>>
      BY <1>1 DEF Activate
  <2>2. Honest
      BY <1>1 DEF Honest, Activate, Typed
  <2>3. \A q \in Requests : RequestOK(q)' /\ RowOK(q)'
    <3> TAKE q \in Requests
    <3>1. row[q] = NoRow \/ request'[q].at # "unsent"
        BY <2>1 DEF Ledger, RowOK
    <3> QED
        BY <2>1, <2>2, <3>1, RequestKept, RowKept DEF Ledger
  <2> QED
      BY <2>3 DEF Ledger
<1>2. CASE UNCHANGED <<factVars, request, row, deeds>>
    BY <1>2 DEF Ledger, RequestOK, RowOK, Live, factVars
<1>3. CASE Restart
  <2>1. Honest /\ UNCHANGED <<factVars, row, deeds>>
      BY <1>3 DEF Restart, Honest, factVars
  <2>2. \A q \in Requests : RequestOK(q)' /\ RowOK(q)'
    <3> TAKE q \in Requests
    <3>1. row'[q] = row[q] /\ (request'[q] = request[q] \/ request'[q].at = "lost")
        BY <1>3 DEF Restart
    <3>2. row[q] = NoRow \/ request'[q].at # "unsent"
        BY <3>1 DEF Ledger, RowOK
    <3>3. RowOK(q)'
        BY <2>1, <3>1, <3>2, RowKept DEF Ledger
    <3>4. RequestOK(q)'
      <4>1. CASE request'[q].at = "lost"
          BY <4>1 DEF RequestOK, Live
      <4> QED
          BY <2>1, <3>1, <4>1, RequestKept DEF Ledger
    <3> QED
        BY <3>3, <3>4
  <2> QED
      BY <2>1, <2>2 DEF Ledger, factVars
<1>4. ASSUME NEW r \in Requests, TakeRow(r) PROVE Ledger'
    BY <1>2, <1>4 DEF TakeRow, auxVars
<1>5. ASSUME NEW o \in Originals, Reopen(o) PROVE Ledger'
    BY <1>2, <1>5 DEF Reopen, auxVars
<1>6. CASE BeginReview \/ AskUsed \/ Pass
    BY <1>2, <1>6 DEF BeginReview, AskUsed, Pass, auxVars
<1>7. CASE UNCHANGED vars
    BY <1>2, <1>7 DEF vars, auxVars
<1> QED
    BY <1>1, <1>3, <1>4, <1>5, <1>6, <1>7, RequestLedger DEF Next

LEMMA InitLedger == Init => Ledger
<1> SUFFICES ASSUME Init PROVE Ledger
    OBVIOUS
<1>1. ASSUME NEW r \in Requests PROVE RequestOK(r) /\ RowOK(r)
    BY DEF Init, NoRequest, RequestOK, RowOK, Live
<1> QED
    BY <1>1 DEF Ledger

LEMMA AlwaysLedger == Spec => [](Typed /\ Ledger)
<1>1. Init => Typed /\ Ledger
    BY InitTyped, InitLedger
<1>2. Typed /\ Ledger /\ [Next]_vars => (Typed /\ Ledger)'
    BY TypedStep, LedgerStep
<1> QED
    BY <1>1, <1>2, PTL DEF Spec

\* Requests, rows, codes and the review are well typed; in particular what a request has
\* collected is of its own order, and a new code has an amount.
THEOREM CreationTyped == Spec => []TypeOK
<1>1. Typed /\ Ledger => TypeOK
  <2> SUFFICES ASSUME Typed, Ledger PROVE TypeOK
      OBVIOUS
  <2>1. ASSUME NEW r \in Requests
        PROVE  /\ request[r].at \in {"unsent", "find", "get", "status", "check", "replace", "fetch",
                      "complete", "over", "lost"}
               /\ Live(r) => /\ request[r].order \in Originals
                             /\ request[r].left \cup request[r].redeemed \cup request[r].broken
                                   \cup request[r].doubt \subseteq Given[request[r].order]
                             /\ DOMAIN request[r].new \subseteq Spares
               /\ row[r] # NoRow =>
                     /\ row[r].order \in Originals
                     /\ DOMAIN row[r].unused \subseteq Codes
                     /\ \A c \in DOMAIN row[r].unused : row[r].unused[c] \in Amounts
    <3>1. request[r].at \in {"unsent", "find", "get", "status", "check", "replace", "fetch",
                      "complete", "over", "lost"}
        BY DEF Typed, LiveRequests, Lost, NoRequest, OverRequest, Early, Judging
    <3>2. ASSUME Live(r)
          PROVE  /\ request[r].order \in Originals
                 /\ request[r].left \cup request[r].redeemed \cup request[r].broken
                       \cup request[r].doubt \subseteq Given[request[r].order]
                 /\ DOMAIN request[r].new \subseteq Spares
      <4>1. request[r].order \in Originals /\ request[r].new \in Amounted(Spares)
          BY <3>2, LiveIs DEF LiveRequests
      <4>2. DOMAIN request[r].new \subseteq Spares
          BY <4>1, NewType
      <4> QED
          BY <3>2, <4>1, <4>2 DEF Ledger, RequestOK
    <3>3. ASSUME row[r] # NoRow
          PROVE  /\ row[r].order \in Originals
                 /\ DOMAIN row[r].unused \subseteq Codes
                 /\ \A c \in DOMAIN row[r].unused : row[r].unused[c] \in Amounts
      <4>1. row[r].order \in Originals /\ row[r].unused \in Amounted(Codes)
          BY <3>3, RowIs DEF Rows
      <4> QED
          BY <4>1, NewType
    <3> QED
        BY <3>1, <3>2, <3>3
  <2>2. /\ review.at \in {"none", "taken", "ask", "banned", "completed"}
        /\ review.row \in 0..MaxRequests /\ review.withCodes \in BOOLEAN
      BY DEF Typed, Reviews
  <2> QED
      BY <2>1, <2>2 DEF TypeOK, Typed
<1> QED
    BY <1>1, AlwaysLedger, PTL

\* Whatever the store answered, refused or did not answer, every code of a request is in
\* exactly one place of the row that check_unused_codes made of it.
THEOREM CodesInOnePlace == Spec => []CodesAccounted
<1>1. Typed /\ Ledger => CodesAccounted
  <2> SUFFICES ASSUME Typed, Ledger, NEW r \in Requests, row[r] # NoRow,
                      NEW c \in Given[row[r].order]
               PROVE  Cardinality({p \in {"unused", "redeemed", "broken"} :
                          c \in CASE p = "unused" -> DOMAIN row[r].unused
                                  [] p = "redeemed" -> row[r].redeemed
                                  [] OTHER -> row[r].broken}) = 1
      BY DEF CodesAccounted
  <2> DEFINE Place(p) == CASE p = "unused" -> DOMAIN row[r].unused
                           [] p = "redeemed" -> row[r].redeemed
                           [] OTHER -> row[r].broken
             P == {p \in {"unused", "redeemed", "broken"} : c \in Place(p)}
  <2>1. row[r].order \in Originals
      BY RowIs DEF Rows
  <2>2. c \notin Spares
      BY <2>1, CodeSets
  <2>3. c \in DOMAIN row[r].unused <=> c \notin row[r].redeemed \cup row[r].broken
      BY <2>2 DEF Ledger, RowOK
  <2>4. ~(c \in row[r].redeemed /\ c \in row[r].broken)
      BY DEF Ledger, RowOK
  <2>5. /\ Place("unused") = DOMAIN row[r].unused
        /\ Place("redeemed") = row[r].redeemed
        /\ Place("broken") = row[r].broken
      OBVIOUS
  <2> HIDE DEF Place
  <2>6. \E p \in {"unused", "redeemed", "broken"} : P = {p}
      BY <2>3, <2>4, <2>5
  <2>7. \A p : Cardinality({p}) = 1
      BY FS_Singleton
  <2> HIDE DEF P
  <2>8. Cardinality(P) = 1
      BY <2>6, <2>7
  <2> QED
      BY <2>8 DEF P, Place
<1> QED
    BY <1>1, AlwaysLedger, PTL
----------------------------------------------------------------------------
(* The review.                                                              *)

LEMMA ReviewedRow ==
    ASSUME Typed, review.at # "none"
    PROVE  /\ review.row \in Requests
           /\ row[review.row] \in Rows
           /\ DOMAIN row[review.row].unused \subseteq Codes
<1>1. review.row \in Requests /\ row[review.row] \in Rows
    BY RowIs DEF Typed
<1>2. row[review.row].unused \in Amounted(Codes)
    BY <1>1 DEF Rows
<1> QED
    BY <1>1, <1>2, NewType

\* A row once inserted stays, and so do the facts about its codes.
LEMMA ReviewKept ==
    ASSUME Typed, ReviewInv, UNCHANGED review,
           review.at # "none" => row'[review.row] = row[review.row],
           \A c \in Codes : used[c] # "no" => used'[c] = used[c]
    PROVE  ReviewInv'
<1>1. CASE review.at = "none"
    BY <1>1 DEF ReviewInv
<1>2. CASE review.at # "none"
  <2>1. DOMAIN row[review.row].unused \subseteq Codes /\ row'[review.row] = row[review.row]
      BY <1>2, ReviewedRow
  <2>2. \A c \in DOMAIN row[review.row].unused : used[c] # "no" => used'[c] = used[c]
      BY <2>1
  <2>3. \A c \in DOMAIN row[review.row].unused : Blamed(c) => Blamed(c)'
      BY <2>1, <2>2 DEF Blamed
  <2> QED
      BY <2>1, <2>2, <2>3 DEF ReviewInv
<1> QED
    BY <1>1, <1>2

\* The rows already there are nobody's to change.
LEMMA RowsStay ==
    ASSUME Typed, Ledger, [Next]_vars
    PROVE  \A r \in Requests : row[r] # NoRow => row'[r] = row[r]
<1>1. ASSUME NEW r \in Requests, RequestStep(r)
      PROVE  \A q \in Requests : row[q] # NoRow => row'[q] = row[q]
  <2>1. CASE Insert(r)
      BY <2>1, InsertCases
  <2>2. CASE ~Insert(r)
    <3>1. row' = row
        BY <1>1, <2>2 DEF RequestStep, Send, Find, GetOrder, ChangeStatus, CheckCode, Substitute,
            CompleteAtStore, auxVars
    <3> QED
        BY <3>1
  <2> QED
      BY <2>1, <2>2
<1>2. CASE ~\E r \in Requests : RequestStep(r)
  <2>1. row' = row
      BY <1>2 DEF Next, TakeRow, Reopen, Activate, BeginReview, AskUsed, Pass, Restart, vars
  <2> QED
      BY <2>1
<1> QED
    BY <1>1, <1>2

LEMMA ReviewStep ==
    ASSUME Typed, Ledger, ReviewInv, [Next]_vars
    PROVE  ReviewInv'
<1>1. \A r \in Requests : row[r] # NoRow => row'[r] = row[r]
    BY RowsStay
<1>2. review.at # "none" => row'[review.row] = row[review.row]
    BY <1>1 DEF Typed
<1>3. CASE UNCHANGED <<review, used>>
    BY <1>2, <1>3, ReviewKept
<1>4. ASSUME NEW r \in Requests, RequestStep(r) PROVE UNCHANGED <<review, used>>
    BY <1>4 DEF RequestStep, Send, Find, GetOrder, ChangeStatus, CheckCode, Substitute, Insert,
        CompleteAtStore, auxVars, factVars
<1>5. ASSUME NEW c \in Codes, NEW who \in {"player", "other"}, Activate(c, who) PROVE ReviewInv'
  <2>1. \A d \in Codes : used[d] # "no" => used'[d] = used[d]
      BY <1>5 DEF Activate, Typed
  <2> QED
      BY <1>2, <1>5, <2>1, ReviewKept DEF Activate
<1>6. ASSUME NEW r \in Requests, TakeRow(r) PROVE ReviewInv'
    BY <1>6 DEF TakeRow, NoReview, ReviewInv
<1>7. CASE BeginReview
  <2>1. /\ review'.row = review.row /\ row' = row /\ review'.withCodes = review.withCodes
        /\ \/ /\ review.withCodes /\ review'.at = "ask"
              /\ review'.left = DOMAIN row[review.row].unused /\ review'.doubt = {}
           \/ ~review.withCodes /\ review'.at = "completed"
      BY <1>7 DEF BeginReview, Typed, Reviews, auxVars
  <2> QED
      BY <2>1 DEF ReviewInv
<1>8. CASE AskUsed
  <2>1. /\ review.at = "ask" /\ review \in Reviews /\ row' = row /\ used' = used
      BY <1>8 DEF AskUsed, Typed, factVars, auxVars
  <2>2. PICK c \in review.left :
            \/ review' = [review EXCEPT !.left = @ \ {c}, !.doubt = @ \cup {c}]
            \/ Reported(c) = "player" /\ review' = [review EXCEPT !.left = @ \ {c}]
            \/ Reported(c) = "no" /\ review' = [review EXCEPT !.at = "taken", !.left = {}, !.doubt = {}]
            \/ Reported(c) = "other" /\ review' = [review EXCEPT !.at = "banned"]
      BY <1>8 DEF AskUsed
  <2>3. review.left \subseteq DOMAIN row[review.row].unused
      BY <2>1 DEF ReviewInv
  <2>4. /\ review.withCodes
        /\ \A d \in DOMAIN row[review.row].unused \ (review.left \cup review.doubt) :
              used[d] = "player"
      BY <2>1 DEF ReviewInv
  <2>5. CASE review' = [review EXCEPT !.left = @ \ {c}, !.doubt = @ \cup {c}]
    <3>1. /\ review'.at = "ask" /\ review'.row = review.row /\ review'.left = review.left \ {c}
          /\ review'.doubt = review.doubt \cup {c} /\ review'.withCodes = review.withCodes
        BY <2>1, <2>5 DEF Reviews
    <3> QED
        BY <2>1, <2>3, <2>4, <3>1 DEF ReviewInv
  <2>6. CASE Reported(c) = "player" /\ review' = [review EXCEPT !.left = @ \ {c}]
    <3>1. /\ review'.at = "ask" /\ review'.row = review.row /\ review'.left = review.left \ {c}
          /\ review'.doubt = review.doubt /\ review'.withCodes = review.withCodes
        BY <2>1, <2>6 DEF Reviews
    <3>2. used[c] = "player"
        BY <2>6 DEF Reported, Seen
    <3> QED
        BY <2>1, <2>3, <2>4, <3>1, <3>2 DEF ReviewInv
  <2>7. CASE review' = [review EXCEPT !.at = "taken", !.left = {}, !.doubt = {}]
    <3>1. review'.at = "taken"
        BY <2>1, <2>7 DEF Reviews
    <3> QED
        BY <3>1 DEF ReviewInv
  <2>8. CASE Reported(c) = "other" /\ review' = [review EXCEPT !.at = "banned"]
    <3>1. review'.at = "banned" /\ review'.row = review.row
        BY <2>1, <2>8 DEF Reviews
    <3>2. Blamed(c)'
        BY <2>1, <2>8, <3>1 DEF Blamed, Reported, Seen
    <3> QED
        BY <2>1, <2>3, <3>1, <3>2 DEF ReviewInv
  <2> QED
      BY <2>2, <2>5, <2>6, <2>7, <2>8
<1>9. CASE Pass
  <2>1. /\ review.at = "ask" /\ review.left = {} /\ row' = row /\ used' = used
        /\ review'.at = "completed" /\ review'.row = review.row
        /\ review'.left = review.left /\ review'.doubt = review.doubt
        /\ review'.withCodes = review.withCodes
      BY <1>9 DEF Pass, Typed, Reviews, factVars, auxVars
  <2> QED
      BY <2>1 DEF ReviewInv
<1>10. ASSUME NEW o \in Originals, Reopen(o) PROVE UNCHANGED <<review, used>>
    BY <1>10 DEF Reopen, factVars, auxVars
<1>11. CASE Restart \/ UNCHANGED vars
    BY <1>3, <1>11 DEF Restart, factVars, vars
<1> QED
    BY <1>3, <1>4, <1>5, <1>6, <1>7, <1>8, <1>9, <1>10, <1>11 DEF Next

LEMMA AlwaysReviewed == Spec => [](Typed /\ Ledger /\ ReviewInv)
<1>1. Init => ReviewInv
    BY DEF Init, NoReview, ReviewInv
<1>2. Typed /\ Ledger /\ ReviewInv /\ [Next]_vars => ReviewInv'
    BY ReviewStep
<1> QED
    BY <1>1, <1>2, AlwaysLedger, PTL DEF Spec

\* A worker is banned by the review only if a code of the order was activated for another id,
\* by himself after he took it or before by somebody else: then the store had not told of the
\* code, or it is a substitute nobody checked. Only where the order names no player need the
\* code not have gone to anybody else.
THEOREM BansHaveCause == Spec => []BannedForCause
<1>1. Typed /\ Ledger /\ ReviewInv => BannedForCause
  <2> SUFFICES ASSUME Typed, Ledger, ReviewInv, review.at = "banned"
               PROVE  \E c \in DOMAIN row[review.row].unused :
                          \/ row[review.row].order \in Nameless /\ used[c] # "no"
                          \/ /\ used[c] = "other"
                             /\ \/ c \in deeds
                                \/ c \in row[review.row].doubt
                                \/ c \notin Given[row[review.row].order]
      BY DEF BannedForCause
  <2>1. PICK c \in DOMAIN row[review.row].unused : Blamed(c)
      BY DEF ReviewInv
  <2>2. review.row \in Requests /\ row[review.row] # NoRow
      BY DEF Typed
  <2>3. used[c] = "other" /\ c \in Given[row[review.row].order] =>
            c \in deeds \cup row[review.row].doubt
      BY <2>1, <2>2 DEF Ledger, RowOK
  <2> QED
      BY <2>1, <2>3 DEF Blamed
<1> QED
    BY <1>1, AlwaysReviewed, PTL

\* An order the review lets pass for a worker with codes has all its codes activated for the
\* player, but for those the store would not tell about.
THEOREM PassedIsDone == Spec => []CompletedIsDone
<1>1. ReviewInv => CompletedIsDone
    BY DEF ReviewInv, CompletedIsDone
<1> QED
    BY <1>1, AlwaysReviewed, PTL
----------------------------------------------------------------------------
(* How a request goes on once it is sent and until it inserts its row.      *)

GoesOn(r) ==
    /\ request'[r].at \in {"get", "status"} \cup Judging
    /\ request'[r].order = request[r].order
    /\ request[r].at # "complete"
    /\ request[r].at = "find" => RowsOf(request[r].order) = {}
    /\ request[r].broken \subseteq request'[r].broken
    /\ ~Substitute(r) => DOMAIN request'[r].new = DOMAIN request[r].new

\* It ends with a row there or the moderators told, and with no code given back.
GivesUp(r) ==
    /\ request'[r].at = "over"
    /\ RowsOf(request[r].order) # {} \/ request[r].order \in told'
    /\ request[r].at = "complete" \/ request[r].broken = {}

BreaksOff(r) == request'[r].at = "lost" /\ request'[r].order = request[r].order

Continues(r) ==
    /\ Live(r) /\ (GoesOn(r) \/ GivesUp(r) \/ BreaksOff(r))
    /\ \A q \in Requests : q # r => request'[q] = request[q]
    /\ UNCHANGED <<row, overlapped>>
    /\ told \subseteq told'

LEMMA SetIs ==
    ASSUME NEW r \in Requests, Typed, NEW x, Set(r, x)
    PROVE  request'[r] = x /\ \A q \in Requests : q # r => request'[q] = request[q]
    BY DEF Set, Typed

LEMMA GoesFrom ==
    ASSUME NEW r \in Requests, Typed, Live(r), NEW at, Goto(r, at)
    PROVE  /\ request'[r].at = at /\ request'[r].order = request[r].order
           /\ request'[r].broken = request[r].broken /\ request'[r].new = request[r].new
<1>1. request'[r] = [request[r] EXCEPT !.at = at] /\ request[r] \in LiveRequests
    BY SetIs, LiveIs DEF Goto
<1> QED
    BY <1>1 DEF LiveRequests

LEMMA OneMoves ==
    ASSUME NEW r \in Requests, Typed, RequestStep(r)
    PROVE  \A q \in Requests : q # r => request'[q] = request[q]
<1>1. \E x : Set(r, x)
  <2>1. CASE \E o \in Originals : Send(r, o)
      BY <2>1 DEF Send
  <2>2. CASE Find(r) \/ GetOrder(r) \/ Insert(r) \/ CompleteAtStore(r)
      BY <2>2 DEF Find, GetOrder, Insert, CompleteAtStore, Refuse, Goto, Over
  <2>3. CASE ChangeStatus(r) \/ CheckCode(r) \/ Substitute(r)
      BY <2>3 DEF ChangeStatus, CheckCode, Substitute, Refuse, Crash, Over
  <2> QED
      BY <2>1, <2>2, <2>3 DEF RequestStep
<1> QED
    BY <1>1, SetIs

LEMMA FindContinues ==
    ASSUME NEW r \in Requests, Typed, Ledger, Find(r)
    PROVE  Live(r) /\ (GoesOn(r) \/ GivesUp(r) \/ BreaksOff(r))
<1>1. Live(r) /\ request[r].at = "find" /\ request[r].broken = {} /\ ~Substitute(r)
    BY DEF Find, At, Live, Ledger, RequestOK, Early, Substitute
<1>2. CASE RowsOf(request[r].order) = {}
  <2>1. Goto(r, "get")
      BY <1>2 DEF Find
  <2> QED
      BY <1>1, <1>2, <2>1, GoesFrom DEF GoesOn
<1>3. CASE RowsOf(request[r].order) # {}
  <2>1. request'[r].at = "over"
      BY <1>3, SetIs DEF Find, Over
  <2> QED
      BY <1>1, <1>3, <2>1 DEF GivesUp
<1> QED
    BY <1>2, <1>3

LEMMA GetContinues ==
    ASSUME NEW r \in Requests, Typed, Ledger, GetOrder(r)
    PROVE  Live(r) /\ (GoesOn(r) \/ GivesUp(r) \/ BreaksOff(r))
<1>1. Live(r) /\ request[r].at = "get" /\ request[r].broken = {} /\ ~Substitute(r)
    BY DEF GetOrder, At, Live, Ledger, RequestOK, Early, Substitute
<1>2. CASE Goto(r, "status")
    BY <1>1, <1>2, GoesFrom DEF GoesOn
<1>3. CASE Refuse(r)
  <2>1. request'[r].at = "over"
      BY <1>3, SetIs DEF Refuse, Over
  <2> QED
      BY <1>1, <1>3, <2>1 DEF GivesUp, Refuse
<1> QED
    BY <1>2, <1>3 DEF GetOrder

LEMMA CrashContinues ==
    ASSUME NEW r \in Requests, Typed, Crash(r)
    PROVE  BreaksOff(r)
<1>1. request'[r] = [at |-> "lost", order |-> request[r].order]
    BY SetIs DEF Crash
<1> QED
    BY <1>1 DEF BreaksOff

LEMMA StatusContinues ==
    ASSUME NEW r \in Requests, Typed, Ledger, ChangeStatus(r)
    PROVE  Live(r) /\ (GoesOn(r) \/ GivesUp(r) \/ BreaksOff(r))
<1>1. Live(r) /\ request[r].at = "status" /\ request[r].broken = {} /\ ~Substitute(r)
    BY DEF ChangeStatus, At, Live, Ledger, RequestOK, Early, Substitute
<1>2. CASE Set(r, [request[r] EXCEPT !.at = "check", !.left = Given[request[r].order]])
  <2>1. /\ request'[r] = [request[r] EXCEPT !.at = "check", !.left = Given[request[r].order]]
        /\ request[r] \in LiveRequests
      BY <1>1, <1>2, SetIs, LiveIs
  <2>2. /\ request'[r].at = "check" /\ request'[r].order = request[r].order
        /\ request'[r].broken = request[r].broken /\ request'[r].new = request[r].new
      BY <2>1 DEF LiveRequests
  <2> QED
      BY <1>1, <2>2 DEF GoesOn, Judging
<1>3. CASE Refuse(r)
  <2>1. request'[r].at = "over"
      BY <1>3, SetIs DEF Refuse, Over
  <2> QED
      BY <1>1, <1>3, <2>1 DEF GivesUp, Refuse
<1> QED
    BY <1>1, <1>2, <1>3, CrashContinues DEF ChangeStatus

\* What the answer for a code changes of its request.
LEMMA JudgeIs ==
    ASSUME NEW r \in Requests, Typed, request[r].at = "check", NEW c \in request[r].left, NEW answer
    PROVE  /\ Judge(r, c, answer).order = request[r].order
           /\ Judge(r, c, answer).new = request[r].new
           /\ answer \in {"silent", "good", "bad", "player"} =>
                Judge(r, c, answer).broken = request[r].broken
           /\ answer \notin {"silent", "good", "bad", "player"} =>
                Judge(r, c, answer).broken = request[r].broken \cup {c}
<1>1. request[r] \in LiveRequests
    BY LiveIs DEF Live
<1> QED
    BY <1>1 DEF Judge, LiveRequests

LEMMA CheckContinues ==
    ASSUME NEW r \in Requests, Typed, Ledger, CheckCode(r)
    PROVE  Live(r) /\ (GoesOn(r) \/ GivesUp(r) \/ BreaksOff(r))
<1> SUFFICES ASSUME ~Crash(r) PROVE Live(r) /\ GoesOn(r)
    BY CheckCases, CrashContinues
<1>1. Live(r) /\ request[r].at = "check" /\ ~Substitute(r)
    BY CheckCases DEF Substitute
<1>2. PICK c \in request[r].left : \E answer : Set(r, Judge(r, c, answer))
    BY CheckCases
<1>3. PICK answer : request'[r] = Judge(r, c, answer)
    BY <1>2, SetIs
<1>4. /\ request'[r].order = request[r].order /\ request'[r].new = request[r].new
      /\ request[r].broken \subseteq request'[r].broken
  <2>1. /\ Judge(r, c, answer).order = request[r].order
        /\ Judge(r, c, answer).new = request[r].new
        /\ \/ Judge(r, c, answer).broken = request[r].broken
           \/ Judge(r, c, answer).broken = request[r].broken \cup {c}
      BY <1>1, JudgeIs
  <2> QED
      BY <1>3, <2>1
<1>5. request'[r].at \in Judging
    BY <1>1, <1>3, JudgeType
<1> QED
    BY <1>1, <1>4, <1>5 DEF GoesOn

LEMMA SubstituteContinues ==
    ASSUME NEW r \in Requests, Typed, Ledger, Substitute(r)
    PROVE  Live(r) /\ (GoesOn(r) \/ GivesUp(r) \/ BreaksOff(r))
<1>1. Live(r) /\ request[r].at \in {"replace", "fetch"} /\ request[r] \in LiveRequests
    BY SubstituteCases, LiveIs
<1>2. \A x : x = Unsubstituted(r) \/ (\E n \in Spares : x = Substituted(r, n)) =>
        /\ x.at = "check" /\ x.order = request[r].order /\ x.broken = request[r].broken
    BY <1>1 DEF Unsubstituted, Substituted, LiveRequests
<1>3. Crash(r) \/ Set(r, Unsubstituted(r)) \/ \E n \in Spares : Set(r, Substituted(r, n))
    BY SubstituteCases
<1>4. Crash(r) \/ request'[r] = Unsubstituted(r) \/ \E n \in Spares : request'[r] = Substituted(r, n)
    BY <1>3, SetIs
<1>5. CASE ~Crash(r)
  <2>1. request'[r].at = "check" /\ request'[r].order = request[r].order
        /\ request'[r].broken = request[r].broken
      BY <1>2, <1>4, <1>5
  <2> QED
      BY <1>1, <2>1 DEF GoesOn, Judging
<1> QED
    BY <1>1, <1>5, CrashContinues

LEMMA Continue ==
    ASSUME NEW r \in Requests, Typed, Ledger, RequestStep(r),
           ~Insert(r), ~\E o \in Originals : Send(r, o)
    PROVE  Continues(r)
<1>1. CASE CompleteAtStore(r)
  <2>1. Live(r) /\ request[r].at = "complete"
      BY <1>1 DEF CompleteAtStore, At, Live
  <2>2. row[r].order = request[r].order
      BY <2>1 DEF Ledger, RequestOK
  <2>3. r \in RowsOf(request[r].order)
      BY <2>2 DEF RowsOf
  <2>4. request'[r].at = "over"
      BY <1>1, SetIs DEF CompleteAtStore, Over
  <2>5. GivesUp(r)
      BY <2>1, <2>3, <2>4 DEF GivesUp
  <2> QED
      BY <1>1, <2>1, <2>5, OneMoves DEF Continues, CompleteAtStore, auxVars
<1>2. CASE Find(r) \/ GetOrder(r) \/ ChangeStatus(r) \/ CheckCode(r) \/ Substitute(r)
  <2>1. Live(r) /\ (GoesOn(r) \/ GivesUp(r) \/ BreaksOff(r))
      BY <1>2, FindContinues, GetContinues, StatusContinues, CheckContinues, SubstituteContinues
  <2>2. UNCHANGED <<row, overlapped>> /\ told \subseteq told'
      BY <1>2 DEF Find, GetOrder, ChangeStatus, CheckCode, Substitute, Refuse, auxVars
  <2> QED
      BY <2>1, <2>2, OneMoves DEF Continues
<1> QED
    BY <1>1, <1>2 DEF RequestStep

\* All the steps there are, for who counts requests and rows.
LEMMA StepIs ==
    ASSUME Typed, Ledger, [Next]_vars
    PROVE  \/ \E r \in Requests, o \in Originals : Send(r, o)
           \/ \E r \in Requests : Insert(r)
           \/ \E r \in Requests : RequestStep(r) /\ Continues(r)
           \/ Restart
           \/ UNCHANGED <<request, row, told, overlapped, mark>> /\ (\A o \in Originals : store'[o] # "open" => store[o] # "open")
<1>1. ASSUME NEW r \in Requests, RequestStep(r)
      PROVE  \/ \E o \in Originals : Send(r, o)
             \/ Insert(r)
             \/ RequestStep(r) /\ Continues(r)
    BY <1>1, Continue
<1>2. ASSUME NEW o \in Originals, Reopen(o)
      PROVE  /\ UNCHANGED <<request, row, told, overlapped, mark>>
             /\ \A p \in Originals : store'[p] # "open" => store[p] # "open"
    BY <1>2 DEF Reopen, auxVars, Typed
<1>3. ASSUME NEW r \in Requests, TakeRow(r) PROVE UNCHANGED <<request, row, told, overlapped, mark, store>>
    BY <1>3 DEF TakeRow, auxVars, storeVars
<1>4. ASSUME NEW c \in Codes, NEW who \in {"player", "other"}, Activate(c, who)
      PROVE  UNCHANGED <<request, row, told, overlapped, mark, store>>
    BY <1>4 DEF Activate, storeVars
<1>5. CASE BeginReview \/ AskUsed \/ Pass \/ UNCHANGED vars
  <2>1. UNCHANGED <<request, row, told, overlapped, mark, store>>
      BY <1>5 DEF BeginReview, AskUsed, Pass, vars, auxVars, storeVars
  <2> QED
      BY <2>1
<1> QED
    BY <1>1, <1>2, <1>3, <1>4, <1>5 DEF Next
----------------------------------------------------------------------------
(* One request and one row per order.                                       *)

LEMMA SentIs ==
    ASSUME NEW r \in Requests, NEW o \in Originals, Typed, Ledger, Send(r, o)
    PROVE  /\ ~Live(r) /\ request[r].at = "unsent" /\ row[r] = NoRow
           /\ request'[r] = Blank(o) /\ Blank(o).at = "find" /\ Blank(o).order = o
           /\ Blank(o).broken = {} /\ DOMAIN Blank(o).new = {}
           /\ \A q \in Requests : q # r => request'[q] = request[q]
           /\ overlapped' = IF InFlight(o) = {} THEN overlapped ELSE overlapped \cup {o}
           /\ UNCHANGED <<store, mark, row, told>>
<1>1. ~Live(r) /\ request[r].at = "unsent" /\ row[r] = NoRow
    BY DEF Send, At, Live, Ledger, RowOK
<1>2. request'[r] = Blank(o) /\ \A q \in Requests : q # r => request'[q] = request[q]
    BY SetIs DEF Send
<1>3. Blank(o).at = "find" /\ Blank(o).order = o /\ Blank(o).broken = {} /\ DOMAIN Blank(o).new = {}
    BY BlankType DEF Blank
<1> QED
    BY <1>1, <1>2, <1>3 DEF Send, storeVars

LEMMA AloneStep ==
    ASSUME Typed, Ledger, OnlyOne, [Next]_vars
    PROVE  OnlyOne'
<1>1. ASSUME NEW r \in Requests, NEW o \in Originals, Send(r, o) PROVE OnlyOne'
  <2> SUFFICES ASSUME NEW p \in Originals, p \notin overlapped' PROVE Alone(p)'
      BY DEF OnlyOne
  <2>1. /\ ~Live(r) /\ request'[r].at = "find" /\ request'[r].order = o /\ row' = row
        /\ \A q \in Requests : q # r => request'[q] = request[q]
        /\ p \notin overlapped /\ (p = o => InFlight(o) = {})
      BY <1>1, SentIs
  <2>2. Alone(p)
      BY <2>1 DEF OnlyOne
  <2>3. RowsOf(p)' = RowsOf(p)
      BY <2>1 DEF RowsOf
  <2>4. \A q \in InFlight(p)' : q # r => q \in InFlight(p) /\ request'[q] = request[q]
      BY <2>1 DEF InFlight, Live
  <2>5. r \in InFlight(p)' => p = o
      BY <2>1 DEF InFlight
  <2> QED
      BY <2>1, <2>2, <2>3, <2>4, <2>5 DEF Alone
<1>2. ASSUME NEW r \in Requests, Insert(r) PROVE OnlyOne'
  <2> SUFFICES ASSUME NEW p \in Originals, p \notin overlapped' PROVE Alone(p)'
      BY DEF OnlyOne
  <2>1. /\ Live(r) /\ request[r].at = "check" /\ row'[r].order = request[r].order
        /\ \A q \in Requests : q # r => row'[q] = row[q] /\ request'[q] = request[q]
        /\ \/ request'[r].at = "over"
           \/ request'[r].at = "complete" /\ request'[r].order = request[r].order
        /\ overlapped' = overlapped
      BY <1>2, InsertCases, InsertedIs
  <2>2. Alone(p)
      BY <2>1 DEF OnlyOne
  <2>3. \A q \in InFlight(p)' : q \in InFlight(p) /\ (q # r => request'[q] = request[q])
      BY <2>1 DEF InFlight, Live
  <2>4. \A q \in RowsOf(p)' : q # r => q \in RowsOf(p)
      BY <2>1 DEF RowsOf
  <2>5. CASE p = request[r].order
    <3>1. r \in InFlight(p) /\ RowsOf(p) = {}
        BY <2>1, <2>2, <2>5 DEF InFlight, Alone
    <3> QED
        BY <2>1, <2>2, <2>3, <2>4, <3>1 DEF Alone, InFlight, Live
  <2>6. CASE p # request[r].order
    <3>1. r \notin InFlight(p) /\ r \notin RowsOf(p)'
        BY <2>1, <2>6 DEF InFlight, RowsOf
    <3>2. RowsOf(p)' \subseteq RowsOf(p)
        BY <2>4, <3>1 DEF RowsOf
    <3> QED
        BY <2>2, <2>3, <3>1, <3>2 DEF Alone
  <2> QED
      BY <2>5, <2>6
<1>3. ASSUME NEW r \in Requests, Continues(r) PROVE OnlyOne'
  <2> SUFFICES ASSUME NEW p \in Originals, p \notin overlapped' PROVE Alone(p)'
      BY DEF OnlyOne
  <2>1. /\ Live(r) /\ (GoesOn(r) \/ GivesUp(r) \/ BreaksOff(r)) /\ row' = row
        /\ \A q \in Requests : q # r => request'[q] = request[q]
        /\ p \notin overlapped
      BY <1>3 DEF Continues
  <2>2. Alone(p)
      BY <2>1 DEF OnlyOne
  <2>3. RowsOf(p)' = RowsOf(p)
      BY <2>1 DEF RowsOf
  <2>4. Live(r)' => GoesOn(r)
      BY <2>1 DEF GivesUp, BreaksOff, Live
  <2>5. \A q \in InFlight(p)' : q \in InFlight(p) /\ (q # r => request'[q] = request[q])
      BY <2>1, <2>4 DEF InFlight, Live, GoesOn
  <2>6. r \in InFlight(p)' => RowsOf(p) = {}
    <3> SUFFICES ASSUME r \in InFlight(p)' PROVE RowsOf(p) = {}
        OBVIOUS
    <3>1. GoesOn(r) /\ r \in InFlight(p) /\ request[r].order = p
        BY <2>4, <2>5 DEF InFlight
    <3> QED
        BY <2>2, <3>1 DEF Alone, GoesOn
  <2> QED
      BY <2>2, <2>3, <2>5, <2>6 DEF Alone
<1>4. CASE Restart
  <2>1. \A p \in Originals : InFlight(p)' = {} /\ RowsOf(p)' = RowsOf(p) /\ overlapped' = overlapped
      BY <1>4 DEF Restart, InFlight, Live, RowsOf
  <2> QED
      BY <2>1 DEF OnlyOne, Alone
<1>5. CASE UNCHANGED <<request, row, told, overlapped, mark>>
    BY <1>5 DEF OnlyOne, Alone, InFlight, RowsOf, Live
<1> QED
    BY <1>1, <1>2, <1>3, <1>4, <1>5, StepIs

LEMMA AlwaysAlone == Spec => [](Typed /\ Ledger /\ OnlyOne)
<1>1. Init => OnlyOne
  <2> SUFFICES ASSUME Init PROVE OnlyOne
      OBVIOUS
  <2>1. \A o \in Originals : InFlight(o) = {} /\ RowsOf(o) = {}
      BY CreationAssumption DEF Init, InFlight, Live, RowsOf, NoRequest, NoRow
  <2> QED
      BY <2>1 DEF OnlyOne, Alone
<1>2. Typed /\ Ledger /\ OnlyOne /\ [Next]_vars => OnlyOne'
    BY AloneStep
<1> QED
    BY <1>1, <1>2, AlwaysLedger, PTL DEF Spec

\* An order gets one row, however often it is sent, unless two requests for it overlap.
THEOREM OrdersHaveOneRow == Spec => []OneRowPerOrder
<1>1. OnlyOne => OneRowPerOrder
  <2> SUFFICES ASSUME OnlyOne, NEW o \in Originals \ overlapped
               PROVE  Cardinality(RowsOf(o)) <= 1
      BY DEF OneRowPerOrder
  <2>1. \A q, r \in RowsOf(o) : q = r
      BY DEF OnlyOne, Alone
  <2>2. CASE RowsOf(o) = {}
      BY <2>2, FS_EmptySet
  <2>3. CASE RowsOf(o) # {}
    <3>1. PICK r \in RowsOf(o) : TRUE
        BY <2>3
    <3>2. RowsOf(o) = {r}
        BY <2>1, <3>1
    <3>3. Cardinality({r}) = 1
        BY FS_Singleton
    <3> QED
        BY <3>2, <3>3
  <2> QED
      BY <2>2, <2>3
<1> QED
    BY <1>1, AlwaysAlone, PTL
----------------------------------------------------------------------------
(* Orders handed over.                                                      *)

KnownHere(o) == RowsOf(o) # {} \/ InFlight(o) # {} \/ o \in told \/ BrokenOff(o)

LEMMA KnownStays ==
    ASSUME Typed, Ledger, [Next]_vars, NEW o \in Originals, KnownHere(o)
    PROVE  KnownHere(o)'
<1>1. ASSUME NEW r \in Requests, NEW p \in Originals, Send(r, p) PROVE KnownHere(o)'
  <2>1. /\ ~Live(r) /\ request[r].at = "unsent" /\ row' = row /\ told' = told
        /\ \A q \in Requests : q # r => request'[q] = request[q]
      BY <1>1, SentIs
  <2>2. RowsOf(o)' = RowsOf(o)
      BY <2>1 DEF RowsOf
  <2>3. \A q \in InFlight(o) : q \in InFlight(o)'
      BY <2>1 DEF InFlight, Live
  <2>4. BrokenOff(o) => BrokenOff(o)'
      BY <2>1 DEF BrokenOff
  <2> QED
      BY <2>1, <2>2, <2>3, <2>4 DEF KnownHere
<1>2. ASSUME NEW r \in Requests, Insert(r) PROVE KnownHere(o)'
  <2>1. /\ Live(r) /\ request[r].at = "check" /\ row'[r].order = request[r].order /\ row[r] = NoRow
        /\ \A q \in Requests : q # r => row'[q] = row[q] /\ request'[q] = request[q]
        /\ told \subseteq told'
      BY <1>2, InsertCases, InsertedIs
  <2>2. \A q \in RowsOf(o) : q \in RowsOf(o)'
    <3>1. row[r].order # o
        BY <2>1, CreationAssumption DEF NoRow
    <3> QED
        BY <2>1, <3>1 DEF RowsOf
  <2>3. \A q \in InFlight(o) : q \in InFlight(o)' \/ q \in RowsOf(o)'
      BY <2>1 DEF InFlight, RowsOf, Live
  <2>4. BrokenOff(o) => BrokenOff(o)'
      BY <2>1 DEF BrokenOff
  <2> QED
      BY <2>1, <2>2, <2>3, <2>4 DEF KnownHere
<1>3. ASSUME NEW r \in Requests, Continues(r) PROVE KnownHere(o)'
  <2>1. /\ Live(r) /\ (GoesOn(r) \/ GivesUp(r) \/ BreaksOff(r)) /\ row' = row /\ told \subseteq told'
        /\ \A q \in Requests : q # r => request'[q] = request[q]
      BY <1>3 DEF Continues
  <2>2. RowsOf(o)' = RowsOf(o)
      BY <2>1 DEF RowsOf
  <2>3. \A q \in InFlight(o) : q # r => q \in InFlight(o)'
      BY <2>1 DEF InFlight, Live
  <2>4. BrokenOff(o) => BrokenOff(o)'
      BY <2>1 DEF BrokenOff, Live
  <2>5. ASSUME r \in InFlight(o) PROVE KnownHere(o)'
    <3>1. request[r].order = o
        BY <2>5 DEF InFlight
    <3>2. CASE GoesOn(r)
      <4>1. r \in InFlight(o)'
          BY <3>1, <3>2 DEF GoesOn, InFlight, Live, Judging
      <4> QED
          BY <4>1 DEF KnownHere
    <3>3. CASE GivesUp(r)
        BY <2>2, <3>1, <3>3 DEF GivesUp, KnownHere
    <3>4. CASE BreaksOff(r)
      <4>1. BrokenOff(o)'
          BY <3>1, <3>4 DEF BreaksOff, BrokenOff
      <4> QED
          BY <4>1 DEF KnownHere
    <3> QED
        BY <2>1, <3>2, <3>3, <3>4
  <2> QED
      BY <2>1, <2>2, <2>3, <2>4, <2>5 DEF KnownHere
<1>4. CASE Restart
  <2>1. RowsOf(o)' = RowsOf(o) /\ told' = told
      BY <1>4 DEF Restart, RowsOf
  <2>2. InFlight(o) # {} => BrokenOff(o)'
    <3> SUFFICES ASSUME NEW q \in InFlight(o) PROVE BrokenOff(o)'
        OBVIOUS
    <3>1. q \in Requests /\ request'[q] = [at |-> "lost", order |-> o]
        BY <1>4 DEF Restart, InFlight
    <3>2. request'[q].at = "lost" /\ request'[q].order = o
        BY <3>1
    <3> QED
        BY <3>1, <3>2 DEF BrokenOff
  <2>3. BrokenOff(o) => BrokenOff(o)'
      BY <1>4 DEF Restart, BrokenOff, Live
  <2> QED
      BY <2>1, <2>2, <2>3 DEF KnownHere
<1>5. CASE UNCHANGED <<request, row, told, overlapped, mark>>
    BY <1>5 DEF KnownHere, InFlight, RowsOf, Live, BrokenOff
<1> QED
    BY <1>1, <1>2, <1>3, <1>4, <1>5, StepIs

\* Only a request at work on an order changes its status at the store.
LEMMA StoreMoves ==
    ASSUME Typed, Ledger, [Next]_vars, NEW o \in Originals, store'[o] # "open"
    PROVE  store[o] # "open" \/ InFlight(o) # {}
<1>1. ASSUME NEW r \in Requests, NEW s, store' = [store EXCEPT ![request[r].order] = s], Live(r)
      PROVE  store[o] # "open" \/ InFlight(o) # {}
  <2>1. CASE o = request[r].order
      BY <1>1, <2>1 DEF InFlight
  <2>2. CASE o # request[r].order
      BY <1>1, <2>2 DEF Typed
  <2> QED
      BY <2>1, <2>2
<1>2. ASSUME NEW r \in Requests, RequestStep(r) PROVE store[o] # "open" \/ InFlight(o) # {}
  <2>1. CASE ChangeStatus(r)
      BY <1>1, <2>1 DEF ChangeStatus, At, Live
  <2>2. CASE CompleteAtStore(r)
      BY <1>1, <2>2 DEF CompleteAtStore, At, Live
  <2>3. CASE ~ChangeStatus(r) /\ ~CompleteAtStore(r)
      BY <1>2, <2>3 DEF RequestStep, Send, Find, GetOrder, CheckCode, Substitute, Insert, storeVars
  <2> QED
      BY <2>1, <2>2, <2>3
<1>3. ASSUME NEW p \in Originals, Reopen(p) PROVE store[o] # "open"
    BY <1>3 DEF Reopen, Typed
<1>4. ASSUME NEW r \in Requests, TakeRow(r) PROVE store' = store
    BY <1>4 DEF TakeRow, storeVars
<1>5. ASSUME NEW c \in Codes, NEW who \in {"player", "other"}, Activate(c, who) PROVE store' = store
    BY <1>5 DEF Activate, storeVars
<1>6. CASE BeginReview \/ AskUsed \/ Pass \/ Restart \/ UNCHANGED vars
    BY <1>6 DEF BeginReview, AskUsed, Pass, Restart, vars, storeVars
<1> QED
    BY <1>2, <1>3, <1>4, <1>5, <1>6 DEF Next

\* An order the store has handed over is never forgotten: it has a row, or a request at
\* work on it, or the moderators were told, or a request for it broke off.
THEOREM OrdersAreKnown == Spec => []HandedOverIsKnown
<1>1. Init => HandedOverIsKnown
    BY DEF Init, HandedOverIsKnown
<1>2. Typed /\ Ledger /\ HandedOverIsKnown /\ [Next]_vars => HandedOverIsKnown'
  <2> SUFFICES ASSUME Typed, Ledger, HandedOverIsKnown, [Next]_vars,
                      NEW o \in Originals, store'[o] # "open"
               PROVE  KnownHere(o)'
      BY DEF HandedOverIsKnown, KnownHere
  <2>1. KnownHere(o)
      BY StoreMoves DEF HandedOverIsKnown, KnownHere
  <2> QED
      BY <2>1, KnownStays
<1> QED
    BY <1>1, <1>2, AlwaysLedger, PTL DEF Spec
----------------------------------------------------------------------------
(* Codes of the store that were given out.                                  *)

LEMMA GotIs ==
    ASSUME NEW r \in Requests, Typed
    PROVE  Got(r) \subseteq Spares
<1>1. CASE row[r] # NoRow
    BY <1>1 DEF Got
<1>2. CASE row[r] = NoRow /\ Live(r)
  <2>1. request[r].new \in Amounted(Spares)
      BY <1>2, LiveIs DEF LiveRequests
  <2> QED
      BY <1>2, <2>1, NewType DEF Got
<1>3. CASE row[r] = NoRow /\ ~Live(r)
    BY <1>3 DEF Got
<1> QED
    BY <1>1, <1>2, <1>3

\* The answer for a code changes the mark of a code of that order, and one it puts back on
\* sale is noted as broken.
LEMMA CheckMarks ==
    ASSUME NEW r \in Requests, Typed, Ledger, CheckCode(r), NEW d \in Codes, mark'[d] # mark[d]
    PROVE  /\ d \in Given[request[r].order] /\ request[r].order \in Originals
           /\ mark'[d] = "available" => d \in request'[r].broken
<1>1. Live(r) /\ request[r].at = "check" /\ RequestOK(r)
    BY CheckCases DEF Ledger
<1>2. PICK c \in request[r].left : \E answer :
          /\ Set(r, Judge(r, c, answer))
          /\ IF answer \in {"silent", "good"} THEN UNCHANGED mark ELSE Mark(c, MarkOf(answer))
    BY CheckCases
<1>3. PICK answer :
          /\ Set(r, Judge(r, c, answer))
          /\ IF answer \in {"silent", "good"} THEN UNCHANGED mark ELSE Mark(c, MarkOf(answer))
    BY <1>2
<1>4. answer \notin {"silent", "good"} /\ mark' = [mark EXCEPT ![c] = MarkOf(answer)]
    BY <1>3 DEF Mark
<1>5. d = c /\ mark'[d] = MarkOf(answer)
    BY <1>4 DEF Typed
<1>6. c \in Given[request[r].order] /\ request[r].order \in Originals
    BY <1>1, LiveOrder DEF RequestOK
<1>7. ASSUME mark'[d] = "available" PROVE d \in request'[r].broken
  <2>1. answer \notin {"silent", "good", "bad", "player"}
      BY <1>4, <1>5, <1>7 DEF MarkOf
  <2>2. Judge(r, c, answer).broken = request[r].broken \cup {c}
      BY <1>1, <2>1, JudgeIs
  <2>3. request'[r] = Judge(r, c, answer)
      BY <1>3, SetIs
  <2> QED
      BY <1>5, <2>2, <2>3
<1> QED
    BY <1>5, <1>6, <1>7

\* The marks a request changes when it neither judges a code nor gets a new one: none.
LEMMA OtherMarks ==
    ASSUME NEW r \in Requests, RequestStep(r), ~CheckCode(r), ~Substitute(r)
    PROVE  mark' = mark
    BY DEF RequestStep, Send, Find, GetOrder, ChangeStatus, Insert, CompleteAtStore, storeVars

LEMMA SparesSame ==
    ASSUME Typed, SparesKept, \A q \in Requests : Got(q)' \subseteq Got(q),
           \A n \in Spares : mark'[n] = mark[n]
    PROVE  SparesKept'
<1>1. \A q \in Requests : Got(q) \subseteq Spares
    BY GotIs
<1>2. \A q \in Requests : \A n \in Got(q)' : mark'[n] # "available"
    BY <1>1 DEF SparesKept
<1>3. \A q, r \in Requests : q # r => Got(q)' \cap Got(r)' = {}
    BY DEF SparesKept
<1> QED
    BY <1>2, <1>3 DEF SparesKept

LEMMA SparesGiven ==
    ASSUME NEW r \in Requests, Typed, Ledger, SparesKept, Substitute(r)
    PROVE  SparesKept'
<1>1. /\ Live(r) /\ request[r].at \in {"replace", "fetch"} /\ request[r] \in LiveRequests
      /\ row' = row /\ row[r] = NoRow /\ RequestOK(r)
    BY SubstituteCases, LiveIs DEF auxVars, Ledger, RequestOK
<1>2. \A q \in Requests : q # r => Got(q)' = Got(q)
    BY <1>1, OneMoves DEF Got, Live, RequestStep
<1>3. Got(r) = DOMAIN request[r].new
    BY <1>1 DEF Got
<1>4. \A q \in Requests : Got(q) \subseteq Spares
    BY GotIs
<1>5. CASE UNCHANGED mark /\ Set(r, Unsubstituted(r))
  <2>1. request'[r] = Unsubstituted(r)
      BY <1>5, SetIs
  <2>2. Unsubstituted(r).new = request[r].new
      BY <1>1 DEF Unsubstituted, LiveRequests
  <2>3. Got(r)' \subseteq Got(r)
      BY <1>1, <1>3, <2>1, <2>2 DEF Got
  <2> QED
      BY <1>2, <1>5, <2>3, SparesSame
<1>6. ASSUME Crash(r) PROVE Got(r)' = {}
  <2>1. request'[r].at = "lost"
      BY <1>6, CrashContinues DEF BreaksOff
  <2> QED
      BY <1>1, <2>1 DEF Got, Live
<1>7. CASE UNCHANGED mark /\ Crash(r)
    BY <1>2, <1>6, <1>7, SparesSame
<1>8. ASSUME NEW n \in Spares, mark[n] = "available", mark' = [mark EXCEPT ![n] = "reserved"],
             Set(r, Substituted(r, n)) \/ Crash(r)
      PROVE  SparesKept'
  <2>1. Got(r)' \subseteq Got(r) \cup {n}
    <3>1. CASE Set(r, Substituted(r, n))
      <4>1. request'[r] = Substituted(r, n)
          BY <3>1, SetIs
      <4>2. DOMAIN Substituted(r, n).new = DOMAIN request[r].new \cup {n}
          BY <1>1, SubstitutedType
      <4> QED
          BY <1>1, <1>3, <4>1, <4>2 DEF Got
    <3> QED
        BY <1>6, <1>8, <3>1
  <2>2. \A q \in Requests : n \notin Got(q)
      BY <1>8 DEF SparesKept
  <2>3. \A m \in Spares : m # n => mark'[m] = mark[m]
      BY <1>8, CodeSets DEF Typed
  <2>4. mark'[n] = "reserved"
      BY <1>8, CodeSets DEF Typed
  <2>5. \A q \in Requests : \A m \in Got(q)' : mark'[m] # "available"
    <3> SUFFICES ASSUME NEW q \in Requests, NEW m \in Got(q)', m # n PROVE mark'[m] # "available"
        BY <2>4
    <3>1. m \in Got(q)
        BY <1>2, <2>1
    <3> QED
        BY <1>4, <2>3, <3>1 DEF SparesKept
  <2>6. \A q \in Requests : q # r => Got(q)' \cap Got(r)' = {}
      BY <1>2, <2>1, <2>2 DEF SparesKept
  <2>7. \A q, p \in Requests : q # p => Got(q)' \cap Got(p)' = {}
      BY <1>2, <2>6 DEF SparesKept
  <2> QED
      BY <2>5, <2>7 DEF SparesKept
<1> QED
    BY <1>5, <1>7, <1>8, SubstituteCases

LEMMA SparesStep ==
    ASSUME Typed, Ledger, SparesKept, [Next]_vars
    PROVE  SparesKept'
<1>1. ASSUME NEW r \in Requests, NEW o \in Originals, Send(r, o) PROVE SparesKept'
  <2>1. /\ row[r] = NoRow /\ request'[r] = Blank(o) /\ DOMAIN Blank(o).new = {}
        /\ \A q \in Requests : q # r => request'[q] = request[q]
        /\ row' = row /\ mark' = mark
      BY <1>1, SentIs
  <2>2. Got(r)' = {}
      BY <2>1 DEF Got
  <2>3. \A q \in Requests : q # r => Got(q)' = Got(q)
      BY <2>1 DEF Got, Live
  <2> QED
      BY <2>1, <2>2, <2>3, SparesSame
<1>2. ASSUME NEW r \in Requests, Insert(r) PROVE SparesKept'
  <2>1. /\ Live(r) /\ row[r] = NoRow /\ row'[r] = Inserted(r) /\ mark' = mark
        /\ \A q \in Requests : q # r => row'[q] = row[q] /\ request'[q] = request[q]
      BY <1>2, InsertCases DEF storeVars
  <2>2. DOMAIN Inserted(r).unused \cap Spares = DOMAIN request[r].new
      BY <1>2, InsertedIs
  <2>3. Got(r) = DOMAIN request[r].new
      BY <2>1 DEF Got
  <2>4. Inserted(r) # NoRow
      BY <1>2, InsertCases, CreationAssumption DEF NoRow
  <2>5. Got(r)' = Got(r)
      BY <2>1, <2>2, <2>3, <2>4 DEF Got
  <2>6. \A q \in Requests : q # r => Got(q)' = Got(q)
      BY <2>1 DEF Got, Live
  <2> QED
      BY <2>1, <2>5, <2>6, SparesSame
<1>3. ASSUME NEW r \in Requests, RequestStep(r), Continues(r), ~Substitute(r) PROVE SparesKept'
  <2>1. \A q \in Requests : q # r => Got(q)' = Got(q)
      BY <1>3 DEF Continues, Got, Live
  <2>2. Got(r)' \subseteq Got(r)
    <3>1. CASE row[r] # NoRow
        BY <1>3, <3>1 DEF Continues, Got
    <3>2. CASE row[r] = NoRow /\ Live(r)'
      <4>1. GoesOn(r) /\ Live(r) /\ row' = row
          BY <1>3, <3>2 DEF Continues, GivesUp, BreaksOff, Live
      <4> QED
          BY <1>3, <3>2, <4>1 DEF GoesOn, Got
    <3>3. CASE row[r] = NoRow /\ ~Live(r)'
        BY <1>3, <3>3 DEF Continues, Got
    <3> QED
        BY <3>1, <3>2, <3>3
  <2>3. \A n \in Spares : mark'[n] = mark[n]
    <3>1. CASE CheckCode(r)
        BY <3>1, CheckMarks, CodeSets
    <3>2. CASE ~CheckCode(r)
        BY <1>3, <3>2, OtherMarks
    <3> QED
        BY <3>1, <3>2
  <2> QED
      BY <2>1, <2>2, <2>3, SparesSame
<1>4. ASSUME NEW r \in Requests, Substitute(r) PROVE SparesKept'
    BY <1>4, SparesGiven
<1>5. CASE Restart
  <2>1. \A q \in Requests : Got(q)' \subseteq Got(q)
      BY <1>5 DEF Restart, Got, Live
  <2>2. mark' = mark
      BY <1>5 DEF Restart, storeVars
  <2> QED
      BY <2>1, <2>2, SparesSame
<1>6. CASE UNCHANGED <<request, row, told, overlapped, mark>>
  <2>1. \A q \in Requests : Got(q)' = Got(q)
      BY <1>6 DEF Got, Live
  <2> QED
      BY <1>6, <2>1, SparesSame
<1> QED
    BY <1>1, <1>2, <1>3, <1>4, <1>5, <1>6, StepIs
----------------------------------------------------------------------------
(* Codes given back.                                                        *)

LEMMA MuddledStays ==
    ASSUME Typed, Ledger, [Next]_vars, NEW o \in Originals, Muddled(o)
    PROVE  Muddled(o)'
<1>1. overlapped \subseteq overlapped'
  <2>1. ASSUME NEW r \in Requests, NEW p \in Originals, Send(r, p) PROVE overlapped \subseteq overlapped'
      BY <2>1, SentIs
  <2>2. ASSUME NEW r \in Requests, Insert(r) PROVE overlapped' = overlapped
      BY <2>2, InsertCases
  <2> QED
      BY <2>1, <2>2, StepIs DEF Continues, Restart
<1>2. ASSUME NEW q \in Requests, request[q].at = "lost" PROVE request'[q] = request[q]
  <2>1. ~Live(q)
      BY <1>2 DEF Live
  <2>2. ASSUME NEW r \in Requests, NEW p \in Originals, Send(r, p) PROVE request'[q] = request[q]
      BY <1>2, <2>2, SentIs
  <2>3. ASSUME NEW r \in Requests, Insert(r) PROVE request'[q] = request[q]
      BY <1>2, <2>3, InsertCases
  <2>4. ASSUME NEW r \in Requests, Continues(r) PROVE request'[q] = request[q]
      BY <2>1, <2>4 DEF Continues
  <2> QED
      BY <2>1, <2>2, <2>3, <2>4, StepIs DEF Restart
<1>3. BrokenOff(o) => BrokenOff(o)'
    BY <1>2 DEF BrokenOff
<1> QED
    BY <1>1, <1>3 DEF Muddled

LEMMA NotedStays ==
    ASSUME Typed, Ledger, [Next]_vars, NEW o \in Originals, NEW c, Noted(c, o), ~Muddled(o)'
    PROVE  Noted(c, o)'
<1>1. ASSUME NEW r \in RowsOf(o), c \in row[r].broken PROVE Noted(c, o)'
  <2>1. r \in Requests /\ row[r] # NoRow
      BY CreationAssumption DEF RowsOf, NoRow
  <2>2. row'[r] = row[r]
      BY <2>1, RowsStay
  <2>3. r \in RowsOf(o)' /\ c \in row'[r].broken
      BY <1>1, <2>2 DEF RowsOf
  <2> QED
      BY <2>3 DEF Noted
<1>2. ASSUME NEW q \in InFlight(o), request[q].at # "complete", c \in request[q].broken
      PROVE  Noted(c, o)'
  <2>1. q \in Requests /\ Live(q) /\ request[q].order = o
      BY DEF InFlight
  <2>2. CASE request'[q] = request[q]
    <3>1. q \in InFlight(o)'
        BY <2>1, <2>2 DEF InFlight, Live
    <3> QED
        BY <1>2, <2>2, <3>1 DEF Noted
  <2>3. ASSUME NEW r \in Requests, NEW p \in Originals, Send(r, p) PROVE Noted(c, o)'
      BY <2>1, <2>2, <2>3, SentIs
  <2>4. ASSUME NEW r \in Requests, Insert(r) PROVE Noted(c, o)'
    <3>1. q # r => request'[q] = request[q]
        BY <2>1, <2>4, InsertCases
    <3>2. CASE q = r
      <4>1. row'[q] = Inserted(q)
          BY <2>4, <3>2, InsertCases
      <4>2. Inserted(q).order = o /\ Inserted(q).broken = request[q].broken
          BY <2>1, <2>4, <3>2, InsertedIs
      <4>3. q \in RowsOf(o)' /\ c \in row'[q].broken
          BY <1>2, <2>1, <4>1, <4>2 DEF RowsOf
      <4> QED
          BY <4>3 DEF Noted
    <3> QED
        BY <2>2, <3>1, <3>2
  <2>5. ASSUME NEW r \in Requests, Continues(r) PROVE Noted(c, o)'
    <3>1. q # r => request'[q] = request[q]
        BY <2>1, <2>5 DEF Continues
    <3>2. CASE q = r
      <4>1. ~GivesUp(q)
          BY <1>2 DEF GivesUp
      <4>2. ~BreaksOff(q)
          BY <2>1 DEF BreaksOff, Muddled, BrokenOff
      <4>3. GoesOn(q)
          BY <2>5, <3>2, <4>1, <4>2 DEF Continues
      <4>4. q \in InFlight(o)' /\ request'[q].at # "complete" /\ c \in request'[q].broken
          BY <1>2, <2>1, <4>3 DEF GoesOn, InFlight, Live, Judging
      <4> QED
          BY <4>4 DEF Noted
    <3> QED
        BY <2>2, <3>1, <3>2
  <2>6. ~Restart
    <3> SUFFICES ASSUME Restart PROVE FALSE
        OBVIOUS
    <3>1. request'[q] = [at |-> "lost", order |-> o]
        BY <2>1 DEF Restart
    <3>2. request'[q].at = "lost" /\ request'[q].order = o
        BY <3>1
    <3> QED
        BY <2>1, <3>2 DEF Muddled, BrokenOff
  <2> QED
      BY <2>2, <2>3, <2>4, <2>5, <2>6, StepIs
<1> QED
    BY <1>1, <1>2 DEF Noted

\* Whatever puts a code of a request back on sale notes it.
LEMMA BackOnSale ==
    ASSUME Typed, Ledger, [Next]_vars, NEW o \in Originals, NEW c \in Given[o],
           mark[c] # "available", mark'[c] = "available"
    PROVE  Noted(c, o)'
<1>1. c \in Codes /\ c \notin Spares
    BY CodeSets
<1>2. ASSUME NEW r \in Requests, CheckCode(r) PROVE Noted(c, o)'
  <2>1. c \in Given[request[r].order] /\ request[r].order \in Originals /\ c \in request'[r].broken
      BY <1>1, <1>2, CheckMarks
  <2>2. request[r].order = o
      BY <2>1, CreationAssumption
  <2>3. PICK d \in request[r].left : \E answer : Set(r, Judge(r, d, answer))
      BY <1>2, CheckCases
  <2>4. PICK answer : Set(r, Judge(r, d, answer))
      BY <2>3
  <2>5. request[r].at = "check" /\ Live(r)
      BY <1>2, CheckCases
  <2>6. request'[r] = Judge(r, d, answer)
      BY <2>4, SetIs
  <2>7. request'[r].order = o /\ request'[r].at \in Judging
      BY <2>2, <2>5, <2>6, JudgeIs, JudgeType
  <2>8. r \in InFlight(o)' /\ request'[r].at # "complete"
      BY <2>7 DEF InFlight, Live, Judging
  <2> QED
      BY <2>1, <2>8 DEF Noted
<1>3. ASSUME NEW r \in Requests, Substitute(r) PROVE FALSE
  <2>1. mark' = mark \/ \E n \in Spares : mark' = [mark EXCEPT ![n] = "reserved"]
      BY <1>3, SubstituteCases
  <2> QED
      BY <1>1, <2>1 DEF Typed
<1>4. ASSUME NEW r \in Requests, RequestStep(r) PROVE Noted(c, o)'
    BY <1>2, <1>3, <1>4, OtherMarks
<1>5. ASSUME NEW r \in Requests, NEW p \in Originals, Send(r, p) PROVE FALSE
    BY <1>5, SentIs
<1>6. ASSUME NEW r \in Requests, Insert(r) PROVE FALSE
    BY <1>6, InsertCases DEF storeVars
<1>7. ~Restart
    BY DEF Restart, storeVars
<1> QED
    BY <1>4, <1>5, <1>6, <1>7, StepIs

LEMMA SaleStep ==
    ASSUME Typed, Ledger, SaleInv, [Next]_vars
    PROVE  SaleInv'
<1> SUFFICES ASSUME NEW o \in Originals, ~Muddled(o)', NEW c \in Given[o], mark'[c] = "available"
             PROVE  Noted(c, o)'
    BY DEF SaleInv
<1>1. ~Muddled(o)
    BY MuddledStays
<1>2. CASE mark[c] = "available"
  <2>1. Noted(c, o)
      BY <1>1, <1>2 DEF SaleInv
  <2> QED
      BY <2>1, NotedStays
<1>3. CASE mark[c] # "available"
    BY <1>3, BackOnSale
<1> QED
    BY <1>2, <1>3

Kept == Typed /\ Ledger /\ OnlyOne /\ SparesKept /\ SaleInv

LEMMA AlwaysKept == Spec => []Kept
<1>1. Init => SparesKept /\ SaleInv
  <2> SUFFICES ASSUME Init PROVE SparesKept /\ SaleInv
      OBVIOUS
  <2>1. \A r \in Requests : Got(r) = {}
      BY DEF Init, Got, Live, NoRequest
  <2>2. \A o \in Originals : \A c \in Given[o] : mark[c] # "available"
      BY CodeSets DEF Init
  <2> QED
      BY <2>1, <2>2 DEF SparesKept, SaleInv
<1>2. Typed /\ Ledger /\ SparesKept /\ SaleInv /\ [Next]_vars => (SparesKept /\ SaleInv)'
    BY SparesStep, SaleStep
<1>3. Typed /\ Ledger /\ OnlyOne /\ SparesKept /\ SaleInv => Kept
    BY DEF Kept
<1> QED
    BY <1>1, <1>2, <1>3, AlwaysAlone, PTL DEF Spec

\* The codes of a row are its request's own or were got from the store for it.
LEMMA CodesOfRow ==
    ASSUME Typed, Ledger, NEW r \in Requests, row[r] # NoRow, NEW c \in DOMAIN row[r].unused
    PROVE  \/ c \in Spares /\ c \in Got(r)
           \/ /\ c \in Given[row[r].order] /\ c \notin Spares
              /\ c \notin row[r].broken
  BY DEF Ledger, RowOK, Got

\* No code that a worker may be handed is for sale at the store, unless two requests for
\* the order overlapped or one for it broke off.
THEOREM HandedOutIsSold == Spec => []NotForSale
<1>1. Kept => NotForSale
  <2> SUFFICES ASSUME Kept, NEW r \in Requests, row[r] # NoRow, ~Muddled(row[r].order),
                      NEW c \in DOMAIN row[r].unused, mark[c] = "available"
               PROVE  FALSE
      BY DEF NotForSale
  <2> DEFINE o == row[r].order
  <2>1. o \in Originals
      BY RowIs DEF Rows, Kept
  <2>2. r \in RowsOf(o) /\ Alone(o)
      BY <2>1 DEF RowsOf, Kept, OnlyOne, Muddled
  <2>3. c \notin Got(r)
      BY DEF Kept, SparesKept
  <2>4. c \in Given[o] /\ c \notin row[r].broken
      BY <2>3, CodesOfRow DEF Kept
  <2>5. Noted(c, o)
      BY <2>1, <2>4 DEF Kept, SaleInv
  <2>6. ASSUME NEW q \in RowsOf(o), c \in row[q].broken PROVE FALSE
      BY <2>2, <2>4, <2>6 DEF Alone
  <2>7. ASSUME NEW q \in InFlight(o), request[q].at # "complete", c \in request[q].broken PROVE FALSE
    <3>1. q \in Requests /\ RequestOK(q) /\ Live(q)
        BY DEF InFlight, Kept, Ledger
    <3>2. request[q].at # "find"
        BY <2>7, <3>1 DEF RequestOK, Early
    <3> QED
        BY <2>2, <2>7, <3>2 DEF Alone
  <2> QED
      BY <2>5, <2>6, <2>7 DEF Noted
<1> QED
    BY <1>1, AlwaysKept, PTL

\* No code is handed out in two rows, but for the rows of such orders.
THEOREM RowsShareNoCode == Spec => []CodesApart
<1>1. Kept => CodesApart
  <2> SUFFICES ASSUME Kept, NEW q \in Requests, NEW r \in Requests, q # r,
                      row[q] # NoRow, row[r] # NoRow,
                      ~Muddled(row[q].order), ~Muddled(row[r].order),
                      NEW c \in DOMAIN row[q].unused, c \in DOMAIN row[r].unused
               PROVE  FALSE
      BY DEF CodesApart
  <2>1. row[q].order \in Originals /\ row[r].order \in Originals
      BY RowIs DEF Rows, Kept
  <2>2. row[q].order # row[r].order
      BY <2>1 DEF Kept, OnlyOne, Alone, RowsOf, Muddled
  <2>3. ~(c \in Got(q) /\ c \in Got(r))
      BY DEF Kept, SparesKept
  <2>4. ~(c \in Given[row[q].order] /\ c \in Given[row[r].order])
      BY <2>1, <2>2, CreationAssumption
  <2> QED
      BY <2>3, <2>4, CodesOfRow DEF Kept
<1> QED
    BY <1>1, AlwaysKept, PTL
=============================================================================

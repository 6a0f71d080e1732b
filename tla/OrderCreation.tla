--------------------------- MODULE OrderCreation ---------------------------
(***************************************************************************)
(* POST /orders/create against the store the orders come from, and the     *)
(* anti-fraud review that later asks the same store whether the codes of   *)
(* the order were used.                                                    *)
(*                                                                         *)
(* A request is a thread, and a call to the store is one action of it: the *)
(* store may carry the call out or refuse it, and its answer may be lost.  *)
(* The store is external: it is modelled by how the code uses it.          *)
(***************************************************************************)
EXTENDS Naturals, FiniteSets

CONSTANTS
    Originals,       \* ids of the orders at the store
    Given,           \* Given[o]: the unused codes its create request names, reserved for it
    Spares,          \* codes the store has for sale
    Amounts,         \* what a code may be worth
    Claimed,         \* the amount the request gives for each of its codes
    Nameless,        \* orders whose additional_data at the store names no player
    Histories,       \* external: what may have become of the codes before
    MaxRequests      \* bound: create requests

Codes == (UNION {Given[o] : o \in Originals}) \cup Spares
Requests == 1..MaxRequests

ASSUME CreationAssumption ==
    /\ IsFiniteSet(Codes)
    /\ MaxRequests \in Nat \ {0}
    /\ Claimed \in Amounts
    /\ "none" \notin Originals
    /\ Nameless \subseteq Originals
    /\ \A o \in Originals : Given[o] \cap Spares = {}
    /\ \A o, p \in Originals : o # p => Given[o] \cap Given[p] = {}
    /\ \A h \in Histories : \A c \in DOMAIN h : h[c] \in {"no", "player", "other", "misvalued"}

VARIABLES
    store,       \* the status of each order at the store
    mark,        \* the status of each code at the store
    used,        \* external: who activated a code
    worth,       \* external: the amount a code is really worth
    request,     \* the requests
    row,         \* row[r]: the order that request r inserted
    review,      \* the worker's order and the review of it
    told,        \* auxiliary: orders the moderators were told of as failed
    restarted,   \* auxiliary: the API was restarted
    overlapped,  \* auxiliary: orders with two requests in flight at once
    deeds        \* auxiliary: codes the worker activated for somebody else

storeVars == <<store, mark>>
factVars == <<used, worth>>
auxVars == <<told, restarted, overlapped, deeds>>
vars == <<storeVars, factVars, request, row, review, auxVars>>

\* additional_data, names and keys are left out. new: what the loop will add, with amounts;
\* lost: a call crashed on an answer that did not come; doubt: codes taken as good unverified.
Blank(o) == [at |-> "find", order |-> o, left |-> {}, code |-> "none", new |-> << >>, redeemed |-> {},
             broken |-> {}, doubt |-> {}]
NoRequest == [at |-> "unsent"]
NoRow == [order |-> "none"]
NoReview == [at |-> "none", row |-> 0, withCodes |-> FALSE, left |-> {}, doubt |-> {}]

Live(r) == request[r].at \notin {"unsent", "over", "lost"}
InFlight(o) == {r \in Requests : Live(r) /\ request[r].order = o}
BrokenOff(o) == \E r \in Requests : request[r].at = "lost" /\ request[r].order = o
RowsOf(o) == {r \in Requests : row[r].order = o}

TypeOK ==
    /\ store \in [Originals -> {"open", "manual", "done"}]
    /\ mark \in [Codes -> {"available", "reserved", "redeemed", "broken"}]
    /\ used \in [Codes -> {"no", "player", "other"}]
    /\ worth \in [Codes -> Amounts]
    /\ \A r \in Requests :
        /\ request[r].at \in {"unsent", "find", "get", "status", "check", "replace", "fetch",
                "complete", "over", "lost"}
        /\ Live(r) => /\ request[r].order \in Originals
                      /\ request[r].left \cup request[r].redeemed \cup request[r].broken
                            \cup request[r].doubt \subseteq Given[request[r].order]
                      /\ DOMAIN request[r].new \subseteq Spares
        /\ row[r] # NoRow =>
              /\ row[r].order \in Originals
              /\ DOMAIN row[r].unused \subseteq Codes
              /\ \A c \in DOMAIN row[r].unused : row[r].unused[c] \in Amounts
    /\ review.at \in {"none", "taken", "ask", "banned", "completed"}
    /\ review.row \in 0..MaxRequests /\ review.withCodes \in BOOLEAN
    /\ told \subseteq Originals /\ overlapped \subseteq Originals /\ deeds \subseteq Codes
    /\ restarted \in BOOLEAN

\* A code of another amount than claimed was not used: nobody looks at the amount of one
\* that was.
Init ==
    /\ store = [o \in Originals |-> "open"]
    /\ mark = [c \in Codes |-> IF c \in Spares THEN "available" ELSE "reserved"]
    /\ \E h \in Histories :
        /\ used = [c \in Codes |-> IF c \in DOMAIN h /\ h[c] # "misvalued" THEN h[c] ELSE "no"]
        /\ \E a \in Amounts \ {Claimed} :
            worth = [c \in Codes |-> IF c \in DOMAIN h /\ h[c] = "misvalued" THEN a ELSE Claimed]
    /\ request = [r \in Requests |-> NoRequest]
    /\ row = [r \in Requests |-> NoRow]
    /\ review = NoReview
    /\ told = {} /\ overlapped = {} /\ deeds = {} /\ restarted = FALSE
----------------------------------------------------------------------------
(* The request                                                              *)

At(r, at) == request[r].at = at
Set(r, rec) == request' = [request EXCEPT ![r] = rec]
Goto(r, at) == Set(r, [request[r] EXCEPT !.at = at])
Over(r) == Set(r, [at |-> "over"])
\* An exception that create does not catch: a 500 for the caller, a word to nobody else.
Crash(r) == Set(r, [at |-> "lost", order |-> request[r].order])

\* create: the handler starts.
Send(r, o) ==
    /\ At(r, "unsent")
    /\ \A q \in Requests : q < r => ~At(q, "unsent")
    /\ Set(r, Blank(o))
    /\ overlapped' = IF InFlight(o) = {} THEN overlapped ELSE overlapped \cup {o}
    /\ UNCHANGED <<storeVars, factVars, row, review, told, restarted, deeds>>

\* Mutant: nobody looks whether the order is there.
FindNothing(r) ==
    /\ At(r, "find")
    /\ Goto(r, "get")
    /\ UNCHANGED <<storeVars, factVars, row, review, auxVars>>

\* get_by_original_id; ResourceAlreadyExistsError is raised outside the try.
Find(r) ==
    /\ At(r, "find")
    /\ IF RowsOf(request[r].order) = {} THEN Goto(r, "get") ELSE Over(r)
    /\ UNCHANGED <<storeVars, factVars, row, review, auxVars>>

\* OrderProcessingError: the moderators are told, the caller gets a 500.
Refuse(r) == Over(r) /\ told' = told \cup {request[r].order}

\* get_order: only an order that is FAILED or PENDING there is taken over. One without an
\* amount is dropped, and the moderators told, as after an error.
GetOrder(r) ==
    /\ At(r, "get")
    /\ \/ store[request[r].order] = "open" /\ Goto(r, "status") /\ UNCHANGED told
       \/ Refuse(r)
    /\ UNCHANGED <<storeVars, factVars, row, review, restarted, overlapped, deeds>>

\* Mutant: the error of a call without an answer is swallowed.
ChangeStatusQuietly(r) ==
    /\ At(r, "status")
    /\ \/ /\ store' = [store EXCEPT ![request[r].order] = "manual"]
          /\ \/ Set(r, [request[r] EXCEPT !.at = "check", !.left = Given[request[r].order]])
             \/ Over(r)
       \/ UNCHANGED store /\ Over(r)
    /\ UNCHANGED <<mark, factVars, row, review, auxVars>>

\* change_order_status. No answer: None has no status_code, and the AttributeError passes
\* the handler of create by, whether the store did as told or not.
ChangeStatus(r) ==
    /\ At(r, "status")
    /\ \/ /\ store' = [store EXCEPT ![request[r].order] = "manual"]
          /\ \/ Set(r, [request[r] EXCEPT !.at = "check", !.left = Given[request[r].order]])
             \/ Crash(r)
          /\ UNCHANGED told
       \/ UNCHANGED store /\ Crash(r) /\ UNCHANGED told
       \/ UNCHANGED store /\ Refuse(r)
    /\ UNCHANGED <<mark, factVars, row, review, restarted, overlapped, deeds>>

\* send_change_codes_status: nobody looks at the answer, so it may as well not be done.
Mark(c, s) == mark' = [mark EXCEPT ![c] = s] \/ UNCHANGED mark

\* str() makes 'None' of a missing player_open_id, and no code was activated for that id:
\* whoever used a code of such an order counts as somebody else.
Seen(o, c) == IF o \in Nameless /\ used[c] = "player" THEN "other" ELSE used[c]

\* What the store says of a code: no answer or a 5xx ("silent"), 400, or 200 with the facts.
Answers(o, c) == {"silent", "bad"} \cup
    {CASE used[c] # "no" -> Seen(o, c)
       [] used[c] = "no" /\ worth[c] # Claimed -> "misvalued"
       [] OTHER -> "good"}

\* Mutant: a code used by another player is left for the worker.
KeepBroken(r, c, answer) ==
    CASE answer = "silent" -> [request[r] EXCEPT !.left = @ \ {c}, !.doubt = @ \cup {c}]
      [] answer \in {"good", "other"} -> [request[r] EXCEPT !.left = @ \ {c}]
      [] answer \in {"bad", "player"} ->
            [request[r] EXCEPT !.left = @ \ {c}, !.redeemed = @ \cup {c}]
      [] OTHER -> [request[r] EXCEPT !.left = @ \ {c}, !.broken = @ \cup {c}, !.code = c,
                                     !.at = "fetch"]

\* Mutant: a code of the wrong amount goes back on sale and stays in the order.
KeepMisvalued(r, c, answer) ==
    CASE answer = "silent" -> [request[r] EXCEPT !.left = @ \ {c}, !.doubt = @ \cup {c}]
      [] answer \in {"good", "misvalued"} -> [request[r] EXCEPT !.left = @ \ {c}]
      [] answer \in {"bad", "player"} ->
            [request[r] EXCEPT !.left = @ \ {c}, !.redeemed = @ \cup {c}]
      [] OTHER -> [request[r] EXCEPT !.left = @ \ {c}, !.broken = @ \cup {c}, !.code = c,
                                     !.at = "replace"]

\* _handle_check_code_response. A code sold to another player is replaced, one of another
\* amount is given back and another is fetched.
Judge(r, c, answer) ==
    CASE answer = "silent" -> [request[r] EXCEPT !.left = @ \ {c}, !.doubt = @ \cup {c}]
      [] answer = "good" -> [request[r] EXCEPT !.left = @ \ {c}]
      [] answer \in {"bad", "player"} ->
            [request[r] EXCEPT !.left = @ \ {c}, !.redeemed = @ \cup {c}]
      [] OTHER ->
            [request[r] EXCEPT !.left = @ \ {c}, !.broken = @ \cup {c}, !.code = c,
                               !.at = IF answer = "other" THEN "replace" ELSE "fetch"]

MarkOf(answer) ==
    CASE answer \in {"bad", "player"} -> "redeemed"
      [] answer = "other" -> "broken"
      [] OTHER -> "available"

\* _check_unused_code: the answer for one code, and the status sent back for it. Where the
\* store sends no additional_data at all, asking it for the player raises AttributeError.
CheckCode(r) ==
    /\ At(r, "check")
    /\ \E c \in request[r].left :
        \/ \E answer \in Answers(request[r].order, c) :
            /\ Set(r, Judge(r, c, answer))
            /\ IF answer \in {"silent", "good"} THEN UNCHANGED mark ELSE Mark(c, MarkOf(answer))
        \/ request[r].order \in Nameless /\ Crash(r) /\ UNCHANGED mark
    /\ UNCHANGED <<store, factVars, row, review, auxVars>>

\* A new code with its amount, among those the loop will add.
Booked(new, n, amount) ==
    [c \in DOMAIN new \cup {n} |-> IF c = n THEN amount ELSE new[c]]

\* Mutant: the new code is not reserved by the call that gets it.
SubstituteUnreserved(r) ==
    /\ request[r].at \in {"replace", "fetch"}
    /\ \/ \E n \in Spares :
            /\ mark[n] = "available"
            /\ Set(r, [request[r] EXCEPT !.at = "check", !.code = "none",
                          !.new = Booked(@, n, Claimed)])
       \/ Set(r, [request[r] EXCEPT !.at = "check", !.code = "none"])
    /\ UNCHANGED <<storeVars, factVars, row, review, auxVars>>

\* Mutant: a new code is booked with no amount.
SubstituteUnvalued(r) ==
    /\ request[r].at \in {"replace", "fetch"}
    /\ \E n \in Spares :
            /\ mark[n] = "available"
            /\ mark' = [mark EXCEPT ![n] = "reserved"]
            /\ Set(r, [request[r] EXCEPT !.at = "check", !.code = "none",
                         !.new = Booked(@, n, 0)])
    /\ UNCHANGED <<store, factVars, row, review, auxVars>>

\* replace_code and get_code reserve the code they answer with. Without an answer they
\* raise, whether the store reserved one or not. Nobody checks the new code, which may have
\* been used before. A fetched one is booked with the amount of the code it stands in for.
\* The status sent for the new code repeats what the store did.
Substitute(r) ==
    /\ request[r].at \in {"replace", "fetch"}
    /\ \/ \E n \in Spares :
            /\ mark[n] = "available"
            /\ mark' = [mark EXCEPT ![n] = "reserved"]
            /\ \/ Set(r, [request[r] EXCEPT !.at = "check", !.code = "none",
                             !.new = Booked(@, n, IF request[r].at = "replace" THEN Claimed
                                                  ELSE worth[request[r].code])])
               \/ Crash(r)
       \/ UNCHANGED mark /\ Set(r, [request[r] EXCEPT !.at = "check", !.code = "none"])
       \/ UNCHANGED mark /\ Crash(r)
    /\ UNCHANGED <<store, factVars, row, review, auxVars>>

\* Mutant: only what is redeemed is taken out of the unused codes.
UnusedButRedeemed(r) ==
    [c \in (Given[request[r].order] \ request[r].redeemed) \cup DOMAIN request[r].new |->
        IF c \in DOMAIN request[r].new THEN request[r].new[c] ELSE Claimed]

\* check_unused_codes: what its loop collected is applied at the end.
Unused(r) ==
    [c \in (Given[request[r].order] \ (request[r].redeemed \cup request[r].broken))
                \cup DOMAIN request[r].new |->
        IF c \in DOMAIN request[r].new THEN request[r].new[c] ELSE Claimed]

\* _insert: the row is pending whatever its external status. A request with nothing left to
\* hand out goes on to tell the store.
Insert(r) ==
    /\ At(r, "check") /\ request[r].left = {}
    /\ row' = [row EXCEPT ![r] =
            [order |-> request[r].order, unused |-> Unused(r), redeemed |-> request[r].redeemed,
             broken |-> request[r].broken, doubt |-> request[r].doubt,
             external |-> IF DOMAIN Unused(r) = {} THEN "REDEEMED" ELSE "open"]]
    /\ IF DOMAIN Unused(r) = {}
       THEN Goto(r, "complete") /\ told' = told \cup {request[r].order}
       ELSE Over(r) /\ UNCHANGED told
    /\ UNCHANGED <<storeVars, factVars, review, restarted, overlapped, deeds>>

\* send_update_codes and send_complete_order; a failure of theirs is only logged.
CompleteAtStore(r) ==
    /\ At(r, "complete")
    /\ store' = [store EXCEPT ![request[r].order] = "done"] \/ UNCHANGED store
    /\ Over(r)
    /\ UNCHANGED <<mark, factVars, row, review, auxVars>>

\* External: the store may find the order failed or pending again, and send it again.
Reopen(o) ==
    /\ store[o] = "manual" /\ InFlight(o) = {}
    /\ \E r \in Requests : At(r, "unsent")
    /\ store' = [store EXCEPT ![o] = "open"]
    /\ UNCHANGED <<mark, factVars, request, row, review, auxVars>>

\* Bound: one restart of the API.
Restart ==
    /\ ~restarted /\ restarted' = TRUE
    /\ request' = [r \in Requests |->
            IF Live(r) THEN [at |-> "lost", order |-> request[r].order] ELSE request[r]]
    /\ UNCHANGED <<storeVars, factVars, row, review, told, overlapped, deeds>>
----------------------------------------------------------------------------
(* The worker and the review. OrderMarket models who gets the order.        *)

\* A worker has the order in work.
TakeRow(r) ==
    /\ review.at = "none"
    /\ row[r] # NoRow
    /\ \E withCodes \in BOOLEAN :
        review' = [NoReview EXCEPT !.at = "taken", !.row = r, !.withCodes = withCodes]
    /\ UNCHANGED <<storeVars, factVars, request, row, auxVars>>

\* He activates a code, for the player or for somebody else.
Activate(c, who) ==
    /\ review.at \in {"taken", "ask"}
    /\ c \in DOMAIN row[review.row].unused
    /\ used[c] = "no"
    /\ used' = [used EXCEPT ![c] = who]
    /\ deeds' = IF who = "other" THEN deeds \cup {c} ELSE deeds
    /\ UNCHANGED <<storeVars, worth, request, row, review, told, restarted, overlapped>>

\* ready_order: review of AntiFraudService begins. Of a worker without codes nothing is asked.
BeginReview ==
    /\ review.at = "taken"
    /\ review' = IF review.withCodes
                 THEN [review EXCEPT !.at = "ask", !.left = DOMAIN row[review.row].unused,
                                     !.doubt = {}]
                 ELSE [review EXCEPT !.at = "completed"]
    /\ UNCHANGED <<storeVars, factVars, request, row, auxVars>>

Reported(c) == Seen(row[review.row].order, c)

\* Mutant: a code that was not activated is passed over.
AskUsedLeniently ==
    /\ review.at = "ask"
    /\ \E c \in review.left :
        review' = IF Reported(c) = "other" THEN [review EXCEPT !.at = "banned"]
                  ELSE [review EXCEPT !.left = @ \ {c}]
    /\ UNCHANGED <<storeVars, factVars, request, row, auxVars>>

\* check_order_finished, one code: an unanswered question is taken for a yes; a code not
\* activated ends the review, and one activated for another id ends in a ban: where the
\* order names no player, every activated one.
AskUsed ==
    /\ review.at = "ask"
    /\ \E c \in review.left :
        \/ review' = [review EXCEPT !.left = @ \ {c}, !.doubt = @ \cup {c}]
        \/ Reported(c) = "player" /\ review' = [review EXCEPT !.left = @ \ {c}]
        \/ Reported(c) = "no" /\ review' = [review EXCEPT !.at = "taken", !.left = {}, !.doubt = {}]
        \/ Reported(c) = "other" /\ review' = [review EXCEPT !.at = "banned"]
    /\ UNCHANGED <<storeVars, factVars, request, row, auxVars>>

\* The verdict is OK.
Pass ==
    /\ review.at = "ask" /\ review.left = {}
    /\ review' = [review EXCEPT !.at = "completed"]
    /\ UNCHANGED <<storeVars, factVars, request, row, auxVars>>
----------------------------------------------------------------------------
RequestStep(r) ==
    \/ \E o \in Originals : Send(r, o)
    \/ Find(r) \/ GetOrder(r) \/ ChangeStatus(r) \/ CheckCode(r) \/ Substitute(r)
    \/ Insert(r) \/ CompleteAtStore(r)

Next ==
    \/ \E r \in Requests : RequestStep(r) \/ TakeRow(r)
    \/ \E o \in Originals : Reopen(o)
    \/ \E c \in Codes, who \in {"player", "other"} : Activate(c, who)
    \/ BeginReview \/ AskUsed \/ Pass
    \/ Restart

Spec == Init /\ [][Next]_vars
----------------------------------------------------------------------------
(* Properties                                                               *)

\* An order has one row, unless two requests for it were in flight at once.
OneRowPerOrder == \A o \in Originals \ overlapped : Cardinality(RowsOf(o)) <= 1

Muddled(o) == o \in overlapped \/ BrokenOff(o)

\* Every code of the request ends up in exactly one place of the row: still unused, redeemed
\* or broken, whatever the store answered and however often it did not.
CodesAccounted ==
    \A r \in Requests : row[r] # NoRow => \A c \in Given[row[r].order] :
        Cardinality({p \in {"unused", "redeemed", "broken"} :
            c \in CASE p = "unused" -> DOMAIN row[r].unused
                    [] p = "redeemed" -> row[r].redeemed
                    [] OTHER -> row[r].broken}) = 1

\* What a worker may be handed is not for sale at the store; unless two requests judged the
\* order at once, or one broke off between giving a code back and inserting the order.
NotForSale ==
    \A r \in Requests : row[r] # NoRow /\ ~Muddled(row[r].order) =>
        \A c \in DOMAIN row[r].unused : mark[c] # "available"

\* No two rows hand out the same code, but for the rows of such orders.
CodesApart ==
    \A q, r \in Requests : q # r /\ row[q] # NoRow /\ row[r] # NoRow =>
        \/ DOMAIN row[q].unused \cap DOMAIN row[r].unused = {}
        \/ Muddled(row[q].order) \/ Muddled(row[r].order)

\* An order the store has handed over has a row, or a request at work on it, or the
\* moderators were told; only a request for it that broke off can leave it unknown.
HandedOverIsKnown ==
    \A o \in Originals : store[o] # "open" =>
        \/ RowsOf(o) # {} \/ InFlight(o) # {} \/ o \in told
        \/ BrokenOff(o)

\* A worker is banned for what he did: a code of his order was activated for another id
\* since he took it, or nobody had verified it when the order came in, because the store did
\* not answer or the code is a substitute. Of an order that names no player any activated
\* code counts as that, the player's own included.
BannedForCause ==
    review.at = "banned" => \E c \in DOMAIN row[review.row].unused :
        \/ row[review.row].order \in Nameless /\ used[c] # "no"
        \/ /\ used[c] = "other"
           /\ \/ c \in deeds
              \/ c \in row[review.row].doubt
              \/ c \notin Given[row[review.row].order]

\* An order completed by a worker with codes has all its codes activated for the player,
\* except those the store would not tell about.
CompletedIsDone ==
    review.at = "completed" /\ review.withCodes =>
        \A c \in DOMAIN row[review.row].unused \ review.doubt : used[c] = "player"
=============================================================================

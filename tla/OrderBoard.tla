----------------------------- MODULE OrderBoard -----------------------------
(***************************************************************************)
(* What the marketplace promises of an order, without the processes, the   *)
(* tables and the queue behind it: it is put up, asked of one user at a    *)
(* time and never twice of the same, worked on by a user who has room for  *)
(* it, and closed for good, with at most one payment.                      *)
(*                                                                         *)
(* OrderMarket implements this under a refinement mapping that is defined  *)
(* there.                                                                  *)
(***************************************************************************)
EXTENDS Integers, FiniteSets

CONSTANTS Orders, Users, Nobody,
          Limit  \* how many orders a user may have in work

VARIABLES
    stage,  \* of each order, one of Stages
    user,   \* whom it is asked of or who works on it
    asked,  \* the users it has ever been asked of
    paid    \* the users who were paid for it

boardVars == <<stage, user, asked, paid>>

Stages == {"absent", "waiting", "asking", "working", "closed"}

BoardInit ==
    /\ stage = [o \in Orders |-> "absent"]
    /\ user = [o \in Orders |-> Nobody]
    /\ asked = [o \in Orders |-> {}]
    /\ paid = [o \in Orders |-> {}]

Working(u) == {o \in Orders : stage[o] = "working" /\ user[o] = u}

Move(o, from, to) == stage[o] = from /\ stage' = [stage EXCEPT ![o] = to]

Post(o) == Move(o, "absent", "waiting") /\ UNCHANGED <<user, asked, paid>>

Ask(o, u) ==
    /\ Move(o, "waiting", "asking")
    /\ u \notin asked[o]
    /\ user' = [user EXCEPT ![o] = u]
    /\ asked' = [asked EXCEPT ![o] = @ \cup {u}]
    /\ UNCHANGED paid

\* Offers lapse on their own, several orders at a time.
Lapse(O) ==
    /\ O # {} /\ \A o \in O : stage[o] = "asking"
    /\ stage' = [o \in Orders |-> IF o \in O THEN "waiting" ELSE stage[o]]
    /\ user' = [o \in Orders |-> IF o \in O THEN Nobody ELSE user[o]]
    /\ UNCHANGED <<asked, paid>>

\* Only the user who is asked can take the order.
Take(o) ==
    /\ Move(o, "asking", "working")
    /\ Cardinality(Working(user[o])) < Limit
    /\ UNCHANGED <<user, asked, paid>>

GiveUp(o) == Move(o, "waiting", "closed") /\ UNCHANGED <<user, asked, paid>>

Drop(o) ==
    /\ Move(o, "working", "closed")
    /\ user' = [user EXCEPT ![o] = Nobody]
    /\ UNCHANGED <<asked, paid>>

Pay(o) ==
    /\ Move(o, "working", "closed")
    /\ paid[o] = {}
    /\ paid' = [paid EXCEPT ![o] = {user[o]}]
    /\ user' = [user EXCEPT ![o] = Nobody]
    /\ UNCHANGED asked

\* Every step moves some order on.
BoardNext ==
    \E o \in Orders :
        /\ stage'[o] # stage[o]
        /\ \/ Post(o) \/ Take(o) \/ GiveUp(o) \/ Drop(o) \/ Pay(o)
           \/ \E u \in Users : Ask(o, u)
           \/ \E O \in SUBSET Orders : Lapse(O)

BoardSpec == BoardInit /\ [][BoardNext]_boardVars
=============================================================================

-------------------------- MODULE MCOrderTimeouts --------------------------
(* An instance of the timeouts and dialogues of orders in work for TLC. *)
EXTENDS OrderTimeouts

MCOrders == {"o1"}
MCUsers == {"u1"}

\* Bound: presses overlap, and the bot is restarted, where no call to Telegram fails.
OneTrouble == failures = 0 \/ (hasty = {} /\ ~restarted)
=============================================================================

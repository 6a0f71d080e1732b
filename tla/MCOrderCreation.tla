-------------------------- MODULE MCOrderCreation --------------------------
(* Small instances of the creation of orders for TLC. *)
EXTENDS OrderCreation

MCOriginals == {"x", "y", "z"}
MCGiven == [o \in MCOriginals |->
    CASE o = "x" -> {"c1", "c2"} [] o = "y" -> {"d1"} [] OTHER -> {}]
MCSpares == {"n1"}
\* c1 and c2 may be exchanged for each other; y serves to compete for the spare code, which
\* somebody else may have used.
MCHistories ==
    {h \in [{"c1", "c2", "d1", "n1"} -> {"no", "player", "other", "misvalued"}] :
        /\ <<h["c1"], h["c2"]>> \in {<<"no", "no">>, <<"no", "other">>, <<"no", "misvalued">>,
               <<"player", "other">>, <<"other", "misvalued">>}
        /\ h["d1"] = "other"
        /\ h["n1"] \in {"no", "other"}
        /\ h["n1"] = "other" => <<h["c1"], h["c2"]>> = <<"no", "other">>}
MCAmounts == {60, 325}
=============================================================================

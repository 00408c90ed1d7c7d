-------------------------------- MODULE MCRules --------------------------------
(* Rules for TLC: phrases that begin alike, defined by several sources, and  *)
(* texts that mix them with abbreviations, accents and a number.             *)
EXTENDS Rules, TLC

Defined == (<<"p", "q">> :> <<"mined", "db_override", "override">>)
        @@ (<<"p", "q", "p">> :> <<"override", "mined">>)
        @@ (<<"q", "k">> :> <<"mined", "db">>)

Phrased == (<<"w", "d">> :> <<"w", "d2">>) @@ (<<"d", "d">> :> <<"d2", "d1">>)

Counted == [x \in Kinds \X Kinds |->
    CASE x = <<"u", "d1">> -> 6 [] x = <<"u", "d0">> -> 5 [] x = <<"d2", "u">> -> 3 [] OTHER -> 0]

Short == UNION {[1..n -> {"p", "q", "k", "m", "u"}] : n \in 1..3}
Accented == UNION {[1..n -> {"d0", "d1", "u", "w"}] : n \in 1..3}
Long == {<<"p", "q", "p", "q", "k">>, <<"u", "u", "p", "q", "u">>, <<"k", "m", "w", "m", "k">>,
         <<"u", "m", "p", "u", "u">>, <<"d0", "w", "d1", "d0", "u">>, <<"w", "w", "w", "p", "u", "w">>,
         <<"u", "q", "k", "p", "q", "u">>, <<"d0", "u", "u", "q", "m", "q">>}

Samples == Short \cup Accented \cup Long
Numbered == {<<"p", "#", "q">>, <<"w", "p", "#", "q">>, <<"#", "p", "q">>, <<"k", "#", "m">>}
=============================================================================

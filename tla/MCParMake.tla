----------------------------- MODULE MCParMake -----------------------------
(* Makefiles in which a rule has several dependencies, several rules share *)
(* one, a goal is a dependency of another, and a goal lies on a cycle or   *)
(* leads to one.                                                           *)
EXTENDS ParMake

MCRules == {"a", "b", "c", "d"}

Makefile(da, db, dc, dd, goals) ==
    [deps |-> [r \in MCRules |-> CASE r = "a" -> da [] r = "b" -> db
                                   [] r = "c" -> dc [] r = "d" -> dd],
     goals |-> goals]

MCMakefiles ==
    { Makefile(<<"b", "c">>, <<"d">>, <<"d">>, <<>>, <<"a">>),
      Makefile(<<"b", "c", "d">>, <<>>, <<>>, <<>>, <<"a", "c">>),
      Makefile(<<"b">>, <<"c">>, <<"d">>, <<>>, <<"b", "a">>),
      Makefile(<<"b">>, <<"a">>, <<"d">>, <<>>, <<"a", "c">>),
      Makefile(<<"b">>, <<"b">>, <<>>, <<>>, <<"a">>) }
=============================================================================

----------------------------- MODULE MCPrograms -----------------------------
(* A small instance of Programs: the lines that are typed, and the       *)
(* values of max_val.                                                      *)
EXTENDS Programs

(* A program that fails and one that does not, alone, after each operator  *)
(* and in the background; signals to a process that may be there or not;   *)
(* references to the history, one of which may refer to itself.            *)
MCLines == {<<"no", "&&", "ok">>, <<"no", "||", "ok">>, <<"ok", ";", "#", "0">>,
          <<"ok", "&">>, <<"no", "&">>, <<"kill", "11">>, <<"stop", "11">>, <<"cont", "11">>,
          <<"#", "0">>, <<"!", "no">>, <<"!">>, <<"!history">>, <<"cd", "ok">>, <<"ps">>}

MCIndex == [word \in {"0"} |-> 0]

(* max_val = 1 makes max_val - 1 and 0, and 1 and max_val, coincide; 3     *)
(* keeps both bounds apart.                                                *)
MCMaxVals == 1..3
=============================================================================

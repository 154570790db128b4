---------------------------- MODULE MCFileServer ----------------------------
(* Names of different lengths; PUTs that announce and send the same, too   *)
(* little and too much; a GET with the longest header that is read, a PUT  *)
(* with one byte more, and a header of another verb.                       *)
EXTENDS FileServer

MCNameLength == [a |-> 1, bc |-> 2, long |-> 258, longer |-> 259]

MCNames == DOMAIN MCNameLength

Ask(verb, name) == [verb |-> verb, name |-> name, size |-> 0, sends |-> 0]

Put(name, announced, chunks) ==
    [verb |-> "PUT", name |-> name, size |-> announced, sends |-> chunks]

MCRequests == {Ask("GET", "a"), Ask("LIST", "a"), Ask("DELETE", "a"), Ask("DELETE", "bc"),
               Put("a", 1, 1), Put("bc", 2, 2), Put("a", 2, 1), Put("a", 1, 2),
               Ask("GET", "long"), Put("longer", 0, 0), Ask("OTHER", "a")}
=============================================================================

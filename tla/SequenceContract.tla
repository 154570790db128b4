--------------------------- MODULE SequenceContract ---------------------------
(***************************************************************************)
(* What a vector promises: it is a sequence of copies that it owns.  A     *)
(* copy is made when an element comes in, and destroyed when it goes out.  *)
(***************************************************************************)
EXTENDS Sequences, SequencesExt

VARIABLES contents, live

Init == contents = <<>> /\ live = {}

Insert == \E i \in 1 .. Len(contents) + 1, e \in live' \ live :
             contents' = InsertAt(contents, i, e) /\ live' = live \cup {e}

Erase == \E i \in DOMAIN contents :
            contents' = RemoveAt(contents, i) /\ live' = live \ {contents[i]}

Set == \E i \in DOMAIN contents, e \in live' :
          /\ e \notin live \ {contents[i]}
          /\ contents' = [contents EXCEPT ![i] = e]
          /\ live' = (live \ {contents[i]}) \cup {e}

Resize == \/ IsPrefix(contents', contents) /\ live' = ToSet(contents')
          \/ /\ IsPrefix(contents, contents') /\ IsInjective(contents')
             /\ live' = ToSet(contents')

Next == Insert \/ Erase \/ Set \/ Resize

Spec == Init /\ [][Next]_<<contents, live>>
=============================================================================

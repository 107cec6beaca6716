-------------------------- MODULE MCOriginSearch --------------------------
(* Finite instances of DirtyCount, and so of OriginSearch, whose steps it  *)
(* extends: the pattern files and texts of MCOddEvenSearch.  Mode 24 is    *)
(* minLength 2; in mode 3, minLength 1, nobody counts dirty bytes, and     *)
(* what is added to the steps of OriginSearch is to be ignored.            *)
EXTENDS DirtyCount, ReferenceAutomaton

Words(chars, lengths) == UNION {[1 .. k -> chars] : k \in lengths}

MCChar == 0 .. 1

Files ==
    {<< <<0,1>>, <<1,0,1>>, <<0>> >>,
     << <<0,0>>, <<0,0,0>>, <<0,0,0,0>> >>,
     << <<0,1,1,0>>, <<1,1>>, <<1,1>>, <<1>>, <<1>> >>,
     << <<1,0,0,1,1>>, <<0,0,1>>, <<1,0,0,1>> >>}

MCAutomata == {OriginAutomaton(MCChar, file, m) : file \in Files, m \in {1, 2}}

MCTexts == Words(MCChar, 0 .. 7)

=============================================================================

----------------------------- MODULE MCAcFilter -----------------------------
(* Finite instances of AcFilter: every text up to a length, under pattern  *)
(* files with one-byte patterns, nested patterns and patterns whose halves *)
(* share a list with those of longer ones.                                 *)
EXTENDS AcFilter, ReferenceAutomaton

Words(chars, lengths) == UNION {[1 .. k -> chars] : k \in lengths}

MCChar == 0 .. 1

Files ==
    {<< <<0,1>>, <<1,0,1>>, <<0>> >>,
     << <<0,1,1,0>>, <<1,1>>, <<1,1>>, <<1>> >>,
     << <<1,0,0,1,1>>, <<0,0,1>>, <<1,0,0,1>> >>,
     << <<0,0,0,1,0,1>>, <<1,1,1>>, <<1>> >>}

MCAutomata ==
    {[acsm           |-> OddEvenAutomaton(MCChar, file, FALSE),
      filterOriginAC |-> OriginAutomaton(MCChar, file, 1)] : file \in Files}

MCTexts == Words(MCChar, 0 .. 9)

=============================================================================

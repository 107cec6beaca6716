-------------------------- MODULE MCOddEvenSearch --------------------------
(* Finite instances of OddEvenSearch: every text up to a length over a     *)
(* small alphabet, under pattern files whose occurrences overlap, start at *)
(* both parities, touch both ends of the text and nest.                    *)
EXTENDS OddEvenSearch, ReferenceAutomaton

Words(chars, lengths) == UNION {[1 .. k -> chars] : k \in lengths}

MCChar == 0 .. 1

Files ==
    {<< <<0,1>>, <<1,0,1>>, <<0>> >>,
     << <<0,0>>, <<0,0,0>>, <<0,0,0,0>> >>,
     << <<0,1,1,0>>, <<1,1>>, <<1,1>>, <<1>>, <<1>> >>,
     << <<1,0,0,1,1>>, <<0,0,1>>, <<1,0,0,1>> >>}

MCAutomata == {OddEvenAutomaton(MCChar, file, b) : file \in Files, b \in BOOLEAN}

MCTexts == Words(MCChar, 0 .. 7)

=============================================================================

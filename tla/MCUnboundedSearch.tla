------------------------- MODULE MCUnboundedSearch -------------------------
(* Finite instances of UnboundedSearch. *)
EXTENDS UnboundedSearch, ReferenceAutomaton

Words(chars, lengths) == UNION {[1 .. k -> chars] : k \in lengths}

MCChar == 0 .. 1

Files ==
    {<< <<0,1>>, <<1,0,1>>, <<0>> >>,
     << <<0,1,1,0>>, <<1,1>>, <<1,1>> >>,
     << <<1,0,0,1,1>>, <<0,0,1>>, <<1,0,0,1>> >>,
     << <<1,0,1,1>>, <<0,1,0,1,1>>, <<1,1,0,1,1>>, <<1,1,1,1>> >>,
     << <<0,0,0>>, <<0,0,0,0,0>>, <<1,0,0,0,0,0>>, <<0,1,0,0>> >>}

MCAutomata == {OddEvenAutomaton(MCChar, file, FALSE) : file \in Files} \cup
              {HashAutomaton(MCChar, file) : file \in Files}

(* Every two bytes, anywhere in front of the text. *)
MCFronts == {f \in [1 .. MaxFront -> MCChar] : (f[1] + f[2] + f[3]) % 2 = 0}

MCTexts == Words(MCChar, 0 .. 6)

=============================================================================

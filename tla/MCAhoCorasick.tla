--------------------------- MODULE MCAhoCorasick ---------------------------
(* Finite instances of AhoCorasick: pattern files over a small alphabet.   *)
EXTENDS AhoCorasick

Words(chars, lengths) == UNION {[1 .. k -> chars] : k \in lengths}

(* Every file of one pattern of one to four bytes, or of one of up to three *)
(* and one of up to two bytes, over two chars.                             *)
PairInputs ==
    {<<p>> : p \in Words(0 .. 1, 1 .. 4)} \cup
    {<<p, q>> : p \in Words(0 .. 1, 1 .. 3), q \in Words(0 .. 1, 1 .. 2)}

(* Longer files over three chars: shared prefixes, patterns inside others, *)
(* failure chains of length three, repeated and duplicate patterns, and a  *)
(* file none of whose patterns can be halved.                              *)
ChosenInputs ==
    {<< <<0,1,0,1,2>>, <<1,0,1>>, <<0,1>>, <<1>> >>,
     << <<0,0,0,0,0,0>>, <<0,0,0>>, <<0,0>> >>,
     << <<0,1,2,0,1,2,0>>, <<2,0,1>>, <<1,2,0,1>>, <<2>> >>,
     << <<0,2,0,2,0,2>>, <<2,2,2>>, <<2,2>>, <<0,2>>, <<2,0>> >>,
     << <<1,0,0,1,0,0,1>>, <<1,0,0,1>>, <<1,0,0,1>>, <<0,0,1>> >>,
     << <<2,1,2,1,2,1,2,0>>, <<1,1,1,0>>, <<2,2,0>>, <<1,0>>, <<0,1,2>> >>,
     << <<0>>, <<2>>, <<0>> >>}

MCInputs == PairInputs \cup ChosenInputs

=============================================================================

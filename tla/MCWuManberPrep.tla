-------------------------- MODULE MCWuManberPrep --------------------------
(* Finite instances of WuManberPrep: the bytes 1 (a letter), 0 (its upper  *)
(* case) and 2 (no letter); five patterns or more take the tables, fewer   *)
(* Boyer-Moore.                                                            *)
EXTENDS WuManberPrep

MCChar == 0 .. 2

MCUpper == [c \in MCChar |-> IF c = 1 THEN 0 ELSE c]

File(noCase, pats) == [n \in DOMAIN pats |-> [pat |-> pats[n], noCase |-> noCase]]

(* Groups of every kind, in the order of the file: duplicates, prefixes of *)
(* one another, equal in capitals only, one byte before and after longer   *)
(* patterns, all of one length, longer than the largest shift, none.       *)
Chosen ==
    {<< <<2,0>>, <<0,1,2>>, <<0,0>>, <<1,1,2>>, <<2,2,2,0>> >>,
     << <<0,2,0,2>>, <<1,2,2,0>>, <<0,2,0>>, <<2,2,2>>, <<1,2,1,2>> >>,
     << <<2>>, <<0,2>>, <<0>>, <<1>>, <<1,0,2>> >>,
     << <<2,0>>, <<2>>, <<2>>, <<0>>, <<1,2>> >>,
     << <<0,0,2,2,0>>, <<2,2,0,0,0>>, <<1,0,2,0,0>>, <<2,0,0,0>>, <<0,0,0,0>> >>,
     << <<0,2>>, <<2,0>>, <<0,0>>, <<2,2>>, <<0,2>>, <<2,0>> >>,
     << <<0>>, <<2,0,1>> >>,
     << >>}

(* Every file of one pattern of up to three bytes, and of two of up to two. *)
Words(chars, lengths) == UNION {[1 .. k -> chars] : k \in lengths}

Small ==
    {<<p>> : p \in Words(MCChar, 1 .. 3)} \cup
    {<<p, q>> : p \in Words(MCChar, 1 .. 2), q \in Words(MCChar, 1 .. 2)}

MCFiles == {File(b, f) : f \in Chosen \cup Small, b \in {0, 1}}

=============================================================================

------------------------------ MODULE MCReplay ------------------------------
(* Finite instances of Replay: every accepted mode and one that is not,    *)
(* files of automata with equal ids, without patterns, and with one-byte   *)
(* patterns only, and trace files with equal, empty and unknown entries.   *)
EXTENDS Replay

MCChar == 0 .. 1

(* Two letters, 0 the capital of 1. *)
MCUpper == [c \in MCChar |-> 0]

MCConfigs ==
    [driver : {"ac"}, mode : {0, 3, 7, 13, 16, 17, 19, 20, 21, 22, 23, 24}, noLenOne : {0}]
    \cup [driver : {"wu"}, mode : {0}, noLenOne : {0, 1}]

MCThreadConfigs == {c \in MCConfigs : c.mode = 19}

Ac(n, file) == [id |-> n, patterns |-> file]

Mixed  == << <<0,1>>, <<1,0,1>>, <<0>> >>

Nested == << <<1>>, <<1,1>>, <<1,1,1>>, <<0,1,1,0>>, <<1,1>> >>

MCAcFiles ==
    {<<Ac(1, Mixed), Ac(2, Nested)>>,
     <<Ac(1, Nested), Ac(1, Mixed), Ac(2, << <<0,0>> >>)>>,
     <<Ac(2, << >>), Ac(1, Nested)>>,
     <<Ac(1, << <<0>> >>), Ac(2, << <<1>>, <<1>> >>)>>,
     << >>}

MCTexts ==
    {<< >>, <<1>>, <<0,1>>, <<1,0,1>>, <<0,1,1,0>>, <<1,1,1,1>>, <<0,0,1,0,1,1>>,
     <<0,1,0,1,0,1,0,1,0,1>>}

Traces == [acId : {1, 2}, traceText : MCTexts]

MCTraceFiles ==
    {<< >>, <<[acId |-> 1, traceText |-> <<0,1>>], [acId |-> 3, traceText |-> <<1>>]>>}
    \cup {<<t>> : t \in Traces} \cup {<<t, u>> : t, u \in Traces}
    \cup {<<t, u, t>> : t \in {t \in Traces : Len(t.traceText) >= 4},
                        u \in {u \in Traces : Len(u.traceText) \in 1 .. 3}}

=============================================================================

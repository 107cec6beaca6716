------------------------ MODULE MCRepetitionSearch ------------------------
(* Finite instances of RepetitionSearch: every text up to a length, under  *)
(* pattern files that keep the automaton in one state while bytes repeat.  *)
EXTENDS RepetitionSearch, ReferenceAutomaton

Words(chars, lengths) == UNION {[1 .. k -> chars] : k \in lengths}

MCChar == 0 .. 1

Files ==
    {<< <<0,1>>, <<1,0,1>>, <<0>> >>,
     << <<0,0,0,1,0,1>>, <<1,0,1,0>> >>,
     << <<1,1,1>>, <<1,1,0,1>>, <<1,1,1>>, <<1>> >>}

MCAutomata == {OddEvenAutomaton(MCChar, file, b) : file \in Files, b \in BOOLEAN}

MCTexts == Words(MCChar, 0 .. 10)

(* What initAcBeforeSearch leaves, and what an earlier search may leave:   *)
(* a run of the byte 1, or of 0, that was being skipped.                   *)
Cleared ==
    [countConitnue |-> 0, lastChar |-> 0, lastFoundPatternCount |-> 0, continueFlag |-> 0]

MCLeftovers ==
    {Cleared,
     [countConitnue |-> 4, lastChar |-> 1, lastFoundPatternCount |-> 1, continueFlag |-> 1],
     [countConitnue |-> 3, lastChar |-> 0, lastFoundPatternCount |-> 1, continueFlag |-> 0]}

=============================================================================

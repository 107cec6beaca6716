-------------------------- MODULE TwoPhaseSearch --------------------------
(***************************************************************************)
(* What the two-phase searches of modules OddEvenSearch (fullMatchOrigin)  *)
(* and RepetitionSearch (fullMatchSnort) share: the automata and texts     *)
(* they are given, the variables of the loop over the text, and the        *)
(* comparison of the second phase.                                         *)
(*                                                                         *)
(* The pointers Tstart, T and textEnd are the offsets 0, T and Len(text).  *)
(* At a callback T is two bytes past the last byte the automaton read.     *)
(***************************************************************************)
EXTENDS SubPattern

CONSTANTS
    Char,
    Automata,   \* compiled automata, see module Automaton, with two more
                \* fields: patterns, the pattern file, and countOneLen, TRUE
                \* when acMode is one that keeps the table of one-byte patterns
    Texts       \* the texts that may be searched

INSTANCE Automaton WITH Char <- Char

(* The one-byte patterns equal to char c that the table counts. *)
OneByte(a, c) == {id \in DOMAIN a.patterns : a.countOneLen /\ a.patterns[id] = <<c>>}

ASSUME AutomataAssumption ==
    \A a \in Automata :
        /\ AutomatonTyped(a) /\ AutomatonCorrect(a)
        /\ a.patterns \in Seq(Seq(Char) \ {<< >>})
        /\ HalvesOf(a.plist, a.patterns)
        /\ a.countOneLen \in BOOLEAN
        /\ \A c \in Char : a.oneLenTable[c] = Cardinality(OneByte(a, c))

ASSUME TextsAssumption == Texts \subseteq Seq(Char)

VARIABLES
    acsm,           \* the automaton and
    text,           \* the text of this search
    pc,
    T,
    state,
    foundCounter

Tend == Len(text)

MatchList == acsm.acsmMatchList[state]

(* Faulty: an occurrence at the first byte of the text is refused. *)
RestMatchesInside(p) ==
    LET start == T - p.start IN
    /\ start > 0
    /\ start + p.indexEnd < Tend
    /\ \A i \in RestIndices(p.indexEnd) : At(p.origin, i) = At(text, start + i)

(* The full match of sub pattern p when the automaton stands at T. *)
RestMatches(p) ==
    LET start == T - p.start IN
    /\ start >= 0
    /\ start + p.indexEnd < Tend
    /\ \A i \in RestIndices(p.indexEnd) : At(p.origin, i) = At(text, start + i)

(* What the search has to find. *)
Expected == Occurrences(acsm.patterns, IF acsm.countOneLen THEN 1 ELSE 2, text)

=============================================================================

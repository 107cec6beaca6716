------------------------- MODULE ReferenceAutomaton -------------------------
(***************************************************************************)
(* Compiled automata written down by definition instead of being built:    *)
(* the instances the model-checking modules hand to the searches.  Their   *)
(* states are numbered as AddPatternStates numbers them; transitions and   *)
(* match lists are what module Automaton requires.  MCAhoCorasick checks   *)
(* that the construction of the code meets the same requirements.          *)
(***************************************************************************)
EXTENDS SubPattern

(* The list acsmPatterns after the whole file has been added. *)
SplitListFrom(patterns, minLength) ==
    LET add[k \in 0 .. Len(patterns)] ==
            IF k = 0 THEN << >>
            ELSE IF Len(patterns[k]) < minLength THEN add[k - 1]
            ELSE <<SubPatternOf(patterns[k], k, 1),
                   SubPatternOf(patterns[k], k, 0)>> \o add[k - 1]
    IN  add[Len(patterns)]

SplitList(patterns) == SplitListFrom(patterns, 2)

WholeList(patterns, minLength) ==
    LET add[k \in 0 .. Len(patterns)] ==
            IF k = 0 THEN << >>
            ELSE IF Len(patterns[k]) < minLength THEN add[k - 1]
            ELSE <<WholePattern(patterns[k], k)>> \o add[k - 1]
    IN  add[Len(patterns)]

(* The prefixes of the sub patterns, in the order they become states. *)
Labels(plist) ==
    LET add[k \in 0 .. Len(plist)] ==
            IF k = 0 THEN << << >> >>
            ELSE LET w     == plist[k].patrn
                     known == add[k - 1]
                 IN  known \o SelectSeq([j \in 1 .. Len(w) |-> SubSeq(w, 1, j)],
                                        LAMBDA v : \A q \in DOMAIN known : known[q] # v)
    IN  add[Len(plist)]

(* The automaton over plist, for the file patterns and the alphabet chars. *)
AutomatonOver(chars, plist, patterns, minLength, countOneLen) ==
    LET labels == Labels(plist)
        label  == [s \in 0 .. Len(labels) - 1 |-> labels[s + 1]]
    IN  [acsmNumStates |-> Len(labels),
         acsmNextState |->
            [s \in DOMAIN label |-> [c \in chars |->
                CHOOSE t \in DOMAIN label : IsLongestSuffix(label, t, Append(label[s], c))]],
         acsmMatchList |->
            [s \in DOMAIN label |->
                SelectSeq([e \in 1 .. Len(plist) |-> e],
                          LAMBDA e : EndsWith(label[s], plist[e].patrn))],
         plist         |-> plist,
         oneLenTable   |->
            [c \in chars |->
                IF countOneLen THEN Cardinality({p \in DOMAIN patterns : patterns[p] = <<c>>})
                ELSE 0],
         label         |-> label,
         patterns      |-> patterns,
         minLength     |-> minLength,
         countOneLen   |-> countOneLen]

OddEvenAutomaton(chars, patterns, countOneLen) ==
    AutomatonOver(chars, SplitList(patterns), patterns, 2, countOneLen)

(* Mode 9: patterns of up to two bytes are not split. *)
HashAutomaton(chars, patterns) ==
    AutomatonOver(chars, SplitListFrom(patterns, 3), patterns, 3, FALSE)

OriginAutomaton(chars, patterns, minLength) ==
    AutomatonOver(chars, WholeList(patterns, minLength), patterns, minLength, FALSE)

=============================================================================

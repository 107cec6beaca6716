----------------------------- MODULE Automaton -----------------------------
(***************************************************************************)
(* What the Aho-Corasick construction promises to the searches.  The       *)
(* searches assume it, the construction (module AhoCorasick) is checked to *)
(* deliver it.                                                             *)
(*                                                                         *)
(* An automaton is a record with the fields of ACSM_STRUCT2 a search uses: *)
(*   acsmNumStates   the states are 0 .. acsmNumStates - 1                 *)
(*   acsmNextState   acsmNextState[state][char], the full transition table *)
(*   acsmMatchList   the sub patterns (indices into plist) each state ends *)
(*   plist           the list acsmPatterns                                 *)
(*   oneLenTable     how many one-byte patterns each char is (or zeros)    *)
(* and, for the specification only,                                        *)
(*   label           the string that leads from state 0 to each state.     *)
(***************************************************************************)
EXTENDS TextMatch

CONSTANT Char    \* the bytes: 0 .. acsmAlphabetSize - 1 in the code

States(a) == 0 .. a.acsmNumStates - 1

(* The labels are the prefixes of the sub patterns: a trie. *)
IsTrie(label, plist) ==
    /\ 0 \in DOMAIN label
    /\ label[0] = << >>
    /\ \A s \in DOMAIN label :
        label[s] # << >> => \E r \in DOMAIN label : IsFrontOf(label[r], label[s])
    /\ \A e \in DOMAIN plist : \E s \in DOMAIN label : label[s] = plist[e].patrn

(* The match list of a state that spells v: the sub patterns v ends with,  *)
(* each once.                                                              *)
ListsSuffixes(mlist, plist, v) ==
    /\ \A e \in DOMAIN plist :
        EndsWith(v, plist[e].patrn) <=> \E i \in 1 .. Len(mlist) : mlist[i] = e
    /\ \A i, j \in 1 .. Len(mlist) : mlist[i] = mlist[j] => i = j

AutomatonTyped(a) ==
    /\ a.acsmNumStates \in Nat \ {0}
    /\ a.acsmNextState \in [States(a) -> [Char -> States(a)]]
    /\ a.label \in [States(a) -> Seq(Char)]
    /\ DOMAIN a.plist \subseteq Nat
    /\ \A e \in DOMAIN a.plist : a.plist[e].patrn \in Seq(Char)
    /\ a.acsmMatchList \in [States(a) -> Seq(DOMAIN a.plist)]

AutomatonCorrect(a) ==
    /\ IsTrie(a.label, a.plist)
    /\ \A s \in States(a), c \in Char :
        IsLongestSuffix(a.label, a.acsmNextState[s][c], Append(a.label[s], c))
    /\ \A s \in States(a) : ListsSuffixes(a.acsmMatchList[s], a.plist, a.label[s])

=============================================================================

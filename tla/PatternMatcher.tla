--------------------------- MODULE PatternMatcher ---------------------------
(***************************************************************************)
(* What a search engine of this project promises, whatever its method: it  *)
(* reports occurrences of the patterns in the text, in any order and any   *)
(* number at a time, never one that is not there and never one twice;      *)
(* foundCounter grows by one for each; and it finishes only when all of    *)
(* them are reported.                                                      *)
(***************************************************************************)
EXTENDS Naturals, FiniteSets

VARIABLES
    expected,   \* the occurrences there are; never changes
    reported,   \* those reported so far
    count,      \* foundCounter
    finished

matcherVars == <<expected, reported, count, finished>>

Init ==
    /\ IsFiniteSet(expected)
    /\ reported = {}
    /\ count = 0
    /\ finished = FALSE

Report ==
    /\ ~finished
    /\ reported \subseteq reported'
    /\ reported' \subseteq expected
    /\ count' = count + Cardinality(reported' \ reported)
    /\ UNCHANGED <<expected, finished>>

Finish ==
    /\ reported = expected
    /\ finished' = TRUE
    /\ UNCHANGED <<expected, reported, count>>

Next == Report \/ Finish

Spec == Init /\ [][Next]_matcherVars

=============================================================================

------------------------------ MODULE AcFilter ------------------------------
(***************************************************************************)
(* Mode 13.  The odd-even search does not count: its callback              *)
(* fullMatchOddEvenAcFilter marks, for every state with a match list, the  *)
(* bytes of the text that the longest pattern of the list may cover.  The  *)
(* second phase, searchOriginAcWithFlag, runs an unsplit automaton of all  *)
(* patterns over the marked bytes and skips the others without going back  *)
(* to state 0.                                                             *)
(*                                                                         *)
(* main repeats both phases searchRunTime times; the marks are never       *)
(* cleared.  The callback at the end of the text writes up to three        *)
(* entries behind filterFlagGroup, which nobody reads.                     *)
(***************************************************************************)
EXTENDS SubPattern, FiniteSetsExt

CONSTANTS
    Char,
    Automata,       \* records of the split automaton (acsm) and the whole one
                    \* (filterOriginAC) of one pattern file
    Texts,
    searchRunTime

ASSUME searchRunTimeAssumption == searchRunTime \in Nat \ {0}

INSTANCE Automaton WITH Char <- Char

(* The first automaton holds the halves of the patterns of the file, the   *)
(* second the patterns themselves, those of one byte too.                  *)
ASSUME AutomataAssumption ==
    \A a \in Automata :
        /\ a.acsm.patterns \in Seq(Seq(Char) \ {<< >>})
        /\ AutomatonTyped(a.acsm) /\ AutomatonCorrect(a.acsm)
        /\ HalvesOf(a.acsm.plist, a.acsm.patterns)
        /\ AutomatonTyped(a.filterOriginAC) /\ AutomatonCorrect(a.filterOriginAC)
        /\ WholesOf(a.filterOriginAC.plist, a.acsm.patterns, 1)

ASSUME TextsAssumption == Texts \subseteq Seq(Char)

VARIABLES
    ac,
    text,
    run,                \* the runs done
    pc,
    T,
    state,
    filterFlagGroup,    \* the indices of the flags that are 1
    foundCounter,
    found               \* foundCounter at the end of each run

vars == <<ac, text, run, pc, T, state, filterFlagGroup, foundCounter, found>>

Tend == Len(text)

Init ==
    /\ ac \in Automata
    /\ text \in Texts
    /\ run = 0
    /\ pc = "oddEven"
    /\ T = 0
    /\ state = 0
    /\ filterFlagGroup = {}
    /\ foundCounter = 0
    /\ found = << >>

-----------------------------------------------------------------------------
(* The first phase. *)

(* acsmCaleMaxPatternLength *)
maxLengthGroup(s) ==
    Max({0} \cup {Len(ac.acsm.plist[ac.acsm.acsmMatchList[s][j]].origin) :
                     j \in DOMAIN ac.acsm.acsmMatchList[s]})

(* Faulty: the start as a signed number. *)
MarkedSigned ==
    IF ac.acsm.acsmMatchList[state] = << >> THEN {}
    ELSE T - maxLengthGroup(state) .. T + 1

(* Faulty: a window of the pattern only, that ends before T. *)
MarkedShort ==
    IF ac.acsm.acsmMatchList[state] = << >> \/ maxLengthGroup(state) > T THEN {}
    ELSE T - maxLengthGroup(state) + 1 .. T + 1

(* What the callback marks at T: start .. offset, where offset = T + 1 and *)
(* start = offset - (maxLength + 1) is unsigned.  When that is below zero  *)
(* it is a number no index reaches, and nothing is marked.                 *)
Marked ==
    IF ac.acsm.acsmMatchList[state] = << >> \/ maxLengthGroup(state) > T THEN {}
    ELSE T - maxLengthGroup(state) .. T + 1

Mark ==
    /\ pc = "oddEven"
    /\ filterFlagGroup' = filterFlagGroup \cup Marked

acsmSearchWithOddEven ==
    /\ Mark
    /\ T < Tend
    /\ state' = ac.acsm.acsmNextState[state][At(text, T)]
    /\ T' = T + 2
    /\ UNCHANGED <<ac, text, run, pc, foundCounter, found>>

LeaveOddEven ==
    /\ Mark
    /\ T >= Tend
    /\ pc' = "filter"
    /\ T' = 0
    /\ state' = 0
    /\ UNCHANGED <<ac, text, run, foundCounter, found>>

-----------------------------------------------------------------------------
(* The second phase, acsmSearchWithOddEvenFilter. *)

Skip ==
    /\ pc = "filter"
    /\ T < Tend
    /\ T \notin filterFlagGroup
    /\ T' = T + 1
    /\ UNCHANGED <<ac, text, run, pc, state, filterFlagGroup, foundCounter, found>>

(* Faulty: a gap sends the automaton back to state 0. *)
VisitAfterGap ==
    LET s == IF T - 1 \in filterFlagGroup THEN state ELSE 0 IN
    /\ pc = "filter"
    /\ T < Tend
    /\ T \in filterFlagGroup
    /\ foundCounter' = foundCounter + Len(ac.filterOriginAC.acsmMatchList[state])
    /\ state' = ac.filterOriginAC.acsmNextState[s][At(text, T)]
    /\ T' = T + 1
    /\ UNCHANGED <<ac, text, run, pc, filterFlagGroup, found>>

(* originMatch is called once for every entry of the match list. *)
Visit ==
    /\ pc = "filter"
    /\ T < Tend
    /\ T \in filterFlagGroup
    /\ foundCounter' = foundCounter + Len(ac.filterOriginAC.acsmMatchList[state])
    /\ state' = ac.filterOriginAC.acsmNextState[state][At(text, T)]
    /\ T' = T + 1
    /\ UNCHANGED <<ac, text, run, pc, filterFlagGroup, found>>

(* After the loop the match list of the last state; then the next run.     *)
EndOfRun ==
    /\ pc = "filter"
    /\ T >= Tend
    /\ foundCounter' = foundCounter + Len(ac.filterOriginAC.acsmMatchList[state])
    /\ found' = Append(found, foundCounter')
    /\ run' = run + 1
    /\ pc' = IF run + 1 < searchRunTime THEN "oddEven" ELSE "done"
    /\ T' = 0
    /\ state' = 0
    /\ UNCHANGED <<ac, text, filterFlagGroup>>

Done == pc = "done" /\ UNCHANGED vars

Next == acsmSearchWithOddEven \/ LeaveOddEven \/ Skip \/ Visit \/ EndOfRun \/ Done

Spec == Init /\ [][Next]_vars

-----------------------------------------------------------------------------
(* Properties.                                                             *)

patterns == ac.acsm.patterns

(* How many of the bytes before t are marked. *)
VisitedBefore(t) == Cardinality({i \in filterFlagGroup : i < t})

(* The text without the bytes that are not marked. *)
VisitedText ==
    [k \in 1 .. VisitedBefore(Tend) |->
        At(text, CHOOSE i \in filterFlagGroup : VisitedBefore(i) = k - 1)]

FoundIn(r) == found[r] - IF r = 1 THEN 0 ELSE found[r - 1]

(* aho_corasick.c:1934: because the automaton is not reset where bytes are *)
(* skipped, the second phase is an exact search of another text, the one   *)
(* that is left when the skipped bytes are taken out: what it counts may   *)
(* lie on both sides of a gap.  The flags a run finds already set are      *)
(* those it would set itself, so this is so for every run.                 *)
CountsInVisitedText ==
    \A r \in DOMAIN found :
        FoundIn(r) = Cardinality(Occurrences(patterns, 1, VisitedText))

(* The even bytes before t end with the half h. *)
StreamEndsWith(t, h) ==
    /\ 2 * Len(h) <= t
    /\ \A j \in 1 .. Len(h) : h[j] = At(text, t - 2 - 2 * (Len(h) - j))

(* The longest pattern with a half that ends at t. *)
LongestAt(t) ==
    Max({0} \cup {Len(patterns[y[1]]) : y \in
            {y \in (DOMAIN patterns) \X {0, 1} :
                Len(patterns[y[1]]) >= 2 /\ StreamEndsWith(t, Half(patterns[y[1]], y[2]))}})

(* The occurrences the first phase decides right behind their last byte,   *)
(* in a list none of whose patterns is longer than the text so far.        *)
SeenInTime ==
    {x \in Occurrences(patterns, 2, text) :
        LET m == Len(patterns[x[1]])
            t == x[2] + Start(m, x[2] % 2)
        IN  t = x[2] + m /\ LongestAt(t) <= t}

(* method_odd_even_ac_filter.c:66-74: these occurrences lie in a window    *)
(* entirely and are counted.  (Of the others, decided one byte later, the  *)
(* window leaves out the first byte, and near the beginning of the text    *)
(* there is no window at all.)                                             *)
SeenInTimeAreCounted ==
    \A r \in DOMAIN found : FoundIn(r) >= Cardinality(SeenInTime)

(* The flags written lie in the array or at most three entries behind it,  *)
(* never before it.                                                        *)
StaysNearArray == filterFlagGroup \subseteq 0 .. Tend + 2

=============================================================================

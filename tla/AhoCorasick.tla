---------------------------- MODULE AhoCorasick ----------------------------
(***************************************************************************)
(* The life of an ACSM_STRUCT2 up to the moment it can be searched: the    *)
(* acsmAddPattern2 calls, then acsmCompile2 (AddPatternStates for every    *)
(* pattern, Build_NFA, Convert_NFA_To_DFA, Conv_List_To_Full).  Each       *)
(* iteration of a loop of the code is a step of the specification.         *)
(*                                                                         *)
(* A cell of memory that calloc cleared is 0 or << >>.  The ghost variable *)
(* label records the string spelled by the path to each state; no action   *)
(* reads it.                                                               *)
(***************************************************************************)
EXTENDS SubPattern

CONSTANTS
    AlphabetSize,   \* acsmAlphabetSize: 256 in the code
    AcModes,        \* the values of acMode considered
    Inputs          \* the pattern files considered: sequences of patterns

Char == 0 .. AlphabetSize - 1

OriginModes  == {0, 6}
NoOneModes   == {10}
OddEvenModes == {1, 2, 4, 5, 7, 13}
OneLenModes  == {8, 9, 11, 12}
HashModes    == {3}

ASSUME AlphabetAssumption == AlphabetSize \in Nat \ {0}
ASSUME InputAssumption ==
    /\ AcModes \subseteq OriginModes \cup NoOneModes \cup OddEvenModes
                  \cup OneLenModes \cup HashModes
    /\ Inputs \subseteq Seq(Seq(Char) \ {<< >>})

VARIABLES
    pc,             \* the loop the program is in
    acMode,         \* set by setAcMode before the first pattern
    input,          \* the patterns, in file order; iid is the index
    iid,            \* patterns added so far
    acsmPatterns,   \* the list, head first
    oneLenTable,    \* one-byte patterns per char
    lengthOneTable, \* the same, of the small-pattern hash
    lengthTwoTable, \* and its two-byte patterns, at 256 * char1 + char2
    plist,          \* index in acsmPatterns of the pattern being inserted
    n,              \* bytes of plist->patrn already inserted
    state,          \* the trie node reached with them
    acsmNumStates,
    acsmTransTable, \* per state, the transition list as a function
    acsmMatchList,
    acsmFailState,
    queue,
    r,              \* the state taken from the queue
    i,              \* the char of the inner loop
    fs,             \* the candidate failure state
    acsmNextState,
    label

smallVars == <<lengthOneTable, lengthTwoTable>>
addVars   == <<iid, acsmPatterns, oneLenTable, smallVars>>
trieVars  == <<plist, n, state, acsmNumStates, label>>
graphVars == <<queue, r, i, fs>>
vars == <<pc, acMode, input, addVars, trieVars, graphVars,
          acsmTransTable, acsmMatchList, acsmFailState, acsmNextState>>

FAIL == -1      \* ACSM_FAIL_STATE2

-----------------------------------------------------------------------------
(* The trie and its lists. *)

SumOfLengths(list) ==
    LET sum[k \in 0 .. Len(list)] ==
            IF k = 0 THEN 0 ELSE sum[k - 1] + Len(list[k].patrn)
    IN  sum[Len(list)]

(* Faulty: state 0 not counted. *)
MaxStatesWithoutRoot == SumOfLengths(acsmPatterns)

acsmMaxStates == SumOfLengths(acsmPatterns) + 1

Slots == 0 .. acsmMaxStates - 1          \* indices of the calloc'ed arrays

NoTransition == [c \in {} |-> 0]

(* A missing transition is FAIL, except that state 0 loops on itself. *)
List_GetNextState(s, c) ==
    IF c \in DOMAIN acsmTransTable[s] THEN acsmTransTable[s][c]
    ELSE IF s = 0 THEN 0 ELSE FAIL

(* Faulty: the new node replaces the list instead of joining it. *)
PutOnlyTransition(table, s, c, next) == [table EXCEPT ![s] = [d \in {c} |-> next]]

List_PutNextState(table, s, c, next) ==
    [table EXCEPT ![s] = [d \in DOMAIN @ \cup {c} |-> IF d = c THEN next ELSE @[d]]]

(* Faulty: a stack. *)
PushState(q, s) == IF \E k \in 1 .. Len(q) : q[k] = s THEN q ELSE <<s>> \o q

queue_add(q, s) == IF \E k \in 1 .. Len(q) : q[k] = s THEN q ELSE Append(q, s)

(* The children of state 0 enqueued in the order of their chars. *)
RootChildren ==
    LET q[c \in 0 .. AlphabetSize] ==
            IF c = 0 THEN << >>
            ELSE LET s == List_GetNextState(0, c - 1)
                 IN  IF s = 0 THEN q[c - 1] ELSE queue_add(q[c - 1], s)
    IN  q[AlphabetSize]

(* Faulty: only the head of a match list is copied. *)
HeadOnly(seq) == IF seq = << >> THEN seq ELSE <<seq[1]>>

Reversed(seq) == [k \in 1 .. Len(seq) |-> seq[Len(seq) + 1 - k]]

-----------------------------------------------------------------------------
Init ==
    /\ pc = "add"
    /\ acMode \in AcModes
    /\ input \in Inputs
    /\ iid = 0
    /\ acsmPatterns = << >>
    /\ oneLenTable = [c \in Char |-> 0]
    /\ lengthOneTable = [c \in Char |-> 0]
    /\ lengthTwoTable = [w \in 0 .. AlphabetSize * AlphabetSize - 1 |-> 0]
    /\ plist = 1 /\ n = 0 /\ state = 0
    /\ acsmNumStates = 0
    /\ acsmTransTable = << >> /\ acsmMatchList = << >> /\ acsmFailState = << >>
    /\ queue = << >> /\ r = 0 /\ i = 0 /\ fs = 0
    /\ acsmNextState = << >>
    /\ label = << >>

(* Faulty: two-byte patterns are taken for one-byte patterns. *)
UpToTwoBytes(p) == Len(p) <= 2

OneLen(p) == Len(p) < 2

acsmAddPatternOrigin(p) ==
    /\ acsmPatterns' = <<WholePattern(p, iid + 1)>> \o acsmPatterns
    /\ UNCHANGED oneLenTable

acsmAddPatternNoOneLen(p) ==
    IF OneLen(p) THEN UNCHANGED <<acsmPatterns, oneLenTable>> ELSE acsmAddPatternOrigin(p)

(* The half with flag 0 is pushed first.  acsmAddPatternWithTwiceOddEven   *)
(* (acMode 2) leaves out start and indexEnd, and links the marks of the    *)
(* two halves of a pattern: in the model they share an iid.                *)
acsmAddPatternWithOddEven(p) ==
    /\ acsmPatterns' = IF OneLen(p) THEN acsmPatterns
                       ELSE <<SubPatternOf(p, iid + 1, 1),
                              SubPatternOf(p, iid + 1, 0)>> \o acsmPatterns
    /\ UNCHANGED oneLenTable

acsmAddPatternWithOddEvenWithOneLen(p) ==
    IF OneLen(p)
    THEN /\ oneLenTable' = [oneLenTable EXCEPT ![p[1]] = @ + 1]
         /\ UNCHANGED acsmPatterns
    ELSE acsmAddPatternWithOddEven(p)

(* The last cell of lengthTwoTable lies behind the 65,535 that calloc was  *)
(* asked for, in the same pages of memory.                                 *)
addSmallPattern(p) ==
    IF Len(p) = 1
    THEN /\ lengthOneTable' = [lengthOneTable EXCEPT ![p[1]] = @ + 1]
         /\ UNCHANGED lengthTwoTable
    ELSE /\ lengthTwoTable' = [lengthTwoTable EXCEPT ![AlphabetSize * p[1] + p[2]] = @ + 1]
         /\ UNCHANGED lengthOneTable

acsmAddPatternHashSmallPattern(p) ==
    IF Len(p) <= 2
    THEN addSmallPattern(p) /\ UNCHANGED <<acsmPatterns, oneLenTable>>
    ELSE acsmAddPatternWithOddEven(p) /\ UNCHANGED smallVars

(* acsmAddPattern2: what becomes of the next pattern depends on acMode. *)
AddPattern ==
    LET p == input[iid + 1] IN
    /\ pc = "add"
    /\ iid < Len(input)
    /\ iid' = iid + 1
    /\ \/ acMode \in OriginModes  /\ acsmAddPatternOrigin(p)
       \/ acMode \in NoOneModes   /\ acsmAddPatternNoOneLen(p)
       \/ acMode \in OddEvenModes /\ acsmAddPatternWithOddEven(p)
       \/ acMode \in OneLenModes  /\ acsmAddPatternWithOddEvenWithOneLen(p)
       \/ acMode \in HashModes    /\ acsmAddPatternHashSmallPattern(p)
    /\ acMode \notin HashModes => UNCHANGED smallVars
    /\ UNCHANGED <<pc, acMode, input, trieVars, graphVars,
                   acsmTransTable, acsmMatchList, acsmFailState, acsmNextState>>

(* _acsmCompile2: size and clear the tables, start inserting the head.     *)
BeginCompile ==
    /\ pc = "add"
    /\ iid = Len(input)
    /\ acsmTransTable' = [s \in Slots |-> NoTransition]
    /\ acsmMatchList' = [s \in Slots |-> << >>]
    /\ label' = [s \in {0} |-> << >>]
    /\ acsmNumStates' = 0
    /\ plist' = 1 /\ n' = 0 /\ state' = 0
    /\ pc' = IF acsmPatterns = << >> THEN "states_end" ELSE "match_up"
    /\ UNCHANGED <<acMode, input, addVars, graphVars, acsmFailState, acsmNextState>>

-----------------------------------------------------------------------------
(* AddPatternStates *)

patrn == acsmPatterns[plist].patrn

(* Faulty: looked up from state 0 every time. *)
NextByteFromRoot == List_GetNextState(0, At(patrn, n))

NextByte == List_GetNextState(state, At(patrn, n))

(* Match up pattern with existing states. *)
FollowState ==
    /\ pc = "match_up"
    /\ n < Len(patrn)
    /\ NextByte \notin {FAIL, 0}
    /\ state' = NextByte
    /\ n' = n + 1
    /\ UNCHANGED <<pc, acMode, input, addVars, plist, acsmNumStates, label, graphVars,
                   acsmTransTable, acsmMatchList, acsmFailState, acsmNextState>>

(* Add new states for the rest of the pattern bytes, 1 state per byte. *)
AddState ==
    LET new == acsmNumStates + 1 IN
    /\ \/ pc = "match_up" /\ n < Len(patrn) /\ NextByte \in {FAIL, 0}
       \/ pc = "add_rest" /\ n < Len(patrn)
    /\ acsmNumStates' = new
    /\ acsmTransTable' = List_PutNextState(acsmTransTable, state, At(patrn, n), new)
    /\ label' = [s \in DOMAIN label \cup {new} |->
                    IF s = new THEN Append(label[state], At(patrn, n)) ELSE label[s]]
    /\ state' = new
    /\ n' = n + 1
    /\ pc' = "add_rest"
    /\ UNCHANGED <<acMode, input, addVars, plist, graphVars,
                   acsmMatchList, acsmFailState, acsmNextState>>

(* AddMatchListEntry at the last state, then the next pattern of the list. *)
AddMatchListEntry ==
    /\ pc \in {"match_up", "add_rest"}
    /\ n = Len(patrn)
    /\ acsmMatchList' = [acsmMatchList EXCEPT ![state] = <<plist>> \o @]
    /\ plist' = plist + 1
    /\ n' = 0 /\ state' = 0
    /\ pc' = IF plist < Len(acsmPatterns) THEN "match_up" ELSE "states_end"
    /\ UNCHANGED <<acMode, input, addVars, acsmNumStates, label, graphVars,
                   acsmTransTable, acsmFailState, acsmNextState>>

-----------------------------------------------------------------------------
(* Build_NFA *)

(* The states at depth 1 fail to state 0 and seed the queue. *)
BeginNfa ==
    /\ pc = "states_end"
    /\ acsmNumStates' = acsmNumStates + 1
    /\ acsmFailState' = [s \in 0 .. acsmNumStates |-> 0]
    /\ queue' = RootChildren
    /\ pc' = "nfa_queue"
    /\ UNCHANGED <<acMode, input, addVars, plist, n, state, label, r, i, fs,
                   acsmTransTable, acsmMatchList, acsmNextState>>

Dequeue(from, to) ==
    /\ pc = from
    /\ queue # << >>
    /\ r' = Head(queue)
    /\ queue' = Tail(queue)
    /\ i' = 0
    /\ pc' = to
    /\ UNCHANGED <<acMode, input, addVars, trieVars, fs,
                   acsmTransTable, acsmMatchList, acsmFailState, acsmNextState>>

NfaDequeue == Dequeue("nfa_queue", "nfa_char")

(* The child of r on char i joins the queue; the search for its failure    *)
(* state starts at the failure state of r.                                 *)
NfaChild ==
    LET s == List_GetNextState(r, i) IN
    /\ pc = "nfa_char"
    /\ i < AlphabetSize
    /\ s # FAIL
    /\ queue' = queue_add(queue, s)
    /\ fs' = acsmFailState[r]
    /\ pc' = "nfa_fail"
    /\ UNCHANGED <<acMode, input, addVars, trieVars, r, i,
                   acsmTransTable, acsmMatchList, acsmFailState, acsmNextState>>

NfaNoChild ==
    /\ pc = "nfa_char"
    /\ i < AlphabetSize
    /\ List_GetNextState(r, i) = FAIL
    /\ i' = i + 1
    /\ UNCHANGED <<pc, acMode, input, addVars, trieVars, queue, r, fs,
                   acsmTransTable, acsmMatchList, acsmFailState, acsmNextState>>

(* Faulty: follows the link of the parent again and again. *)
FollowParentFailure ==
    /\ pc = "nfa_fail"
    /\ List_GetNextState(fs, i) = FAIL
    /\ fs' = acsmFailState[r]
    /\ UNCHANGED <<pc, acMode, input, addVars, trieVars, queue, r, i,
                   acsmTransTable, acsmMatchList, acsmFailState, acsmNextState>>

(* Locate the next valid state for i starting at fs. *)
FollowFailure ==
    /\ pc = "nfa_fail"
    /\ List_GetNextState(fs, i) = FAIL
    /\ fs' = acsmFailState[fs]
    /\ UNCHANGED <<pc, acMode, input, addVars, trieVars, queue, r, i,
                   acsmTransTable, acsmMatchList, acsmFailState, acsmNextState>>

(* Faulty: the link of the parent is set instead of the child's. *)
SetParentFailure ==
    LET next == List_GetNextState(fs, i) IN
    /\ pc = "nfa_fail"
    /\ next # FAIL
    /\ acsmFailState' = [acsmFailState EXCEPT ![r] = next]
    /\ i' = i + 1
    /\ pc' = "nfa_char"
    /\ UNCHANGED <<acMode, input, addVars, trieVars, queue, r, fs,
                   acsmTransTable, acsmMatchList, acsmNextState>>

(* Set the failure state of the child and copy, entry by entry and each to *)
(* the front, the match list found there.                                  *)
SetFailure ==
    LET s    == List_GetNextState(r, i)
        next == List_GetNextState(fs, i)
    IN
    /\ pc = "nfa_fail"
    /\ next # FAIL
    /\ acsmFailState' = [acsmFailState EXCEPT ![s] = next]
    /\ acsmMatchList' = [acsmMatchList EXCEPT ![s] = Reversed(acsmMatchList[next]) \o @]
    /\ i' = i + 1
    /\ pc' = "nfa_char"
    /\ UNCHANGED <<acMode, input, addVars, trieVars, queue, r, fs,
                   acsmTransTable, acsmNextState>>

EndOfChars(from, to) ==
    /\ pc = from
    /\ i = AlphabetSize
    /\ pc' = to
    /\ UNCHANGED <<acMode, input, addVars, trieVars, graphVars,
                   acsmTransTable, acsmMatchList, acsmFailState, acsmNextState>>

NfaEndOfChars == EndOfChars("nfa_char", "nfa_queue")

-----------------------------------------------------------------------------
(* Convert_NFA_To_DFA *)

BeginDfa ==
    /\ pc = "nfa_queue"
    /\ queue = << >>
    /\ queue' = RootChildren
    /\ pc' = "dfa_queue"
    /\ UNCHANGED <<acMode, input, addVars, trieVars, r, i, fs,
                   acsmTransTable, acsmMatchList, acsmFailState, acsmNextState>>

DfaDequeue == Dequeue("dfa_queue", "dfa_char")

(* Faulty: a missing edge is filled with what state 0 does. *)
DfaCharFromRoot ==
    LET s == List_GetNextState(r, i)
        t == List_GetNextState(0, i)
    IN
    /\ pc = "dfa_char"
    /\ i < AlphabetSize
    /\ queue' = IF s \notin {FAIL, 0} THEN queue_add(queue, s) ELSE queue
    /\ acsmTransTable' = IF s \in {FAIL, 0} /\ t # 0
                         THEN List_PutNextState(acsmTransTable, r, i, t)
                         ELSE acsmTransTable
    /\ i' = i + 1
    /\ UNCHANGED <<pc, acMode, input, addVars, trieVars, r, fs,
                   acsmMatchList, acsmFailState, acsmNextState>>

(* A trie edge is followed; a missing one is filled with what the failure  *)
(* state does, unless that leads to state 0.                               *)
DfaChar ==
    LET s          == List_GetNextState(r, i)
        cFailState == List_GetNextState(acsmFailState[r], i)
    IN
    /\ pc = "dfa_char"
    /\ i < AlphabetSize
    /\ queue' = IF s \notin {FAIL, 0} THEN queue_add(queue, s) ELSE queue
    /\ acsmTransTable' = IF s \in {FAIL, 0} /\ cFailState \notin {FAIL, 0}
                         THEN List_PutNextState(acsmTransTable, r, i, cFailState)
                         ELSE acsmTransTable
    /\ i' = i + 1
    /\ UNCHANGED <<pc, acMode, input, addVars, trieVars, r, fs,
                   acsmMatchList, acsmFailState, acsmNextState>>

DfaEndOfChars == EndOfChars("dfa_char", "dfa_queue")

(* Conv_List_To_Full: a transition no list holds is 0. *)
ConvListToFull ==
    /\ pc = "dfa_queue"
    /\ queue = << >>
    /\ acsmNextState' = [s \in 0 .. acsmNumStates - 1 |->
                            [c \in Char |->
                                IF c \in DOMAIN acsmTransTable[s]
                                THEN acsmTransTable[s][c] ELSE 0]]
    /\ acsmFailState' = << >>
    /\ acsmTransTable' = << >>
    /\ pc' = "ready"
    /\ UNCHANGED <<acMode, input, addVars, trieVars, graphVars, acsmMatchList>>

Ready == pc = "ready" /\ UNCHANGED vars

-----------------------------------------------------------------------------
AddPatternStates == FollowState \/ AddState \/ AddMatchListEntry

Build_NFA == \/ BeginNfa \/ NfaDequeue \/ NfaChild \/ NfaNoChild
             \/ FollowFailure \/ SetFailure \/ NfaEndOfChars

Convert_NFA_To_DFA == BeginDfa \/ DfaDequeue \/ DfaChar \/ DfaEndOfChars

Next == \/ AddPattern \/ BeginCompile
        \/ AddPatternStates
        \/ Build_NFA
        \/ Convert_NFA_To_DFA
        \/ ConvListToFull
        \/ Ready

Spec == Init /\ [][Next]_vars

FairSpec == Spec /\ WF_vars(Next)
-----------------------------------------------------------------------------
(* Properties.                                                             *)

A == INSTANCE Automaton

Depth(s) == Len(label[s])

TrieStates == DOMAIN label

NfaPhase == {"nfa_queue", "nfa_char", "nfa_fail"}
DfaPhase == {"dfa_queue", "dfa_char"}

TypeOK ==
    /\ pc \in {"add", "match_up", "add_rest", "states_end", "ready"} \cup NfaPhase \cup DfaPhase
    /\ acMode \in AcModes
    /\ input \in Inputs
    /\ iid \in 0 .. Len(input)
    /\ Len(acsmPatterns) <= 2 * iid
    /\ oneLenTable \in [Char -> Nat]
    /\ plist \in 1 .. Len(acsmPatterns) + 1
    /\ n \in Nat
    /\ acsmNumStates \in 0 .. acsmMaxStates
    /\ state \in 0 .. acsmMaxStates - 1
    /\ r \in 0 .. acsmMaxStates - 1
    /\ fs \in 0 .. acsmMaxStates - 1
    /\ i \in 0 .. AlphabetSize
    /\ queue \in Seq(1 .. acsmMaxStates - 1)
    /\ pc # "add" => /\ TrieStates \subseteq Slots
                     /\ label \in [TrieStates -> Seq(Char)]
                     /\ acsmMatchList \in [Slots -> Seq(DOMAIN acsmPatterns)]

(* The failure state of s spells the longest string that is a proper       *)
(* suffix of what s spells and leads somewhere in the trie.                *)
FailsToLongestSuffix(s) ==
    /\ Depth(acsmFailState[s]) < Depth(s)
    /\ EndsWith(label[s], label[acsmFailState[s]])
    /\ \A t \in TrieStates :
        EndsWith(label[s], label[t]) /\ t # s => Depth(t) <= Depth(acsmFailState[s])

(* Build_NFA, aho_corasick.c:425-493: whenever a state is taken from the   *)
(* queue, the failure states of all states that are no deeper are final:   *)
(* the while loop that follows failure links only reads finished ones.     *)
FailureLinksCorrect ==
    /\ pc \in NfaPhase =>
        \A s \in TrieStates : 0 < Depth(s) /\ Depth(s) <= Depth(r) => FailsToLongestSuffix(s)
    /\ pc \in DfaPhase =>
        \A s \in TrieStates \ {0} : FailsToLongestSuffix(s)

(* Build_NFA copies match lists in breadth-first order: a state as deep as *)
(* the one being processed already lists every sub pattern that ends       *)
(* there, each once, though each state receives one copy only, from its    *)
(* failure state.                                                          *)
MatchListsCorrect ==
    /\ pc \in NfaPhase =>
        \A s \in TrieStates :
            Depth(s) <= Depth(r) => A!ListsSuffixes(acsmMatchList[s], acsmPatterns, label[s])
    /\ pc \in DfaPhase =>
        \A s \in TrieStates : A!ListsSuffixes(acsmMatchList[s], acsmPatterns, label[s])

(* Convert_NFA_To_DFA fills a row in place while later rows still need it: *)
(* as soon as a row is finished, it is final.  A row is finished when its  *)
(* state is shallower than everything queued, the state being processed    *)
(* included.                                                               *)
DfaRowsCorrect ==
    pc \in DfaPhase =>
        \A s \in TrieStates, c \in Char :
            \/ \E k \in 1 .. Len(queue) : Depth(queue[k]) <= Depth(s)
            \/ pc = "dfa_char" /\ Depth(r) <= Depth(s)
            \/ LET t == List_GetNextState(s, c)
               IN  IsLongestSuffix(label, IF t = FAIL THEN 0 ELSE t, Append(label[s], c))

(* No two states spell the same string: AddPatternStates never adds a      *)
(* second path for a prefix that is already there, in whichever order the  *)
(* patterns come.                                                          *)
TrieStatesDistinct ==
    \A s, t \in TrieStates : label[s] = label[t] => s = t

acsm ==
    [acsmNumStates |-> acsmNumStates,
     acsmNextState |-> acsmNextState,
     acsmMatchList |-> [s \in 0 .. acsmNumStates - 1 |-> acsmMatchList[s]],
     plist         |-> acsmPatterns,
     oneLenTable   |-> oneLenTable,
     label         |-> label]

(* acsmCompile2 delivers the automaton every search relies on.             *)
CompiledAutomatonCorrect ==
    pc = "ready" => A!AutomatonTyped(acsm) /\ A!AutomatonCorrect(acsm)

Copies(p) == Cardinality({id \in DOMAIN input : input[id] = p})

(* Every pattern of the file is accounted for exactly once: as itself, as  *)
(* its two halves, or in a table of small patterns; only modes without     *)
(* such a table lose the one-byte patterns (aho_corasick.c:827-1293).      *)
PatternsAccountedFor ==
    pc = "ready" =>
        /\ acMode \in OriginModes => WholesOf(acsmPatterns, input, 1)
        /\ acMode \in NoOneModes  => WholesOf(acsmPatterns, input, 2)
        /\ acMode \in OddEvenModes \cup OneLenModes => HalvesOf(acsmPatterns, input)
        /\ acMode \in HashModes =>
               HalvesOf(acsmPatterns, [id \in {p \in DOMAIN input : Len(input[p]) > 2} |-> input[id]])
        /\ acMode \in HashModes =>
               \A c, d \in Char :
                   /\ lengthOneTable[c] = Copies(<<c>>)
                   /\ lengthTwoTable[AlphabetSize * c + d] = Copies(<<c, d>>)
        /\ \A c \in Char :
            oneLenTable[c] = IF acMode \in OneLenModes
                             THEN Copies(<<c>>) ELSE 0

(* The while loop of Build_NFA always moves to a shallower state, so it    *)
(* ends, in state 0 at the latest.                                         *)
FailureChainDescends ==
    [][pc = "nfa_fail" /\ pc' = "nfa_fail" => Depth(fs') < Depth(fs)]_vars

(* The compilation of every pattern file ends. *)
EventuallyReady == <>(pc = "ready")

=============================================================================

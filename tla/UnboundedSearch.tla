-------------------------- MODULE UnboundedSearch --------------------------
(***************************************************************************)
(* The odd-even searches that never ask whether the other half lies inside *)
(* the text: the bytes in front of the text and the byte behind it are     *)
(* whatever the memory there holds, and belong to the comparison.          *)
(*   mode 0    callback full_match: compares as soon as a half is seen     *)
(*   mode 1    callback fullMatchCharTree: the other halves of a state are *)
(*             a tree, walked once                                         *)
(*   mode 2    callback fullMatchBitmapTree: the same tree as bitmaps      *)
(*   mode 4    callback fullMatchTwiceOddEven: the automaton itself reads  *)
(*             the skipped bytes, and marks tell which half must end where *)
(*   mode 6    callback fullMatchSynthesis: one comparison with the        *)
(*             longest other half, when the others are suffixes of it      *)
(*   mode 8    callback fullMatchUsingLastCharHash: first the last byte of *)
(*             the other half, kept in a table per state                   *)
(*   mode 9    patterns of one and two bytes are in two tables, looked up  *)
(*             at every step; the others are split                         *)
(*   mode 10   full_match written into the search loop, and no callback    *)
(*   mode 11   the comparison of mode 8 written into the search loop       *)
(*   mode 12   callback fullMatchFilterDigest: first a digest of the last  *)
(*             bytes of the other half                                     *)
(*   mode 14   callback fullMatchToQueue: every comparison is postponed to *)
(*             the end of the search, fullMatchFromQueue                   *)
(*                                                                         *)
(* main repeats the search searchRunTime times over one automaton and one  *)
(* queue; foundCounter is never reset.                                     *)
(***************************************************************************)
EXTENDS OtherHalf

CONSTANTS
    Char,
    Automata,       \* as in TwoPhaseSearch, with a field minLength: the
                    \* shortest patterns that are split, 3 for mode 9, else 2
    Texts,
    Fronts,         \* what may stand in the MaxFront bytes before a text
    Modes,          \* of 0, 1, 2, 4, 6, 8, 9, 10, 11, 12 and 14
    SearchRunTime   \* the -n argument

(* The farthest byte in front of a text that a callback reads. *)
MaxFront == 3

ASSUME FrontsAssumption == Fronts \subseteq [1 .. MaxFront -> Char]
ASSUME ModesAssumption == Modes \subseteq {0, 1, 2, 4, 6, 8, 9, 10, 11, 12, 14}
ASSUME RunsAssumption == SearchRunTime \in Nat \ {0}

INSTANCE Automaton WITH Char <- Char

(* The patterns of the file that have halves in the automaton.             *)
Halved(a) == {id \in DOMAIN a.patterns : Len(a.patterns[id]) >= a.minLength}

(* That plist holds them all, each once, is what module AhoCorasick shows  *)
(* of the construction (PatternsAccountedFor).                             *)
ASSUME AutomataAssumption ==
    \A a \in Automata :
        /\ AutomatonTyped(a) /\ AutomatonCorrect(a)
        /\ a.patterns \in Seq(Seq(Char))
        /\ a.minLength \in {2, 3}
        /\ HalvesOf(a.plist, [id \in Halved(a) |-> a.patterns[id]])

ASSUME TextsAssumption == Texts \subseteq Seq(Char)

VARIABLES
    acsm,
    text,
    before, after,  \* the memory next to the text
    mode,
    run,            \* searches finished
    pc,
    T,
    state,
    mlist,
    queue,          \* head first: <<sub pattern, start of the comparison>>
    foundCounter,
    hits,           \* what this run's increments of foundCounter stood for,
    strays          \* and those that stood for no half in the list (mode 4)

searchVars == <<acsm, text, before, after, mode>>
vars == <<searchVars, run, pc, T, state, mlist, queue, foundCounter, hits, strays>>

Tend == Len(text)

(* How many bytes behind a text are asked for. *)
Behind == IF mode = 9 THEN 2 ELSE 1

MatchList == acsm.acsmMatchList[state]

Init ==
    /\ acsm \in Automata
    /\ text \in Texts
    /\ mode \in Modes
    /\ acsm.minLength = IF mode = 9 THEN 3 ELSE 2
    /\ before \in Fronts /\ after \in [1 .. Behind -> Char]
    /\ run = 0
    /\ pc = "postprocess"
    /\ T = 0 /\ state = 0 /\ mlist = 1
    /\ queue = << >>
    /\ foundCounter = 0
    /\ hits = {} /\ strays = {}

-----------------------------------------------------------------------------
Memory == before \o text \o after

(* text[i] for the i a callback may ask for. *)
Byte(i) == At(Memory, i + MaxFront)

(* Faulty: the first byte of the other half is not compared. *)
AgreeButFirst(p, start, indices) ==
    \A i \in indices \ {0, 1} : At(p.origin, i) = Byte(start + i)

Agree(p, start, indices) == \A i \in indices : At(p.origin, i) = Byte(start + i)

Report(found, p, start) ==
    IF found
    THEN /\ foundCounter' = foundCounter + 1
         /\ hits' = hits \cup {<<p.iid, start>>}
    ELSE UNCHANGED <<foundCounter, hits>>

Entry == acsm.plist[MatchList[mlist]]

EntriesOf(s) == {acsm.plist[e] : e \in {acsm.acsmMatchList[s][j] : j \in DOMAIN acsm.acsmMatchList[s]}}

Entries == EntriesOf(state)

(* postprocessor: the trees of modes 1 and 2 take every other half apart. *)
postprocessor ==
    /\ pc = "postprocess"
    /\ pc' = IF mode \in {1, 2} /\ \E s \in States(acsm) : \E p \in EntriesOf(s) : ReverseCrashes(p)
             THEN "crashed" ELSE "callback"
    /\ UNCHANGED <<searchVars, run, T, state, mlist, queue, foundCounter, hits, strays>>

(* One pass of a loop over the match list, or over the table made from it. *)
Visit(found) ==
    /\ pc = "callback"
    /\ mlist <= Len(MatchList)
    /\ Report(found, Entry, T - Entry.start)
    /\ mlist' = mlist + 1
    /\ UNCHANGED <<searchVars, run, pc, T, state, queue, strays>>

FullMatch == Agree(Entry, T - Entry.start, RestIndices(Entry.indexEnd))

full_match == mode = 0 /\ Visit(FullMatch)

(* The loop body of acsmSearchWithOddEvenInline; behind the loop there is  *)
(* only the callback, which nobody has set.                                *)
InlineMatch == mode = 10 /\ T < Tend /\ Visit(FullMatch)

CallMissing ==
    /\ mode = 10
    /\ pc = "callback"
    /\ T >= Tend
    /\ MatchList # << >>
    /\ pc' = "crashed"
    /\ UNCHANGED <<searchVars, run, T, state, mlist, queue, foundCounter, hits, strays>>

-----------------------------------------------------------------------------
(* The filters: only when they agree are the other bytes compared.         *)

Offset(p) == p.start - p.indexEnd

AllButLast == Agree(Entry, T - Entry.start, RestIndices(Entry.indexEnd - 2))

LastCharMatch == OtherFromEnd(Entry, 1) = Byte(T - Offset(Entry)) /\ AllButLast

fullMatchUsingLastCharHash == mode = 8 /\ Visit(LastCharMatch)

LastCharFilterInline == mode = 11 /\ Visit(LastCharMatch)

(* The digest of up to three bytes, the last one first. *)
Digest(bytes) ==
    CASE Len(bytes) = 1 -> bytes[1]
      [] Len(bytes) = 2 -> (16 * bytes[2] + bytes[1]) % 256
      [] Len(bytes) = 3 -> (16 * bytes[3] + 4 * bytes[2] + bytes[1]) % 256

DigestLength(p) == IF OtherLength(p) < 3 THEN OtherLength(p) ELSE 3

(* processFilterDigest: of every second byte of the pattern. *)
filter(p) == Digest([k \in 1 .. DigestLength(p) |-> OtherFromEnd(p, k)])

(* fullMatchFilterDigest: of adjacent bytes of the text. *)
digest(p) == Digest([k \in 1 .. DigestLength(p) |-> Byte(T - Offset(p) - (k - 1))])

fullMatchFilterDigest == mode = 12 /\ Visit(filter(Entry) = digest(Entry) /\ AllButLast)

-----------------------------------------------------------------------------
(* The callbacks that settle the whole match list at once: number is what  *)
(* they add to foundCounter, for the sub patterns found.                   *)
VisitAll(found, number) ==
    /\ pc = "callback"
    /\ mlist = 1 /\ MatchList # << >>
    /\ foundCounter' = foundCounter + number
    /\ hits' = hits \cup {<<p.iid, T - p.start>> : p \in found}
    /\ mlist' = Len(MatchList) + 1
    /\ UNCHANGED <<searchVars, run, pc, T, state, queue>>

(* fullMatchOddEven is full_match; fullMatchSuffixSubPattern compares with *)
(* the longest other half from its end, and stops at the first difference; *)
(* for every byte that agrees it adds the other halves that begin there.   *)
lengthMatch ==
    LET p == Longest(Entries)
        agree(k) == \A j \in 1 .. k : OtherFromEnd(p, j) = Byte(T - Offset(p) - 2 * (j - 1))
    IN  CHOOSE k \in 0 .. OtherLength(p) :
            agree(k) /\ \A l \in 0 .. OtherLength(p) : agree(l) => l <= k

Added ==
    LET sum[k \in 0 .. OtherLength(Longest(Entries))] ==
            IF k = 0 THEN 0 ELSE sum[k - 1] + subPatternArray(Entries)[k - 1]
    IN  sum

fullMatchSynthesis ==
    /\ mode = 6
    /\ IF SuffixSubPattern(Entries)
       THEN /\ VisitAll({p \in Entries : OtherLength(p) <= lengthMatch}, Added[lengthMatch])
            /\ UNCHANGED strays
       ELSE Visit(FullMatch)

-----------------------------------------------------------------------------
(* The walk down the tree: every second byte, from T[-3] on.               *)

PathToNode(k) == [j \in 1 .. k |-> Byte(T - 1 - 2 * j)]

PathLengths == {k \in {Len(node) : node \in Nodes(Entries)} : PathToNode(k) \in Nodes(Entries)}

FinalLengths == {k \in PathLengths : isFinalNode(Entries, PathToNode(k))}

Deepest(lengths) == CHOOSE k \in lengths : \A l \in lengths : l <= k

(* firstCharList[*lastChar], and wildcardList. *)
CountedAt(node) ==
    {p \in NodeList(Entries, node) : EndsHere(p) \/ firstChar(p) = Byte(T - 1)}

VisitTree(lengths) ==
    LET found == IF lengths = {} THEN {} ELSE CountedAt(PathToNode(Deepest(lengths)))
    IN  VisitAll(found, Cardinality(found)) /\ UNCHANGED strays

(* Wherever the walk ends, if that is a final node. *)
fullMatchCharTree ==
    /\ mode = 1
    /\ VisitTree(IF Deepest(PathLengths) \in FinalLengths THEN PathLengths ELSE {})

(* The last final node of the walk. *)
fullMatchBitmapTree == mode = 2 /\ VisitTree(FinalLengths)

-----------------------------------------------------------------------------
(* fullMatchTwiceOddEven.                                                  *)

Depth == Len(acsm.label[state])

(* Faulty: the mark of a half that ends one byte later. *)
MatchDepthSwapped(p) ==
    IF Len(p.origin) < 4 \/ ~EndsHere(p) THEN Depth - 1 ELSE Depth

(* acsmCalePatternDepth: where the other half of p must end. *)
matchDepth(p) ==
    IF Len(p.origin) < 4 \/ EndsHere(p) THEN Depth - 1 ELSE Depth

(* The other half of q, when the callback's list holds it. *)
Siblings(q) == {p \in Entries : p.iid = q.iid /\ p.flag # q.flag}

(* *selfMark: set through the otherMark of its sibling, 0 before that and  *)
(* 0 again when the callback returns.                                      *)
selfMark(q) ==
    IF Siblings(q) = {} THEN 0 ELSE matchDepth(CHOOSE p \in Siblings(q) : TRUE)

(* subState after n of the bytes T[-1-2*Depth], ... T[-3], T[-1]. *)
SubStates ==
    LET walk[n \in 0 .. Depth + 1] ==
            IF n = 0 THEN 0
            ELSE acsm.acsmNextState[walk[n - 1]][Byte(T - 1 - 2 * (Depth + 1 - n))]
    IN  walk

fullMatchTwiceOddEven ==
    LET found == {x \in (0 .. Depth + 1) \X (DOMAIN acsm.plist) :
                    /\ acsm.plist[x[2]] \in EntriesOf(SubStates[x[1]])
                    /\ selfMark(acsm.plist[x[2]]) = x[1] - 1}
    IN  /\ mode = 4
        /\ VisitAll({p \in Entries : \E x \in found : p \in Siblings(acsm.plist[x[2]])},
                    Cardinality(found))
        /\ strays' = strays \cup {<<x[2], T>> : x \in {y \in found :
                                        Siblings(acsm.plist[y[2]]) = {}}}

-----------------------------------------------------------------------------
(* acsmSearchWithSmallPattern.                                             *)

(* lengthOneTable and lengthTwoTable: the small patterns that stand at i.  *)
SmallAt(length, i) ==
    {<<id, i>> : id \in {x \in DOMAIN acsm.patterns :
        /\ Len(acsm.patterns[x]) = length
        /\ \A k \in 0 .. length - 1 : At(acsm.patterns[x], k) = Byte(i + k)}}

(* Faulty: the two bytes behind the first one are not looked up. *)
SmallAtEven == SmallAt(1, T) \cup SmallAt(1, T + 1) \cup SmallAt(2, T)

Small == SmallAt(1, T) \cup SmallAt(1, T + 1) \cup SmallAt(2, T) \cup SmallAt(2, T + 1)

LookUpSmall ==
    /\ mode = 9
    /\ pc = "callback"
    /\ T < Tend
    /\ MatchList = << >>
    /\ hits' = hits \cup Small
    /\ foundCounter' = foundCounter + Cardinality(Small)
    /\ state' = acsm.acsmNextState[state][At(text, T)]
    /\ T' = T + 2
    /\ UNCHANGED <<searchVars, run, pc, mlist, queue, strays>>

(* The callback is full_match, but only mode 0 has made the patternIdGroup *)
(* it counts in.                                                           *)
CountIdMissing ==
    /\ mode = 9
    /\ pc = "callback"
    /\ MatchList # << >>
    /\ pc' = "crashed"
    /\ UNCHANGED <<searchVars, run, T, state, mlist, queue, foundCounter, hits, strays>>

-----------------------------------------------------------------------------
(* fullMatchToQueue, one pass of its loop: insert behind queueHead. *)
fullMatchToQueue ==
    /\ mode = 14
    /\ pc = "callback"
    /\ mlist <= Len(MatchList)
    /\ queue' = <<<<Entry, T - Entry.start>>>> \o queue
    /\ mlist' = mlist + 1
    /\ UNCHANGED <<searchVars, run, pc, T, state, foundCounter, hits, strays>>

(* Faulty: the stride of the unsplit search. *)
AdvanceByOne ==
    /\ pc = "callback"
    /\ mlist > Len(MatchList)
    /\ T < Tend
    /\ state' = acsm.acsmNextState[state][At(text, T)]
    /\ T' = T + 1
    /\ mlist' = 1
    /\ UNCHANGED <<searchVars, run, pc, queue, foundCounter, hits, strays>>

(* acsmSearchWithOddEven: the rest of the loop body. *)
Advance ==
    /\ pc = "callback"
    /\ mode # 9
    /\ mlist > Len(MatchList)
    /\ T < Tend
    /\ state' = acsm.acsmNextState[state][At(text, T)]
    /\ T' = T + 2
    /\ mlist' = 1
    /\ UNCHANGED <<searchVars, run, pc, queue, foundCounter, hits, strays>>

EndOfText ==
    /\ pc = "callback"
    /\ mlist > Len(MatchList)
    /\ T >= Tend
    /\ mode \in {9, 10} => MatchList = << >>
    /\ mlist' = 1
    /\ pc' = IF mode = 14 THEN "queue" ELSE "done"
    /\ run' = IF mode = 14 THEN run ELSE run + 1
    /\ UNCHANGED <<searchVars, T, state, queue, foundCounter, hits, strays>>

-----------------------------------------------------------------------------
(* fullMatchFromQueue, with mlist walking the list: the queue is cut off   *)
(* at its head when all of it has been compared.                           *)
CompareQueued ==
    /\ pc = "queue"
    /\ mlist <= Len(queue)
    /\ LET p == queue[mlist][1]
           start == queue[mlist][2]
       IN  Report(Agree(p, start, RestIndices(p.indexEnd)), p, start)
    /\ mlist' = mlist + 1
    /\ UNCHANGED <<searchVars, run, pc, T, state, queue, strays>>

(* Faulty: the compared entries stay in the queue. *)
KeepQueue ==
    /\ pc = "queue"
    /\ mlist > Len(queue)
    /\ pc' = "done"
    /\ run' = run + 1
    /\ UNCHANGED <<searchVars, T, state, mlist, queue, foundCounter, hits, strays>>

EmptyQueue ==
    /\ pc = "queue"
    /\ mlist > Len(queue)
    /\ queue' = << >>
    /\ pc' = "done"
    /\ run' = run + 1
    /\ UNCHANGED <<searchVars, T, state, mlist, foundCounter, hits, strays>>

(* The loop of main starts the next search, in state 0. *)
NextRun ==
    /\ pc = "done"
    /\ run < SearchRunTime
    /\ T' = 0 /\ state' = 0 /\ mlist' = 1
    /\ hits' = {} /\ strays' = {}
    /\ pc' = "callback"
    /\ UNCHANGED <<searchVars, run, queue, foundCounter>>

Done ==
    /\ pc = "crashed" \/ (pc = "done" /\ run = SearchRunTime)
    /\ UNCHANGED vars

Next == \/ postprocessor
        \/ fullMatchCharTree \/ fullMatchBitmapTree
        \/ fullMatchTwiceOddEven \/ fullMatchSynthesis
        \/ full_match \/ InlineMatch \/ CallMissing
        \/ fullMatchUsingLastCharHash \/ LastCharFilterInline \/ fullMatchFilterDigest
        \/ LookUpSmall \/ CountIdMissing
        \/ fullMatchToQueue \/ Advance \/ EndOfText
        \/ CompareQueued \/ EmptyQueue
        \/ NextRun \/ Done

Spec == Init /\ [][Next]_vars

-----------------------------------------------------------------------------
(* Properties.                                                             *)

(* The bytes one pass of the callback asks for. *)
Asked ==
    CASE mode = 9 -> T .. T + 2
      [] mode \in {1, 2} ->
            {T - 1} \cup {T - 3 - 2 * k : k \in PathLengths}
      [] mode = 4 -> {T - 1 - 2 * k : k \in 0 .. Depth}
      [] mode = 6 /\ SuffixSubPattern(Entries) ->
            {T - Longest(Entries).start + i : i \in RestIndices(Longest(Entries).indexEnd)}
      [] OTHER ->
            {T - Entry.start + i : i \in RestIndices(Entry.indexEnd)}
                \cup (IF mode = 12 THEN T - 5 .. T - 1 ELSE {})

(* full_match, method_odd_even.c:81-93, and the callbacks like it ask for  *)
(* at most one byte in front of the text and one behind it, the loop of    *)
(* mode 9 (aho_corasick.c:1743-1745) for two behind it.  Up to three in    *)
(* front of it read the digests of method_filter_digest.c:110-124,         *)
(* taken whatever the list holds, and the walks of method_char_tree.c:372  *)
(* and method_bitmap_tree.c:126, which ask every node for a child.         *)
StaysNearText ==
    pc = "callback" /\ (IF mode = 9 THEN T < Tend ELSE mlist <= Len(MatchList)) =>
        Asked \subseteq (IF mode \in {1, 2, 12} THEN -MaxFront ELSE -1) .. Tend + Behind - 1

Expected == Occurrences(acsm.patterns, IF mode = 9 THEN 1 ELSE 2, text)

(* The occurrence would need the byte before the text or bytes behind it. *)
AtEdge(x) ==
    \/ x[2] = -1
    \/ x[2] + Len(acsm.patterns[x[1]]) \in Tend + 1 .. Tend + Behind

(* Mode 4: acsmCalePatternDepth, aho_corasick.c:2156-2158, marks both      *)
(* halves of a pattern of two or three bytes as if they ended the pattern. *)
(* The other half of the one that does not is expected two bytes early.    *)
Misplaced(x) ==
    /\ mode = 4
    /\ Len(acsm.patterns[x[1]]) < 4
    /\ (x[2] + Len(acsm.patterns[x[1]])) % 2 = 0

(* Every run finds every occurrence, and whatever else it counts touches   *)
(* an edge of the text: the last byte of the other half as a filter        *)
(* (method_last_char_hash.c:93) loses nothing, and what it lets pass is    *)
(* compared; the lists pushed down the tree (method_char_tree.c:205), the  *)
(* lengths counted once for the longest half (method_synthesis.c:95-107)   *)
(* and the marks (aho_corasick.c:2182-2213) stand for all the comparisons  *)
(* they replace, and mode 9 ends without a crash only where no longer      *)
(* pattern stands (aho_corasick.c:1723-1764).  Only the marks of the short *)
(* patterns of mode 4 are wrong: they can lose or invent a match where the *)
(* half that was read does not end its pattern, and the marks that are not *)
(* set count halves of one byte.  The digest is another matter, see        *)
(* NothingMissed.                                                          *)
OnlyEdgesInvented ==
    pc = "done" /\ mode # 12 =>
        /\ \A x \in Expected : Misplaced(x) \/ x \in hits
        /\ \A x \in hits \ Expected : AtEdge(x) \/ Misplaced(x)
        /\ \A x \in strays : mode = 4 /\ Len(acsm.plist[x[1]].origin) < 4

(* Every run counts the same, at once or later (mode 14), one by one or a  *)
(* whole list at a time: the queue hands nothing over from one run to the  *)
(* next, and what is added up is the number of sub patterns found, and in  *)
(* mode 4 of the halves counted with no mark (aho_corasick.c:2201, :2213). *)
RunsAgree == pc = "done" => foundCounter = run * (Cardinality(hits) + Cardinality(strays))

(* README.md:4: "In the second phase, a full match is performed to         *)
(* determine if sub input text matches patterns": what stands in the text  *)
(* is found.                                                               *)
NothingMissed == pc = "done" => Expected \subseteq hits

=============================================================================

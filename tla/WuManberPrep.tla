---------------------------- MODULE WuManberPrep ----------------------------
(***************************************************************************)
(* The preparation of a Wu-Manber pattern group: mwmAddPatternEx for every *)
(* pattern of the file, then mwmPrepPatterns, which sorts the patterns,    *)
(* hashes them by prefix and builds the tables of the search it chooses.   *)
(*                                                                         *)
(* i is the index of the current loop over the patterns, from 0.  The      *)
(* statistics of the group (lengths, average, total, memory) are left out; *)
(* no search reads them.                                                   *)
(***************************************************************************)
EXTENDS WuManberTables

CONSTANTS
    Files,       \* sequences of patterns [pat, noCase]
    LargeShifts, \* the values of msLargeShifts, set before the preparation
    ShortBits,   \* the width of HASH_TYPE: 16
    MaxShift,    \* the largest shift: 255
    FewPatterns  \* below this many patterns MTH_BM is chosen: 5

ASSUME FilesAssumption ==
    /\ \A f \in Files : f \in Seq([pat : Seq(Char) \ {<< >>}, noCase : {0, 1}])
    /\ LargeShifts \subseteq {0, 1}
    /\ ShortBits \in Nat \ {0} /\ MaxShift \in Nat \ {0} /\ FewPatterns \in Nat

VARIABLES
    file, msLargeShifts,
    pc,
    i,
    plist,
    ps              \* the group, see module WuManberTables

vars == <<file, msLargeShifts, pc, i, plist, ps>>

(* The conversion to HASH_TYPE, a signed short. *)
Short(n) ==
    LET half == 2 ^ (ShortBits - 1) IN ((n + half) % (2 * half)) - half

Smallest(S) == CHOOSE x \in S : \A y \in S : x <= y

(* mwmNew *)
Init ==
    /\ file \in Files
    /\ msLargeShifts \in LargeShifts
    /\ pc = "add"
    /\ i = 0
    /\ plist = << >>
    /\ ps = [msNumPatterns |-> 0,
             msPatArray    |-> << >>,
             msHash        |-> << >>,
             msHash1       |-> << >>,
             msNumArray    |-> << >>,
             msShiftLen    |-> 0,
             msShift       |-> << >>,
             msShift2      |-> << >>,
             msMethod      |-> "MTH_MWM",
             search        |-> "none",
             psBmh         |-> << >>]

(* Faulty: the copy for the tables keeps its case. *)
PatternStructAsItIs(p, iid) ==
    [psPat     |-> p.pat,
     psPatCase |-> p.pat,
     psNoCase  |-> p.noCase,
     psIID     |-> iid]

(* The pattern number iid of the file, in capitals and as it is. *)
PatternStruct(p, iid) ==
    [psPat     |-> ToUpper(p.pat),
     psPatCase |-> p.pat,
     psNoCase  |-> p.noCase,
     psIID     |-> iid]

(* Patterns are appended; duplicates are kept (REQUIRE_UNIQUE_PATTERNS is  *)
(* not defined), and nothing limits their number.                          *)
mwmAddPatternEx ==
    /\ pc = "add"
    /\ Len(plist) < Len(file)
    /\ plist' = Append(plist, PatternStruct(file[Len(plist) + 1], Len(plist)))
    /\ ps' = [ps EXCEPT !.msNumPatterns = @ + 1]
    /\ UNCHANGED <<file, msLargeShifts, pc, i>>

(* bcompare(a, b) <= 0: memcmp over the shorter length, then the length. *)
NotAfter(a, b) ==
    \/ \E k \in 1 .. Len(a) :
        k <= Len(b) /\ a[k] < b[k] /\ \A j \in 1 .. k - 1 : a[j] = b[j]
    \/ Len(a) <= Len(b) /\ \A j \in 1 .. Len(a) : a[j] = b[j]

(* What qsort may leave: any order of the list that sortcmp accepts, equal *)
(* patterns in any order.                                                  *)
Sortings(list) ==
    LET idx == 0 .. Len(list) - 1 IN
    {f \in [idx -> 1 .. Len(list)] :
        /\ \A k, l \in idx : f[k] = f[l] => k = l
        /\ \A k \in idx : k > 0 => NotAfter(list[f[k - 1]].psPat, list[f[k]].psPat)}

(* Faulty: the list pointer is not moved on while the list is copied. *)
PrepPatternsFromHead ==
    /\ pc = "add"
    /\ Len(plist) = Len(file)
    /\ ps' = [ps EXCEPT !.msPatArray = [k \in Indices(ps) |-> plist[1]],
                        !.msNumArray = [k \in Indices(ps) |-> 0],
                        !.msHash     = [w \in Char \X Char |-> -1],
                        !.msHash1    = [c \in Char |-> -1]]
    /\ pc' = "hash"
    /\ i' = 0
    /\ UNCHANGED <<file, msLargeShifts, plist>>

(* mwmPrepPatterns begins: the list is copied and sorted, the hash tables  *)
(* are set to -1.                                                          *)
PrepPatterns ==
    /\ pc = "add"
    /\ Len(plist) = Len(file)
    /\ \E f \in Sortings(plist) :
        ps' = [ps EXCEPT !.msPatArray = [k \in DOMAIN f |-> plist[f[k]]],
                         !.msNumArray = [k \in DOMAIN f |-> 0],
                         !.msHash     = [w \in Char \X Char |-> -1],
                         !.msHash1    = [c \in Char |-> -1]]
    /\ pc' = "hash"
    /\ i' = 0
    /\ UNCHANGED <<file, msLargeShifts, plist>>

(* HASH16 of pattern k: the two bytes at psPat.  A pattern of one byte has *)
(* nothing behind it; what is read there is any byte.                      *)
HASH16(k, behind) ==
    <<PatByte(ps, k, 0), IF PatLen(ps, k) > 1 THEN PatByte(ps, k, 1) ELSE behind[k]>>

(* The end of the run of patterns from i on that satisfy Same(_). *)
RunEnd(Same(_)) ==
    Smallest({k \in i + 1 .. ps.msNumPatterns :
                k = ps.msNumPatterns \/ ~Same(k)})

(* Faulty: the loop does not go on behind the group. *)
EnterGroupAndStay(tables, end) ==
    /\ ps' = [tables EXCEPT !.msNumArray =
                [k \in DOMAIN @ |-> IF k = Short(i) THEN end - i ELSE @[k]]]
    /\ UNCHANGED <<file, msLargeShifts, pc, plist, i>>

(* sindex = msHash[...] = i; msNumArray[sindex] = ningroup: the index is   *)
(* the one that fitted into the hash entry.                                *)
EnterGroup(tables, end) ==
    /\ ps' = [tables EXCEPT !.msNumArray =
                [k \in DOMAIN @ |-> IF k = Short(i) THEN end - i ELSE @[k]]]
    /\ i' = end
    /\ UNCHANGED <<file, msLargeShifts, pc, plist>>

(* Faulty: a group goes on into the patterns that follow it. *)
HashToTheEnd ==
    /\ pc = "hash"
    /\ i < ps.msNumPatterns
    /\ PatLen(ps, i) > 1
    /\ EnterGroup([ps EXCEPT !.msHash[<<PatByte(ps, i, 0), PatByte(ps, i, 1)>>] = Short(i)],
                  ps.msNumPatterns)

(* mwmPrepHashedPatternGroups: the group of patterns with the prefix of    *)
(* pattern i is entered, i goes on behind it.                              *)
HashPrefixGroup ==
    /\ pc = "hash"
    /\ i < ps.msNumPatterns
    /\ PatLen(ps, i) > 1
    /\ \E behind \in [{k \in Indices(ps) : PatLen(ps, k) = 1} -> Char] :
        LET hindex   == HASH16(i, behind)
            Same(k)  == hindex = HASH16(k, behind)
        IN  EnterGroup([ps EXCEPT !.msHash[hindex] = Short(i)], RunEnd(Same))

(* The same for equal patterns of one byte. *)
HashOneByteGroup ==
    /\ pc = "hash"
    /\ i < ps.msNumPatterns
    /\ PatLen(ps, i) = 1
    /\ LET hindex  == PatByte(ps, i, 0)
           Same(k) == hindex = PatByte(ps, k, 0) /\ PatLen(ps, k) = 1
       IN  EnterGroup([ps EXCEPT !.msHash1[hindex] = Short(i)], RunEnd(Same))

(* m: the length of the shortest pattern, at most MaxShift. *)
ShiftLen == Smallest({MaxShift} \cup {PatLen(ps, k) : k \in Indices(ps)})

(* All patterns are hashed: few patterns are searched one by one, more     *)
(* with the tables, whose defaults are filled in.                          *)
ChooseBoyerMoore ==
    /\ pc = "hash"
    /\ i = ps.msNumPatterns
    /\ ps.msNumPatterns < FewPatterns
    /\ ps' = [ps EXCEPT !.msMethod = "MTH_BM",
                        !.psBmh = [k \in Indices(ps) |-> << >>]]
    /\ pc' = "bmh"
    /\ i' = 0
    /\ UNCHANGED <<file, msLargeShifts, plist>>

(* Faulty: the default of the bad-word table in the bad-character table. *)
ChooseWuManberWordDefault ==
    /\ pc = "hash"
    /\ i = ps.msNumPatterns
    /\ ps.msNumPatterns >= FewPatterns
    /\ ps' = [ps EXCEPT !.msMethod   = "MTH_MWM",
                        !.msShiftLen = ShiftLen,
                        !.msShift    = [c \in Char |-> ShiftLen - 1]]
    /\ pc' = "shift"
    /\ i' = 0
    /\ UNCHANGED <<file, msLargeShifts, plist>>

ChooseWuManber ==
    /\ pc = "hash"
    /\ i = ps.msNumPatterns
    /\ ps.msNumPatterns >= FewPatterns
    /\ ps' = [ps EXCEPT !.msMethod   = "MTH_MWM",
                        !.msShiftLen = ShiftLen,
                        !.msShift    = [c \in Char |-> ShiftLen]]
    /\ pc' = "shift"
    /\ i' = 0
    /\ UNCHANGED <<file, msLargeShifts, plist>>

(* mwmPrepBadCharTable, the first m bytes of pattern i. *)
BadCharRow ==
    LET m == ps.msShiftLen IN
    /\ pc = "shift"
    /\ i < ps.msNumPatterns
    /\ ps' = [ps EXCEPT !.msShift =
                [c \in Char |->
                    Smallest({@[c]} \cup
                             {m - 1 - k : k \in {k \in 0 .. m - 1 : PatByte(ps, i, k) = c}})]]
    /\ i' = i + 1
    /\ UNCHANGED <<file, msLargeShifts, pc, plist>>

(* The bad-word table is built only when it was asked for and a word fits  *)
(* into the shortest pattern.                                              *)
WantsBadWord == ps.msShiftLen > 1 /\ msLargeShifts # 0

TablesBuilt ==
    /\ i = ps.msNumPatterns
    /\ pc = "shift2" \/ (pc = "shift" /\ ~WantsBadWord)

BeginBadWord ==
    /\ pc = "shift"
    /\ i = ps.msNumPatterns
    /\ WantsBadWord
    /\ ps' = [ps EXCEPT !.msShift2 = [w \in Char \X Char |-> ps.msShiftLen - 1]]
    /\ pc' = "shift2"
    /\ i' = 0
    /\ UNCHANGED <<file, msLargeShifts, plist>>

(* Faulty: the shift brings the first byte of the word under the end. *)
BadWordRowOfFirstByte ==
    LET m == ps.msShiftLen IN
    /\ pc = "shift2"
    /\ i < ps.msNumPatterns
    /\ ps' = [ps EXCEPT !.msShift2 =
                [w \in Char \X Char |->
                    Smallest({@[w]} \cup
                             {m - 1 - k : k \in {k \in 0 .. m - 2 :
                                    w = <<PatByte(ps, i, k), PatByte(ps, i, k + 1)>>}})]]
    /\ i' = i + 1
    /\ UNCHANGED <<file, msLargeShifts, pc, plist>>

(* mbmPrepBadWordTable, the words in the first m bytes of pattern i. *)
BadWordRow ==
    LET m == ps.msShiftLen IN
    /\ pc = "shift2"
    /\ i < ps.msNumPatterns
    /\ ps' = [ps EXCEPT !.msShift2 =
                [w \in Char \X Char |->
                    Smallest({@[w]} \cup
                             {m - 2 - k : k \in {k \in 0 .. m - 2 :
                                    w = <<PatByte(ps, i, k), PatByte(ps, i, k + 1)>>}})]]
    /\ i' = i + 1
    /\ UNCHANGED <<file, msLargeShifts, pc, plist>>

(* The search function. *)
SelectSearch ==
    /\ TablesBuilt
    /\ ps' = [ps EXCEPT !.search = IF ps.msShiftLen = 1 THEN "NoBC"
                                   ELSE IF msLargeShifts = 0 THEN "BC" ELSE "BW"]
    /\ pc' = "ready"
    /\ UNCHANGED <<file, msLargeShifts, i, plist>>

(* The bad-character table of hbm_prepx, for one pattern: the distance of  *)
(* the last place of a byte from the end of the pattern, or its length.    *)
BcShift(pat) ==
    [c \in Char |->
        Smallest({Len(pat)} \cup {Len(pat) - k : k \in {k \in 1 .. Len(pat) : pat[k] = c}})]

(* hbm_prep for pattern i. *)
hbm_prep ==
    /\ pc = "bmh"
    /\ i < ps.msNumPatterns
    /\ ps' = [ps EXCEPT !.psBmh[i] = BcShift(ps.msPatArray[i].psPat)]
    /\ i' = i + 1
    /\ UNCHANGED <<file, msLargeShifts, pc, plist>>

BoyerMooreReady ==
    /\ pc = "bmh"
    /\ i = ps.msNumPatterns
    /\ pc' = "ready"
    /\ UNCHANGED <<file, msLargeShifts, i, plist, ps>>

Ready == pc = "ready" /\ UNCHANGED vars

Next ==
    \/ mwmAddPatternEx \/ PrepPatterns \/ HashPrefixGroup \/ HashOneByteGroup
    \/ ChooseWuManber \/ BadCharRow \/ BeginBadWord \/ BadWordRow \/ SelectSearch
    \/ ChooseBoyerMoore \/ hbm_prep \/ BoyerMooreReady
    \/ Ready

Spec == Init /\ [][Next]_vars

FairSpec == Spec /\ WF_vars(Next)

-----------------------------------------------------------------------------
(* Properties.                                                             *)

(* Sorting and copying lose no pattern and double none: each number of the *)
(* file is the psIID of one entry, which holds its bytes.                  *)
PatternsKept ==
    \A n \in DOMAIN file :
        /\ Cardinality({k \in Indices(ps) : ps.msPatArray[k].psIID = n - 1}) = 1
        /\ \E k \in Indices(ps) : ps.msPatArray[k] = PatternStruct(file[n], n - 1)

(* No shift of msShift is shorter than the patterns require: each entry is *)
(* the default or is reached by some pattern.  Of the other two tables     *)
(* nothing of the kind is said.                                            *)
ShiftsLargest ==
    ps.msMethod = "MTH_MWM" =>
        \A c \in Char :
            \/ ps.msShift[c] = ps.msShiftLen
            \/ \E k \in Indices(ps) :
                ps.msShift[c] < ps.msShiftLen
                /\ PatByte(ps, k, ps.msShiftLen - 1 - ps.msShift[c]) = c

(* What mwmPrepPatterns delivers (snort_wu_manber.c:1353-1470): the whole  *)
(* file, in the groups the searches assume although the groups are found   *)
(* by comparing neighbours, one of which may be a single byte hashed with  *)
(* whatever lies behind it (:745), and shifts that are not too long for    *)
(* any pattern and, in msShift (:805), no shorter than needed.             *)
PreparedCorrect ==
    pc = "ready" => GroupCorrect(ps) /\ PatternsKept /\ ShiftsLargest

(* The preparation ends.                                                   *)
EventuallyReady == <>(pc = "ready")

=============================================================================

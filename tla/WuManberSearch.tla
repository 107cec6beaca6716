--------------------------- MODULE WuManberSearch ---------------------------
(***************************************************************************)
(* mwmSearch over a prepared group: the three searches that use the hash   *)
(* tables (every byte, bad-character shifts, bad-word shifts) and, for few *)
(* patterns, one Boyer-Moore call per pattern.                             *)
(*                                                                         *)
(* T and B point at the first and last byte of the window of msShiftLen    *)
(* bytes, offsets from 0; Tleft bytes of text are left from T on.  nfound  *)
(* is also foundCounter: the callbacks of this program count and return 0, *)
(* so that no search is cut short.  hits records what was counted; no      *)
(* action reads it.                                                        *)
(***************************************************************************)
EXTENDS WuManberTables

CONSTANTS
    Groups,     \* prepared groups, see module WuManberTables
    Texts

ASSUME GroupsAssumption == \A g \in Groups : GroupCorrect(g)

ASSUME TextsAssumption == Texts \subseteq Seq(Char)

VARIABLES
    ps,         \* the group and
    text,       \* the text of this call
    pc,
    T, B, Tleft,
    patrn, patrnEnd,    \* the patterns of a group still to be tested
    t,                  \* the position of hbm_match
    nfound,
    hits

vars == <<ps, text, pc, T, B, Tleft, patrn, patrnEnd, t, nfound, hits>>

Tend == Len(text)

S == ToUpper(text)

Pattern(k) == ps.msPatArray[k]

(* match() is called for pattern k at offset o. *)
Report(k, o) ==
    /\ nfound' = nfound + 1
    /\ hits' = hits \cup {<<k, o>>}

(* The exact match that a pattern without nocase needs in the original text. *)
CaseAgrees(k, o) ==
    Pattern(k).psNoCase # 0 \/ OccursAt(Pattern(k).psPatCase, text, o)

Init ==
    /\ ps \in Groups
    /\ text \in Texts
    /\ pc = "start"
    /\ T = 0 /\ B = 0 /\ Tleft = 0
    /\ patrn = 0 /\ patrnEnd = 0
    /\ t = 0
    /\ nfound = 0
    /\ hits = {}

(* mwmSearch: the text is in capitals (S), the method of the group decides. *)
StartBoyerMoore ==
    /\ pc = "start"
    /\ ps.msMethod = "MTH_BM"
    /\ pc' = "bm"
    /\ UNCHANGED <<ps, text, T, B, Tleft, patrn, patrnEnd, t, nfound, hits>>

TooShort ==
    /\ pc = "start"
    /\ ps.msMethod = "MTH_MWM"
    /\ Tend < ps.msShiftLen
    /\ pc' = "done"
    /\ UNCHANGED <<ps, text, T, B, Tleft, patrn, patrnEnd, t, nfound, hits>>

StartWindow ==
    /\ pc = "start"
    /\ ps.msMethod = "MTH_MWM"
    /\ Tend >= ps.msShiftLen
    /\ T' = 0 /\ B' = ps.msShiftLen - 1 /\ Tleft' = Tend
    /\ pc' = "loop"
    /\ UNCHANGED <<ps, text, patrn, patrnEnd, t, nfound, hits>>

(* The window moves by n bytes. *)
Move(n) == T' = T + n /\ B' = B + n /\ Tleft' = Tleft - n

Leave ==
    /\ pc = "loop"
    /\ B >= Tend
    /\ pc' = "done"
    /\ UNCHANGED <<ps, text, T, B, Tleft, patrn, patrnEnd, t, nfound, hits>>

(* mwmSearchExNoBC: the one-byte patterns equal to *T are next. *)
OneByteHash ==
    LET index == ps.msHash1[At(S, T)] IN
    /\ pc = "loop" /\ B < Tend
    /\ ps.search = "NoBC"
    /\ IF index # -1
       THEN patrn' = index /\ patrnEnd' = index + ps.msNumArray[index] /\ pc' = "one"
       ELSE pc' = "pair" /\ UNCHANGED <<patrn, patrnEnd>>
    /\ UNCHANGED <<ps, text, T, B, Tleft, t, nfound, hits>>

OneByteMatch ==
    /\ pc = "one"
    /\ patrn < patrnEnd
    /\ IF CaseAgrees(patrn, T) THEN Report(patrn, T) ELSE UNCHANGED <<nfound, hits>>
    /\ patrn' = patrn + 1
    /\ UNCHANGED <<ps, text, pc, T, B, Tleft, patrnEnd, t>>

OneByteEnd ==
    /\ pc = "one"
    /\ patrn = patrnEnd
    /\ pc' = "pair"
    /\ UNCHANGED <<ps, text, T, B, Tleft, patrn, patrnEnd, t, nfound, hits>>

(* Faulty: the byte under the first byte of the window decides. *)
BadCharShiftOfFirst ==
    LET first  == ps.msShift[At(S, T)]
        second == ps.msShift[At(S, T + first)]
    IN
    /\ pc = "loop" /\ B < Tend
    /\ ps.search = "BC"
    /\ IF first = 0 THEN pc' = "pair" /\ UNCHANGED <<T, B, Tleft>>
       ELSE IF B + first >= Tend THEN pc' = "done" /\ Move(first)
       ELSE /\ Move(first + second)
            /\ pc' = IF B + first + second >= Tend THEN "done" ELSE "loop"
    /\ UNCHANGED <<ps, text, patrn, patrnEnd, t, nfound, hits>>

(* mwmSearchExBC: one pass of the shift loop, two shifts each with its     *)
(* test for the end; with a shift of 0 the loop is left.                   *)
BadCharShift ==
    LET first  == ps.msShift[At(S, B)]
        second == ps.msShift[At(S, B + first)]
    IN
    /\ pc = "loop" /\ B < Tend
    /\ ps.search = "BC"
    /\ IF first = 0 THEN pc' = "pair" /\ UNCHANGED <<T, B, Tleft>>
       ELSE IF B + first >= Tend THEN pc' = "done" /\ Move(first)
       ELSE /\ Move(first + second)
            /\ pc' = IF B + first + second >= Tend THEN "done" ELSE "loop"
    /\ UNCHANGED <<ps, text, patrn, patrnEnd, t, nfound, hits>>

(* Faulty: only the end of the window is moved. *)
BadWordShiftOfEnd ==
    LET tshift == ps.msShift2[<<At(S, B - 1), At(S, B)>>] IN
    /\ pc = "loop" /\ B < Tend
    /\ ps.search = "BW"
    /\ IF tshift = 0 THEN pc' = "pair" /\ UNCHANGED <<T, B, Tleft>>
       ELSE /\ B' = B + tshift /\ UNCHANGED <<T, Tleft>>
            /\ pc' = IF B + tshift >= Tend THEN "done" ELSE "loop"
    /\ UNCHANGED <<ps, text, patrn, patrnEnd, t, nfound, hits>>

(* mwmSearchExBW: the same with the last two bytes of the window. *)
BadWordShift ==
    LET tshift == ps.msShift2[<<At(S, B - 1), At(S, B)>>] IN
    /\ pc = "loop" /\ B < Tend
    /\ ps.search = "BW"
    /\ IF tshift = 0 THEN pc' = "pair" /\ UNCHANGED <<T, B, Tleft>>
       ELSE /\ Move(tshift)
            /\ pc' = IF B + tshift >= Tend THEN "done" ELSE "loop"
    /\ UNCHANGED <<ps, text, patrn, patrnEnd, t, nfound, hits>>

(* One byte is left: the one-byte patterns have been looked at. *)
LastByte ==
    /\ pc = "pair"
    /\ Tleft = 1
    /\ pc' = "done"
    /\ UNCHANGED <<ps, text, T, B, Tleft, patrn, patrnEnd, t, nfound, hits>>

(* The two bytes at T select a group of patterns, or the window moves on.  *)
PrefixHash ==
    LET index == ps.msHash[<<At(S, T), At(S, T + 1)>>] IN
    /\ pc = "pair"
    /\ Tleft # 1
    /\ IF index = -1
       THEN pc' = "loop" /\ Move(1) /\ UNCHANGED <<patrn, patrnEnd>>
       ELSE /\ patrn' = index /\ patrnEnd' = index + ps.msNumArray[index]
            /\ pc' = "group"
            /\ UNCHANGED <<T, B, Tleft>>
    /\ UNCHANGED <<ps, text, t, nfound, hits>>

(* Pattern k stands at T, the two hashed bytes taken for granted: it is    *)
(* not longer than what is left and agrees from its third byte on.         *)
RestAgrees(k) ==
    /\ Tleft >= PatLen(ps, k)
    /\ \A j \in 2 .. PatLen(ps, k) - 1 : PatByte(ps, k, j) = At(S, T + j)

(* mwmGroupMatch2, one pattern of the group. *)
GroupMatch ==
    /\ pc = "group"
    /\ patrn < patrnEnd
    /\ IF RestAgrees(patrn) /\ CaseAgrees(patrn, T)
       THEN Report(patrn, T)
       ELSE UNCHANGED <<nfound, hits>>
    /\ patrn' = patrn + 1
    /\ UNCHANGED <<ps, text, pc, T, B, Tleft, patrnEnd, t>>

(* Faulty: the window is not moved on. *)
GroupEndAndStay ==
    /\ pc = "group"
    /\ patrn = patrnEnd
    /\ pc' = "loop"
    /\ UNCHANGED <<ps, text, T, B, Tleft, patrn, patrnEnd, t, nfound, hits>>

GroupEnd ==
    /\ pc = "group"
    /\ patrn = patrnEnd
    /\ Move(1)
    /\ pc' = "loop"
    /\ UNCHANGED <<ps, text, patrn, patrnEnd, t, nfound, hits>>

(* hbm_match is called for pattern patrn; t points at the byte under the   *)
(* last byte of the pattern.                                               *)
m1 == PatLen(ps, patrn) - 1

BoyerMoore ==
    /\ pc = "bm"
    /\ patrn < ps.msNumPatterns
    /\ t' = m1
    /\ pc' = "scan"
    /\ UNCHANGED <<ps, text, T, B, Tleft, patrn, patrnEnd, nfound, hits>>

(* hbm_match returns a null pointer: the next pattern. *)
NextPattern == pc' = "bm" /\ patrn' = patrn + 1

NotFound ==
    /\ pc = "scan"
    /\ t >= Tend
    /\ NextPattern
    /\ UNCHANGED <<ps, text, T, B, Tleft, patrnEnd, t, nfound, hits>>

(* The loop for patterns of one byte. *)
OneByteScan ==
    /\ pc = "scan" /\ t < Tend
    /\ m1 = 0
    /\ IF At(S, t) = PatByte(ps, patrn, 0)
       THEN pc' = "found" /\ t' = t
       ELSE pc' = "scan" /\ t' = t + 1
    /\ UNCHANGED <<ps, text, T, B, Tleft, patrn, patrnEnd, nfound, hits>>

(* One pass of the scan loop: two shifts, each with its test for the end;  *)
(* a second shift of 0 ends the loop.                                      *)
Scan ==
    LET bcShift == ps.psBmh[patrn]
        t1 == t + bcShift[At(S, t)]
        k  == bcShift[At(S, t1)]
    IN
    /\ pc = "scan" /\ t < Tend
    /\ m1 > 0
    /\ IF t1 >= Tend THEN t' = t1 /\ NextPattern
       ELSE /\ t' = t1 + k
            /\ IF t1 + k >= Tend THEN NextPattern
               ELSE pc' = (IF k = 0 THEN "compare" ELSE "scan") /\ UNCHANGED patrn
    /\ UNCHANGED <<ps, text, T, B, Tleft, patrnEnd, nfound, hits>>

(* Faulty: after a mismatch the window jumps by its own length. *)
CompareThenJump ==
    /\ pc = "compare"
    /\ IF \A k \in 0 .. m1 : PatByte(ps, patrn, k) = At(S, t - m1 + k)
       THEN pc' = "found" /\ t' = t
       ELSE pc' = "scan" /\ t' = t + m1 + 1
    /\ UNCHANGED <<ps, text, T, B, Tleft, patrn, patrnEnd, nfound, hits>>

(* The match loops, from the last byte to the first; on a mismatch one     *)
(* byte on (NoMatch).                                                      *)
Compare ==
    /\ pc = "compare"
    /\ IF \A k \in 0 .. m1 : PatByte(ps, patrn, k) = At(S, t - m1 + k)
       THEN pc' = "found" /\ t' = t
       ELSE pc' = "scan" /\ t' = t + 1
    /\ UNCHANGED <<ps, text, T, B, Tleft, patrn, patrnEnd, nfound, hits>>

(* mwmSearch with MTH_BM: hbm_match has returned a place in the capitals,  *)
(* which is tested in the original text; no other place is.                *)
BoyerMooreFound ==
    /\ pc = "found"
    /\ IF CaseAgrees(patrn, t - m1)
       THEN Report(patrn, t - m1)
       ELSE UNCHANGED <<nfound, hits>>
    /\ NextPattern
    /\ UNCHANGED <<ps, text, T, B, Tleft, patrnEnd, t>>

BoyerMooreEnd ==
    /\ pc = "bm"
    /\ patrn = ps.msNumPatterns
    /\ pc' = "done"
    /\ UNCHANGED <<ps, text, T, B, Tleft, patrn, patrnEnd, t, nfound, hits>>

Done == pc = "done" /\ UNCHANGED vars

Next ==
    \/ StartBoyerMoore \/ TooShort \/ StartWindow \/ Leave
    \/ OneByteHash \/ OneByteMatch \/ OneByteEnd
    \/ BadCharShift \/ BadWordShift
    \/ LastByte \/ PrefixHash \/ GroupMatch \/ GroupEnd
    \/ BoyerMoore \/ NotFound \/ OneByteScan \/ Scan \/ Compare
    \/ BoyerMooreFound \/ BoyerMooreEnd
    \/ Done

Spec == Init /\ [][Next]_vars

FairSpec == Spec /\ WF_vars(Next)

-----------------------------------------------------------------------------
(* Properties.                                                             *)

(* Types; T, B and Tleft move together, and no byte outside the text is    *)
(* looked at.                                                              *)
TypeOK ==
    /\ pc \in {"start", "loop", "one", "pair", "group",
              "bm", "scan", "compare", "found", "done"}
    /\ T \in Nat /\ B \in Nat /\ Tleft \in Int
    /\ pc \in {"loop", "one", "pair", "group"} =>
         B = T + ps.msShiftLen - 1 /\ Tleft = Tend - T
    /\ pc \in {"one", "pair", "group"} => B < Tend
    /\ t \in Nat
    /\ pc \in {"scan", "compare", "found"} => patrn < ps.msNumPatterns /\ m1 <= t
    /\ pc \in {"compare", "found"} => t < Tend
    /\ patrn \in 0 .. ps.msNumPatterns /\ patrnEnd \in 0 .. ps.msNumPatterns
    /\ nfound \in Nat

(* The places where pattern k stands in the text. *)
StandsAt(k, o) == OccursAt(Pattern(k).psPat, S, o) /\ CaseAgrees(k, o)

(* o is the first place of pattern k in the capitals. *)
FirstPlace(k, o) ==
    /\ OccursAt(Pattern(k).psPat, S, o)
    /\ \A q \in 0 .. o - 1 : ~OccursAt(Pattern(k).psPat, S, q)

(* What the method of the group finds: all places, or, for few patterns,   *)
(* the first place in capitals if it is a place.                           *)
Expected ==
    {x \in Indices(ps) \X (0 .. Tend) :
        /\ StandsAt(x[1], x[2])
        /\ ps.msMethod = "MTH_BM" => FirstPlace(x[1], x[2])}

(* The place x has had its turn: the window has moved past it, or stands   *)
(* there and pattern x[1] of the group has been tested.                    *)
Settled(x) ==
    LET one == PatLen(ps, x[1]) = 1 IN
    CASE pc = "start" -> FALSE
      [] pc \in {"bm", "scan", "compare", "found"} -> x[1] < patrn
      [] pc = "loop"  -> x[2] < T
      [] pc = "one"   -> x[2] < T \/ (x[2] = T /\ one /\ x[1] < patrn)
      [] pc = "pair"  -> x[2] < T \/ (x[2] = T /\ one)
      [] pc = "group" -> x[2] < T \/ (x[2] = T /\ (one \/ x[1] < patrn))
      [] pc = "done"  -> TRUE

(* mwmSearchExNoBC, BC, BW, mwmGroupMatch2 and hbm_match: whatever was skipped by a   *)
(* shift or left out by a hash was no place of a pattern; at every moment  *)
(* exactly the places passed are counted, each once.                       *)
HitsAreSettledPlaces ==
    /\ hits = {x \in Expected : Settled(x)}
    /\ nfound = Cardinality(hits)

(* mwmSearch implements the abstract matcher.                              *)
Matcher == INSTANCE PatternMatcher WITH
    expected <- Expected,
    reported <- hits,
    count    <- nfound,
    finished <- (pc = "done")

MatcherSpec == Matcher!Spec

(* Every search ends.                                                      *)
EventuallyDone == <>(pc = "done")

=============================================================================

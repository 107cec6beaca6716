----------------------- MODULE WuManberSearch_proofs -----------------------
(***************************************************************************)
(* Proofs about WuManberSearch, for every alphabet, every group that meets *)
(* module WuManberTables, and every text.                                  *)
(***************************************************************************)
EXTENDS WuManberSearch, TLAPS, FiniteSetTheorems

-----------------------------------------------------------------------------
(* What the assumptions say of the group and the text of the search.       *)

LEMMA LenType ==
    ASSUME NEW C, NEW w \in Seq(C)
    PROVE  Len(w) \in Nat /\ DOMAIN w = 1 .. Len(w) /\ \A i \in 1 .. Len(w) : w[i] \in C
  OBVIOUS

LEMMA GroupFacts ==
    ASSUME NEW g \in Groups
    PROVE  /\ g.msNumPatterns \in Nat
           /\ g.msNumArray \in [Indices(g) -> Nat]
           /\ g.msHash \in [Char \X Char -> Indices(g) \cup {-1}]
           /\ g.msHash1 \in [Char -> Indices(g) \cup {-1}]
           /\ g.msMethod \in {"MTH_BM", "MTH_MWM"}
           /\ GroupsExact(g)
           /\ g.msMethod = "MTH_MWM" => SearchFits(g)
           /\ g.msMethod = "MTH_BM" => BmhSafe(g)
  BY GroupsAssumption DEF GroupCorrect, GroupsTyped

LEMMA PatternFacts ==
    ASSUME NEW g \in Groups, NEW k \in Indices(g)
    PROVE  /\ PatLen(g, k) \in Nat /\ PatLen(g, k) >= 1
           /\ g.msPatArray[k].psPat \in Seq(Char)
           /\ PatLen(g, k) = Len(g.msPatArray[k].psPat)
           /\ \A j \in 0 .. PatLen(g, k) - 1 : PatByte(g, k, j) \in Char
<1>1. g.msPatArray \in
         [Indices(g) -> [psPat : Seq(Char), psPatCase : Seq(Char), psNoCase : Nat, psIID : Nat]]
  BY GroupsAssumption DEF GroupCorrect, GroupsTyped
<1>2. PatLen(g, k) > 0
  BY GroupsAssumption DEF GroupCorrect, GroupsTyped
<1>3. g.msPatArray[k].psPat \in Seq(Char)
  BY <1>1
<1>4. PICK w \in Seq(Char) : w = g.msPatArray[k].psPat
  BY <1>3
<1>5. PatLen(g, k) = Len(w) /\ \A j : PatByte(g, k, j) = w[j + 1]
  BY <1>4 DEF PatLen, PatByte, At
<1>6. Len(w) \in Nat /\ \A i \in 1 .. Len(w) : w[i] \in Char
  BY LenType
<1>7. \A j \in 0 .. Len(w) - 1 : w[j + 1] \in Char
  BY <1>6
<1>8. QED BY <1>2, <1>3, <1>4, <1>5, <1>6, <1>7

LEMMA TextFacts ==
    ASSUME text \in Texts
    PROVE  /\ Tend \in Nat
           /\ Len(S) = Tend
           /\ \A i \in 0 .. Tend - 1 : At(S, i) \in Char
<1>1. text \in Seq(Char)
  BY TextsAssumption
<1>2. /\ Len(text) \in Nat /\ DOMAIN text = 1 .. Len(text)
      /\ \A i \in 1 .. Len(text) : text[i] \in Char
  BY <1>1, LenType
<1>3. \A i \in 1 .. Len(text) : Upper[text[i]] \in Char
  BY <1>2, UpperAssumption
<1>4. S = [i \in 1 .. Len(text) |-> Upper[text[i]]]
  BY <1>2 DEF S, ToUpper
<1>5. S \in Seq(Char) /\ Len(S) = Len(text)
  BY <1>2, <1>3, <1>4
<1>6. \A i \in 0 .. Len(text) - 1 : S[i + 1] \in Char
  BY <1>2, <1>3, <1>4
<1>7. QED BY <1>2, <1>5, <1>6 DEF Tend, At

(* The entry of a hash is a pattern, and so are those after it.            *)
LEMMA EntryFacts ==
    ASSUME NEW g \in Groups, NEW h \in Indices(g) \cup {-1}, h # -1,
           GroupAt(g, h) \subseteq Indices(g)
    PROVE  /\ h \in Indices(g) /\ h \in Nat
           /\ h + g.msNumArray[h] \in 0 .. g.msNumPatterns
           /\ h <= h + g.msNumArray[h]
           /\ \E n \in Nat : n = g.msNumArray[h] /\ GroupAt(g, h) = h .. h + n - 1
<1>1. h \in Indices(g) /\ h \in Nat /\ h < g.msNumPatterns /\ g.msNumPatterns \in Nat
  BY GroupFacts DEF Indices
<1>2. PICK n \in Nat : n = g.msNumArray[h]
  BY <1>1, GroupFacts
<1>3. h .. h + n - 1 \subseteq 0 .. g.msNumPatterns - 1
  BY <1>1, <1>2 DEF GroupAt, Indices
<1>4. h + n \in 0 .. g.msNumPatterns
  <2>1. CASE n = 0
    BY <1>1, <2>1
  <2>2. CASE n > 0
    <3>1. h + n - 1 \in h .. h + n - 1
      BY <1>1, <1>2, <2>2
    <3>2. QED BY <1>1, <1>2, <1>3, <3>1
  <2>3. QED BY <1>2, <2>1, <2>2
<1>5. GroupAt(g, h) = h .. h + n - 1
  BY <1>2 DEF GroupAt
<1>6. QED BY <1>1, <1>2, <1>4, <1>5

LEMMA Hash1Facts ==
    ASSUME NEW g \in Groups, NEW c \in Char
    PROVE  /\ g.msHash1[c] \in Indices(g) \cup {-1}
           /\ GroupAt(g, g.msHash1[c]) =
                 {k \in Indices(g) : PatLen(g, k) = 1 /\ c = PatByte(g, k, 0)}
  BY GroupFacts DEF GroupsExact

LEMMA HashFacts ==
    ASSUME NEW g \in Groups, NEW c \in Char, NEW d \in Char
    PROVE  /\ g.msHash[<<c, d>>] \in Indices(g) \cup {-1}
           /\ GroupAt(g, g.msHash[<<c, d>>]) =
                 {k \in Indices(g) : /\ PatLen(g, k) > 1
                                     /\ <<c, d>> = <<PatByte(g, k, 0), PatByte(g, k, 1)>>}
<1>1. <<c, d>> \in Char \X Char
  OBVIOUS
<1>2. QED BY <1>1, GroupFacts DEF GroupsExact

-----------------------------------------------------------------------------
(* Type correctness. *)

(* Which group, text and method a pc belongs to. *)
Base ==
    /\ ps \in Groups
    /\ text \in Texts
    /\ pc = "start" => patrn = 0
    /\ pc \in {"loop", "one", "pair", "group"} => ps.msMethod = "MTH_MWM"
    /\ pc \in {"bm", "scan", "compare", "found"} => ps.msMethod = "MTH_BM"

LEMMA BaseInit == Init => Base
  BY DEF Init, Base

LEMMA BaseStep == Base /\ [Next]_vars => Base'
<1> SUFFICES ASSUME Base, [Next]_vars PROVE Base'
  OBVIOUS
<1> USE DEF Base
<1>1. CASE StartBoyerMoore \/ TooShort \/ StartWindow \/ Leave
  BY <1>1 DEF StartBoyerMoore, TooShort, StartWindow, Leave
<1>2. CASE OneByteHash \/ OneByteMatch \/ OneByteEnd
  BY <1>2 DEF OneByteHash, OneByteMatch, OneByteEnd
<1>3. CASE BadCharShift
  BY <1>3 DEF BadCharShift
<1>4. CASE BadWordShift
  BY <1>4 DEF BadWordShift
<1>5. CASE LastByte \/ PrefixHash \/ GroupMatch \/ GroupEnd
  BY <1>5 DEF LastByte, PrefixHash, GroupMatch, GroupEnd
<1>6. CASE BoyerMoore \/ NotFound \/ OneByteScan
  BY <1>6 DEF BoyerMoore, NotFound, OneByteScan, NextPattern
<1>7. CASE Scan
  BY <1>7 DEF Scan, NextPattern
<1>8. CASE Compare \/ BoyerMooreFound \/ BoyerMooreEnd
  BY <1>8 DEF Compare, BoyerMooreFound, BoyerMooreEnd, NextPattern
<1>9. CASE UNCHANGED vars
  BY <1>9 DEF vars
<1>10. QED
  BY <1>1, <1>2, <1>3, <1>4, <1>5, <1>6, <1>7, <1>8, <1>9 DEF Next, Done

(* The window in the searches with tables.                                 *)
LEMMA WindowFacts ==
    ASSUME Base, TypeOK, pc \in {"loop", "one", "pair", "group"}
    PROVE  /\ ps.msShiftLen \in Nat /\ ps.msShiftLen >= 1
           /\ SearchFits(ps)
           /\ B = T + ps.msShiftLen - 1 /\ Tleft = Tend - T
           /\ T \in Nat /\ B \in Nat /\ Tend \in Nat /\ T <= B
<1>1. ps \in Groups /\ ps.msMethod = "MTH_MWM" /\ text \in Texts
  BY DEF Base
<1>2. SearchFits(ps)
  BY <1>1, GroupFacts
<1>3. ps.msShiftLen \in Nat /\ ps.msShiftLen >= 1
  BY <1>2 DEF SearchFits, ShiftsSafe
<1>4. Tend \in Nat
  BY <1>1, TextFacts
<1>5. B = T + ps.msShiftLen - 1 /\ Tleft = Tend - T /\ T \in Nat /\ B \in Nat
  BY DEF TypeOK
<1>6. QED BY <1>2, <1>3, <1>4, <1>5

(* A shift, for any byte or pair of bytes of the text. *)
LEMMA ShiftFacts ==
    ASSUME Base, SearchFits(ps), ps.msShiftLen \in Nat
    PROVE  /\ \A i \in 0 .. Tend - 1 : ps.msShift[At(S, i)] \in 0 .. ps.msShiftLen
           /\ ps.search = "BW" => \A i, j \in 0 .. Tend - 1 :
                ps.msShift2[<<At(S, i), At(S, j)>>] \in 0 .. ps.msShiftLen - 1
<1>1. \A i \in 0 .. Tend - 1 : At(S, i) \in Char
  BY TextFacts DEF Base
<1>2. ps.msShift \in [Char -> 0 .. ps.msShiftLen]
  BY DEF SearchFits, ShiftsSafe
<1>3. ps.search = "BW" => ps.msShift2 \in [Char \X Char -> 0 .. ps.msShiftLen - 1]
  BY DEF SearchFits, WordShiftsSafe
<1>4. \A i, j \in 0 .. Tend - 1 : <<At(S, i), At(S, j)>> \in Char \X Char
  BY <1>1
<1>5. QED BY <1>1, <1>2, <1>3, <1>4

LEMMA BmhFacts ==
    ASSUME Base, ps.msMethod = "MTH_BM", NEW k \in Indices(ps)
    PROVE  \A i \in 0 .. Tend - 1 : ps.psBmh[k][At(S, i)] \in 0 .. PatLen(ps, k)
<1>1. \A i \in 0 .. Tend - 1 : At(S, i) \in Char
  BY TextFacts DEF Base
<1>2. BmhSafe(ps)
  BY GroupFacts DEF Base
<1>3. ps.psBmh[k] \in [Char -> 0 .. PatLen(ps, k)]
  BY <1>2 DEF BmhSafe
<1>4. QED BY <1>1, <1>3

LEMMA TypeInit == Init => TypeOK
<1> SUFFICES ASSUME Init PROVE TypeOK
  OBVIOUS
<1>1. ps.msNumPatterns \in Nat
  BY GroupFacts DEF Init
<1>2. QED BY <1>1 DEF Init, TypeOK

(* The window moves on by n bytes. *)
LEMMA TypeMove ==
    ASSUME Base, TypeOK, pc \in {"loop", "one", "pair", "group"}, NEW n \in Nat, Move(n),
           pc' \in {"loop", "done"}, UNCHANGED <<ps, text, patrn, patrnEnd, t, nfound>>
    PROVE  TypeOK'
<1>1. /\ T \in Nat /\ B \in Nat /\ Tleft \in Int /\ Tend \in Nat /\ ps.msShiftLen \in Nat
      /\ B = T + ps.msShiftLen - 1 /\ Tleft = Tend - T
  BY WindowFacts DEF TypeOK
<1>2. T' = T + n /\ B' = B + n /\ Tleft' = Tleft - n /\ Tend' = Tend /\ ps' = ps
  BY DEF Move, Tend
<1>3. T' \in Nat /\ B' \in Nat /\ Tleft' \in Int
  BY <1>1, <1>2
<1>4. B' = T' + ps'.msShiftLen - 1 /\ Tleft' = Tend' - T'
  <2>1. PICK l \in Nat : l = ps.msShiftLen
    BY <1>1
  <2>2. QED BY <1>1, <1>2, <2>1
<1>5. QED BY <1>3, <1>4 DEF TypeOK

(* The scan for pattern patrn goes on at t'. *)
LEMMA TypeScan ==
    ASSUME Base, TypeOK, pc \in {"scan", "compare"}, t' \in Nat, t <= t',
           UNCHANGED <<ps, text, T, B, Tleft, patrnEnd, nfound>>,
           \/ pc' = "scan" /\ patrn' = patrn
           \/ pc' \in {"compare", "found"} /\ patrn' = patrn /\ t' < Tend
           \/ pc' = "bm" /\ patrn' = patrn + 1
    PROVE  TypeOK'
<1>1. /\ t \in Nat /\ patrn < ps.msNumPatterns /\ m1 <= t
      /\ patrn \in 0 .. ps.msNumPatterns /\ ps.msNumPatterns \in Nat
  BY GroupFacts DEF TypeOK, Base
<1>2. patrn' \in 0 .. ps'.msNumPatterns
  BY <1>1
<1>3. ASSUME patrn' = patrn
      PROVE  m1' = m1 /\ Tend' = Tend /\ m1' <= t'
  <2>1. m1' = m1 /\ Tend' = Tend
    BY <1>3 DEF m1, Tend
  <2>2. m1 \in Int
    BY <1>1, PatternFacts DEF Base, Indices, m1
  <2>3. QED BY <1>1, <2>1, <2>2
<1>4. pc' \in {"scan", "compare", "found"} => patrn' < ps'.msNumPatterns /\ m1' <= t'
  BY <1>1, <1>3
<1>5. pc' \in {"compare", "found"} => t' < Tend'
  BY <1>3
<1>6. QED BY <1>2, <1>4, <1>5 DEF TypeOK

LEMMA TypeStep == Base /\ TypeOK /\ [Next]_vars => TypeOK'
<1> SUFFICES ASSUME Base, TypeOK, [Next]_vars PROVE TypeOK'
  OBVIOUS
<1>0. /\ ps.msNumPatterns \in Nat /\ Tend \in Nat
      /\ patrn \in Nat /\ patrn <= ps.msNumPatterns
  BY GroupFacts, TextFacts DEF Base, TypeOK
<1>1. CASE StartBoyerMoore \/ TooShort \/ Leave
  BY <1>1 DEF StartBoyerMoore, TooShort, Leave, TypeOK
<1>2. CASE StartWindow
  <2>1. ps.msShiftLen \in Nat /\ ps.msShiftLen >= 1
    BY <1>2, GroupFacts DEF StartWindow, Base, SearchFits, ShiftsSafe
  <2>2. QED BY <1>0, <1>2, <2>1 DEF StartWindow, TypeOK, Tend
<1>3. CASE OneByteHash
  <2>1. At(S, T) \in Char
    BY <1>3, WindowFacts, TextFacts DEF OneByteHash, Base
  <2>2. PICK h : h = ps.msHash1[At(S, T)]
    OBVIOUS
  <2>3. h \in Indices(ps) \cup {-1} /\ GroupAt(ps, h) \subseteq Indices(ps)
    BY <2>1, <2>2, Hash1Facts DEF Base
  <2>4. h # -1 => h \in 0 .. ps.msNumPatterns /\ h + ps.msNumArray[h] \in 0 .. ps.msNumPatterns
    <3>1. h # -1 => h \in Indices(ps) /\ h + ps.msNumArray[h] \in 0 .. ps.msNumPatterns
      BY <2>3, EntryFacts DEF Base
    <3>2. QED BY <1>0, <3>1 DEF Indices
  <2>5. CASE h # -1
    BY <1>0, <1>3, <2>2, <2>4, <2>5 DEF OneByteHash, TypeOK, Tend
  <2>6. CASE h = -1
    BY <1>0, <1>3, <2>2, <2>6 DEF OneByteHash, TypeOK, Tend
  <2>7. QED BY <2>5, <2>6
<1>4. CASE OneByteMatch \/ GroupMatch
  <2>1. patrn + 1 \in 0 .. ps.msNumPatterns
    BY <1>0, <1>4 DEF OneByteMatch, GroupMatch, TypeOK
  <2>2. nfound' \in Nat
    BY <1>4 DEF OneByteMatch, GroupMatch, Report, TypeOK
  <2>3. QED BY <1>4, <2>1, <2>2 DEF OneByteMatch, GroupMatch, TypeOK, Tend
<1>5. CASE OneByteEnd \/ LastByte
  BY <1>5 DEF OneByteEnd, LastByte, TypeOK, Tend
<1>6. CASE BadCharShift
  <2>1. /\ B \in Nat /\ T \in Nat /\ Tleft \in Int /\ B < Tend
        /\ ps.msShiftLen \in Nat /\ B = T + ps.msShiftLen - 1 /\ Tleft = Tend - T
        /\ SearchFits(ps)
    BY <1>6, WindowFacts DEF BadCharShift, TypeOK
  <2>2. PICK first \in Nat : first = ps.msShift[At(S, B)]
    BY <1>0, <2>1, ShiftFacts
  <2>3. CASE first = 0
    BY <1>0, <1>6, <2>1, <2>2, <2>3 DEF BadCharShift, TypeOK, Tend
  <2>4. CASE first # 0 /\ B + first >= Tend
    <3>1. Move(first) /\ pc' = "done" /\ pc = "loop"
          /\ UNCHANGED <<ps, text, patrn, patrnEnd, t, nfound>>
      BY <1>6, <2>2, <2>4 DEF BadCharShift
    <3>2. QED BY <3>1, TypeMove
  <2>5. CASE first # 0 /\ B + first < Tend
    <3>1. PICK second \in Nat : second = ps.msShift[At(S, B + first)]
      BY <1>0, <2>1, <2>2, <2>5, ShiftFacts
    <3>2. ~(first = 0) /\ ~(B + first >= Tend)
      BY <1>0, <2>1, <2>2, <2>5
    <3>3. /\ Move(first + second)
          /\ pc' = IF B + first + second >= Tend THEN "done" ELSE "loop"
          /\ pc = "loop" /\ UNCHANGED <<ps, text, patrn, patrnEnd, t, nfound>>
      BY <1>6, <2>2, <3>1, <3>2 DEF BadCharShift
    <3>4. first + second \in Nat /\ pc' \in {"done", "loop"}
      BY <3>1, <3>3
    <3>5. QED BY <3>3, <3>4, TypeMove
  <2>6. QED BY <1>0, <2>1, <2>2, <2>3, <2>4, <2>5
<1>7. CASE BadWordShift
  <2>1. /\ B \in Nat /\ T \in Nat /\ Tleft \in Int /\ B < Tend /\ B >= 1
        /\ ps.msShiftLen \in Nat /\ B = T + ps.msShiftLen - 1 /\ Tleft = Tend - T
        /\ SearchFits(ps) /\ ps.search = "BW"
    <3>1. ps.search = "BW" /\ B < Tend /\ pc = "loop"
      BY <1>7 DEF BadWordShift
    <3>2. SearchFits(ps) /\ ps.msShiftLen >= 1 /\ ps.msShiftLen \in Nat
      BY <3>1, WindowFacts
    <3>3. ps.msShiftLen # 1
      BY <3>1, <3>2 DEF SearchFits
    <3>4. /\ B \in Nat /\ T \in Nat /\ B = T + ps.msShiftLen - 1 /\ Tleft = Tend - T
          /\ Tleft \in Int
      BY <3>1, WindowFacts DEF TypeOK
    <3>5. PICK l \in Nat : l = ps.msShiftLen /\ l >= 2
      BY <3>2, <3>3
    <3>6. B >= 1
      BY <3>4, <3>5
    <3>7. QED BY <3>1, <3>2, <3>4, <3>6
  <2>2. PICK n \in Nat : n = ps.msShift2[<<At(S, B - 1), At(S, B)>>]
    <3>1. B - 1 \in 0 .. Tend - 1 /\ B \in 0 .. Tend - 1
      BY <1>0, <2>1
    <3>2. QED BY <2>1, <3>1, ShiftFacts
  <2>3. CASE n = 0
    BY <1>0, <1>7, <2>1, <2>2, <2>3 DEF BadWordShift, TypeOK, Tend
  <2>4. CASE n # 0
    <3>1. /\ Move(n) /\ pc = "loop" /\ pc' \in {"done", "loop"}
          /\ UNCHANGED <<ps, text, patrn, patrnEnd, t, nfound>>
      BY <1>7, <2>2, <2>4 DEF BadWordShift
    <3>2. QED BY <3>1, TypeMove
  <2>5. QED BY <2>3, <2>4
<1>8. CASE PrefixHash
  <2>1. /\ T \in Nat /\ B \in Nat /\ T <= B /\ Tleft = Tend - T /\ Tleft # 1 /\ B < Tend
        /\ B = T + ps.msShiftLen - 1 /\ ps.msShiftLen \in Nat
    BY <1>8, WindowFacts DEF PrefixHash, TypeOK
  <2>2. At(S, T) \in Char /\ At(S, T + 1) \in Char
    <3>1. T \in 0 .. Tend - 1 /\ T + 1 \in 0 .. Tend - 1
      BY <1>0, <2>1
    <3>2. QED BY <3>1, TextFacts DEF Base
  <2>3. PICK h : h = ps.msHash[<<At(S, T), At(S, T + 1)>>]
    OBVIOUS
  <2>4. h \in Indices(ps) \cup {-1} /\ GroupAt(ps, h) \subseteq Indices(ps)
    BY <2>2, <2>3, HashFacts DEF Base
  <2>5. h # -1 => h \in 0 .. ps.msNumPatterns /\ h + ps.msNumArray[h] \in 0 .. ps.msNumPatterns
    <3>1. h # -1 => h \in Indices(ps) /\ h + ps.msNumArray[h] \in 0 .. ps.msNumPatterns
      BY <2>4, EntryFacts DEF Base
    <3>2. QED BY <1>0, <3>1 DEF Indices
  <2>6. CASE h # -1
    <3>1. /\ patrn' = h /\ patrnEnd' = h + ps.msNumArray[h] /\ pc' = "group"
          /\ UNCHANGED <<ps, text, T, B, Tleft, t, nfound>>
      BY <1>8, <2>3, <2>6 DEF PrefixHash
    <3>2. QED BY <1>0, <2>1, <2>5, <2>6, <3>1 DEF TypeOK, Tend
  <2>7. CASE h = -1
    <3>1. /\ Move(1) /\ pc = "pair" /\ pc' = "loop"
          /\ UNCHANGED <<ps, text, patrn, patrnEnd, t, nfound>>
      BY <1>8, <2>3, <2>7 DEF PrefixHash
    <3>2. QED BY <3>1, TypeMove
  <2>8. QED BY <2>6, <2>7
<1>9. CASE GroupEnd
  BY <1>9, TypeMove DEF GroupEnd
<1>10. CASE BoyerMoore
  <2>1. patrn \in Indices(ps)
    BY <1>0, <1>10 DEF BoyerMoore, Indices
  <2>2. m1 \in Nat
    BY <2>1, PatternFacts DEF m1, Base
  <2>3. m1' = m1
    BY <1>10 DEF BoyerMoore, m1
  <2>4. QED BY <1>0, <1>10, <2>2, <2>3 DEF BoyerMoore, TypeOK
<1>11. CASE NotFound
  BY <1>0, <1>11 DEF NotFound, NextPattern, TypeOK
<1>12. CASE OneByteScan
  <2>1. t \in Nat
    BY DEF TypeOK
  <2>2. QED BY <1>12, <2>1, TypeScan DEF OneByteScan
<1>13. CASE Scan
  <2>1. /\ patrn \in Indices(ps) /\ t \in 0 .. Tend - 1 /\ ps.msMethod = "MTH_BM"
    BY <1>0, <1>13 DEF Scan, Base, TypeOK, Indices
  <2>2. PatLen(ps, patrn) \in Nat
    BY <2>1, PatternFacts DEF Base
  <2>3. PICK n \in Nat : n = ps.psBmh[patrn][At(S, t)]
    BY <2>1, <2>2, BmhFacts
  <2>4. CASE t + n >= Tend
    BY <1>13, <2>1, <2>3, <2>4, TypeScan DEF Scan, NextPattern
  <2>5. CASE t + n < Tend
    <3>1. t + n \in 0 .. Tend - 1
      BY <1>0, <2>1, <2>3, <2>5
    <3>2. PICK k \in Nat : k = ps.psBmh[patrn][At(S, t + n)]
      BY <2>1, <2>2, <3>1, BmhFacts
    <3>3. ~(t + n >= Tend) /\ t + n \in Nat /\ t + n + k \in Nat /\ t <= t + n + k
      BY <1>0, <2>1, <2>3, <2>5, <3>2
    <3>4. /\ t' = t + n + k
          /\ IF t + n + k >= Tend THEN NextPattern
             ELSE pc' = (IF k = 0 THEN "compare" ELSE "scan") /\ UNCHANGED patrn
          /\ pc = "scan" /\ UNCHANGED <<ps, text, T, B, Tleft, patrnEnd, nfound>>
      BY <1>13, <2>3, <3>2, <3>3 DEF Scan
    <3>5. QED BY <1>0, <3>3, <3>4, TypeScan DEF NextPattern
  <2>6. QED BY <1>0, <2>1, <2>3, <2>4, <2>5
<1>14. CASE Compare
  <2>1. t \in Nat /\ t < Tend
    BY <1>14 DEF TypeOK, Compare
  <2>2. QED BY <1>14, <2>1, TypeScan DEF Compare
<1>15. CASE BoyerMooreFound
  <2>1. nfound' \in Nat
    BY <1>15 DEF BoyerMooreFound, Report, TypeOK
  <2>2. QED BY <1>0, <1>15, <2>1 DEF BoyerMooreFound, NextPattern, TypeOK
<1>16. CASE BoyerMooreEnd
  BY <1>16 DEF BoyerMooreEnd, TypeOK
<1>17. CASE UNCHANGED vars
  BY <1>17 DEF vars, TypeOK, Tend, m1
<1>18. QED
  BY <1>1, <1>2, <1>3, <1>4, <1>5, <1>6, <1>7, <1>8, <1>9, <1>10, <1>11, <1>12, <1>13, <1>14,
     <1>15, <1>16, <1>17 DEF Next, Done

-----------------------------------------------------------------------------
(* Places of patterns. *)

Place(k, o) == OccursAt(Pattern(k).psPat, S, o)

(* A place, byte by byte. *)
LEMMA PlaceFacts ==
    ASSUME Base, NEW k \in Indices(ps), NEW o \in Int
    PROVE  Place(k, o) <=> /\ 0 <= o /\ o + PatLen(ps, k) <= Tend
                           /\ \A j \in 0 .. PatLen(ps, k) - 1 :
                                 PatByte(ps, k, j) = At(S, o + j)
<1>1. Len(S) = Tend /\ Tend \in Nat
  BY TextFacts DEF Base
<1>2. Len(Pattern(k).psPat) = PatLen(ps, k) /\ PatLen(ps, k) \in Nat
  BY PatternFacts DEF Base, Pattern
<1>3. \A j : PatByte(ps, k, j) = At(Pattern(k).psPat, j)
  BY DEF PatByte, Pattern
<1>4. QED BY <1>1, <1>2, <1>3 DEF Place, OccursAt

LEMMA ExpectedFacts ==
    ASSUME Base, NEW x \in Expected
    PROVE  /\ x[1] \in Indices(ps) /\ x[1] \in Nat /\ x[1] < ps.msNumPatterns
           /\ x[2] \in Nat /\ x = <<x[1], x[2]>>
           /\ PatLen(ps, x[1]) \in Nat /\ PatLen(ps, x[1]) >= 1
           /\ x[2] + PatLen(ps, x[1]) <= Tend
           /\ \A j \in 0 .. PatLen(ps, x[1]) - 1 : PatByte(ps, x[1], j) = At(S, x[2] + j)
           /\ Place(x[1], x[2]) /\ CaseAgrees(x[1], x[2])
<1>1. x \in Indices(ps) \X (0 .. Tend) /\ StandsAt(x[1], x[2])
  BY DEF Expected
<1>2. Place(x[1], x[2]) /\ CaseAgrees(x[1], x[2])
  BY <1>1 DEF StandsAt, Place
<1>3. x[1] \in Indices(ps) /\ x[2] \in 0 .. Tend /\ x = <<x[1], x[2]>>
  BY <1>1
<1>4. ps.msNumPatterns \in Nat /\ Tend \in Nat
  BY GroupFacts, TextFacts DEF Base
<1>5. x[1] \in Nat /\ x[1] < ps.msNumPatterns /\ x[2] \in Nat
  BY <1>3, <1>4 DEF Indices
<1>6. PatLen(ps, x[1]) \in Nat /\ PatLen(ps, x[1]) >= 1
  BY <1>3, PatternFacts DEF Base
<1>7. QED BY <1>2, <1>3, <1>5, <1>6, PlaceFacts

(* Every place of the text that passes the test of the original text is    *)
(* expected, of few patterns only the first.                               *)
LEMMA PlaceIsExpected ==
    ASSUME Base, NEW k \in Indices(ps), NEW o \in Int, Place(k, o),
           ps.msMethod = "MTH_BM" => \A q \in 0 .. o - 1 : ~Place(k, q)
    PROVE  <<k, o>> \in Expected <=> CaseAgrees(k, o)
<1>1. PatLen(ps, k) \in Nat /\ Tend \in Nat
  BY PatternFacts, TextFacts DEF Base
<1>2. o \in 0 .. Tend
  BY <1>1, PlaceFacts
<1>3. ps.msMethod = "MTH_BM" => FirstPlace(k, o)
  BY DEF FirstPlace, Place
<1>4. StandsAt(k, o) <=> CaseAgrees(k, o)
  BY DEF StandsAt, Place
<1>5. QED BY <1>2, <1>3, <1>4 DEF Expected

LEMMA ExpectedFinite ==
    ASSUME Base
    PROVE  IsFiniteSet(Expected)
<1>1. ps.msNumPatterns \in Nat /\ Tend \in Nat
  BY GroupFacts, TextFacts DEF Base
<1>2. IsFiniteSet(Indices(ps)) /\ IsFiniteSet(0 .. Tend)
  BY <1>1, FS_Interval DEF Indices
<1>3. IsFiniteSet(Indices(ps) \X (0 .. Tend))
  BY <1>2, FS_Product
<1>4. Expected \subseteq Indices(ps) \X (0 .. Tend)
  BY DEF Expected
<1>5. QED BY <1>3, <1>4, FS_Subset

(* A window of l places from w on, and a shift of n: if the last place of  *)
(* the window holds what a pattern at o has at j, and no such j forbids    *)
(* the shift, then o is not jumped over.                                   *)
LEMMA SafeShift ==
    ASSUME NEW l \in Nat, NEW n \in Nat, n <= l, NEW w \in Nat, NEW o \in Nat, w <= o,
           \A j \in 0 .. l - 1 : o + j = w + l - 1 => n <= l - 1 - j
    PROVE  w + n <= o
<1> SUFFICES ASSUME o < w + n PROVE FALSE
  OBVIOUS
<1>1. PICK j \in Int : j = w + l - 1 - o
  OBVIOUS
<1>2. j \in 0 .. l - 1 /\ o + j = w + l - 1
  BY <1>1
<1>3. n <= l - 1 - j
  BY <1>2
<1>4. QED BY <1>1, <1>3

(* mwmSearchExBC: no place from w on is jumped over when the byte under    *)
(* the end e of the window tells the shift.                                *)
LEMMA CharShiftSafe ==
    ASSUME Base, SearchFits(ps), NEW w \in Nat, NEW e \in Nat, e = w + ps.msShiftLen - 1,
           e < Tend, NEW x \in Expected, w <= x[2]
    PROVE  w + ps.msShift[At(S, e)] <= x[2]
<1>1. PICK k \in Indices(ps) : k = x[1]
  BY ExpectedFacts
<1>2. PICK o \in Nat : o = x[2]
  BY ExpectedFacts
<1>3. PICK l \in Nat : l = ps.msShiftLen
  BY DEF SearchFits, ShiftsSafe
<1>4. PICK n \in Nat : n = ps.msShift[At(S, e)] /\ n <= l
  <2>1. ps.msShift[At(S, e)] \in 0 .. l
    BY <1>3, TextFacts, ShiftFacts DEF Base
  <2>2. QED BY <2>1
<1>5. l <= PatLen(ps, k) /\ PatLen(ps, k) \in Nat
  BY <1>1, <1>3, ExpectedFacts DEF SearchFits, ShiftsSafe
<1>6. \A j \in 0 .. PatLen(ps, k) - 1 : PatByte(ps, k, j) = At(S, o + j)
  BY <1>1, <1>2, ExpectedFacts
<1>7. \A j \in 0 .. l - 1 : ps.msShift[PatByte(ps, k, j)] <= l - 1 - j
  BY <1>3 DEF SearchFits, ShiftsSafe
<1>8. ASSUME NEW j \in 0 .. l - 1, o + j = w + l - 1 PROVE n <= l - 1 - j
  <2>1. PatByte(ps, k, j) = At(S, o + j)
    BY <1>5, <1>6
  <2>2. o + j = e
    BY <1>3, <1>8
  <2>3. n = ps.msShift[PatByte(ps, k, j)]
    BY <1>4, <2>1, <2>2
  <2>4. QED BY <1>7, <2>3
<1>9. w + n <= o
  BY <1>2, <1>4, <1>8, SafeShift
<1>10. QED BY <1>2, <1>4, <1>9

(* mwmSearchExBW: the same with the last two bytes.                        *)
LEMMA WordShiftSafe ==
    ASSUME Base, SearchFits(ps), ps.search = "BW", NEW w \in Nat, NEW e \in Nat,
           e = w + ps.msShiftLen - 1, e < Tend, e >= 1, NEW x \in Expected, w <= x[2]
    PROVE  w + ps.msShift2[<<At(S, e - 1), At(S, e)>>] <= x[2]
<1>1. PICK k \in Indices(ps) : k = x[1]
  BY ExpectedFacts
<1>2. PICK o \in Nat : o = x[2]
  BY ExpectedFacts
<1>3. PICK l \in Nat : l = ps.msShiftLen - 1
  <2>1. ps.msShiftLen \in Nat \ {0}
    BY DEF SearchFits, ShiftsSafe
  <2>2. QED BY <2>1
<1>4. PICK n \in Nat : n = ps.msShift2[<<At(S, e - 1), At(S, e)>>] /\ n <= l
  <2>0. ps.msShiftLen \in Nat /\ Tend \in Nat
    BY TextFacts DEF Base, SearchFits, ShiftsSafe
  <2>1. e - 1 \in 0 .. Tend - 1 /\ e \in 0 .. Tend - 1
    BY <2>0
  <2>2. ps.msShift2[<<At(S, e - 1), At(S, e)>>] \in 0 .. l
    BY <1>3, <2>0, <2>1, ShiftFacts
  <2>3. QED BY <2>2
<1>5. l + 1 <= PatLen(ps, k) /\ PatLen(ps, k) \in Nat
  <2>1. ps.msShiftLen <= PatLen(ps, k) /\ PatLen(ps, k) \in Nat /\ ps.msShiftLen \in Nat
    BY <1>1, ExpectedFacts DEF SearchFits, ShiftsSafe
  <2>2. QED BY <1>3, <2>1
<1>6. \A j \in 0 .. PatLen(ps, k) - 1 : PatByte(ps, k, j) = At(S, o + j)
  BY <1>1, <1>2, ExpectedFacts
<1>7. ASSUME NEW j \in 0 .. l - 1
      PROVE  ps.msShift2[<<PatByte(ps, k, j), PatByte(ps, k, j + 1)>>] <= l - 1 - j
  <2>1. PICK q \in Nat : q = ps.msShiftLen /\ q >= 1
    BY DEF SearchFits, ShiftsSafe
  <2>2. \A i \in 0 .. q - 2 :
          ps.msShift2[<<PatByte(ps, k, i), PatByte(ps, k, i + 1)>>] <= q - 2 - i
    BY <2>1 DEF SearchFits, WordShiftsSafe
  <2>3. q - 2 - j = l - 1 - j /\ j \in 0 .. q - 2
    BY <1>3, <2>1
  <2>4. QED BY <2>2, <2>3
<1>8. ASSUME NEW j \in 0 .. l - 1, o + j = w + l - 1 PROVE n <= l - 1 - j
  <2>1. j \in 0 .. PatLen(ps, k) - 1 /\ j + 1 \in 0 .. PatLen(ps, k) - 1
    BY <1>5
  <2>2. PatByte(ps, k, j) = At(S, o + j) /\ PatByte(ps, k, j + 1) = At(S, o + (j + 1))
    BY <1>6, <2>1
  <2>3. o + j = e - 1 /\ o + (j + 1) = e
    <3>1. ps.msShiftLen \in Nat
      BY DEF SearchFits, ShiftsSafe
    <3>2. QED BY <1>3, <1>8, <3>1
  <2>4. n = ps.msShift2[<<PatByte(ps, k, j), PatByte(ps, k, j + 1)>>]
    BY <1>4, <2>2, <2>3
  <2>5. QED BY <1>7, <2>4
<1>9. w + n <= o
  BY <1>2, <1>4, <1>8, SafeShift
<1>10. QED BY <1>2, <1>4, <1>9

(* hbm_match: the same for one pattern under its own length.               *)
LEMMA BmhShiftSafe ==
    ASSUME Base, ps.msMethod = "MTH_BM", NEW k \in Indices(ps), NEW e \in Nat, e < Tend,
           PatLen(ps, k) - 1 <= e, NEW o \in Nat, Place(k, o), e - (PatLen(ps, k) - 1) <= o
    PROVE  e - (PatLen(ps, k) - 1) + ps.psBmh[k][At(S, e)] <= o
<1>1. PICK l \in Nat : l = PatLen(ps, k) /\ l >= 1
  BY PatternFacts DEF Base
<1>2. PICK w \in Nat : w = e - (l - 1)
  BY <1>1
<1>3. e = w + l - 1 /\ w <= o
  BY <1>1, <1>2
<1>4. PICK n \in Nat : n = ps.psBmh[k][At(S, e)] /\ n <= l
  <2>1. e \in 0 .. Tend - 1
    BY TextFacts DEF Base
  <2>2. ps.psBmh[k][At(S, e)] \in 0 .. l
    BY <1>1, <2>1, BmhFacts
  <2>3. QED BY <2>2
<1>5. \A j \in 0 .. l - 1 : PatByte(ps, k, j) = At(S, o + j)
  BY <1>1, PlaceFacts
<1>6. BmhSafe(ps)
  BY GroupFacts DEF Base
<1>7. \A j \in 0 .. l - 1 : ps.psBmh[k][PatByte(ps, k, j)] <= l - 1 - j
  BY <1>1, <1>6 DEF BmhSafe
<1>8. ASSUME NEW j \in 0 .. l - 1, o + j = w + l - 1 PROVE n <= l - 1 - j
  <2>1. PatByte(ps, k, j) = At(S, e)
    BY <1>3, <1>5, <1>8
  <2>2. QED BY <1>4, <1>7, <2>1
<1>9. w + n <= o
  BY <1>3, <1>4, <1>8, SafeShift
<1>10. QED BY <1>1, <1>2, <1>4, <1>9

-----------------------------------------------------------------------------
(* The inductive invariant. *)

(* The patterns patrn .. patrnEnd - 1 still to be tested end the group of  *)
(* the one-byte hash, or of the hash of two bytes, at T.                   *)
OneByteGroup == {k \in Indices(ps) : PatLen(ps, k) = 1 /\ At(S, T) = PatByte(ps, k, 0)}

PairGroup ==
    {k \in Indices(ps) : /\ PatLen(ps, k) > 1
                         /\ At(S, T) = PatByte(ps, k, 0) /\ At(S, T + 1) = PatByte(ps, k, 1)}

InGroup(group) ==
    \E h \in Nat : h <= patrn /\ patrn <= patrnEnd /\ group = h .. patrnEnd - 1

GroupInv ==
    /\ pc = "one" => InGroup(OneByteGroup)
    /\ pc = "group" => T + 1 < Tend /\ InGroup(PairGroup)

(* hbm_match: pattern patrn stands nowhere before the place looked at.     *)
ScanInv ==
    /\ pc \in {"scan", "compare", "found"} => \A q \in 0 .. t - m1 - 1 : ~Place(patrn, q)
    /\ pc = "found" => Place(patrn, t - m1)

SearchInv == Base /\ TypeOK /\ GroupInv /\ ScanInv /\ HitsAreSettledPlaces

(* A step that counts nothing and settles nothing but what is not expected. *)
LEMMA HitsKept ==
    ASSUME HitsAreSettledPlaces, UNCHANGED <<ps, text, nfound, hits>>,
           \A x \in Expected : Settled(x)' <=> Settled(x)
    PROVE  HitsAreSettledPlaces'
<1>1. Expected' = Expected
  BY DEF Expected, StandsAt, FirstPlace, CaseAgrees, Pattern, S, Tend
<1>2. QED BY <1>1 DEF HitsAreSettledPlaces

(* A step that tests the place z and counts it if it is expected.          *)
LEMMA HitsTested ==
    ASSUME Base, HitsAreSettledPlaces, UNCHANGED <<ps, text>>,
           NEW z, z \in Expected => ~Settled(z),
           IF z \in Expected THEN nfound' = nfound + 1 /\ hits' = hits \cup {z}
                             ELSE UNCHANGED <<nfound, hits>>,
           \A x \in Expected : Settled(x)' <=> Settled(x) \/ x = z
    PROVE  HitsAreSettledPlaces'
<1>1. Expected' = Expected
  BY DEF Expected, StandsAt, FirstPlace, CaseAgrees, Pattern, S, Tend
<1>2. hits' = {x \in Expected' : Settled(x)'}
  <2>1. CASE z \in Expected
    BY <1>1, <2>1 DEF HitsAreSettledPlaces
  <2>2. CASE z \notin Expected
    BY <1>1, <2>2 DEF HitsAreSettledPlaces
  <2>3. QED BY <2>1, <2>2
<1>3. nfound' = Cardinality(hits')
  <2>1. CASE z \in Expected
    <3>1. z \notin hits /\ hits \subseteq Expected
      BY <2>1 DEF HitsAreSettledPlaces
    <3>2. IsFiniteSet(hits)
      BY <3>1, ExpectedFinite, FS_Subset
    <3>3. Cardinality(hits \cup {z}) = Cardinality(hits) + 1
      BY <3>1, <3>2, FS_AddElement
    <3>4. QED BY <2>1, <3>3 DEF HitsAreSettledPlaces
  <2>2. CASE z \notin Expected
    BY <2>2 DEF HitsAreSettledPlaces
  <2>3. QED BY <2>1, <2>2
<1>4. QED BY <1>2, <1>3 DEF HitsAreSettledPlaces

(* What is settled before and after a step, by pc.                         *)
LEMMA SettledBefore ==
    ASSUME NEW x
    PROVE  /\ pc = "start" => ~Settled(x)
           /\ pc \in {"bm", "scan", "compare", "found"} => (Settled(x) <=> x[1] < patrn)
           /\ pc = "loop" => (Settled(x) <=> x[2] < T)
           /\ pc = "one" =>
                (Settled(x) <=> \/ x[2] < T
                                \/ x[2] = T /\ PatLen(ps, x[1]) = 1 /\ x[1] < patrn)
           /\ pc = "pair" =>
                (Settled(x) <=> \/ x[2] < T
                                \/ x[2] = T /\ PatLen(ps, x[1]) = 1)
           /\ pc = "group" =>
                (Settled(x) <=> \/ x[2] < T
                                \/ x[2] = T /\ (PatLen(ps, x[1]) = 1 \/ x[1] < patrn))
           /\ pc = "done" => Settled(x)
  BY DEF Settled

LEMMA SettledAfter ==
    ASSUME NEW x, ps' = ps
    PROVE  /\ pc' = "start" => ~Settled(x)'
           /\ pc' \in {"bm", "scan", "compare", "found"} => (Settled(x)' <=> x[1] < patrn')
           /\ pc' = "loop" => (Settled(x)' <=> x[2] < T')
           /\ pc' = "one" =>
                (Settled(x)' <=> \/ x[2] < T'
                                 \/ x[2] = T' /\ PatLen(ps, x[1]) = 1 /\ x[1] < patrn')
           /\ pc' = "pair" =>
                (Settled(x)' <=> \/ x[2] < T'
                                 \/ x[2] = T' /\ PatLen(ps, x[1]) = 1)
           /\ pc' = "group" =>
                (Settled(x)' <=> \/ x[2] < T'
                                 \/ x[2] = T' /\ (PatLen(ps, x[1]) = 1 \/ x[1] < patrn'))
           /\ pc' = "done" => Settled(x)'
  BY DEF Settled

LEMMA InvInit == Init => SearchInv
<1> SUFFICES ASSUME Init PROVE SearchInv
  OBVIOUS
<1>1. HitsAreSettledPlaces
  <2>1. \A x \in Expected : ~Settled(x)
    BY DEF Init, Settled
  <2>2. Cardinality({}) = 0
    BY FS_EmptySet
  <2>3. QED BY <2>1, <2>2 DEF Init, HitsAreSettledPlaces
<1>2. GroupInv /\ ScanInv
  BY DEF Init, GroupInv, ScanInv
<1>3. QED BY <1>1, <1>2, BaseInit, TypeInit DEF SearchInv

-----------------------------------------------------------------------------
(* Every step keeps what is counted right: the searches with tables.       *)

LEMMA HitsStart ==
    ASSUME SearchInv, StartBoyerMoore \/ TooShort \/ StartWindow
    PROVE  HitsAreSettledPlaces'
<1>0. Base
  BY DEF SearchInv
<1>1. /\ UNCHANGED <<ps, text, nfound, hits>> /\ pc = "start" /\ patrn' = patrn
      /\ \/ pc' = "bm"
         \/ pc' = "done" /\ ps.msMethod = "MTH_MWM" /\ Tend < ps.msShiftLen
         \/ pc' = "loop" /\ T' = 0
  BY DEF StartBoyerMoore, TooShort, StartWindow
<1>2. patrn = 0
  BY <1>0, <1>1 DEF Base
<1>3. ASSUME NEW x \in Expected PROVE Settled(x)' <=> Settled(x)
  <2>1. /\ x[1] \in Indices(ps) /\ x[1] \in Nat /\ x[2] \in Nat /\ PatLen(ps, x[1]) \in Nat
        /\ x[2] + PatLen(ps, x[1]) <= Tend
    BY <1>0, ExpectedFacts
  <2>2. pc' # "done"
    <3>1. SUFFICES ASSUME pc' = "done" PROVE FALSE
      OBVIOUS
    <3>2. SearchFits(ps) /\ Tend < ps.msShiftLen
      BY <1>0, <1>1, <3>1, GroupFacts DEF Base
    <3>3. PICK l \in Nat : l = ps.msShiftLen
      BY <3>2 DEF SearchFits, ShiftsSafe
    <3>4. l <= PatLen(ps, x[1])
      BY <2>1, <3>2, <3>3 DEF SearchFits, ShiftsSafe
    <3>5. Tend \in Nat
      BY <1>0, TextFacts DEF Base
    <3>6. QED BY <2>1, <3>2, <3>3, <3>4, <3>5
  <2>3. ~Settled(x)
    BY <1>1, SettledBefore
  <2>4. pc' = "bm" => ~Settled(x)'
    BY <1>1, <1>2, <2>1, SettledAfter
  <2>5. pc' = "loop" => ~Settled(x)'
    BY <1>1, <2>1, SettledAfter
  <2>6. QED BY <1>1, <2>2, <2>3, <2>4, <2>5
<1>4. QED BY <1>1, <1>3, HitsKept DEF SearchInv

(* No place is left once the end of the window e has passed the end of the *)
(* text.                                                                   *)
LEMMA NoPlaceLeft ==
    ASSUME Base, SearchFits(ps), NEW w \in Nat, NEW e \in Nat, e = w + ps.msShiftLen - 1,
           e >= Tend, NEW x \in Expected
    PROVE  x[2] < w
<1>1. PICK l \in Nat : l = ps.msShiftLen
  BY DEF SearchFits, ShiftsSafe
<1>2. l <= PatLen(ps, x[1])
  BY <1>1, ExpectedFacts DEF SearchFits, ShiftsSafe
<1>3. Tend \in Nat
  BY TextFacts DEF Base
<1>4. PICK m \in Nat : m = PatLen(ps, x[1])
  BY ExpectedFacts
<1>5. x[2] \in Nat /\ x[2] + m <= Tend
  BY <1>4, ExpectedFacts
<1>6. QED BY <1>1, <1>2, <1>3, <1>4, <1>5

(* The window moves on from the loop.                                      *)
LEMMA HitsMoved ==
    ASSUME SearchInv, pc = "loop", UNCHANGED <<ps, text, nfound, hits>>, T' \in Nat, T <= T',
           \A x \in Expected : T <= x[2] => T' <= x[2],
           \/ pc' = "loop"
           \/ pc' = "done" /\ T' + ps.msShiftLen - 1 >= Tend
    PROVE  HitsAreSettledPlaces'
<1>0. /\ Base /\ T \in Nat /\ SearchFits(ps) /\ ps.msShiftLen \in Nat /\ ps.msShiftLen >= 1
  BY WindowFacts DEF SearchInv
<1>1. ASSUME NEW x \in Expected PROVE Settled(x)' <=> Settled(x)
  <2>1. x[2] \in Nat
    BY <1>0, ExpectedFacts
  <2>2. Settled(x) <=> x[2] < T
    BY SettledBefore
  <2>3. x[2] < T <=> x[2] < T'
    BY <1>0, <2>1
  <2>4. CASE pc' = "loop"
    BY <2>2, <2>3, <2>4, SettledAfter
  <2>5. CASE pc' = "done" /\ T' + ps.msShiftLen - 1 >= Tend
    <3>1. T' + ps.msShiftLen - 1 \in Nat
      BY <1>0
    <3>2. x[2] < T'
      BY <1>0, <2>5, <3>1, NoPlaceLeft
    <3>3. QED BY <2>2, <2>3, <2>5, <3>2, SettledAfter
  <2>6. QED BY <2>4, <2>5
<1>2. QED BY <1>1, HitsKept DEF SearchInv

(* With a shift of 0 the window stays; no pattern has one byte only.       *)
LEMMA HitsStay ==
    ASSUME SearchInv, pc = "loop", pc' = "pair", UNCHANGED <<ps, text, T, nfound, hits>>,
           \A x \in Expected : x[2] = T => PatLen(ps, x[1]) # 1
    PROVE  HitsAreSettledPlaces'
<1>1. ASSUME NEW x \in Expected PROVE Settled(x)' <=> Settled(x)
  <2>1. Settled(x) <=> x[2] < T
    BY SettledBefore
  <2>2. Settled(x)' <=> x[2] < T \/ (x[2] = T /\ PatLen(ps, x[1]) = 1)
    BY SettledAfter
  <2>3. QED BY <2>1, <2>2
<1>2. QED BY <1>1, HitsKept DEF SearchInv

LEMMA HitsLeave ==
    ASSUME SearchInv, Leave
    PROVE  HitsAreSettledPlaces'
<1>1. /\ pc = "loop" /\ B >= Tend /\ pc' = "done" /\ T' = T
      /\ UNCHANGED <<ps, text, nfound, hits>>
  BY DEF Leave
<1>2. T \in Nat /\ B = T + ps.msShiftLen - 1 /\ ps.msShiftLen \in Nat
  BY <1>1, WindowFacts DEF SearchInv
<1>3. T' + ps.msShiftLen - 1 >= Tend
  BY <1>1, <1>2
<1>4. QED BY <1>1, <1>2, <1>3, HitsMoved

LEMMA HitsBadChar ==
    ASSUME SearchInv, BadCharShift
    PROVE  HitsAreSettledPlaces'
<1>0. /\ Base /\ T \in Nat /\ B \in Nat /\ Tend \in Nat /\ SearchFits(ps)
      /\ B = T + ps.msShiftLen - 1 /\ ps.msShiftLen >= 1 /\ ps.msShiftLen \in Nat
      /\ pc = "loop" /\ B < Tend /\ ps.search = "BC"
      /\ UNCHANGED <<ps, text, nfound, hits>>
  BY WindowFacts DEF SearchInv, BadCharShift
<1>1. PICK first \in Nat : first = ps.msShift[At(S, B)]
  <2>1. B \in 0 .. Tend - 1
    BY <1>0
  <2>2. QED BY <1>0, <2>1, ShiftFacts
<1>2. PICK l \in Nat : l = ps.msShiftLen
  BY <1>0
<1>3. \A x \in Expected : T <= x[2] => T + first <= x[2]
  BY <1>0, <1>1, CharShiftSafe
<1>4. CASE first = 0
  <2>1. pc' = "pair" /\ T' = T
    BY <1>1, <1>4 DEF BadCharShift
  <2>2. \A x \in Expected : PatLen(ps, x[1]) # 1
    <3>1. l # 1 /\ \A k \in Indices(ps) : l <= PatLen(ps, k)
      BY <1>0, <1>2 DEF SearchFits, ShiftsSafe
    <3>2. QED BY <1>0, <1>2, <3>1, ExpectedFacts
  <2>3. QED BY <1>0, <2>1, <2>2, HitsStay
<1>5. CASE first # 0 /\ B + first >= Tend
  <2>1. pc' = "done" /\ T' = T + first
    BY <1>1, <1>5 DEF BadCharShift, Move
  <2>2. T' + ps.msShiftLen - 1 >= Tend
    BY <1>0, <1>1, <1>2, <1>5, <2>1
  <2>3. QED BY <1>0, <1>1, <1>3, <2>1, <2>2, HitsMoved
<1>6. CASE first # 0 /\ B + first < Tend
  <2>1. PICK second \in Nat : second = ps.msShift[At(S, B + first)]
    <3>1. B + first \in 0 .. Tend - 1
      BY <1>0, <1>1, <1>6
    <3>2. QED BY <1>0, <3>1, ShiftFacts
  <2>2. ~(B + first >= Tend) /\ T + first \in Nat /\ B + first \in Nat
        /\ B + first = T + first + ps.msShiftLen - 1
    BY <1>0, <1>1, <1>2, <1>6
  <2>3. /\ T' = T + (first + second)
        /\ pc' = IF B + first + second >= Tend THEN "done" ELSE "loop"
    BY <1>1, <1>6, <2>1, <2>2 DEF BadCharShift, Move
  <2>4. \A x \in Expected : T + first <= x[2] => T + first + second <= x[2]
    BY <1>0, <1>6, <2>1, <2>2, CharShiftSafe
  <2>5. T' = T + first + second /\ T' \in Nat /\ T <= T'
    BY <1>0, <1>1, <2>1, <2>3
  <2>6. \A x \in Expected : T <= x[2] => T' <= x[2]
    BY <1>3, <2>4, <2>5
  <2>7. pc' = "done" => T' + ps.msShiftLen - 1 >= Tend
    BY <1>0, <1>1, <1>2, <2>1, <2>3, <2>5
  <2>8. pc' = "loop" \/ (pc' = "done" /\ T' + ps.msShiftLen - 1 >= Tend)
    BY <2>3, <2>7
  <2>9. QED BY <1>0, <2>5, <2>6, <2>8, HitsMoved
<1>7. QED BY <1>0, <1>1, <1>4, <1>5, <1>6

LEMMA HitsBadWord ==
    ASSUME SearchInv, BadWordShift
    PROVE  HitsAreSettledPlaces'
<1>0. /\ Base /\ T \in Nat /\ B \in Nat /\ Tend \in Nat /\ SearchFits(ps)
      /\ B = T + ps.msShiftLen - 1 /\ ps.msShiftLen >= 1 /\ ps.msShiftLen \in Nat
      /\ pc = "loop" /\ B < Tend /\ ps.search = "BW"
      /\ UNCHANGED <<ps, text, nfound, hits>>
  BY WindowFacts DEF SearchInv, BadWordShift
<1>2. PICK l \in Nat : l = ps.msShiftLen
  BY <1>0
<1>3. l >= 2 /\ \A k \in Indices(ps) : l <= PatLen(ps, k)
  BY <1>0, <1>2 DEF SearchFits, ShiftsSafe
<1>4. B >= 1 /\ B - 1 \in 0 .. Tend - 1 /\ B \in 0 .. Tend - 1
  BY <1>0, <1>2, <1>3
<1>5. PICK n \in Nat : n = ps.msShift2[<<At(S, B - 1), At(S, B)>>]
  BY <1>0, <1>4, ShiftFacts
<1>6. \A x \in Expected : T <= x[2] => T + n <= x[2]
  BY <1>0, <1>4, <1>5, WordShiftSafe
<1>7. CASE n = 0
  <2>1. pc' = "pair" /\ T' = T
    BY <1>5, <1>7 DEF BadWordShift
  <2>2. \A x \in Expected : PatLen(ps, x[1]) # 1
    BY <1>0, <1>2, <1>3, ExpectedFacts
  <2>3. QED BY <1>0, <2>1, <2>2, HitsStay
<1>8. CASE n # 0
  <2>1. T' = T + n /\ pc' = IF B + n >= Tend THEN "done" ELSE "loop"
    BY <1>5, <1>8 DEF BadWordShift, Move
  <2>2. T' \in Nat /\ T <= T' /\ \A x \in Expected : T <= x[2] => T' <= x[2]
    BY <1>0, <1>5, <1>6, <2>1
  <2>3. pc' = "done" => T' + ps.msShiftLen - 1 >= Tend
    BY <1>0, <1>2, <1>5, <2>1
  <2>4. pc' = "loop" \/ (pc' = "done" /\ T' + ps.msShiftLen - 1 >= Tend)
    BY <2>1, <2>3
  <2>5. QED BY <1>0, <2>2, <2>4, HitsMoved
<1>9. QED BY <1>7, <1>8

LEMMA HitsOneByteHash ==
    ASSUME SearchInv, OneByteHash
    PROVE  HitsAreSettledPlaces' /\ GroupInv'
<1>0. /\ Base /\ T \in Nat /\ Tend \in Nat /\ T < Tend /\ SearchFits(ps)
      /\ pc = "loop" /\ ps.search = "NoBC" /\ T' = T
      /\ UNCHANGED <<ps, text, nfound, hits>>
  <2>1. pc = "loop" /\ B < Tend /\ ps.search = "NoBC" /\ T' = T
        /\ UNCHANGED <<ps, text, nfound, hits>>
    BY DEF OneByteHash
  <2>2. Base /\ T \in Nat /\ B \in Nat /\ T <= B /\ Tend \in Nat /\ SearchFits(ps)
    BY <2>1, WindowFacts DEF SearchInv
  <2>3. QED BY <2>1, <2>2
<1>1. PICK h : h = ps.msHash1[At(S, T)]
  OBVIOUS
<1>2. h \in Indices(ps) \cup {-1} /\ GroupAt(ps, h) = OneByteGroup
  BY <1>0, <1>1, TextFacts, Hash1Facts DEF Base, OneByteGroup
<1>3. ASSUME NEW x \in Expected, x[2] = T, PatLen(ps, x[1]) = 1
      PROVE  x[1] \in OneByteGroup
  <2>1. /\ x[1] \in Indices(ps)
        /\ \A j \in 0 .. PatLen(ps, x[1]) - 1 : PatByte(ps, x[1], j) = At(S, x[2] + j)
    BY <1>0, ExpectedFacts
  <2>2. PatByte(ps, x[1], 0) = At(S, T + 0)
    BY <1>0, <1>3, <2>1
  <2>3. QED BY <1>0, <1>3, <2>1, <2>2 DEF OneByteGroup
<1>4. CASE h = -1
  <2>1. pc' = "pair"
    BY <1>1, <1>4 DEF OneByteHash
  <2>2. OneByteGroup = {}
    BY <1>2, <1>4 DEF GroupAt
  <2>3. HitsAreSettledPlaces'
    BY <1>0, <1>3, <2>1, <2>2, HitsStay
  <2>4. QED BY <1>0, <2>1, <2>3 DEF GroupInv
<1>5. CASE h # -1
  <2>1. pc' = "one" /\ patrn' = h /\ patrnEnd' = h + ps.msNumArray[h]
    BY <1>1, <1>5 DEF OneByteHash
  <2>2. h \in Nat /\ patrnEnd' \in Nat /\ h <= patrnEnd' /\ OneByteGroup = h .. patrnEnd' - 1
    <3>1. GroupAt(ps, h) \subseteq Indices(ps)
      BY <1>2 DEF OneByteGroup
    <3>2. /\ h \in Nat
          /\ \E n \in Nat : n = ps.msNumArray[h] /\ GroupAt(ps, h) = h .. h + n - 1
      BY <1>0, <1>2, <1>5, <3>1, EntryFacts DEF Base
    <3>3. PICK n \in Nat : n = ps.msNumArray[h] /\ GroupAt(ps, h) = h .. h + n - 1
      BY <3>2
    <3>4. patrnEnd' = h + n
      BY <2>1, <3>3
    <3>5. QED BY <1>2, <3>2, <3>3, <3>4
  <2>3. ASSUME NEW x \in Expected PROVE Settled(x)' <=> Settled(x)
    <3>1. x[1] \in Nat
      BY <1>0, ExpectedFacts
    <3>2. x[2] = T /\ PatLen(ps, x[1]) = 1 => ~(x[1] < h)
      BY <1>3, <2>2, <3>1
    <3>3. Settled(x) <=> x[2] < T
      BY <1>0, SettledBefore
    <3>4. Settled(x)' <=> x[2] < T \/ (x[2] = T /\ PatLen(ps, x[1]) = 1 /\ x[1] < h)
      BY <1>0, <2>1, SettledAfter
    <3>5. QED BY <3>2, <3>3, <3>4
  <2>4. HitsAreSettledPlaces'
    BY <1>0, <2>3, HitsKept DEF SearchInv
  <2>5. OneByteGroup' = OneByteGroup
    BY <1>0 DEF OneByteGroup, S
  <2>6. InGroup(OneByteGroup)'
    BY <2>1, <2>2, <2>5 DEF InGroup
  <2>7. QED BY <1>0, <2>1, <2>4, <2>6 DEF GroupInv
<1>6. QED BY <1>4, <1>5

LEMMA HitsOneByteMatch ==
    ASSUME SearchInv, OneByteMatch
    PROVE  HitsAreSettledPlaces' /\ GroupInv'
<1>0. /\ Base /\ T \in Nat /\ Tend \in Nat /\ T < Tend /\ ps.msMethod = "MTH_MWM"
      /\ pc = "one" /\ pc' = "one" /\ T' = T /\ patrn' = patrn + 1 /\ patrnEnd' = patrnEnd
      /\ patrn < patrnEnd /\ patrn \in Nat /\ patrnEnd \in Nat
      /\ UNCHANGED <<ps, text>>
  <2>1. /\ pc = "one" /\ pc' = "one" /\ T' = T /\ patrn' = patrn + 1 /\ patrnEnd' = patrnEnd
        /\ patrn < patrnEnd /\ UNCHANGED <<ps, text>>
    BY DEF OneByteMatch
  <2>2. Base /\ T \in Nat /\ B \in Nat /\ T <= B /\ Tend \in Nat /\ B < Tend
    BY <2>1, WindowFacts DEF SearchInv, TypeOK
  <2>3. ps.msNumPatterns \in Nat
    BY <2>2, GroupFacts DEF Base
  <2>4. patrn \in Nat /\ patrnEnd \in Nat
    BY <2>3 DEF SearchInv, TypeOK
  <2>5. ps.msMethod = "MTH_MWM"
    BY <2>1, <2>2 DEF Base
  <2>6. QED BY <2>1, <2>2, <2>4, <2>5
<1>1. PICK h \in Nat : h <= patrn /\ patrn <= patrnEnd /\ OneByteGroup = h .. patrnEnd - 1
  BY <1>0 DEF SearchInv, GroupInv, InGroup
<1>2. patrn \in Indices(ps) /\ PatLen(ps, patrn) = 1 /\ PatByte(ps, patrn, 0) = At(S, T)
  <2>1. patrn \in OneByteGroup
    BY <1>0, <1>1
  <2>2. QED BY <2>1 DEF OneByteGroup
<1>3. Place(patrn, T)
  <2>1. T + PatLen(ps, patrn) <= Tend
    BY <1>0, <1>2
  <2>2. \A j \in 0 .. PatLen(ps, patrn) - 1 : j = 0
    BY <1>2
  <2>3. T + 0 = T
    BY <1>0
  <2>4. \A j \in 0 .. PatLen(ps, patrn) - 1 : PatByte(ps, patrn, j) = At(S, T + j)
    BY <1>2, <2>2, <2>3
  <2>5. QED BY <1>0, <1>2, <2>1, <2>4, PlaceFacts
<1>4. <<patrn, T>> \in Expected <=> CaseAgrees(patrn, T)
  BY <1>0, <1>2, <1>3, PlaceIsExpected
<1>5. PICK z : z = <<patrn, T>>
  OBVIOUS
<1>6. IF z \in Expected THEN nfound' = nfound + 1 /\ hits' = hits \cup {z}
                        ELSE UNCHANGED <<nfound, hits>>
  BY <1>4, <1>5 DEF OneByteMatch, Report
<1>7. ~Settled(z)
  BY <1>0, <1>5, SettledBefore
<1>8. ASSUME NEW x \in Expected PROVE Settled(x)' <=> Settled(x) \/ x = z
  <2>1. x[1] \in Nat /\ x = <<x[1], x[2]>>
    BY <1>0, ExpectedFacts
  <2>2. x[1] < patrn + 1 <=> x[1] < patrn \/ x[1] = patrn
    BY <1>0, <2>1
  <2>3. x = z <=> x[1] = patrn /\ x[2] = T
    BY <1>5, <2>1
  <2>4. Settled(x)' <=> x[2] < T \/ (x[2] = T /\ PatLen(ps, x[1]) = 1 /\ x[1] < patrn + 1)
    BY <1>0, SettledAfter
  <2>5. Settled(x) <=> x[2] < T \/ (x[2] = T /\ PatLen(ps, x[1]) = 1 /\ x[1] < patrn)
    BY <1>0, SettledBefore
  <2>6. x = z => PatLen(ps, x[1]) = 1
    BY <1>2, <2>3
  <2>7. QED BY <2>2, <2>3, <2>4, <2>5, <2>6
<1>9. HitsAreSettledPlaces'
  BY <1>0, <1>6, <1>7, <1>8, HitsTested DEF SearchInv
<1>10. OneByteGroup' = OneByteGroup
  BY <1>0 DEF OneByteGroup, S
<1>11. h <= patrn' /\ patrn' <= patrnEnd'
  BY <1>0, <1>1
<1>12. InGroup(OneByteGroup)'
  BY <1>0, <1>1, <1>10, <1>11 DEF InGroup
<1>13. QED BY <1>0, <1>9, <1>12 DEF GroupInv, SearchInv

LEMMA HitsOneByteEnd ==
    ASSUME SearchInv, OneByteEnd
    PROVE  HitsAreSettledPlaces' /\ GroupInv'
<1>0. /\ Base /\ T \in Nat /\ pc = "one" /\ pc' = "pair" /\ patrn = patrnEnd /\ T' = T
      /\ UNCHANGED <<ps, text, nfound, hits>>
  BY WindowFacts DEF SearchInv, OneByteEnd
<1>1. PICK h \in Nat : OneByteGroup = h .. patrnEnd - 1
  BY <1>0 DEF SearchInv, GroupInv, InGroup
<1>2. patrnEnd \in Int
  BY DEF SearchInv, TypeOK
<1>3. ASSUME NEW x \in Expected PROVE Settled(x)' <=> Settled(x)
  <2>1. /\ x[1] \in Indices(ps) /\ x[1] \in Nat
        /\ \A j \in 0 .. PatLen(ps, x[1]) - 1 : PatByte(ps, x[1], j) = At(S, x[2] + j)
    BY <1>0, ExpectedFacts
  <2>2. ASSUME x[2] = T, PatLen(ps, x[1]) = 1 PROVE x[1] < patrn
    <3>1. PatByte(ps, x[1], 0) = At(S, T + 0)
      BY <2>1, <2>2
    <3>2. x[1] \in OneByteGroup
      BY <1>0, <2>1, <2>2, <3>1 DEF OneByteGroup
    <3>3. QED BY <1>0, <1>1, <1>2, <3>2
  <2>3. Settled(x)' <=> x[2] < T \/ (x[2] = T /\ PatLen(ps, x[1]) = 1)
    BY <1>0, SettledAfter
  <2>4. Settled(x) <=> x[2] < T \/ (x[2] = T /\ PatLen(ps, x[1]) = 1 /\ x[1] < patrn)
    BY <1>0, SettledBefore
  <2>5. QED BY <2>2, <2>3, <2>4
<1>4. HitsAreSettledPlaces'
  BY <1>0, <1>3, HitsKept DEF SearchInv
<1>5. QED BY <1>0, <1>4 DEF GroupInv

LEMMA HitsLastByte ==
    ASSUME SearchInv, LastByte
    PROVE  HitsAreSettledPlaces'
<1>0. /\ Base /\ T \in Nat /\ Tleft = Tend - T /\ Tend \in Nat
      /\ pc = "pair" /\ Tleft = 1 /\ pc' = "done"
      /\ UNCHANGED <<ps, text, nfound, hits>>
  BY WindowFacts DEF SearchInv, LastByte
<1>1. ASSUME NEW x \in Expected PROVE Settled(x)' <=> Settled(x)
  <2>1. PICK m \in Nat : m = PatLen(ps, x[1]) /\ m >= 1
    BY <1>0, ExpectedFacts
  <2>2. x[2] \in Nat /\ x[2] + m <= Tend
    BY <1>0, <2>1, ExpectedFacts
  <2>3. x[2] < T \/ (x[2] = T /\ m = 1)
    BY <1>0, <2>1, <2>2
  <2>4. QED BY <1>0, <2>1, <2>3, SettledBefore, SettledAfter
<1>2. QED BY <1>0, <1>1, HitsKept DEF SearchInv

(* A pattern of two bytes or more at T is in the group of its prefix.      *)
LEMMA PlaceInPairGroup ==
    ASSUME Base, T \in Nat, NEW x \in Expected, x[2] = T, PatLen(ps, x[1]) # 1
    PROVE  x[1] \in PairGroup
<1>1. PICK m \in Nat : m = PatLen(ps, x[1]) /\ m >= 1
  BY ExpectedFacts
<1>2. /\ x[1] \in Indices(ps)
      /\ \A j \in 0 .. m - 1 : PatByte(ps, x[1], j) = At(S, T + j)
  BY <1>1, ExpectedFacts
<1>3. 0 \in 0 .. m - 1 /\ 1 \in 0 .. m - 1 /\ m > 1
  BY <1>1
<1>4. PatByte(ps, x[1], 0) = At(S, T + 0) /\ PatByte(ps, x[1], 1) = At(S, T + 1)
  BY <1>2, <1>3
<1>5. T + 0 = T
  OBVIOUS
<1>6. QED BY <1>1, <1>2, <1>3, <1>4, <1>5 DEF PairGroup

LEMMA HitsPrefixHash ==
    ASSUME SearchInv, PrefixHash
    PROVE  HitsAreSettledPlaces' /\ GroupInv'
<1>0. /\ Base /\ T \in Nat /\ Tend \in Nat /\ T + 1 < Tend
      /\ pc = "pair" /\ UNCHANGED <<ps, text, nfound, hits>>
  <2>1. pc = "pair" /\ Tleft # 1 /\ UNCHANGED <<ps, text, nfound, hits>>
    BY DEF PrefixHash
  <2>2. Base /\ T \in Nat /\ B \in Nat /\ T <= B /\ B < Tend /\ Tend \in Nat /\ Tleft = Tend - T
    BY <2>1, WindowFacts DEF SearchInv, TypeOK
  <2>3. QED BY <2>1, <2>2
<1>1. PICK h : h = ps.msHash[<<At(S, T), At(S, T + 1)>>]
  OBVIOUS
<1>2. h \in Indices(ps) \cup {-1} /\ GroupAt(ps, h) = PairGroup
  <2>1. T \in 0 .. Tend - 1 /\ T + 1 \in 0 .. Tend - 1
    BY <1>0
  <2>2. PICK c \in Char, d \in Char : c = At(S, T) /\ d = At(S, T + 1)
    BY <1>0, <2>1, TextFacts DEF Base
  <2>3. \A k \in Indices(ps) :
          <<c, d>> = <<PatByte(ps, k, 0), PatByte(ps, k, 1)>> <=>
            c = PatByte(ps, k, 0) /\ d = PatByte(ps, k, 1)
    OBVIOUS
  <2>4. /\ h \in Indices(ps) \cup {-1}
        /\ GroupAt(ps, h) =
             {k \in Indices(ps) : /\ PatLen(ps, k) > 1
                                  /\ <<c, d>> = <<PatByte(ps, k, 0), PatByte(ps, k, 1)>>}
    BY <1>0, <1>1, <2>2, HashFacts DEF Base
  <2>5. QED BY <2>2, <2>3, <2>4 DEF PairGroup
<1>3. CASE h = -1
  <2>1. pc' = "loop" /\ T' = T + 1
    BY <1>1, <1>3 DEF PrefixHash, Move
  <2>2. PairGroup = {}
    BY <1>2, <1>3 DEF GroupAt
  <2>3. ASSUME NEW x \in Expected PROVE Settled(x)' <=> Settled(x)
    <3>1. x[2] \in Nat /\ (x[2] = T => PatLen(ps, x[1]) = 1)
      BY <1>0, <2>2, PlaceInPairGroup, ExpectedFacts
    <3>2. Settled(x) <=> x[2] < T \/ (x[2] = T /\ PatLen(ps, x[1]) = 1)
      BY <1>0, SettledBefore
    <3>3. Settled(x)' <=> x[2] < T + 1
      BY <1>0, <2>1, SettledAfter
    <3>4. x[2] < T + 1 <=> x[2] < T \/ x[2] = T
      BY <1>0, <3>1
    <3>5. QED BY <3>1, <3>2, <3>3, <3>4
  <2>4. HitsAreSettledPlaces'
    BY <1>0, <2>3, HitsKept DEF SearchInv
  <2>5. QED BY <2>1, <2>4 DEF GroupInv
<1>4. CASE h # -1
  <2>1. pc' = "group" /\ patrn' = h /\ patrnEnd' = h + ps.msNumArray[h] /\ T' = T
    BY <1>1, <1>4 DEF PrefixHash
  <2>2. h \in Nat /\ patrnEnd' \in Nat /\ h <= patrnEnd' /\ PairGroup = h .. patrnEnd' - 1
    <3>1. GroupAt(ps, h) \subseteq Indices(ps)
      BY <1>2 DEF PairGroup
    <3>2. /\ h \in Nat
          /\ \E n \in Nat : n = ps.msNumArray[h] /\ GroupAt(ps, h) = h .. h + n - 1
      BY <1>0, <1>2, <1>4, <3>1, EntryFacts DEF Base
    <3>3. PICK n \in Nat : n = ps.msNumArray[h] /\ GroupAt(ps, h) = h .. h + n - 1
      BY <3>2
    <3>4. patrnEnd' = h + n
      BY <2>1, <3>3
    <3>5. QED BY <1>2, <3>2, <3>3, <3>4
  <2>3. ASSUME NEW x \in Expected PROVE Settled(x)' <=> Settled(x)
    <3>1. x[1] \in Nat
      BY <1>0, ExpectedFacts
    <3>2. x[2] = T /\ PatLen(ps, x[1]) # 1 => ~(x[1] < h)
      <4>1. x[2] = T /\ PatLen(ps, x[1]) # 1 => x[1] \in h .. patrnEnd' - 1
        BY <1>0, <2>2, PlaceInPairGroup
      <4>2. QED BY <2>2, <3>1, <4>1
    <3>3. Settled(x) <=> x[2] < T \/ (x[2] = T /\ PatLen(ps, x[1]) = 1)
      BY <1>0, SettledBefore
    <3>4. Settled(x)' <=> x[2] < T \/ (x[2] = T /\ (PatLen(ps, x[1]) = 1 \/ x[1] < h))
      BY <1>0, <2>1, SettledAfter
    <3>5. QED BY <3>2, <3>3, <3>4
  <2>4. HitsAreSettledPlaces'
    BY <1>0, <2>3, HitsKept DEF SearchInv
  <2>5. PairGroup' = PairGroup /\ Tend' = Tend
    BY <1>0, <2>1 DEF PairGroup, S, Tend
  <2>6. InGroup(PairGroup)'
    BY <2>1, <2>2, <2>5 DEF InGroup
  <2>7. QED BY <1>0, <2>1, <2>4, <2>5, <2>6 DEF GroupInv
<1>5. QED BY <1>3, <1>4

LEMMA HitsGroupMatch ==
    ASSUME SearchInv, GroupMatch
    PROVE  HitsAreSettledPlaces' /\ GroupInv'
<1>0. /\ Base /\ T \in Nat /\ Tend \in Nat /\ T + 1 < Tend /\ ps.msMethod = "MTH_MWM"
      /\ pc = "group" /\ pc' = "group" /\ T' = T /\ patrn' = patrn + 1 /\ patrnEnd' = patrnEnd
      /\ patrn < patrnEnd /\ patrn \in Nat /\ patrnEnd \in Nat
      /\ Tleft = Tend - T /\ UNCHANGED <<ps, text>>
  <2>1. /\ pc = "group" /\ pc' = "group" /\ T' = T /\ patrn' = patrn + 1 /\ patrnEnd' = patrnEnd
        /\ patrn < patrnEnd /\ UNCHANGED <<ps, text>>
    BY DEF GroupMatch
  <2>2. Base /\ T \in Nat /\ Tend \in Nat /\ T + 1 < Tend /\ Tleft = Tend - T
    BY <2>1, WindowFacts DEF SearchInv, GroupInv
  <2>3. ps.msNumPatterns \in Nat
    BY <2>2, GroupFacts DEF Base
  <2>4. patrn \in Nat /\ patrnEnd \in Nat
    BY <2>3 DEF SearchInv, TypeOK
  <2>5. ps.msMethod = "MTH_MWM"
    BY <2>1, <2>2 DEF Base
  <2>6. QED BY <2>1, <2>2, <2>4, <2>5
<1>1. PICK h \in Nat : h <= patrn /\ patrn <= patrnEnd /\ PairGroup = h .. patrnEnd - 1
  BY <1>0 DEF SearchInv, GroupInv, InGroup
<1>2. /\ patrn \in Indices(ps) /\ PatLen(ps, patrn) > 1
      /\ PatByte(ps, patrn, 0) = At(S, T) /\ PatByte(ps, patrn, 1) = At(S, T + 1)
  <2>1. patrn \in PairGroup
    BY <1>0, <1>1
  <2>2. QED BY <2>1 DEF PairGroup
<1>3. PICK m \in Nat : m = PatLen(ps, patrn) /\ m > 1
  BY <1>0, <1>2, PatternFacts DEF Base
<1>4. RestAgrees(patrn) <=> Place(patrn, T)
  <2>1. Tleft >= m <=> T + m <= Tend
    BY <1>0, <1>3
  <2>2. (\A j \in 2 .. m - 1 : PatByte(ps, patrn, j) = At(S, T + j)) <=>
        (\A j \in 0 .. m - 1 : PatByte(ps, patrn, j) = At(S, T + j))
    <3>1. \A j \in 0 .. m - 1 : j = 0 \/ j = 1 \/ j \in 2 .. m - 1
      BY <1>3
    <3>2. 2 .. m - 1 \subseteq 0 .. m - 1 /\ T + 0 = T
      BY <1>0, <1>3
    <3>3. QED BY <1>2, <3>1, <3>2
  <2>3. Place(patrn, T) <=> /\ T + m <= Tend
                            /\ \A j \in 0 .. m - 1 : PatByte(ps, patrn, j) = At(S, T + j)
    BY <1>0, <1>2, <1>3, PlaceFacts
  <2>4. QED BY <1>3, <2>1, <2>2, <2>3 DEF RestAgrees
<1>5. PICK z : z = <<patrn, T>>
  OBVIOUS
<1>6. z \in Expected <=> RestAgrees(patrn) /\ CaseAgrees(patrn, T)
  <2>1. z \in Expected => Place(patrn, T)
    BY <1>0, <1>5, ExpectedFacts
  <2>2. Place(patrn, T) => (z \in Expected <=> CaseAgrees(patrn, T))
    BY <1>0, <1>2, <1>5, PlaceIsExpected
  <2>3. QED BY <1>4, <2>1, <2>2
<1>7. IF z \in Expected THEN nfound' = nfound + 1 /\ hits' = hits \cup {z}
                        ELSE UNCHANGED <<nfound, hits>>
  BY <1>5, <1>6 DEF GroupMatch, Report
<1>8. ~Settled(z)
  BY <1>0, <1>2, <1>5, SettledBefore
<1>9. ASSUME NEW x \in Expected PROVE Settled(x)' <=> Settled(x) \/ x = z
  <2>1. x[1] \in Nat /\ x = <<x[1], x[2]>>
    BY <1>0, ExpectedFacts
  <2>2. x[1] < patrn + 1 <=> x[1] < patrn \/ x[1] = patrn
    BY <1>0, <2>1
  <2>3. x = z <=> x[1] = patrn /\ x[2] = T
    BY <1>5, <2>1
  <2>4. Settled(x)' <=> x[2] < T \/ (x[2] = T /\ (PatLen(ps, x[1]) = 1 \/ x[1] < patrn + 1))
    BY <1>0, SettledAfter
  <2>5. Settled(x) <=> x[2] < T \/ (x[2] = T /\ (PatLen(ps, x[1]) = 1 \/ x[1] < patrn))
    BY <1>0, SettledBefore
  <2>6. QED BY <2>2, <2>3, <2>4, <2>5
<1>10. HitsAreSettledPlaces'
  BY <1>0, <1>7, <1>8, <1>9, HitsTested DEF SearchInv
<1>11. PairGroup' = PairGroup /\ Tend' = Tend
  BY <1>0 DEF PairGroup, S, Tend
<1>12. h <= patrn' /\ patrn' <= patrnEnd'
  BY <1>0, <1>1
<1>13. InGroup(PairGroup)'
  BY <1>0, <1>1, <1>11, <1>12 DEF InGroup
<1>14. QED BY <1>0, <1>10, <1>11, <1>13 DEF GroupInv

LEMMA HitsGroupEnd ==
    ASSUME SearchInv, GroupEnd
    PROVE  HitsAreSettledPlaces'
<1>0. /\ Base /\ T \in Nat /\ pc = "group" /\ pc' = "loop" /\ patrn = patrnEnd /\ T' = T + 1
      /\ UNCHANGED <<ps, text, nfound, hits>>
  BY WindowFacts DEF SearchInv, GroupEnd, Move
<1>1. PICK h \in Nat : PairGroup = h .. patrnEnd - 1
  BY <1>0 DEF SearchInv, GroupInv, InGroup
<1>2. patrnEnd \in Int
  BY DEF SearchInv, TypeOK
<1>3. ASSUME NEW x \in Expected PROVE Settled(x)' <=> Settled(x)
  <2>1. x[1] \in Nat /\ x[2] \in Nat
    BY <1>0, ExpectedFacts
  <2>2. x[2] = T /\ PatLen(ps, x[1]) # 1 => x[1] < patrn
    <3>1. x[2] = T /\ PatLen(ps, x[1]) # 1 => x[1] \in h .. patrnEnd - 1
      BY <1>0, <1>1, PlaceInPairGroup
    <3>2. QED BY <1>0, <1>1, <1>2, <3>1
  <2>3. x[2] < T + 1 <=> x[2] < T \/ x[2] = T
    BY <1>0, <2>1
  <2>4. Settled(x)' <=> x[2] < T + 1
    BY <1>0, SettledAfter
  <2>5. Settled(x) <=> x[2] < T \/ (x[2] = T /\ (PatLen(ps, x[1]) = 1 \/ x[1] < patrn))
    BY <1>0, SettledBefore
  <2>6. QED BY <2>2, <2>3, <2>4, <2>5
<1>4. QED BY <1>0, <1>3, HitsKept DEF SearchInv

-----------------------------------------------------------------------------
(* The same for one Boyer-Moore call per pattern. *)

(* The pattern under test, the byte looked at, and what is settled.        *)
LEMMA ScanFacts ==
    ASSUME SearchInv, pc \in {"scan", "compare", "found"}
    PROVE  /\ Base /\ ps.msMethod = "MTH_BM" /\ patrn \in Indices(ps) /\ patrn \in Nat
           /\ m1 \in Nat /\ PatLen(ps, patrn) = m1 + 1
           /\ t \in Nat /\ m1 <= t /\ Tend \in Nat
           /\ \A q \in 0 .. t - m1 - 1 : ~Place(patrn, q)
<1>1. Base /\ ps.msMethod = "MTH_BM"
  BY DEF SearchInv, Base
<1>2. ps.msNumPatterns \in Nat /\ Tend \in Nat
  BY <1>1, GroupFacts, TextFacts DEF Base
<1>3. patrn \in 0 .. ps.msNumPatterns /\ patrn < ps.msNumPatterns /\ m1 <= t /\ t \in Nat
  BY DEF SearchInv, TypeOK
<1>4. patrn \in Indices(ps) /\ patrn \in Nat
  BY <1>2, <1>3 DEF Indices
<1>5. PICK l \in Nat : l = PatLen(ps, patrn) /\ l >= 1
  BY <1>1, <1>4, PatternFacts DEF Base
<1>6. m1 = l - 1
  BY <1>5 DEF m1
<1>7. \A q \in 0 .. t - m1 - 1 : ~Place(patrn, q)
  BY DEF SearchInv, ScanInv
<1>8. QED BY <1>1, <1>2, <1>3, <1>4, <1>5, <1>6, <1>7

(* The scan goes on with the same pattern: no place before t'.             *)
LEMMA ScanGoesOn ==
    ASSUME SearchInv, pc \in {"scan", "compare"}, pc' \in {"scan", "compare", "found"},
           UNCHANGED <<ps, text, patrn, nfound, hits>>,
           \A q \in 0 .. t' - m1 - 1 : ~Place(patrn, q),
           pc' = "found" => Place(patrn, t' - m1)
    PROVE  ScanInv' /\ HitsAreSettledPlaces'
<1>1. m1' = m1 /\ S' = S /\ ps' = ps /\ patrn' = patrn
  BY DEF m1, S
<1>2. ScanInv'
  BY <1>1 DEF ScanInv, Place, Pattern
<1>3. ASSUME NEW x \in Expected PROVE Settled(x)' <=> Settled(x)
  BY SettledBefore, SettledAfter
<1>4. QED BY <1>2, <1>3, HitsKept DEF SearchInv

(* hbm_match returns a null pointer: the pattern stands nowhere.           *)
LEMMA ScanFails ==
    ASSUME SearchInv, pc \in {"scan", "compare"}, NextPattern,
           UNCHANGED <<ps, text, nfound, hits>>,
           \A q \in Nat : q + m1 < Tend => ~Place(patrn, q)
    PROVE  ScanInv' /\ HitsAreSettledPlaces'
<1>1. ScanInv'
  BY DEF NextPattern, ScanInv
<1>2. ASSUME NEW x \in Expected PROVE Settled(x)' <=> Settled(x)
  <2>1. x[1] \in Nat /\ x[2] \in Nat /\ Place(x[1], x[2])
    BY ScanFacts, ExpectedFacts
  <2>2. x[1] # patrn
    <3>1. SUFFICES ASSUME x[1] = patrn PROVE FALSE
      OBVIOUS
    <3>2. x[2] + PatLen(ps, patrn) <= Tend
      BY <3>1, ScanFacts, ExpectedFacts
    <3>3. x[2] + m1 < Tend
      <4>1. PatLen(ps, patrn) = m1 + 1 /\ m1 \in Nat /\ Tend \in Nat
        BY ScanFacts
      <4>2. QED BY <2>1, <3>2, <4>1
    <3>4. QED BY <2>1, <3>1, <3>3
  <2>3. x[1] < patrn + 1 <=> x[1] < patrn
    <3>1. patrn \in Nat
      BY ScanFacts
    <3>2. QED BY <2>1, <2>2, <3>1
  <2>4. Settled(x)' <=> x[1] < patrn + 1
    BY SettledAfter DEF NextPattern
  <2>5. QED BY <2>3, <2>4, SettledBefore
<1>3. QED BY <1>1, <1>2, HitsKept DEF SearchInv

LEMMA HitsBoyerMoore ==
    ASSUME SearchInv, BoyerMoore
    PROVE  ScanInv' /\ HitsAreSettledPlaces'
<1>1. /\ pc = "bm" /\ pc' = "scan" /\ t' = m1 /\ patrn' = patrn
      /\ UNCHANGED <<ps, text, nfound, hits>>
  BY DEF BoyerMoore
<1>2. m1' = m1
  BY <1>1 DEF m1
<1>3. m1 \in Int
  <2>1. Base /\ patrn \in Indices(ps)
    BY GroupFacts DEF SearchInv, TypeOK, BoyerMoore, Base, Indices
  <2>2. QED BY <2>1, PatternFacts DEF m1, Base
<1>4. 0 .. t' - m1' - 1 = {}
  BY <1>1, <1>2, <1>3
<1>5. ScanInv'
  BY <1>1, <1>4 DEF ScanInv
<1>6. \A x \in Expected : Settled(x)' <=> Settled(x)
  BY <1>1, SettledBefore, SettledAfter
<1>7. QED BY <1>1, <1>5, <1>6, HitsKept DEF SearchInv

LEMMA HitsNotFound ==
    ASSUME SearchInv, NotFound
    PROVE  ScanInv' /\ HitsAreSettledPlaces'
<1>1. pc = "scan" /\ t >= Tend /\ NextPattern /\ UNCHANGED <<ps, text, nfound, hits>>
  BY DEF NotFound
<1>2. \A q \in Nat : q + m1 < Tend => q \in 0 .. t - m1 - 1
  BY <1>1, ScanFacts
<1>3. \A q \in Nat : q + m1 < Tend => ~Place(patrn, q)
  BY <1>1, <1>2, ScanFacts
<1>4. QED BY <1>1, <1>3, ScanFails

LEMMA HitsOneByteScan ==
    ASSUME SearchInv, OneByteScan
    PROVE  ScanInv' /\ HitsAreSettledPlaces'
<1>1. pc = "scan" /\ t < Tend /\ m1 = 0 /\ UNCHANGED <<ps, text, patrn, nfound, hits>>
  BY DEF OneByteScan
<1>2. /\ Base /\ patrn \in Indices(ps) /\ t \in Nat /\ Tend \in Nat /\ PatLen(ps, patrn) = 1
      /\ \A q \in 0 .. t - 1 : ~Place(patrn, q)
  <2>1. t - m1 - 1 = t - 1
    BY <1>1, ScanFacts
  <2>2. QED BY <1>1, <2>1, ScanFacts
<1>3. Place(patrn, t) <=> At(S, t) = PatByte(ps, patrn, 0)
  <2>1. t + 1 <= Tend /\ t + 0 = t /\ 0 .. 1 - 1 = {0}
    BY <1>1, <1>2
  <2>2. QED BY <1>2, <2>1, PlaceFacts
<1>4. CASE Place(patrn, t)
  <2>1. pc' = "found" /\ t' = t
    BY <1>3, <1>4 DEF OneByteScan
  <2>2. t' - m1 - 1 = t - 1 /\ t' - m1 = t
    BY <1>1, <1>2, <2>1
  <2>3. QED BY <1>1, <1>2, <1>4, <2>1, <2>2, ScanGoesOn
<1>5. CASE ~Place(patrn, t)
  <2>1. pc' = "scan" /\ t' = t + 1
    BY <1>3, <1>5 DEF OneByteScan
  <2>2. \A q \in 0 .. t' - m1 - 1 : q \in 0 .. t - 1 \/ q = t
    BY <1>1, <1>2, <2>1
  <2>3. QED BY <1>1, <1>2, <1>5, <2>1, <2>2, ScanGoesOn
<1>6. QED BY <1>4, <1>5

LEMMA HitsScan ==
    ASSUME SearchInv, Scan
    PROVE  ScanInv' /\ HitsAreSettledPlaces'
<1>0. pc = "scan" /\ t < Tend /\ UNCHANGED <<ps, text, nfound, hits>>
  BY DEF Scan
<1>1. /\ Base /\ ps.msMethod = "MTH_BM" /\ patrn \in Indices(ps) /\ m1 \in Nat /\ t \in Nat
      /\ PatLen(ps, patrn) = m1 + 1 /\ m1 <= t /\ Tend \in Nat
      /\ \A q \in 0 .. t - m1 - 1 : ~Place(patrn, q)
  BY <1>0, ScanFacts
<1>2. \A e \in 0 .. Tend - 1 : ps.psBmh[patrn][At(S, e)] \in 0 .. m1 + 1
  BY <1>1, BmhFacts
<1>3. PatLen(ps, patrn) - 1 = m1
  BY <1>1
<1>4. PICK n \in Nat : n = ps.psBmh[patrn][At(S, t)]
  <2>1. t \in 0 .. Tend - 1
    BY <1>0, <1>1
  <2>2. QED BY <1>1, <1>2, <2>1
<1>5. ASSUME NEW q \in Nat, q < t + n - m1 PROVE ~Place(patrn, q)
  <2>1. CASE q < t - m1
    BY <1>1, <2>1
  <2>2. CASE q >= t - m1
    <3>1. Place(patrn, q) => t - m1 + n <= q
      BY <1>0, <1>1, <1>3, <1>4, <2>2, BmhShiftSafe
    <3>2. QED BY <1>1, <1>4, <1>5, <3>1
  <2>3. QED BY <1>1, <2>1, <2>2
<1>6. CASE t + n >= Tend
  <2>1. NextPattern
    BY <1>4, <1>6 DEF Scan
  <2>2. \A q \in Nat : q + m1 < Tend => q < t + n - m1
    BY <1>1, <1>4, <1>6
  <2>3. QED BY <1>0, <1>5, <2>1, <2>2, ScanFails
<1>7. CASE t + n < Tend
  <2>1. PICK e \in Nat : e = t + n
    BY <1>1, <1>4
  <2>2. PICK k \in Nat : k = ps.psBmh[patrn][At(S, e)]
    <3>1. e \in 0 .. Tend - 1
      BY <1>1, <1>7, <2>1
    <3>2. QED BY <1>1, <1>2, <3>1
  <2>3. ~(t + n >= Tend)
    BY <1>1, <1>4, <1>7
  <2>4. /\ t' = e + k
        /\ IF e + k >= Tend THEN NextPattern
           ELSE pc' = (IF k = 0 THEN "compare" ELSE "scan") /\ UNCHANGED patrn
    BY <1>4, <2>1, <2>2, <2>3 DEF Scan
  <2>5. ASSUME NEW q \in Nat, q < e + k - m1 PROVE ~Place(patrn, q)
    <3>1. CASE q < e - m1
      BY <1>1, <1>4, <1>5, <2>1, <3>1
    <3>2. CASE q >= e - m1
      <4>1. m1 <= e /\ e < Tend
        BY <1>1, <1>4, <1>7, <2>1
      <4>2. Place(patrn, q) => e - m1 + k <= q
        BY <1>1, <1>3, <2>2, <3>2, <4>1, BmhShiftSafe
      <4>3. QED BY <1>1, <2>2, <2>5, <4>2
    <3>3. QED BY <1>1, <3>1, <3>2
  <2>6. CASE e + k >= Tend
    <3>1. \A q \in Nat : q + m1 < Tend => q < e + k - m1
      BY <1>1, <2>2, <2>6
    <3>2. QED BY <1>0, <2>4, <2>5, <2>6, <3>1, ScanFails
  <2>7. CASE ~(e + k >= Tend)
    <3>1. pc' \in {"scan", "compare"} /\ UNCHANGED patrn
      BY <2>4, <2>7
    <3>2. \A q \in 0 .. t' - m1 - 1 : q \in Nat /\ q < e + k - m1
      BY <1>1, <2>2, <2>4
    <3>3. QED BY <1>0, <2>5, <3>1, <3>2, ScanGoesOn
  <2>8. QED BY <2>6, <2>7
<1>8. QED BY <1>1, <1>4, <1>6, <1>7

LEMMA HitsCompare ==
    ASSUME SearchInv, Compare
    PROVE  ScanInv' /\ HitsAreSettledPlaces'
<1>0. pc = "compare" /\ UNCHANGED <<ps, text, patrn, nfound, hits>>
  BY DEF Compare
<1>1. /\ Base /\ patrn \in Indices(ps) /\ m1 \in Nat /\ t \in Nat
      /\ PatLen(ps, patrn) = m1 + 1 /\ m1 <= t /\ Tend \in Nat
      /\ \A q \in 0 .. t - m1 - 1 : ~Place(patrn, q)
  BY <1>0, ScanFacts
<1>2. t < Tend
  BY <1>0 DEF SearchInv, TypeOK
<1>3. Place(patrn, t - m1) <=> \A k \in 0 .. m1 : PatByte(ps, patrn, k) = At(S, t - m1 + k)
  <2>1. t - m1 \in Int /\ 0 <= t - m1 /\ t - m1 + (m1 + 1) <= Tend /\ m1 + 1 - 1 = m1
    BY <1>1, <1>2
  <2>2. QED BY <1>1, <2>1, PlaceFacts
<1>4. CASE Place(patrn, t - m1)
  <2>1. pc' = "found" /\ t' = t
    BY <1>3, <1>4 DEF Compare
  <2>2. QED BY <1>0, <1>1, <1>4, <2>1, ScanGoesOn
<1>5. CASE ~Place(patrn, t - m1)
  <2>1. pc' = "scan" /\ t' = t + 1
    BY <1>3, <1>5 DEF Compare
  <2>2. \A q \in 0 .. t' - m1 - 1 : q \in 0 .. t - m1 - 1 \/ q = t - m1
    BY <1>1, <2>1
  <2>3. QED BY <1>0, <1>1, <1>5, <2>1, <2>2, ScanGoesOn
<1>6. QED BY <1>4, <1>5

LEMMA HitsBoyerMooreFound ==
    ASSUME SearchInv, BoyerMooreFound
    PROVE  ScanInv' /\ HitsAreSettledPlaces'
<1>0. pc = "found" /\ pc' = "bm" /\ patrn' = patrn + 1 /\ UNCHANGED <<ps, text>>
  BY DEF BoyerMooreFound, NextPattern
<1>1. /\ Base /\ ps.msMethod = "MTH_BM" /\ patrn \in Indices(ps) /\ patrn \in Nat
      /\ m1 \in Nat /\ t \in Nat /\ m1 <= t
      /\ \A q \in 0 .. t - m1 - 1 : ~Place(patrn, q)
  BY <1>0, ScanFacts
<1>2. Place(patrn, t - m1)
  BY <1>0 DEF SearchInv, ScanInv
<1>3. PICK o \in Nat : o = t - m1
  BY <1>1
<1>4. PICK z : z = <<patrn, o>>
  OBVIOUS
<1>5. z \in Expected <=> CaseAgrees(patrn, o)
  BY <1>1, <1>2, <1>3, <1>4, PlaceIsExpected
<1>6. IF z \in Expected THEN nfound' = nfound + 1 /\ hits' = hits \cup {z}
                        ELSE UNCHANGED <<nfound, hits>>
  BY <1>3, <1>4, <1>5 DEF BoyerMooreFound, Report
<1>7. ~Settled(z)
  BY <1>0, <1>1, <1>4, SettledBefore
<1>8. ASSUME NEW x \in Expected PROVE Settled(x)' <=> Settled(x) \/ x = z
  <2>1. x[1] \in Nat /\ x[2] \in Nat /\ x = <<x[1], x[2]>> /\ Place(x[1], x[2])
    BY <1>1, ExpectedFacts
  <2>2. \A q \in 0 .. x[2] - 1 : ~Place(x[1], q)
    BY <1>1 DEF Expected, FirstPlace, Place
  <2>3. x[1] = patrn => x[2] = o
    <3>1. SUFFICES ASSUME x[1] = patrn, x[2] # o PROVE FALSE
      OBVIOUS
    <3>2. CASE x[2] < o
      BY <1>1, <1>3, <2>1, <3>1, <3>2
    <3>3. CASE o < x[2]
      BY <1>2, <1>3, <2>1, <2>2, <3>1, <3>3
    <3>4. QED BY <1>3, <2>1, <3>1, <3>2, <3>3
  <2>4. x = z <=> x[1] = patrn
    BY <1>4, <2>1, <2>3
  <2>5. x[1] < patrn + 1 <=> x[1] < patrn \/ x[1] = patrn
    BY <1>1, <2>1
  <2>6. QED BY <1>0, <2>4, <2>5, SettledBefore, SettledAfter
<1>9. HitsAreSettledPlaces'
  BY <1>0, <1>1, <1>6, <1>7, <1>8, HitsTested DEF SearchInv
<1>10. QED BY <1>0, <1>9 DEF ScanInv

LEMMA HitsBoyerMooreEnd ==
    ASSUME SearchInv, BoyerMooreEnd
    PROVE  HitsAreSettledPlaces'
<1>1. /\ Base /\ pc = "bm" /\ patrn = ps.msNumPatterns /\ pc' = "done"
      /\ UNCHANGED <<ps, text, nfound, hits>>
  BY DEF SearchInv, BoyerMooreEnd
<1>2. \A x \in Expected : x[1] < patrn
  BY <1>1, ExpectedFacts
<1>3. \A x \in Expected : Settled(x)' <=> Settled(x)
  BY <1>1, <1>2, SettledBefore, SettledAfter
<1>4. QED BY <1>1, <1>3, HitsKept DEF SearchInv

-----------------------------------------------------------------------------
LEMMA InvStep == SearchInv /\ [Next]_vars => SearchInv'
<1> SUFFICES ASSUME SearchInv, [Next]_vars PROVE SearchInv'
  OBVIOUS
<1>1. Base' /\ TypeOK'
  BY BaseStep, TypeStep DEF SearchInv
<1>2. GroupInv' /\ ScanInv' /\ HitsAreSettledPlaces'
  <2>1. CASE StartBoyerMoore \/ TooShort \/ StartWindow
    BY <2>1, HitsStart DEF StartBoyerMoore, TooShort, StartWindow, GroupInv, ScanInv
  <2>2. CASE Leave
    BY <2>2, HitsLeave DEF Leave, GroupInv, ScanInv
  <2>3. CASE OneByteHash
    BY <2>3, HitsOneByteHash DEF OneByteHash, ScanInv
  <2>4. CASE OneByteMatch
    BY <2>4, HitsOneByteMatch DEF OneByteMatch, ScanInv
  <2>5. CASE OneByteEnd
    BY <2>5, HitsOneByteEnd DEF OneByteEnd, ScanInv
  <2>6. CASE BadCharShift
    <3>1. pc' \in {"pair", "done", "loop"}
      BY <2>6 DEF BadCharShift
    <3>2. QED BY <2>6, <3>1, HitsBadChar DEF GroupInv, ScanInv
  <2>7. CASE BadWordShift
    <3>1. pc' \in {"pair", "done", "loop"}
      BY <2>7 DEF BadWordShift
    <3>2. QED BY <2>7, <3>1, HitsBadWord DEF GroupInv, ScanInv
  <2>8. CASE LastByte
    BY <2>8, HitsLastByte DEF LastByte, GroupInv, ScanInv
  <2>9. CASE PrefixHash
    BY <2>9, HitsPrefixHash DEF PrefixHash, ScanInv
  <2>10. CASE GroupMatch
    BY <2>10, HitsGroupMatch DEF GroupMatch, ScanInv
  <2>11. CASE GroupEnd
    BY <2>11, HitsGroupEnd DEF GroupEnd, GroupInv, ScanInv
  <2>12. CASE BoyerMoore
    BY <2>12, HitsBoyerMoore DEF BoyerMoore, GroupInv
  <2>13. CASE NotFound
    BY <2>13, HitsNotFound DEF NotFound, NextPattern, GroupInv
  <2>14. CASE OneByteScan
    <3>1. pc' \in {"found", "scan"}
      BY <2>14 DEF OneByteScan
    <3>2. QED BY <2>14, <3>1, HitsOneByteScan DEF GroupInv
  <2>15. CASE Scan
    <3>1. pc' \in {"bm", "scan", "compare"}
      BY <2>15 DEF Scan, NextPattern
    <3>2. QED BY <2>15, <3>1, HitsScan DEF GroupInv
  <2>16. CASE Compare
    <3>1. pc' \in {"found", "scan"}
      BY <2>16 DEF Compare
    <3>2. QED BY <2>16, <3>1, HitsCompare DEF GroupInv
  <2>17. CASE BoyerMooreFound
    BY <2>17, HitsBoyerMooreFound DEF BoyerMooreFound, NextPattern, GroupInv
  <2>18. CASE BoyerMooreEnd
    BY <2>18, HitsBoyerMooreEnd DEF BoyerMooreEnd, GroupInv, ScanInv
  <2>19. CASE UNCHANGED vars
    <3>1. GroupInv' /\ ScanInv'
      BY <2>19 DEF vars, SearchInv, GroupInv, ScanInv, InGroup, OneByteGroup, PairGroup, Place,
                    Pattern, S, Tend, m1
    <3>2. \A x \in Expected : Settled(x)' <=> Settled(x)
      BY <2>19 DEF vars, Settled
    <3>3. QED BY <2>19, <3>1, <3>2, HitsKept DEF vars, SearchInv
  <2>20. QED
    BY <2>1, <2>2, <2>3, <2>4, <2>5, <2>6, <2>7, <2>8, <2>9, <2>10, <2>11, <2>12, <2>13,
       <2>14, <2>15, <2>16, <2>17, <2>18, <2>19 DEF Next, Done
<1>3. QED BY <1>1, <1>2 DEF SearchInv

-----------------------------------------------------------------------------
(* The theorems. *)

(* Every variable of mwmSearch keeps its type; T, B and Tleft move         *)
(* together, and neither the window nor hbm_match looks behind the text.   *)
THEOREM TypeCorrect == Spec => []TypeOK
<1>1. Init => Base /\ TypeOK
  BY BaseInit, TypeInit
<1>2. Base /\ TypeOK /\ [Next]_vars => (Base /\ TypeOK)'
  BY BaseStep, TypeStep
<1>3. QED BY <1>1, <1>2, PTL DEF Spec

(* The inductive invariant of mwmSearch: the types, the group of patterns  *)
(* under test, what hbm_match has ruled out, and the settled places.       *)
THEOREM SearchInvariant == Spec => []SearchInv
<1>1. QED BY InvInit, InvStep, PTL DEF Spec

(* For every group the preparation may deliver and every text: at every    *)
(* moment mwmSearch has counted exactly the places of patterns it has      *)
(* passed, each once; no shift and no hash leaves out a place.             *)
THEOREM HitsCorrect == Spec => []HitsAreSettledPlaces
<1>1. SearchInv => HitsAreSettledPlaces
  BY DEF SearchInv
<1>2. QED BY <1>1, SearchInvariant, PTL

-----------------------------------------------------------------------------
(* Refinement. *)

LEMMA HitsFinite == SearchInv => IsFiniteSet(hits) /\ hits \subseteq Expected
<1> SUFFICES ASSUME SearchInv PROVE IsFiniteSet(hits) /\ hits \subseteq Expected
  OBVIOUS
<1>1. hits \subseteq Expected
  BY DEF SearchInv, HitsAreSettledPlaces
<1>2. QED BY <1>1, ExpectedFinite, FS_Subset DEF SearchInv

(* hits grows by the step.                                                 *)
LEMMA StepReports ==
    ASSUME SearchInv, SearchInv', pc # "done", pc' # "done", UNCHANGED <<ps, text>>,
           hits \subseteq hits'
    PROVE  Matcher!Report
<1>1. Expected' = Expected
  BY DEF Expected, StandsAt, FirstPlace, CaseAgrees, Pattern, S, Tend
<1>2. IsFiniteSet(hits) /\ hits' \subseteq Expected
  BY <1>1, HitsFinite DEF SearchInv, HitsAreSettledPlaces
<1>3. IsFiniteSet(hits')
  BY <1>2, ExpectedFinite, FS_Subset DEF SearchInv
<1>4. nfound = Cardinality(hits) /\ nfound' = Cardinality(hits')
  BY DEF SearchInv, HitsAreSettledPlaces
<1>5. Cardinality(hits' \ hits) = Cardinality(hits') - Cardinality(hits)
  <2>1. Cardinality(hits' \ hits) = Cardinality(hits') - Cardinality(hits' \cap hits)
    BY <1>3, FS_Difference
  <2>2. hits' \cap hits = hits
    OBVIOUS
  <2>3. QED BY <2>1, <2>2
<1>6. Cardinality(hits) \in Nat /\ Cardinality(hits') \in Nat
  BY <1>2, <1>3, FS_CardinalityType
<1>7. nfound' = nfound + Cardinality(hits' \ hits)
  BY <1>4, <1>5, <1>6
<1>8. Matcher!Cardinality(hits' \ hits) = Cardinality(hits' \ hits)
  BY Zenon DEF Cardinality, Matcher!Cardinality
<1>9. QED BY <1>1, <1>2, <1>7, <1>8 DEF Matcher!Report

(* The step that ends the search: all is settled, so that hits is Expected. *)
LEMMA StepFinishes ==
    ASSUME SearchInv, SearchInv', pc' = "done", UNCHANGED <<ps, text, nfound, hits>>
    PROVE  Matcher!Finish
<1>1. Expected' = Expected
  BY DEF Expected, StandsAt, FirstPlace, CaseAgrees, Pattern, S, Tend
<1>2. \A x \in Expected' : Settled(x)'
  BY SettledAfter
<1>3. hits' = Expected'
  BY <1>2 DEF SearchInv, HitsAreSettledPlaces
<1>4. QED BY <1>1, <1>3 DEF Matcher!Finish

LEMMA RefinementInit == Init => Matcher!Init
<1> SUFFICES ASSUME Init PROVE Matcher!Init
  OBVIOUS
<1>1. IsFiniteSet(Expected)
  BY BaseInit, ExpectedFinite
<1>2. Matcher!IsFiniteSet(Expected)
  BY <1>1, Zenon DEF IsFiniteSet, Matcher!IsFiniteSet
<1>3. QED BY <1>2 DEF Init, Matcher!Init

LEMMA RefinementStep ==
    SearchInv /\ SearchInv' /\ [Next]_vars => [Matcher!Next]_(Matcher!matcherVars)
<1> SUFFICES ASSUME SearchInv, SearchInv', [Next]_vars
             PROVE  [Matcher!Next]_(Matcher!matcherVars)
  OBVIOUS
<1>1. CASE UNCHANGED vars
  <2>1. Expected' = Expected
    BY <1>1 DEF vars, Expected, StandsAt, FirstPlace, CaseAgrees, Pattern, S, Tend
  <2>2. QED BY <1>1, <2>1 DEF vars, Matcher!matcherVars
<1>2. CASE Next /\ ~UNCHANGED vars
  <2>1. pc # "done" /\ UNCHANGED <<ps, text>>
    BY <1>2 DEF Next, Done, StartBoyerMoore, TooShort, StartWindow, Leave, OneByteHash,
                OneByteMatch, OneByteEnd, BadCharShift, BadWordShift, LastByte, PrefixHash,
                GroupMatch, GroupEnd, BoyerMoore, NotFound, OneByteScan, Scan, Compare,
                BoyerMooreFound, BoyerMooreEnd
  <2>2. OneByteMatch \/ GroupMatch \/ BoyerMooreFound \/ UNCHANGED <<nfound, hits>>
    BY <1>2 DEF Next, Done, StartBoyerMoore, TooShort, StartWindow, Leave, OneByteHash,
                OneByteEnd, BadCharShift, BadWordShift, LastByte, PrefixHash, GroupEnd,
                BoyerMoore, NotFound, OneByteScan, Scan, Compare, BoyerMooreEnd
  <2>3. hits \subseteq hits'
    BY <2>2 DEF OneByteMatch, GroupMatch, BoyerMooreFound, Report
  <2>4. CASE pc' # "done"
    BY <2>1, <2>3, <2>4, StepReports DEF Matcher!Next
  <2>5. CASE pc' = "done"
    <3>1. UNCHANGED <<nfound, hits>>
      BY <2>1, <2>2, <2>5 DEF OneByteMatch, GroupMatch, BoyerMooreFound, NextPattern
    <3>2. QED BY <2>1, <2>5, <3>1, StepFinishes DEF Matcher!Next
  <2>6. QED BY <2>4, <2>5
<1>3. QED BY <1>1, <1>2

(* mwmSearch implements the abstract matcher: every increment of nfound    *)
(* reports a place that is there and has not been reported before, and the *)
(* search ends only when all have been.                                    *)
THEOREM SearchRefinesMatcher == Spec => MatcherSpec
<1>1. QED BY RefinementInit, RefinementStep, SearchInvariant, PTL
          DEF Spec, MatcherSpec, Matcher!Spec

=============================================================================

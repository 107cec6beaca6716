------------------------- MODULE MCWuManberSearch -------------------------
(* Finite instances of WuManberSearch: groups written down by definition   *)
(* instead of being prepared, and every text up to a length.  The bytes    *)
(* are 1 (a letter), 0 (its upper case), 2 (no letter), and 3, which is in *)
(* no pattern.                                                             *)
EXTENDS WuManberSearch

MCChar == 0 .. 3

MCUpper == [c \in MCChar |-> IF c = 1 THEN 0 ELSE c]

Words(chars, lengths) == UNION {[1 .. k -> chars] : k \in lengths}

Least(X) == CHOOSE x \in X : \A y \in X : x <= y

(* The group of the sorted list, with shifts of at most maxShift bytes.    *)
GroupOf(list, noCase, method, large, maxShift) ==
    LET n        == Len(list)
        idx      == 0 .. n - 1
        upper    == [k \in idx |-> [j \in DOMAIN list[k + 1] |-> MCUpper[list[k + 1][j]]]]
        len(k)   == Len(upper[k])
        m        == Least({maxShift} \cup {len(k) : k \in idx})
        alike(k) == {l \in idx :
                        IF len(k) = 1 THEN upper[l] = upper[k]
                        ELSE len(l) > 1 /\ SubSeq(upper[l], 1, 2) = SubSeq(upper[k], 1, 2)}
    IN  [msNumPatterns |-> n,
         msPatArray    |-> [k \in idx |-> [psPat |-> upper[k], psPatCase |-> list[k + 1],
                                           psNoCase |-> noCase, psIID |-> k]],
         msNumArray    |-> [k \in idx |-> IF k = Least(alike(k)) THEN Cardinality(alike(k)) ELSE 0],
         msHash        |-> [w \in MCChar \X MCChar |->
                              Least({n} \cup {k \in idx : len(k) > 1 /\ SubSeq(upper[k], 1, 2) = w})],
         msHash1       |-> [c \in MCChar |-> Least({n} \cup {k \in idx : upper[k] = <<c>>})],
         msShiftLen    |-> m,
         msShift       |-> [c \in MCChar |->
                              Least({m} \cup {m - j : j \in {j \in 1 .. m :
                                        \E k \in idx : upper[k][j] = c}})],
         msShift2      |-> [w \in MCChar \X MCChar |->
                              Least({m - 1} \cup {m - 1 - j : j \in {j \in 1 .. m - 1 :
                                        \E k \in idx : SubSeq(upper[k], j, j + 1) = w}})],
         msMethod      |-> method,
         psBmh         |-> [k \in idx |-> [c \in MCChar |->
                              Least({len(k)} \cup {len(k) - j : j \in {j \in 1 .. len(k) :
                                        upper[k][j] = c}})]],
         search        |-> IF m = 1 THEN "NoBC" ELSE IF large THEN "BW" ELSE "BC"]

(* -1 for an empty entry. *)
Prepared(g) ==
    LET n == g.msNumPatterns
        entry(h) == IF h = n THEN -1 ELSE h
    IN  [g EXCEPT !.msHash  = [w \in DOMAIN @ |-> entry(@[w])],
                  !.msHash1 = [c \in DOMAIN @ |-> entry(@[c])]]

Tables(list, noCase, large, maxShift) == Prepared(GroupOf(list, noCase, "MTH_MWM", large, maxShift))

(* Duplicates, patterns equal in capitals only, prefixes of one another,   *)
(* overlapping occurrences; with and without patterns of one byte; a       *)
(* shortest pattern of two, three and four bytes.  In the last three some  *)
(* byte never ends a window, so that the window can be moved.              *)
WithOneByte == << <<0>>, <<1>>, <<0,1,2>>, <<1,2>>, <<2>>, <<2,0>> >>

Long2 == << <<1,0>>, <<0,0,2>>, <<2,0>>, <<2,0>>, <<2,1,2,0>> >>

Long3 == << <<0,1,2>>, <<0,0,2>>, <<1,2,2>>, <<2,0,2,2>>, <<2,2,2>> >>

Long4 == << <<0,0,0,1>>, <<2,0,0,0>>, <<2,1,0,0>>, <<2,0,0,0,0>>, <<2,0,1,0,2>> >>

MCTables ==
    {Tables(WithOneByte, b, FALSE, 255) : b \in {0, 1}} \cup
    {Tables(f, b, large, 255) : f \in {Long2, Long3, Long4}, b \in {0, 1}, large \in BOOLEAN} \cup
    {Tables(Long4, 0, large, 3) : large \in BOOLEAN}

Few == {<< >>, << <<1>>, <<2>> >>, << <<0,1>>, <<0,2,0>>, <<2,0>> >>, << <<1,2>>, <<0,2>> >>,
        << <<0,0,1,2>>, <<2,0,0>> >>}

MCFew == {Prepared(GroupOf(f, b, "MTH_BM", FALSE, 255)) : f \in Few, b \in {0, 1}}

MCGroups == MCTables \cup MCFew

MCTexts == Words(0 .. 2, 0 .. 4) \cup Words({0, 2, 3}, 5 .. 5) \cup Words({0, 2}, 6 .. 7)

=============================================================================

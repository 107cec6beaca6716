------------------------- MODULE AhoCorasick_proofs -------------------------
(***************************************************************************)
(* The construction of the automaton, proved for every alphabet, mode and  *)
(* pattern file: what acsmCompile2 delivers is what the searches assume.   *)
(*                                                                         *)
(* The argument follows the loops.  AddPatternStates keeps a trie whose    *)
(* states spell distinct strings, closed under prefixes (Labels), in the   *)
(* transition lists (TrieEntry).  Build_NFA works through it breadth       *)
(* first: the queue is sorted by depth (Ordered) and what lies below a     *)
(* queued state, or below r by a char still to come, waits (WaitsInNfa);   *)
(* everything else has its final failure link and match list (Settled).    *)
(* Convert_NFA_To_DFA goes the same way through the rows: those that wait  *)
(* (WaitsInDfa) are still the trie's, all others are the automaton's       *)
(* (FinalEntry).  When a queue is empty nothing waits.                     *)
(***************************************************************************)
EXTENDS AhoCorasick, SubPattern_proofs, FiniteSetTheorems

-----------------------------------------------------------------------------
(* Strings.                                                                *)

LEMMA SameString ==
    ASSUME NEW C, NEW u \in Seq(C), NEW v \in Seq(C), Len(u) = Len(v),
           \A k \in 1 .. Len(u) : u[k] = v[k]
    PROVE  u = v
<1>1. DOMAIN u = 1 .. Len(u) /\ DOMAIN v = 1 .. Len(v)
  OBVIOUS
<1>2. u = [k \in 1 .. Len(u) |-> u[k]] /\ v = [k \in 1 .. Len(v) |-> v[k]]
  BY <1>1
<1>3. QED BY <1>2

LEMMA SuffixOfEqualLength ==
    ASSUME NEW C, NEW u \in Seq(C), NEW v \in Seq(C), EndsWith(u, v), Len(u) = Len(v)
    PROVE  u = v
<1>1. \A k \in 1 .. Len(u) : u[k] = v[k]
  BY DEF EndsWith
<1>2. QED BY <1>1, SameString

LEMMA SuffixOfSuffix ==
    ASSUME NEW C, NEW u \in Seq(C), NEW v \in Seq(C), NEW w \in Seq(C), EndsWith(u, v)
    PROVE  /\ EndsWith(v, w) => EndsWith(u, w)
           /\ EndsWith(u, w) /\ Len(w) <= Len(v) => EndsWith(v, w)
<1>1. Len(u) \in Nat /\ Len(v) \in Nat /\ Len(w) \in Nat
  OBVIOUS
<1>2. ASSUME Len(w) <= Len(v), NEW k \in 1 .. Len(w)
      PROVE  v[Len(v) - Len(w) + k] = u[Len(u) - Len(w) + k]
  <2>1. Len(v) - Len(w) + k \in 1 .. Len(v)
    BY <1>1, <1>2
  <2>2. Len(u) - Len(v) + (Len(v) - Len(w) + k) = Len(u) - Len(w) + k
    BY <1>1
  <2>3. QED BY <2>1, <2>2 DEF EndsWith
<1>3. QED BY <1>1, <1>2 DEF EndsWith

LEMMA EveryStringEndsWith ==
    ASSUME NEW C, NEW u \in Seq(C)
    PROVE  EndsWith(u, u) /\ EndsWith(u, << >>)
  BY DEF EndsWith

LEMMA AppendFacts ==
    ASSUME NEW C, NEW u \in Seq(C), NEW c \in C
    PROVE  /\ Append(u, c) \in Seq(C)
           /\ Len(Append(u, c)) = Len(u) + 1 /\ Len(u) \in Nat
           /\ \A k \in 1 .. Len(u) : Append(u, c)[k] = u[k]
           /\ Append(u, c)[Len(u) + 1] = c
  OBVIOUS

LEMMA SuffixOfAppend ==
    ASSUME NEW C, NEW u \in Seq(C), NEW v \in Seq(C), NEW c \in C, NEW d \in C
    PROVE  EndsWith(Append(u, c), Append(v, d)) <=> c = d /\ EndsWith(u, v)
<1> DEFINE uc == Append(u, c)
           vd == Append(v, d)
<1>1. /\ Len(uc) = Len(u) + 1 /\ Len(vd) = Len(v) + 1
      /\ \A k \in 1 .. Len(u) : uc[k] = u[k]
      /\ \A k \in 1 .. Len(v) : vd[k] = v[k]
      /\ uc[Len(u) + 1] = c /\ vd[Len(v) + 1] = d
      /\ Len(u) \in Nat /\ Len(v) \in Nat
  BY AppendFacts
<1> HIDE DEF uc, vd
<1>2. ASSUME EndsWith(uc, vd) PROVE c = d /\ EndsWith(u, v)
  <2>1. Len(v) <= Len(u)
    BY <1>1, <1>2 DEF EndsWith
  <2>2. ASSUME NEW k \in 1 .. Len(v) + 1 PROVE vd[k] = uc[Len(u) - Len(v) + k]
    <3>1. Len(uc) - Len(vd) + k = Len(u) - Len(v) + k
      BY <1>1
    <3>2. vd[k] = uc[Len(uc) - Len(vd) + k]
      BY <1>1, <1>2 DEF EndsWith
    <3>3. QED BY <3>1, <3>2
  <2>3. c = d
    BY <1>1, <2>1, <2>2
  <2>4. ASSUME NEW k \in 1 .. Len(v) PROVE v[k] = u[Len(u) - Len(v) + k]
    <3>1. Len(u) - Len(v) + k \in 1 .. Len(u) /\ k \in 1 .. Len(v) + 1
      BY <1>1, <2>1
    <3>2. vd[k] = uc[Len(u) - Len(v) + k]
      BY <2>2, <3>1
    <3>3. uc[Len(u) - Len(v) + k] = u[Len(u) - Len(v) + k]
      BY <1>1, <3>1
    <3>4. vd[k] = v[k]
      BY <1>1
    <3>5. QED BY <3>2, <3>3, <3>4
  <2>5. QED BY <2>1, <2>3, <2>4 DEF EndsWith
<1>3. ASSUME c = d, EndsWith(u, v) PROVE EndsWith(uc, vd)
  <2>1. Len(v) <= Len(u)
    BY <1>3 DEF EndsWith
  <2>2. ASSUME NEW k \in 1 .. Len(v) + 1 PROVE vd[k] = uc[Len(u) - Len(v) + k]
    <3>1. CASE k = Len(v) + 1
      BY <1>1, <1>3, <2>1, <3>1
    <3>2. CASE k \in 1 .. Len(v)
      <4>1. Len(u) - Len(v) + k \in 1 .. Len(u)
        BY <1>1, <2>1, <3>2
      <4>2. QED BY <1>1, <1>3, <3>2, <4>1 DEF EndsWith
    <3>3. QED BY <1>1, <3>1, <3>2
  <2>3. QED BY <1>1, <2>1, <2>2 DEF EndsWith
<1>4. QED BY <1>2, <1>3 DEF uc, vd

LEMMA AppendInjects ==
    ASSUME NEW C, NEW u \in Seq(C), NEW v \in Seq(C), NEW c \in C, NEW d \in C,
           Append(u, c) = Append(v, d)
    PROVE  u = v /\ c = d
<1>1. Len(u) = Len(v) /\ \A k \in 1 .. Len(u) : u[k] = v[k]
  BY AppendFacts
<1>2. u = v
  BY <1>1, SameString
<1>3. QED BY <1>2, AppendFacts

(* u is a prefix of v. *)
IsFront(u, v) == Len(u) <= Len(v) /\ \A k \in 1 .. Len(u) : u[k] = v[k]

LEMMA FrontAppended ==
    ASSUME NEW C, NEW u \in Seq(C), NEW v \in Seq(C), IsFront(u, v), Len(u) = Len(v) - 1
    PROVE  v[Len(v)] \in C /\ v = Append(u, v[Len(v)])
<1>1. Len(v) \in 1 .. Len(v)
  BY DEF IsFront
<1>2. v[Len(v)] \in C
  BY <1>1
<1>3. \A k \in 1 .. Len(v) : v[k] = Append(u, v[Len(v)])[k]
  BY <1>2, AppendFacts DEF IsFront
<1>4. QED BY <1>2, <1>3, AppendFacts, SameString

LEMMA FrontTransitive ==
    ASSUME NEW C, NEW u \in Seq(C), NEW v \in Seq(C), NEW w \in Seq(C)
    PROVE  /\ IsFront(u, v) /\ IsFront(v, w) => IsFront(u, w)
           /\ IsFront(u, w) /\ IsFront(v, w) /\ Len(u) <= Len(v) => IsFront(u, v)
           /\ IsFront(u, v) /\ Len(u) = Len(v) => u = v
<1>1. Len(u) \in Nat /\ Len(v) \in Nat /\ Len(w) \in Nat
  OBVIOUS
<1>2. IsFront(u, v) /\ Len(u) = Len(v) => u = v
  BY SameString DEF IsFront
<1>3. QED BY <1>1, <1>2 DEF IsFront

-----------------------------------------------------------------------------
(* Numbers: a set that holds 0, and with each number below m the next one, *)
(* holds all numbers up to m; and functions defined by recursion exist.    *)

LEMMA UpTo ==
    ASSUME NEW m \in Nat, NEW S, 0 \in S, \A k \in 0 .. m - 1 : k \in S => k + 1 \in S
    PROVE  \A k \in 0 .. m : k \in S
<1> DEFINE R == OpToRel(<, Nat)
           D == {k \in 0 .. m : k \notin S}
<1>1. SUFFICES ASSUME D # {} PROVE FALSE
  BY DEF D
<1>2. D \subseteq Nat
  BY DEF D
<1>3. PICK d \in D : \A k \in D : ~(<<k, d>> \in R)
  <2> HIDE DEF D, R
  <2>1. IsWellFoundedOn(R, Nat)
    BY NatLessThanWellFounded DEF R
  <2>2. QED BY <1>1, <1>2, <2>1, WFMin
<1>4. \A k \in D : ~(k < d)
  BY <1>2, <1>3 DEF OpToRel
<1>5. d \in 1 .. m /\ d \notin S
  <2>1. d \in 0 .. m /\ d \notin S
    BY DEF D
  <2>2. QED BY <2>1
<1>6. d - 1 \in 0 .. m - 1 /\ (d - 1) + 1 = d
  BY <1>5
<1>7. d - 1 \notin S
  BY <1>5, <1>6
<1>8. d - 1 \in D /\ d - 1 < d
  BY <1>5, <1>6, <1>7 DEF D
<1>9. QED BY <1>4, <1>8

(* step gives, at k, the next value for each value in V. *)
IsRecursive(f, V, m, base, step) ==
    f \in [0 .. m -> V] /\ f[0] = base /\ \A k \in 1 .. m : f[k] = step[k][f[k - 1]]

LEMMA RecursiveFunction ==
    ASSUME NEW m \in Nat, NEW V, NEW base \in V, NEW step \in [1 .. m -> [V -> V]]
    PROVE  \E f : IsRecursive(f, V, m, base, step)
<1> DEFINE S == {k \in 0 .. m : \E f : IsRecursive(f, V, k, base, step)}
<1>1. 0 \in S
  <2>1. IsRecursive([k \in 0 .. 0 |-> base], V, 0, base, step)
    BY DEF IsRecursive
  <2>2. QED BY <2>1 DEF S
<1>2. ASSUME NEW l \in 0 .. m - 1, l \in S PROVE l + 1 \in S
  <2>1. PICK f : IsRecursive(f, V, l, base, step)
    BY <1>2 DEF S
  <2> DEFINE g == [k \in 0 .. l + 1 |-> IF k <= l THEN f[k] ELSE step[l + 1][f[l]]]
  <2>2. f[l] \in V /\ step[l + 1] \in [V -> V]
    BY <2>1 DEF IsRecursive
  <2>3. step[l + 1][f[l]] \in V
    BY <2>2
  <2>4. g \in [0 .. l + 1 -> V]
    BY <2>1, <2>3 DEF IsRecursive
  <2>5. g[0] = base
    BY <2>1 DEF IsRecursive
  <2>6. ASSUME NEW k \in 1 .. l + 1 PROVE g[k] = step[k][g[k - 1]]
    <3>1. CASE k = l + 1
      <4>1. g[k] = step[l + 1][f[l]] /\ g[k - 1] = f[l]
        BY <3>1
      <4>2. QED BY <3>1, <4>1
    <3>2. CASE k \in 1 .. l
      <4>1. g[k] = f[k] /\ g[k - 1] = f[k - 1]
        BY <3>2
      <4>2. QED BY <2>1, <3>2, <4>1 DEF IsRecursive
    <3>3. QED BY <3>1, <3>2
  <2>7. IsRecursive(g, V, l + 1, base, step)
    <3> HIDE DEF g
    <3> QED BY <2>4, <2>5, <2>6 DEF IsRecursive
  <2>8. QED BY <2>7 DEF S
<1>3. m \in S
  <2> HIDE DEF S
  <2>1. \A k \in 0 .. m - 1 : k \in S => k + 1 \in S
    BY <1>2
  <2>2. \A k \in 0 .. m : k \in S
    BY <1>1, <2>1, UpTo
  <2>3. QED BY <2>2
<1>4. QED BY <1>3 DEF S
-----------------------------------------------------------------------------
(* The trie, by the strings of its states.                                 *)

(* lab gives each of the states 0 .. last a string of its own, and every   *)
(* prefix of a state's string has a state.                                 *)
Labels(lab, last) ==
    /\ last \in Nat
    /\ lab \in [0 .. last -> Seq(Char)]
    /\ lab[0] = << >>
    /\ \A s, t \in 0 .. last : lab[s] = lab[t] => s = t
    /\ \A s \in 0 .. last : \A k \in 0 .. Len(lab[s]) :
        \E t \in 0 .. last : Len(lab[t]) = k /\ IsFront(lab[t], lab[s])

(* The edge from s to t carries c. *)
Child(lab, s, c, t) == lab[t] = Append(lab[s], c)

(* x lies on the path to s. *)
AtOrBelow(lab, x, s) == IsFront(lab[x], lab[s])

Below(lab, x, s) == Len(lab[x]) < Len(lab[s]) /\ IsFront(lab[x], lab[s])

LEMMA LabelFacts ==
    ASSUME NEW lab, NEW last, Labels(lab, last), NEW s \in 0 .. last
    PROVE  /\ lab[s] \in Seq(Char) /\ Len(lab[s]) \in Nat
           /\ Len(lab[s]) = 0 <=> s = 0
           /\ 0 \in 0 .. last /\ last \in Nat /\ DOMAIN lab = 0 .. last
<1>1. lab[s] \in Seq(Char) /\ Len(lab[s]) \in Nat /\ DOMAIN lab = 0 .. last
  BY DEF Labels
<1>2. 0 \in 0 .. last /\ last \in Nat
  BY DEF Labels
<1>3. Len(lab[s]) = 0 => lab[s] = << >>
  BY <1>1
<1>4. Len(<< >>) = 0
  OBVIOUS
<1>5. QED BY <1>1, <1>2, <1>3, <1>4 DEF Labels

LEMMA ChildFacts ==
    ASSUME NEW lab, NEW last, Labels(lab, last),
           NEW s \in 0 .. last, NEW t \in 0 .. last, NEW c \in Char, Child(lab, s, c, t)
    PROVE  /\ t # 0 /\ t # s
           /\ Len(lab[t]) = Len(lab[s]) + 1
           /\ lab[t][Len(lab[s]) + 1] = c
           /\ IsFront(lab[s], lab[t])
<1>1. lab[s] \in Seq(Char) /\ Len(lab[s]) \in Nat
  BY LabelFacts
<1>2. /\ Len(lab[t]) = Len(lab[s]) + 1
      /\ \A k \in 1 .. Len(lab[s]) : lab[t][k] = lab[s][k]
      /\ lab[t][Len(lab[s]) + 1] = c
  BY <1>1, AppendFacts DEF Child
<1>3. Len(lab[0]) = 0
  BY LabelFacts
<1>4. QED BY <1>1, <1>2, <1>3 DEF IsFront

LEMMA ChildUnique ==
    ASSUME NEW lab, NEW last, Labels(lab, last),
           NEW s \in 0 .. last, NEW t \in 0 .. last, NEW c \in Char, Child(lab, s, c, t),
           NEW s2 \in 0 .. last, NEW t2 \in 0 .. last, NEW c2 \in Char, Child(lab, s2, c2, t2)
    PROVE  /\ s = s2 /\ c = c2 => t = t2
           /\ t = t2 => s = s2 /\ c = c2
<1>1. s = s2 /\ c = c2 => t = t2
  BY DEF Child, Labels
<1>2. ASSUME t = t2 PROVE s = s2 /\ c = c2
  <2>1. lab[s] \in Seq(Char) /\ lab[s2] \in Seq(Char)
    BY LabelFacts
  <2>2. Append(lab[s], c) = Append(lab[s2], c2)
    BY <1>2 DEF Child
  <2>3. lab[s] = lab[s2] /\ c = c2
    <3> DEFINE u == lab[s]
               v == lab[s2]
    <3>1. u \in Seq(Char) /\ v \in Seq(Char) /\ Append(u, c) = Append(v, c2)
      BY <2>1, <2>2
    <3> HIDE DEF u, v
    <3>2. u = v /\ c = c2
      BY <3>1, AppendInjects
    <3>3. QED BY <3>2 DEF u, v
  <2>4. QED BY <2>3 DEF Labels
<1>3. QED BY <1>1, <1>2

LEMMA HasParent ==
    ASSUME NEW lab, NEW last, Labels(lab, last), NEW t \in 0 .. last, t # 0
    PROVE  \E s \in 0 .. last, c \in Char : Child(lab, s, c, t)
<1>1. lab[t] \in Seq(Char) /\ Len(lab[t]) \in Nat \ {0}
  BY LabelFacts
<1>2. Len(lab[t]) - 1 \in 0 .. Len(lab[t])
  BY <1>1
<1>3. PICK s \in 0 .. last : Len(lab[s]) = Len(lab[t]) - 1 /\ IsFront(lab[s], lab[t])
  BY <1>2 DEF Labels
<1>4. lab[s] \in Seq(Char)
  BY LabelFacts
<1>5. lab[t][Len(lab[t])] \in Char /\ lab[t] = Append(lab[s], lab[t][Len(lab[t])])
  BY <1>1, <1>3, <1>4, FrontAppended
<1>6. QED BY <1>5 DEF Child

(* What a string ends with after one more byte. *)
LEMMA SuffixChild ==
    ASSUME NEW lab, NEW last, Labels(lab, last),
           NEW v \in Seq(Char), NEW c \in Char, NEW t \in 0 .. last
    PROVE  /\ t # 0 /\ EndsWith(Append(v, c), lab[t]) =>
                \E u \in 0 .. last : Child(lab, u, c, t) /\ EndsWith(v, lab[u])
           /\ \A u \in 0 .. last :
                Child(lab, u, c, t) => (EndsWith(v, lab[u]) <=> EndsWith(Append(v, c), lab[t]))
<1>1. ASSUME NEW u \in 0 .. last, NEW d \in Char, Child(lab, u, d, t)
      PROVE  EndsWith(Append(v, c), lab[t]) <=> c = d /\ EndsWith(v, lab[u])
  <2>1. lab[u] \in Seq(Char) /\ lab[t] = Append(lab[u], d)
    BY <1>1, LabelFacts DEF Child
  <2>2. QED BY <2>1, SuffixOfAppend
<1>2. ASSUME t # 0, EndsWith(Append(v, c), lab[t])
      PROVE  \E u \in 0 .. last : Child(lab, u, c, t) /\ EndsWith(v, lab[u])
  <2>1. PICK u \in 0 .. last, d \in Char : Child(lab, u, d, t)
    BY <1>2, HasParent
  <2>2. c = d /\ EndsWith(v, lab[u])
    BY <1>1, <1>2, <2>1
  <2>3. QED BY <2>1, <2>2
<1>3. QED BY <1>1, <1>2

LEMMA SuffixesDiffer ==
    ASSUME NEW lab, NEW last, Labels(lab, last), NEW v \in Seq(Char),
           NEW s \in 0 .. last, NEW t \in 0 .. last,
           EndsWith(v, lab[s]), EndsWith(v, lab[t])
    PROVE  /\ Len(lab[s]) = Len(lab[t]) => s = t
           /\ Len(lab[t]) <= Len(lab[s]) => EndsWith(lab[s], lab[t])
<1>1. lab[s] \in Seq(Char) /\ lab[t] \in Seq(Char) /\ Len(lab[s]) \in Nat /\ Len(lab[t]) \in Nat
  BY LabelFacts
<1>2. Len(lab[t]) <= Len(lab[s]) => EndsWith(lab[s], lab[t])
  BY <1>1, SuffixOfSuffix
<1>3. ASSUME Len(lab[s]) = Len(lab[t]) PROVE s = t
  <2>1. EndsWith(lab[s], lab[t])
    BY <1>1, <1>2, <1>3
  <2>2. lab[s] = lab[t]
    BY <1>1, <1>3, <2>1, SuffixOfEqualLength
  <2>3. QED BY <2>2 DEF Labels
<1>4. QED BY <1>2, <1>3

(* The path to a state leads through a child of each state on it. *)
LEMMA BelowFirst ==
    ASSUME NEW lab, NEW last, Labels(lab, last),
           NEW x \in 0 .. last, NEW s \in 0 .. last, Below(lab, x, s)
    PROVE  /\ lab[s][Len(lab[x]) + 1] \in Char
           /\ \E t \in 0 .. last :
                Child(lab, x, lab[s][Len(lab[x]) + 1], t) /\ AtOrBelow(lab, t, s)
<1> DEFINE c == lab[s][Len(lab[x]) + 1]
<1>1. /\ lab[s] \in Seq(Char) /\ lab[x] \in Seq(Char)
      /\ Len(lab[s]) \in Nat /\ Len(lab[x]) \in Nat
  BY LabelFacts
<1>2. Len(lab[x]) + 1 \in 1 .. Len(lab[s])
  BY <1>1 DEF Below
<1>3. c \in Char
  BY <1>1, <1>2
<1>4. PICK t \in 0 .. last : Len(lab[t]) = Len(lab[x]) + 1 /\ IsFront(lab[t], lab[s])
  BY <1>2 DEF Labels
<1>5. lab[t] \in Seq(Char) /\ Len(lab[x]) <= Len(lab[t])
  BY <1>1, <1>4, LabelFacts
<1>6. IsFront(lab[x], lab[t])
  BY <1>1, <1>4, <1>5, FrontTransitive DEF Below
<1>7. lab[t] = Append(lab[x], lab[t][Len(lab[t])])
  BY <1>1, <1>4, <1>5, <1>6, FrontAppended
<1>8. lab[t][Len(lab[t])] = c
  <2>1. \A k \in 1 .. Len(lab[t]) : lab[t][k] = lab[s][k]
    BY <1>4 DEF IsFront
  <2>2. PICK m \in Nat : m = Len(lab[t]) /\ m = Len(lab[x]) + 1
    BY <1>1, <1>4
  <2>3. m \in 1 .. m
    BY <1>1, <2>2
  <2>4. lab[t][m] = lab[s][m]
    BY <2>1, <2>2, <2>3
  <2>5. QED BY <2>2, <2>4
<1>9. QED BY <1>3, <1>4, <1>7, <1>8 DEF Child, AtOrBelow

LEMMA FrontFacts ==
    ASSUME NEW lab, NEW last, Labels(lab, last),
           NEW x \in 0 .. last, NEW y \in 0 .. last, NEW s \in 0 .. last
    PROVE  /\ AtOrBelow(lab, x, s) => Len(lab[x]) <= Len(lab[s])
           /\ AtOrBelow(lab, x, y) /\ AtOrBelow(lab, y, s) => AtOrBelow(lab, x, s)
           /\ AtOrBelow(lab, x, s) /\ Len(lab[x]) = Len(lab[s]) => x = s
           /\ Below(lab, x, s) <=> AtOrBelow(lab, x, s) /\ x # s
           /\ AtOrBelow(lab, x, s) /\ AtOrBelow(lab, y, s) /\ Len(lab[x]) <= Len(lab[y])
                => AtOrBelow(lab, x, y)
           /\ AtOrBelow(lab, s, s) /\ AtOrBelow(lab, 0, s)
<1>1. /\ lab[s] \in Seq(Char) /\ lab[x] \in Seq(Char) /\ lab[y] \in Seq(Char)
      /\ Len(lab[s]) \in Nat /\ Len(lab[x]) \in Nat
      /\ Len(lab[0]) = 0
  BY LabelFacts
<1>2. AtOrBelow(lab, x, s) /\ Len(lab[x]) = Len(lab[s]) => x = s
  <2> SUFFICES ASSUME AtOrBelow(lab, x, s), Len(lab[x]) = Len(lab[s]) PROVE x = s
    OBVIOUS
  <2>1. lab[x] = lab[s]
    BY <1>1, FrontTransitive DEF AtOrBelow
  <2>2. QED BY <2>1 DEF Labels
<1>3. AtOrBelow(lab, x, s) => Len(lab[x]) <= Len(lab[s])
  BY DEF AtOrBelow, IsFront
<1>4. Below(lab, x, s) <=> AtOrBelow(lab, x, s) /\ x # s
  BY <1>1, <1>2, <1>3 DEF Below, AtOrBelow
<1>5. AtOrBelow(lab, s, s) /\ AtOrBelow(lab, 0, s)
  BY <1>1 DEF AtOrBelow, IsFront
<1>6. QED BY <1>1, <1>2, <1>3, <1>4, <1>5, FrontTransitive DEF AtOrBelow

(* A new state for a string that had none. *)
LEMMA LabelsGrow ==
    ASSUME NEW lab, NEW last, Labels(lab, last),
           NEW s \in 0 .. last, NEW c \in Char, \A t \in 0 .. last : ~ Child(lab, s, c, t)
    PROVE  Labels([t \in DOMAIN lab \cup {last + 1} |->
                      IF t = last + 1 THEN Append(lab[s], c) ELSE lab[t]], last + 1)
<1> DEFINE new == [t \in DOMAIN lab \cup {last + 1} |->
                      IF t = last + 1 THEN Append(lab[s], c) ELSE lab[t]]
<1>1. last \in Nat /\ DOMAIN lab = 0 .. last /\ lab[s] \in Seq(Char) /\ Len(lab[s]) \in Nat
  BY LabelFacts
<1>2. DOMAIN new = 0 .. last + 1
  BY <1>1
<1>3. /\ new[last + 1] = Append(lab[s], c)
      /\ \A t \in 0 .. last : new[t] = lab[t]
  BY <1>1
<1>4. Append(lab[s], c) \in Seq(Char) /\ Len(Append(lab[s], c)) = Len(lab[s]) + 1
  BY <1>1, AppendFacts
<1>5. new \in [0 .. last + 1 -> Seq(Char)]
  BY <1>1, <1>4 DEF Labels
<1>6. new[0] = << >>
  BY <1>1, <1>3 DEF Labels
<1>7. ASSUME NEW t \in 0 .. last + 1, NEW u \in 0 .. last + 1, new[t] = new[u] PROVE t = u
  <2>1. CASE t \in 0 .. last /\ u \in 0 .. last
    BY <1>3, <1>7, <2>1 DEF Labels
  <2>2. CASE t = last + 1 /\ u = last + 1
    BY <2>2
  <2>3. CASE t = last + 1 /\ u \in 0 .. last
    BY <1>3, <1>7, <2>3 DEF Child
  <2>4. CASE t \in 0 .. last /\ u = last + 1
    BY <1>3, <1>7, <2>4 DEF Child
  <2>5. QED BY <1>1, <2>1, <2>2, <2>3, <2>4
<1>8. ASSUME NEW t \in 0 .. last, NEW k \in 0 .. Len(lab[t])
      PROVE  \E u \in 0 .. last : Len(lab[u]) = k /\ IsFront(lab[u], lab[t])
  BY DEF Labels
<1> HIDE DEF new
<1>9. ASSUME NEW t \in 0 .. last + 1, NEW k \in 0 .. Len(new[t])
      PROVE  \E u \in 0 .. last + 1 : Len(new[u]) = k /\ IsFront(new[u], new[t])
  <2>1. CASE t \in 0 .. last
    <3>1. k \in 0 .. Len(lab[t])
      BY <1>3, <1>9, <2>1
    <3>2. PICK u \in 0 .. last : Len(lab[u]) = k /\ IsFront(lab[u], lab[t])
      BY <1>8, <2>1, <3>1
    <3>3. u \in 0 .. last + 1 /\ new[u] = lab[u] /\ new[t] = lab[t]
      BY <1>1, <1>3, <2>1
    <3>4. QED BY <3>2, <3>3
  <2>2. CASE t = last + 1 /\ k = Len(lab[s]) + 1
    <3>1. Len(new[t]) = k /\ IsFront(new[t], new[t])
      BY <1>3, <1>4, <2>2 DEF IsFront
    <3>2. QED BY <3>1
  <2>3. CASE t = last + 1 /\ k \in 0 .. Len(lab[s])
    <3>1. PICK u \in 0 .. last : Len(lab[u]) = k /\ IsFront(lab[u], lab[s])
      BY <1>8, <2>3
    <3>2. u \in 0 .. last + 1 /\ new[u] = lab[u]
      BY <1>1, <1>3
    <3>3. IsFront(lab[s], new[t])
      <4>1. /\ Len(lab[s]) <= Len(Append(lab[s], c))
            /\ \A l \in 1 .. Len(lab[s]) : Append(lab[s], c)[l] = lab[s][l]
        BY <1>1, <1>4, AppendFacts
      <4>2. IsFront(lab[s], Append(lab[s], c))
        BY <4>1 DEF IsFront
      <4>3. QED BY <1>3, <2>3, <4>2
    <3>4. lab[u] \in Seq(Char)
      BY LabelFacts
    <3>5. IsFront(lab[u], new[t])
      <4>1. new[t] \in Seq(Char)
        BY <1>5
      <4>2. QED BY <1>1, <3>1, <3>3, <3>4, <4>1, FrontTransitive
    <3>6. QED BY <3>1, <3>2, <3>5
  <2>4. QED BY <1>1, <1>3, <1>4, <2>1, <2>2, <2>3
<1>10. Labels(new, last + 1)
  <2>1. last + 1 \in Nat
    BY <1>1
  <2>2. \A t, u \in 0 .. last + 1 : new[t] = new[u] => t = u
    BY <1>7
  <2>3. \A t \in 0 .. last + 1 : \A k \in 0 .. Len(new[t]) :
            \E u \in 0 .. last + 1 : Len(new[u]) = k /\ IsFront(new[u], new[t])
    BY <1>9
  <2>4. QED BY <1>5, <1>6, <2>1, <2>2, <2>3, Zenon DEF Labels
<1>11. QED BY <1>10 DEF new
-----------------------------------------------------------------------------
(* The size of the tables. *)

LengthsUpTo(list) ==
    LET sum[k \in 0 .. Len(list)] ==
            IF k = 0 THEN 0 ELSE sum[k - 1] + Len(list[k].patrn)
    IN  sum

LEMMA SumFacts ==
    ASSUME NEW list, Len(list) \in Nat, \A k \in 1 .. Len(list) : Len(list[k].patrn) \in Nat
    PROVE  /\ LengthsUpTo(list) \in [0 .. Len(list) -> Nat]
           /\ LengthsUpTo(list)[0] = 0
           /\ \A k \in 1 .. Len(list) :
                LengthsUpTo(list)[k] = LengthsUpTo(list)[k - 1] + Len(list[k].patrn)
           /\ SumOfLengths(list) = LengthsUpTo(list)[Len(list)]
<1> DEFINE step == [k \in 1 .. Len(list) |-> [v \in Nat |-> v + Len(list[k].patrn)]]
<1>1. step \in [1 .. Len(list) -> [Nat -> Nat]]
  OBVIOUS
<1>2. \E f : IsRecursive(f, Nat, Len(list), 0, step)
  <2> HIDE DEF step
  <2> QED BY <1>1, RecursiveFunction
<1>3. PICK f : f \in [0 .. Len(list) -> Nat] /\ f[0] = 0
               /\ \A k \in 1 .. Len(list) : f[k] = step[k][f[k - 1]]
  <2> HIDE DEF step
  <2> QED BY <1>2 DEF IsRecursive
<1>4. \A k \in 1 .. Len(list) : f[k] = f[k - 1] + Len(list[k].patrn)
  <2>1. ASSUME NEW k \in 1 .. Len(list) PROVE f[k] = f[k - 1] + Len(list[k].patrn)
    <3>1. k - 1 \in 0 .. Len(list)
      OBVIOUS
    <3>2. f[k - 1] \in Nat
      BY <1>3, <3>1
    <3>3. QED BY <1>3, <3>2
  <2>2. QED BY <2>1
<1>5. f = [k \in 0 .. Len(list) |-> IF k = 0 THEN 0 ELSE f[k - 1] + Len(list[k].patrn)]
  <2> HIDE DEF step
  <2> QED BY <1>3, <1>4
<1>6. LengthsUpTo(list) =
        [k \in 0 .. Len(list) |->
            IF k = 0 THEN 0 ELSE LengthsUpTo(list)[k - 1] + Len(list[k].patrn)]
  BY <1>5, Zenon DEF LengthsUpTo
<1> DEFINE g == LengthsUpTo(list)
<1>7. /\ DOMAIN g = 0 .. Len(list) /\ g[0] = 0
      /\ \A k \in 1 .. Len(list) : g[k] = g[k - 1] + Len(list[k].patrn)
  <2> HIDE DEF g
  <2>1. g = [k \in 0 .. Len(list) |-> IF k = 0 THEN 0 ELSE g[k - 1] + Len(list[k].patrn)]
    BY <1>6 DEF g
  <2>2. QED BY <2>1
<1>8. \A k \in 0 .. Len(list) : g[k] \in Nat
  <2> DEFINE S == {k \in 0 .. Len(list) : g[k] \in Nat}
  <2> HIDE DEF g
  <2>1. 0 \in S
    BY <1>7
  <2>2. \A k \in 0 .. Len(list) - 1 : k \in S => k + 1 \in S
    <3>1. ASSUME NEW k \in 0 .. Len(list) - 1, k \in S PROVE k + 1 \in S
      <4>1. k + 1 \in 1 .. Len(list) /\ (k + 1) - 1 = k
        OBVIOUS
      <4>2. g[k + 1] = g[k] + Len(list[k + 1].patrn)
        BY <1>7, <4>1
      <4>3. QED BY <3>1, <4>1, <4>2
    <3>2. QED BY <3>1
  <2>3. \A k \in 0 .. Len(list) : k \in S
    <3> HIDE DEF S
    <3> QED BY <2>1, <2>2, UpTo
  <2>4. QED BY <2>3
<1>9. SumOfLengths(list) = g[Len(list)]
  BY Zenon DEF SumOfLengths, LengthsUpTo
<1>10. g = [k \in 0 .. Len(list) |-> g[k]]
  <2> HIDE DEF g
  <2>1. g = [k \in 0 .. Len(list) |-> IF k = 0 THEN 0 ELSE g[k - 1] + Len(list[k].patrn)]
    BY <1>6 DEF g
  <2>2. QED BY <2>1
<1>11. QED
  <2> HIDE DEF g
  <2>1. g \in [0 .. Len(list) -> Nat]
    BY <1>8, <1>10
  <2>2. QED BY <1>7, <1>9, <2>1 DEF g

(* The states of the patterns up to the k-th never outgrow the tables. *)
LEMMA SumGrows ==
    ASSUME NEW list, Len(list) \in Nat, \A k \in 1 .. Len(list) : Len(list[k].patrn) \in Nat,
           NEW l \in 0 .. Len(list)
    PROVE  /\ LengthsUpTo(list)[l] \in Nat
           /\ LengthsUpTo(list)[l] <= SumOfLengths(list)
           /\ SumOfLengths(list) \in Nat
<1> DEFINE g == LengthsUpTo(list)
           m == Len(list)
           S == {k \in 0 .. m : g[m - k] <= g[m]}
<1>1. /\ g \in [0 .. m -> Nat] /\ m \in Nat
      /\ \A k \in 1 .. m : g[k] = g[k - 1] + Len(list[k].patrn)
      /\ SumOfLengths(list) = g[m]
  BY SumFacts
<1>2. \A k \in 1 .. m : g[k - 1] <= g[k]
  <2> HIDE DEF g
  <2> QED BY <1>1
<1> HIDE DEF g, m
<1>3. 0 \in S
  BY <1>1
<1>4. \A k \in 0 .. m - 1 : k \in S => k + 1 \in S
  <2>1. ASSUME NEW k \in 0 .. m - 1, k \in S PROVE k + 1 \in S
    <3>1. m - k \in 1 .. m /\ (m - k) - 1 = m - (k + 1) /\ m - (k + 1) \in 0 .. m
      BY <1>1
    <3>2. g[m - (k + 1)] <= g[m - k]
      BY <1>2, <3>1
    <3>3. g[m - (k + 1)] \in Nat /\ g[m - k] \in Nat /\ g[m] \in Nat
      BY <1>1, <3>1
    <3>4. QED BY <1>1, <2>1, <3>2, <3>3
  <2>2. QED BY <2>1
<1>5. \A k \in 0 .. m : k \in S
  <2> HIDE DEF S
  <2> QED BY <1>1, <1>3, <1>4, UpTo
<1>6. m - l \in 0 .. m /\ m - (m - l) = l
  BY <1>1 DEF m
<1>7. g[l] <= g[m]
  BY <1>5, <1>6
<1>8. g[l] \in Nat /\ g[m] \in Nat
  BY <1>1, <1>6
<1>9. QED BY <1>1, <1>7, <1>8 DEF g, m

-----------------------------------------------------------------------------
(* The queue. *)

InQueue(q, s) == \E k \in 1 .. Len(q) : q[k] = s

NoneTwice(q) == \A k, l \in 1 .. Len(q) : q[k] = q[l] => k = l

LEMMA QueueAdd ==
    ASSUME NEW S, NEW q \in Seq(S), NEW s \in S
    PROVE  /\ queue_add(q, s) \in Seq(S)
           /\ \A x : InQueue(queue_add(q, s), x) <=> InQueue(q, x) \/ x = s
           /\ NoneTwice(q) => NoneTwice(queue_add(q, s))
           /\ Len(q) \in Nat
           /\ \/ queue_add(q, s) = q
              \/ /\ ~ InQueue(q, s)
                 /\ Len(queue_add(q, s)) = Len(q) + 1
                 /\ \A k \in 1 .. Len(q) : queue_add(q, s)[k] = q[k]
                 /\ queue_add(q, s)[Len(q) + 1] = s
<1>1. CASE InQueue(q, s)
  <2>1. queue_add(q, s) = q
    BY <1>1 DEF queue_add, InQueue
  <2>2. QED BY <1>1, <2>1
<1>2. CASE ~ InQueue(q, s)
  <2>1. queue_add(q, s) = Append(q, s)
    BY <1>2 DEF queue_add, InQueue
  <2> DEFINE p == Append(q, s)
  <2>2. /\ p \in Seq(S) /\ Len(p) = Len(q) + 1 /\ Len(q) \in Nat
        /\ \A k \in 1 .. Len(q) : p[k] = q[k]
        /\ p[Len(q) + 1] = s
    BY AppendFacts
  <2> HIDE DEF p
  <2>3. ASSUME NEW x PROVE InQueue(p, x) <=> InQueue(q, x) \/ x = s
    <3>1. ASSUME InQueue(p, x) PROVE InQueue(q, x) \/ x = s
      BY <2>2, <3>1 DEF InQueue
    <3>2. ASSUME InQueue(q, x) PROVE InQueue(p, x)
      <4>1. PICK k \in 1 .. Len(q) : q[k] = x
        BY <3>2 DEF InQueue
      <4>2. k \in 1 .. Len(p) /\ p[k] = x
        BY <2>2, <4>1
      <4>3. QED BY <4>2 DEF InQueue
    <3>3. InQueue(p, s)
      <4>1. Len(q) + 1 \in 1 .. Len(p)
        BY <2>2
      <4>2. QED BY <2>2, <4>1 DEF InQueue
    <3>4. QED BY <3>1, <3>2, <3>3
  <2>4. ASSUME NoneTwice(q), NEW k \in 1 .. Len(p), NEW l \in 1 .. Len(p), p[k] = p[l] PROVE k = l
    <3>1. k \in 1 .. Len(q) /\ l \in 1 .. Len(q) => k = l
      BY <2>2, <2>4 DEF NoneTwice
    <3>2. k \in 1 .. Len(q) \/ k = Len(q) + 1
      BY <2>2
    <3>3. l \in 1 .. Len(q) \/ l = Len(q) + 1
      BY <2>2
    <3>4. ~(k \in 1 .. Len(q) /\ l = Len(q) + 1) /\ ~(l \in 1 .. Len(q) /\ k = Len(q) + 1)
      BY <1>2, <2>2, <2>4 DEF InQueue
    <3>5. QED BY <3>1, <3>2, <3>3, <3>4
  <2>5. NoneTwice(q) => NoneTwice(p)
    BY <2>4 DEF NoneTwice
  <2>6. QED BY <1>2, <2>1, <2>2, <2>3, <2>5 DEF p
<1>3. QED BY <1>1, <1>2

LEMMA QueueHead ==
    ASSUME NEW S, NEW q \in Seq(S), q # << >>
    PROVE  /\ Head(q) \in S /\ Tail(q) \in Seq(S)
           /\ Len(q) \in Nat \ {0} /\ Len(Tail(q)) = Len(q) - 1
           /\ q[1] = Head(q)
           /\ \A k \in 1 .. Len(Tail(q)) : Tail(q)[k] = q[k + 1]
           /\ \A x : InQueue(q, x) <=> x = Head(q) \/ InQueue(Tail(q), x)
           /\ NoneTwice(q) => NoneTwice(Tail(q)) /\ ~ InQueue(Tail(q), Head(q))
<1> DEFINE h == Head(q)
           t == Tail(q)
<1>1. /\ h \in S /\ t \in Seq(S) /\ Len(q) \in Nat \ {0} /\ Len(t) = Len(q) - 1
      /\ q[1] = h
      /\ \A k \in 1 .. Len(t) : t[k] = q[k + 1]
  OBVIOUS
<1> HIDE DEF h, t
<1>2. ASSUME NEW x PROVE InQueue(q, x) <=> x = h \/ InQueue(t, x)
  <2>1. ASSUME InQueue(q, x), x # h PROVE InQueue(t, x)
    <3>1. PICK k \in 1 .. Len(q) : q[k] = x
      BY <2>1 DEF InQueue
    <3>2. k # 1
      BY <1>1, <2>1, <3>1
    <3>3. k - 1 \in 1 .. Len(t) /\ (k - 1) + 1 = k
      BY <1>1, <3>2
    <3>4. t[k - 1] = x
      BY <1>1, <3>1, <3>3
    <3>5. QED BY <3>3, <3>4 DEF InQueue
  <2>2. ASSUME InQueue(t, x) PROVE InQueue(q, x)
    <3>1. PICK k \in 1 .. Len(t) : t[k] = x
      BY <2>2 DEF InQueue
    <3>2. k + 1 \in 1 .. Len(q) /\ q[k + 1] = x
      BY <1>1, <3>1
    <3>3. QED BY <3>2 DEF InQueue
  <2>3. InQueue(q, h)
    <3>1. 1 \in 1 .. Len(q)
      BY <1>1
    <3>2. QED BY <1>1, <3>1 DEF InQueue
  <2>4. QED BY <2>1, <2>2, <2>3
<1>3. ASSUME NoneTwice(q) PROVE NoneTwice(t) /\ ~ InQueue(t, h)
  <2>1. ASSUME NEW k \in 1 .. Len(t), NEW l \in 1 .. Len(t), t[k] = t[l] PROVE k = l
    <3>1. k + 1 \in 1 .. Len(q) /\ l + 1 \in 1 .. Len(q) /\ q[k + 1] = q[l + 1]
      BY <1>1, <2>1
    <3>2. k + 1 = l + 1
      BY <1>3, <3>1 DEF NoneTwice
    <3>3. QED BY <3>2
  <2>2. ASSUME NEW k \in 1 .. Len(t), t[k] = h PROVE FALSE
    <3>1. k + 1 \in 1 .. Len(q) /\ 1 \in 1 .. Len(q) /\ q[k + 1] = q[1]
      BY <1>1, <2>2
    <3>2. k + 1 = 1
      BY <1>3, <3>1 DEF NoneTwice
    <3>3. QED BY <3>2
  <2>3. QED BY <2>1, <2>2 DEF NoneTwice, InQueue
<1>4. QED BY <1>1, <1>2, <1>3 DEF h, t

(* The children of state 0, each once. *)
LEMMA RootQueue ==
    ASSUME \A c \in Char : List_GetNextState(0, c) \in Nat
    PROVE  /\ RootChildren \in Seq(Nat)
           /\ NoneTwice(RootChildren)
           /\ \A x : InQueue(RootChildren, x) <=>
                        x # 0 /\ \E c \in Char : x = List_GetNextState(0, c)
<1> DEFINE to == [c \in Char |-> List_GetNextState(0, c)]
           add(q, s) == IF s = 0 THEN q ELSE queue_add(q, s)
           step == [k \in 1 .. AlphabetSize |-> [q \in Seq(Nat) |-> add(q, to[k - 1])]]
           m == AlphabetSize
<1>1. m \in Nat \ {0} /\ \A k \in 1 .. m : k - 1 \in Char
  BY AlphabetAssumption DEF Char
<1>2. \A c \in Char : to[c] \in Nat
  OBVIOUS
<1>3. step \in [1 .. m -> [Seq(Nat) -> Seq(Nat)]]
  <2> HIDE DEF to
  <2>1. \A k \in 1 .. m, q \in Seq(Nat) : add(q, to[k - 1]) \in Seq(Nat)
    BY <1>1, <1>2, QueueAdd
  <2> HIDE DEF add
  <2>2. QED BY <2>1
<1>4. << >> \in Seq(Nat)
  OBVIOUS
<1>5. \E f : IsRecursive(f, Seq(Nat), m, << >>, step)
  <2> HIDE DEF step
  <2> QED BY <1>1, <1>3, <1>4, RecursiveFunction
<1>6. PICK f : f \in [0 .. m -> Seq(Nat)] /\ f[0] = << >>
               /\ \A k \in 1 .. m : f[k] = step[k][f[k - 1]]
  <2> HIDE DEF step
  <2> QED BY <1>5 DEF IsRecursive
<1>7. \A k \in 1 .. m : f[k] = add(f[k - 1], to[k - 1])
  <2>1. ASSUME NEW k \in 1 .. m PROVE f[k] = add(f[k - 1], to[k - 1])
    <3>1. f[k - 1] \in Seq(Nat)
      BY <1>1, <1>6
    <3> HIDE DEF to, add
    <3>2. QED BY <1>6, <3>1
  <2>2. QED BY <2>1
<1>8. f = [c \in 0 .. m |->
             IF c = 0 THEN << >>
             ELSE LET s == List_GetNextState(0, c - 1)
                  IN  IF s = 0 THEN f[c - 1] ELSE queue_add(f[c - 1], s)]
  <2>1. \A c \in 1 .. m : f[c] = LET s == List_GetNextState(0, c - 1)
                                 IN  IF s = 0 THEN f[c - 1] ELSE queue_add(f[c - 1], s)
    BY <1>1, <1>7
  <2> HIDE DEF step
  <2>2. QED BY <1>6, <2>1
<1> DEFINE g == CHOOSE g : g = [c \in 0 .. AlphabetSize |->
             IF c = 0 THEN << >>
             ELSE LET s == List_GetNextState(0, c - 1)
                  IN  IF s = 0 THEN g[c - 1] ELSE queue_add(g[c - 1], s)]
<1>9. g = [c \in 0 .. AlphabetSize |->
             IF c = 0 THEN << >>
             ELSE LET s == List_GetNextState(0, c - 1)
                  IN  IF s = 0 THEN g[c - 1] ELSE queue_add(g[c - 1], s)]
  BY <1>8, Zenon
<1>10. RootChildren = g[m]
  BY Zenon DEF RootChildren
<1> HIDE DEF g
<1>11. g[0] = << >> /\ \A k \in 1 .. m : g[k] = add(g[k - 1], to[k - 1])
  BY <1>1, <1>9
<1> HIDE DEF to, add
<1> DEFINE Good(k) == /\ g[k] \in Seq(Nat)
                      /\ NoneTwice(g[k])
                      /\ \A x : InQueue(g[k], x) <=> x # 0 /\ \E c \in 0 .. k - 1 : x = to[c]
           S == {k \in 0 .. m : Good(k)}
<1>12. 0 \in S
  <2>1. Len(g[0]) = 0 /\ g[0] \in Seq(Nat)
    BY <1>11
  <2>2. Good(0)
    BY <2>1 DEF NoneTwice, InQueue
  <2>3. QED BY <1>1, <2>2
<1>13. \A k \in 0 .. m - 1 : k \in S => k + 1 \in S
  <2>1. ASSUME NEW k \in 0 .. m - 1, k \in S PROVE k + 1 \in S
    <3>1. k + 1 \in 1 .. m /\ (k + 1) - 1 = k /\ k \in Char
      BY <1>1
    <3>2. g[k + 1] = add(g[k], to[k]) /\ to[k] \in Nat
      BY <1>2, <1>11, <3>1
    <3>3. Good(k)
      BY <2>1
    <3>4. /\ g[k + 1] \in Seq(Nat) /\ NoneTwice(g[k + 1])
          /\ \A x : InQueue(g[k + 1], x) <=> InQueue(g[k], x) \/ (x # 0 /\ x = to[k])
      BY <3>2, <3>3, QueueAdd DEF add
    <3>5. \A x : InQueue(g[k + 1], x) <=> x # 0 /\ \E c \in 0 .. k : x = to[c]
      BY <3>3, <3>4
    <3>6. Good(k + 1)
      BY <3>1, <3>4, <3>5
    <3>7. QED BY <3>1, <3>6
  <2>2. QED BY <2>1
<1>14. \A k \in 0 .. m : k \in S
  <2> HIDE DEF S
  <2> QED BY <1>1, <1>12, <1>13, UpTo
<1>15. m \in S
  <2> HIDE DEF S
  <2> QED BY <1>1, <1>14
<1>16. Good(m)
  BY <1>15
<1>17. \A x : (\E c \in 0 .. m - 1 : x = to[c]) <=> \E c \in Char : x = List_GetNextState(0, c)
  BY DEF Char, to
<1>18. QED BY <1>10, <1>16, <1>17
-----------------------------------------------------------------------------
(* The pattern list. *)

SubPatterns ==
    [iid : Nat, flag : {0, 1}, origin : Seq(Char), patrn : Seq(Char) \ {<< >>},
     start : Nat, indexEnd : Int]

(* What has been added after k patterns of a file, apart from those of     *)
(* fewer than m bytes.                                                     *)
Added(file, k, m) == [id \in {p \in 1 .. k : Len(file[p]) >= m} |-> file[id]]

CopiesUpTo(file, k, p) == Cardinality({id \in 1 .. k : file[id] = p})

LEMMA PatternFacts ==
    ASSUME NEW p \in Seq(Char) \ {<< >>}, NEW id \in Nat
    PROVE  /\ Len(p) \in Nat \ {0} /\ p[1] \in Char
           /\ Len(p) = 1 <=> p = <<p[1]>>
           /\ Len(p) = 2 <=> p = <<p[1], p[2]>>
           /\ WholePattern(p, id) \in SubPatterns
           /\ Len(p) >= 2 => \A f \in {0, 1} : SubPatternOf(p, id, f) \in SubPatterns
<1>1. Len(p) \in Nat \ {0} /\ p[1] \in Char
  OBVIOUS
<1>2. Len(p) = 1 <=> p = <<p[1]>>
  OBVIOUS
<1>3. Len(p) = 2 <=> p = <<p[1], p[2]>>
  OBVIOUS
<1>4. WholePattern(p, id) \in SubPatterns
  BY <1>1 DEF WholePattern, SubPatterns
<1>5. ASSUME Len(p) >= 2, NEW f \in {0, 1} PROVE SubPatternOf(p, id, f) \in SubPatterns
  <2>1. f \in 0 .. 1
    BY <1>5
  <2>2. Half(p, f) \in Seq(Char) /\ Len(Half(p, f)) = HalfLength(Len(p), f)
    BY <1>5, <2>1, HalfType
  <2>3. /\ HalfLength(Len(p), f) >= 1
        /\ Start(Len(p), f) \in Len(p) .. Len(p) + 1
        /\ IndexEnd(Len(p), f) \in Len(p) - 2 .. Len(p) - 1
    BY <1>1, <1>5, <2>1, SplitArithmetic
  <2>4. Len(<< >>) = 0
    OBVIOUS
  <2>5. Half(p, f) \in Seq(Char) \ {<< >>}
    BY <2>2, <2>3, <2>4
  <2>6. Start(Len(p), f) \in Nat /\ IndexEnd(Len(p), f) \in Int
    BY <1>1, <2>3
  <2>7. QED BY <1>5, <2>5, <2>6 DEF SubPatternOf, SubPatterns
<1>6. QED BY <1>1, <1>2, <1>3, <1>4, <1>5

LEMMA Prepend ==
    ASSUME NEW S, NEW list \in Seq(S), NEW a \in S, NEW b \in S
    PROVE  /\ <<a>> \o list \in Seq(S)
           /\ Len(<<a>> \o list) = Len(list) + 1 /\ Len(list) \in Nat
           /\ (<<a>> \o list)[1] = a
           /\ \A k \in 1 .. Len(list) : (<<a>> \o list)[k + 1] = list[k]
           /\ <<a, b>> \o list \in Seq(S)
           /\ Len(<<a, b>> \o list) = Len(list) + 2
           /\ (<<a, b>> \o list)[1] = a /\ (<<a, b>> \o list)[2] = b
           /\ \A k \in 1 .. Len(list) : (<<a, b>> \o list)[k + 2] = list[k]
  OBVIOUS

LEMMA AddedFacts ==
    ASSUME NEW file, NEW k \in Nat, NEW m \in Nat
    PROVE  /\ ~(Len(file[k + 1]) >= m) => Added(file, k + 1, m) = Added(file, k, m)
           /\ Len(file[k + 1]) >= m =>
                /\ DOMAIN Added(file, k + 1, m) = DOMAIN Added(file, k, m) \cup {k + 1}
                /\ Added(file, k + 1, m)[k + 1] = file[k + 1]
           /\ \A id \in DOMAIN Added(file, k, m) :
                /\ id \in 1 .. k
                /\ Added(file, k, m)[id] = file[id]
                /\ Added(file, k + 1, m)[id] = file[id]
           /\ k + 1 \notin DOMAIN Added(file, k, m)
<1>1. \A id : id \in 1 .. k + 1 <=> id \in 1 .. k \/ id = k + 1
  OBVIOUS
<1>2. k + 1 \notin 1 .. k
  OBVIOUS
<1>3. QED BY <1>1, <1>2 DEF Added

LEMMA HalvesAdded ==
    ASSUME NEW file, NEW k \in Nat, NEW m \in Nat, m >= 2,
           NEW list \in Seq(SubPatterns), HalvesOf(list, Added(file, k, m)),
           file[k + 1] \in Seq(Char) \ {<< >>}, Len(file[k + 1]) >= m
    PROVE  HalvesOf(<<SubPatternOf(file[k + 1], k + 1, 1),
                      SubPatternOf(file[k + 1], k + 1, 0)>> \o list, Added(file, k + 1, m))
<1> DEFINE p == file[k + 1]
           a == SubPatternOf(p, k + 1, 1)
           b == SubPatternOf(p, k + 1, 0)
           new == <<a, b>> \o list
           old == Added(file, k, m)
           all == Added(file, k + 1, m)
<1>1. Len(p) \in Nat /\ Len(p) >= 2 /\ k + 1 \in Nat
  OBVIOUS
<1>2. a \in SubPatterns /\ b \in SubPatterns
  BY <1>1, PatternFacts
<1>3. /\ a.iid = k + 1 /\ a.flag = 1 /\ b.iid = k + 1 /\ b.flag = 0
  BY DEF SubPatternOf
<1>4. a = SubPatternOf(p, k + 1, 1) /\ b = SubPatternOf(p, k + 1, 0)
  OBVIOUS
<1>5. /\ DOMAIN all = DOMAIN old \cup {k + 1} /\ all[k + 1] = p
      /\ \A id \in DOMAIN old : id \in 1 .. k /\ old[id] = all[id]
      /\ k + 1 \notin DOMAIN old
  <2>1. /\ DOMAIN Added(file, k + 1, m) = DOMAIN Added(file, k, m) \cup {k + 1}
        /\ Added(file, k + 1, m)[k + 1] = file[k + 1]
    BY AddedFacts
  <2>2. ASSUME NEW id \in DOMAIN Added(file, k, m)
        PROVE  id \in 1 .. k /\ Added(file, k, m)[id] = Added(file, k + 1, m)[id]
    <3>1. Added(file, k, m)[id] = file[id] /\ Added(file, k + 1, m)[id] = file[id]
      BY AddedFacts
    <3>2. id \in 1 .. k
      BY AddedFacts
    <3>3. QED BY <3>1, <3>2
  <2>3. k + 1 \notin DOMAIN Added(file, k, m)
    BY AddedFacts
  <2>4. QED BY <2>1, <2>2, <2>3
<1> HIDE DEF a, b
<1>6. /\ new \in Seq(SubPatterns) /\ Len(list) \in Nat /\ Len(new) = Len(list) + 2
      /\ new[1] = a /\ new[2] = b
      /\ \A e \in 1 .. Len(list) : new[e + 2] = list[e]
  BY <1>2, Prepend
<1>7. DOMAIN list = 1 .. Len(list) /\ DOMAIN new = 1 .. Len(list) + 2
  BY <1>6
<1>8. \A e \in 1 .. Len(list) :
            /\ list[e].iid \in DOMAIN old
            /\ Len(old[list[e].iid]) >= 2
            /\ list[e].flag \in {0, 1}
            /\ list[e] = SubPatternOf(old[list[e].iid], list[e].iid, list[e].flag)
  BY <1>7, Zenon DEF HalvesOf
<1>15. \A id \in DOMAIN old, flag \in {0, 1} :
            Len(old[id]) >= 2 => \E e \in 1 .. Len(list) : list[e].iid = id /\ list[e].flag = flag
  <2>1. HalvesOf(list, old)
    OBVIOUS
  <2> HIDE DEF old, new, all, p
  <2>2. \A id \in DOMAIN old, flag \in {0, 1} :
            Len(old[id]) >= 2 => \E e \in DOMAIN list : list[e].iid = id /\ list[e].flag = flag
    BY <2>1 DEF HalvesOf
  <2>3. QED BY <1>7, <2>2
<1>16. \A e1, e2 \in 1 .. Len(list) :
            list[e1].iid = list[e2].iid /\ list[e1].flag = list[e2].flag => e1 = e2
  BY <1>7, Zenon DEF HalvesOf
<1> HIDE DEF new, old, all, p
<1>9. \A e \in 1 .. Len(list) + 2 : e = 1 \/ e = 2 \/ (e - 2 \in 1 .. Len(list) /\ new[e] = list[e - 2])
  <2>1. ASSUME NEW e \in 1 .. Len(list) + 2, e # 1, e # 2
        PROVE  e - 2 \in 1 .. Len(list) /\ new[e] = list[e - 2]
    <3>1. e - 2 \in 1 .. Len(list) /\ (e - 2) + 2 = e
      BY <1>6, <2>1
    <3>2. QED BY <1>6, <3>1
  <2>2. QED BY <2>1
<1>10. ASSUME NEW e \in 1 .. Len(list) + 2
       PROVE  /\ new[e].iid \in DOMAIN all
              /\ Len(all[new[e].iid]) >= 2
              /\ new[e].flag \in {0, 1}
              /\ new[e] = SubPatternOf(all[new[e].iid], new[e].iid, new[e].flag)
  <2>1. CASE e = 1
    BY <1>1, <1>3, <1>4, <1>5, <1>6, <2>1
  <2>2. CASE e = 2
    BY <1>1, <1>3, <1>4, <1>5, <1>6, <2>2
  <2>3. CASE e - 2 \in 1 .. Len(list) /\ new[e] = list[e - 2]
    BY <1>5, <1>8, <2>3
  <2>4. QED BY <1>9, <2>1, <2>2, <2>3
<1>11. ASSUME NEW id \in DOMAIN all, NEW flag \in {0, 1}, Len(all[id]) >= 2
       PROVE  \E e \in 1 .. Len(list) + 2 : new[e].iid = id /\ new[e].flag = flag
  <2>1. CASE id = k + 1
    <3>1. 1 \in 1 .. Len(list) + 2 /\ 2 \in 1 .. Len(list) + 2
      BY <1>6
    <3>2. QED BY <1>3, <1>6, <2>1, <3>1
  <2>2. CASE id \in DOMAIN old
    <3>1. PICK e \in 1 .. Len(list) : list[e].iid = id /\ list[e].flag = flag
      <4>1. Len(old[id]) >= 2
        BY <1>5, <1>11, <2>2
      <4>2. QED BY <1>11, <1>15, <2>2, <4>1, Zenon
    <3>2. e + 2 \in 1 .. Len(list) + 2 /\ new[e + 2] = list[e]
      BY <1>6
    <3>3. QED BY <3>1, <3>2
  <2>3. QED BY <1>5, <2>1, <2>2
<1>12. ASSUME NEW e1 \in 1 .. Len(list) + 2, NEW e2 \in 1 .. Len(list) + 2,
              new[e1].iid = new[e2].iid, new[e1].flag = new[e2].flag
       PROVE  e1 = e2
  <2>1. \A e \in 1 .. Len(list) : list[e].iid # k + 1
    BY <1>5, <1>8
  <2>7. ASSUME NEW e \in 1 .. Len(list) + 2
        PROVE  (e = 1 \/ e = 2) <=> new[e].iid = k + 1
    <3>1. new[1].iid = k + 1 /\ new[2].iid = k + 1
      BY <1>3, <1>6
    <3>2. CASE e = 1 \/ e = 2
      BY <3>1, <3>2
    <3>3. CASE ~(e = 1 \/ e = 2)
      <4>1. e - 2 \in 1 .. Len(list) /\ new[e] = list[e - 2]
        BY <1>9, <3>3
      <4>2. new[e].iid # k + 1
        BY <2>1, <4>1
      <4>3. QED BY <3>3, <4>2
    <3>4. QED BY <3>2, <3>3
  <2>2. (e1 = 1 \/ e1 = 2) <=> new[e1].iid = k + 1
    BY <2>7
  <2>3. (e2 = 1 \/ e2 = 2) <=> new[e2].iid = k + 1
    BY <2>7
  <2>4. CASE (e1 = 1 \/ e1 = 2) /\ (e2 = 1 \/ e2 = 2)
    BY <1>3, <1>6, <1>12, <2>4
  <2>5. CASE e1 - 2 \in 1 .. Len(list) /\ new[e1] = list[e1 - 2]
             /\ e2 - 2 \in 1 .. Len(list) /\ new[e2] = list[e2 - 2]
    <3>1. e1 - 2 = e2 - 2
      BY <1>12, <1>16, <2>5, Zenon
    <3>2. e1 \in Int /\ e2 \in Int
      OBVIOUS
    <3>3. QED BY <3>1, <3>2
  <2>6. QED BY <1>9, <1>12, <2>2, <2>3, <2>4, <2>5
<1>13. HalvesOf(new, all)
  <2>1. DOMAIN new = 1 .. Len(list) + 2
    BY <1>6
  <2>2. \A e \in DOMAIN new :
              /\ new[e].iid \in DOMAIN all
              /\ Len(all[new[e].iid]) >= 2
              /\ new[e].flag \in {0, 1}
              /\ new[e] = SubPatternOf(all[new[e].iid], new[e].iid, new[e].flag)
    BY <1>10, <2>1, Zenon
  <2>3. \A id \in DOMAIN all, flag \in {0, 1} :
              Len(all[id]) >= 2 => \E e \in DOMAIN new : new[e].iid = id /\ new[e].flag = flag
    <3>1. ASSUME NEW id \in DOMAIN all, NEW flag \in {0, 1}, Len(all[id]) >= 2
          PROVE  \E e \in DOMAIN new : new[e].iid = id /\ new[e].flag = flag
      <4>1. \E e \in 1 .. Len(list) + 2 : new[e].iid = id /\ new[e].flag = flag
        BY <1>11, <3>1
      <4>2. QED BY <2>1, <4>1
    <3>2. QED BY <3>1
  <2>4. \A e1, e2 \in DOMAIN new :
              new[e1].iid = new[e2].iid /\ new[e1].flag = new[e2].flag => e1 = e2
    BY <1>12, <2>1, Zenon
  <2>5. QED BY <2>2, <2>3, <2>4, Zenon DEF HalvesOf
<1>14. QED BY <1>13 DEF new, all, a, b, p

LEMMA WholesAdded ==
    ASSUME NEW file, NEW k \in Nat, NEW m \in Nat,
           NEW list \in Seq(SubPatterns), WholesOf(list, Added(file, k, m), m),
           file[k + 1] \in Seq(Char) \ {<< >>}, Len(file[k + 1]) >= m
    PROVE  WholesOf(<<WholePattern(file[k + 1], k + 1)>> \o list, Added(file, k + 1, m), m)
<1> DEFINE p == file[k + 1]
           a == WholePattern(p, k + 1)
           new == <<a>> \o list
           old == Added(file, k, m)
           all == Added(file, k + 1, m)
<1>1. a \in SubPatterns
  BY PatternFacts
<1>2. a.iid = k + 1 /\ a = WholePattern(p, k + 1)
  BY DEF WholePattern
<1>3. /\ DOMAIN all = DOMAIN old \cup {k + 1} /\ all[k + 1] = p
      /\ \A id \in DOMAIN old : id \in 1 .. k /\ old[id] = all[id]
      /\ k + 1 \notin DOMAIN old
  <2>1. /\ DOMAIN Added(file, k + 1, m) = DOMAIN Added(file, k, m) \cup {k + 1}
        /\ Added(file, k + 1, m)[k + 1] = file[k + 1]
    BY AddedFacts
  <2>2. ASSUME NEW id \in DOMAIN Added(file, k, m)
        PROVE  id \in 1 .. k /\ Added(file, k, m)[id] = Added(file, k + 1, m)[id]
    <3>1. Added(file, k, m)[id] = file[id] /\ Added(file, k + 1, m)[id] = file[id]
      BY AddedFacts
    <3>2. id \in 1 .. k
      BY AddedFacts
    <3>3. QED BY <3>1, <3>2
  <2>3. k + 1 \notin DOMAIN Added(file, k, m)
    BY AddedFacts
  <2>4. QED BY <2>1, <2>2, <2>3
<1> HIDE DEF a
<1>4. /\ new \in Seq(SubPatterns) /\ Len(list) \in Nat /\ Len(new) = Len(list) + 1
      /\ new[1] = a
      /\ \A e \in 1 .. Len(list) : new[e + 1] = list[e]
  BY <1>1, Prepend
<1>5. DOMAIN list = 1 .. Len(list) /\ DOMAIN new = 1 .. Len(list) + 1
  BY <1>4
<1>6. /\ \A e \in 1 .. Len(list) :
            /\ list[e].iid \in DOMAIN old
            /\ Len(old[list[e].iid]) >= m
            /\ list[e] = WholePattern(old[list[e].iid], list[e].iid)
      /\ \A id \in DOMAIN old :
            Len(old[id]) >= m => \E e \in 1 .. Len(list) : list[e].iid = id
      /\ \A e1, e2 \in 1 .. Len(list) : list[e1].iid = list[e2].iid => e1 = e2
  BY <1>5 DEF WholesOf
<1>7. Len(p) >= m
  OBVIOUS
<1> HIDE DEF new, old, all, p
<1>8. \A e \in 1 .. Len(list) + 1 : e = 1 \/ (e - 1 \in 1 .. Len(list) /\ new[e] = list[e - 1])
  <2>1. ASSUME NEW e \in 1 .. Len(list) + 1, e # 1
        PROVE  e - 1 \in 1 .. Len(list) /\ new[e] = list[e - 1]
    <3>1. e - 1 \in 1 .. Len(list) /\ (e - 1) + 1 = e
      BY <1>4, <2>1
    <3>2. QED BY <1>4, <3>1
  <2>2. QED BY <2>1
<1>9. ASSUME NEW e \in 1 .. Len(list) + 1
      PROVE  /\ new[e].iid \in DOMAIN all
             /\ Len(all[new[e].iid]) >= m
             /\ new[e] = WholePattern(all[new[e].iid], new[e].iid)
  <2>1. CASE e = 1
    BY <1>2, <1>3, <1>4, <1>7, <2>1
  <2>2. CASE e - 1 \in 1 .. Len(list) /\ new[e] = list[e - 1]
    BY <1>3, <1>6, <2>2
  <2>3. QED BY <1>8, <2>1, <2>2
<1>10. ASSUME NEW id \in DOMAIN all, Len(all[id]) >= m
       PROVE  \E e \in 1 .. Len(list) + 1 : new[e].iid = id
  <2>1. CASE id = k + 1
    <3>1. 1 \in 1 .. Len(list) + 1
      BY <1>4
    <3>2. QED BY <1>2, <1>4, <2>1, <3>1
  <2>2. CASE id \in DOMAIN old
    <3>1. PICK e \in 1 .. Len(list) : list[e].iid = id
      BY <1>3, <1>6, <1>10, <2>2
    <3>2. e + 1 \in 1 .. Len(list) + 1 /\ new[e + 1] = list[e]
      BY <1>4
    <3>3. QED BY <3>1, <3>2
  <2>3. QED BY <1>3, <2>1, <2>2
<1>11. ASSUME NEW e1 \in 1 .. Len(list) + 1, NEW e2 \in 1 .. Len(list) + 1,
              new[e1].iid = new[e2].iid
       PROVE  e1 = e2
  <2>1. \A e \in 1 .. Len(list) : list[e].iid # k + 1
    BY <1>3, <1>6
  <2>2. e1 = 1 <=> new[e1].iid = k + 1
    BY <1>2, <1>4, <1>8, <2>1
  <2>3. e2 = 1 <=> new[e2].iid = k + 1
    BY <1>2, <1>4, <1>8, <2>1
  <2>4. CASE e1 - 1 \in 1 .. Len(list) /\ new[e1] = list[e1 - 1]
             /\ e2 - 1 \in 1 .. Len(list) /\ new[e2] = list[e2 - 1]
    <3>1. e1 - 1 = e2 - 1
      <4>1. \A x, y \in 1 .. Len(list) : list[x].iid = list[y].iid => x = y
        BY <1>6
      <4>2. QED BY <1>11, <2>4, <4>1, Zenon
    <3>2. QED BY <3>1
  <2>5. QED BY <1>8, <1>11, <2>2, <2>3, <2>4
<1>12. WholesOf(new, all, m)
  BY <1>5, <1>9, <1>10, <1>11 DEF WholesOf
<1>13. QED BY <1>12 DEF new, all, a, p

LEMMA CopiesGrow ==
    ASSUME NEW file, NEW k \in Nat, NEW p
    PROVE  /\ CopiesUpTo(file, k, p) \in Nat
           /\ CopiesUpTo(file, k + 1, p) =
                CopiesUpTo(file, k, p) + IF file[k + 1] = p THEN 1 ELSE 0
<1> DEFINE S == {id \in 1 .. k : file[id] = p}
<1>1. IsFiniteSet(S)
  <2>1. IsFiniteSet(1 .. k) /\ S \subseteq 1 .. k
    BY FS_Interval
  <2>2. QED BY <2>1, FS_Subset
<1>2. Cardinality(S) \in Nat
  BY <1>1, FS_CardinalityType
<1>3. \A id : id \in 1 .. k + 1 <=> id \in 1 .. k \/ id = k + 1
  OBVIOUS
<1>4. CASE file[k + 1] = p
  <2>1. {id \in 1 .. k + 1 : file[id] = p} = S \cup {k + 1}
    BY <1>3, <1>4
  <2>2. k + 1 \notin S
    OBVIOUS
  <2>3. Cardinality(S \cup {k + 1}) = Cardinality(S) + 1
    BY <1>1, <2>2, FS_AddElement
  <2>4. QED BY <1>2, <1>4, <2>1, <2>3 DEF CopiesUpTo
<1>5. CASE file[k + 1] # p
  <2>1. {id \in 1 .. k + 1 : file[id] = p} = S
    BY <1>3, <1>5
  <2>2. QED BY <1>2, <1>5, <2>1 DEF CopiesUpTo
<1>6. QED BY <1>4, <1>5

LEMMA NoCopies == ASSUME NEW file, NEW p PROVE CopiesUpTo(file, 0, p) = 0
<1>1. {id \in 1 .. 0 : file[id] = p} = {}
  OBVIOUS
<1>2. QED BY <1>1, FS_EmptySet DEF CopiesUpTo

(* A pair of bytes has an entry of its own in lengthTwoTable.              *)
LEMMA PairIndex ==
    ASSUME NEW c \in Char, NEW d \in Char
    PROVE  /\ AlphabetSize * c + d \in 0 .. AlphabetSize * AlphabetSize - 1
           /\ \A c2, d2 \in Char :
                AlphabetSize * c + d = AlphabetSize * c2 + d2 => c = c2 /\ d = d2
<1> DEFINE m == AlphabetSize
<1>1. m \in Nat \ {0} /\ Char = 0 .. m - 1
  BY AlphabetAssumption DEF Char
<1> HIDE DEF m
<1>2. ASSUME NEW x \in 0 .. m - 1, NEW y \in Nat, y >= x + 1 PROVE m * y >= m * x + m /\ m * x \in Nat
  <2>1. m * y = m * x + m * (y - x)
    BY <1>1, <1>2
  <2>2. m * (y - x) >= m
    BY <1>1, <1>2
  <2>3. m * x \in Nat /\ m * y \in Nat /\ m * (y - x) \in Nat
    BY <1>1, <1>2
  <2>4. QED BY <1>1, <2>1, <2>2, <2>3
<1>3. ASSUME NEW c2 \in 0 .. m - 1, NEW d2 \in 0 .. m - 1, m * c + d = m * c2 + d2
      PROVE  c = c2 /\ d = d2
  <2>1. ~(c2 >= c + 1)
    BY <1>1, <1>2, <1>3
  <2>2. ~(c >= c2 + 1)
    BY <1>1, <1>2, <1>3
  <2>3. c = c2
    BY <1>1, <2>1, <2>2
  <2>4. m * c \in Int
    BY <1>1
  <2>5. QED BY <1>1, <1>3, <2>3, <2>4
<1>4. m * c + d \in 0 .. m * m - 1
  <2>1. m * m >= m * c + m /\ m * c \in Nat /\ m * m \in Nat
    BY <1>1, <1>2
  <2>2. QED BY <1>1, <2>1
<1>5. QED BY <1>1, <1>3, <1>4 DEF m
-----------------------------------------------------------------------------
(* The inductive invariant, loop by loop.                                  *)

TriePhase == {"match_up", "add_rest", "states_end"}

(* What has been added of the pattern file, and where it went.             *)
ListInv ==
    /\ acsmPatterns \in Seq(SubPatterns)
    /\ lengthOneTable \in [Char -> Nat]
    /\ lengthTwoTable \in [0 .. AlphabetSize * AlphabetSize - 1 -> Nat]
    /\ pc # "add" => iid = Len(input)
    /\ acMode \in OriginModes => WholesOf(acsmPatterns, Added(input, iid, 1), 1)
    /\ acMode \in NoOneModes => WholesOf(acsmPatterns, Added(input, iid, 2), 2)
    /\ acMode \in OddEvenModes \cup OneLenModes => HalvesOf(acsmPatterns, Added(input, iid, 2))
    /\ acMode \in HashModes => HalvesOf(acsmPatterns, Added(input, iid, 3))
    /\ \A c \in Char :
        oneLenTable[c] = IF acMode \in OneLenModes THEN CopiesUpTo(input, iid, <<c>>) ELSE 0
    /\ acMode \in HashModes =>
        \A c, d \in Char :
            /\ lengthOneTable[c] = CopiesUpTo(input, iid, <<c>>)
            /\ lengthTwoTable[AlphabetSize * c + d] = CopiesUpTo(input, iid, <<c, d>>)

(* Before the compilation. *)
Cleared ==
    /\ plist = 1 /\ n = 0 /\ state = 0 /\ acsmNumStates = 0
    /\ queue = << >> /\ r = 0 /\ i = 0 /\ fs = 0
    /\ label = << >>

(* The entry of row s for c is that of the trie: a child or nothing. *)
TrieEntry(lab, table, s, c) ==
    /\ c \in DOMAIN table[s] => table[s][c] \in DOMAIN lab /\ Child(lab, s, c, table[s][c])
    /\ \A t \in DOMAIN lab : Child(lab, s, c, t) => c \in DOMAIN table[s]

TableTyped ==
    /\ DOMAIN acsmTransTable = Slots
    /\ \A s \in Slots : DOMAIN acsmTransTable[s] \subseteq Char

(* The match list of s holds the sub patterns before upTo that s spells.   *)
ListsOwn(lab, mlist, upTo, s) ==
    /\ \A e \in DOMAIN acsmPatterns :
        InQueue(mlist, e) <=> e < upTo /\ lab[s] = acsmPatterns[e].patrn
    /\ NoneTwice(mlist)

(* AddPatternStates: the trie of the sub patterns before plist, and of the *)
(* n bytes of plist; no more states than bytes.                            *)
TrieInv ==
    /\ Labels(label, acsmNumStates)
    /\ TableTyped
    /\ queue = << >> /\ r = 0 /\ i = 0 /\ fs = 0
    /\ \A s \in TrieStates, c \in Char : TrieEntry(label, acsmTransTable, s, c)
    /\ \A s \in Slots \ TrieStates : DOMAIN acsmTransTable[s] = {} /\ acsmMatchList[s] = << >>
    /\ \A s \in TrieStates : ListsOwn(label, acsmMatchList[s], plist, s)
    /\ \A e \in 1 .. plist - 1 : \E s \in TrieStates : label[s] = acsmPatterns[e].patrn
    /\ acsmNumStates <= LengthsUpTo(acsmPatterns)[plist - 1] + n
    /\ pc \in {"match_up", "add_rest"} =>
        /\ plist <= Len(acsmPatterns)
        /\ state \in TrieStates
        /\ Len(label[state]) = n
        /\ IsFront(label[state], patrn)
    /\ pc = "add_rest" => DOMAIN acsmTransTable[state] = {}
    /\ pc = "states_end" => plist = Len(acsmPatterns) + 1 /\ n = 0

(* The finished trie. *)
Built ==
    /\ Labels(label, acsmNumStates - 1)
    /\ \A e \in DOMAIN acsmPatterns : \E s \in TrieStates : label[s] = acsmPatterns[e].patrn

(* Breadth first: the queue is sorted by depth and holds no state twice.   *)
Ordered(lab, q) ==
    /\ \A k \in 1 .. Len(q) : q[k] \in DOMAIN lab /\ q[k] # 0
    /\ NoneTwice(q)
    /\ \A k, l \in 1 .. Len(q) :
        k <= l => Len(lab[q[k]]) <= Len(lab[q[l]]) /\ Len(lab[q[l]]) <= Len(lab[q[k]]) + 1

(* The states in the queue are at most one level deeper than s.            *)
After(lab, q, s) ==
    \A k \in 1 .. Len(q) :
        q[k] # s /\ Len(lab[s]) <= Len(lab[q[k]]) /\ Len(lab[q[k]]) <= Len(lab[s]) + 1

Settled(s) ==
    /\ s # 0 => FailsToLongestSuffix(s)
    /\ A!ListsSuffixes(acsmMatchList[s], acsmPatterns, label[s])

(* s lies below a queued state, or below r by a char still to come: its    *)
(* failure link and match list have not been touched.                      *)
WaitsInNfa(s) ==
    \/ \E x \in TrieStates : InQueue(queue, x) /\ Below(label, x, s)
    \/ pc \in {"nfa_char", "nfa_fail"} /\ Below(label, r, s) /\ label[s][Depth(r) + 1] >= i

(* fs is a suffix of r, and no longer suffix of r goes on with i. *)
SearchesFailure ==
    /\ fs \in TrieStates
    /\ Depth(fs) < Depth(r)
    /\ EndsWith(label[r], label[fs])
    /\ \A u, t \in TrieStates :
        Child(label, u, i, t) /\ EndsWith(label[r], label[u]) /\ u # r => Depth(u) <= Depth(fs)

NfaInv ==
    /\ Built
    /\ TableTyped
    /\ \A s \in TrieStates, c \in Char : TrieEntry(label, acsmTransTable, s, c)
    /\ acsmFailState \in [TrieStates -> TrieStates]
    /\ Ordered(label, queue) /\ After(label, queue, r) /\ r \in TrieStates
    /\ \A s \in TrieStates :
        IF WaitsInNfa(s) THEN ListsOwn(label, acsmMatchList[s], Len(acsmPatterns) + 1, s)
        ELSE Settled(s)
    /\ pc \in {"nfa_char", "nfa_fail"} => r # 0
    /\ pc = "nfa_fail" =>
        /\ i < AlphabetSize
        /\ \E s \in TrieStates : Child(label, r, i, s) /\ InQueue(queue, s)
        /\ SearchesFailure

(* The entry of row s for c is the transition of the automaton. *)
FinalEntry(lab, table, s, c) ==
    IF c \in DOMAIN table[s]
    THEN /\ table[s][c] \in DOMAIN lab /\ table[s][c] # 0
         /\ IsLongestSuffix(lab, table[s][c], Append(lab[s], c))
    ELSE IsLongestSuffix(lab, 0, Append(lab[s], c))

WaitsInDfa(s, c) ==
    \/ \E x \in TrieStates : InQueue(queue, x) /\ AtOrBelow(label, x, s)
    \/ pc = "dfa_char" /\ Below(label, r, s) /\ label[s][Depth(r) + 1] >= i
    \/ pc = "dfa_char" /\ s = r /\ c >= i

DfaInv ==
    /\ Built
    /\ TableTyped
    /\ acsmFailState \in [TrieStates -> TrieStates]
    /\ \A s \in TrieStates : Settled(s)
    /\ Ordered(label, queue)
    /\ pc = "dfa_char" => After(label, queue, r) /\ r \in TrieStates /\ r # 0
    /\ \A s \in TrieStates, c \in Char :
        IF WaitsInDfa(s, c) THEN TrieEntry(label, acsmTransTable, s, c)
        ELSE FinalEntry(label, acsmTransTable, s, c)

ReadyInv ==
    /\ Labels(label, acsmNumStates - 1)
    /\ A!AutomatonTyped(acsm)
    /\ A!AutomatonCorrect(acsm)

IInv ==
    /\ TypeOK
    /\ ListInv
    /\ pc = "add" => Cleared
    /\ pc \in TriePhase => TrieInv
    /\ pc \in NfaPhase => NfaInv
    /\ pc \in DfaPhase => DfaInv
    /\ pc = "ready" => ReadyInv
-----------------------------------------------------------------------------
(* What the invariant says of the sizes, and how it is kept as long as     *)
(* what it speaks of stays.                                                *)

LEMMA ListSize ==
    ASSUME NEW list \in Seq(SubPatterns)
    PROVE  /\ Len(list) \in Nat /\ DOMAIN list = 1 .. Len(list)
           /\ SumOfLengths(list) \in Nat
           /\ \A e \in 1 .. Len(list) :
                /\ list[e].patrn \in Seq(Char) \ {<< >>}
                /\ Len(list[e].patrn) \in Nat \ {0}
<1>1. /\ Len(list) \in Nat /\ DOMAIN list = 1 .. Len(list)
      /\ \A e \in 1 .. Len(list) : list[e] \in SubPatterns
  OBVIOUS
<1>2. \A e \in 1 .. Len(list) : list[e].patrn \in Seq(Char) \ {<< >>}
  BY <1>1 DEF SubPatterns
<1>3. \A e \in 1 .. Len(list) : Len(list[e].patrn) \in Nat \ {0}
  BY <1>2, PatternFacts
<1>4. SumOfLengths(list) \in Nat
  <2>1. 0 \in 0 .. Len(list)
    BY <1>1
  <2>2. QED BY <1>1, <1>3, <2>1, SumGrows
<1>5. QED BY <1>1, <1>2, <1>3, <1>4

LEMMA Sizes ==
    ASSUME ListInv
    PROVE  /\ Len(acsmPatterns) \in Nat /\ DOMAIN acsmPatterns = 1 .. Len(acsmPatterns)
           /\ acsmMaxStates \in Nat \ {0}
           /\ Slots = 0 .. acsmMaxStates - 1 /\ 0 \in Slots
           /\ \A e \in 1 .. Len(acsmPatterns) :
                /\ acsmPatterns[e].patrn \in Seq(Char) \ {<< >>}
                /\ Len(acsmPatterns[e].patrn) \in Nat \ {0}
<1>1. acsmPatterns \in Seq(SubPatterns)
  BY DEF ListInv
<1>2. SumOfLengths(acsmPatterns) \in Nat
  BY <1>1, ListSize
<1>3. acsmMaxStates \in Nat \ {0} /\ Slots = 0 .. acsmMaxStates - 1 /\ 0 \in Slots
  BY <1>2 DEF acsmMaxStates, Slots
<1>4. QED BY <1>1, <1>3, ListSize

LEMMA ListStays ==
    ASSUME ListInv, UNCHANGED <<acMode, input, addVars>>, pc # "add" \/ iid = Len(input)
    PROVE  /\ ListInv'
           /\ acsmMaxStates' = acsmMaxStates /\ Slots' = Slots
<1>1. UNCHANGED <<acMode, input, iid, acsmPatterns, oneLenTable, lengthOneTable, lengthTwoTable>>
  BY DEF addVars, smallVars
<1>2. ListInv'
  <2>1. pc' # "add" => iid = Len(input)
    BY DEF ListInv
  <2>2. QED BY <1>1, <2>1, Zenon DEF ListInv
<1>3. acsmMaxStates' = acsmMaxStates /\ Slots' = Slots
  BY <1>1 DEF acsmMaxStates, Slots
<1>4. QED BY <1>2, <1>3

-----------------------------------------------------------------------------
(* The pattern list. *)

LEMMA InitInv == Init => IInv
<1> SUFFICES ASSUME Init PROVE IInv
  OBVIOUS
<1>1. acsmPatterns \in Seq(SubPatterns) /\ Len(acsmPatterns) = 0 /\ DOMAIN acsmPatterns = {}
  BY DEF Init
<1>2. acsmMaxStates \in Nat \ {0}
  <2>1. SumOfLengths(acsmPatterns) \in Nat
    BY <1>1, ListSize
  <2>2. QED BY <2>1 DEF acsmMaxStates
<1>3. AlphabetSize \in Nat \ {0}
  BY AlphabetAssumption
<1>4. input \in Seq(Seq(Char) \ {<< >>}) /\ Len(input) \in Nat
  BY InputAssumption DEF Init
<1>5. TypeOK
  <2>1. acsmNumStates \in 0 .. acsmMaxStates /\ state \in 0 .. acsmMaxStates - 1
        /\ r \in 0 .. acsmMaxStates - 1 /\ fs \in 0 .. acsmMaxStates - 1
        /\ i \in 0 .. AlphabetSize /\ queue \in Seq(1 .. acsmMaxStates - 1)
    BY <1>2, <1>3 DEF Init
  <2>2. plist \in 1 .. Len(acsmPatterns) + 1 /\ n \in Nat /\ Len(acsmPatterns) <= 2 * iid
        /\ iid \in 0 .. Len(input)
    BY <1>1, <1>4 DEF Init
  <2>3. QED BY <2>1, <2>2 DEF Init, TypeOK
<1>6. \A m \in Nat : DOMAIN Added(input, iid, m) = {}
  BY DEF Added, Init
<1>7. \A m \in Nat : WholesOf(acsmPatterns, Added(input, iid, m), m)
                     /\ HalvesOf(acsmPatterns, Added(input, iid, m))
  BY <1>1, <1>6 DEF WholesOf, HalvesOf
<1>8. \A p : CopiesUpTo(input, iid, p) = 0
  BY NoCopies DEF Init
<1>9. ListInv
  <2>1. \A c \in Char :
            oneLenTable[c] = IF acMode \in OneLenModes THEN CopiesUpTo(input, iid, <<c>>) ELSE 0
    BY <1>8 DEF Init
  <2>2. \A c, d \in Char :
            /\ lengthOneTable[c] = CopiesUpTo(input, iid, <<c>>)
            /\ lengthTwoTable[AlphabetSize * c + d] = CopiesUpTo(input, iid, <<c, d>>)
    BY <1>8, PairIndex DEF Init
  <2>3. lengthOneTable \in [Char -> Nat]
        /\ lengthTwoTable \in [0 .. AlphabetSize * AlphabetSize - 1 -> Nat]
    BY DEF Init
  <2>4. pc = "add"
    BY DEF Init
  <2>5. QED BY <1>1, <1>7, <2>1, <2>2, <2>3, <2>4 DEF ListInv
<1>10. pc = "add" /\ Cleared
  BY DEF Init, Cleared
<1>11. QED BY <1>5, <1>9, <1>10 DEF IInv, TriePhase, NfaPhase, DfaPhase

LEMMA WholesGrow ==
    ASSUME NEW file, NEW k \in Nat, NEW m \in Nat, file[k + 1] \in Seq(Char) \ {<< >>},
           NEW list \in Seq(SubPatterns), WholesOf(list, Added(file, k, m), m),
           NEW new, new = IF Len(file[k + 1]) >= m
                          THEN <<WholePattern(file[k + 1], k + 1)>> \o list ELSE list
    PROVE  /\ new \in Seq(SubPatterns) /\ Len(new) <= Len(list) + 1
           /\ WholesOf(new, Added(file, k + 1, m), m)
<1>1. CASE Len(file[k + 1]) >= m
  <2>1. WholePattern(file[k + 1], k + 1) \in SubPatterns
    <3>1. PICK p \in Seq(Char) \ {<< >>} : p = file[k + 1]
      OBVIOUS
    <3>2. PICK id \in Nat : id = k + 1
      OBVIOUS
    <3>3. WholePattern(p, id) \in SubPatterns
      BY PatternFacts
    <3>4. QED BY <3>1, <3>2, <3>3
  <2>2. new \in Seq(SubPatterns) /\ Len(new) = Len(list) + 1 /\ Len(list) \in Nat
    BY <1>1, <2>1, Prepend
  <2>3. QED BY <1>1, <2>2, WholesAdded
<1>2. CASE ~(Len(file[k + 1]) >= m)
  <2>1. Added(file, k + 1, m) = Added(file, k, m) /\ new = list
    BY <1>2, AddedFacts
  <2>2. QED BY <2>1
<1>3. QED BY <1>1, <1>2

LEMMA HalvesGrow ==
    ASSUME NEW file, NEW k \in Nat, NEW m \in Nat, m >= 2, file[k + 1] \in Seq(Char) \ {<< >>},
           NEW list \in Seq(SubPatterns), HalvesOf(list, Added(file, k, m)),
           NEW new, new = IF Len(file[k + 1]) >= m
                          THEN <<SubPatternOf(file[k + 1], k + 1, 1),
                                 SubPatternOf(file[k + 1], k + 1, 0)>> \o list ELSE list
    PROVE  /\ new \in Seq(SubPatterns) /\ Len(new) <= Len(list) + 2
           /\ HalvesOf(new, Added(file, k + 1, m))
<1>1. CASE Len(file[k + 1]) >= m
  <2>0. Len(file[k + 1]) >= 2
    BY <1>1, PatternFacts
  <2>1. SubPatternOf(file[k + 1], k + 1, 1) \in SubPatterns
        /\ SubPatternOf(file[k + 1], k + 1, 0) \in SubPatterns
    <3>1. PICK p \in Seq(Char) \ {<< >>} : p = file[k + 1]
      OBVIOUS
    <3>2. PICK id \in Nat : id = k + 1
      OBVIOUS
    <3>3. \A f \in {0, 1} : SubPatternOf(p, id, f) \in SubPatterns
      BY <2>0, <3>1, PatternFacts
    <3>4. QED BY <3>1, <3>2, <3>3
  <2>2. new \in Seq(SubPatterns) /\ Len(new) = Len(list) + 2 /\ Len(list) \in Nat
    BY <1>1, <2>1, Prepend
  <2>3. QED BY <1>1, <2>2, HalvesAdded
<1>2. CASE ~(Len(file[k + 1]) >= m)
  <2>1. Added(file, k + 1, m) = Added(file, k, m) /\ new = list
    BY <1>2, AddedFacts
  <2>2. QED BY <2>1
<1>3. QED BY <1>1, <1>2

(* The tables of counts, and how they go on after one more pattern. *)
OnesCounted(table, file, k) ==
    /\ table \in [Char -> Nat]
    /\ \A c \in Char : table[c] = CopiesUpTo(file, k, <<c>>)

TwosCounted(table, file, k) ==
    /\ table \in [0 .. AlphabetSize * AlphabetSize - 1 -> Nat]
    /\ \A c, d \in Char : table[AlphabetSize * c + d] = CopiesUpTo(file, k, <<c, d>>)

LEMMA CountOne ==
    ASSUME NEW file, NEW k \in Nat, NEW p \in Seq(Char) \ {<< >>}, file[k + 1] = p,
           NEW table, OnesCounted(table, file, k)
    PROVE  OnesCounted(IF Len(p) = 1 THEN [table EXCEPT ![p[1]] = @ + 1] ELSE table, file, k + 1)
<1> DEFINE new == IF Len(p) = 1 THEN [table EXCEPT ![p[1]] = @ + 1] ELSE table
<1>0. table \in [Char -> Nat] /\ \A c \in Char : table[c] = CopiesUpTo(file, k, <<c>>)
  BY DEF OnesCounted
<1>1. /\ p[1] \in Char
      /\ Len(p) = 1 <=> p = <<p[1]>>
  BY PatternFacts
<1>2. \A c \in Char : p = <<c>> <=> Len(p) = 1 /\ p[1] = c
  <2>1. ASSUME NEW c PROVE Len(<<c>>) = 1 /\ <<c>>[1] = c
    OBVIOUS
  <2>2. QED BY <1>1, <2>1
<1>3. new \in [Char -> Nat]
  BY <1>0, <1>1
<1>4. \A c \in Char : new[c] = table[c] + IF Len(p) = 1 /\ p[1] = c THEN 1 ELSE 0
  BY <1>0, <1>1
<1>5. \A c \in Char : CopiesUpTo(file, k + 1, <<c>>) =
                        CopiesUpTo(file, k, <<c>>) + IF p = <<c>> THEN 1 ELSE 0
  <2>1. ASSUME NEW x PROVE CopiesUpTo(file, k + 1, x) =
                             CopiesUpTo(file, k, x) + IF p = x THEN 1 ELSE 0
    BY CopiesGrow
  <2>2. QED BY <2>1
<1> HIDE DEF new
<1>6. \A c \in Char : new[c] = CopiesUpTo(file, k + 1, <<c>>)
  <2> SUFFICES ASSUME NEW c \in Char PROVE new[c] = CopiesUpTo(file, k + 1, <<c>>)
    OBVIOUS
  <2>1. CASE p = <<c>>
    BY <1>0, <1>2, <1>4, <1>5, <2>1
  <2>2. CASE p # <<c>>
    BY <1>0, <1>2, <1>4, <1>5, <2>2
  <2>3. QED BY <2>1, <2>2
<1>7. OnesCounted(new, file, k + 1)
  BY <1>3, <1>6 DEF OnesCounted
<1>8. QED BY <1>7 DEF new

LEMMA ByteOf == ASSUME NEW p \in Seq(Char), NEW k \in 1 .. Len(p) PROVE p[k] \in Char
  OBVIOUS

LEMMA SecondByte == ASSUME NEW p \in Seq(Char), Len(p) = 2 PROVE p[2] \in Char
<1>1. 2 \in 1 .. Len(p)
  OBVIOUS
<1>2. QED BY <1>1, ByteOf

LEMMA CountTwo ==
    ASSUME NEW file, NEW k \in Nat, NEW p \in Seq(Char) \ {<< >>}, file[k + 1] = p,
           NEW table, TwosCounted(table, file, k)
    PROVE  TwosCounted(IF Len(p) = 2 THEN [table EXCEPT ![AlphabetSize * p[1] + p[2]] = @ + 1]
                       ELSE table, file, k + 1)
<1> DEFINE new == IF Len(p) = 2 THEN [table EXCEPT ![AlphabetSize * p[1] + p[2]] = @ + 1]
                  ELSE table
<1>0. table \in [0 .. AlphabetSize * AlphabetSize - 1 -> Nat]
      /\ \A c, d \in Char : table[AlphabetSize * c + d] = CopiesUpTo(file, k, <<c, d>>)
  BY DEF TwosCounted
<1> DEFINE cell(c, d) == AlphabetSize * c + d
<1>1. /\ p[1] \in Char
      /\ Len(p) = 2 <=> p = <<p[1], p[2]>>
      /\ Len(p) = 2 => p[2] \in Char
  <2>1. Len(p) = 2 => p[2] \in Char
    BY SecondByte
  <2>2. QED BY <2>1, PatternFacts
<1>2. \A c, d \in Char : p = <<c, d>> <=> Len(p) = 2 /\ p[1] = c /\ p[2] = d
  <2>1. ASSUME NEW c, NEW d PROVE Len(<<c, d>>) = 2 /\ <<c, d>>[1] = c /\ <<c, d>>[2] = d
    OBVIOUS
  <2>2. QED BY <1>1, <2>1
<1>3. \A c, d \in Char : cell(c, d) \in 0 .. AlphabetSize * AlphabetSize - 1
  BY PairIndex
<1>4. \A c, d, c2, d2 \in Char : cell(c, d) = cell(c2, d2) => c = c2 /\ d = d2
  BY PairIndex
<1>5. \A c, d \in Char : CopiesUpTo(file, k + 1, <<c, d>>) =
                           CopiesUpTo(file, k, <<c, d>>) + IF p = <<c, d>> THEN 1 ELSE 0
  <2>1. ASSUME NEW x PROVE CopiesUpTo(file, k + 1, x) =
                             CopiesUpTo(file, k, x) + IF p = x THEN 1 ELSE 0
    BY CopiesGrow
  <2>2. QED BY <2>1
<1>6. new = IF Len(p) = 2 THEN [table EXCEPT ![cell(p[1], p[2])] = @ + 1] ELSE table
  OBVIOUS
<1>7. \A c, d \in Char : table[cell(c, d)] = CopiesUpTo(file, k, <<c, d>>)
  BY <1>0
<1>8. \A c, d \in Char : CopiesUpTo(file, k, <<c, d>>) \in Nat
  BY CopiesGrow
<1> HIDE DEF cell, new
<1>9. new \in [0 .. AlphabetSize * AlphabetSize - 1 -> Nat]
  <2>1. CASE Len(p) = 2
    <3>1. cell(p[1], p[2]) \in 0 .. AlphabetSize * AlphabetSize - 1
      BY <1>1, <1>3, <2>1
    <3>2. DEFINE x == cell(p[1], p[2])
    <3>3. table[x] + 1 \in Nat
      BY <1>0, <3>1
    <3> HIDE DEF x
    <3>4. [table EXCEPT ![x] = table[x] + 1] \in [0 .. AlphabetSize * AlphabetSize - 1 -> Nat]
      BY <1>0, <3>3
    <3>5. QED BY <1>6, <2>1, <3>4 DEF x
  <2>2. CASE Len(p) # 2
    BY <1>0, <1>6, <2>2
  <2>3. QED BY <2>1, <2>2
<1>10. ASSUME NEW c \in Char, NEW d \in Char
       PROVE  new[cell(c, d)] = CopiesUpTo(file, k + 1, <<c, d>>)
  <2>1. cell(c, d) \in DOMAIN table
    BY <1>0, <1>3
  <2>2. CASE Len(p) = 2 /\ p[1] = c /\ p[2] = d
    <3>1. new[cell(c, d)] = table[cell(c, d)] + 1
      BY <1>6, <2>1, <2>2
    <3>2. QED BY <1>2, <1>5, <1>7, <2>2, <3>1
  <2>3. CASE ~(Len(p) = 2 /\ p[1] = c /\ p[2] = d)
    <3>1. new[cell(c, d)] = table[cell(c, d)]
      BY <1>1, <1>4, <1>6, <2>1, <2>3
    <3>2. QED BY <1>2, <1>5, <1>7, <1>8, <2>3, <3>1
  <2>4. QED BY <2>2, <2>3
<1>11. TwosCounted(new, file, k + 1)
  BY <1>9, <1>10 DEF TwosCounted, cell
<1>12. QED BY <1>11 DEF new

LEMMA ModesApart ==
    /\ acMode \in AcModes => acMode \in OriginModes \cup NoOneModes \cup OddEvenModes
                                        \cup OneLenModes \cup HashModes
    /\ acMode \in OriginModes => acMode \notin NoOneModes \cup OddEvenModes \cup OneLenModes \cup HashModes
    /\ acMode \in NoOneModes => acMode \notin OriginModes \cup OddEvenModes \cup OneLenModes \cup HashModes
    /\ acMode \in OddEvenModes => acMode \notin OriginModes \cup NoOneModes \cup OneLenModes \cup HashModes
    /\ acMode \in OneLenModes => acMode \notin OriginModes \cup NoOneModes \cup OddEvenModes \cup HashModes
    /\ acMode \in HashModes => acMode \notin OriginModes \cup NoOneModes \cup OddEvenModes \cup OneLenModes
<1>1. acMode \in AcModes => acMode \in OriginModes \cup NoOneModes \cup OddEvenModes
                                        \cup OneLenModes \cup HashModes
  BY InputAssumption, Zenon
<1>2. /\ acMode \in OriginModes => acMode \notin NoOneModes \cup OddEvenModes \cup OneLenModes \cup HashModes
      /\ acMode \in NoOneModes => acMode \notin OriginModes \cup OddEvenModes \cup OneLenModes \cup HashModes
      /\ acMode \in OddEvenModes => acMode \notin OriginModes \cup NoOneModes \cup OneLenModes \cup HashModes
      /\ acMode \in OneLenModes => acMode \notin OriginModes \cup NoOneModes \cup OddEvenModes \cup HashModes
      /\ acMode \in HashModes => acMode \notin OriginModes \cup NoOneModes \cup OddEvenModes \cup OneLenModes
  BY DEF OriginModes, NoOneModes, OddEvenModes, OneLenModes, HashModes
<1>3. QED BY <1>1, <1>2

LEMMA SmallLengths ==
    ASSUME NEW l \in Nat \ {0}
    PROVE  (l < 2 <=> l = 1) /\ (l <= 2 <=> l = 1 \/ l = 2) /\ (l = 1 => l # 2)
  OBVIOUS

LEMMA AddPatternInv == IInv /\ AddPattern => IInv'
<1> SUFFICES ASSUME IInv, AddPattern PROVE IInv'
  OBVIOUS
<1> DEFINE p == input[iid + 1]
           k == iid
<1>1. /\ pc = "add" /\ pc' = "add" /\ iid' = k + 1 /\ iid < Len(input)
      /\ acMode \in AcModes /\ acMode' = acMode /\ input \in Inputs /\ input' = input
      /\ UNCHANGED <<trieVars, graphVars>>
      /\ UNCHANGED <<acsmTransTable, acsmMatchList, acsmFailState, acsmNextState>>
  BY DEF IInv, TypeOK, AddPattern
<1>2. TypeOK /\ ListInv /\ Cleared
  BY <1>1 DEF IInv
<1>3. k \in Nat /\ p \in Seq(Char) \ {<< >>} /\ Len(p) \in Nat \ {0} /\ p[1] \in Char
      /\ k + 1 \in 0 .. Len(input)
  <2>1. input \in Seq(Seq(Char) \ {<< >>})
    BY <1>1, InputAssumption
  <2>2. k \in Nat /\ k + 1 \in 1 .. Len(input)
    BY <1>1, <1>2, <2>1 DEF TypeOK
  <2>3. p \in Seq(Char) \ {<< >>}
    BY <2>1, <2>2
  <2>4. QED BY <1>1, <2>2, <2>3, PatternFacts
<1>4. /\ acsmPatterns \in Seq(SubPatterns) /\ Len(acsmPatterns) \in Nat
      /\ Len(acsmPatterns) <= 2 * k
      /\ oneLenTable \in [Char -> Nat] /\ lengthOneTable \in [Char -> Nat]
      /\ lengthTwoTable \in [0 .. AlphabetSize * AlphabetSize - 1 -> Nat]
      /\ \A c \in Char :
           oneLenTable[c] = IF acMode \in OneLenModes THEN CopiesUpTo(input, k, <<c>>) ELSE 0
  BY <1>2 DEF ListInv, TypeOK
<1>10. 2 \in Nat /\ 2 >= 2 /\ 3 \in Nat /\ 3 >= 2
  OBVIOUS
<1>11. Len(p) \in Nat \ {0}
  BY <1>3
<1> HIDE DEF p, k
<1>12. (OneLen(p) <=> Len(p) = 1) /\ (Len(p) <= 2 <=> Len(p) = 1 \/ Len(p) = 2)
       /\ (Len(p) = 1 => Len(p) # 2)
  BY <1>11, SmallLengths, Zenon DEF OneLen
<1>13. input[k + 1] = p
  BY DEF p, k
<1> DEFINE Lists ==
        /\ acsmPatterns' \in Seq(SubPatterns) /\ Len(acsmPatterns') <= 2 * (k + 1)
        /\ acMode \in OriginModes => WholesOf(acsmPatterns', Added(input, k + 1, 1), 1)
        /\ acMode \in NoOneModes => WholesOf(acsmPatterns', Added(input, k + 1, 2), 2)
        /\ acMode \in OddEvenModes \cup OneLenModes => HalvesOf(acsmPatterns', Added(input, k + 1, 2))
        /\ acMode \in HashModes => HalvesOf(acsmPatterns', Added(input, k + 1, 3))
      Ones ==
        /\ oneLenTable' \in [Char -> Nat]
        /\ \A c \in Char :
             oneLenTable'[c] = IF acMode \in OneLenModes THEN CopiesUpTo(input, k + 1, <<c>>) ELSE 0
      Smalls ==
        /\ lengthOneTable' \in [Char -> Nat]
        /\ lengthTwoTable' \in [0 .. AlphabetSize * AlphabetSize - 1 -> Nat]
        /\ acMode \in HashModes =>
            \A c, d \in Char :
              /\ lengthOneTable'[c] = CopiesUpTo(input, k + 1, <<c>>)
              /\ lengthTwoTable'[AlphabetSize * c + d] = CopiesUpTo(input, k + 1, <<c, d>>)
<1>5. Lists /\ Ones /\ Smalls
  <2>1. CASE acMode \in OriginModes
    <3>1. acsmAddPatternOrigin(p) /\ UNCHANGED smallVars
      BY <2>1, ModesApart DEF AddPattern, p
    <3>2. acsmPatterns' = IF Len(p) >= 1 THEN <<WholePattern(p, k + 1)>> \o acsmPatterns
                          ELSE acsmPatterns
      BY <1>3, <3>1 DEF acsmAddPatternOrigin, k
    <3>3. WholesOf(acsmPatterns, Added(input, k, 1), 1)
      BY <1>2, <2>1 DEF ListInv, k
    <3>4. acsmPatterns' \in Seq(SubPatterns) /\ Len(acsmPatterns') <= Len(acsmPatterns) + 1
          /\ WholesOf(acsmPatterns', Added(input, k + 1, 1), 1)
      BY <1>3, <1>4, <3>2, <3>3, WholesGrow DEF p, k
    <3>5. Len(acsmPatterns') \in Nat
      BY <3>4
    <3>6. Lists
      BY <1>3, <1>4, <2>1, <3>4, <3>5, ModesApart
    <3>7. Ones /\ Smalls
      BY <1>4, <2>1, <3>1, ModesApart DEF acsmAddPatternOrigin, smallVars
    <3>8. QED BY <3>6, <3>7
  <2>2. CASE acMode \in NoOneModes
    <3>1. acsmAddPatternNoOneLen(p) /\ UNCHANGED smallVars
      BY <2>2, ModesApart DEF AddPattern, p
    <3>2. acsmPatterns' = IF Len(p) >= 2 THEN <<WholePattern(p, k + 1)>> \o acsmPatterns
                          ELSE acsmPatterns
      BY <1>3, <3>1 DEF acsmAddPatternNoOneLen, acsmAddPatternOrigin, OneLen, k
    <3>3. WholesOf(acsmPatterns, Added(input, k, 2), 2)
      BY <1>2, <2>2 DEF ListInv, k
    <3>4. acsmPatterns' \in Seq(SubPatterns) /\ Len(acsmPatterns') <= Len(acsmPatterns) + 1
          /\ WholesOf(acsmPatterns', Added(input, k + 1, 2), 2)
      BY <1>3, <1>4, <3>2, <3>3, WholesGrow DEF p, k
    <3>5. Len(acsmPatterns') \in Nat
      BY <3>4
    <3>6. Lists
      BY <1>3, <1>4, <2>2, <3>4, <3>5, ModesApart
    <3>7. UNCHANGED oneLenTable
      BY <3>1 DEF acsmAddPatternNoOneLen, acsmAddPatternOrigin
    <3>8. Ones /\ Smalls
      BY <1>4, <2>2, <3>1, <3>7, ModesApart DEF smallVars
    <3>9. QED BY <3>6, <3>8
  <2>3. CASE acMode \in OddEvenModes
    <3>1. acsmAddPatternWithOddEven(p) /\ UNCHANGED smallVars
      BY <2>3, ModesApart DEF AddPattern, p
    <3>2. acsmPatterns' = IF Len(p) >= 2 THEN <<SubPatternOf(p, k + 1, 1),
                                                SubPatternOf(p, k + 1, 0)>> \o acsmPatterns
                          ELSE acsmPatterns
      BY <1>3, <3>1 DEF acsmAddPatternWithOddEven, OneLen, k
    <3>3. HalvesOf(acsmPatterns, Added(input, k, 2))
      BY <1>2, <2>3 DEF ListInv, k
    <3>4. acsmPatterns' \in Seq(SubPatterns) /\ Len(acsmPatterns') <= Len(acsmPatterns) + 2
          /\ HalvesOf(acsmPatterns', Added(input, k + 1, 2))
      BY <1>3, <1>4, <1>10, <3>2, <3>3, HalvesGrow, Zenon DEF p, k
    <3>5. Len(acsmPatterns') \in Nat
      BY <3>4
    <3>6. Lists
      BY <1>3, <1>4, <2>3, <3>4, <3>5, ModesApart
    <3>7. UNCHANGED oneLenTable
      BY <3>1 DEF acsmAddPatternWithOddEven
    <3>8. Ones /\ Smalls
      BY <1>4, <2>3, <3>1, <3>7, ModesApart DEF smallVars
    <3>9. QED BY <3>6, <3>8
  <2>4. CASE acMode \in OneLenModes
    <3>1. acsmAddPatternWithOddEvenWithOneLen(p) /\ UNCHANGED smallVars
      BY <2>4, ModesApart DEF AddPattern, p
    <3>2. acsmPatterns' = IF Len(p) >= 2 THEN <<SubPatternOf(p, k + 1, 1),
                                                SubPatternOf(p, k + 1, 0)>> \o acsmPatterns
                          ELSE acsmPatterns
      BY <1>3, <3>1 DEF acsmAddPatternWithOddEvenWithOneLen, acsmAddPatternWithOddEven, OneLen, k
    <3>3. HalvesOf(acsmPatterns, Added(input, k, 2))
      BY <1>2, <2>4 DEF ListInv, k
    <3>4. acsmPatterns' \in Seq(SubPatterns) /\ Len(acsmPatterns') <= Len(acsmPatterns) + 2
          /\ HalvesOf(acsmPatterns', Added(input, k + 1, 2))
      BY <1>3, <1>4, <1>10, <3>2, <3>3, HalvesGrow, Zenon DEF p, k
    <3>5. Len(acsmPatterns') \in Nat
      BY <3>4
    <3>6. Lists
      BY <1>3, <1>4, <2>4, <3>4, <3>5, ModesApart
    <3>7. oneLenTable' = IF Len(p) = 1 THEN [oneLenTable EXCEPT ![p[1]] = @ + 1] ELSE oneLenTable
      BY <3>1, <1>12, Zenon DEF acsmAddPatternWithOddEvenWithOneLen, acsmAddPatternWithOddEven
    <3>8. Ones
      <4>1. OnesCounted(oneLenTable, input, k)
        BY <1>4, <2>4 DEF OnesCounted
      <4>2. k \in Nat /\ p \in Seq(Char) \ {<< >>}
        BY <1>3
      <4>3. OnesCounted(oneLenTable', input, k + 1)
        BY <1>13, <3>7, <4>1, <4>2, CountOne, Zenon
      <4>4. QED BY <2>4, <4>3 DEF OnesCounted
    <3>9. Smalls
      BY <1>4, <2>4, <3>1, ModesApart DEF smallVars
    <3>10. QED BY <3>6, <3>8, <3>9
  <2>5. CASE acMode \in HashModes
    <3>1. acsmAddPatternHashSmallPattern(p)
      BY <2>5, ModesApart DEF AddPattern, p
    <3>2. acsmPatterns' = IF Len(p) >= 3 THEN <<SubPatternOf(p, k + 1, 1),
                                                SubPatternOf(p, k + 1, 0)>> \o acsmPatterns
                          ELSE acsmPatterns
      BY <1>3, <3>1 DEF acsmAddPatternHashSmallPattern, acsmAddPatternWithOddEven, OneLen, k
    <3>3. HalvesOf(acsmPatterns, Added(input, k, 3))
      BY <1>2, <2>5 DEF ListInv, k
    <3>4. acsmPatterns' \in Seq(SubPatterns) /\ Len(acsmPatterns') <= Len(acsmPatterns) + 2
          /\ HalvesOf(acsmPatterns', Added(input, k + 1, 3))
      BY <1>3, <1>4, <1>10, <3>2, <3>3, HalvesGrow, Zenon DEF p, k
    <3>5. Len(acsmPatterns') \in Nat
      BY <3>4
    <3>6. Lists
      BY <1>3, <1>4, <2>5, <3>4, <3>5, ModesApart
    <3>7. UNCHANGED oneLenTable
      BY <3>1 DEF acsmAddPatternHashSmallPattern, acsmAddPatternWithOddEven
    <3>8. Ones
      BY <1>4, <2>5, <3>7, ModesApart
    <3>9. /\ lengthOneTable' = IF Len(p) = 1 THEN [lengthOneTable EXCEPT ![p[1]] = @ + 1]
                               ELSE lengthOneTable
          /\ lengthTwoTable' = IF Len(p) = 2
                               THEN [lengthTwoTable EXCEPT ![AlphabetSize * p[1] + p[2]] = @ + 1]
                               ELSE lengthTwoTable
      <4>1. CASE Len(p) = 1
        BY <1>12, <3>1, <4>1 DEF acsmAddPatternHashSmallPattern, addSmallPattern
      <4>2. CASE Len(p) = 2
        BY <1>12, <3>1, <4>2 DEF acsmAddPatternHashSmallPattern, addSmallPattern
      <4>3. CASE ~(Len(p) <= 2)
        <5>1. UNCHANGED smallVars /\ Len(p) # 1 /\ Len(p) # 2
          BY <1>12, <3>1, <4>3, Zenon DEF acsmAddPatternHashSmallPattern
        <5>2. QED BY <5>1 DEF smallVars
      <4>4. QED BY <1>12, <4>1, <4>2, <4>3
    <3>10. \A c, d \in Char :
              /\ lengthOneTable[c] = CopiesUpTo(input, k, <<c>>)
              /\ lengthTwoTable[AlphabetSize * c + d] = CopiesUpTo(input, k, <<c, d>>)
      BY <1>2, <2>5 DEF ListInv, k
    <3>11. k \in Nat /\ p \in Seq(Char) \ {<< >>}
      BY <1>3
    <3>12. OnesCounted(lengthOneTable', input, k + 1)
      <4>1. OnesCounted(lengthOneTable, input, k)
        BY <1>4, <3>10 DEF OnesCounted
      <4>2. QED BY <1>13, <3>9, <3>11, <4>1, CountOne, Zenon
    <3>15. TwosCounted(lengthTwoTable', input, k + 1)
      <4>1. TwosCounted(lengthTwoTable, input, k)
        BY <1>4, <3>10 DEF TwosCounted
      <4>2. QED BY <1>13, <3>9, <3>11, <4>1, CountTwo, Zenon
    <3>13. Smalls
      BY <3>12, <3>15 DEF OnesCounted, TwosCounted
    <3>14. QED BY <3>6, <3>8, <3>13
  <2>6. QED BY <1>1, <2>1, <2>2, <2>3, <2>4, <2>5, ModesApart
<1>6. ListInv'
  BY <1>1, <1>5 DEF ListInv
<1>7. Cleared'
  BY <1>1, <1>2 DEF Cleared, trieVars, graphVars
<1>8. TypeOK'
  <2>1. acsmMaxStates' \in Nat \ {0} /\ Len(acsmPatterns') \in Nat
    <3>1. SumOfLengths(acsmPatterns') \in Nat /\ Len(acsmPatterns') \in Nat
      BY <1>5, ListSize
    <3>2. QED BY <3>1 DEF acsmMaxStates
  <2>2. AlphabetSize \in Nat
    BY AlphabetAssumption
  <2>3. /\ plist' \in 1 .. Len(acsmPatterns') + 1
        /\ n' \in Nat /\ acsmNumStates' \in 0 .. acsmMaxStates'
        /\ state' \in 0 .. acsmMaxStates' - 1 /\ r' \in 0 .. acsmMaxStates' - 1
        /\ fs' \in 0 .. acsmMaxStates' - 1 /\ i' \in 0 .. AlphabetSize
        /\ queue' \in Seq(1 .. acsmMaxStates' - 1)
    <3>1. /\ plist' = 1 /\ n' = 0 /\ state' = 0 /\ acsmNumStates' = 0
          /\ queue' = << >> /\ r' = 0 /\ i' = 0 /\ fs' = 0
      BY <1>7 DEF Cleared
    <3>2. 1 \in 1 .. Len(acsmPatterns') + 1 /\ 0 \in 0 .. acsmMaxStates'
          /\ 0 \in 0 .. acsmMaxStates' - 1 /\ 0 \in 0 .. AlphabetSize
      <4>1. ASSUME NEW x \in Nat, NEW y \in Nat \ {0}, NEW z \in Nat
            PROVE  1 \in 1 .. x + 1 /\ 0 \in 0 .. y /\ 0 \in 0 .. y - 1 /\ 0 \in 0 .. z
        OBVIOUS
      <4>2. QED BY <2>1, <2>2, <4>1, Zenon
    <3>3. << >> \in Seq(1 .. acsmMaxStates' - 1)
      OBVIOUS
    <3>4. QED BY <3>1, <3>2, <3>3
  <2>4. Len(acsmPatterns') <= 2 * iid' /\ oneLenTable' \in [Char -> Nat]
        /\ iid' \in 0 .. Len(input')
    BY <1>1, <1>3, <1>5
  <2>5. QED BY <1>1, <2>3, <2>4 DEF TypeOK
<1>9. QED BY <1>1, <1>6, <1>7, <1>8 DEF IInv, TriePhase, NfaPhase, DfaPhase

-----------------------------------------------------------------------------
(* Lookups and changes of the transition lists and match lists.            *)

LEMMA TrieNext ==
    ASSUME NEW lab, NEW last, Labels(lab, last), NEW s \in 0 .. last, NEW c \in Char,
           TrieEntry(lab, acsmTransTable, s, c)
    PROVE  LET t == List_GetNextState(s, c) IN
           \/ /\ t \in 0 .. last /\ t # 0 /\ t # FAIL /\ Child(lab, s, c, t)
              /\ c \in DOMAIN acsmTransTable[s]
           \/ /\ t = IF s = 0 THEN 0 ELSE FAIL
              /\ \A u \in 0 .. last : ~ Child(lab, s, c, u)
              /\ c \notin DOMAIN acsmTransTable[s]
<1>1. DOMAIN lab = 0 .. last /\ \A u \in 0 .. last : u # FAIL
  BY LabelFacts DEF FAIL
<1>2. CASE c \in DOMAIN acsmTransTable[s]
  <2>1. List_GetNextState(s, c) = acsmTransTable[s][c]
    BY <1>2 DEF List_GetNextState
  <2>2. acsmTransTable[s][c] \in 0 .. last /\ Child(lab, s, c, acsmTransTable[s][c])
    BY <1>1, <1>2 DEF TrieEntry
  <2>3. acsmTransTable[s][c] # 0
    BY <2>2, ChildFacts
  <2>4. QED BY <1>1, <1>2, <2>1, <2>2, <2>3
<1>3. CASE c \notin DOMAIN acsmTransTable[s]
  BY <1>1, <1>3 DEF List_GetNextState, TrieEntry
<1>4. QED BY <1>2, <1>3

LEMMA PutFacts ==
    ASSUME NEW S, NEW table, DOMAIN table = S, NEW s \in S, NEW c, NEW next
    PROVE  LET new == List_PutNextState(table, s, c, next) IN
           /\ DOMAIN new = S
           /\ DOMAIN new[s] = DOMAIN table[s] \cup {c}
           /\ new[s][c] = next
           /\ \A d \in DOMAIN table[s] : d # c => new[s][d] = table[s][d]
           /\ \A t \in S : t # s => new[t] = table[t]
  BY DEF List_PutNextState

LEMMA Joined ==
    ASSUME NEW S, NEW u \in Seq(S), NEW v \in Seq(S)
    PROVE  /\ u \o v \in Seq(S)
           /\ \A x : InQueue(u \o v, x) <=> InQueue(u, x) \/ InQueue(v, x)
           /\ NoneTwice(u) /\ NoneTwice(v) /\ (\A x : ~(InQueue(u, x) /\ InQueue(v, x)))
                => NoneTwice(u \o v)
<1> DEFINE w == u \o v
<1>1. /\ w \in Seq(S) /\ Len(w) = Len(u) + Len(v) /\ Len(u) \in Nat /\ Len(v) \in Nat
      /\ \A k \in 1 .. Len(u) : w[k] = u[k]
      /\ \A k \in 1 .. Len(v) : w[Len(u) + k] = v[k]
  OBVIOUS
<1> HIDE DEF w
<1>2. ASSUME NEW k \in 1 .. Len(w)
      PROVE  \/ k \in 1 .. Len(u) /\ w[k] = u[k]
             \/ k \notin 1 .. Len(u) /\ k - Len(u) \in 1 .. Len(v) /\ w[k] = v[k - Len(u)]
  <2>1. CASE k <= Len(u)
    BY <1>1, <2>1
  <2>2. CASE ~(k <= Len(u))
    <3>1. k - Len(u) \in 1 .. Len(v) /\ k = Len(u) + (k - Len(u))
      BY <1>1, <2>2
    <3>2. w[Len(u) + (k - Len(u))] = v[k - Len(u)]
      BY <1>1, <3>1
    <3>3. QED BY <1>1, <2>2, <3>1, <3>2
  <2>3. QED BY <2>1, <2>2
<1>3. ASSUME NEW x PROVE InQueue(w, x) <=> InQueue(u, x) \/ InQueue(v, x)
  <2>1. InQueue(w, x) => InQueue(u, x) \/ InQueue(v, x)
    BY <1>2 DEF InQueue
  <2>2. InQueue(u, x) => InQueue(w, x)
    <3>1. ASSUME NEW k \in 1 .. Len(u) PROVE k \in 1 .. Len(w) /\ w[k] = u[k]
      BY <1>1
    <3>2. QED BY <3>1 DEF InQueue
  <2>3. InQueue(v, x) => InQueue(w, x)
    <3>1. ASSUME NEW k \in 1 .. Len(v) PROVE Len(u) + k \in 1 .. Len(w) /\ w[Len(u) + k] = v[k]
      BY <1>1
    <3>2. QED BY <3>1 DEF InQueue
  <2>4. QED BY <2>1, <2>2, <2>3
<1>4. ASSUME NoneTwice(u), NoneTwice(v), \A x : ~(InQueue(u, x) /\ InQueue(v, x)),
             NEW k \in 1 .. Len(w), NEW l \in 1 .. Len(w), w[k] = w[l]
      PROVE  k = l
  <2>1. CASE k \in 1 .. Len(u) /\ l \in 1 .. Len(u)
    BY <1>2, <1>4, <2>1 DEF NoneTwice
  <2>2. CASE k \notin 1 .. Len(u) /\ l \notin 1 .. Len(u)
    <3>1. k - Len(u) \in 1 .. Len(v) /\ l - Len(u) \in 1 .. Len(v)
          /\ v[k - Len(u)] = v[l - Len(u)]
      BY <1>2, <1>4, <2>2
    <3>2. k - Len(u) = l - Len(u)
      BY <1>4, <3>1 DEF NoneTwice
    <3>3. QED BY <1>1, <3>2
  <2>3. CASE ~(k \in 1 .. Len(u) <=> l \in 1 .. Len(u))
    BY <1>2, <1>4, <2>3 DEF InQueue
  <2>4. QED BY <2>1, <2>2, <2>3
<1>5. QED BY <1>1, <1>3, <1>4 DEF NoneTwice, w

LEMMA ReversedFacts ==
    ASSUME NEW S, NEW u \in Seq(S)
    PROVE  /\ Reversed(u) \in Seq(S)
           /\ \A x : InQueue(Reversed(u), x) <=> InQueue(u, x)
           /\ NoneTwice(u) => NoneTwice(Reversed(u))
<1> DEFINE w == Reversed(u)
           m == Len(u)
<1>1. m \in Nat /\ \A k \in 1 .. m : u[k] \in S
  OBVIOUS
<1>2. \A k \in 1 .. m : m + 1 - k \in 1 .. m /\ m + 1 - (m + 1 - k) = k
  BY <1>1
<1>3. w = [k \in 1 .. m |-> u[m + 1 - k]]
  BY DEF Reversed
<1> HIDE DEF m, w
<1>4. w \in [1 .. m -> S]
  BY <1>1, <1>2, <1>3
<1>5. w \in Seq(S) /\ Len(w) = m
  BY <1>1, <1>4
<1>6. \A k \in 1 .. m : w[k] = u[m + 1 - k] /\ u[k] = w[m + 1 - k]
  BY <1>2, <1>3
<1>7. \A x : InQueue(w, x) <=> InQueue(u, x)
  <2>1. \A x : InQueue(w, x) <=> \E k \in 1 .. m : w[k] = x
    BY <1>5 DEF InQueue
  <2>2. \A x : InQueue(u, x) <=> \E k \in 1 .. m : u[k] = x
    BY DEF InQueue, m
  <2>3. \A k \in 1 .. m : \E l \in 1 .. m : u[l] = w[k]
    BY <1>2, <1>6
  <2>4. \A k \in 1 .. m : \E l \in 1 .. m : w[l] = u[k]
    BY <1>2, <1>6
  <2>5. QED BY <2>1, <2>2, <2>3, <2>4
<1>8. ASSUME NoneTwice(u), NEW k \in 1 .. m, NEW l \in 1 .. m, w[k] = w[l] PROVE k = l
  <2>1. u[m + 1 - k] = u[m + 1 - l]
    BY <1>6, <1>8
  <2>2. m + 1 - k \in 1 .. m /\ m + 1 - l \in 1 .. m
    BY <1>2, <1>8
  <2>3. \A a, b \in 1 .. m : u[a] = u[b] => a = b
    BY <1>8 DEF NoneTwice, m
  <2>4. m + 1 - k = m + 1 - l
    BY <2>1, <2>2, <2>3
  <2>5. QED BY <1>1, <1>8, <2>4
<1>9. NoneTwice(u) => NoneTwice(w)
  BY <1>5, <1>8 DEF NoneTwice
<1>10. QED BY <1>5, <1>7, <1>9 DEF w

LEMMA NothingQueued == (\A x : ~ InQueue(<< >>, x)) /\ NoneTwice(<< >>)
  BY DEF InQueue, NoneTwice

LEMMA OneQueued ==
    ASSUME NEW x
    PROVE  (\A y : InQueue(<<x>>, y) <=> y = x) /\ NoneTwice(<<x>>)
<1>1. Len(<<x>>) = 1 /\ <<x>>[1] = x /\ \A k : k \in 1 .. 1 <=> k = 1
  OBVIOUS
<1>2. QED BY <1>1 DEF InQueue, NoneTwice

-----------------------------------------------------------------------------
(* The trie.                                                               *)

PcValues == {"add", "match_up", "add_rest", "states_end", "ready"} \cup NfaPhase \cup DfaPhase

LEMMA TypeStays ==
    ASSUME TypeOK, ListInv, UNCHANGED <<acMode, input, addVars>>,
           pc # "add" \/ iid = Len(input),
           pc' \in PcValues,
           plist' \in 1 .. Len(acsmPatterns) + 1,
           n' \in Nat,
           acsmNumStates' \in 0 .. acsmMaxStates,
           state' \in Slots, r' \in Slots, fs' \in Slots, i' \in 0 .. AlphabetSize,
           queue' \in Seq(1 .. acsmMaxStates - 1),
           DOMAIN label' \subseteq Slots,
           label' \in [DOMAIN label' -> Seq(Char)],
           acsmMatchList' \in [Slots -> Seq(DOMAIN acsmPatterns)]
    PROVE  TypeOK'
<1>1. UNCHANGED <<acMode, input, iid, acsmPatterns, oneLenTable>>
  BY DEF addVars
<1>2. acsmMaxStates' = acsmMaxStates /\ Slots' = Slots /\ Slots = 0 .. acsmMaxStates - 1
  BY ListStays, Sizes
<1>3. /\ acMode \in AcModes /\ input \in Inputs /\ iid \in 0 .. Len(input)
      /\ Len(acsmPatterns) <= 2 * iid /\ oneLenTable \in [Char -> Nat]
  BY DEF TypeOK
<1>4. /\ plist' \in 1 .. Len(acsmPatterns') + 1 /\ acsmNumStates' \in 0 .. acsmMaxStates'
      /\ state' \in 0 .. acsmMaxStates' - 1 /\ r' \in 0 .. acsmMaxStates' - 1
      /\ fs' \in 0 .. acsmMaxStates' - 1 /\ queue' \in Seq(1 .. acsmMaxStates' - 1)
  BY <1>1, <1>2
<1>5. /\ TrieStates' \subseteq Slots' /\ label' \in [TrieStates' -> Seq(Char)]
      /\ acsmMatchList' \in [Slots' -> Seq(DOMAIN acsmPatterns')]
  BY <1>1, <1>2 DEF TrieStates
<1>6. QED BY <1>1, <1>3, <1>4, <1>5 DEF TypeOK, PcValues

LEMMA TypeFacts ==
    ASSUME TypeOK, ListInv, pc # "add"
    PROVE  /\ pc \in PcValues
           /\ plist \in 1 .. Len(acsmPatterns) + 1 /\ n \in Nat
           /\ acsmNumStates \in 0 .. acsmMaxStates
           /\ state \in Slots /\ r \in Slots /\ fs \in Slots /\ i \in 0 .. AlphabetSize
           /\ queue \in Seq(1 .. acsmMaxStates - 1)
           /\ DOMAIN label \subseteq Slots
           /\ label \in [DOMAIN label -> Seq(Char)]
           /\ acsmMatchList \in [Slots -> Seq(DOMAIN acsmPatterns)]
<1>1. Slots = 0 .. acsmMaxStates - 1
  BY Sizes
<1>2. QED BY <1>1 DEF TypeOK, PcValues, TrieStates

LEMMA BeginCompileInv == IInv /\ BeginCompile => IInv'
<1> SUFFICES ASSUME IInv, BeginCompile PROVE IInv'
  OBVIOUS
<1>1. TypeOK /\ ListInv /\ Cleared
  BY DEF IInv, BeginCompile
<1>2. /\ iid = Len(input)
      /\ acsmTransTable' = [s \in Slots |-> NoTransition]
      /\ acsmMatchList' = [s \in Slots |-> << >>]
      /\ label' = [s \in {0} |-> << >>]
      /\ acsmNumStates' = 0 /\ plist' = 1 /\ n' = 0 /\ state' = 0
      /\ pc' = IF acsmPatterns = << >> THEN "states_end" ELSE "match_up"
      /\ UNCHANGED <<acMode, input, addVars>> /\ UNCHANGED graphVars
  BY DEF BeginCompile
<1>3. /\ Len(acsmPatterns) \in Nat /\ DOMAIN acsmPatterns = 1 .. Len(acsmPatterns)
      /\ acsmMaxStates \in Nat \ {0} /\ Slots = 0 .. acsmMaxStates - 1 /\ 0 \in Slots
      /\ \A e \in 1 .. Len(acsmPatterns) : Len(acsmPatterns[e].patrn) \in Nat \ {0}
  BY <1>1, Sizes
<1>4. ListInv' /\ acsmMaxStates' = acsmMaxStates /\ Slots' = Slots
  BY <1>1, <1>2, ListStays
<1>5. /\ queue' = << >> /\ r' = 0 /\ i' = 0 /\ fs' = 0 /\ acsmPatterns' = acsmPatterns
  BY <1>1, <1>2 DEF Cleared, graphVars, addVars
<1>6. pc' \in {"match_up", "states_end"}
  BY <1>2
<1>7. TypeOK'
  <2>1. 1 \in 1 .. Len(acsmPatterns) + 1 /\ 0 \in Nat /\ 0 \in 0 .. acsmMaxStates
        /\ 0 \in 0 .. AlphabetSize
    <3>1. ASSUME NEW x \in Nat, NEW y \in Nat, NEW z \in Nat
          PROVE  1 \in 1 .. x + 1 /\ 0 \in Nat /\ 0 \in 0 .. y /\ 0 \in 0 .. z
      OBVIOUS
    <3>2. QED BY <1>3, <3>1, AlphabetAssumption
  <2>2. << >> \in Seq(1 .. acsmMaxStates - 1) /\ << >> \in Seq(Char) /\ << >> \in Seq(DOMAIN acsmPatterns)
    OBVIOUS
  <2>3. /\ DOMAIN label' = {0} /\ label' \in [{0} -> Seq(Char)]
        /\ acsmMatchList' \in [Slots -> Seq(DOMAIN acsmPatterns)]
    BY <1>2, <2>2
  <2>4. pc' \in PcValues
    BY <1>6 DEF PcValues
  <2>5. /\ plist' \in 1 .. Len(acsmPatterns) + 1 /\ n' \in Nat
        /\ acsmNumStates' \in 0 .. acsmMaxStates
        /\ state' \in Slots /\ r' \in Slots /\ fs' \in Slots /\ i' \in 0 .. AlphabetSize
        /\ queue' \in Seq(1 .. acsmMaxStates - 1)
        /\ DOMAIN label' \subseteq Slots /\ label' \in [DOMAIN label' -> Seq(Char)]
    BY <1>2, <1>3, <1>5, <2>1, <2>2, <2>3
  <2>6. QED BY <1>1, <1>2, <2>3, <2>4, <2>5, TypeStays
<1>8. Labels(label', 0)
  <2>1. 0 .. 0 = {0}
    OBVIOUS
  <2>2. label'[0] = << >> /\ label' \in [0 .. 0 -> Seq(Char)] /\ Len(label'[0]) = 0
    BY <1>2, <2>1
  <2>3. \A s, t \in 0 .. 0 : s = t
    BY <2>1
  <2>4. ASSUME NEW s \in 0 .. 0, NEW k \in 0 .. Len(label'[s])
        PROVE  \E t \in 0 .. 0 : Len(label'[t]) = k /\ IsFront(label'[t], label'[s])
    <3>1. s = 0 /\ 0 \in 0 .. 0
      BY <2>1
    <3>2. k = 0
      BY <2>2, <3>1
    <3>3. IsFront(label'[0], label'[0])
      BY <2>2 DEF IsFront
    <3>4. QED BY <2>2, <3>1, <3>2, <3>3
  <2>5. QED BY <2>2, <2>3, <2>4 DEF Labels
<1>9. TrieStates' = {0} /\ label'[0] = << >>
  BY <1>2 DEF TrieStates
<1>10. TableTyped'
  BY <1>2, <1>4 DEF TableTyped, NoTransition
<1>11. ASSUME NEW s \in TrieStates', NEW c \in Char
       PROVE  TrieEntry(label', acsmTransTable', s, c)
  <2>1. s = 0 /\ DOMAIN label' = {0} /\ DOMAIN acsmTransTable'[0] = {}
    BY <1>2, <1>3, <1>9 DEF TrieStates, NoTransition
  <2>2. ~ Child(label', 0, c, 0)
    <3>1. Len(Append(<< >>, c)) = 1 /\ Len(<< >>) = 0
      OBVIOUS
    <3>2. Append(<< >>, c) # << >>
      BY <3>1
    <3>3. QED BY <1>9, <3>2 DEF Child
  <2>3. QED BY <2>1, <2>2 DEF TrieEntry
<1>12. \A s \in Slots' : DOMAIN acsmTransTable'[s] = {} /\ acsmMatchList'[s] = << >>
  BY <1>2, <1>4 DEF NoTransition
<1>13. ASSUME NEW s \in TrieStates' PROVE ListsOwn(label, acsmMatchList[s], plist, s)'
  <2>1. acsmMatchList'[s] = << >>
    BY <1>3, <1>4, <1>9, <1>12
  <2>2. \A e \in DOMAIN acsmPatterns' : ~(e < plist')
    BY <1>2, <1>3, <1>5
  <2>3. QED BY <2>1, <2>2, NothingQueued DEF ListsOwn
<1>14. \A e \in 1 .. plist' - 1 : FALSE
  BY <1>2
<1>15. acsmNumStates' <= LengthsUpTo(acsmPatterns')[plist' - 1] + n'
  <2>1. LengthsUpTo(acsmPatterns)[0] = 0
    BY <1>3, SumFacts
  <2>2. QED BY <1>2, <1>5, <2>1
<1>16. pc' = "match_up" =>
        /\ plist' <= Len(acsmPatterns') /\ state' \in TrieStates'
        /\ Len(label'[state']) = n' /\ IsFront(label'[state'], patrn')
  <2>1. pc' = "match_up" => Len(acsmPatterns) # 0
    <3>1. Len(acsmPatterns) = 0 => acsmPatterns = << >>
      BY <1>1 DEF ListInv
    <3>2. QED BY <1>2, <3>1
  <2>2. pc' = "match_up" => 1 <= Len(acsmPatterns) /\ Len(acsmPatterns[1].patrn) \in Nat
    BY <1>3, <2>1
  <2>3. pc' = "match_up" => IsFront(<< >>, patrn')
    BY <1>2, <1>5, <2>2 DEF IsFront, patrn
  <2>4. QED BY <1>2, <1>5, <1>9, <2>2, <2>3
<1>17. pc' = "states_end" => plist' = Len(acsmPatterns') + 1 /\ n' = 0
  BY <1>2, <1>5
<1>18. TrieInv'
  BY <1>2, <1>5, <1>6, <1>8, <1>10, <1>11, <1>12, <1>13, <1>14, <1>15, <1>16, <1>17 DEF TrieInv
<1>19. QED BY <1>4, <1>6, <1>7, <1>18 DEF IInv, TriePhase, NfaPhase, DfaPhase

LEMMA FrontGrows ==
    ASSUME NEW C, NEW u \in Seq(C), NEW w \in Seq(C), IsFront(u, w), Len(u) < Len(w)
    PROVE  /\ At(w, Len(u)) \in C
           /\ IsFront(Append(u, At(w, Len(u))), w)
<1>1. Len(u) \in Nat /\ Len(w) \in Nat
  OBVIOUS
<1>2. Len(u) + 1 \in 1 .. Len(w)
  BY <1>1
<1>3. At(w, Len(u)) \in C /\ At(w, Len(u)) = w[Len(u) + 1]
  BY <1>2 DEF At
<1> DEFINE v == Append(u, At(w, Len(u)))
<1>4. /\ Len(v) = Len(u) + 1
      /\ \A k \in 1 .. Len(u) : v[k] = u[k]
      /\ v[Len(u) + 1] = w[Len(u) + 1]
  BY <1>3, AppendFacts
<1> HIDE DEF v
<1>5. Len(v) <= Len(w)
  BY <1>1, <1>2, <1>4
<1>6. ASSUME NEW k \in 1 .. Len(v) PROVE v[k] = w[k]
  <2>1. k \in 1 .. Len(u) \/ k = Len(u) + 1
    BY <1>1, <1>4
  <2>2. QED BY <1>4, <2>1 DEF IsFront
<1>7. QED BY <1>3, <1>5, <1>6 DEF IsFront, v

LEMMA TrieFacts ==
    ASSUME IInv, pc \in {"match_up", "add_rest"}
    PROVE  /\ TypeOK /\ ListInv /\ TrieInv
           /\ plist \in 1 .. Len(acsmPatterns)
           /\ patrn \in Seq(Char) /\ Len(patrn) \in Nat \ {0}
           /\ TrieStates = 0 .. acsmNumStates /\ DOMAIN label = 0 .. acsmNumStates
           /\ acsmNumStates \in Nat /\ state \in 0 .. acsmNumStates
           /\ Labels(label, acsmNumStates)
           /\ label[state] \in Seq(Char) /\ Len(label[state]) = n /\ n \in Nat
           /\ IsFront(label[state], patrn)
           /\ LengthsUpTo(acsmPatterns)[plist - 1] \in Nat
           /\ acsmNumStates <= LengthsUpTo(acsmPatterns)[plist - 1] + n
           /\ LengthsUpTo(acsmPatterns)[plist] =
                LengthsUpTo(acsmPatterns)[plist - 1] + Len(patrn)
           /\ LengthsUpTo(acsmPatterns)[plist] <= acsmMaxStates - 1
           /\ 0 .. acsmNumStates \subseteq Slots
           /\ 0 \in Slots /\ 0 \in 0 .. AlphabetSize
           /\ \A e \in 1 .. Len(acsmPatterns) : acsmPatterns[e].patrn \in Seq(Char)
           /\ DOMAIN acsmPatterns = 1 .. Len(acsmPatterns) /\ Len(acsmPatterns) \in Nat
           /\ acsmMaxStates \in Nat \ {0} /\ Slots = 0 .. acsmMaxStates - 1
<1>1. TypeOK /\ ListInv /\ TrieInv
  BY DEF IInv, TriePhase
<1>2. /\ Len(acsmPatterns) \in Nat /\ DOMAIN acsmPatterns = 1 .. Len(acsmPatterns)
      /\ acsmMaxStates \in Nat \ {0} /\ Slots = 0 .. acsmMaxStates - 1 /\ 0 \in Slots
      /\ \A e \in 1 .. Len(acsmPatterns) :
            /\ acsmPatterns[e].patrn \in Seq(Char) \ {<< >>}
            /\ Len(acsmPatterns[e].patrn) \in Nat \ {0}
  BY <1>1, Sizes
<1>3. /\ plist \in 1 .. Len(acsmPatterns) + 1 /\ n \in Nat /\ DOMAIN label \subseteq Slots
  BY <1>1, TypeFacts
<1>4. /\ Labels(label, acsmNumStates) /\ plist <= Len(acsmPatterns)
      /\ state \in TrieStates /\ Len(label[state]) = n /\ IsFront(label[state], patrn)
      /\ acsmNumStates <= LengthsUpTo(acsmPatterns)[plist - 1] + n
  BY <1>1 DEF TrieInv
<1>5. plist \in 1 .. Len(acsmPatterns) /\ plist - 1 \in 0 .. Len(acsmPatterns)
      /\ plist \in 0 .. Len(acsmPatterns)
  BY <1>2, <1>3, <1>4
<1>6. patrn \in Seq(Char) /\ Len(patrn) \in Nat \ {0}
  BY <1>2, <1>5 DEF patrn
<1>7. acsmNumStates \in Nat /\ DOMAIN label = 0 .. acsmNumStates
  BY <1>4 DEF Labels
<1>8. TrieStates = 0 .. acsmNumStates
  BY <1>7 DEF TrieStates
<1>9. state \in 0 .. acsmNumStates /\ label[state] \in Seq(Char)
  BY <1>4, <1>8, LabelFacts
<1>10. LengthsUpTo(acsmPatterns)[plist] = LengthsUpTo(acsmPatterns)[plist - 1] + Len(patrn)
  BY <1>2, <1>5, SumFacts DEF patrn
<1>11. /\ LengthsUpTo(acsmPatterns)[plist - 1] \in Nat
       /\ LengthsUpTo(acsmPatterns)[plist] <= SumOfLengths(acsmPatterns)
       /\ SumOfLengths(acsmPatterns) \in Nat /\ LengthsUpTo(acsmPatterns)[plist] \in Nat
  BY <1>2, <1>5, SumGrows
<1>12. LengthsUpTo(acsmPatterns)[plist] <= acsmMaxStates - 1
  BY <1>11 DEF acsmMaxStates
<1>13. 0 \in 0 .. AlphabetSize
  BY AlphabetAssumption
<1>14. QED
  BY <1>1, <1>2, <1>3, <1>4, <1>5, <1>6, <1>7, <1>8, <1>9, <1>10, <1>11, <1>12, <1>13

LEMMA FollowStateInv == IInv /\ FollowState => IInv'
<1> SUFFICES ASSUME IInv, FollowState PROVE IInv'
  OBVIOUS
<1>1. /\ pc = "match_up" /\ pc' = pc /\ n < Len(patrn) /\ NextByte \notin {FAIL, 0}
      /\ state' = NextByte /\ n' = n + 1
      /\ UNCHANGED <<acMode, input, addVars>> /\ UNCHANGED <<plist, acsmNumStates, label>>
      /\ UNCHANGED graphVars /\ UNCHANGED <<acsmTransTable, acsmMatchList>>
  BY DEF FollowState
<1>2. /\ TypeOK /\ ListInv /\ TrieInv
      /\ plist \in 1 .. Len(acsmPatterns)
      /\ patrn \in Seq(Char) /\ Len(patrn) \in Nat \ {0}
      /\ TrieStates = 0 .. acsmNumStates /\ DOMAIN label = 0 .. acsmNumStates
      /\ state \in 0 .. acsmNumStates
      /\ Labels(label, acsmNumStates)
      /\ label[state] \in Seq(Char) /\ Len(label[state]) = n /\ n \in Nat
      /\ IsFront(label[state], patrn)
      /\ LengthsUpTo(acsmPatterns)[plist - 1] \in Nat
      /\ acsmNumStates <= LengthsUpTo(acsmPatterns)[plist - 1] + n
      /\ 0 .. acsmNumStates \subseteq Slots /\ acsmNumStates \in Nat
  BY <1>1, TrieFacts
<1>3. ListInv' /\ acsmMaxStates' = acsmMaxStates /\ Slots' = Slots
  BY <1>1, <1>2, ListStays
<1>4. acsmPatterns' = acsmPatterns /\ patrn' = patrn /\ TrieStates' = TrieStates
  BY <1>1 DEF addVars, patrn, TrieStates
<1> DEFINE c == At(patrn, n)
<1>5. c \in Char /\ IsFront(Append(label[state], c), patrn)
  BY <1>1, <1>2, FrontGrows
<1>6. NextByte \in 0 .. acsmNumStates /\ Child(label, state, c, NextByte)
  <2>1. TrieEntry(label, acsmTransTable, state, c)
    BY <1>2, <1>5 DEF TrieInv
  <2>2. QED BY <1>1, <1>2, <1>5, <2>1, TrieNext DEF NextByte
<1> HIDE DEF c
<1>7. label[NextByte] = Append(label[state], c) /\ Len(label[NextByte]) = n + 1
  <2>1. label[NextByte] = Append(label[state], c)
    BY <1>6 DEF Child
  <2>2. Labels(label, acsmNumStates) /\ state \in 0 .. acsmNumStates /\ c \in Char
    BY <1>2, <1>5
  <2>3. Len(label[NextByte]) = Len(label[state]) + 1
    BY <1>6, <2>2, ChildFacts
  <2>4. QED BY <1>2, <2>1, <2>3
<1>8. TypeOK'
  <2>1. /\ pc \in PcValues
        /\ plist \in 1 .. Len(acsmPatterns) + 1
        /\ acsmNumStates \in 0 .. acsmMaxStates
        /\ r \in Slots /\ fs \in Slots /\ i \in 0 .. AlphabetSize
        /\ queue \in Seq(1 .. acsmMaxStates - 1)
        /\ DOMAIN label \subseteq Slots
        /\ label \in [DOMAIN label -> Seq(Char)]
        /\ acsmMatchList \in [Slots -> Seq(DOMAIN acsmPatterns)]
    BY <1>1, <1>2, TypeFacts
  <2>2. state' \in Slots /\ n' \in Nat
    BY <1>1, <1>2, <1>6
  <2>3. UNCHANGED <<queue, r, i, fs>> /\ pc # "add"
    BY <1>1 DEF graphVars
  <2>4. QED BY <1>1, <1>2, <2>1, <2>2, <2>3, TypeStays
<1>9. TrieInv'
  <2>1. UNCHANGED <<queue, r, i, fs>>
    BY <1>1 DEF graphVars
  <2>2. acsmNumStates' <= LengthsUpTo(acsmPatterns')[plist' - 1] + n'
    BY <1>1, <1>2, <1>4
  <2>3. /\ plist' <= Len(acsmPatterns')
        /\ state' \in TrieStates' /\ Len(label'[state']) = n' /\ IsFront(label'[state'], patrn')
    BY <1>1, <1>2, <1>4, <1>5, <1>6, <1>7
  <2>4. /\ Labels(label', acsmNumStates') /\ TableTyped'
        /\ queue' = << >> /\ r' = 0 /\ i' = 0 /\ fs' = 0
    BY <1>1, <1>2, <1>3, <2>1 DEF TrieInv, TableTyped
  <2>5. /\ \A s \in TrieStates', x \in Char : TrieEntry(label', acsmTransTable', s, x)
        /\ \A s \in Slots' \ TrieStates' : DOMAIN acsmTransTable'[s] = {} /\ acsmMatchList'[s] = << >>
        /\ \A e \in 1 .. plist' - 1 : \E s \in TrieStates' : label'[s] = acsmPatterns'[e].patrn
    BY <1>1, <1>2, <1>3, <1>4 DEF TrieInv
  <2>6. ASSUME NEW s \in TrieStates' PROVE ListsOwn(label, acsmMatchList[s], plist, s)'
    <3>1. ListsOwn(label, acsmMatchList[s], plist, s)
      BY <1>2, <1>4 DEF TrieInv
    <3>2. QED BY <1>1, <1>4, <3>1 DEF ListsOwn
  <2>7. QED BY <1>1, <2>2, <2>3, <2>4, <2>5, <2>6 DEF TrieInv
<1>10. QED BY <1>1, <1>3, <1>8, <1>9 DEF IInv, TriePhase, NfaPhase, DfaPhase

LEMMA SameAppend ==
    ASSUME NEW u \in Seq(Char), NEW v \in Seq(Char), NEW c, NEW d,
           Append(u, c) = Append(v, d)
    PROVE  u = v /\ c = d
<1>1. /\ Len(Append(u, c)) = Len(u) + 1 /\ Len(Append(v, d)) = Len(v) + 1
      /\ Len(u) \in Nat /\ Len(v) \in Nat
      /\ \A k \in 1 .. Len(u) : Append(u, c)[k] = u[k]
      /\ \A k \in 1 .. Len(v) : Append(v, d)[k] = v[k]
      /\ Append(u, c)[Len(u) + 1] = c /\ Append(v, d)[Len(v) + 1] = d
  OBVIOUS
<1>2. Len(u) = Len(v) /\ \A k \in 1 .. Len(u) : u[k] = v[k]
  BY <1>1
<1>3. QED BY <1>1, <1>2, SameString

(* The labels with one more state, which spells lab[s] and c. *)
Grown(lab, last, s, c) ==
    [t \in DOMAIN lab \cup {last + 1} |-> IF t = last + 1 THEN Append(lab[s], c) ELSE lab[t]]

LEMMA GrownFacts ==
    ASSUME NEW lab, NEW last, Labels(lab, last),
           NEW s \in 0 .. last, NEW c \in Char, \A t \in 0 .. last : ~ Child(lab, s, c, t)
    PROVE  /\ Labels(Grown(lab, last, s, c), last + 1)
           /\ DOMAIN Grown(lab, last, s, c) = 0 .. last + 1
           /\ \A t : t \in 0 .. last + 1 <=> t \in 0 .. last \/ t = last + 1
           /\ last + 1 \notin 0 .. last
           /\ Grown(lab, last, s, c)[last + 1] = Append(lab[s], c)
           /\ \A t \in 0 .. last : Grown(lab, last, s, c)[t] = lab[t]
           /\ \A t \in 0 .. last : lab[t] # Append(lab[s], c)
<1>1. last \in Nat /\ DOMAIN lab = 0 .. last
  BY LabelFacts
<1>2. Labels(Grown(lab, last, s, c), last + 1)
  BY LabelsGrow DEF Grown
<1>3. (\A t : t \in 0 .. last + 1 <=> t \in 0 .. last \/ t = last + 1) /\ last + 1 \notin 0 .. last
  BY <1>1
<1>4. 0 .. last \cup {last + 1} = 0 .. last + 1
  BY <1>3
<1>5. QED BY <1>1, <1>2, <1>3, <1>4 DEF Grown, Child

LEMMA TrieGrows ==
    ASSUME NEW lab, NEW last, Labels(lab, last),
           NEW S, NEW table, DOMAIN table = S, 0 .. last + 1 \subseteq S,
           \A s \in 0 .. last, c \in Char : TrieEntry(lab, table, s, c),
           DOMAIN table[last + 1] = {},
           NEW s0 \in 0 .. last, NEW c0 \in Char, \A t \in 0 .. last : ~ Child(lab, s0, c0, t)
    PROVE  /\ \A s \in 0 .. last + 1, c \in Char :
                TrieEntry(Grown(lab, last, s0, c0),
                          List_PutNextState(table, s0, c0, last + 1), s, c)
           /\ DOMAIN List_PutNextState(table, s0, c0, last + 1)[last + 1] = {}
<1> DEFINE to == Grown(lab, last, s0, c0)
           put == List_PutNextState(table, s0, c0, last + 1)
           top == last + 1
<1>1. /\ DOMAIN to = 0 .. top /\ Labels(to, top)
      /\ \A t : t \in 0 .. top <=> t \in 0 .. last \/ t = top
      /\ top \notin 0 .. last /\ to[top] = Append(lab[s0], c0)
      /\ \A t \in 0 .. last : to[t] = lab[t] /\ lab[t] # Append(lab[s0], c0)
  BY GrownFacts
<1>2. /\ DOMAIN put[s0] = DOMAIN table[s0] \cup {c0} /\ put[s0][c0] = top
      /\ \A d \in DOMAIN table[s0] : d # c0 => put[s0][d] = table[s0][d]
      /\ \A t \in S : t # s0 => put[t] = table[t]
  <2>1. s0 \in S
    <3>1. last \in Nat
      BY LabelFacts
    <3>2. s0 \in 0 .. last + 1
      BY <3>1
    <3>3. QED BY <3>2
  <2>2. QED BY <2>1, PutFacts
<1>3. DOMAIN lab = 0 .. last /\ last \in Nat /\ \A t \in 0 .. last : lab[t] \in Seq(Char)
  BY LabelFacts
<1>4. DOMAIN put[top] = {}
  BY <1>1, <1>2
<1> HIDE DEF to, put, top
<1>5. ASSUME NEW s \in 0 .. last, NEW c \in Char PROVE TrieEntry(to, put, s, c)
  <2>1. /\ c \in DOMAIN table[s] => table[s][c] \in 0 .. last /\ lab[table[s][c]] = Append(lab[s], c)
        /\ \A t \in 0 .. last : lab[t] = Append(lab[s], c) => c \in DOMAIN table[s]
    BY <1>3 DEF TrieEntry, Child
  <2>2. CASE s = s0 /\ c = c0
    BY <1>1, <1>2, <2>2 DEF TrieEntry, Child
  <2>3. CASE ~(s = s0 /\ c = c0)
    <3>1. /\ c \in DOMAIN put[s] <=> c \in DOMAIN table[s]
          /\ c \in DOMAIN table[s] => put[s][c] = table[s][c]
      BY <1>1, <1>2, <2>3 DEF top
    <3>2. ~ Child(to, s, c, top)
      <4>1. Append(lab[s0], c0) = Append(lab[s], c) => lab[s0] = lab[s] /\ c0 = c
        <5>1. lab[s0] \in Seq(Char) /\ lab[s] \in Seq(Char)
          BY <1>3
        <5>2. PICK v0 \in Seq(Char), v \in Seq(Char) : v0 = lab[s0] /\ v = lab[s]
          BY <5>1
        <5>3. ASSUME Append(v0, c0) = Append(v, c) PROVE v0 = v /\ c0 = c
          BY <5>3, SameAppend
        <5>4. QED BY <5>2, <5>3
      <4>2. lab[s0] = lab[s] => s0 = s
        BY DEF Labels
      <4>3. QED BY <1>1, <2>3, <4>1, <4>2 DEF Child
    <3>3. c \in DOMAIN put[s] => put[s][c] \in DOMAIN to /\ Child(to, s, c, put[s][c])
      BY <1>1, <2>1, <3>1 DEF Child
    <3>4. ASSUME NEW t \in DOMAIN to, Child(to, s, c, t) PROVE c \in DOMAIN put[s]
      <4>1. t \in 0 .. last
        BY <1>1, <3>2, <3>4
      <4>2. QED BY <1>1, <2>1, <3>1, <3>4, <4>1 DEF Child
    <3>5. QED BY <3>3, <3>4 DEF TrieEntry
  <2>4. QED BY <2>2, <2>3
<1>6. ASSUME NEW c \in Char PROVE TrieEntry(to, put, top, c)
  <2>1. ASSUME NEW t \in DOMAIN to, Child(to, top, c, t) PROVE FALSE
    <3>1. top \in 0 .. top /\ t \in 0 .. top
      BY <1>1
    <3>2. t # top /\ t # 0
      BY <1>1, <2>1, <3>1, ChildFacts
    <3>3. t \in 0 .. last
      BY <1>1, <3>2
    <3>4. PICK u \in 0 .. last, d \in Char : Child(lab, u, d, t)
      BY <3>2, <3>3, HasParent
    <3>5. lab[t] = Append(lab[u], d) /\ lab[t] = Append(to[top], c)
      BY <1>1, <2>1, <3>3, <3>4 DEF Child
    <3>6. to[top] \in Seq(Char) /\ lab[u] \in Seq(Char)
      BY <1>1, <1>3, <3>1, LabelFacts
    <3>7. lab[u] = to[top]
      <4>1. Append(lab[u], d) = Append(to[top], c)
        BY <3>5
      <4>2. PICK v \in Seq(Char), w \in Seq(Char) : v = lab[u] /\ w = to[top]
        BY <3>6
      <4>3. Append(v, d) = Append(w, c)
        BY <4>1, <4>2
      <4>4. v = w
        BY <4>3, SameAppend
      <4>5. QED BY <4>2, <4>4
    <3>8. QED BY <1>1, <3>7
  <2>2. QED BY <1>4, <2>1 DEF TrieEntry
<1>7. \A s \in 0 .. top, c \in Char : TrieEntry(to, put, s, c)
  BY <1>1, <1>5, <1>6
<1>8. QED BY <1>4, <1>7 DEF to, put, top

LEMMA AddStateInv == IInv /\ AddState => IInv'
<1> SUFFICES ASSUME IInv, AddState PROVE IInv'
  OBVIOUS
<1> DEFINE c == At(patrn, n)
           new == acsmNumStates + 1
<1>1. /\ pc \in {"match_up", "add_rest"} /\ pc' = "add_rest" /\ n < Len(patrn)
      /\ pc = "match_up" => NextByte \in {FAIL, 0}
      /\ acsmNumStates' = new /\ state' = new /\ n' = n + 1
      /\ acsmTransTable' = List_PutNextState(acsmTransTable, state, c, new)
      /\ label' = Grown(label, acsmNumStates, state, c)
      /\ UNCHANGED <<acMode, input, addVars>> /\ UNCHANGED <<plist, acsmMatchList>>
      /\ UNCHANGED graphVars
  BY DEF AddState, Grown
<1>2. /\ TypeOK /\ ListInv /\ TrieInv
      /\ plist \in 1 .. Len(acsmPatterns)
      /\ patrn \in Seq(Char) /\ Len(patrn) \in Nat \ {0}
      /\ TrieStates = 0 .. acsmNumStates /\ DOMAIN label = 0 .. acsmNumStates
      /\ acsmNumStates \in Nat /\ state \in 0 .. acsmNumStates
      /\ Labels(label, acsmNumStates)
      /\ label[state] \in Seq(Char) /\ Len(label[state]) = n /\ n \in Nat
      /\ IsFront(label[state], patrn)
      /\ 0 .. acsmNumStates \subseteq Slots
      /\ acsmMaxStates \in Nat \ {0} /\ Slots = 0 .. acsmMaxStates - 1
      /\ DOMAIN acsmPatterns = 1 .. Len(acsmPatterns)
  BY <1>1, TrieFacts
<1>3. ListInv' /\ acsmMaxStates' = acsmMaxStates /\ Slots' = Slots
  BY <1>1, <1>2, ListStays
<1>4. acsmPatterns' = acsmPatterns /\ patrn' = patrn /\ TrieStates' = DOMAIN label'
  BY <1>1 DEF addVars, patrn, TrieStates
<1>5. c \in Char /\ IsFront(Append(label[state], c), patrn)
  BY <1>1, <1>2, FrontGrows
<1> HIDE DEF c
<1>6. \A t \in 0 .. acsmNumStates : ~ Child(label, state, c, t)
  <2>1. TrieEntry(label, acsmTransTable, state, c)
    BY <1>2, <1>5 DEF TrieInv
  <2>2. CASE pc = "match_up"
    BY <1>1, <1>2, <1>5, <2>1, <2>2, TrieNext DEF NextByte, c
  <2>3. CASE pc = "add_rest"
    <3>1. c \notin DOMAIN acsmTransTable[state]
      BY <1>2, <2>3 DEF TrieInv
    <3>2. QED BY <1>2, <2>1, <3>1 DEF TrieEntry
  <2>4. QED BY <1>1, <2>2, <2>3
<1>7. new \in Slots /\ new \in 0 .. acsmMaxStates /\ new \in Nat /\ 0 .. new \subseteq Slots
      /\ acsmNumStates' <= LengthsUpTo(acsmPatterns')[plist' - 1] + n'
  <2>1. /\ LengthsUpTo(acsmPatterns)[plist - 1] \in Nat
        /\ acsmNumStates <= LengthsUpTo(acsmPatterns)[plist - 1] + n
        /\ LengthsUpTo(acsmPatterns)[plist] = LengthsUpTo(acsmPatterns)[plist - 1] + Len(patrn)
        /\ LengthsUpTo(acsmPatterns)[plist] <= acsmMaxStates - 1
    BY <1>1, TrieFacts
  <2>2. new <= acsmMaxStates - 1
    BY <1>1, <1>2, <2>1
  <2>3. new \in Slots /\ new \in 0 .. acsmMaxStates /\ new \in Nat /\ 0 .. new \subseteq Slots
    BY <1>1, <1>2, <2>2
  <2>4. acsmNumStates' <= LengthsUpTo(acsmPatterns)[plist - 1] + (n + 1)
    BY <1>1, <1>2, <2>1
  <2>5. acsmPatterns' = acsmPatterns /\ plist' = plist /\ n' = n + 1
    BY <1>1, <1>4
  <2>6. QED BY <2>3, <2>4, <2>5
<1>8. /\ Labels(label', new) /\ DOMAIN label' = 0 .. new
      /\ \A t : t \in 0 .. new <=> t \in 0 .. acsmNumStates \/ t = new
      /\ new \notin 0 .. acsmNumStates
      /\ label'[new] = Append(label[state], c)
      /\ \A t \in 0 .. acsmNumStates : label'[t] = label[t] /\ label[t] # Append(label[state], c)
  <2> DEFINE to == Grown(label, acsmNumStates, state, c)
  <2>1. /\ Labels(to, acsmNumStates + 1)
        /\ DOMAIN to = 0 .. acsmNumStates + 1
        /\ \A t : t \in 0 .. acsmNumStates + 1 <=> t \in 0 .. acsmNumStates \/ t = acsmNumStates + 1
        /\ acsmNumStates + 1 \notin 0 .. acsmNumStates
        /\ to[acsmNumStates + 1] = Append(label[state], c)
        /\ \A t \in 0 .. acsmNumStates : to[t] = label[t]
        /\ \A t \in 0 .. acsmNumStates : label[t] # Append(label[state], c)
    <3>1. Labels(label, acsmNumStates) /\ state \in 0 .. acsmNumStates /\ c \in Char
      BY <1>2, <1>5
    <3>2. QED BY <1>6, <3>1, GrownFacts
  <2>2. label' = to
    BY <1>1
  <2> HIDE DEF to
  <2>3. QED BY <2>1, <2>2
<1>9. /\ DOMAIN acsmTransTable = Slots /\ \A s \in Slots : DOMAIN acsmTransTable[s] \subseteq Char
      /\ \A s \in 0 .. acsmNumStates, d \in Char : TrieEntry(label, acsmTransTable, s, d)
      /\ \A s \in Slots : s \notin 0 .. acsmNumStates =>
            DOMAIN acsmTransTable[s] = {} /\ acsmMatchList[s] = << >>
  BY <1>2 DEF TrieInv, TableTyped
<1>10. /\ \A s \in 0 .. new, d \in Char : TrieEntry(label', acsmTransTable', s, d)
       /\ DOMAIN acsmTransTable'[new] = {}
  <2>1. DOMAIN acsmTransTable[new] = {}
    BY <1>7, <1>8, <1>9
  <2>2. 0 .. acsmNumStates + 1 \subseteq Slots
    BY <1>7
  <2>3. QED BY <1>1, <1>2, <1>5, <1>6, <1>9, <2>1, <2>2, TrieGrows
<1>11. /\ DOMAIN acsmTransTable' = Slots
       /\ DOMAIN acsmTransTable'[state] = DOMAIN acsmTransTable[state] \cup {c}
       /\ \A s \in Slots : s # state => acsmTransTable'[s] = acsmTransTable[s]
  <2>1. state \in Slots
    BY <1>2
  <2>2. QED BY <1>1, <1>9, <2>1, PutFacts
<1> HIDE DEF new
<1>12. TableTyped'
  BY <1>3, <1>5, <1>9, <1>11 DEF TableTyped
<1>13. ASSUME NEW s \in Slots' \ TrieStates'
       PROVE  DOMAIN acsmTransTable'[s] = {} /\ acsmMatchList'[s] = << >>
  BY <1>1, <1>2, <1>3, <1>4, <1>8, <1>9, <1>11
<1>14. ASSUME NEW s \in TrieStates' PROVE ListsOwn(label, acsmMatchList[s], plist, s)'
  <2>1. CASE s \in 0 .. acsmNumStates
    <3>1. ListsOwn(label, acsmMatchList[s], plist, s) /\ label'[s] = label[s]
      BY <1>2, <1>8, <2>1 DEF TrieInv
    <3>2. QED BY <1>1, <1>4, <3>1 DEF ListsOwn
  <2>2. CASE s = new
    <3>1. acsmMatchList'[s] = << >>
      BY <1>1, <1>7, <1>8, <1>9, <2>2
    <3>2. \A e \in 1 .. plist - 1 : \E t \in 0 .. acsmNumStates : label[t] = acsmPatterns[e].patrn
      BY <1>2 DEF TrieInv
    <3>3. \A e \in DOMAIN acsmPatterns : e < plist => e \in 1 .. plist - 1
      BY <1>2
    <3>4. \A e \in DOMAIN acsmPatterns : ~(e < plist /\ label'[s] = acsmPatterns[e].patrn)
      BY <1>8, <2>2, <3>2, <3>3
    <3>5. QED BY <1>1, <1>4, <3>1, <3>4, NothingQueued DEF ListsOwn
  <2>3. QED BY <1>4, <1>8, <2>1, <2>2
<1>15. \A e \in 1 .. plist' - 1 : \E s \in TrieStates' : label'[s] = acsmPatterns'[e].patrn
  <2>1. \A e \in 1 .. plist - 1 : \E s \in 0 .. acsmNumStates : label[s] = acsmPatterns[e].patrn
    BY <1>2 DEF TrieInv
  <2>2. QED BY <1>1, <1>4, <1>8, <2>1
<1>16. /\ plist' <= Len(acsmPatterns')
       /\ state' \in TrieStates' /\ Len(label'[state']) = n' /\ IsFront(label'[state'], patrn')
       /\ DOMAIN acsmTransTable'[state'] = {}
  <2>1. Len(Append(label[state], c)) = n + 1
    BY <1>2, <1>5, AppendFacts
  <2>2. plist <= Len(acsmPatterns)
    BY <1>2 DEF TrieInv
  <2>3. new \in 0 .. new
    BY <1>8
  <2>4. QED BY <1>1, <1>4, <1>5, <1>8, <1>10, <2>1, <2>2, <2>3
<1>17. queue' = << >> /\ r' = 0 /\ i' = 0 /\ fs' = 0
  BY <1>1, <1>2 DEF TrieInv, graphVars
<1>18. TrieInv'
  BY <1>1, <1>4, <1>7, <1>8, <1>10, <1>12, <1>13, <1>14, <1>15, <1>16, <1>17 DEF TrieInv
<1>19. TypeOK'
  <2>1. /\ plist \in 1 .. Len(acsmPatterns) + 1
        /\ r \in Slots /\ fs \in Slots /\ i \in 0 .. AlphabetSize
        /\ queue \in Seq(1 .. acsmMaxStates - 1)
        /\ acsmMatchList \in [Slots -> Seq(DOMAIN acsmPatterns)]
    BY <1>1, <1>2, TypeFacts
  <2>2. n' \in Nat /\ pc' \in PcValues /\ pc # "add"
    BY <1>1, <1>2 DEF PcValues
  <2>3. UNCHANGED <<queue, r, i, fs>>
    BY <1>1 DEF graphVars
  <2>4. DOMAIN label' \subseteq Slots /\ label' \in [DOMAIN label' -> Seq(Char)]
    BY <1>7, <1>8 DEF Labels
  <2>5. QED BY <1>1, <1>2, <1>7, <2>1, <2>2, <2>3, <2>4, TypeStays
<1>20. QED BY <1>1, <1>3, <1>18, <1>19 DEF IInv, TriePhase, NfaPhase, DfaPhase

LEMMA AddMatchListEntryInv == IInv /\ AddMatchListEntry => IInv'
<1> SUFFICES ASSUME IInv, AddMatchListEntry PROVE IInv'
  OBVIOUS
<1>1. /\ pc \in {"match_up", "add_rest"} /\ n = Len(patrn)
      /\ acsmMatchList' = [acsmMatchList EXCEPT ![state] = <<plist>> \o @]
      /\ plist' = plist + 1 /\ n' = 0 /\ state' = 0
      /\ pc' = IF plist < Len(acsmPatterns) THEN "match_up" ELSE "states_end"
      /\ UNCHANGED <<acMode, input, addVars>>
      /\ UNCHANGED <<acsmNumStates, label, acsmTransTable>> /\ UNCHANGED graphVars
  BY DEF AddMatchListEntry
<1>2. /\ TypeOK /\ ListInv /\ TrieInv
      /\ plist \in 1 .. Len(acsmPatterns)
      /\ patrn \in Seq(Char) /\ Len(patrn) \in Nat \ {0}
      /\ TrieStates = 0 .. acsmNumStates /\ DOMAIN label = 0 .. acsmNumStates
      /\ acsmNumStates \in Nat /\ state \in 0 .. acsmNumStates
      /\ Labels(label, acsmNumStates)
      /\ label[state] \in Seq(Char) /\ Len(label[state]) = n
      /\ IsFront(label[state], patrn)
      /\ 0 .. acsmNumStates \subseteq Slots
      /\ acsmMaxStates \in Nat \ {0} /\ Slots = 0 .. acsmMaxStates - 1
      /\ DOMAIN acsmPatterns = 1 .. Len(acsmPatterns) /\ Len(acsmPatterns) \in Nat
      /\ 0 \in Slots
      /\ \A e \in 1 .. Len(acsmPatterns) : acsmPatterns[e].patrn \in Seq(Char)
  BY <1>1, TrieFacts
<1>3. ListInv' /\ acsmMaxStates' = acsmMaxStates /\ Slots' = Slots
  BY <1>1, <1>2, ListStays
<1>4. acsmPatterns' = acsmPatterns /\ TrieStates' = TrieStates
  BY <1>1 DEF addVars, TrieStates
<1>5. label[state] = patrn /\ patrn = acsmPatterns[plist].patrn
  <2>1. label[state] \in Seq(Char) /\ patrn \in Seq(Char) /\ Len(label[state]) = Len(patrn)
    BY <1>1, <1>2
  <2>2. label[state] = patrn
    BY <1>2, <2>1, FrontTransitive
  <2>3. QED BY <2>2 DEF patrn
<1>6. acsmMatchList \in [Slots -> Seq(DOMAIN acsmPatterns)] /\ state \in Slots
  BY <1>1, <1>2, TypeFacts
<1> DEFINE own == <<plist>> \o acsmMatchList[state]
<1>7. /\ acsmMatchList' \in [Slots -> Seq(DOMAIN acsmPatterns)]
      /\ acsmMatchList'[state] = own
      /\ \A s \in Slots : s # state => acsmMatchList'[s] = acsmMatchList[s]
  <2>1. own \in Seq(DOMAIN acsmPatterns)
    <3>1. <<plist>> \in Seq(DOMAIN acsmPatterns) /\ acsmMatchList[state] \in Seq(DOMAIN acsmPatterns)
      BY <1>2, <1>6
    <3>2. QED BY <3>1, Joined
  <2> HIDE DEF own
  <2>2. acsmMatchList' = [acsmMatchList EXCEPT ![state] = own]
    BY <1>1 DEF own
  <2>3. QED BY <1>6, <2>1, <2>2
<1>8. ASSUME NEW s \in TrieStates' PROVE ListsOwn(label, acsmMatchList[s], plist, s)'
  <2>1. ListsOwn(label, acsmMatchList[s], plist, s) /\ s \in Slots /\ s \in 0 .. acsmNumStates
    BY <1>2, <1>4 DEF TrieInv
  <2>2. \A e \in DOMAIN acsmPatterns : e < plist + 1 <=> e < plist \/ e = plist
    BY <1>2
  <2>3. CASE s = state
    <3>1. /\ \A e \in DOMAIN acsmPatterns : InQueue(acsmMatchList[s], e) <=>
                e < plist /\ label[s] = acsmPatterns[e].patrn
          /\ NoneTwice(acsmMatchList[s])
      BY <2>1 DEF ListsOwn
    <3>2. acsmMatchList[s] \in Seq(DOMAIN acsmPatterns) /\ plist \in DOMAIN acsmPatterns
          /\ <<plist>> \in Seq(DOMAIN acsmPatterns)
      BY <1>2, <1>6, <2>1
    <3>3. ~ InQueue(acsmMatchList[s], plist)
      BY <1>2, <3>1, <3>2
    <3>4. /\ \A x : InQueue(<<plist>>, x) <=> x = plist
          /\ NoneTwice(<<plist>>)
      BY OneQueued
    <3>5. /\ \A x : InQueue(own, x) <=> x = plist \/ InQueue(acsmMatchList[s], x)
          /\ NoneTwice(own)
      <4>1. \A x : ~(InQueue(<<plist>>, x) /\ InQueue(acsmMatchList[s], x))
        BY <3>3, <3>4
      <4>2. QED BY <2>3, <3>1, <3>2, <3>4, <4>1, Joined
    <3> HIDE DEF own
    <3>6. \A e \in DOMAIN acsmPatterns : InQueue(own, e) <=>
                e < plist + 1 /\ label[s] = acsmPatterns[e].patrn
      BY <1>5, <2>2, <2>3, <3>1, <3>5
    <3>7. QED BY <1>1, <1>4, <1>7, <2>3, <3>5, <3>6 DEF ListsOwn
  <2>4. CASE s # state
    <3>1. label[s] # acsmPatterns[plist].patrn
      BY <1>2, <1>5, <2>1, <2>4 DEF Labels
    <3>2. acsmMatchList'[s] = acsmMatchList[s]
      BY <1>7, <2>1, <2>4
    <3>3. QED BY <1>1, <1>4, <2>1, <2>2, <3>1, <3>2 DEF ListsOwn
  <2>5. QED BY <2>3, <2>4
<1>9. ASSUME NEW e \in 1 .. plist' - 1
      PROVE  \E s \in TrieStates' : label'[s] = acsmPatterns'[e].patrn
  <2>1. e \in 1 .. plist - 1 \/ e = plist
    BY <1>1, <1>2, <1>9
  <2>2. \A x \in 1 .. plist - 1 : \E s \in TrieStates : label[s] = acsmPatterns[x].patrn
    BY <1>2 DEF TrieInv
  <2>3. QED BY <1>1, <1>2, <1>4, <1>5, <2>1, <2>2
<1>10. acsmNumStates' <= LengthsUpTo(acsmPatterns')[plist' - 1] + n'
  <2>1. /\ acsmNumStates <= LengthsUpTo(acsmPatterns)[plist - 1] + n
        /\ LengthsUpTo(acsmPatterns)[plist] = LengthsUpTo(acsmPatterns)[plist - 1] + Len(patrn)
        /\ LengthsUpTo(acsmPatterns)[plist - 1] \in Nat
    BY <1>1, TrieFacts
  <2>2. plist' - 1 = plist
    BY <1>1, <1>2
  <2>3. QED BY <1>1, <1>2, <1>4, <2>1, <2>2
<1>11. ASSUME NEW s \in Slots' \ TrieStates'
       PROVE  DOMAIN acsmTransTable'[s] = {} /\ acsmMatchList'[s] = << >>
  <2>1. s \in Slots \ TrieStates /\ s # state
    BY <1>2, <1>3, <1>4
  <2>2. DOMAIN acsmTransTable[s] = {} /\ acsmMatchList[s] = << >>
    BY <1>2, <2>1 DEF TrieInv
  <2>3. QED BY <1>1, <1>7, <2>1, <2>2
<1>12. /\ Labels(label', acsmNumStates') /\ TableTyped'
       /\ \A s \in TrieStates', c \in Char : TrieEntry(label', acsmTransTable', s, c)
  BY <1>1, <1>2, <1>3, <1>4 DEF TrieInv, TableTyped
<1>13. queue' = << >> /\ r' = 0 /\ i' = 0 /\ fs' = 0
  BY <1>1, <1>2 DEF TrieInv, graphVars
<1>14. pc' \in {"match_up", "add_rest"} =>
        /\ plist' <= Len(acsmPatterns')
        /\ state' \in TrieStates' /\ Len(label'[state']) = n' /\ IsFront(label'[state'], patrn')
  <2>1. pc' \in {"match_up", "add_rest"} => plist + 1 \in 1 .. Len(acsmPatterns)
    BY <1>1, <1>2
  <2>2. 0 \in 0 .. acsmNumStates /\ label[0] = << >> /\ Len(label[0]) = 0
    BY <1>2, LabelFacts DEF Labels
  <2>3. ASSUME NEW v \in Seq(Char) PROVE IsFront(<< >>, v)
    BY DEF IsFront
  <2>4. pc' \in {"match_up", "add_rest"} => patrn' \in Seq(Char)
    BY <1>1, <1>2, <1>4, <2>1 DEF patrn
  <2>5. QED BY <1>1, <1>2, <1>4, <2>1, <2>2, <2>3, <2>4
<1>15. pc' = "states_end" => plist' = Len(acsmPatterns') + 1 /\ n' = 0
  <2>1. ~(plist < Len(acsmPatterns)) => plist + 1 = Len(acsmPatterns) + 1
    BY <1>2
  <2>2. QED BY <1>1, <1>4, <2>1
<1>16. pc' \in {"match_up", "states_end"}
  BY <1>1
<1>17. TrieInv'
  BY <1>8, <1>9, <1>10, <1>11, <1>12, <1>13, <1>14, <1>15, <1>16 DEF TrieInv
<1>18. TypeOK'
  <2>1. /\ acsmNumStates \in 0 .. acsmMaxStates
        /\ r \in Slots /\ fs \in Slots /\ i \in 0 .. AlphabetSize
        /\ queue \in Seq(1 .. acsmMaxStates - 1)
        /\ DOMAIN label \subseteq Slots /\ label \in [DOMAIN label -> Seq(Char)]
    BY <1>1, <1>2, TypeFacts
  <2>2. plist + 1 \in 1 .. Len(acsmPatterns) + 1
    BY <1>2
  <2>3. plist' \in 1 .. Len(acsmPatterns) + 1 /\ n' \in Nat /\ pc' \in PcValues /\ pc # "add"
    BY <1>1, <1>16, <2>2 DEF PcValues
  <2>4. UNCHANGED <<queue, r, i, fs>> /\ state' \in Slots
    BY <1>1, <1>2 DEF graphVars
  <2>5. QED BY <1>1, <1>2, <1>7, <2>1, <2>3, <2>4, TypeStays
<1>19. QED BY <1>3, <1>16, <1>17, <1>18 DEF IInv, TriePhase, NfaPhase, DfaPhase

-----------------------------------------------------------------------------
(* The failure links.                                                      *)

LEMMA ListsAsQueue ==
    ASSUME NEW mlist, NEW list, NEW v
    PROVE  A!ListsSuffixes(mlist, list, v) <=>
              /\ \A e \in DOMAIN list : EndsWith(v, list[e].patrn) <=> InQueue(mlist, e)
              /\ NoneTwice(mlist)
  BY DEF A!ListsSuffixes, InQueue, NoneTwice, A!EndsWith, EndsWith

LEMMA Narrow ==
    ASSUME NEW S, NEW T, NEW q \in Seq(S), \A k \in 1 .. Len(q) : q[k] \in T
    PROVE  q \in Seq(T)
<1>1. q = [k \in 1 .. Len(q) |-> q[k]] /\ Len(q) \in Nat
  OBVIOUS
<1>2. q \in [1 .. Len(q) -> T]
  BY <1>1
<1>3. QED BY <1>1, <1>2

LEMMA RootChildrenFacts ==
    ASSUME NEW last, Labels(label, last), 0 .. last \subseteq Slots,
           Slots = 0 .. acsmMaxStates - 1, acsmMaxStates \in Nat,
           \A c \in Char : TrieEntry(label, acsmTransTable, 0, c)
    PROVE  /\ RootChildren \in Seq(1 .. acsmMaxStates - 1)
           /\ \A x : InQueue(RootChildren, x) <=>
                        x \in 0 .. last /\ \E c \in Char : Child(label, 0, c, x)
           /\ NoneTwice(RootChildren)
           /\ \A k \in 1 .. Len(RootChildren) :
                RootChildren[k] \in 0 .. last /\ RootChildren[k] # 0
                /\ Len(label[RootChildren[k]]) = 1
<1>1. 0 \in 0 .. last /\ last \in Nat /\ Len(label[0]) = 0
  BY LabelFacts DEF Labels
<1>2. ASSUME NEW c \in Char
      PROVE  \/ /\ List_GetNextState(0, c) \in 0 .. last /\ List_GetNextState(0, c) # 0
                /\ Child(label, 0, c, List_GetNextState(0, c))
             \/ /\ List_GetNextState(0, c) = 0
                /\ \A u \in 0 .. last : ~ Child(label, 0, c, u)
  BY <1>1, TrieNext
<1>3. \A c \in Char : List_GetNextState(0, c) \in Nat
  BY <1>1, <1>2
<1>4. /\ RootChildren \in Seq(Nat) /\ NoneTwice(RootChildren)
      /\ \A x : InQueue(RootChildren, x) <=>
                   x # 0 /\ \E c \in Char : x = List_GetNextState(0, c)
  BY <1>3, RootQueue
<1>5. ASSUME NEW x
      PROVE  InQueue(RootChildren, x) <=> x \in 0 .. last /\ \E c \in Char : Child(label, 0, c, x)
  <2>1. ASSUME InQueue(RootChildren, x)
        PROVE  x \in 0 .. last /\ \E c \in Char : Child(label, 0, c, x)
    BY <1>2, <1>4, <2>1
  <2>2. ASSUME x \in 0 .. last, NEW c \in Char, Child(label, 0, c, x)
        PROVE  InQueue(RootChildren, x)
    <3>1. Child(label, 0, c, List_GetNextState(0, c)) /\ List_GetNextState(0, c) \in 0 .. last
      BY <1>2, <2>2
    <3>2. x = List_GetNextState(0, c) /\ x # 0
      BY <1>1, <2>2, <3>1, ChildUnique, ChildFacts
    <3>3. QED BY <1>4, <3>2
  <2>3. QED BY <2>1, <2>2
<1>6. ASSUME NEW k \in 1 .. Len(RootChildren)
      PROVE  /\ RootChildren[k] \in 0 .. last /\ RootChildren[k] # 0
             /\ Len(label[RootChildren[k]]) = 1
  <2>1. InQueue(RootChildren, RootChildren[k])
    BY DEF InQueue
  <2>2. PICK c \in Char : RootChildren[k] \in 0 .. last /\ Child(label, 0, c, RootChildren[k])
    BY <1>5, <2>1
  <2>3. /\ RootChildren[k] # 0
        /\ Len(label[RootChildren[k]]) = Len(label[0]) + 1
    <3>1. 0 \in 0 .. last
      BY <1>1
    <3>2. QED BY <2>2, <3>1, ChildFacts
  <2>4. Len(label[RootChildren[k]]) = 1
    BY <1>1, <2>3
  <2>5. QED BY <2>2, <2>3, <2>4
<1>7. RootChildren \in Seq(1 .. acsmMaxStates - 1)
  <2>1. \A k \in 1 .. Len(RootChildren) : RootChildren[k] \in 1 .. acsmMaxStates - 1
    <3>1. ASSUME NEW k \in 1 .. Len(RootChildren) PROVE RootChildren[k] \in 1 .. acsmMaxStates - 1
      <4>1. RootChildren[k] \in 0 .. acsmMaxStates - 1 /\ RootChildren[k] # 0
        BY <1>6
      <4>2. QED BY <4>1
    <3>2. QED BY <3>1
  <2>2. QED BY <1>4, <2>1, Narrow
<1>8. QED BY <1>4, <1>5, <1>6, <1>7

LEMMA RootQueueOrdered ==
    ASSUME NEW last, Labels(label, last), 0 .. last \subseteq Slots,
           Slots = 0 .. acsmMaxStates - 1, acsmMaxStates \in Nat,
           \A c \in Char : TrieEntry(label, acsmTransTable, 0, c)
    PROVE  /\ Ordered(label, RootChildren)
           /\ After(label, RootChildren, 0)
           /\ \A s \in 0 .. last : s # 0 =>
                \E x \in 0 .. last : InQueue(RootChildren, x) /\ AtOrBelow(label, x, s)
                                     /\ Len(label[x]) = 1
<1>1. /\ \A x : InQueue(RootChildren, x) <=>
                   x \in 0 .. last /\ \E c \in Char : Child(label, 0, c, x)
      /\ NoneTwice(RootChildren)
      /\ \A k \in 1 .. Len(RootChildren) :
           RootChildren[k] \in 0 .. last /\ RootChildren[k] # 0 /\ Len(label[RootChildren[k]]) = 1
  BY RootChildrenFacts
<1>2. 0 \in 0 .. last /\ DOMAIN label = 0 .. last /\ Len(label[0]) = 0
  BY LabelFacts DEF Labels
<1>3. Ordered(label, RootChildren)
  <2>1. 1 <= 1 /\ 1 <= 1 + 1
    OBVIOUS
  <2>2. QED BY <1>1, <1>2, <2>1 DEF Ordered
<1>4. After(label, RootChildren, 0)
  <2>1. 0 <= 1 /\ 1 <= 0 + 1
    OBVIOUS
  <2>2. QED BY <1>1, <1>2, <2>1 DEF After
<1>5. ASSUME NEW s \in 0 .. last, s # 0
      PROVE  \E x \in 0 .. last : InQueue(RootChildren, x) /\ AtOrBelow(label, x, s)
                                  /\ Len(label[x]) = 1
  <2>1. Below(label, 0, s)
    BY <1>2, <1>5, FrontFacts
  <2>2. /\ label[s][Len(label[0]) + 1] \in Char
        /\ \E x \in 0 .. last :
             Child(label, 0, label[s][Len(label[0]) + 1], x) /\ AtOrBelow(label, x, s)
    BY <1>2, <2>1, BelowFirst
  <2>3. PICK x \in 0 .. last, c \in Char : Child(label, 0, c, x) /\ AtOrBelow(label, x, s)
    BY <2>2
  <2>4. InQueue(RootChildren, x)
    BY <1>1, <2>3
  <2>5. Len(label[x]) = 1
    <3>1. Len(label[x]) = Len(label[0]) + 1
      <4>1. 0 \in 0 .. last
        BY <1>2
      <4>2. QED BY <2>3, <4>1, ChildFacts
    <3>2. QED BY <1>2, <3>1
  <2>6. QED BY <2>3, <2>4, <2>5
<1>6. QED BY <1>3, <1>4, <1>5

LEMMA GraphFacts ==
    ASSUME IInv, pc \in NfaPhase \cup DfaPhase
    PROVE  /\ TypeOK /\ ListInv /\ Built /\ TableTyped
           /\ Labels(label, acsmNumStates - 1)
           /\ DOMAIN label = 0 .. acsmNumStates - 1 /\ TrieStates = 0 .. acsmNumStates - 1
           /\ 0 \in TrieStates /\ TrieStates \subseteq Slots
           /\ Slots = 0 .. acsmMaxStates - 1 /\ acsmMaxStates \in Nat \ {0}
           /\ acsmFailState \in [TrieStates -> TrieStates]
           /\ queue \in Seq(1 .. acsmMaxStates - 1)
           /\ Ordered(label, queue)
           /\ acsmMatchList \in [Slots -> Seq(DOMAIN acsmPatterns)]
           /\ \A s \in TrieStates : label[s] \in Seq(Char) /\ Depth(s) \in Nat /\ Len(label[s]) = Depth(s)
<1>1. TypeOK /\ ListInv /\ pc # "add"
  BY DEF IInv, NfaPhase, DfaPhase
<1>2. Built /\ TableTyped /\ acsmFailState \in [TrieStates -> TrieStates] /\ Ordered(label, queue)
  BY DEF IInv, NfaInv, DfaInv
<1>3. Labels(label, acsmNumStates - 1)
  BY <1>2 DEF Built
<1>4. DOMAIN label = 0 .. acsmNumStates - 1 /\ 0 \in 0 .. acsmNumStates - 1
  BY <1>3, LabelFacts DEF Labels
<1>5. DOMAIN label \subseteq Slots /\ queue \in Seq(1 .. acsmMaxStates - 1)
      /\ acsmMatchList \in [Slots -> Seq(DOMAIN acsmPatterns)]
  BY <1>1, TypeFacts
<1>6. Slots = 0 .. acsmMaxStates - 1 /\ acsmMaxStates \in Nat \ {0}
  BY <1>1, Sizes
<1>7. TrieStates = 0 .. acsmNumStates - 1
  BY <1>4 DEF TrieStates
<1>8. \A s \in TrieStates : label[s] \in Seq(Char) /\ Depth(s) \in Nat /\ Len(label[s]) = Depth(s)
  <2>1. ASSUME NEW s \in 0 .. acsmNumStates - 1
        PROVE  label[s] \in Seq(Char) /\ Len(label[s]) \in Nat
    BY <1>3, LabelFacts
  <2>2. QED BY <1>7, <2>1 DEF Depth
<1>9. QED BY <1>1, <1>2, <1>3, <1>4, <1>5, <1>6, <1>7, <1>8

(* The steps of the two graph phases leave the trie and the list alone.    *)
LEMMA GraphStays ==
    ASSUME IInv, pc \in NfaPhase \cup DfaPhase,
           UNCHANGED <<acMode, input, addVars, trieVars>>, pc' \in PcValues,
           queue' \in Seq(1 .. acsmMaxStates - 1), r' \in Slots, fs' \in Slots,
           i' \in 0 .. AlphabetSize,
           acsmMatchList' \in [Slots -> Seq(DOMAIN acsmPatterns)]
    PROVE  /\ TypeOK' /\ ListInv' /\ Built'
           /\ label' = label /\ acsmPatterns' = acsmPatterns /\ TrieStates' = TrieStates
           /\ Slots' = Slots /\ acsmNumStates' = acsmNumStates
<1>1. TypeOK /\ ListInv /\ Built /\ pc # "add"
  BY GraphFacts DEF NfaPhase, DfaPhase
<1>2. UNCHANGED <<acMode, input, addVars>>
      /\ UNCHANGED <<plist, n, state, acsmNumStates, label, acsmPatterns>>
  BY DEF trieVars, addVars
<1>3. ListInv' /\ Slots' = Slots
  BY <1>1, <1>2, ListStays
<1>4. TrieStates' = TrieStates
  BY <1>2 DEF TrieStates
<1>5. Built'
  BY <1>1, <1>2, <1>4 DEF Built
<1>6. TypeOK'
  <2>1. /\ plist \in 1 .. Len(acsmPatterns) + 1 /\ n \in Nat
        /\ acsmNumStates \in 0 .. acsmMaxStates /\ state \in Slots
        /\ DOMAIN label \subseteq Slots /\ label \in [DOMAIN label -> Seq(Char)]
    BY <1>1, TypeFacts
  <2>2. QED BY <1>1, <1>2, <2>1, TypeStays
<1>7. QED BY <1>2, <1>3, <1>4, <1>5, <1>6

(* A state of depth 1 or 0 is settled without further ado.                 *)
LEMMA ShallowSettled ==
    ASSUME NEW last, Labels(label, last), NEW s \in 0 .. last, Len(label[s]) <= 1,
           NEW mlist, NEW list,
           \A e \in DOMAIN list : list[e].patrn \in Seq(Char) /\ Len(list[e].patrn) \in Nat \ {0},
           \A e \in DOMAIN list : InQueue(mlist, e) <=> label[s] = list[e].patrn,
           NoneTwice(mlist)
    PROVE  A!ListsSuffixes(mlist, list, label[s])
<1>1. label[s] \in Seq(Char) /\ Len(label[s]) \in Nat
  BY LabelFacts
<1>2. ASSUME NEW e \in DOMAIN list
      PROVE  EndsWith(label[s], list[e].patrn) <=> label[s] = list[e].patrn
  <2>1. ASSUME EndsWith(label[s], list[e].patrn) PROVE label[s] = list[e].patrn
    <3>1. Len(list[e].patrn) <= Len(label[s])
      BY <2>1 DEF EndsWith
    <3>2. Len(list[e].patrn) = Len(label[s])
      BY <1>1, <3>1
    <3>3. QED BY <1>1, <2>1, <3>2, SuffixOfEqualLength
  <2>2. ASSUME label[s] = list[e].patrn PROVE EndsWith(label[s], list[e].patrn)
    BY <1>1, <2>2, EveryStringEndsWith
  <2>3. QED BY <2>1, <2>2
<1>3. QED BY <1>2, ListsAsQueue

LEMMA AtMostOne ==
    ASSUME NEW k \in Nat, NEW l \in Nat
    PROVE  /\ k = 1 => k <= 1
           /\ k <= 1 /\ k # 0 => k = 1
           /\ k <= l /\ k # l /\ l = 1 => k = 0
  OBVIOUS

LEMMA BeginNfaInv == IInv /\ BeginNfa => IInv'
<1> SUFFICES ASSUME IInv, BeginNfa PROVE IInv'
  OBVIOUS
<1> DEFINE last == acsmNumStates
<1>1. /\ pc = "states_end" /\ pc' = "nfa_queue" /\ acsmNumStates' = last + 1
      /\ acsmFailState' = [s \in 0 .. last |-> 0]
      /\ queue' = RootChildren
      /\ UNCHANGED <<acMode, input, addVars>> /\ UNCHANGED <<plist, n, state, label>>
      /\ UNCHANGED <<r, i, fs>> /\ UNCHANGED <<acsmTransTable, acsmMatchList>>
  BY DEF BeginNfa
<1>2. TypeOK /\ ListInv /\ TrieInv
  BY <1>1 DEF IInv, TriePhase
<1>3. /\ Len(acsmPatterns) \in Nat /\ DOMAIN acsmPatterns = 1 .. Len(acsmPatterns)
      /\ acsmMaxStates \in Nat \ {0} /\ Slots = 0 .. acsmMaxStates - 1 /\ 0 \in Slots
      /\ \A e \in 1 .. Len(acsmPatterns) :
            /\ acsmPatterns[e].patrn \in Seq(Char) \ {<< >>}
            /\ Len(acsmPatterns[e].patrn) \in Nat \ {0}
  BY <1>2, Sizes
<1>4. ListInv' /\ acsmMaxStates' = acsmMaxStates /\ Slots' = Slots
  BY <1>1, <1>2, ListStays
<1>5. /\ Labels(label, last) /\ DOMAIN label = 0 .. last /\ TrieStates = 0 .. last /\ last \in Nat
      /\ 0 \in 0 .. last
  <2>1. Labels(label, last)
    BY <1>2 DEF TrieInv
  <2>2. DOMAIN label = 0 .. last /\ last \in Nat /\ 0 \in 0 .. last
    BY <2>1, LabelFacts DEF Labels
  <2>3. QED BY <2>1, <2>2 DEF TrieStates
<1>6. /\ plist = Len(acsmPatterns) + 1 /\ n = 0 /\ r = 0 /\ i = 0 /\ fs = 0 /\ TableTyped
      /\ \A s \in TrieStates, c \in Char : TrieEntry(label, acsmTransTable, s, c)
      /\ \A s \in TrieStates : ListsOwn(label, acsmMatchList[s], plist, s)
      /\ \A e \in 1 .. plist - 1 : \E s \in TrieStates : label[s] = acsmPatterns[e].patrn
      /\ acsmNumStates <= LengthsUpTo(acsmPatterns)[plist - 1] + n
  BY <1>1, <1>2 DEF TrieInv
<1>7. last \in Slots /\ 0 .. last \subseteq Slots /\ last + 1 \in 0 .. acsmMaxStates
  <2>1. plist - 1 = Len(acsmPatterns) /\ plist - 1 \in 0 .. Len(acsmPatterns)
    BY <1>3, <1>6
  <2>2. /\ LengthsUpTo(acsmPatterns)[plist - 1] <= SumOfLengths(acsmPatterns)
        /\ SumOfLengths(acsmPatterns) \in Nat /\ LengthsUpTo(acsmPatterns)[plist - 1] \in Nat
    BY <1>3, <2>1, SumGrows
  <2>3. last <= acsmMaxStates - 1
    BY <1>5, <1>6, <2>2 DEF acsmMaxStates
  <2>4. QED BY <1>3, <1>5, <2>3
<1>8. \A c \in Char : TrieEntry(label, acsmTransTable, 0, c)
  BY <1>5, <1>6
<1>9. /\ queue' \in Seq(1 .. acsmMaxStates - 1)
      /\ \A k \in 1 .. Len(queue') : queue'[k] \in 0 .. last /\ queue'[k] # 0 /\ Len(label[queue'[k]]) = 1
  BY <1>1, <1>3, <1>5, <1>7, <1>8, RootChildrenFacts
<1>10. /\ Ordered(label, queue') /\ After(label, queue', 0)
       /\ \A s \in 0 .. last : s # 0 =>
            \E x \in 0 .. last : InQueue(queue', x) /\ AtOrBelow(label, x, s) /\ Len(label[x]) = 1
  BY <1>1, <1>3, <1>5, <1>7, <1>8, RootQueueOrdered
<1>11. acsmNumStates' - 1 = last /\ TrieStates' = 0 .. last /\ acsmPatterns' = acsmPatterns
  BY <1>1, <1>5 DEF TrieStates, addVars
<1> HIDE DEF last
<1>12. TypeOK'
  <2>1. /\ plist \in 1 .. Len(acsmPatterns) + 1 /\ n \in Nat
        /\ state \in Slots /\ r \in Slots /\ fs \in Slots /\ i \in 0 .. AlphabetSize
        /\ DOMAIN label \subseteq Slots /\ label \in [DOMAIN label -> Seq(Char)]
        /\ acsmMatchList \in [Slots -> Seq(DOMAIN acsmPatterns)]
    BY <1>1, <1>2, TypeFacts
  <2>2. pc' \in PcValues /\ pc # "add"
    BY <1>1 DEF PcValues, NfaPhase
  <2>3. QED BY <1>1, <1>2, <1>7, <1>9, <2>1, <2>2, TypeStays
<1>13. Built'
  <2>1. \A e \in DOMAIN acsmPatterns : e \in 1 .. plist - 1
    BY <1>3, <1>6
  <2>2. \A e \in DOMAIN acsmPatterns : \E s \in TrieStates : label[s] = acsmPatterns[e].patrn
    BY <1>6, <2>1
  <2>3. QED BY <1>1, <1>5, <1>11, <2>2 DEF Built
<1>14. acsmFailState' \in [TrieStates' -> TrieStates']
  BY <1>1, <1>5, <1>11 DEF last
<1>15. ASSUME NEW s \in TrieStates'
       PROVE  IF WaitsInNfa(s)' THEN ListsOwn(label, acsmMatchList[s], Len(acsmPatterns) + 1, s)'
              ELSE Settled(s)'
  <2>1. s \in 0 .. last /\ ListsOwn(label, acsmMatchList[s], Len(acsmPatterns) + 1, s)
    BY <1>5, <1>6, <1>11
  <2>2. ListsOwn(label, acsmMatchList[s], Len(acsmPatterns) + 1, s)'
    BY <1>1, <1>11, <2>1 DEF ListsOwn
  <2>3. ASSUME ~ WaitsInNfa(s)' PROVE Settled(s)'
    <3>1. Len(label[s]) <= 1 /\ Len(label[s]) \in Nat /\ label[s] \in Seq(Char)
      <4>1. Len(label[s]) \in Nat /\ label[s] \in Seq(Char)
        BY <1>5, <2>1, LabelFacts
      <4>2. CASE s = 0
        BY <1>5, <4>2, LabelFacts DEF Labels
      <4>3. CASE s # 0
        <5>1. PICK x \in 0 .. last : InQueue(queue', x) /\ AtOrBelow(label, x, s) /\ Len(label[x]) = 1
          BY <1>10, <2>1, <4>3
        <5>2. ~ Below(label, x, s)
          BY <1>1, <1>11, <2>3, <5>1 DEF WaitsInNfa
        <5>3. x = s
          BY <1>5, <2>1, <5>1, <5>2, FrontFacts
        <5>4. QED BY <4>1, <5>1, <5>3, AtMostOne, Zenon
      <4>4. QED BY <4>1, <4>2, <4>3
    <3>2. A!ListsSuffixes(acsmMatchList[s], acsmPatterns, label[s])
      <4>1. \A e \in DOMAIN acsmPatterns :
                /\ acsmPatterns[e].patrn \in Seq(Char) /\ Len(acsmPatterns[e].patrn) \in Nat \ {0}
                /\ e < Len(acsmPatterns) + 1
        BY <1>3
      <4>2. /\ \A e \in DOMAIN acsmPatterns :
                  InQueue(acsmMatchList[s], e) <=> label[s] = acsmPatterns[e].patrn
            /\ NoneTwice(acsmMatchList[s])
        BY <2>1, <4>1 DEF ListsOwn
      <4>3. QED BY <1>5, <2>1, <3>1, <4>1, <4>2, ShallowSettled
    <3>3. s # 0 => FailsToLongestSuffix(s)'
      <4>1. SUFFICES ASSUME s # 0 PROVE FailsToLongestSuffix(s)'
        OBVIOUS
      <4>2. acsmFailState'[s] = 0 /\ label' = label /\ Len(label[0]) = 0 /\ label[0] = << >>
        BY <1>1, <1>5, <2>1, LabelFacts DEF last, Labels
      <4>3. Len(label[s]) = 1
        <5>1. Len(label[s]) # 0
          BY <1>5, <2>1, <4>1, LabelFacts
        <5>2. QED BY <3>1, <5>1, AtMostOne, Zenon
      <4>4. EndsWith(label[s], << >>)
        BY <3>1, EveryStringEndsWith
      <4>5. ASSUME NEW t \in 0 .. last, EndsWith(label[s], label[t]), t # s PROVE Len(label[t]) = 0
        <5>1. Len(label[t]) <= Len(label[s]) /\ Len(label[t]) \in Nat
          BY <1>5, <4>5, LabelFacts DEF EndsWith
        <5>2. EndsWith(label[s], label[s])
          BY <3>1, EveryStringEndsWith
        <5>3. Len(label[t]) # Len(label[s])
          BY <1>5, <2>1, <3>1, <4>5, <5>2, SuffixesDiffer
        <5>4. QED BY <4>3, <5>1, <5>3, AtMostOne, Zenon
      <4>6. Depth(s)' = 1 /\ Depth(acsmFailState[s])' = 0
        BY <4>2, <4>3 DEF Depth
      <4>7. \A t \in 0 .. last : EndsWith(label[s], label[t]) /\ t # s => Depth(t)' = 0
        BY <4>2, <4>5 DEF Depth
      <4>8. QED BY <1>11, <4>2, <4>4, <4>6, <4>7 DEF FailsToLongestSuffix
    <3>4. QED BY <1>1, <1>11, <3>2, <3>3 DEF Settled
  <2>4. QED BY <2>2, <2>3
<1>16. NfaInv'
  <2>1. TableTyped'
    BY <1>1, <1>4, <1>6 DEF TableTyped
  <2>2. \A s \in TrieStates', c \in Char : TrieEntry(label', acsmTransTable', s, c)
    BY <1>1, <1>5, <1>6, <1>11
  <2>3. Ordered(label', queue') /\ After(label', queue', r') /\ r' \in TrieStates'
    BY <1>1, <1>5, <1>6, <1>10, <1>11
  <2>4. pc' \notin {"nfa_char", "nfa_fail"}
    BY <1>1
  <2>5. QED BY <1>13, <1>14, <1>15, <2>1, <2>2, <2>3, <2>4 DEF NfaInv
<1>17. pc' = "nfa_queue"
  BY <1>1
<1>18. QED BY <1>4, <1>12, <1>16, <1>17 DEF IInv, TriePhase, NfaPhase, DfaPhase

(* The queue. *)

LEMMA InOrder ==
    ASSUME NEW lab, NEW q, NEW s, After(lab, q, s), NEW x, InQueue(q, x)
    PROVE  x # s /\ Len(lab[s]) <= Len(lab[x]) /\ Len(lab[x]) <= Len(lab[s]) + 1
  BY DEF After, InQueue

LEMMA QueuedStates ==
    ASSUME NEW lab, NEW q, Ordered(lab, q), NEW x, InQueue(q, x)
    PROVE  x \in DOMAIN lab /\ x # 0
  BY DEF Ordered, InQueue

LEMMA DequeueOrdered ==
    ASSUME NEW lab, NEW S, NEW q \in Seq(S), q # << >>, Ordered(lab, q)
    PROVE  /\ Ordered(lab, Tail(q)) /\ After(lab, Tail(q), Head(q))
           /\ Head(q) \in DOMAIN lab /\ Head(q) # 0
           /\ Head(q) \in S /\ Tail(q) \in Seq(S)
           /\ \A x : InQueue(q, x) <=> x = Head(q) \/ InQueue(Tail(q), x)
<1> DEFINE t == Tail(q)
           h == Head(q)
<1>1. /\ h \in S /\ t \in Seq(S)
      /\ Len(q) \in Nat \ {0} /\ Len(t) = Len(q) - 1
      /\ q[1] = h
      /\ \A k \in 1 .. Len(t) : t[k] = q[k + 1]
      /\ \A x : InQueue(q, x) <=> x = h \/ InQueue(t, x)
      /\ NoneTwice(q) => NoneTwice(t) /\ ~ InQueue(t, h)
  BY QueueHead
<1> HIDE DEF t, h
<1>2. /\ \A k \in 1 .. Len(q) : q[k] \in DOMAIN lab /\ q[k] # 0
      /\ NoneTwice(q)
      /\ \A k, l \in 1 .. Len(q) :
            k <= l => Len(lab[q[k]]) <= Len(lab[q[l]]) /\ Len(lab[q[l]]) <= Len(lab[q[k]]) + 1
  BY DEF Ordered
<1>3. 1 \in 1 .. Len(q) /\ \A k \in 1 .. Len(t) : k + 1 \in 1 .. Len(q) /\ 1 <= k + 1
  BY <1>1
<1>4. \A k, l \in 1 .. Len(t) : k <= l => k + 1 <= l + 1
  OBVIOUS
<1>5. \A k \in 1 .. Len(t) : t[k] \in DOMAIN lab /\ t[k] # 0
  BY <1>1, <1>2, <1>3
<1>6. ASSUME NEW k \in 1 .. Len(t), NEW l \in 1 .. Len(t), k <= l
      PROVE  Len(lab[t[k]]) <= Len(lab[t[l]]) /\ Len(lab[t[l]]) <= Len(lab[t[k]]) + 1
  <2>1. k + 1 \in 1 .. Len(q) /\ l + 1 \in 1 .. Len(q) /\ k + 1 <= l + 1
    BY <1>3, <1>4, <1>6
  <2>2. t[k] = q[k + 1] /\ t[l] = q[l + 1]
    BY <1>1
  <2>3. QED BY <1>2, <2>1, <2>2, Zenon
<1>7. ASSUME NEW k \in 1 .. Len(t)
      PROVE  t[k] # h /\ Len(lab[h]) <= Len(lab[t[k]]) /\ Len(lab[t[k]]) <= Len(lab[h]) + 1
  <2>1. t[k] = q[k + 1] /\ k + 1 \in 1 .. Len(q) /\ 1 <= k + 1 /\ 1 \in 1 .. Len(q)
    BY <1>1, <1>3
  <2>2. Len(lab[q[1]]) <= Len(lab[q[k + 1]]) /\ Len(lab[q[k + 1]]) <= Len(lab[q[1]]) + 1
    BY <1>2, <2>1, Zenon
  <2>3. t[k] # h
    BY <1>1, <1>2 DEF InQueue
  <2>4. QED BY <1>1, <2>1, <2>2, <2>3, Zenon
<1>8. h \in DOMAIN lab /\ h # 0
  BY <1>1, <1>2, <1>3
<1>9. Ordered(lab, t)
  BY <1>1, <1>2, <1>5, <1>6 DEF Ordered
<1>10. After(lab, t, h)
  BY <1>7 DEF After
<1>11. QED BY <1>1, <1>8, <1>9, <1>10 DEF t, h

LEMMA EnqueueOrdered ==
    ASSUME NEW lab, NEW last, Labels(lab, last), NEW S, NEW q \in Seq(S), Ordered(lab, q),
           NEW s \in 0 .. last, After(lab, q, s),
           NEW c \in Char, NEW t \in 0 .. last, Child(lab, s, c, t), t \in S
    PROVE  /\ Ordered(lab, queue_add(q, t)) /\ After(lab, queue_add(q, t), s)
           /\ queue_add(q, t) \in Seq(S)
           /\ \A x : InQueue(queue_add(q, t), x) <=> InQueue(q, x) \/ x = t
<1> DEFINE a == queue_add(q, t)
<1>1. /\ a \in Seq(S)
      /\ \A x : InQueue(a, x) <=> InQueue(q, x) \/ x = t
      /\ NoneTwice(q) => NoneTwice(a)
      /\ Len(q) \in Nat
      /\ \/ a = q
         \/ /\ ~ InQueue(q, t)
            /\ Len(a) = Len(q) + 1
            /\ \A k \in 1 .. Len(q) : a[k] = q[k]
            /\ a[Len(q) + 1] = t
  BY QueueAdd
<1> HIDE DEF a
<1>2. /\ \A k \in 1 .. Len(q) : q[k] \in DOMAIN lab /\ q[k] # 0
      /\ NoneTwice(q)
      /\ \A k, l \in 1 .. Len(q) :
            k <= l => Len(lab[q[k]]) <= Len(lab[q[l]]) /\ Len(lab[q[l]]) <= Len(lab[q[k]]) + 1
  BY DEF Ordered
<1>3. \A k \in 1 .. Len(q) :
            q[k] # s /\ Len(lab[s]) <= Len(lab[q[k]]) /\ Len(lab[q[k]]) <= Len(lab[s]) + 1
  BY DEF After
<1>4. t # 0 /\ t # s /\ Len(lab[t]) = Len(lab[s]) + 1 /\ Len(lab[s]) \in Nat
      /\ Len(lab[t]) \in Nat /\ DOMAIN lab = 0 .. last
  BY ChildFacts, LabelFacts
<1>5. CASE a = q
  BY <1>1, <1>5 DEF a
<1>6. CASE a # q
  <2>1. /\ Len(a) = Len(q) + 1 /\ a[Len(q) + 1] = t
        /\ \A k \in 1 .. Len(q) : a[k] = q[k]
        /\ \A k : k \in 1 .. Len(a) <=> k \in 1 .. Len(q) \/ k = Len(q) + 1
    BY <1>1, <1>6
  <2>2. \A k \in 1 .. Len(a) : a[k] \in DOMAIN lab /\ a[k] # 0
    BY <1>2, <1>4, <2>1
  <2>3. \A k \in 1 .. Len(a) :
            a[k] # s /\ Len(lab[s]) <= Len(lab[a[k]]) /\ Len(lab[a[k]]) <= Len(lab[s]) + 1
    <3>1. Len(lab[s]) <= Len(lab[t]) /\ Len(lab[t]) <= Len(lab[s]) + 1
      BY <1>4
    <3>2. QED BY <1>3, <1>4, <2>1, <3>1, Zenon
  <2>4. ASSUME NEW k \in 1 .. Len(a), NEW l \in 1 .. Len(a), k <= l
        PROVE  Len(lab[a[k]]) <= Len(lab[a[l]]) /\ Len(lab[a[l]]) <= Len(lab[a[k]]) + 1
    <3>1. CASE l \in 1 .. Len(q)
      <4>1. k \in 1 .. Len(q)
        BY <1>1, <2>1, <2>4, <3>1
      <4>2. QED BY <1>2, <2>1, <2>4, <3>1, <4>1, Zenon
    <3>2. CASE l = Len(q) + 1
      <4>1. a[l] = t
        BY <2>1, <3>2
      <4>2. Len(lab[s]) <= Len(lab[a[k]]) /\ Len(lab[a[k]]) <= Len(lab[s]) + 1
        BY <2>3
      <4>3. Len(lab[a[k]]) \in Nat
        <5>1. a[k] \in 0 .. last
          BY <1>4, <2>2
        <5>2. QED BY <5>1, LabelFacts
      <4>4. ASSUME NEW x \in Nat, NEW y \in Nat, x <= y, y <= x + 1
            PROVE  y <= x + 1 /\ x + 1 <= y + 1
        BY <4>4
      <4>5. QED BY <1>4, <4>1, <4>2, <4>3, <4>4, Zenon
    <3>3. QED BY <2>1, <3>1, <3>2
  <2>5. Ordered(lab, a)
    BY <1>1, <1>2, <2>2, <2>4 DEF Ordered
  <2>6. After(lab, a, s)
    BY <2>3 DEF After
  <2>7. QED BY <1>1, <2>5, <2>6 DEF a
<1>7. QED BY <1>5, <1>6

LEMMA Beneath ==
    ASSUME NEW lab, NEW last, Labels(lab, last), NEW x \in 0 .. last, NEW s \in 0 .. last
    PROVE  /\ Below(lab, x, s) => ~(Len(lab[s]) <= Len(lab[x]))
           /\ AtOrBelow(lab, x, s) => Len(lab[x]) <= Len(lab[s])
<1>1. Len(lab[x]) \in Nat /\ Len(lab[s]) \in Nat
  BY LabelFacts
<1>2. QED BY <1>1, FrontFacts DEF Below

(* Nothing at the depth of r or above waits.                               *)
LEMMA NoWait ==
    ASSUME NEW last, Labels(label, last), Ordered(label, queue),
           After(label, queue, r), r \in 0 .. last,
           NEW s \in 0 .. last, Len(label[s]) <= Len(label[r])
    PROVE  ~ WaitsInNfa(s)
<1>1. DOMAIN label = 0 .. last /\ Len(label[s]) \in Nat /\ Len(label[r]) \in Nat
  BY LabelFacts
<1>2. ASSUME NEW x \in TrieStates, InQueue(queue, x), Below(label, x, s) PROVE FALSE
  <2>1. Len(label[r]) <= Len(label[x])
    BY <1>2, InOrder
  <2>2. x \in 0 .. last /\ Len(label[x]) \in Nat
    BY <1>1, LabelFacts DEF TrieStates
  <2>3. ~(Len(label[s]) <= Len(label[x]))
    BY <1>2, <2>2, Beneath
  <2>4. QED BY <1>1, <2>1, <2>2, <2>3
<1>3. ~ Below(label, r, s)
  BY Beneath
<1>4. QED BY <1>2, <1>3 DEF WaitsInNfa

(* The steps of Build_NFA that only move on.                               *)
LEMMA NfaStays ==
    ASSUME IInv, pc \in NfaPhase, pc' \in NfaPhase,
           UNCHANGED <<acMode, input, addVars, trieVars>>,
           UNCHANGED <<acsmTransTable, acsmMatchList, acsmFailState>>,
           queue' \in Seq(1 .. acsmMaxStates - 1), r' \in TrieStates, fs' \in Slots,
           i' \in 0 .. AlphabetSize,
           Ordered(label, queue'), After(label, queue', r'),
           \A s \in TrieStates : WaitsInNfa(s)' <=> WaitsInNfa(s),
           pc' \in {"nfa_char", "nfa_fail"} => r' # 0,
           pc' = "nfa_fail" =>
              /\ i' < AlphabetSize
              /\ \E s \in TrieStates : Child(label, r', i', s) /\ InQueue(queue', s)
              /\ SearchesFailure'
    PROVE  IInv'
<1>1. NfaInv /\ TableTyped /\ pc \in NfaPhase \cup DfaPhase
      /\ acsmMatchList \in [Slots -> Seq(DOMAIN acsmPatterns)] /\ TrieStates \subseteq Slots
  BY GraphFacts DEF IInv
<1>2. pc' \in PcValues /\ r' \in Slots /\ acsmMatchList' \in [Slots -> Seq(DOMAIN acsmPatterns)]
  BY <1>1 DEF PcValues
<1>3. /\ TypeOK' /\ ListInv' /\ Built'
      /\ label' = label /\ acsmPatterns' = acsmPatterns /\ TrieStates' = TrieStates
      /\ Slots' = Slots
  BY <1>1, <1>2, GraphStays
<1>4. /\ \A s \in TrieStates, c \in Char : TrieEntry(label, acsmTransTable, s, c)
      /\ acsmFailState \in [TrieStates -> TrieStates]
      /\ \A s \in TrieStates :
            IF WaitsInNfa(s) THEN ListsOwn(label, acsmMatchList[s], Len(acsmPatterns) + 1, s)
            ELSE Settled(s)
  BY <1>1 DEF NfaInv
<1>5. TableTyped'
  BY <1>1, <1>3 DEF TableTyped
<1>6. ASSUME NEW s \in TrieStates'
      PROVE  IF WaitsInNfa(s)' THEN ListsOwn(label, acsmMatchList[s], Len(acsmPatterns) + 1, s)'
             ELSE Settled(s)'
  <2>1. s \in TrieStates /\ WaitsInNfa(s)' <=> WaitsInNfa(s)
    BY <1>3
  <2>2. ListsOwn(label, acsmMatchList[s], Len(acsmPatterns) + 1, s)' <=>
        ListsOwn(label, acsmMatchList[s], Len(acsmPatterns) + 1, s)
    BY <1>3 DEF ListsOwn
  <2>3. FailsToLongestSuffix(s)' <=> FailsToLongestSuffix(s)
    <3>1. \A t : Depth(t)' = Depth(t)
      BY <1>3 DEF Depth
    <3>2. QED BY <1>3, <3>1 DEF FailsToLongestSuffix
  <2>4. Settled(s)' <=> Settled(s)
    BY <1>3, <2>3 DEF Settled
  <2>5. QED BY <1>3, <1>4, <2>1, <2>2, <2>4
<1>7. NfaInv'
  BY <1>3, <1>4, <1>5, <1>6 DEF NfaInv
<1>8. QED BY <1>3, <1>7 DEF IInv, TriePhase, NfaPhase, DfaPhase

LEMMA NfaFacts ==
    ASSUME IInv, pc \in NfaPhase
    PROVE  /\ Labels(label, acsmNumStates - 1)
           /\ DOMAIN label = 0 .. acsmNumStates - 1 /\ TrieStates = 0 .. acsmNumStates - 1
           /\ 0 \in TrieStates /\ TrieStates \subseteq Slots /\ Slots = 0 .. acsmMaxStates - 1
           /\ acsmMaxStates \in Nat \ {0}
           /\ queue \in Seq(1 .. acsmMaxStates - 1)
           /\ Ordered(label, queue) /\ After(label, queue, r) /\ r \in TrieStates
           /\ fs \in Slots /\ i \in 0 .. AlphabetSize
           /\ acsmFailState \in [TrieStates -> TrieStates]
           /\ \A s \in TrieStates, c \in Char : TrieEntry(label, acsmTransTable, s, c)
           /\ \A s \in TrieStates : Len(label[s]) <= Len(label[r]) => Settled(s)
           /\ AlphabetSize \in Nat \ {0}
           /\ \A s \in TrieStates : label[s] \in Seq(Char) /\ Depth(s) \in Nat /\ Len(label[s]) = Depth(s)
<1>1. NfaInv /\ pc \in NfaPhase \cup DfaPhase
  BY DEF IInv
<1>2. /\ Labels(label, acsmNumStates - 1) /\ TypeOK /\ ListInv
      /\ DOMAIN label = 0 .. acsmNumStates - 1 /\ TrieStates = 0 .. acsmNumStates - 1
      /\ 0 \in TrieStates /\ TrieStates \subseteq Slots /\ Slots = 0 .. acsmMaxStates - 1
      /\ acsmMaxStates \in Nat \ {0}
      /\ queue \in Seq(1 .. acsmMaxStates - 1)
      /\ Ordered(label, queue)
      /\ acsmFailState \in [TrieStates -> TrieStates]
      /\ \A s \in TrieStates : label[s] \in Seq(Char) /\ Depth(s) \in Nat /\ Len(label[s]) = Depth(s)
  BY <1>1, GraphFacts
<1>3. /\ After(label, queue, r) /\ r \in TrieStates
      /\ \A s \in TrieStates, c \in Char : TrieEntry(label, acsmTransTable, s, c)
      /\ \A s \in TrieStates :
            IF WaitsInNfa(s) THEN ListsOwn(label, acsmMatchList[s], Len(acsmPatterns) + 1, s)
            ELSE Settled(s)
  BY <1>1 DEF NfaInv
<1>4. fs \in Slots /\ i \in 0 .. AlphabetSize
  <2>1. pc # "add"
    BY DEF NfaPhase
  <2>2. QED BY <1>2, <2>1, TypeFacts
<1>5. ASSUME NEW s \in TrieStates, Len(label[s]) <= Len(label[r]) PROVE Settled(s)
  <2>1. ~ WaitsInNfa(s)
    BY <1>2, <1>3, <1>5, NoWait
  <2>2. QED BY <1>3, <2>1
<1>6. QED BY <1>2, <1>3, <1>4, <1>5, AlphabetAssumption

LEMMA NfaDequeueInv == IInv /\ NfaDequeue => IInv'
<1> SUFFICES ASSUME IInv, NfaDequeue PROVE IInv'
  OBVIOUS
<1>1. /\ pc = "nfa_queue" /\ pc' = "nfa_char" /\ queue # << >>
      /\ r' = Head(queue) /\ queue' = Tail(queue) /\ i' = 0 /\ fs' = fs
      /\ UNCHANGED <<acMode, input, addVars, trieVars>>
      /\ UNCHANGED <<acsmTransTable, acsmMatchList, acsmFailState>>
  BY DEF NfaDequeue, Dequeue
<1>2. /\ Labels(label, acsmNumStates - 1)
      /\ DOMAIN label = 0 .. acsmNumStates - 1 /\ TrieStates = 0 .. acsmNumStates - 1
      /\ queue \in Seq(1 .. acsmMaxStates - 1) /\ Ordered(label, queue) /\ fs \in Slots
      /\ AlphabetSize \in Nat \ {0}
  BY <1>1, NfaFacts DEF NfaPhase
<1>3. /\ Ordered(label, queue') /\ After(label, queue', r')
      /\ r' \in TrieStates /\ r' # 0 /\ queue' \in Seq(1 .. acsmMaxStates - 1)
      /\ \A x : InQueue(queue, x) <=> x = r' \/ InQueue(queue', x)
  BY <1>1, <1>2, DequeueOrdered
<1>4. label' = label /\ TrieStates' = TrieStates
  BY <1>1 DEF trieVars, TrieStates
<1>5. ASSUME NEW s \in TrieStates PROVE WaitsInNfa(s)' <=> WaitsInNfa(s)
  <2>1. Below(label, r', s) => label[s][Len(label[r']) + 1] >= 0
    <3>1. Below(label, r', s) => label[s][Len(label[r']) + 1] \in Char
      BY <1>2, <1>3, BelowFirst
    <3>2. QED BY <3>1, <1>2 DEF Char
  <2>2. WaitsInNfa(s) <=> \E x \in TrieStates : InQueue(queue, x) /\ Below(label, x, s)
    BY <1>1 DEF WaitsInNfa
  <2>3. WaitsInNfa(s)' <=> \/ \E x \in TrieStates : InQueue(queue', x) /\ Below(label, x, s)
                           \/ Below(label, r', s)
    BY <1>1, <1>4, <2>1 DEF WaitsInNfa, Depth
  <2>4. QED BY <1>3, <2>2, <2>3
<1>6. pc \in NfaPhase /\ pc' \in NfaPhase /\ fs' \in Slots /\ i' \in 0 .. AlphabetSize
  BY <1>1, <1>2 DEF NfaPhase
<1>7. pc' # "nfa_fail"
  BY <1>1
<1>8. QED BY <1>1, <1>3, <1>5, <1>6, <1>7, NfaStays

LEMMA NfaNoChildInv == IInv /\ NfaNoChild => IInv'
<1> SUFFICES ASSUME IInv, NfaNoChild PROVE IInv'
  OBVIOUS
<1>1. /\ pc = "nfa_char" /\ pc' = "nfa_char" /\ i < AlphabetSize
      /\ List_GetNextState(r, i) = FAIL
      /\ i' = i + 1 /\ queue' = queue /\ r' = r /\ fs' = fs
      /\ UNCHANGED <<acMode, input, addVars, trieVars>>
      /\ UNCHANGED <<acsmTransTable, acsmMatchList, acsmFailState>>
  BY DEF NfaNoChild
<1>2. /\ Labels(label, acsmNumStates - 1)
      /\ DOMAIN label = 0 .. acsmNumStates - 1 /\ TrieStates = 0 .. acsmNumStates - 1
      /\ queue \in Seq(1 .. acsmMaxStates - 1) /\ Ordered(label, queue) /\ fs \in Slots
      /\ AlphabetSize \in Nat \ {0} /\ i \in 0 .. AlphabetSize
      /\ After(label, queue, r) /\ r \in TrieStates
      /\ \A s \in TrieStates, c \in Char : TrieEntry(label, acsmTransTable, s, c)
  BY <1>1, NfaFacts DEF NfaPhase
<1>3. r # 0
  BY <1>1 DEF IInv, NfaInv, NfaPhase
<1>4. i \in Char /\ i + 1 \in 0 .. AlphabetSize
  BY <1>1, <1>2 DEF Char
<1>5. \A t \in 0 .. acsmNumStates - 1 : ~ Child(label, r, i, t)
  <2>1. TrieEntry(label, acsmTransTable, r, i)
    BY <1>2, <1>4
  <2>2. QED BY <1>1, <1>2, <1>4, <2>1, TrieNext
<1>6. label' = label /\ TrieStates' = TrieStates
  BY <1>1 DEF trieVars, TrieStates
<1>7. ASSUME NEW s \in TrieStates PROVE WaitsInNfa(s)' <=> WaitsInNfa(s)
  <2>1. Below(label, r, s) =>
          (label[s][Len(label[r]) + 1] >= i <=> label[s][Len(label[r]) + 1] >= i + 1)
    <3>1. SUFFICES ASSUME Below(label, r, s)
                   PROVE  label[s][Len(label[r]) + 1] >= i <=> label[s][Len(label[r]) + 1] >= i + 1
      OBVIOUS
    <3>2. /\ label[s][Len(label[r]) + 1] \in Char
          /\ \E t \in 0 .. acsmNumStates - 1 :
                Child(label, r, label[s][Len(label[r]) + 1], t)
      BY <1>2, <3>1, BelowFirst
    <3>3. label[s][Len(label[r]) + 1] # i
      BY <1>5, <3>2
    <3>4. ASSUME NEW x \in Char, x # i PROVE x >= i <=> x >= i + 1
      BY <1>2, <3>4 DEF Char
    <3>5. QED BY <3>2, <3>3, <3>4
  <2>2. QED BY <1>1, <1>6, <2>1 DEF WaitsInNfa, Depth
<1>8. pc \in NfaPhase /\ pc' \in NfaPhase /\ fs' \in Slots /\ i' \in 0 .. AlphabetSize
      /\ queue' \in Seq(1 .. acsmMaxStates - 1) /\ r' \in TrieStates /\ r' # 0
      /\ Ordered(label, queue') /\ After(label, queue', r')
  BY <1>1, <1>2, <1>3, <1>4 DEF NfaPhase
<1>9. pc' # "nfa_fail"
  BY <1>1
<1>10. QED BY <1>1, <1>7, <1>8, <1>9, NfaStays

LEMMA NfaEndOfCharsInv == IInv /\ NfaEndOfChars => IInv'
<1> SUFFICES ASSUME IInv, NfaEndOfChars PROVE IInv'
  OBVIOUS
<1>1. /\ pc = "nfa_char" /\ pc' = "nfa_queue" /\ i = AlphabetSize
      /\ UNCHANGED <<queue, r, i, fs>>
      /\ UNCHANGED <<acMode, input, addVars, trieVars>>
      /\ UNCHANGED <<acsmTransTable, acsmMatchList, acsmFailState>>
  BY DEF NfaEndOfChars, EndOfChars, graphVars
<1>2. /\ Labels(label, acsmNumStates - 1)
      /\ DOMAIN label = 0 .. acsmNumStates - 1 /\ TrieStates = 0 .. acsmNumStates - 1
      /\ queue \in Seq(1 .. acsmMaxStates - 1) /\ Ordered(label, queue) /\ fs \in Slots
      /\ AlphabetSize \in Nat \ {0} /\ i \in 0 .. AlphabetSize
      /\ After(label, queue, r) /\ r \in TrieStates
  BY <1>1, NfaFacts DEF NfaPhase
<1>3. label' = label /\ TrieStates' = TrieStates
  BY <1>1 DEF trieVars, TrieStates
<1>4. ASSUME NEW s \in TrieStates PROVE WaitsInNfa(s)' <=> WaitsInNfa(s)
  <2>1. Below(label, r, s) => ~(label[s][Len(label[r]) + 1] >= i)
    <3>1. Below(label, r, s) => label[s][Len(label[r]) + 1] \in Char
      BY <1>2, BelowFirst
    <3>2. \A x \in Char : ~(x >= i)
      BY <1>1, <1>2 DEF Char
    <3>3. QED BY <3>1, <3>2
  <2>2. QED BY <1>1, <1>3, <2>1 DEF WaitsInNfa, Depth
<1>5. pc \in NfaPhase /\ pc' \in NfaPhase /\ fs' \in Slots /\ i' \in 0 .. AlphabetSize
      /\ queue' \in Seq(1 .. acsmMaxStates - 1) /\ r' \in TrieStates
      /\ Ordered(label, queue') /\ After(label, queue', r')
  BY <1>1, <1>2 DEF NfaPhase
<1>6. pc' # "nfa_fail" /\ pc' # "nfa_char"
  BY <1>1
<1>7. QED BY <1>1, <1>4, <1>5, <1>6, NfaStays


(* What is known while a failure state is searched.                        *)
LEMMA SearchFacts ==
    ASSUME IInv, pc = "nfa_fail"
    PROVE  /\ r # 0 /\ i < AlphabetSize /\ i \in Char /\ i + 1 \in 0 .. AlphabetSize
           /\ fs \in TrieStates /\ Depth(fs) < Depth(r) /\ EndsWith(label[r], label[fs])
           /\ \A u, t \in TrieStates :
                Child(label, u, i, t) /\ EndsWith(label[r], label[u]) /\ u # r
                    => Depth(u) <= Depth(fs)
           /\ Settled(fs)
           /\ \E s \in TrieStates : Child(label, r, i, s) /\ InQueue(queue, s)
<1>1. pc \in NfaPhase
  BY DEF NfaPhase
<1>2. /\ r # 0 /\ i < AlphabetSize /\ SearchesFailure
      /\ \E s \in TrieStates : Child(label, r, i, s) /\ InQueue(queue, s)
  BY <1>1 DEF IInv, NfaInv
<1>3. /\ fs \in TrieStates /\ Depth(fs) < Depth(r) /\ EndsWith(label[r], label[fs])
      /\ \A u, t \in TrieStates :
           Child(label, u, i, t) /\ EndsWith(label[r], label[u]) /\ u # r
               => Depth(u) <= Depth(fs)
  BY <1>2 DEF SearchesFailure
<1>4. /\ i \in 0 .. AlphabetSize /\ AlphabetSize \in Nat \ {0} /\ r \in TrieStates
      /\ \A s \in TrieStates : Len(label[s]) <= Len(label[r]) => Settled(s)
      /\ \A s \in TrieStates : Depth(s) \in Nat /\ Len(label[s]) = Depth(s)
  BY <1>1, NfaFacts
<1>5. Settled(fs)
  <2>1. Depth(fs) \in Nat /\ Depth(r) \in Nat /\ Len(label[fs]) = Depth(fs) /\ Len(label[r]) = Depth(r)
    BY <1>3, <1>4
  <2>2. Len(label[fs]) <= Len(label[r])
    BY <1>3, <2>1
  <2>3. QED BY <1>3, <1>4, <2>2
<1>6. i \in Char /\ i + 1 \in 0 .. AlphabetSize
  BY <1>2, <1>4 DEF Char
<1>7. QED BY <1>2, <1>3, <1>5, <1>6

LEMMA NfaChildInv == IInv /\ NfaChild => IInv'
<1> SUFFICES ASSUME IInv, NfaChild PROVE IInv'
  OBVIOUS
<1> DEFINE s == List_GetNextState(r, i)
           last == acsmNumStates - 1
<1>1. /\ pc = "nfa_char" /\ pc' = "nfa_fail" /\ i < AlphabetSize /\ s # FAIL
      /\ queue' = queue_add(queue, s) /\ fs' = acsmFailState[r]
      /\ r' = r /\ i' = i
      /\ UNCHANGED <<acMode, input, addVars, trieVars>>
      /\ UNCHANGED <<acsmTransTable, acsmMatchList, acsmFailState>>
  BY DEF NfaChild
<1>2. /\ Labels(label, last)
      /\ DOMAIN label = 0 .. last /\ TrieStates = 0 .. last
      /\ queue \in Seq(1 .. acsmMaxStates - 1) /\ Ordered(label, queue)
      /\ AlphabetSize \in Nat \ {0} /\ i \in 0 .. AlphabetSize
      /\ After(label, queue, r) /\ r \in TrieStates /\ TrieStates \subseteq Slots
      /\ Slots = 0 .. acsmMaxStates - 1
      /\ acsmFailState \in [TrieStates -> TrieStates]
      /\ \A t \in TrieStates, c \in Char : TrieEntry(label, acsmTransTable, t, c)
      /\ \A t \in TrieStates : Len(label[t]) <= Len(label[r]) => Settled(t)
      /\ \A t \in TrieStates : label[t] \in Seq(Char) /\ Depth(t) \in Nat /\ Len(label[t]) = Depth(t)
  BY <1>1, NfaFacts DEF NfaPhase
<1>3. r # 0 /\ i \in Char
  BY <1>1, <1>2 DEF IInv, NfaInv, NfaPhase, Char
<1>4. s \in 0 .. last /\ s # 0 /\ Child(label, r, i, s)
  BY <1>1, <1>2, <1>3, TrieNext
<1>5. label' = label /\ TrieStates' = TrieStates
  BY <1>1 DEF trieVars, TrieStates
<1> HIDE DEF s, last
<1>6. s \in 1 .. acsmMaxStates - 1
  <2>1. s \in 0 .. acsmMaxStates - 1
    BY <1>2, <1>4
  <2>2. QED BY <1>4, <2>1
<1>7. /\ Ordered(label, queue') /\ After(label, queue', r)
      /\ queue' \in Seq(1 .. acsmMaxStates - 1)
      /\ \A x : InQueue(queue', x) <=> InQueue(queue, x) \/ x = s
  <2>1. r \in 0 .. last /\ Labels(label, last) /\ Ordered(label, queue) /\ After(label, queue, r)
        /\ queue \in Seq(1 .. acsmMaxStates - 1)
    BY <1>2
  <2>2. i \in Char
    BY <1>3
  <2>3. /\ Ordered(label, queue_add(queue, s)) /\ After(label, queue_add(queue, s), r)
        /\ queue_add(queue, s) \in Seq(1 .. acsmMaxStates - 1)
        /\ \A x : InQueue(queue_add(queue, s), x) <=> InQueue(queue, x) \/ x = s
    <3> DEFINE S == 1 .. acsmMaxStates - 1
    <3>1. Child(label, r, i, s) /\ s \in 0 .. last /\ s \in S /\ queue \in Seq(S)
      BY <1>4, <1>6, <2>1
    <3> HIDE DEF S
    <3>2. /\ Ordered(label, queue_add(queue, s)) /\ After(label, queue_add(queue, s), r)
          /\ queue_add(queue, s) \in Seq(S)
          /\ \A x : InQueue(queue_add(queue, s), x) <=> InQueue(queue, x) \/ x = s
      BY <2>1, <2>2, <3>1, EnqueueOrdered
    <3>3. QED BY <3>2 DEF S
  <2>4. QED BY <1>1, <2>3
<1>8. ASSUME NEW t \in TrieStates PROVE WaitsInNfa(t)' <=> WaitsInNfa(t)
  <2>1. ASSUME Below(label, s, t)
        PROVE  Below(label, r, t) /\ label[t][Depth(r) + 1] >= i
    <3>1. Len(label[s]) = Len(label[r]) + 1 /\ label[s][Len(label[r]) + 1] = i
          /\ IsFront(label[r], label[s])
      <4>1. Labels(label, last) /\ r \in 0 .. last
        BY <1>2
      <4>2. i \in Char
        BY <1>3
      <4>3. QED BY <1>4, <4>1, <4>2, ChildFacts
    <3>2. AtOrBelow(label, s, t) /\ AtOrBelow(label, r, s)
      BY <2>1, <3>1 DEF Below, AtOrBelow
    <3>3. AtOrBelow(label, r, t)
      BY <1>2, <1>4, <3>2, FrontFacts
    <3>4. Len(label[r]) < Len(label[t])
      <4>1. Len(label[s]) < Len(label[t]) /\ Len(label[s]) \in Nat /\ Len(label[t]) \in Nat
            /\ Len(label[r]) \in Nat
        BY <1>2, <1>4, <2>1, LabelFacts DEF Below
      <4>2. QED BY <3>1, <4>1
    <3>5. label[t][Depth(r) + 1] = i
      <4>1. Depth(r) + 1 \in 1 .. Len(label[s])
        BY <1>2, <1>4, <3>1
      <4>2. label[t][Depth(r) + 1] = label[s][Depth(r) + 1]
        BY <3>2, <4>1 DEF AtOrBelow, IsFront
      <4>3. QED BY <1>2, <3>1, <4>2
    <3>6. QED BY <1>2, <3>3, <3>4, <3>5 DEF Below, AtOrBelow
  <2>2. WaitsInNfa(t) <=> \/ \E x \in TrieStates : InQueue(queue, x) /\ Below(label, x, t)
                          \/ Below(label, r, t) /\ label[t][Depth(r) + 1] >= i
    BY <1>1 DEF WaitsInNfa
  <2>3. Depth(r)' = Depth(r)
    BY <1>1, <1>5 DEF Depth
  <2>4. WaitsInNfa(t)' <=> \/ \E x \in TrieStates : InQueue(queue', x) /\ Below(label, x, t)
                           \/ Below(label, r, t) /\ label[t][Depth(r) + 1] >= i
    BY <1>1, <1>5, <2>3 DEF WaitsInNfa
  <2>5. QED BY <1>7, <2>1, <2>2, <2>4
<1>9. /\ fs' \in TrieStates /\ Depth(fs') < Depth(r) /\ EndsWith(label[r], label[fs'])
      /\ \A t \in TrieStates : EndsWith(label[r], label[t]) /\ t # r => Depth(t) <= Depth(fs')
  <2>1. Settled(r)
    BY <1>2
  <2>2. FailsToLongestSuffix(r)
    BY <1>3, <2>1 DEF Settled
  <2>3. QED BY <1>1, <1>2, <2>2 DEF FailsToLongestSuffix
<1>10. SearchesFailure'
  <2>1. \A t : Depth(t)' = Depth(t)
    BY <1>5 DEF Depth
  <2>2. Depth(fs)' = Depth(fs') /\ Depth(r)' = Depth(r)
    BY <1>1, <1>5 DEF Depth
  <2>3. QED BY <1>1, <1>5, <1>9, <2>1, <2>2 DEF SearchesFailure
<1>11. \E x \in TrieStates : Child(label, r', i', x) /\ InQueue(queue', x)
  BY <1>1, <1>2, <1>4, <1>7
<1>12. pc \in NfaPhase /\ pc' \in NfaPhase /\ fs' \in Slots /\ i' \in 0 .. AlphabetSize
       /\ r' \in TrieStates /\ r' # 0 /\ i' < AlphabetSize /\ After(label, queue', r')
  BY <1>1, <1>2, <1>3, <1>7, <1>9 DEF NfaPhase
<1>13. QED BY <1>1, <1>7, <1>8, <1>10, <1>11, <1>12, NfaStays

(* The failure state after fs. *)
LEMMA NextFailure ==
    ASSUME IInv, FollowFailure
    PROVE  /\ fs # 0 /\ FailsToLongestSuffix(fs)
           /\ \A t \in TrieStates : ~ Child(label, fs, i, t)
<1>1. pc = "nfa_fail" /\ List_GetNextState(fs, i) = FAIL
  BY DEF FollowFailure
<1>2. fs \in TrieStates /\ i \in Char /\ Settled(fs)
  BY <1>1, SearchFacts
<1>3. /\ Labels(label, acsmNumStates - 1) /\ TrieStates = 0 .. acsmNumStates - 1
      /\ \A t \in TrieStates, c \in Char : TrieEntry(label, acsmTransTable, t, c)
  BY <1>1, NfaFacts DEF NfaPhase
<1>4. TrieEntry(label, acsmTransTable, fs, i)
  BY <1>2, <1>3
<1>5. fs # 0 /\ \A t \in 0 .. acsmNumStates - 1 : ~ Child(label, fs, i, t)
  BY <1>1, <1>2, <1>3, <1>4, TrieNext DEF FAIL
<1>6. QED BY <1>2, <1>3, <1>5 DEF Settled

LEMMA FollowFailureInv == IInv /\ FollowFailure => IInv'
<1> SUFFICES ASSUME IInv, FollowFailure PROVE IInv'
  OBVIOUS
<1> DEFINE last == acsmNumStates - 1
<1>1. /\ pc = "nfa_fail" /\ pc' = "nfa_fail" /\ fs' = acsmFailState[fs]
      /\ queue' = queue /\ r' = r /\ i' = i
      /\ UNCHANGED <<acMode, input, addVars, trieVars>>
      /\ UNCHANGED <<acsmTransTable, acsmMatchList, acsmFailState>>
  BY DEF FollowFailure
<1>2. /\ Labels(label, last)
      /\ DOMAIN label = 0 .. last /\ TrieStates = 0 .. last
      /\ queue \in Seq(1 .. acsmMaxStates - 1) /\ Ordered(label, queue)
      /\ i \in 0 .. AlphabetSize
      /\ After(label, queue, r) /\ r \in TrieStates /\ TrieStates \subseteq Slots
      /\ acsmFailState \in [TrieStates -> TrieStates]
      /\ \A t \in TrieStates : label[t] \in Seq(Char) /\ Depth(t) \in Nat /\ Len(label[t]) = Depth(t)
  BY <1>1, NfaFacts DEF NfaPhase
<1>3. /\ r # 0 /\ i < AlphabetSize
      /\ fs \in TrieStates /\ Depth(fs) < Depth(r) /\ EndsWith(label[r], label[fs])
      /\ \A u, t \in TrieStates :
           Child(label, u, i, t) /\ EndsWith(label[r], label[u]) /\ u # r
               => Depth(u) <= Depth(fs)
      /\ \E x \in TrieStates : Child(label, r, i, x) /\ InQueue(queue, x)
  BY <1>1, SearchFacts
<1>4. FailsToLongestSuffix(fs) /\ \A t \in TrieStates : ~ Child(label, fs, i, t)
  BY NextFailure
<1> HIDE DEF last
<1>5. label' = label /\ TrieStates' = TrieStates
  BY <1>1 DEF trieVars, TrieStates
<1>6. /\ fs' \in TrieStates /\ Depth(fs') < Depth(fs) /\ EndsWith(label[fs], label[fs'])
      /\ \A t \in TrieStates : EndsWith(label[fs], label[t]) /\ t # fs => Depth(t) <= Depth(fs')
  BY <1>1, <1>2, <1>3, <1>4 DEF FailsToLongestSuffix
<1>7. EndsWith(label[r], label[fs']) /\ Depth(fs') < Depth(r)
  <2>1. EndsWith(label[r], label[fs'])
    BY <1>2, <1>3, <1>6, SuffixOfSuffix
  <2>2. Depth(fs') \in Nat /\ Depth(fs) \in Nat /\ Depth(r) \in Nat
    BY <1>2, <1>3, <1>6
  <2>3. QED BY <1>3, <1>6, <2>1, <2>2
<1>8. ASSUME NEW u \in TrieStates, NEW t \in TrieStates,
             Child(label, u, i, t), EndsWith(label[r], label[u]), u # r
      PROVE  Depth(u) <= Depth(fs')
  <2>1. u # fs /\ Depth(u) <= Depth(fs)
    BY <1>3, <1>4, <1>8
  <2>2. EndsWith(label[fs], label[u])
    <3>1. Len(label[u]) <= Len(label[fs])
      BY <1>2, <1>3, <2>1
    <3>2. QED BY <1>2, <1>3, <1>8, <3>1, SuffixOfSuffix
  <2>3. QED BY <1>6, <2>1, <2>2
<1>9. SearchesFailure'
  <2>1. \A t : Depth(t)' = Depth(t)
    BY <1>5 DEF Depth
  <2>2. Depth(fs)' = Depth(fs') /\ Depth(r)' = Depth(r)
    BY <1>1, <1>5 DEF Depth
  <2>3. QED BY <1>1, <1>5, <1>6, <1>7, <1>8, <2>1, <2>2 DEF SearchesFailure
<1>10. ASSUME NEW t \in TrieStates PROVE WaitsInNfa(t)' <=> WaitsInNfa(t)
  BY <1>1, <1>5 DEF WaitsInNfa, Depth
<1>11. pc \in NfaPhase /\ pc' \in NfaPhase /\ fs' \in Slots
  BY <1>1, <1>2, <1>6 DEF NfaPhase
<1>12. QED BY <1>1, <1>2, <1>3, <1>9, <1>10, <1>11, NfaStays

(* One step down the failure chain of fs.                                  *)
LEMMA ChainDescends == IInv /\ FollowFailure => Depth(fs') < Depth(fs)
<1> SUFFICES ASSUME IInv, FollowFailure PROVE Depth(fs') < Depth(fs)
  OBVIOUS
<1>1. fs' = acsmFailState[fs]
  BY DEF FollowFailure
<1>2. QED BY <1>1, NextFailure DEF FailsToLongestSuffix

(* The search ends at the longest proper suffix of the child of r.         *)
LEMMA FoundFailure ==
    ASSUME IInv, pc = "nfa_fail",
           NEW s, s = List_GetNextState(r, i), NEW next, next = List_GetNextState(fs, i),
           next # FAIL
    PROVE  /\ s \in TrieStates /\ s # 0 /\ next \in TrieStates /\ next # s
           /\ Child(label, r, i, s) /\ InQueue(queue, s) /\ Depth(s) = Depth(r) + 1
           /\ Depth(next) <= Depth(r) /\ Depth(next) < Depth(s)
           /\ EndsWith(label[s], label[next])
           /\ \A t \in TrieStates : EndsWith(label[s], label[t]) /\ t # s => Depth(t) <= Depth(next)
<1> DEFINE last == acsmNumStates - 1
<1>1. /\ Labels(label, last) /\ TrieStates = 0 .. last /\ r \in 0 .. last
      /\ \A t \in TrieStates, c \in Char : TrieEntry(label, acsmTransTable, t, c)
      /\ \A t \in TrieStates : label[t] \in Seq(Char) /\ Depth(t) \in Nat /\ Len(label[t]) = Depth(t)
      /\ 0 \in TrieStates
  BY NfaFacts DEF NfaPhase
<1>2. /\ i \in Char /\ fs \in 0 .. last /\ Depth(fs) < Depth(r) /\ EndsWith(label[r], label[fs])
      /\ \A u, t \in TrieStates :
           Child(label, u, i, t) /\ EndsWith(label[r], label[u]) /\ u # r
               => Depth(u) <= Depth(fs)
  BY <1>1, SearchFacts
<1>3. PICK x \in TrieStates : Child(label, r, i, x) /\ InQueue(queue, x)
  BY SearchFacts
<1> HIDE DEF last
<1>4. s \in 0 .. last /\ s # 0 /\ Child(label, r, i, s) /\ s = x
  <2>1. TrieEntry(label, acsmTransTable, r, i)
    BY <1>1, <1>2
  <2>2. s \in 0 .. last /\ s # 0 /\ Child(label, r, i, s)
    BY <1>1, <1>2, <1>3, <2>1, TrieNext
  <2>3. x \in 0 .. last
    BY <1>1, <1>3
  <2>4. QED BY <1>1, <1>2, <1>3, <2>2, <2>3, ChildUnique
<1>5. Depth(s) = Depth(r) + 1 /\ label[s] = Append(label[r], i)
  <2>1. Len(label[s]) = Len(label[r]) + 1
    BY <1>1, <1>2, <1>4, ChildFacts
  <2>2. QED BY <1>1, <1>4, <2>1 DEF Child
<1>6. \/ next \in 0 .. last /\ next # 0 /\ Child(label, fs, i, next)
      \/ next = 0 /\ fs = 0 /\ \A t \in 0 .. last : ~ Child(label, 0, i, t)
  <2>1. TrieEntry(label, acsmTransTable, fs, i)
    BY <1>1, <1>2
  <2>2. QED BY <1>1, <1>2, <2>1, TrieNext
<1>7. label[r] \in Seq(Char) /\ Depth(r) \in Nat /\ Depth(fs) \in Nat
  BY <1>1, <1>2
<1>8. CASE next # 0
  <2>1. next \in 0 .. last /\ Child(label, fs, i, next)
    BY <1>6, <1>8
  <2>2. Depth(next) = Depth(fs) + 1
    <3>1. Len(label[next]) = Len(label[fs]) + 1
      BY <1>1, <1>2, <2>1, ChildFacts
    <3>2. QED BY <1>1, <1>2, <2>1, <3>1
  <2>3. Depth(next) <= Depth(r) /\ Depth(next) < Depth(s)
    BY <1>2, <1>5, <1>7, <2>2
  <2>4. EndsWith(label[s], label[next])
    BY <1>1, <1>2, <1>5, <1>7, <2>1, SuffixChild
  <2>5. ASSUME NEW t \in TrieStates, EndsWith(label[s], label[t]), t # s
        PROVE  Depth(t) <= Depth(next)
    <3>1. CASE t = 0
      <4>1. Depth(t) = 0 /\ Depth(next) \in Nat
        BY <1>1, <2>1, <3>1 DEF Labels, Depth
      <4>2. QED BY <4>1
    <3>2. CASE t # 0
      <4>1. PICK u \in 0 .. last : Child(label, u, i, t) /\ EndsWith(label[r], label[u])
        BY <1>1, <1>2, <1>5, <1>7, <2>5, <3>2, SuffixChild
      <4>2. u # r
        BY <1>1, <1>2, <1>4, <2>5, <4>1, ChildUnique
      <4>3. Depth(u) <= Depth(fs)
        BY <1>1, <1>2, <2>5, <4>1, <4>2
      <4>4. Len(label[t]) = Len(label[u]) + 1
        BY <1>1, <1>2, <2>5, <4>1, ChildFacts
      <4>5. Depth(t) = Depth(u) + 1 /\ Depth(u) \in Nat
        BY <1>1, <2>5, <4>1, <4>4
      <4>6. QED BY <1>7, <2>2, <4>3, <4>5
    <3>3. QED BY <3>1, <3>2
  <2>6. next # s
    BY <1>1, <1>4, <2>1, <2>3
  <2>7. QED BY <1>1, <1>3, <1>4, <1>5, <2>1, <2>3, <2>4, <2>5, <2>6
<1>9. CASE next = 0
  <2>1. fs = 0 /\ \A t \in 0 .. last : ~ Child(label, 0, i, t)
    BY <1>6, <1>8, <1>9
  <2>2. Depth(next) = 0 /\ label[next] = << >> /\ Depth(fs) = 0
    BY <1>1, <1>9, <2>1 DEF Labels, Depth
  <2>3. Depth(next) <= Depth(r) /\ Depth(next) < Depth(s)
    BY <1>5, <1>7, <2>2
  <2>4. EndsWith(label[s], label[next])
    BY <1>1, <1>4, <2>2, EveryStringEndsWith
  <2>5. ASSUME NEW t \in TrieStates, EndsWith(label[s], label[t]), t # s
        PROVE  t = 0
    <3>1. SUFFICES ASSUME t # 0 PROVE FALSE
      OBVIOUS
    <3>2. PICK u \in 0 .. last : Child(label, u, i, t) /\ EndsWith(label[r], label[u])
      BY <1>1, <1>2, <1>5, <1>7, <2>5, <3>1, SuffixChild
    <3>3. u # r
      BY <1>1, <1>2, <1>4, <2>5, <3>2, ChildUnique
    <3>4. Depth(u) <= 0 /\ Depth(u) \in Nat
      BY <1>1, <1>2, <2>2, <2>5, <3>2, <3>3
    <3>5. Len(label[u]) = 0
      BY <1>1, <3>2, <3>4
    <3>6. u = 0
      BY <1>1, <3>2, <3>5, LabelFacts
    <3>7. QED BY <1>1, <2>1, <2>5, <3>2, <3>6
  <2>6. \A t \in TrieStates : EndsWith(label[s], label[t]) /\ t # s => Depth(t) <= Depth(next)
    BY <1>9, <2>2, <2>5
  <2>7. QED BY <1>1, <1>3, <1>4, <1>5, <1>9, <2>3, <2>4, <2>6
<1>10. QED BY <1>8, <1>9

(* The list of the child, joined by that of its failure state.             *)
LEMMA JoinedLists ==
    ASSUME NEW last, Labels(label, last), ListInv, Built, TrieStates = 0 .. last,
           NEW s \in 0 .. last, NEW next \in 0 .. last,
           Len(label[next]) < Len(label[s]), EndsWith(label[s], label[next]),
           \A t \in 0 .. last :
              EndsWith(label[s], label[t]) /\ t # s => Len(label[t]) <= Len(label[next]),
           NEW own \in Seq(DOMAIN acsmPatterns), NEW copied \in Seq(DOMAIN acsmPatterns),
           ListsOwn(label, own, Len(acsmPatterns) + 1, s),
           A!ListsSuffixes(copied, acsmPatterns, label[next])
    PROVE  A!ListsSuffixes(Reversed(copied) \o own, acsmPatterns, label[s])
<1> DEFINE D == DOMAIN acsmPatterns
           all == Reversed(copied) \o own
<1>1. /\ DOMAIN acsmPatterns = 1 .. Len(acsmPatterns) /\ Len(acsmPatterns) \in Nat
      /\ \A e \in 1 .. Len(acsmPatterns) : acsmPatterns[e].patrn \in Seq(Char) \ {<< >>}
  BY Sizes
<1>2. label[s] \in Seq(Char) /\ label[next] \in Seq(Char)
      /\ Len(label[s]) \in Nat /\ Len(label[next]) \in Nat
  BY LabelFacts
<1>3. /\ \A e \in D : InQueue(own, e) <=> label[s] = acsmPatterns[e].patrn
      /\ NoneTwice(own)
  BY <1>1 DEF ListsOwn
<1>4. /\ \A e \in D : EndsWith(label[next], acsmPatterns[e].patrn) <=> InQueue(copied, e)
      /\ NoneTwice(copied)
  BY ListsAsQueue
<1>5. \A e \in D : \E t \in 0 .. last : label[t] = acsmPatterns[e].patrn
  BY DEF Built
<1>6. ASSUME NEW e \in D
      PROVE  /\ EndsWith(label[s], acsmPatterns[e].patrn) <=>
                   EndsWith(label[next], acsmPatterns[e].patrn) \/ label[s] = acsmPatterns[e].patrn
             /\ ~(EndsWith(label[next], acsmPatterns[e].patrn) /\ label[s] = acsmPatterns[e].patrn)
  <2>1. PICK t \in 0 .. last : label[t] = acsmPatterns[e].patrn
    BY <1>5
  <2>2. label[t] \in Seq(Char) /\ Len(label[t]) \in Nat
    BY LabelFacts
  <2>3. EndsWith(label[next], label[t]) => EndsWith(label[s], label[t])
    BY <1>2, <2>2, SuffixOfSuffix
  <2>4. EndsWith(label[s], label[t]) /\ t # s => EndsWith(label[next], label[t])
    BY <1>2, SuffixesDiffer
  <2>5. EndsWith(label[s], label[s])
    BY <1>2, EveryStringEndsWith
  <2>6. ~ EndsWith(label[next], label[s])
    <3>1. ~(Len(label[s]) <= Len(label[next]))
      BY <1>2
    <3>2. QED BY <3>1, Zenon DEF EndsWith
  <2>7. QED BY <2>1, <2>3, <2>4, <2>5, <2>6
<1>7. /\ \A x : InQueue(Reversed(copied), x) <=> InQueue(copied, x)
      /\ NoneTwice(Reversed(copied)) /\ Reversed(copied) \in Seq(DOMAIN acsmPatterns)
  BY <1>4, ReversedFacts
<1>8. /\ \A x : InQueue(own, x) => x \in D
      /\ \A x : InQueue(copied, x) => x \in D
  <2>1. \A k \in 1 .. Len(own) : own[k] \in D
    OBVIOUS
  <2>2. \A k \in 1 .. Len(copied) : copied[k] \in D
    OBVIOUS
  <2>3. QED BY <2>1, <2>2 DEF InQueue
<1>9. \A x : ~(InQueue(Reversed(copied), x) /\ InQueue(own, x))
  BY <1>3, <1>4, <1>6, <1>7, <1>8
<1>10. /\ \A x : InQueue(all, x) <=> InQueue(Reversed(copied), x) \/ InQueue(own, x)
       /\ NoneTwice(all)
  BY <1>3, <1>7, <1>9, Joined
<1>11. \A e \in D : EndsWith(label[s], acsmPatterns[e].patrn) <=> InQueue(all, e)
  BY <1>3, <1>4, <1>6, <1>7, <1>10
<1>12. QED BY <1>10, <1>11, ListsAsQueue

(* The child that has its failure state no longer waits; nothing else      *)
(* changes.                                                                *)
LEMMA WaitsNoMore ==
    ASSUME IInv, pc = "nfa_fail", pc' = "nfa_char", i' = i + 1,
           UNCHANGED <<queue, r, label>>,
           NEW s \in TrieStates, Child(label, r, i, s), InQueue(queue, s)
    PROVE  /\ WaitsInNfa(s) /\ ~ WaitsInNfa(s)'
           /\ \A t \in TrieStates : t # s => (WaitsInNfa(t)' <=> WaitsInNfa(t))
<1> DEFINE last == acsmNumStates - 1
<1>1. /\ Labels(label, last) /\ TrieStates = 0 .. last /\ r \in 0 .. last /\ s \in 0 .. last
      /\ DOMAIN label = 0 .. last
      /\ \A t \in TrieStates : label[t] \in Seq(Char) /\ Depth(t) \in Nat /\ Len(label[t]) = Depth(t)
      /\ After(label, queue, r) /\ AlphabetSize \in Nat
  BY NfaFacts DEF NfaPhase
<1>2. i \in Char /\ i \in Nat
  BY <1>1, SearchFacts DEF Char
<1> HIDE DEF last
<1>3. /\ Len(label[s]) = Len(label[r]) + 1 /\ label[s][Len(label[r]) + 1] = i
      /\ IsFront(label[r], label[s])
  <2>1. Labels(label, last) /\ r \in 0 .. last /\ s \in 0 .. last
    BY <1>1
  <2>2. i \in Char /\ Child(label, r, i, s)
    BY <1>2
  <2>3. QED BY <2>1, <2>2, ChildFacts
<1>4. Below(label, r, s)
  <2>1. Len(label[r]) < Len(label[s])
    BY <1>1, <1>3
  <2>2. QED BY <1>3, <2>1 DEF Below
<1>5. TrieStates' = TrieStates /\ Depth(r)' = Depth(r) /\ Depth(r) = Len(label[r])
  BY <1>1 DEF TrieStates, Depth
<1>6. \A t : WaitsInNfa(t) <=> \/ \E x \in TrieStates : InQueue(queue, x) /\ Below(label, x, t)
                               \/ Below(label, r, t) /\ label[t][Len(label[r]) + 1] >= i
  BY <1>5 DEF WaitsInNfa
<1>7. \A t : WaitsInNfa(t)' <=> \/ \E x \in TrieStates : InQueue(queue, x) /\ Below(label, x, t)
                                \/ Below(label, r, t) /\ label[t][Len(label[r]) + 1] >= i + 1
  BY <1>5 DEF WaitsInNfa
<1>8. i >= i /\ ~(i >= i + 1)
  BY <1>2
<1>9. WaitsInNfa(s)
  BY <1>3, <1>4, <1>6, <1>8
<1>10. ASSUME NEW x \in TrieStates, InQueue(queue, x), Below(label, x, s) PROVE FALSE
  <2>1. x # r /\ Len(label[r]) <= Len(label[x])
    BY <1>1, <1>10, InOrder
  <2>2. Len(label[x]) < Len(label[s]) /\ AtOrBelow(label, x, s) /\ AtOrBelow(label, r, s)
    BY <1>4, <1>10 DEF Below, AtOrBelow
  <2>3. Len(label[x]) = Len(label[r])
    <3>1. Len(label[x]) \in Nat /\ Len(label[r]) \in Nat
      BY <1>1, <1>10
    <3>2. QED BY <1>3, <2>1, <2>2, <3>1
  <2>4. AtOrBelow(label, x, r)
    <3>1. Len(label[x]) <= Len(label[r])
      BY <1>1, <1>10, <2>3
    <3>2. x \in 0 .. last
      BY <1>1, <1>10
    <3>3. QED BY <1>1, <2>2, <3>1, <3>2, FrontFacts
  <2>5. x = r
    <3>1. x \in 0 .. last /\ r \in 0 .. last /\ Labels(label, last)
      BY <1>1, <1>10
    <3>2. QED BY <2>3, <2>4, <3>1, FrontFacts
  <2>6. QED BY <2>1, <2>5
<1>11. ~ WaitsInNfa(s)'
  BY <1>3, <1>7, <1>8, <1>10
<1>12. ASSUME NEW t \in TrieStates, t # s PROVE WaitsInNfa(t)' <=> WaitsInNfa(t)
  <2>1. ASSUME Below(label, r, t), label[t][Len(label[r]) + 1] = i
        PROVE  Below(label, s, t)
    <3>1. t \in 0 .. last
      BY <1>1, <1>12
    <3>2. PICK u \in 0 .. last : Child(label, r, i, u) /\ AtOrBelow(label, u, t)
      BY <1>1, <2>1, <3>1, BelowFirst
    <3>3. u = s
      BY <1>1, <1>2, <3>2, ChildUnique
    <3>4. QED BY <1>1, <1>12, <3>1, <3>2, <3>3, FrontFacts
  <2>2. ASSUME Below(label, r, t) PROVE label[t][Len(label[r]) + 1] \in Nat
    <3>1. label[t][Len(label[r]) + 1] \in Char
      BY <1>1, <1>12, <2>2, BelowFirst
    <3>2. QED BY <1>1, <3>1 DEF Char
  <2>3. ASSUME NEW x \in Nat PROVE x >= i <=> x = i \/ x >= i + 1
    BY <1>2
  <2>4. QED BY <1>6, <1>7, <2>1, <2>2, <2>3
<1>13. QED BY <1>9, <1>11, <1>12

LEMMA SetFailureInv == IInv /\ SetFailure => IInv'
<1> SUFFICES ASSUME IInv, SetFailure PROVE IInv'
  OBVIOUS
<1>a. PICK s : s = List_GetNextState(r, i)
  OBVIOUS
<1>b. PICK next : next = List_GetNextState(fs, i)
  OBVIOUS
<1> DEFINE last == acsmNumStates - 1
<1>1. /\ pc = "nfa_fail" /\ pc' = "nfa_char" /\ next # FAIL /\ i' = i + 1
      /\ acsmFailState' = [acsmFailState EXCEPT ![s] = next]
      /\ acsmMatchList' = [acsmMatchList EXCEPT ![s] = Reversed(acsmMatchList[next]) \o @]
      /\ queue' = queue /\ r' = r /\ fs' = fs
      /\ UNCHANGED <<acMode, input, addVars, trieVars>> /\ UNCHANGED acsmTransTable
  BY <1>a, <1>b DEF SetFailure
<1>2. /\ s \in TrieStates /\ s # 0 /\ next \in TrieStates /\ next # s
      /\ Child(label, r, i, s) /\ InQueue(queue, s) /\ Depth(s) = Depth(r) + 1
      /\ Depth(next) <= Depth(r) /\ Depth(next) < Depth(s)
      /\ EndsWith(label[s], label[next])
      /\ \A t \in TrieStates : EndsWith(label[s], label[t]) /\ t # s => Depth(t) <= Depth(next)
  BY <1>1, <1>a, <1>b, FoundFailure
<1> HIDE DEF last
<1>3. /\ Labels(label, last) /\ TrieStates = 0 .. last /\ r \in TrieStates /\ r # 0
      /\ queue \in Seq(1 .. acsmMaxStates - 1) /\ Ordered(label, queue) /\ After(label, queue, r)
      /\ TrieStates \subseteq Slots /\ Slots = 0 .. acsmMaxStates - 1 /\ fs \in Slots
      /\ acsmFailState \in [TrieStates -> TrieStates]
      /\ \A t \in TrieStates, c \in Char : TrieEntry(label, acsmTransTable, t, c)
      /\ \A t \in TrieStates : Len(label[t]) <= Len(label[r]) => Settled(t)
      /\ \A t \in TrieStates : label[t] \in Seq(Char) /\ Depth(t) \in Nat /\ Len(label[t]) = Depth(t)
      /\ i + 1 \in 0 .. AlphabetSize /\ pc \in NfaPhase \cup DfaPhase
  BY <1>1, NfaFacts, SearchFacts DEF NfaPhase, last
<1>4. /\ acsmMatchList \in [Slots -> Seq(DOMAIN acsmPatterns)] /\ TypeOK /\ ListInv /\ Built
      /\ TableTyped
  BY <1>3, GraphFacts
<1>5. /\ \A t \in TrieStates :
            IF WaitsInNfa(t) THEN ListsOwn(label, acsmMatchList[t], Len(acsmPatterns) + 1, t)
            ELSE Settled(t)
  BY <1>1 DEF IInv, NfaInv, NfaPhase
<1>6. label' = label /\ UNCHANGED <<queue, r, label>> /\ acsmPatterns' = acsmPatterns
  BY <1>1 DEF trieVars, addVars
<1>7. /\ WaitsInNfa(s) /\ ~ WaitsInNfa(s)'
      /\ \A t \in TrieStates : t # s => (WaitsInNfa(t)' <=> WaitsInNfa(t))
  <2>1. /\ pc = "nfa_fail" /\ pc' = "nfa_char" /\ i' = i + 1 /\ UNCHANGED <<queue, r, label>>
        /\ s \in TrieStates /\ Child(label, r, i, s) /\ InQueue(queue, s)
    BY <1>1, <1>2, <1>6
  <2>2. QED BY <2>1, WaitsNoMore
<1>8. ListsOwn(label, acsmMatchList[s], Len(acsmPatterns) + 1, s) /\ Settled(next)
  BY <1>2, <1>3, <1>5, <1>7
<1>9. /\ acsmMatchList[s] \in Seq(DOMAIN acsmPatterns)
      /\ acsmMatchList[next] \in Seq(DOMAIN acsmPatterns)
      /\ A!ListsSuffixes(acsmMatchList[next], acsmPatterns, label[next])
  BY <1>2, <1>3, <1>4, <1>8 DEF Settled
<1> DEFINE joined == Reversed(acsmMatchList[next]) \o acsmMatchList[s]
<1>10. A!ListsSuffixes(joined, acsmPatterns, label[s])
  <2>1. /\ s \in 0 .. last /\ next \in 0 .. last
        /\ Len(label[next]) < Len(label[s])
        /\ \A t \in 0 .. last :
             EndsWith(label[s], label[t]) /\ t # s => Len(label[t]) <= Len(label[next])
    BY <1>2, <1>3
  <2>2. QED BY <1>2, <1>3, <1>4, <1>8, <1>9, <2>1, JoinedLists
<1>11. joined \in Seq(DOMAIN acsmPatterns)
  BY <1>9, ReversedFacts, Joined
<1>12. /\ DOMAIN acsmMatchList' = Slots /\ acsmMatchList'[s] = joined
       /\ \A t \in Slots : t # s => acsmMatchList'[t] = acsmMatchList[t]
       /\ acsmFailState'[s] = next
       /\ \A t \in TrieStates : t # s => acsmFailState'[t] = acsmFailState[t]
       /\ acsmFailState' \in [TrieStates -> TrieStates]
       /\ acsmMatchList' \in [Slots -> Seq(DOMAIN acsmPatterns)]
  <2>1. s \in Slots
    BY <1>2, <1>3
  <2>2. /\ DOMAIN acsmMatchList' = Slots /\ acsmMatchList'[s] = joined
        /\ \A t \in Slots : t # s => acsmMatchList'[t] = acsmMatchList[t]
    BY <1>1, <1>4, <2>1
  <2>3. acsmMatchList' \in [Slots -> Seq(DOMAIN acsmPatterns)]
    <3> HIDE DEF joined
    <3>1. acsmMatchList' = [acsmMatchList EXCEPT ![s] = joined]
      BY <1>1 DEF joined
    <3>2. QED BY <1>4, <1>11, <2>1, <3>1
  <2>4. QED BY <1>1, <1>2, <1>3, <2>2, <2>3
<1> HIDE DEF joined
<1>13. /\ TypeOK' /\ ListInv' /\ Built' /\ TrieStates' = TrieStates /\ Slots' = Slots
  <2>1. pc' \in PcValues /\ queue' \in Seq(1 .. acsmMaxStates - 1) /\ r' \in Slots /\ fs' \in Slots
        /\ i' \in 0 .. AlphabetSize
    BY <1>1, <1>3 DEF PcValues, NfaPhase
  <2>2. QED BY <1>1, <1>3, <1>12, <2>1, GraphStays
<1>14. \A t : Depth(t)' = Depth(t)
  BY <1>6 DEF Depth
<1>15. Settled(s)'
  <2>1. Depth(acsmFailState[s])' = Depth(next)
    BY <1>6, <1>12 DEF Depth
  <2>2. FailsToLongestSuffix(s)'
    BY <1>2, <1>6, <1>12, <1>13, <1>14, <2>1 DEF FailsToLongestSuffix
  <2>3. QED BY <1>6, <1>10, <1>12, <2>2 DEF Settled
<1>16. ASSUME NEW t \in TrieStates, t # s
       PROVE  /\ Settled(t)' <=> Settled(t)
              /\ ListsOwn(label, acsmMatchList[t], Len(acsmPatterns) + 1, t)' <=>
                 ListsOwn(label, acsmMatchList[t], Len(acsmPatterns) + 1, t)
  <2>1. acsmMatchList'[t] = acsmMatchList[t] /\ acsmFailState'[t] = acsmFailState[t]
    BY <1>3, <1>12, <1>16
  <2>2. FailsToLongestSuffix(t)' <=> FailsToLongestSuffix(t)
    <3>1. Depth(acsmFailState[t])' = Depth(acsmFailState[t])
      BY <1>6, <2>1 DEF Depth
    <3>2. QED BY <1>6, <1>13, <1>14, <2>1, <3>1 DEF FailsToLongestSuffix
  <2>3. QED BY <1>6, <2>1, <2>2 DEF Settled, ListsOwn
<1>17. NfaInv'
  <2>1. TableTyped'
    BY <1>1, <1>4, <1>13 DEF TableTyped
  <2>2. \A t \in TrieStates', c \in Char : TrieEntry(label', acsmTransTable', t, c)
    BY <1>1, <1>3, <1>6, <1>13
  <2>3. Ordered(label', queue') /\ After(label', queue', r') /\ r' \in TrieStates' /\ r' # 0
    BY <1>1, <1>3, <1>6, <1>13
  <2>4. acsmFailState' \in [TrieStates' -> TrieStates']
    BY <1>12, <1>13
  <2>5. ASSUME NEW t \in TrieStates'
        PROVE  IF WaitsInNfa(t)' THEN ListsOwn(label, acsmMatchList[t], Len(acsmPatterns) + 1, t)'
               ELSE Settled(t)'
    <3>1. t \in TrieStates
      BY <1>13
    <3>2. CASE t = s
      BY <1>7, <1>15, <3>2
    <3>3. CASE t # s
      BY <1>5, <1>7, <1>16, <3>1, <3>3
    <3>4. QED BY <3>2, <3>3
  <2>6. pc' # "nfa_fail"
    BY <1>1
  <2>7. QED BY <1>13, <2>1, <2>2, <2>3, <2>4, <2>5, <2>6 DEF NfaInv
<1>18. pc' = "nfa_char"
  BY <1>1
<1>19. QED BY <1>13, <1>17, <1>18 DEF IInv, TriePhase, NfaPhase, DfaPhase

-----------------------------------------------------------------------------
(* The rows of the automaton.                                              *)

LEMMA ChildEntry ==
    ASSUME NEW lab, NEW last, Labels(lab, last), NEW s \in 0 .. last, NEW t \in 0 .. last,
           NEW c \in Char, Child(lab, s, c, t)
    PROVE  IsLongestSuffix(lab, t, Append(lab[s], c))
<1>1. lab[t] = Append(lab[s], c) /\ lab[t] \in Seq(Char)
  BY LabelFacts DEF Child
<1>2. EndsWith(lab[t], lab[t])
  BY <1>1, EveryStringEndsWith
<1>3. \A u : EndsWith(lab[t], lab[u]) => Len(lab[u]) <= Len(lab[t])
  BY DEF EndsWith
<1>4. QED BY <1>1, <1>2, <1>3 DEF IsLongestSuffix

LEMMA RootEntry ==
    ASSUME NEW lab, NEW last, Labels(lab, last), NEW c \in Char,
           \A t \in 0 .. last : ~ Child(lab, 0, c, t)
    PROVE  IsLongestSuffix(lab, 0, Append(lab[0], c))
<1>1. /\ lab[0] = << >> /\ 0 \in 0 .. last /\ DOMAIN lab = 0 .. last /\ lab[0] \in Seq(Char)
      /\ Len(lab[0]) = 0
  BY LabelFacts DEF Labels
<1>2. EndsWith(Append(lab[0], c), lab[0])
  BY <1>1, AppendFacts, EveryStringEndsWith
<1>3. ASSUME NEW t \in 0 .. last, EndsWith(Append(lab[0], c), lab[t]), t # 0 PROVE FALSE
  <2>1. PICK u \in 0 .. last : Child(lab, u, c, t) /\ EndsWith(lab[0], lab[u])
    BY <1>1, <1>3, SuffixChild
  <2>2. Len(lab[u]) = 0
    <3>1. Len(lab[u]) \in Nat
      BY LabelFacts
    <3>2. QED BY <1>1, <2>1, <3>1 DEF EndsWith
  <2>3. u = 0
    BY <2>2, LabelFacts
  <2>4. QED BY <2>1, <2>3
<1>4. Len(lab[0]) <= Len(lab[0])
  BY <1>1
<1>5. QED BY <1>1, <1>2, <1>3, <1>4 DEF IsLongestSuffix

(* Where the trie does not go on, the automaton goes where its failure     *)
(* state goes.                                                             *)
LEMMA InheritedEntry ==
    ASSUME NEW lab, NEW last, Labels(lab, last), NEW s \in 0 .. last, NEW f \in 0 .. last,
           NEW g \in 0 .. last, NEW c \in Char,
           \A t \in 0 .. last : ~ Child(lab, s, c, t),
           EndsWith(lab[s], lab[f]),
           \A t \in 0 .. last : EndsWith(lab[s], lab[t]) /\ t # s => Len(lab[t]) <= Len(lab[f]),
           IsLongestSuffix(lab, g, Append(lab[f], c))
    PROVE  IsLongestSuffix(lab, g, Append(lab[s], c))
<1> DEFINE vs == Append(lab[s], c)
           vf == Append(lab[f], c)
<1>1. /\ lab[s] \in Seq(Char) /\ lab[f] \in Seq(Char) /\ lab[g] \in Seq(Char)
      /\ DOMAIN lab = 0 .. last
  BY LabelFacts
<1>2. vs \in Seq(Char) /\ vf \in Seq(Char) /\ EndsWith(vs, vf)
  BY <1>1, AppendFacts, SuffixOfAppend
<1>3. /\ EndsWith(vf, lab[g])
      /\ \A t \in 0 .. last : EndsWith(vf, lab[t]) => Len(lab[t]) <= Len(lab[g])
  BY <1>1 DEF IsLongestSuffix
<1>4. EndsWith(vs, lab[g])
  BY <1>1, <1>2, <1>3, SuffixOfSuffix
<1>5. ASSUME NEW t \in 0 .. last, EndsWith(vs, lab[t]) PROVE EndsWith(vf, lab[t])
  <2>1. CASE t = 0
    <3>1. lab[t] = << >>
      BY <2>1 DEF Labels
    <3>2. QED BY <1>2, <3>1, EveryStringEndsWith
  <2>2. CASE t # 0
    <3>1. PICK u \in 0 .. last : Child(lab, u, c, t) /\ EndsWith(lab[s], lab[u])
      BY <1>1, <1>5, <2>2, SuffixChild
    <3>2. Len(lab[u]) <= Len(lab[f])
      BY <3>1
    <3>3. EndsWith(lab[f], lab[u])
      BY <1>1, <3>1, <3>2, SuffixesDiffer
    <3>4. QED BY <1>1, <3>1, <3>3, SuffixChild
  <2>3. QED BY <2>1, <2>2
<1>6. QED BY <1>1, <1>3, <1>4, <1>5 DEF IsLongestSuffix

LEMMA SameEntry ==
    ASSUME NEW lab, NEW table, NEW new, NEW s, NEW c,
           c \in DOMAIN new[s] <=> c \in DOMAIN table[s],
           c \in DOMAIN table[s] => new[s][c] = table[s][c]
    PROVE  /\ TrieEntry(lab, new, s, c) <=> TrieEntry(lab, table, s, c)
           /\ FinalEntry(lab, new, s, c) <=> FinalEntry(lab, table, s, c)
  BY DEF TrieEntry, FinalEntry

(* The failure links and match lists are final.                            *)
LEMMA DfaStays ==
    ASSUME IInv, pc \in NfaPhase \cup DfaPhase, pc' \in DfaPhase,
           \A s \in TrieStates : Settled(s),
           UNCHANGED <<acMode, input, addVars, trieVars>>,
           UNCHANGED <<acsmMatchList, acsmFailState>>,
           queue' \in Seq(1 .. acsmMaxStates - 1), r' \in Slots, fs' \in Slots,
           i' \in 0 .. AlphabetSize,
           Ordered(label, queue'),
           pc' = "dfa_char" => After(label, queue', r') /\ r' \in TrieStates /\ r' # 0,
           DOMAIN acsmTransTable' = Slots,
           \A s \in Slots : DOMAIN acsmTransTable'[s] \subseteq Char,
           \A s \in TrieStates, c \in Char :
              IF WaitsInDfa(s, c)' THEN TrieEntry(label, acsmTransTable', s, c)
              ELSE FinalEntry(label, acsmTransTable', s, c)
    PROVE  IInv'
<1>1. /\ acsmMatchList \in [Slots -> Seq(DOMAIN acsmPatterns)]
      /\ acsmFailState \in [TrieStates -> TrieStates]
  BY GraphFacts
<1>2. pc' \in PcValues /\ acsmMatchList' \in [Slots -> Seq(DOMAIN acsmPatterns)]
  BY <1>1 DEF PcValues
<1>3. /\ TypeOK' /\ ListInv' /\ Built'
      /\ label' = label /\ acsmPatterns' = acsmPatterns /\ TrieStates' = TrieStates
      /\ Slots' = Slots
  BY <1>2, GraphStays
<1>4. TableTyped'
  BY <1>3 DEF TableTyped
<1>5. ASSUME NEW s \in TrieStates' PROVE Settled(s)'
  <2>1. Settled(s)
    BY <1>3
  <2>2. FailsToLongestSuffix(s)' <=> FailsToLongestSuffix(s)
    <3>1. \A t : Depth(t)' = Depth(t)
      BY <1>3 DEF Depth
    <3>2. QED BY <1>3, <3>1 DEF FailsToLongestSuffix
  <2>3. QED BY <1>3, <2>1, <2>2 DEF Settled
<1>6. acsmFailState' \in [TrieStates' -> TrieStates']
  BY <1>1, <1>3
<1>7. DfaInv'
  BY <1>3, <1>4, <1>5, <1>6 DEF DfaInv
<1>8. pc' # "add" /\ pc' # "ready" /\ pc' \notin TriePhase /\ pc' \notin NfaPhase
  BY DEF DfaPhase, TriePhase, NfaPhase
<1>9. QED BY <1>3, <1>7, <1>8 DEF IInv

LEMMA BeginDfaInv == IInv /\ BeginDfa => IInv'
<1> SUFFICES ASSUME IInv, BeginDfa PROVE IInv'
  OBVIOUS
<1> DEFINE last == acsmNumStates - 1
<1>1. /\ pc = "nfa_queue" /\ pc' = "dfa_queue" /\ queue = << >> /\ queue' = RootChildren
      /\ r' = r /\ i' = i /\ fs' = fs
      /\ UNCHANGED <<acMode, input, addVars, trieVars>>
      /\ UNCHANGED <<acsmMatchList, acsmFailState>> /\ UNCHANGED acsmTransTable
  BY DEF BeginDfa
<1>2. /\ Labels(label, last) /\ TrieStates = 0 .. last /\ r \in TrieStates
      /\ TrieStates \subseteq Slots /\ Slots = 0 .. acsmMaxStates - 1 /\ acsmMaxStates \in Nat \ {0}
      /\ \A t \in TrieStates, c \in Char : TrieEntry(label, acsmTransTable, t, c)
      /\ pc \in NfaPhase \cup DfaPhase /\ 0 \in TrieStates
      /\ fs \in Slots /\ i \in 0 .. AlphabetSize /\ DOMAIN label = 0 .. last
  BY <1>1, NfaFacts DEF NfaPhase
<1> HIDE DEF last
<1>3. TableTyped /\ \A t \in TrieStates : WaitsInNfa(t) \/ Settled(t)
  BY <1>1 DEF IInv, NfaInv, NfaPhase
<1>4. ASSUME NEW t \in TrieStates PROVE Settled(t)
  <2>1. ~ WaitsInNfa(t)
    BY <1>1, NothingQueued DEF WaitsInNfa
  <2>2. QED BY <1>3, <2>1
<1>5. /\ Labels(label, last) /\ 0 .. last \subseteq Slots /\ acsmMaxStates \in Nat
      /\ \A c \in Char : TrieEntry(label, acsmTransTable, 0, c)
  BY <1>2
<1>6. queue' \in Seq(1 .. acsmMaxStates - 1)
  BY <1>1, <1>2, <1>5, RootChildrenFacts
<1>7. /\ Ordered(label, queue')
      /\ \A s \in 0 .. last : s # 0 =>
           \E x \in 0 .. last : InQueue(queue', x) /\ AtOrBelow(label, x, s)
  BY <1>1, <1>2, <1>5, RootQueueOrdered
<1>8. label' = label /\ TrieStates' = TrieStates
  BY <1>1 DEF trieVars, TrieStates
<1>9. \A s, c : WaitsInDfa(s, c)' <=> \E x \in TrieStates : InQueue(queue', x) /\ AtOrBelow(label, x, s)
  BY <1>1, <1>8 DEF WaitsInDfa
<1>10. ASSUME NEW s \in TrieStates, NEW c \in Char
       PROVE  IF WaitsInDfa(s, c)' THEN TrieEntry(label, acsmTransTable', s, c)
              ELSE FinalEntry(label, acsmTransTable', s, c)
  <2>1. TrieEntry(label, acsmTransTable, s, c)
    BY <1>2
  <2>2. CASE s # 0
    BY <1>1, <1>2, <1>7, <1>9, <2>1, <2>2
  <2>3. CASE s = 0
    <3>1. CASE c \in DOMAIN acsmTransTable[s]
      <4>1. acsmTransTable[s][c] \in 0 .. last /\ Child(label, s, c, acsmTransTable[s][c])
        BY <1>2, <2>1, <3>1 DEF TrieEntry
      <4>2. acsmTransTable[s][c] # 0
        BY <1>2, <4>1, ChildFacts
      <4>3. IsLongestSuffix(label, acsmTransTable[s][c], Append(label[s], c))
        BY <1>2, <4>1, ChildEntry
      <4>4. FinalEntry(label, acsmTransTable, s, c)
        BY <1>2, <3>1, <4>1, <4>2, <4>3 DEF FinalEntry
      <4>5. QED BY <1>1, <2>1, <4>4
    <3>2. CASE c \notin DOMAIN acsmTransTable[s]
      <4>1. \A t \in 0 .. last : ~ Child(label, 0, c, t)
        BY <1>2, <2>1, <2>3, <3>2 DEF TrieEntry
      <4>2. FinalEntry(label, acsmTransTable, s, c)
        BY <1>2, <2>3, <3>2, <4>1, RootEntry DEF FinalEntry
      <4>3. QED BY <1>1, <2>1, <4>2
    <3>3. QED BY <3>1, <3>2
  <2>4. QED BY <2>2, <2>3
<1>11. /\ pc' \in DfaPhase /\ r' \in Slots /\ fs' \in Slots /\ i' \in 0 .. AlphabetSize
       /\ pc' # "dfa_char"
  BY <1>1, <1>2 DEF DfaPhase
<1>12. /\ DOMAIN acsmTransTable' = Slots
       /\ \A s \in Slots : DOMAIN acsmTransTable'[s] \subseteq Char
  BY <1>1, <1>3 DEF TableTyped
<1>13. QED BY <1>1, <1>2, <1>4, <1>6, <1>7, <1>10, <1>11, <1>12, DfaStays

LEMMA DfaFacts ==
    ASSUME IInv, pc \in DfaPhase
    PROVE  /\ Labels(label, acsmNumStates - 1)
           /\ DOMAIN label = 0 .. acsmNumStates - 1 /\ TrieStates = 0 .. acsmNumStates - 1
           /\ 0 \in TrieStates /\ TrieStates \subseteq Slots /\ Slots = 0 .. acsmMaxStates - 1
           /\ pc \in NfaPhase \cup DfaPhase
           /\ queue \in Seq(1 .. acsmMaxStates - 1) /\ Ordered(label, queue)
           /\ r \in Slots /\ fs \in Slots /\ i \in 0 .. AlphabetSize /\ AlphabetSize \in Nat \ {0}
           /\ acsmFailState \in [TrieStates -> TrieStates]
           /\ \A s \in TrieStates : Settled(s)
           /\ pc = "dfa_char" => After(label, queue, r) /\ r \in TrieStates /\ r # 0
           /\ DOMAIN acsmTransTable = Slots
           /\ \A s \in Slots : DOMAIN acsmTransTable[s] \subseteq Char
           /\ \A s \in TrieStates, c \in Char :
                IF WaitsInDfa(s, c) THEN TrieEntry(label, acsmTransTable, s, c)
                ELSE FinalEntry(label, acsmTransTable, s, c)
           /\ \A s \in TrieStates : label[s] \in Seq(Char) /\ Depth(s) \in Nat /\ Len(label[s]) = Depth(s)
<1>1. DfaInv /\ pc \in NfaPhase \cup DfaPhase /\ pc # "add"
  BY DEF IInv, DfaPhase
<1>2. /\ Labels(label, acsmNumStates - 1) /\ TypeOK /\ ListInv
      /\ DOMAIN label = 0 .. acsmNumStates - 1 /\ TrieStates = 0 .. acsmNumStates - 1
      /\ 0 \in TrieStates /\ TrieStates \subseteq Slots /\ Slots = 0 .. acsmMaxStates - 1
      /\ queue \in Seq(1 .. acsmMaxStates - 1) /\ Ordered(label, queue)
      /\ acsmFailState \in [TrieStates -> TrieStates]
      /\ \A s \in TrieStates : label[s] \in Seq(Char) /\ Depth(s) \in Nat /\ Len(label[s]) = Depth(s)
  BY <1>1, GraphFacts
<1>3. r \in Slots /\ fs \in Slots /\ i \in 0 .. AlphabetSize
  BY <1>1, <1>2, TypeFacts
<1>4. /\ \A s \in TrieStates : Settled(s)
      /\ pc = "dfa_char" => After(label, queue, r) /\ r \in TrieStates /\ r # 0
      /\ DOMAIN acsmTransTable = Slots
      /\ \A s \in Slots : DOMAIN acsmTransTable[s] \subseteq Char
      /\ \A s \in TrieStates, c \in Char :
           IF WaitsInDfa(s, c) THEN TrieEntry(label, acsmTransTable, s, c)
           ELSE FinalEntry(label, acsmTransTable, s, c)
  BY <1>1 DEF DfaInv, TableTyped
<1>5. QED BY <1>1, <1>2, <1>3, <1>4, AlphabetAssumption

(* The rows of the states in the queue and below them, what is left of the *)
(* row of r and the rows below it by a char still to come.                 *)
LEMMA WaitsInRow ==
    ASSUME pc = "dfa_char", NEW s, NEW c
    PROVE  WaitsInDfa(s, c) <=> \/ \E x \in TrieStates : InQueue(queue, x) /\ AtOrBelow(label, x, s)
                                \/ Below(label, r, s) /\ label[s][Len(label[r]) + 1] >= i
                                \/ s = r /\ c >= i
  BY DEF WaitsInDfa, Depth

(* Nothing above r waits, nor r but for the chars still to come.           *)
LEMMA NoRowWaits ==
    ASSUME NEW lab, NEW last, Labels(lab, last), NEW q, NEW s \in 0 .. last, After(lab, q, s),
           NEW t \in 0 .. last, Len(lab[t]) <= Len(lab[s]),
           NEW x \in 0 .. last, InQueue(q, x), AtOrBelow(lab, x, t)
    PROVE  t # s /\ Len(lab[t]) = Len(lab[s])
<1>1. Len(lab[x]) \in Nat /\ Len(lab[s]) \in Nat /\ Len(lab[t]) \in Nat
  BY LabelFacts
<1>2. x # s /\ Len(lab[s]) <= Len(lab[x])
  BY InOrder
<1>3. Len(lab[x]) <= Len(lab[t])
  BY Beneath
<1>4. Len(lab[x]) = Len(lab[t]) /\ Len(lab[t]) = Len(lab[s])
  BY <1>1, <1>2, <1>3
<1>5. x = t
  BY <1>4, FrontFacts
<1>6. QED BY <1>2, <1>4, <1>5

LEMMA DfaDequeueInv == IInv /\ DfaDequeue => IInv'
<1> SUFFICES ASSUME IInv, DfaDequeue PROVE IInv'
  OBVIOUS
<1>1. /\ pc = "dfa_queue" /\ pc' = "dfa_char" /\ queue # << >>
      /\ r' = Head(queue) /\ queue' = Tail(queue) /\ i' = 0 /\ fs' = fs
      /\ UNCHANGED <<acMode, input, addVars, trieVars>>
      /\ UNCHANGED <<acsmMatchList, acsmFailState>> /\ UNCHANGED acsmTransTable
  BY DEF DfaDequeue, Dequeue
<1>2. /\ Labels(label, acsmNumStates - 1)
      /\ DOMAIN label = 0 .. acsmNumStates - 1 /\ TrieStates = 0 .. acsmNumStates - 1
      /\ queue \in Seq(1 .. acsmMaxStates - 1) /\ Ordered(label, queue) /\ fs \in Slots
      /\ AlphabetSize \in Nat \ {0} /\ TrieStates \subseteq Slots /\ pc \in NfaPhase \cup DfaPhase
      /\ \A s \in TrieStates : Settled(s)
      /\ DOMAIN acsmTransTable = Slots
      /\ \A s \in Slots : DOMAIN acsmTransTable[s] \subseteq Char
      /\ \A s \in TrieStates, c \in Char :
           IF WaitsInDfa(s, c) THEN TrieEntry(label, acsmTransTable, s, c)
           ELSE FinalEntry(label, acsmTransTable, s, c)
  BY <1>1, DfaFacts DEF DfaPhase
<1>3. /\ Ordered(label, queue') /\ After(label, queue', r')
      /\ r' \in TrieStates /\ r' # 0 /\ queue' \in Seq(1 .. acsmMaxStates - 1)
      /\ \A x : InQueue(queue, x) <=> x = r' \/ InQueue(queue', x)
  BY <1>1, <1>2, DequeueOrdered
<1>4. label' = label /\ TrieStates' = TrieStates
  BY <1>1 DEF trieVars, TrieStates
<1>5. ASSUME NEW s \in TrieStates, NEW c \in Char PROVE WaitsInDfa(s, c)' <=> WaitsInDfa(s, c)
  <2>1. Below(label, r', s) => label[s][Len(label[r']) + 1] >= 0
    <3>1. Below(label, r', s) => label[s][Len(label[r']) + 1] \in Char
      BY <1>2, <1>3, BelowFirst
    <3>2. QED BY <3>1, <1>2 DEF Char
  <2>2. WaitsInDfa(s, c) <=> \E x \in TrieStates : InQueue(queue, x) /\ AtOrBelow(label, x, s)
    BY <1>1 DEF WaitsInDfa
  <2>3. WaitsInDfa(s, c)' <=> \/ \E x \in TrieStates : InQueue(queue', x) /\ AtOrBelow(label, x, s)
                              \/ Below(label, r', s)
                              \/ s = r'
    <3>1. c >= 0
      BY <1>2 DEF Char
    <3>2. QED BY <1>1, <1>4, <2>1, <3>1 DEF WaitsInDfa, Depth
  <2>4. AtOrBelow(label, r', s) <=> Below(label, r', s) \/ s = r'
    BY <1>2, <1>3, FrontFacts
  <2>5. QED BY <1>3, <2>2, <2>3, <2>4
<1>6. ASSUME NEW s \in TrieStates, NEW c \in Char
      PROVE  IF WaitsInDfa(s, c)' THEN TrieEntry(label, acsmTransTable', s, c)
             ELSE FinalEntry(label, acsmTransTable', s, c)
  BY <1>1, <1>2, <1>5
<1>7. /\ pc' \in DfaPhase /\ r' \in Slots /\ fs' \in Slots /\ i' \in 0 .. AlphabetSize
      /\ DOMAIN acsmTransTable' = Slots
      /\ \A s \in Slots : DOMAIN acsmTransTable'[s] \subseteq Char
  BY <1>1, <1>2, <1>3 DEF DfaPhase
<1>8. QED BY <1>1, <1>2, <1>3, <1>6, <1>7, DfaStays

LEMMA DfaEndOfCharsInv == IInv /\ DfaEndOfChars => IInv'
<1> SUFFICES ASSUME IInv, DfaEndOfChars PROVE IInv'
  OBVIOUS
<1>1. /\ pc = "dfa_char" /\ pc' = "dfa_queue" /\ i = AlphabetSize
      /\ UNCHANGED <<queue, r, i, fs>>
      /\ UNCHANGED <<acMode, input, addVars, trieVars>>
      /\ UNCHANGED <<acsmMatchList, acsmFailState>> /\ UNCHANGED acsmTransTable
  BY DEF DfaEndOfChars, EndOfChars, graphVars
<1>2. /\ Labels(label, acsmNumStates - 1)
      /\ DOMAIN label = 0 .. acsmNumStates - 1 /\ TrieStates = 0 .. acsmNumStates - 1
      /\ queue \in Seq(1 .. acsmMaxStates - 1) /\ Ordered(label, queue)
      /\ r \in Slots /\ fs \in Slots /\ r \in TrieStates
      /\ AlphabetSize \in Nat \ {0} /\ i \in 0 .. AlphabetSize
      /\ TrieStates \subseteq Slots /\ pc \in NfaPhase \cup DfaPhase
      /\ \A s \in TrieStates : Settled(s)
      /\ DOMAIN acsmTransTable = Slots
      /\ \A s \in Slots : DOMAIN acsmTransTable[s] \subseteq Char
      /\ \A s \in TrieStates, c \in Char :
           IF WaitsInDfa(s, c) THEN TrieEntry(label, acsmTransTable, s, c)
           ELSE FinalEntry(label, acsmTransTable, s, c)
  BY <1>1, DfaFacts DEF DfaPhase
<1>3. label' = label /\ TrieStates' = TrieStates
  BY <1>1 DEF trieVars, TrieStates
<1>4. ASSUME NEW s \in TrieStates, NEW c \in Char PROVE WaitsInDfa(s, c)' <=> WaitsInDfa(s, c)
  <2>1. Below(label, r, s) => ~(label[s][Len(label[r]) + 1] >= i)
    <3>1. Below(label, r, s) => label[s][Len(label[r]) + 1] \in Char
      BY <1>2, BelowFirst
    <3>2. \A x \in Char : ~(x >= i)
      BY <1>1, <1>2 DEF Char
    <3>3. QED BY <3>1, <3>2
  <2>2. ~(c >= i)
    BY <1>1, <1>2 DEF Char
  <2>3. QED BY <1>1, <1>3, <2>1, <2>2 DEF WaitsInDfa, Depth
<1>5. ASSUME NEW s \in TrieStates, NEW c \in Char
      PROVE  IF WaitsInDfa(s, c)' THEN TrieEntry(label, acsmTransTable', s, c)
             ELSE FinalEntry(label, acsmTransTable', s, c)
  BY <1>1, <1>2, <1>4
<1>6. /\ pc' \in DfaPhase /\ pc' # "dfa_char"
      /\ queue' \in Seq(1 .. acsmMaxStates - 1) /\ Ordered(label, queue')
      /\ r' \in Slots /\ fs' \in Slots /\ i' \in 0 .. AlphabetSize
      /\ DOMAIN acsmTransTable' = Slots
      /\ \A s \in Slots : DOMAIN acsmTransTable'[s] \subseteq Char
  BY <1>1, <1>2 DEF DfaPhase
<1>7. QED BY <1>1, <1>2, <1>5, <1>6, DfaStays

(* The states below s by the char c are those at or below its child.       *)
LEMMA BelowByChar ==
    ASSUME NEW lab, NEW last, Labels(lab, last), NEW s \in 0 .. last, NEW c \in Char,
           NEW t \in 0 .. last
    PROVE  /\ (\E x \in 0 .. last : Child(lab, s, c, x) /\ AtOrBelow(lab, x, t)) <=>
                 Below(lab, s, t) /\ lab[t][Len(lab[s]) + 1] = c
           /\ Below(lab, s, t) => lab[t][Len(lab[s]) + 1] \in Char
<1>1. Len(lab[s]) \in Nat /\ Len(lab[t]) \in Nat
  BY LabelFacts
<1>2. ASSUME NEW x \in 0 .. last, Child(lab, s, c, x), AtOrBelow(lab, x, t)
      PROVE  Below(lab, s, t) /\ lab[t][Len(lab[s]) + 1] = c
  <2>1. /\ Len(lab[x]) = Len(lab[s]) + 1 /\ lab[x][Len(lab[s]) + 1] = c
        /\ IsFront(lab[s], lab[x])
    BY <1>2, ChildFacts
  <2>2. AtOrBelow(lab, s, x)
    BY <2>1 DEF AtOrBelow
  <2>3. AtOrBelow(lab, s, t) /\ Len(lab[x]) <= Len(lab[t])
    BY <1>2, <2>2, FrontFacts
  <2>4. Len(lab[s]) < Len(lab[t])
    BY <1>1, <2>1, <2>3
  <2>5. Len(lab[s]) + 1 \in 1 .. Len(lab[x])
    BY <1>1, <2>1
  <2>6. lab[t][Len(lab[s]) + 1] = lab[x][Len(lab[s]) + 1]
    BY <1>2, <2>5 DEF AtOrBelow, IsFront
  <2>7. QED BY <2>1, <2>3, <2>4, <2>6 DEF Below, AtOrBelow
<1>3. ASSUME Below(lab, s, t)
      PROVE  /\ lab[t][Len(lab[s]) + 1] \in Char
             /\ \E x \in 0 .. last :
                  Child(lab, s, lab[t][Len(lab[s]) + 1], x) /\ AtOrBelow(lab, x, t)
  BY <1>3, BelowFirst
<1>4. QED BY <1>2, <1>3

(* After a char of the row of r nothing has stopped waiting but its entry. *)
LEMMA RowAdvances ==
    ASSUME IInv, pc = "dfa_char", pc' = "dfa_char", i < AlphabetSize, i' = i + 1,
           r' = r, label' = label, After(label, queue', r),
           \A x \in TrieStates : InQueue(queue', x) <=> InQueue(queue, x) \/ Child(label, r, i, x),
           NEW row, row = r, NEW col, col = i
    PROVE  /\ WaitsInDfa(row, col) /\ ~ WaitsInDfa(row, col)'
           /\ \A s \in TrieStates, c \in Char :
                s # row \/ c # col => (WaitsInDfa(s, c)' <=> WaitsInDfa(s, c))
<1> DEFINE last == acsmNumStates - 1
<1>1. /\ Labels(label, last) /\ TrieStates = 0 .. last /\ r \in 0 .. last
      /\ i \in 0 .. AlphabetSize /\ AlphabetSize \in Nat
  BY DfaFacts DEF DfaPhase
<1> HIDE DEF last
<1>2. i \in Char /\ i \in Nat /\ i >= i /\ ~(i >= i + 1)
  BY <1>1 DEF Char
<1>3. TrieStates' = TrieStates
  BY DEF TrieStates
<1>4. ASSUME NEW s, NEW c
      PROVE  WaitsInDfa(s, c)' <=>
                \/ \E x \in TrieStates : InQueue(queue', x) /\ AtOrBelow(label, x, s)
                \/ Below(label, r, s) /\ label[s][Len(label[r]) + 1] >= i + 1
                \/ s = r /\ c >= i + 1
  BY <1>3 DEF WaitsInDfa, Depth
<1>5. ASSUME NEW s, NEW c
      PROVE  WaitsInDfa(s, c) <=>
                \/ \E x \in TrieStates : InQueue(queue, x) /\ AtOrBelow(label, x, s)
                \/ Below(label, r, s) /\ label[s][Len(label[r]) + 1] >= i
                \/ s = r /\ c >= i
  BY WaitsInRow
<1>6. WaitsInDfa(row, col)
  BY <1>2, <1>5
<1>7. ~ WaitsInDfa(row, col)'
  <2>1. ASSUME NEW x \in TrieStates, InQueue(queue', x), AtOrBelow(label, x, r) PROVE FALSE
    <3>1. Len(label[r]) <= Len(label[r])
      BY <1>1, LabelFacts
    <3>2. x \in 0 .. last
      BY <1>1
    <3>3. QED BY <1>1, <2>1, <3>1, <3>2, NoRowWaits
  <2>2. ~ Below(label, r, r)
    BY <1>1, FrontFacts
  <2>3. QED BY <1>2, <1>4, <2>1, <2>2
<1>8. ASSUME NEW s \in TrieStates, NEW c \in Char, s # row \/ c # col
      PROVE  WaitsInDfa(s, c)' <=> WaitsInDfa(s, c)
  <2>1. /\ (\E x \in TrieStates : Child(label, r, i, x) /\ AtOrBelow(label, x, s)) <=>
              Below(label, r, s) /\ label[s][Len(label[r]) + 1] = i
        /\ Below(label, r, s) => label[s][Len(label[r]) + 1] \in Char
    BY <1>1, <1>2, BelowByChar
  <2>2. ASSUME NEW x \in Char PROVE /\ x >= i <=> x = i \/ x >= i + 1
    BY <1>1 DEF Char
  <2>3. s = r => (c >= i <=> c >= i + 1)
    BY <1>8, <2>2
  <2>4. Below(label, r, s) =>
          (label[s][Len(label[r]) + 1] >= i <=>
             \/ label[s][Len(label[r]) + 1] = i
             \/ label[s][Len(label[r]) + 1] >= i + 1)
    BY <2>1, <2>2
  <2>5. (\E x \in TrieStates : InQueue(queue', x) /\ AtOrBelow(label, x, s)) <=>
           \/ \E x \in TrieStates : InQueue(queue, x) /\ AtOrBelow(label, x, s)
           \/ \E x \in TrieStates : Child(label, r, i, x) /\ AtOrBelow(label, x, s)
    OBVIOUS
  <2>6. QED BY <1>4, <1>5, <2>1, <2>3, <2>4, <2>5
<1>9. QED BY <1>6, <1>7, <1>8

(* The row of the failure state of r is finished, and tells where a char   *)
(* leads that the trie does not know at r.                                 *)
LEMMA FailureRow ==
    ASSUME IInv, pc = "dfa_char", i < AlphabetSize, \A t \in TrieStates : ~ Child(label, r, i, t),
           NEW g, g = List_GetNextState(acsmFailState[r], i),
           NEW h, h = IF g = FAIL THEN 0 ELSE g
    PROVE  h \in TrieStates /\ IsLongestSuffix(label, h, Append(label[r], i))
<1> DEFINE last == acsmNumStates - 1
           f == acsmFailState[r]
<1>1. /\ Labels(label, last) /\ TrieStates = 0 .. last /\ r \in 0 .. last /\ r # 0
      /\ DOMAIN label = 0 .. last /\ 0 \in 0 .. last
      /\ i \in 0 .. AlphabetSize /\ AlphabetSize \in Nat /\ After(label, queue, r)
      /\ acsmFailState \in [TrieStates -> TrieStates] /\ \A t \in TrieStates : Settled(t)
      /\ \A t \in TrieStates, c \in Char :
           IF WaitsInDfa(t, c) THEN TrieEntry(label, acsmTransTable, t, c)
           ELSE FinalEntry(label, acsmTransTable, t, c)
      /\ \A t \in TrieStates : label[t] \in Seq(Char) /\ Depth(t) \in Nat /\ Len(label[t]) = Depth(t)
  BY DfaFacts DEF DfaPhase
<1> HIDE DEF last
<1>2. i \in Char /\ f \in 0 .. last
  BY <1>1 DEF Char
<1>3. /\ Len(label[f]) < Len(label[r]) /\ EndsWith(label[r], label[f])
      /\ \A t \in 0 .. last : EndsWith(label[r], label[t]) /\ t # r => Len(label[t]) <= Len(label[f])
  <2>1. FailsToLongestSuffix(r)
    BY <1>1 DEF Settled
  <2>2. QED BY <1>1, <1>2, <2>1 DEF FailsToLongestSuffix, Depth
<1>4. g = List_GetNextState(f, i)
  OBVIOUS
<1> HIDE DEF f
<1>5. ~ WaitsInDfa(f, i)
  <2>1. Len(label[f]) \in Nat /\ Len(label[r]) \in Nat
    BY <1>1, <1>2, LabelFacts
  <2>2. Len(label[f]) <= Len(label[r]) /\ Len(label[f]) # Len(label[r])
    BY <1>3, <2>1
  <2>3. ASSUME NEW x \in TrieStates, InQueue(queue, x), AtOrBelow(label, x, f) PROVE FALSE
    <3>1. x \in 0 .. last
      BY <1>1
    <3>2. QED BY <1>1, <1>2, <2>2, <2>3, <3>1, NoRowWaits
  <2>4. ~ Below(label, r, f)
    BY <1>1, <1>2, <2>2, Beneath
  <2>5. f # r
    BY <2>2
  <2>6. QED BY <2>3, <2>4, <2>5, WaitsInRow
<1>6. FinalEntry(label, acsmTransTable, f, i)
  BY <1>1, <1>2, <1>5
<1>7. h \in 0 .. last /\ IsLongestSuffix(label, h, Append(label[f], i))
  <2>1. CASE i \in DOMAIN acsmTransTable[f]
    <3>1. g = acsmTransTable[f][i]
      BY <1>4, <2>1 DEF List_GetNextState
    <3>2. g \in 0 .. last /\ IsLongestSuffix(label, g, Append(label[f], i))
      BY <1>1, <1>6, <2>1, <3>1 DEF FinalEntry
    <3>3. g # FAIL
      BY <3>2 DEF FAIL
    <3>4. QED BY <3>2, <3>3
  <2>2. CASE i \notin DOMAIN acsmTransTable[f]
    <3>1. h = 0
      BY <1>4, <2>2 DEF List_GetNextState
    <3>2. QED BY <1>1, <1>6, <2>2, <3>1 DEF FinalEntry
  <2>3. QED BY <2>1, <2>2
<1>8. \A t \in 0 .. last : ~ Child(label, r, i, t)
  BY <1>1
<1>9. IsLongestSuffix(label, h, Append(label[r], i))
  BY <1>1, <1>2, <1>3, <1>7, <1>8, InheritedEntry
<1>10. QED BY <1>1, <1>7, <1>9

LEMMA DfaCharInv == IInv /\ DfaChar => IInv'
<1> SUFFICES ASSUME IInv, DfaChar PROVE IInv'
  OBVIOUS
<1> DEFINE last == acsmNumStates - 1
<1>a. PICK row : row = r
  OBVIOUS
<1>b. PICK col : col = i
  OBVIOUS
<1>c. PICK s : s = List_GetNextState(r, i)
  OBVIOUS
<1>d. PICK g : g = List_GetNextState(acsmFailState[r], i)
  OBVIOUS
<1>1. /\ pc = "dfa_char" /\ pc' = "dfa_char" /\ i < AlphabetSize
      /\ queue' = IF s \notin {FAIL, 0} THEN queue_add(queue, s) ELSE queue
      /\ acsmTransTable' = IF s \in {FAIL, 0} /\ g \notin {FAIL, 0}
                           THEN List_PutNextState(acsmTransTable, row, col, g)
                           ELSE acsmTransTable
      /\ i' = i + 1 /\ r' = r /\ fs' = fs
      /\ UNCHANGED <<acMode, input, addVars, trieVars>>
      /\ UNCHANGED <<acsmMatchList, acsmFailState>>
  BY <1>a, <1>b, <1>c, <1>d DEF DfaChar
<1>2. /\ Labels(label, last) /\ DOMAIN label = 0 .. last /\ TrieStates = 0 .. last
      /\ queue \in Seq(1 .. acsmMaxStates - 1) /\ Ordered(label, queue)
      /\ r \in 0 .. last /\ r # 0 /\ r \in Slots /\ fs \in Slots /\ After(label, queue, r)
      /\ AlphabetSize \in Nat \ {0} /\ i \in 0 .. AlphabetSize
      /\ TrieStates \subseteq Slots /\ Slots = 0 .. acsmMaxStates - 1
      /\ pc \in NfaPhase \cup DfaPhase
      /\ \A t \in TrieStates : Settled(t)
      /\ DOMAIN acsmTransTable = Slots
      /\ \A t \in Slots : DOMAIN acsmTransTable[t] \subseteq Char
      /\ \A t \in TrieStates, c \in Char :
           IF WaitsInDfa(t, c) THEN TrieEntry(label, acsmTransTable, t, c)
           ELSE FinalEntry(label, acsmTransTable, t, c)
  BY <1>1, DfaFacts DEF DfaPhase
<1> HIDE DEF last
<1>3. i \in Char /\ col \in Char /\ i + 1 \in 0 .. AlphabetSize
  BY <1>1, <1>2, <1>b DEF Char
<1>4. label' = label
  BY <1>1 DEF trieVars
<1>5. TrieEntry(label, acsmTransTable, r, i)
  <2>1. i >= i
    BY <1>2
  <2>2. WaitsInDfa(r, i)
    BY <1>1, <2>1, WaitsInRow
  <2>3. QED BY <1>2, <1>3, <2>2
<1>6. \/ /\ s \in 0 .. last /\ s # 0 /\ s # FAIL /\ Child(label, r, i, s)
         /\ i \in DOMAIN acsmTransTable[r]
      \/ /\ s = FAIL
         /\ \A t \in 0 .. last : ~ Child(label, r, i, t)
         /\ i \notin DOMAIN acsmTransTable[r]
  BY <1>2, <1>3, <1>5, <1>c, TrieNext
<1>7. /\ Ordered(label, queue') /\ After(label, queue', r)
      /\ queue' \in Seq(1 .. acsmMaxStates - 1)
      /\ \A x \in TrieStates : InQueue(queue', x) <=> InQueue(queue, x) \/ Child(label, r, i, x)
  <2>1. CASE s # FAIL
    <3> DEFINE S == 1 .. acsmMaxStates - 1
    <3>1. /\ s \in 0 .. last /\ s # 0 /\ Child(label, r, i, s)
          /\ queue' = queue_add(queue, s)
      BY <1>1, <1>6, <2>1
    <3>2. s \in S /\ queue \in Seq(S)
      <4>1. s \in 0 .. acsmMaxStates - 1
        BY <1>2, <3>1
      <4>2. QED BY <1>2, <3>1, <4>1
    <3>3. r \in 0 .. last /\ Labels(label, last) /\ Ordered(label, queue) /\ After(label, queue, r)
      BY <1>2
    <3> HIDE DEF S
    <3>4. /\ Ordered(label, queue_add(queue, s)) /\ After(label, queue_add(queue, s), r)
          /\ queue_add(queue, s) \in Seq(S)
          /\ \A x : InQueue(queue_add(queue, s), x) <=> InQueue(queue, x) \/ x = s
      BY <1>3, <3>1, <3>2, <3>3, EnqueueOrdered
    <3>5. \A x \in TrieStates : Child(label, r, i, x) <=> x = s
      <4>1. \A x \in 0 .. last : Child(label, r, i, x) => x = s
        BY <1>3, <3>1, <3>3, ChildUnique
      <4>2. QED BY <1>2, <3>1, <4>1
    <3>6. QED BY <3>1, <3>4, <3>5 DEF S
  <2>2. CASE s = FAIL
    BY <1>1, <1>2, <1>6, <2>2
  <2>3. QED BY <2>1, <2>2
<1>8. /\ WaitsInDfa(row, col) /\ ~ WaitsInDfa(row, col)'
      /\ \A t \in TrieStates, c \in Char :
           t # row \/ c # col => (WaitsInDfa(t, c)' <=> WaitsInDfa(t, c))
  BY <1>1, <1>4, <1>7, <1>a, <1>b, RowAdvances
<1>9. /\ DOMAIN acsmTransTable' = Slots
      /\ \A t \in Slots : DOMAIN acsmTransTable'[t] \subseteq Char
      /\ \A t \in TrieStates, c \in Char : t # row \/ c # col =>
            /\ c \in DOMAIN acsmTransTable'[t] <=> c \in DOMAIN acsmTransTable[t]
            /\ c \in DOMAIN acsmTransTable[t] => acsmTransTable'[t][c] = acsmTransTable[t][c]
      /\ FinalEntry(label, acsmTransTable', row, col)
  <2>1. CASE s # FAIL
    <3>1. acsmTransTable' = acsmTransTable
      BY <1>1, <1>6, <2>1
    <3>2. s \in 0 .. last /\ s # 0 /\ Child(label, r, i, s) /\ i \in DOMAIN acsmTransTable[r]
      BY <1>6, <2>1
    <3>3. acsmTransTable[r][i] = s
      BY <1>c, <3>2 DEF List_GetNextState
    <3>4. IsLongestSuffix(label, s, Append(label[r], i))
      BY <1>2, <1>3, <3>2, ChildEntry
    <3>5. FinalEntry(label, acsmTransTable, r, i)
      BY <1>2, <3>2, <3>3, <3>4 DEF FinalEntry
    <3>6. QED BY <1>2, <1>a, <1>b, <3>1, <3>5
  <2>2. CASE s = FAIL
    <3>1. (\A t \in TrieStates : ~ Child(label, r, i, t)) /\ i \notin DOMAIN acsmTransTable[r]
      BY <1>2, <1>6, <2>2
    <3>2. PICK h : h = IF g = FAIL THEN 0 ELSE g
      OBVIOUS
    <3>3. h \in TrieStates /\ IsLongestSuffix(label, h, Append(label[r], i))
      BY <1>1, <1>d, <3>1, <3>2, FailureRow
    <3>4. CASE g \in {FAIL, 0}
      <4>1. acsmTransTable' = acsmTransTable /\ h = 0
        BY <1>1, <3>2, <3>4
      <4>2. FinalEntry(label, acsmTransTable, r, i)
        BY <3>1, <3>3, <4>1 DEF FinalEntry
      <4>3. QED BY <1>2, <1>a, <1>b, <4>1, <4>2
    <3>5. CASE g \notin {FAIL, 0}
      <4>1. acsmTransTable' = List_PutNextState(acsmTransTable, row, col, g) /\ h = g
        BY <1>1, <2>2, <3>2, <3>5
      <4>2. row \in Slots
        BY <1>2, <1>a
      <4>3. /\ DOMAIN acsmTransTable' = Slots
            /\ DOMAIN acsmTransTable'[row] = DOMAIN acsmTransTable[row] \cup {col}
            /\ acsmTransTable'[row][col] = g
            /\ \A d \in DOMAIN acsmTransTable[row] :
                 d # col => acsmTransTable'[row][d] = acsmTransTable[row][d]
            /\ \A t \in Slots : t # row => acsmTransTable'[t] = acsmTransTable[t]
        <5>1. DOMAIN acsmTransTable = Slots
          BY <1>2
        <5> DEFINE new == List_PutNextState(acsmTransTable, row, col, g)
        <5>2. /\ DOMAIN new = Slots
              /\ DOMAIN new[row] = DOMAIN acsmTransTable[row] \cup {col}
              /\ new[row][col] = g
              /\ \A d \in DOMAIN acsmTransTable[row] : d # col => new[row][d] = acsmTransTable[row][d]
              /\ \A t \in Slots : t # row => new[t] = acsmTransTable[t]
          BY <4>2, <5>1, PutFacts
        <5>3. acsmTransTable' = new
          BY <4>1
        <5> HIDE DEF new
        <5>4. QED BY <5>2, <5>3
      <4>4. \A t \in Slots : DOMAIN acsmTransTable'[t] \subseteq Char
        BY <1>2, <1>3, <4>2, <4>3
      <4>5. ASSUME NEW t \in TrieStates, NEW c \in Char, t # row \/ c # col
            PROVE  /\ c \in DOMAIN acsmTransTable'[t] <=> c \in DOMAIN acsmTransTable[t]
                   /\ c \in DOMAIN acsmTransTable[t] => acsmTransTable'[t][c] = acsmTransTable[t][c]
        BY <1>2, <4>3, <4>5
      <4>6. FinalEntry(label, acsmTransTable', row, col)
        <5>1. col \in DOMAIN acsmTransTable'[row] /\ g # 0 /\ g \in DOMAIN label
          BY <1>2, <3>3, <3>5, <4>1, <4>3
        <5>2. IsLongestSuffix(label, g, Append(label[row], col))
          BY <1>a, <1>b, <3>3, <4>1
        <5>3. QED BY <4>3, <5>1, <5>2 DEF FinalEntry
      <4>7. QED BY <4>3, <4>4, <4>5, <4>6
    <3>6. QED BY <3>4, <3>5
  <2>3. QED BY <2>1, <2>2
<1>10. ASSUME NEW t \in TrieStates, NEW c \in Char
       PROVE  IF WaitsInDfa(t, c)' THEN TrieEntry(label, acsmTransTable', t, c)
              ELSE FinalEntry(label, acsmTransTable', t, c)
  <2>1. CASE t = row /\ c = col
    BY <1>8, <1>9, <2>1
  <2>2. CASE t # row \/ c # col
    <3>1. WaitsInDfa(t, c)' <=> WaitsInDfa(t, c)
      BY <1>8, <2>2
    <3>2. /\ c \in DOMAIN acsmTransTable'[t] <=> c \in DOMAIN acsmTransTable[t]
          /\ c \in DOMAIN acsmTransTable[t] => acsmTransTable'[t][c] = acsmTransTable[t][c]
      BY <1>9, <2>2
    <3>3. /\ TrieEntry(label, acsmTransTable', t, c) <=> TrieEntry(label, acsmTransTable, t, c)
          /\ FinalEntry(label, acsmTransTable', t, c) <=> FinalEntry(label, acsmTransTable, t, c)
      BY <3>2, SameEntry
    <3>4. QED BY <1>2, <3>1, <3>3
  <2>3. QED BY <2>1, <2>2
<1>11. /\ pc' \in DfaPhase /\ r' \in Slots /\ fs' \in Slots /\ i' \in 0 .. AlphabetSize
       /\ After(label, queue', r') /\ r' \in TrieStates /\ r' # 0
  BY <1>1, <1>2, <1>3, <1>7 DEF DfaPhase
<1>12. QED BY <1>1, <1>2, <1>7, <1>9, <1>10, <1>11, DfaStays

LEMMA ConvListToFullInv == IInv /\ ConvListToFull => IInv'
<1> SUFFICES ASSUME IInv, ConvListToFull PROVE IInv'
  OBVIOUS
<1> DEFINE last == acsmNumStates - 1
<1>1. /\ pc = "dfa_queue" /\ pc' = "ready" /\ queue = << >>
      /\ acsmNextState' = [s \in 0 .. last |->
                              [c \in Char |->
                                  IF c \in DOMAIN acsmTransTable[s]
                                  THEN acsmTransTable[s][c] ELSE 0]]
      /\ UNCHANGED <<acMode, input, addVars, trieVars>> /\ UNCHANGED <<queue, r, i, fs>>
      /\ UNCHANGED acsmMatchList
  BY DEF ConvListToFull, graphVars
<1>2. /\ Labels(label, last) /\ DOMAIN label = 0 .. last /\ TrieStates = 0 .. last
      /\ 0 \in 0 .. last /\ TrieStates \subseteq Slots
      /\ queue \in Seq(1 .. acsmMaxStates - 1) /\ r \in Slots /\ fs \in Slots /\ i \in 0 .. AlphabetSize
      /\ pc \in NfaPhase \cup DfaPhase
      /\ \A s \in TrieStates : Settled(s)
      /\ \A s \in TrieStates, c \in Char :
           IF WaitsInDfa(s, c) THEN TrieEntry(label, acsmTransTable, s, c)
           ELSE FinalEntry(label, acsmTransTable, s, c)
  BY <1>1, DfaFacts DEF DfaPhase
<1>3. /\ acsmMatchList \in [Slots -> Seq(DOMAIN acsmPatterns)] /\ Built /\ ListInv /\ TypeOK
  BY <1>2, GraphFacts
<1>4. /\ TypeOK' /\ ListInv' /\ label' = label /\ acsmPatterns' = acsmPatterns
      /\ acsmNumStates' = acsmNumStates
  <2>1. pc' \in PcValues
    BY <1>1 DEF PcValues
  <2>2. /\ acsmMatchList' \in [Slots -> Seq(DOMAIN acsmPatterns)]
        /\ queue' \in Seq(1 .. acsmMaxStates - 1) /\ r' \in Slots /\ fs' \in Slots
        /\ i' \in 0 .. AlphabetSize
    BY <1>1, <1>2, <1>3
  <2>3. QED BY <1>1, <1>2, <2>1, <2>2, GraphStays
<1>5. /\ Len(acsmPatterns) \in Nat /\ DOMAIN acsmPatterns = 1 .. Len(acsmPatterns)
      /\ \A e \in DOMAIN acsmPatterns : acsmPatterns[e].patrn \in Seq(Char)
  BY <1>3, Sizes
<1>6. oneLenTable' = oneLenTable
  BY <1>1 DEF addVars
<1> HIDE DEF last
<1>7. /\ acsmNextState' \in [0 .. last -> [Char -> 0 .. last]]
      /\ \A s \in 0 .. last, c \in Char :
            IsLongestSuffix(label, acsmNextState'[s][c], Append(label[s], c))
  <2>1. ASSUME NEW s \in 0 .. last, NEW c \in Char
        PROVE  /\ acsmNextState'[s][c] \in 0 .. last
               /\ IsLongestSuffix(label, acsmNextState'[s][c], Append(label[s], c))
    <3>1. acsmNextState'[s][c] = IF c \in DOMAIN acsmTransTable[s] THEN acsmTransTable[s][c] ELSE 0
      BY <1>1
    <3>2. ~ WaitsInDfa(s, c)
      BY <1>1, NothingQueued DEF WaitsInDfa
    <3>3. FinalEntry(label, acsmTransTable, s, c)
      BY <1>2, <3>2
    <3>4. QED BY <1>2, <3>1, <3>3 DEF FinalEntry
  <2>2. /\ DOMAIN acsmNextState' = 0 .. last
        /\ acsmNextState' = [s \in 0 .. last |-> acsmNextState'[s]]
        /\ \A s \in 0 .. last : acsmNextState'[s] = [c \in Char |-> acsmNextState'[s][c]]
    BY <1>1
  <2>3. \A s \in 0 .. last : acsmNextState'[s] \in [Char -> 0 .. last]
    BY <2>1, <2>2
  <2>4. QED BY <2>1, <2>2, <2>3
<1> DEFINE a == acsm'
<1>8. /\ a.acsmNumStates = acsmNumStates /\ a.acsmNextState = acsmNextState'
      /\ a.acsmMatchList = [s \in 0 .. last |-> acsmMatchList[s]]
      /\ a.plist = acsmPatterns /\ a.label = label
  BY <1>1, <1>4 DEF acsm, last
<1> HIDE DEF a
<1>9. A!States(a) = 0 .. last /\ acsmNumStates \in Nat \ {0}
  <2>1. last \in Nat /\ acsmNumStates \in Int
    BY <1>2, <1>3 DEF Labels, TypeOK
  <2>2. QED BY <1>8, <2>1 DEF A!States, last
<1>10. A!AutomatonTyped(a)
  <2>1. a.acsmMatchList \in [0 .. last -> Seq(DOMAIN acsmPatterns)]
    BY <1>2, <1>3, <1>8
  <2>2. label \in [0 .. last -> Seq(Char)]
    BY <1>2 DEF Labels
  <2>3. DOMAIN acsmPatterns \subseteq Nat
    BY <1>5
  <2>4. QED BY <1>5, <1>7, <1>8, <1>9, <2>1, <2>2, <2>3 DEF A!AutomatonTyped
<1>11. A!AutomatonCorrect(a)
  <2>1. ASSUME NEW s \in 0 .. last, label[s] # << >>
        PROVE  \E t \in 0 .. last : A!IsFrontOf(label[t], label[s])
    <3>1. s # 0
      BY <1>2, <2>1 DEF Labels
    <3>2. PICK t \in 0 .. last, c \in Char : Child(label, t, c, s)
      BY <1>2, <3>1, HasParent
    <3>3. Len(label[s]) = Len(label[t]) + 1 /\ IsFront(label[t], label[s])
      <4>1. Labels(label, last)
        BY <1>2
      <4>2. QED BY <3>2, <4>1, ChildFacts
    <3>4. Len(label[t]) \in Nat
      BY <1>2, LabelFacts
    <3>5. Len(label[t]) = Len(label[s]) - 1
      BY <3>3, <3>4
    <3>6. QED BY <3>3, <3>5 DEF A!IsFrontOf, IsFront
  <2>2. A!IsTrie(label, acsmPatterns)
    <3>1. \A e \in DOMAIN acsmPatterns : \E s \in 0 .. last : label[s] = acsmPatterns[e].patrn
      BY <1>2, <1>3 DEF Built
    <3>2. label[0] = << >>
      BY <1>2 DEF Labels
    <3>3. QED BY <1>2, <2>1, <3>1, <3>2 DEF A!IsTrie
  <2>3. \A s \in 0 .. last, c \in Char :
           A!IsLongestSuffix(label, acsmNextState'[s][c], Append(label[s], c))
    BY <1>7 DEF A!IsLongestSuffix, IsLongestSuffix, A!EndsWith, EndsWith
  <2>4. \A s \in 0 .. last : A!ListsSuffixes(acsmMatchList[s], acsmPatterns, label[s])
    BY <1>2 DEF Settled
  <2>5. \A s \in 0 .. last : a.acsmMatchList[s] = acsmMatchList[s]
    BY <1>8
  <2>6. QED BY <1>8, <1>9, <2>2, <2>3, <2>4, <2>5 DEF A!AutomatonCorrect
<1>12. ReadyInv'
  BY <1>2, <1>4, <1>10, <1>11 DEF ReadyInv, a, last
<1>13. pc' = "ready"
  BY <1>1
<1>14. QED BY <1>4, <1>12, <1>13 DEF IInv, TriePhase, NfaPhase, DfaPhase

LEMMA Stutters == IInv /\ UNCHANGED vars => IInv'
<1> SUFFICES ASSUME IInv, UNCHANGED vars PROVE IInv'
  OBVIOUS
<1>1. UNCHANGED <<pc, acMode, input, iid, acsmPatterns, oneLenTable, lengthOneTable, lengthTwoTable>>
      /\ UNCHANGED <<plist, n, state, acsmNumStates, label, queue, r, i, fs>>
      /\ UNCHANGED <<acsmTransTable, acsmMatchList, acsmFailState, acsmNextState>>
  BY DEF vars, addVars, smallVars, trieVars, graphVars
<1>2. TypeOK' <=> TypeOK
  BY <1>1 DEF TypeOK, TrieStates, Slots, acsmMaxStates
<1>3. ListInv' <=> ListInv
  BY <1>1 DEF ListInv
<1>4. Cleared' <=> Cleared
  BY <1>1 DEF Cleared
<1>5. /\ TrieStates' = TrieStates /\ Slots' = Slots /\ (TableTyped' <=> TableTyped)
      /\ (Built' <=> Built) /\ patrn' = patrn
      /\ \A s : Depth(s)' = Depth(s)
  BY <1>1 DEF TrieStates, Slots, acsmMaxStates, TableTyped, Built, patrn, Depth
<1>6. \A m, u, s : ListsOwn(label, m, u, s)' <=> ListsOwn(label, m, u, s)
  BY <1>1 DEF ListsOwn
<1>7. \A s : Settled(s)' <=> Settled(s)
  BY <1>1, <1>5 DEF Settled, FailsToLongestSuffix, Depth
<1>8. \A s, c : /\ WaitsInNfa(s)' <=> WaitsInNfa(s)
                /\ WaitsInDfa(s, c)' <=> WaitsInDfa(s, c)
  BY <1>1, <1>5 DEF WaitsInNfa, WaitsInDfa, Depth
<1>9. TrieInv' <=> TrieInv
  BY <1>1, <1>5 DEF TrieInv, ListsOwn
<1>10. NfaInv' <=> NfaInv
  BY <1>1, <1>5, <1>7, <1>8 DEF NfaInv, SearchesFailure, Depth, ListsOwn
<1>11. DfaInv' <=> DfaInv
  BY <1>1, <1>5, <1>7, <1>8 DEF DfaInv
<1>12. ReadyInv' <=> ReadyInv
  BY <1>1 DEF ReadyInv, acsm
<1>13. QED BY <1>1, <1>2, <1>3, <1>4, <1>9, <1>10, <1>11, <1>12 DEF IInv

-----------------------------------------------------------------------------
(* The theorems.                                                           *)

LEMMA Inductive == IInv /\ [Next]_vars => IInv'
<1> SUFFICES ASSUME IInv, [Next]_vars PROVE IInv'
  OBVIOUS
<1>1. CASE AddPattern
  BY <1>1, AddPatternInv
<1>2. CASE BeginCompile
  BY <1>2, BeginCompileInv
<1>3. CASE AddPatternStates
  BY <1>3, FollowStateInv, AddStateInv, AddMatchListEntryInv DEF AddPatternStates
<1>4. CASE Build_NFA
  BY <1>4, BeginNfaInv, NfaDequeueInv, NfaChildInv, NfaNoChildInv, FollowFailureInv,
     SetFailureInv, NfaEndOfCharsInv DEF Build_NFA
<1>5. CASE Convert_NFA_To_DFA
  BY <1>5, BeginDfaInv, DfaDequeueInv, DfaCharInv, DfaEndOfCharsInv DEF Convert_NFA_To_DFA
<1>6. CASE ConvListToFull
  BY <1>6, ConvListToFullInv
<1>7. CASE UNCHANGED vars \/ Ready
  BY <1>7, Stutters DEF Ready
<1>8. QED BY <1>1, <1>2, <1>3, <1>4, <1>5, <1>6, <1>7 DEF Next

(* At every moment the tables, lists, links and the queue are those the    *)
(* loop that runs is at: the strengthening all theorems below follow from. *)
THEOREM Invariant == Spec => []IInv
<1>1. Init => IInv
  BY InitInv
<1>2. IInv /\ [Next]_vars => IInv'
  BY Inductive
<1>3. QED BY <1>1, <1>2, PTL DEF Spec

(* The tables and counters stay within their types: no state number beyond *)
(* acsmMaxStates, the size AddPatternStates and the queue are given.       *)
THEOREM TypeCorrect == Spec => []TypeOK
<1>1. IInv => TypeOK
  BY DEF IInv
<1>2. QED BY <1>1, Invariant, PTL

(* Whatever the order of the patterns, no two states of the trie spell the *)
(* same string.                                                            *)
THEOREM StatesDistinct == Spec => []TrieStatesDistinct
<1>1. IInv => TrieStatesDistinct
  <2> SUFFICES ASSUME IInv PROVE TrieStatesDistinct
    OBVIOUS
  <2>1. CASE pc = "add"
    BY <2>1 DEF IInv, Cleared, TrieStatesDistinct, TrieStates
  <2>2. CASE pc # "add"
    <3>1. pc \in PcValues
      BY DEF IInv, TypeOK, PcValues
    <3>2. \E last : Labels(label, last)
      BY <2>2, <3>1 DEF IInv, PcValues, TriePhase, NfaPhase, DfaPhase, TrieInv, NfaInv, DfaInv,
                        ReadyInv, Built
    <3>3. PICK last : Labels(label, last)
      BY <3>2
    <3>4. DOMAIN label = 0 .. last
      BY <3>3 DEF Labels
    <3>5. QED BY <3>3, <3>4 DEF Labels, TrieStatesDistinct, TrieStates
  <2>3. QED BY <2>1, <2>2
<1>2. QED BY <1>1, Invariant, PTL

(* Build_NFA only reads finished failure links, and all are finished when  *)
(* Convert_NFA_To_DFA begins.                                              *)
THEOREM FailureLinks == Spec => []FailureLinksCorrect
<1>1. IInv => FailureLinksCorrect
  <2> SUFFICES ASSUME IInv PROVE FailureLinksCorrect
    OBVIOUS
  <2>1. ASSUME pc \in NfaPhase, NEW s \in TrieStates, 0 < Depth(s), Depth(s) <= Depth(r)
        PROVE  FailsToLongestSuffix(s)
    <3>1. /\ \A t \in TrieStates : Len(label[t]) <= Len(label[r]) => Settled(t)
          /\ Len(label[0]) = 0
      <4>1. Labels(label, acsmNumStates - 1)
        BY <2>1, NfaFacts
      <4>2. Len(label[0]) = 0
        BY <4>1 DEF Labels
      <4>3. QED BY <2>1, <4>2, NfaFacts
    <3>2. Settled(s) /\ s # 0
      BY <2>1, <3>1 DEF Depth
    <3>3. QED BY <3>2 DEF Settled
  <2>2. ASSUME pc \in DfaPhase, NEW s \in TrieStates \ {0}
        PROVE  FailsToLongestSuffix(s)
    BY <2>2, DfaFacts DEF Settled
  <2>3. QED BY <2>1, <2>2 DEF FailureLinksCorrect
<1>2. QED BY <1>1, Invariant, PTL

(* One copy, from the failure state, gives a state every sub pattern that  *)
(* ends there, each once, because the lists are copied breadth first.      *)
THEOREM MatchLists == Spec => []MatchListsCorrect
<1>1. IInv => MatchListsCorrect
  <2> SUFFICES ASSUME IInv PROVE MatchListsCorrect
    OBVIOUS
  <2>1. ASSUME pc \in NfaPhase, NEW s \in TrieStates, Depth(s) <= Depth(r)
        PROVE  A!ListsSuffixes(acsmMatchList[s], acsmPatterns, label[s])
    BY <2>1, NfaFacts DEF Settled, Depth
  <2>2. ASSUME pc \in DfaPhase, NEW s \in TrieStates
        PROVE  A!ListsSuffixes(acsmMatchList[s], acsmPatterns, label[s])
    BY <2>2, DfaFacts DEF Settled
  <2>3. QED BY <2>1, <2>2 DEF MatchListsCorrect
<1>2. QED BY <1>1, Invariant, PTL

(* The rows Convert_NFA_To_DFA has finished are final, though it fills     *)
(* them in the lists that tell it which states are still to come.          *)
THEOREM DfaRows == Spec => []DfaRowsCorrect
<1>1. IInv => DfaRowsCorrect
  <2> SUFFICES ASSUME IInv, pc \in DfaPhase, NEW s \in TrieStates, NEW c \in Char,
                      ~ \E k \in 1 .. Len(queue) : Depth(queue[k]) <= Depth(s),
                      ~(pc = "dfa_char" /\ Depth(r) <= Depth(s))
               PROVE  LET t == List_GetNextState(s, c)
                      IN  IsLongestSuffix(label, IF t = FAIL THEN 0 ELSE t, Append(label[s], c))
    BY DEF DfaRowsCorrect
  <2> DEFINE last == acsmNumStates - 1
  <2>1. /\ Labels(label, last) /\ TrieStates = 0 .. last /\ DOMAIN label = 0 .. last
        /\ pc = "dfa_char" => r \in 0 .. last
        /\ \A u \in TrieStates, d \in Char :
             IF WaitsInDfa(u, d) THEN TrieEntry(label, acsmTransTable, u, d)
             ELSE FinalEntry(label, acsmTransTable, u, d)
    BY DfaFacts
  <2> HIDE DEF last
  <2>2. ~ WaitsInDfa(s, c)
    <3>1. ASSUME NEW x \in TrieStates, InQueue(queue, x), AtOrBelow(label, x, s) PROVE FALSE
      <4>1. Len(label[x]) <= Len(label[s])
        BY <2>1, <3>1, Beneath
      <4>2. QED BY <3>1, <4>1 DEF InQueue, Depth
    <3>2. ASSUME pc = "dfa_char", Below(label, r, s) \/ s = r PROVE FALSE
      <4>1. r \in 0 .. last /\ s \in 0 .. last
        BY <2>1, <3>2
      <4>2. AtOrBelow(label, r, s)
        BY <2>1, <3>2, <4>1, FrontFacts
      <4>3. Len(label[r]) <= Len(label[s])
        BY <2>1, <4>1, <4>2, Beneath
      <4>4. QED BY <3>2, <4>3 DEF Depth
    <3>3. QED BY <3>1, <3>2 DEF WaitsInDfa
  <2>3. FinalEntry(label, acsmTransTable, s, c)
    BY <2>1, <2>2
  <2>4. CASE c \in DOMAIN acsmTransTable[s]
    <3>1. List_GetNextState(s, c) = acsmTransTable[s][c]
      BY <2>4 DEF List_GetNextState
    <3>2. acsmTransTable[s][c] \in 0 .. last
          /\ IsLongestSuffix(label, acsmTransTable[s][c], Append(label[s], c))
      BY <2>1, <2>3, <2>4 DEF FinalEntry
    <3>3. acsmTransTable[s][c] # FAIL
      BY <3>2 DEF FAIL
    <3>4. QED BY <3>1, <3>2, <3>3
  <2>5. CASE c \notin DOMAIN acsmTransTable[s]
    <3>1. IsLongestSuffix(label, 0, Append(label[s], c))
      BY <2>3, <2>5 DEF FinalEntry
    <3>2. List_GetNextState(s, c) \in {0, FAIL}
      BY <2>5 DEF List_GetNextState
    <3>3. QED BY <3>1, <3>2
  <2>6. QED BY <2>4, <2>5
<1>2. QED BY <1>1, Invariant, PTL

(* acsmCompile2 delivers, for every alphabet and pattern file, the         *)
(* automaton the searches assume.                                          *)
THEOREM CompiledAutomaton == Spec => []CompiledAutomatonCorrect
<1>1. IInv => CompiledAutomatonCorrect
  BY DEF IInv, ReadyInv, CompiledAutomatonCorrect
<1>2. QED BY <1>1, Invariant, PTL

(* The while loop of Build_NFA takes a shorter suffix with every link.     *)
THEOREM FailureChain == Spec => FailureChainDescends
<1>1. IInv /\ [Next]_vars => [pc = "nfa_fail" /\ pc' = "nfa_fail" => Depth(fs') < Depth(fs)]_vars
  <2> SUFFICES ASSUME IInv, Next, pc = "nfa_fail", pc' = "nfa_fail"
               PROVE  Depth(fs') < Depth(fs)
    BY DEF vars
  <2>1. FollowFailure
    BY DEF Next, AddPattern, BeginCompile, AddPatternStates, FollowState, AddState,
           AddMatchListEntry, Build_NFA, BeginNfa, NfaDequeue, Dequeue, NfaChild, NfaNoChild,
           SetFailure, NfaEndOfChars, EndOfChars, Convert_NFA_To_DFA, BeginDfa, DfaDequeue,
           DfaChar, DfaEndOfChars, ConvListToFull, Ready
  <2>2. QED BY <2>1, ChainDescends
<1>2. QED BY <1>1, Invariant, PTL DEF Spec, FailureChainDescends

(* The whole file, as the part of it that has been added.                  *)
LEMMA WholeFile ==
    ASSUME input \in Inputs
    PROVE  LET size == Len(input) IN
           /\ Added(input, size, 1) = input
           /\ Added(input, size, 3) = [id \in {p \in DOMAIN input : Len(input[p]) > 2} |-> input[id]]
           /\ \A list : WholesOf(list, Added(input, size, 2), 2) => WholesOf(list, input, 2)
           /\ \A list : HalvesOf(list, Added(input, size, 2)) => HalvesOf(list, input)
           /\ \A p : CopiesUpTo(input, size, p) = Copies(p)
<1> DEFINE size == Len(input)
           two == Added(input, size, 2)
<1>1. input \in Seq(Seq(Char) \ {<< >>})
  BY InputAssumption
<1>2. /\ DOMAIN input = 1 .. size
      /\ input = [id \in 1 .. size |-> input[id]]
      /\ \A id \in 1 .. size : Len(input[id]) \in Nat \ {0}
  <2>1. DOMAIN input = 1 .. size /\ input = [id \in 1 .. size |-> input[id]]
    BY <1>1
  <2>2. \A id \in 1 .. size : input[id] \in Seq(Char) \ {<< >>}
    BY <1>1
  <2>3. \A p \in Seq(Char) \ {<< >>} : Len(p) \in Nat \ {0}
    OBVIOUS
  <2>4. QED BY <2>1, <2>2, <2>3
<1> HIDE DEF size
<1>3. Added(input, size, 1) = input
  <2>1. {p \in 1 .. size : Len(input[p]) >= 1} = 1 .. size
    BY <1>2
  <2>2. QED BY <1>2, <2>1 DEF Added
<1>4. Added(input, size, 3) = [id \in {p \in DOMAIN input : Len(input[p]) > 2} |-> input[id]]
  <2>1. {p \in 1 .. size : Len(input[p]) >= 3} = {p \in DOMAIN input : Len(input[p]) > 2}
    BY <1>2
  <2>2. QED BY <2>1 DEF Added
<1>5. /\ \A id : id \in DOMAIN two <=> id \in DOMAIN input /\ Len(input[id]) >= 2
      /\ \A id \in DOMAIN two : two[id] = input[id]
  BY <1>2 DEF Added
<1> HIDE DEF two
<1>6. ASSUME NEW list, WholesOf(list, two, 2) PROVE WholesOf(list, input, 2)
  BY <1>5, <1>6 DEF WholesOf
<1>7. ASSUME NEW list, HalvesOf(list, two) PROVE HalvesOf(list, input)
  <2>1. ASSUME NEW e \in DOMAIN list
        PROVE  /\ list[e].iid \in DOMAIN input
               /\ Len(input[list[e].iid]) >= 2
               /\ list[e].flag \in {0, 1}
               /\ list[e] = SubPatternOf(input[list[e].iid], list[e].iid, list[e].flag)
    <3>1. /\ list[e].iid \in DOMAIN two
          /\ list[e].flag \in {0, 1}
          /\ list[e] = SubPatternOf(two[list[e].iid], list[e].iid, list[e].flag)
      BY <1>7 DEF HalvesOf
    <3>2. two[list[e].iid] = input[list[e].iid]
      BY <1>5, <3>1
    <3>3. list[e].iid \in DOMAIN input /\ Len(input[list[e].iid]) >= 2
      BY <1>5, <3>1
    <3>4. SubPatternOf(two[list[e].iid], list[e].iid, list[e].flag) =
          SubPatternOf(input[list[e].iid], list[e].iid, list[e].flag)
      BY <3>2, Zenon
    <3>5. QED BY <3>1, <3>3, <3>4, Zenon
  <2>2. ASSUME NEW id \in DOMAIN input, NEW flag \in {0, 1}, Len(input[id]) >= 2
        PROVE  \E e \in DOMAIN list : list[e].iid = id /\ list[e].flag = flag
    <3>1. id \in DOMAIN two /\ two[id] = input[id]
      BY <1>5, <2>2
    <3>2. Len(two[id]) >= 2
      BY <2>2, <3>1
    <3>3. \A x \in DOMAIN two, f \in {0, 1} :
             Len(two[x]) >= 2 => \E e \in DOMAIN list : list[e].iid = x /\ list[e].flag = f
      BY <1>7, Zenon DEF HalvesOf
    <3>4. QED BY <3>1, <3>2, <3>3, Zenon
  <2>3. \A e1, e2 \in DOMAIN list :
          list[e1].iid = list[e2].iid /\ list[e1].flag = list[e2].flag => e1 = e2
    BY <1>7 DEF HalvesOf
  <2>4. QED BY <2>1, <2>2, <2>3 DEF HalvesOf
<1>8. \A p : CopiesUpTo(input, size, p) = Copies(p)
  BY <1>2 DEF CopiesUpTo, Copies
<1>9. QED BY <1>3, <1>4, <1>6, <1>7, <1>8 DEF two, size

(* Every pattern of the file ends up, once, where its mode puts it.        *)
THEOREM PatternsAccounted == Spec => []PatternsAccountedFor
<1>1. IInv => PatternsAccountedFor
  <2> SUFFICES ASSUME IInv, pc = "ready" PROVE PatternsAccountedFor
    BY DEF PatternsAccountedFor
  <2>1. input \in Inputs /\ iid = Len(input) /\ ListInv
    BY DEF IInv, TypeOK, ListInv
  <2>2. /\ Added(input, iid, 1) = input
        /\ Added(input, iid, 3) = [id \in {p \in DOMAIN input : Len(input[p]) > 2} |-> input[id]]
        /\ \A list : WholesOf(list, Added(input, iid, 2), 2) => WholesOf(list, input, 2)
        /\ \A list : HalvesOf(list, Added(input, iid, 2)) => HalvesOf(list, input)
        /\ \A p : CopiesUpTo(input, iid, p) = Copies(p)
    BY <2>1, WholeFile
  <2>3. acMode \in OriginModes => WholesOf(acsmPatterns, input, 1)
    BY <2>1, <2>2 DEF ListInv
  <2>4. acMode \in NoOneModes => WholesOf(acsmPatterns, input, 2)
    BY <2>1, <2>2 DEF ListInv
  <2>5. acMode \in OddEvenModes \cup OneLenModes => HalvesOf(acsmPatterns, input)
    BY <2>1, <2>2 DEF ListInv
  <2>6. acMode \in HashModes =>
           HalvesOf(acsmPatterns, [id \in {p \in DOMAIN input : Len(input[p]) > 2} |-> input[id]])
    BY <2>1, <2>2, Zenon DEF ListInv
  <2>7. acMode \in HashModes =>
           \A c, d \in Char :
               /\ lengthOneTable[c] = Copies(<<c>>)
               /\ lengthTwoTable[AlphabetSize * c + d] = Copies(<<c, d>>)
    BY <2>1, <2>2, Zenon DEF ListInv
  <2>8. \A c \in Char : oneLenTable[c] = IF acMode \in OneLenModes THEN Copies(<<c>>) ELSE 0
    BY <2>1, <2>2 DEF ListInv
  <2>9. QED BY <2>3, <2>4, <2>5, <2>6, <2>7, <2>8, Zenon DEF PatternsAccountedFor
<1>2. QED BY <1>1, Invariant, PTL

=============================================================================

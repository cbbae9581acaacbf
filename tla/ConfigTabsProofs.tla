-------------------------- MODULE ConfigTabsProofs --------------------------
(***************************************************************************)
(* Proofs about ConfigTabs, for any configuration that the server may      *)
(* hold, any words, paths and names, and any number of edits.              *)
(*                                                                         *)
(* The algorithms of the tabs are recursive functions and lists made of    *)
(* parts of lists, so most of what follows is about those:                 *)
(*  - a recursive function exists (Recursion), by induction over a set of  *)
(*    numbers (NatInduct), and a part of a list is the list at some places *)
(*    counted in order (Enumerates, At);                                   *)
(*  - a list of lists made one list has offsets (Offsets, Flattened), and  *)
(*    lists of blocks have the same first hits as the blocks (Blocks,      *)
(*    FirstHitsOfPart);                                                    *)
(*  - commitToConfig writes what is shown (CommitRoutes), and fromBackend  *)
(*    shows what is written (MountRoutes, CommitRemounts).                 *)
(* Three invariants carry the theorems.                                    *)
(*  - TypeInv: catalog and rules have their form, names have entries, and  *)
(*    an object has every key once.                                        *)
(*  - SnakeInv: the default group keeps what the server has read.          *)
(*  - MadeInv: the draft's names are an object, with the keys that are     *)
(*    whole numbers first, in ascending order.                             *)
(***************************************************************************)
EXTENDS ConfigTabs, FunctionTheorems, SequenceTheorems, FiniteSetTheorems,
        WellFoundedInduction, TLAPS

---------------------------------------------------------------------------
(* Numbers and recursion *)

\* Induction over the natural numbers, for a set.
LEMMA NatInduct ==
    ASSUME NEW S, 0 \in S, \A n \in Nat : n \in S => n + 1 \in S
    PROVE  Nat \subseteq S
<1> SUFFICES ASSUME Nat \ S # {} PROVE FALSE
  OBVIOUS
<1>1. PICK x \in Nat \ S : \A y \in Nat \ S : ~(<<y, x>> \in OpToRel(<, Nat))
  BY NatLessThanWellFounded, WFMin
<1>2. \A y \in Nat \ S : ~(y < x)
  BY <1>1, Zenon DEF OpToRel
<1>3. x \in Nat /\ x # 0
  BY <1>1
<1>4. x - 1 \in Nat /\ x - 1 < x /\ (x - 1) + 1 = x
  BY <1>3
<1>5. x - 1 \in S
  BY <1>2, <1>4
<1>6. QED
  BY <1>1, <1>4, <1>5

\* A set of numbers has a least one, and a bounded one a greatest.
LEMMA LeastOf ==
    ASSUME NEW S \in SUBSET Nat, S # {}
    PROVE  MinOf(S) \in S /\ \A y \in S : MinOf(S) <= y
<1>1. PICK x \in S : \A y \in S : ~(<<y, x>> \in OpToRel(<, Nat))
  BY NatLessThanWellFounded, WFMin
<1>2. \A y \in S : ~(y < x)
  BY <1>1, Zenon DEF OpToRel
<1>3. \A y \in S : x <= y
  BY <1>2
<1>4. QED
  BY <1>3 DEF MinOf

\* A set of numbers up to a bound has a greatest one.
LEMMA GreatestOf ==
    ASSUME NEW n \in Nat, NEW S \in SUBSET (1..n), S # {}
    PROVE  MaxOf(S) \in S /\ \A y \in S : y <= MaxOf(S)
<1> DEFINE Up == {n - x : x \in S}
<1>1. Up \in SUBSET Nat /\ Up # {}
  <2>1. \A x \in S : n - x \in Nat
    OBVIOUS
  <2>2. QED
    BY <2>1
<1>2. MinOf(Up) \in Up /\ \A y \in Up : MinOf(Up) <= y
  BY <1>1, LeastOf
<1>3. PICK x \in S : n - x = MinOf(Up)
  BY <1>2
<1>4. \A y \in S : y <= x
  <2> SUFFICES ASSUME NEW y \in S PROVE y <= x
    OBVIOUS
  <2>1. n - y \in Up
    OBVIOUS
  <2>2. n - x <= n - y
    BY <1>2, <1>3, <2>1
  <2>3. QED
    BY <2>2
<1>5. QED
  BY <1>4 DEF MaxOf

\* g[i] is what the first i steps make of a value.
Iterates(g, n, V, base, step) ==
    g \in [0..n -> V] /\ g[0] = base /\ \A i \in 1..n : g[i] = step[i][g[i - 1]]

\* What a step makes of a value, again and again, is a function.
LEMMA Recursion ==
    ASSUME NEW n \in Nat, NEW V, NEW base \in V, NEW step \in [1..n -> [V -> V]]
    PROVE  \E g : Iterates(g, n, V, base, step)
<1> DEFINE Made(m, g) == g[0] = base /\ \A i \in 1..m : g[i] = step[i][g[i - 1]]
           S == {m \in Nat : m <= n => \E g \in [0..m -> V] : Made(m, g)}
<1>1. 0 \in S
  <2>1. [i \in 0..0 |-> base] \in [0..0 -> V] /\ Made(0, [i \in 0..0 |-> base])
    OBVIOUS
  <2>2. QED
    BY <2>1
<1>2. ASSUME NEW m \in Nat, m \in S PROVE m + 1 \in S
  <2> SUFFICES ASSUME m + 1 <= n PROVE \E g \in [0..m + 1 -> V] : Made(m + 1, g)
    OBVIOUS
  <2>1. PICK g \in [0..m -> V] : Made(m, g)
    BY <1>2
  <2>2. PICK v \in V : v = step[m + 1][g[m]]
    OBVIOUS
  <2>3. PICK h : h = [i \in 0..m + 1 |-> IF i = m + 1 THEN v ELSE g[i]]
    OBVIOUS
  <2>4. h \in [0..m + 1 -> V]
    BY <2>3
  <2>5. h[0] = base /\ h[m + 1] = step[m + 1][h[m]]
    BY <2>1, <2>2, <2>3
  <2>6. \A i \in 1..m : h[i] = step[i][h[i - 1]]
    BY <2>1, <2>3
  <2>7. \A i \in 1..m + 1 : h[i] = step[i][h[i - 1]]
    <3>1. \A i \in 1..m + 1 : i \in 1..m \/ i = m + 1
      OBVIOUS
    <3>2. (m + 1) - 1 = m
      OBVIOUS
    <3>3. QED
      BY <2>5, <2>6, <3>1, <3>2
  <2>8. QED
    BY <2>4, <2>5, <2>7
<1> HIDE DEF S
<1>3. n \in S
  BY <1>1, <1>2, NatInduct
<1>4. PICK g \in [0..n -> V] : Made(n, g)
  BY <1>3 DEF S
<1>5. QED
  BY <1>4 DEF Iterates

\* A function on the first numbers is a list.
LEMMA IsList ==
    ASSUME NEW V, NEW n \in Nat, NEW f \in [1..n -> V]
    PROVE  f \in Seq(V) /\ Len(f) = n
<1>1. f \in Seq(V)
  BY SeqDef
<1>2. DOMAIN f = 1..n
  OBVIOUS
<1>3. QED
  BY <1>1, <1>2, LenProperties

---------------------------------------------------------------------------
(* Parts of lists *)

\* p goes through the c places of I in order.
Enumerates(p, c, I) ==
    /\ I \subseteq Nat /\ c \in Nat /\ p \in [1..c -> I]
    /\ \A k, l \in 1..c : k < l => p[k] < p[l]
    /\ \A i \in I : \E k \in 1..c : p[k] = i

\* Any places in a list can be gone through in order.
LEMMA Enumerated ==
    ASSUME NEW n \in Nat, NEW I \in SUBSET (1..n)
    PROVE  \E c, p : Enumerates(p, c, I) /\ c <= n
<1> DEFINE S == {m \in Nat : \A J \in SUBSET (1..m) : \E c, p : Enumerates(p, c, J) /\ c <= m}
<1>1. 0 \in S
  <2> SUFFICES ASSUME NEW J \in SUBSET (1..0) PROVE \E c, p : Enumerates(p, c, J) /\ c <= 0
    OBVIOUS
  <2>1. J = {}
    OBVIOUS
  <2>2. Enumerates([k \in 1..0 |-> 0], 0, J)
    BY <2>1 DEF Enumerates
  <2>3. QED
    BY <2>2
<1>2. ASSUME NEW m \in Nat, m \in S PROVE m + 1 \in S
  <2> SUFFICES ASSUME NEW J \in SUBSET (1..m + 1)
               PROVE  \E c, p : Enumerates(p, c, J) /\ c <= m + 1
    OBVIOUS
  <2>1. J \ {m + 1} \in SUBSET (1..m)
    OBVIOUS
  <2>2. PICK c, p : Enumerates(p, c, J \ {m + 1}) /\ c <= m
    BY <1>2, <2>1
  <2>3. CASE m + 1 \notin J
    <3>1. J \ {m + 1} = J
      BY <2>3
    <3>2. Enumerates(p, c, J)
      BY <2>2, <3>1
    <3>3. c <= m + 1
      BY <2>2 DEF Enumerates
    <3>4. QED
      BY <3>2, <3>3
  <2>4. CASE m + 1 \in J
    <3>1. PICK q : q = [k \in 1..c + 1 |-> IF k = c + 1 THEN m + 1 ELSE p[k]]
      OBVIOUS
    <3>2. c \in Nat /\ \A k \in 1..c : p[k] \in J /\ p[k] < m + 1
      <4>1. c \in Nat /\ p \in [1..c -> J \ {m + 1}]
        BY <2>2 DEF Enumerates
      <4>2. \A j \in J \ {m + 1} : j \in J /\ j < m + 1
        OBVIOUS
      <4>3. QED
        BY <4>1, <4>2
    <3>3. \A k \in 1..c + 1 : k \in 1..c \/ k = c + 1
      BY <3>2
    <3>4. q \in [1..c + 1 -> J]
      BY <2>4, <3>1, <3>2, <3>3
    <3>5. q[c + 1] = m + 1 /\ \A k \in 1..c : q[k] = p[k]
      BY <3>1, <3>2
    <3>6. \A k, l \in 1..c + 1 : k < l => q[k] < q[l]
      BY <2>2, <3>2, <3>3, <3>5 DEF Enumerates
    <3>7. \A i \in J : \E k \in 1..c + 1 : q[k] = i
      BY <2>2, <3>2, <3>5 DEF Enumerates
    <3>8. Enumerates(q, c + 1, J) /\ c + 1 <= m + 1
      BY <2>2, <3>2, <3>4, <3>6, <3>7 DEF Enumerates
    <3>9. QED
      BY <3>8
  <2>5. QED
    BY <2>3, <2>4
<1> HIDE DEF S
<1>3. n \in S
  BY <1>1, <1>2, NatInduct
<1>4. QED
  BY <1>3 DEF S

\* To go through some places in order is to count them.
LEMMA EnumerationCounts ==
    ASSUME NEW I, NEW c, NEW p, Enumerates(p, c, I)
    PROVE  IsFiniteSet(I) /\ Cardinality(I) = c
<1>1. c \in Nat /\ p \in [1..c -> I] /\ IsFiniteSet(1..c) /\ Cardinality(1..c) = c
  BY FS_Interval DEF Enumerates
<1>2. \A k, l \in 1..c : p[k] = p[l] => k = l
  <2> SUFFICES ASSUME NEW k \in 1..c, NEW l \in 1..c, p[k] = p[l], k < l PROVE FALSE
    BY <1>1
  <2>1. p[k] < p[l] /\ p[k] \in Nat
    BY DEF Enumerates
  <2>2. QED
    BY <2>1
<1>3. p \in Bijection(1..c, I)
  <2>1. \A i \in I : \E k \in 1..c : p[k] = i
    BY DEF Enumerates
  <2>2. QED
    BY <1>1, <1>2, <2>1, Fun_IsBij
<1>4. QED
  BY <1>1, <1>3, FS_Bijection DEF ExistsBijection

\* A part of a list, by whatever goes through its places.
LEMMA AtIs ==
    ASSUME NEW I, NEW c, NEW p, Enumerates(p, c, I), NEW s
    PROVE  At(s, I) = [k \in 1..c |-> s[p[k]]]
<1>1. /\ I \subseteq Nat /\ c \in Nat /\ p \in [1..c -> I]
      /\ \A k, l \in 1..c : k < l => p[k] < p[l]
      /\ \A i \in I : \E k \in 1..c : p[k] = i
  BY DEF Enumerates
<1>2. ASSUME NEW k \in 1..c
      PROVE  Cardinality({j \in I : j <= p[k]}) = k
  <2>1. PICK q : q = [l \in 1..k |-> p[l]]
    OBVIOUS
  <2>2. \A l \in 1..k : l \in 1..c /\ q[l] = p[l] /\ p[l] \in Nat /\ p[l] <= p[k]
    <3>1. \A l \in 1..k : l \in 1..c /\ q[l] = p[l] /\ p[l] \in Nat
      <4>1. \A l \in 1..k : l \in 1..c
        BY <1>1
      <4>2. \A l \in 1..c : p[l] \in Nat
        BY <1>1
      <4>3. QED
        BY <2>1, <4>1, <4>2
    <3>2. \A l \in 1..k : l = k \/ l < k
      OBVIOUS
    <3>3. QED
      BY <1>1, <3>1, <3>2
  <2>3. \A l \in 1..c : p[l] <= p[k] => l \in 1..k
    <3> SUFFICES ASSUME NEW l \in 1..c, p[l] <= p[k], k < l PROVE FALSE
      OBVIOUS
    <3>1. p[k] < p[l] /\ p[k] \in Nat /\ p[l] \in Nat
      BY <1>1
    <3>2. QED
      BY <3>1
  <2>4. PICK K : K = {j \in I : j <= p[k]}
    OBVIOUS
  <2>5. q \in [1..k -> K]
    BY <1>1, <2>1, <2>2, <2>4
  <2>6. \A i \in K : \E l \in 1..k : q[l] = i
    <3> SUFFICES ASSUME NEW i \in K PROVE \E l \in 1..k : q[l] = i
      OBVIOUS
    <3>1. PICK l \in 1..c : p[l] = i
      BY <1>1, <2>4
    <3>2. l \in 1..k
      BY <2>3, <2>4, <3>1
    <3>3. QED
      BY <2>2, <3>1, <3>2
  <2>7. \A l, j \in 1..k : l < j => q[l] < q[j]
    BY <1>1, <2>2
  <2>8. K \subseteq Nat /\ k \in Nat
    <3>1. K \subseteq I
      BY <2>4
    <3>2. QED
      BY <1>1, <3>1
  <2>9. Enumerates(q, k, K)
    BY <2>5, <2>6, <2>7, <2>8 DEF Enumerates
  <2>10. QED
    BY <2>4, <2>9, EnumerationCounts
<1>3. ASSUME NEW k \in 1..c PROVE Nth(I, k) = p[k]
  <2>1. p[k] \in I /\ Cardinality({j \in I : j <= p[k]}) = k
    BY <1>1, <1>2
  <2>2. \A i \in I : Cardinality({j \in I : j <= i}) = k => i = p[k]
    BY <1>1, <1>2
  <2>3. QED
    BY <2>1, <2>2 DEF Nth
<1>4. Cardinality(I) = c
  BY EnumerationCounts
<1>5. QED
  BY <1>3, <1>4 DEF At

\* A part of a list is a list of what the list has there.
LEMMA AtIsList ==
    ASSUME NEW n \in Nat, NEW I \in SUBSET (1..n), NEW s, NEW V, \A i \in I : s[i] \in V
    PROVE  /\ At(s, I) \in Seq(V)
           /\ ToSet(At(s, I)) = {s[i] : i \in I}
           /\ Len(At(s, I)) \in 0..n
<1>1. PICK c, p : Enumerates(p, c, I) /\ c <= n
  BY Enumerated
<1>2. /\ c \in Nat /\ p \in [1..c -> I] /\ \A i \in I : \E k \in 1..c : p[k] = i
  BY <1>1 DEF Enumerates
<1>3. At(s, I) = [k \in 1..c |-> s[p[k]]]
  BY <1>1, AtIs
<1>4. At(s, I) \in [1..c -> V]
  BY <1>2, <1>3
<1>5. At(s, I) \in Seq(V) /\ Len(At(s, I)) = c
  BY <1>2, <1>4, SeqDef
<1>6. ToSet(At(s, I)) = {s[i] : i \in I}
  <2>1. ToSet(At(s, I)) = {s[p[k]] : k \in 1..c}
    BY <1>3 DEF ToSet
  <2>2. QED
    BY <1>2, <2>1
<1>7. QED
  BY <1>1, <1>2, <1>5, <1>6

\* Only what the list has at the places counts.
LEMMA AtAgree ==
    ASSUME NEW n \in Nat, NEW I \in SUBSET (1..n), NEW s, NEW t, \A i \in I : s[i] = t[i]
    PROVE  At(s, I) = At(t, I)
<1>1. PICK c, p : Enumerates(p, c, I)
  BY Enumerated
<1>2. p \in [1..c -> I]
  BY <1>1 DEF Enumerates
<1>3. At(s, I) = [k \in 1..c |-> s[p[k]]] /\ At(t, I) = [k \in 1..c |-> t[p[k]]]
  BY <1>1, AtIs
<1>4. QED
  BY <1>2, <1>3

\* All of a list is the list.
LEMMA AtAll ==
    ASSUME NEW V, NEW s \in Seq(V)
    PROVE  At(s, 1..Len(s)) = s
<1>1. Len(s) \in Nat /\ s \in [1..Len(s) -> V]
  OBVIOUS
<1>2. PICK p : p = [k \in 1..Len(s) |-> k]
  OBVIOUS
<1>3. Enumerates(p, Len(s), 1..Len(s))
  BY <1>1, <1>2 DEF Enumerates
<1>4. At(s, 1..Len(s)) = [k \in 1..Len(s) |-> s[p[k]]]
  BY <1>3, AtIs
<1>5. QED
  BY <1>1, <1>2, <1>4

\* A part of a part.
LEMMA AtOfAt ==
    ASSUME NEW I, NEW c, NEW p, Enumerates(p, c, I), NEW J \in SUBSET (1..c), NEW s
    PROVE  At(At(s, I), J) = At(s, {p[j] : j \in J})
<1>1. c \in Nat /\ p \in [1..c -> I] /\ I \subseteq Nat
  BY DEF Enumerates
<1>2. PICK d, q : Enumerates(q, d, J)
  BY <1>1, Enumerated
<1>3. d \in Nat /\ q \in [1..d -> J]
  BY <1>2 DEF Enumerates
<1>4. PICK r : r = [k \in 1..d |-> p[q[k]]]
  OBVIOUS
<1>5. Enumerates(r, d, {p[j] : j \in J})
  <2>1. r \in [1..d -> {p[j] : j \in J}] /\ {p[j] : j \in J} \subseteq Nat
    BY <1>1, <1>3, <1>4
  <2>2. \A k, l \in 1..d : k < l => r[k] < r[l]
    <3> SUFFICES ASSUME NEW k \in 1..d, NEW l \in 1..d, k < l PROVE r[k] < r[l]
      OBVIOUS
    <3>1. q[k] \in 1..c /\ q[l] \in 1..c /\ q[k] < q[l]
      BY <1>2, <1>3 DEF Enumerates
    <3>2. p[q[k]] < p[q[l]]
      BY <3>1 DEF Enumerates
    <3>3. QED
      BY <1>4, <3>2
  <2>3. \A i \in {p[j] : j \in J} : \E k \in 1..d : r[k] = i
    BY <1>2, <1>4 DEF Enumerates
  <2>4. QED
    BY <1>3, <2>1, <2>2, <2>3 DEF Enumerates
<1>6. At(s, I) = [k \in 1..c |-> s[p[k]]]
  BY AtIs
<1>7. At(At(s, I), J) = [k \in 1..d |-> At(s, I)[q[k]]]
  BY <1>2, AtIs
<1>8. At(s, {p[j] : j \in J}) = [k \in 1..d |-> s[r[k]]]
  <2>1. PICK K : K = {p[j] : j \in J}
    OBVIOUS
  <2>2. Enumerates(r, d, K)
    BY <1>5, <2>1
  <2>3. At(s, K) = [k \in 1..d |-> s[r[k]]]
    BY <2>2, AtIs
  <2>4. QED
    BY <2>1, <2>3
<1>9. \A k \in 1..d : At(s, I)[q[k]] = s[r[k]]
  BY <1>3, <1>4, <1>6
<1>10. QED
  BY <1>7, <1>8, <1>9

---------------------------------------------------------------------------
(* Lists put one behind the other *)

\* o[i] is the length of the first i lists together.
Offsets(o, ss) ==
    /\ Len(ss) \in Nat /\ \A i \in 1..Len(ss) : Len(ss[i]) \in Nat
    /\ o \in [0..Len(ss) -> Nat] /\ o[0] = 0
    /\ \A i \in 1..Len(ss) : o[i] = o[i - 1] + Len(ss[i])

\* Every list of lists has its offsets.
LEMMA OffsetsExist ==
    ASSUME NEW V, NEW ss \in Seq(Seq(V))
    PROVE  \E o : Offsets(o, ss)
<1> DEFINE step == [i \in 1..Len(ss) |-> [v \in Nat |-> v + Len(ss[i])]]
<1>1. step \in [1..Len(ss) -> [Nat -> Nat]]
  <2>1. \A i \in 1..Len(ss) : Len(ss[i]) \in Nat
    OBVIOUS
  <2>2. \A i \in 1..Len(ss) : [v \in Nat |-> v + Len(ss[i])] \in [Nat -> Nat]
    BY <2>1
  <2>3. QED
    BY <2>2
<1>2. \A i \in 1..Len(ss), v \in Nat : step[i][v] = v + Len(ss[i])
  OBVIOUS
<1>3. Len(ss) \in Nat /\ 0 \in Nat
  OBVIOUS
<1> HIDE DEF step
<1>4. PICK g \in [0..Len(ss) -> Nat] :
          g[0] = 0 /\ \A i \in 1..Len(ss) : g[i] = step[i][g[i - 1]]
  <2>1. \E g : Iterates(g, Len(ss), Nat, 0, step)
    BY <1>1, <1>3, Recursion
  <2>2. QED
    BY <2>1 DEF Iterates
<1>5. \A i \in 1..Len(ss) : g[i] = g[i - 1] + Len(ss[i])
  <2> SUFFICES ASSUME NEW i \in 1..Len(ss) PROVE g[i] = g[i - 1] + Len(ss[i])
    OBVIOUS
  <2>1. i - 1 \in 0..Len(ss)
    BY <1>3
  <2>2. g[i - 1] \in Nat
    BY <2>1
  <2>3. QED
    BY <1>2, <1>4, <2>2
<1>6. \A i \in 1..Len(ss) : Len(ss[i]) \in Nat
  OBVIOUS
<1>7. QED
  BY <1>3, <1>4, <1>5, <1>6 DEF Offsets

\* Offsets never go down.
LEMMA OffsetsGrow ==
    ASSUME NEW ss, NEW o, Offsets(o, ss)
    PROVE  \A j \in 0..Len(ss), i \in 0..Len(ss) : i <= j => o[i] <= o[j]
<1> DEFINE S == {j \in Nat : j <= Len(ss) => \A i \in 0..j : o[i] <= o[j]}
<1>1. Len(ss) \in Nat /\ \A i \in 0..Len(ss) : o[i] \in Nat
  BY DEF Offsets
<1>2. 0 \in S
  BY <1>1
<1>3. ASSUME NEW j \in Nat, j \in S PROVE j + 1 \in S
  <2> SUFFICES ASSUME j + 1 <= Len(ss), NEW i \in 0..j + 1 PROVE o[i] <= o[j + 1]
    OBVIOUS
  <2>1. j + 1 \in 1..Len(ss) /\ (j + 1) - 1 = j
    BY <1>1
  <2>2. o[j + 1] = o[j] + Len(ss[j + 1]) /\ Len(ss[j + 1]) \in Nat
    BY <2>1 DEF Offsets
  <2>3. o[j] <= o[j + 1]
    BY <1>1, <2>1, <2>2
  <2>4. CASE i \in 0..j
    <3>1. o[i] <= o[j]
      BY <1>3, <2>4
    <3>2. QED
      BY <1>1, <2>1, <2>3, <3>1
  <2>5. CASE i = j + 1
    BY <1>1, <2>5
  <2>6. QED
    BY <2>4, <2>5
<1> HIDE DEF S
<1>4. Nat \subseteq S
  BY <1>2, <1>3, NatInduct
<1>5. QED
  BY <1>1, <1>4 DEF S

\* Every place up to the whole length is in one of the lists.
LEMMA OffsetsCover ==
    ASSUME NEW ss, NEW o, Offsets(o, ss)
    PROVE  \A x \in 1..o[Len(ss)] :
               \E i \in 1..Len(ss) : \E k \in 1..Len(ss[i]) : x = o[i - 1] + k
<1> SUFFICES ASSUME NEW x \in 1..o[Len(ss)]
             PROVE  \E i \in 1..Len(ss) : \E k \in 1..Len(ss[i]) : x = o[i - 1] + k
  OBVIOUS
<1>1. Len(ss) \in Nat /\ \A i \in 0..Len(ss) : o[i] \in Nat
  BY DEF Offsets
<1> DEFINE S == {i \in 0..Len(ss) : x <= o[i]}
<1>2. S \in SUBSET Nat /\ Len(ss) \in S
  BY <1>1
<1>3. PICK i \in S : \A y \in S : i <= y
  BY <1>2, LeastOf
<1>4. i # 0
  BY <1>3 DEF Offsets
<1>5. i \in 1..Len(ss) /\ i - 1 \in 0..Len(ss) /\ ~(i <= i - 1)
  BY <1>1, <1>4
<1>6. ~(x <= o[i - 1])
  BY <1>3, <1>5
<1>7. o[i] = o[i - 1] + Len(ss[i]) /\ Len(ss[i]) \in Nat
  BY <1>5 DEF Offsets
<1>8. PICK k : k = x - o[i - 1]
  OBVIOUS
<1>9. x <= o[i] /\ o[i - 1] \in Nat
  BY <1>1, <1>5
<1>10. k \in 1..Len(ss[i]) /\ x = o[i - 1] + k
  BY <1>6, <1>7, <1>8, <1>9
<1>11. QED
  BY <1>5, <1>10

\* What is where in the flattened list.
LEMMA Flattened ==
    ASSUME NEW V, NEW ss \in Seq(Seq(V)), NEW o, Offsets(o, ss)
    PROVE  /\ FlattenSeq(ss) \in Seq(V)
           /\ Len(FlattenSeq(ss)) = o[Len(ss)]
           /\ \A i \in 1..Len(ss) : \A k \in 1..Len(ss[i]) :
                  FlattenSeq(ss)[o[i - 1] + k] = ss[i][k]
<1>1. Len(ss) \in Nat /\ \A i \in 1..Len(ss) : ss[i] \in Seq(V) /\ Len(ss[i]) \in Nat
  OBVIOUS
<1>2. CASE Len(ss) = 0
  BY <1>2 DEF FlattenSeq, Offsets
<1>3. CASE Len(ss) # 0
  <2> DEFINE n == Len(ss)
             step == [i \in 1..n |-> [v \in Seq(V) |-> v \o ss[i]]]
             Def(f) == [i \in 1..n |-> IF i = 1 THEN ss[i] ELSE f[i - 1] \o ss[i]]
             flatten == CHOOSE f : f = Def(f)
  <2>1. FlattenSeq(ss) = flatten[n]
    BY <1>3 DEF FlattenSeq
  <2>2. step \in [1..n -> [Seq(V) -> Seq(V)]]
    <3>1. \A i \in 1..n : \A v \in Seq(V) : v \o ss[i] \in Seq(V)
      BY <1>1, ConcatProperties
    <3>2. QED
      BY <3>1
  <2>3. \A i \in 1..n, v \in Seq(V) : step[i][v] = v \o ss[i]
    OBVIOUS
  <2>4. n \in Nat /\ <<>> \in Seq(V)
    BY <1>1
  <2> HIDE DEF step
  <2>5. PICK g \in [0..n -> Seq(V)] : g[0] = <<>> /\ \A i \in 1..n : g[i] = step[i][g[i - 1]]
    <3>1. \E g : Iterates(g, n, Seq(V), <<>>, step)
      BY <2>2, <2>4, Recursion
    <3>2. QED
      BY <3>1 DEF Iterates
  <2>6. \A i \in 1..n : g[i] = g[i - 1] \o ss[i]
    <3> SUFFICES ASSUME NEW i \in 1..n PROVE g[i] = g[i - 1] \o ss[i]
      OBVIOUS
    <3>1. i - 1 \in 0..n
      BY <2>4
    <3>2. QED
      BY <2>3, <2>5, <3>1
  <2>7. 1 \in 1..n /\ g[1] = ss[1]
    <3>1. 1 \in 1..n /\ 1 - 1 = 0
      BY <1>3, <2>4
    <3>2. g[1] = <<>> \o ss[1]
      BY <2>5, <2>6, <3>1
    <3>3. ss[1] \in Seq(V)
      BY <1>1, <3>1
    <3>4. QED
      BY <3>1, <3>2, <3>3, ConcatEmptySeq
  <2>8. PICK f : f = [i \in 1..n |-> g[i]]
    OBVIOUS
  <2>9. f = Def(f)
    <3> SUFFICES ASSUME NEW i \in 1..n
                 PROVE  g[i] = IF i = 1 THEN ss[i] ELSE f[i - 1] \o ss[i]
      BY <2>8
    <3>1. CASE i = 1
      BY <2>7, <3>1
    <3>2. CASE i # 1
      <4>1. i - 1 \in 1..n
        BY <2>4, <3>2
      <4>2. QED
        BY <2>6, <2>8, <3>2, <4>1
    <3>3. QED
      BY <3>1, <3>2
  <2>10. flatten = Def(flatten)
    BY <2>9
  <2>11. PICK h : h = flatten
    OBVIOUS
  <2>12. h = [i \in 1..n |-> IF i = 1 THEN ss[i] ELSE h[i - 1] \o ss[i]]
    BY <2>10, <2>11, ZenonT(30)
  <2>13. FlattenSeq(ss) = h[n]
    BY <2>1, <2>11
  <2> HIDE DEF flatten, Def
  <2> DEFINE S == {m \in Nat : m \in 1..n =>
                       /\ h[m] \in Seq(V)
                       /\ Len(h[m]) = o[m]
                       /\ \A i \in 1..m : \A k \in 1..Len(ss[i]) : h[m][o[i - 1] + k] = ss[i][k]}
  <2>14. 0 \in S
    OBVIOUS
  <2>15. ASSUME NEW m \in Nat, m \in S PROVE m + 1 \in S
    <3> SUFFICES ASSUME m + 1 \in 1..n
                 PROVE  /\ h[m + 1] \in Seq(V)
                        /\ Len(h[m + 1]) = o[m + 1]
                        /\ \A i \in 1..m + 1 : \A k \in 1..Len(ss[i]) :
                               h[m + 1][o[i - 1] + k] = ss[i][k]
      OBVIOUS
    <3>1. CASE m = 0
      <4>1. h[1] = ss[1] /\ m + 1 = 1
        BY <2>12, <3>1
      <4>2. o[0] = 0 /\ o[1] = Len(ss[1]) /\ 1 - 1 = 0
        BY <1>1, <3>1 DEF Offsets
      <4>3. \A i \in 1..1 : i = 1
        OBVIOUS
      <4>4. QED
        BY <1>1, <3>1, <4>1, <4>2, <4>3
    <3>2. CASE m # 0
      <4>1. m \in 1..n /\ m + 1 # 1 /\ (m + 1) - 1 = m
        BY <3>2
      <4>2. h[m + 1] = h[m] \o ss[m + 1]
        BY <2>12, <4>1
      <4>3. /\ h[m] \in Seq(V) /\ Len(h[m]) = o[m]
            /\ \A i \in 1..m : \A k \in 1..Len(ss[i]) : h[m][o[i - 1] + k] = ss[i][k]
        BY <2>15, <4>1
      <4>4. /\ h[m + 1] \in Seq(V)
            /\ Len(h[m + 1]) = o[m] + Len(ss[m + 1])
            /\ \A x \in 1..o[m] + Len(ss[m + 1]) :
                   h[m + 1][x] = IF x <= o[m] THEN h[m][x] ELSE ss[m + 1][x - o[m]]
        <5>1. PICK s, t : s = h[m] /\ t = ss[m + 1]
          OBVIOUS
        <5>2. s \in Seq(V) /\ t \in Seq(V) /\ h[m + 1] = s \o t /\ Len(s) = o[m]
          BY <1>1, <4>2, <4>3, <5>1
        <5>3. /\ s \o t \in Seq(V) /\ Len(s \o t) = Len(s) + Len(t)
              /\ \A x \in 1..Len(s) + Len(t) :
                     (s \o t)[x] = IF x <= Len(s) THEN s[x] ELSE t[x - Len(s)]
          BY <5>2, ConcatProperties
        <5>4. QED
          BY <5>1, <5>2, <5>3
      <4>5. o[m + 1] = o[m] + Len(ss[m + 1]) /\ o[m] \in Nat
        <5>1. m + 1 \in 1..Len(ss) /\ m \in 0..Len(ss)
          BY <4>1
        <5>2. \A i \in 1..Len(ss) : o[i] = o[i - 1] + Len(ss[i])
          BY DEF Offsets
        <5>3. o[m] \in Nat
          BY <5>1 DEF Offsets
        <5>4. QED
          BY <4>1, <5>1, <5>2, <5>3
      <4>6. ASSUME NEW i \in 1..m, NEW k \in 1..Len(ss[i])
            PROVE  h[m + 1][o[i - 1] + k] = ss[i][k]
        <5>1. i \in 1..n /\ i - 1 \in 0..n /\ i \in 0..n /\ m \in 0..n
          BY <4>1
        <5>2. o[i] = o[i - 1] + Len(ss[i]) /\ o[i] \in Nat /\ o[i - 1] \in Nat
          BY <5>1 DEF Offsets
        <5>3. o[i] <= o[m]
          BY <5>1, OffsetsGrow
        <5>4. Len(ss[i]) \in Nat /\ k \in Nat /\ 1 <= k /\ k <= Len(ss[i])
          BY <1>1, <5>1
        <5>5. PICK x : x = o[i - 1] + k
          OBVIOUS
        <5>6. x \in Nat /\ 1 <= x /\ x <= o[m]
          <6>1. PICK a, b, c, l : a = o[i - 1] /\ b = o[i] /\ c = o[m] /\ l = Len(ss[i])
            OBVIOUS
          <6>2. /\ a \in Nat /\ b = a + l /\ b <= c /\ c \in Nat /\ l \in Nat
                /\ k \in Nat /\ 1 <= k /\ k <= l /\ x = a + k
            BY <4>5, <5>2, <5>3, <5>4, <5>5, <6>1
          <6>3. x \in Nat /\ 1 <= x /\ x <= c
            BY <6>2
          <6>4. QED
            BY <6>1, <6>3
        <5>7. x \in 1..o[m] + Len(ss[m + 1])
          BY <1>1, <4>5, <5>6
        <5>8. h[m + 1][x] = h[m][x]
          BY <4>4, <5>6, <5>7
        <5>9. QED
          BY <4>3, <5>5, <5>8
      <4>7. ASSUME NEW k \in 1..Len(ss[m + 1])
            PROVE  h[m + 1][o[m] + k] = ss[m + 1][k]
        <5>1. /\ o[m] + k \in 1..o[m] + Len(ss[m + 1]) /\ ~(o[m] + k <= o[m])
              /\ (o[m] + k) - o[m] = k
          BY <1>1, <4>5
        <5>2. QED
          BY <4>4, <5>1
      <4>8. \A i \in 1..m + 1 : i \in 1..m \/ i = m + 1
        OBVIOUS
      <4>9. QED
        BY <4>1, <4>4, <4>5, <4>6, <4>7, <4>8
    <3>3. QED
      BY <3>1, <3>2
  <2> HIDE DEF S
  <2>16. n \in S
    BY <2>4, <2>14, <2>15, NatInduct
  <2>17. n \in 1..n
    BY <1>3, <2>4
  <2>18. QED
    BY <2>13, <2>16, <2>17 DEF S
<1>4. QED
  BY <1>2, <1>3

---------------------------------------------------------------------------
(* Names *)

\* What names are made of, and names.
Letter ==
    (UNION {ToSet(n) : n \in Name}) \cup {BaseOf[p] : p \in Path} \cup Int \cup {"rule", "default"}
Word == Seq(Letter)

\* The names there are, and those made of them with a number, are words; another
\* number makes another word.
LEMMA Words ==
    /\ Name \subseteq Word
    /\ Default \in Word
    /\ \A p \in Path : <<BaseOf[p]>> \in Word
    /\ \A i \in Int : <<"rule", i>> \in Word
    /\ \A w \in Word, i \in Int : w \o <<i>> \in Word
    /\ \A w \in Word, i, j \in Int : w \o <<i>> = w \o <<j>> => i = j
<1>1. Name \subseteq Word
  <2> SUFFICES ASSUME NEW n \in Name PROVE n \in Word
    OBVIOUS
  <2>1. n \in Seq(ToSet(n))
    BY NameAssumption
  <2>2. ToSet(n) \subseteq Letter
    BY DEF Letter
  <2>3. QED
    BY <2>1, <2>2, SeqMonotonic DEF Word
<1>2. "default" \in Letter /\ "rule" \in Letter /\ Int \subseteq Letter
  BY DEF Letter
<1>3. \A p \in Path : BaseOf[p] \in Letter
  BY DEF Letter
<1>4. \A x \in Letter : <<x>> \in Word /\ Len(<<x>>) = 1 /\ <<x>>[1] = x
  BY DEF Word
<1>5. \A i \in Int : <<"rule", i>> \in Word
  BY <1>2 DEF Word
<1>6. \A w \in Word, i \in Int : w \o <<i>> \in Word /\ (w \o <<i>>)[Len(w) + 1] = i
  <2> SUFFICES ASSUME NEW w \in Word, NEW i \in Int
               PROVE  w \o <<i>> \in Word /\ (w \o <<i>>)[Len(w) + 1] = i
    OBVIOUS
  <2>1. PICK v : v = <<i>>
    OBVIOUS
  <2>2. v \in Word /\ Len(v) = 1 /\ v[1] = i
    BY <1>2, <1>4, <2>1
  <2>3. /\ w \o v \in Seq(Letter)
        /\ \A k \in 1..Len(w) + Len(v) :
               (w \o v)[k] = IF k <= Len(w) THEN w[k] ELSE v[k - Len(w)]
    BY <2>2, ConcatProperties DEF Word
  <2>4. Len(w) \in Nat
    BY DEF Word
  <2>5. Len(w) + 1 \in 1..Len(w) + Len(v) /\ ~(Len(w) + 1 <= Len(w)) /\ (Len(w) + 1) - Len(w) = 1
    BY <2>2, <2>4
  <2>6. QED
    BY <2>1, <2>2, <2>3, <2>5 DEF Word
<1>7. \A w \in Word, i, j \in Int : w \o <<i>> = w \o <<j>> => i = j
  <2> SUFFICES ASSUME NEW w \in Word, NEW i \in Int, NEW j \in Int, w \o <<i>> = w \o <<j>>
               PROVE  i = j
    OBVIOUS
  <2>1. (w \o <<i>>)[Len(w) + 1] = i /\ (w \o <<j>>)[Len(w) + 1] = j
    BY <1>6
  <2>2. QED
    BY <2>1
<1>8. Default \in Word
  BY <1>2, <1>4 DEF Default
<1>9. QED
  BY <1>1, <1>2, <1>3, <1>4, <1>5, <1>6, <1>7, <1>8

\* Of n + 1 different names one is not among n.
LEMMA OneIsFree ==
    ASSUME NEW n \in Nat, NEW T, IsFiniteSet(T), Cardinality(T) <= n, NEW W,
           NEW f \in [2..n + 2 -> W], \A i, j \in 2..n + 2 : f[i] = f[j] => i = j
    PROVE  \E i \in 2..n + 2 : f[i] \notin T
<1> SUFFICES ASSUME \A i \in 2..n + 2 : f[i] \in T PROVE FALSE
  OBVIOUS
<1>1. f \in [2..n + 2 -> T]
  OBVIOUS
<1>2. IsFiniteSet(2..n + 2) /\ Cardinality(2..n + 2) = n + 1
  <2>1. 2 \in Int /\ n + 2 \in Int /\ ~(2 > n + 2) /\ (n + 2) - 2 + 1 = n + 1
    OBVIOUS
  <2>2. QED
    BY <2>1, FS_Interval
<1>3. Cardinality(T) \in Nat
  BY FS_CardinalityType
<1>4. Cardinality(T) < Cardinality(2..n + 2)
  BY <1>2, <1>3
<1>5. QED
  BY <1>1, <1>2, <1>4, FS_PigeonHole

\* The base name of a path with its number is nobody's.
LEMMA NewNameIsNew ==
    ASSUME NEW V, NEW cat \in Seq([name : Word, path : V]), NEW path \in Path
    PROVE  NewName(cat, path) \in Word /\ NewName(cat, path) \notin Names(cat)
<1>1. /\ Len(cat) \in Nat /\ DOMAIN cat = 1..Len(cat)
      /\ \A i \in 1..Len(cat) : cat[i].name \in Word
  <2>1. Len(cat) \in Nat /\ cat \in [1..Len(cat) -> [name : Word, path : V]]
    BY LenProperties
  <2>2. \A i \in 1..Len(cat) : cat[i] \in [name : Word, path : V]
    BY <2>1
  <2>3. QED
    BY <2>1, <2>2
<1>2. PICK base : base = <<BaseOf[path]>>
  OBVIOUS
<1>3. base \in Word
  BY <1>2, Words
<1>4. CASE base \notin Names(cat)
  BY <1>2, <1>3, <1>4 DEF NewName
<1>5. CASE base \in Names(cat)
  <2>1. IsFiniteSet(Names(cat)) /\ Cardinality(Names(cat)) <= Len(cat)
    <3>1. PICK f : f = [i \in 1..Len(cat) |-> cat[i].name]
      OBVIOUS
    <3>2. f \in [1..Len(cat) -> Names(cat)]
      BY <1>1, <3>1 DEF Names
    <3>3. \A x \in Names(cat) : \E i \in 1..Len(cat) : f[i] = x
      BY <1>1, <3>1 DEF Names
    <3>4. f \in Surjection(1..Len(cat), Names(cat))
      BY <3>2, <3>3, Fun_IsSurj
    <3>5. IsFiniteSet(1..Len(cat)) /\ Cardinality(1..Len(cat)) = Len(cat)
      BY <1>1, FS_Interval
    <3>6. QED
      BY <3>4, <3>5, FS_Surjection
  <2>2. PICK f : f = [i \in 2..Len(cat) + 2 |-> base \o <<-i>>]
    OBVIOUS
  <2>3. \A i \in 2..Len(cat) + 2 : -i \in Int /\ f[i] = base \o <<-i>> /\ f[i] \in Word
    BY <1>3, <2>2, Words
  <2>4. f \in [2..Len(cat) + 2 -> Word]
    BY <2>2, <2>3
  <2>5. \A i, j \in 2..Len(cat) + 2 : f[i] = f[j] => i = j
    <3> SUFFICES ASSUME NEW i \in 2..Len(cat) + 2, NEW j \in 2..Len(cat) + 2, f[i] = f[j]
                 PROVE  i = j
      OBVIOUS
    <3>1. base \o <<-i>> = base \o <<-j>> /\ -i \in Int /\ -j \in Int
      BY <2>3
    <3>2. -i = -j
      BY <1>3, <3>1, Words
    <3>3. QED
      BY <3>2
  <2>6. \E i \in 2..Len(cat) + 2 : f[i] \notin Names(cat)
    BY <1>1, <2>1, <2>4, <2>5, OneIsFree
  <2>7. PICK S : S = {i \in 2..(Len(cat) + 2) : base \o <<-i>> \notin Names(cat)}
    OBVIOUS
  <2>8. S \in SUBSET Nat /\ S # {}
    <3>1. PICK i \in 2..Len(cat) + 2 : f[i] \notin Names(cat)
      BY <2>6
    <3>2. i \in S
      BY <2>3, <2>7, <3>1
    <3>3. S \subseteq 2..Len(cat) + 2
      BY <2>7
    <3>4. QED
      BY <1>1, <3>2, <3>3
  <2>9. MinOf(S) \in S
    BY <2>8, LeastOf
  <2>10. NewName(cat, path) = base \o <<-MinOf(S)>>
    BY <1>2, <1>5, <2>7 DEF NewName
  <2>11. QED
    BY <2>3, <2>7, <2>9, <2>10
<1>6. QED
  BY <1>4, <1>5

\* The name of a group is none of those before it.
LEMMA GroupNameIsNew ==
    ASSUME NEW rule, rule.rulesets \in Seq(Word), NEW i \in Nat, NEW used, IsFiniteSet(used)
    PROVE  /\ GroupNameForRule(rule, i, used) \in Word
           /\ GroupNameForRule(rule, i, used) \notin used
<1>1. PICK numbered : numbered = <<"rule", i>>
  OBVIOUS
<1>2. PICK base : base = IF rule.rulesets # <<>> /\ rule.rulesets[1] # <<>>
                         THEN rule.rulesets[1] ELSE numbered
  OBVIOUS
<1>3. PICK name : name = IF base = Default THEN numbered ELSE base
  OBVIOUS
<1>4. PICK n : n = Cardinality(used)
  OBVIOUS
<1>5. PICK free : free = {j \in 2..(n + 2) : base \o <<j>> \notin used}
  OBVIOUS
<1>6. GroupNameForRule(rule, i, used) =
          IF name \notin used THEN name ELSE base \o <<MinOf(free)>>
  BY <1>1, <1>2, <1>3, <1>4, <1>5 DEF GroupNameForRule
<1>7. numbered \in Word
  BY <1>1, Words
<1>8. base \in Word
  <2>1. CASE rule.rulesets # <<>>
    <3>1. 1 \in 1..Len(rule.rulesets)
      BY <2>1
    <3>2. rule.rulesets[1] \in Word
      BY <3>1
    <3>3. QED
      BY <1>2, <1>7, <3>2
  <2>2. QED
    BY <1>2, <1>7, <2>1
<1>9. n \in Nat
  BY <1>4, FS_CardinalityType
<1>10. PICK f : f = [j \in 2..n + 2 |-> base \o <<j>>]
  OBVIOUS
<1>11. \A j \in 2..n + 2 : j \in Int /\ f[j] = base \o <<j>> /\ f[j] \in Word
  <2>1. \A j \in 2..n + 2 : j \in Int
    BY <1>9
  <2>2. QED
    BY <1>8, <1>10, <2>1, Words
<1>12. f \in [2..n + 2 -> Word]
  BY <1>10, <1>11
<1>13. \A j, k \in 2..n + 2 : f[j] = f[k] => j = k
  <2> SUFFICES ASSUME NEW j \in 2..n + 2, NEW k \in 2..n + 2, f[j] = f[k] PROVE j = k
    OBVIOUS
  <2>1. base \o <<j>> = base \o <<k>> /\ j \in Int /\ k \in Int
    BY <1>11
  <2>2. QED
    BY <1>8, <2>1, Words
<1>14. \E j \in 2..n + 2 : f[j] \notin used
  BY <1>4, <1>9, <1>12, <1>13, OneIsFree
<1>15. free \in SUBSET Nat /\ free # {}
  <2>1. PICK j \in 2..n + 2 : f[j] \notin used
    BY <1>14
  <2>2. j \in free
    BY <1>5, <1>11, <2>1
  <2>3. free \subseteq 2..n + 2
    BY <1>5
  <2>4. QED
    BY <1>9, <2>2, <2>3
<1>16. MinOf(free) \in free
  BY <1>15, LeastOf
<1>17. base \o <<MinOf(free)>> \in Word /\ base \o <<MinOf(free)>> \notin used
  BY <1>5, <1>11, <1>16
<1>18. QED
  BY <1>3, <1>6, <1>7, <1>8, <1>17

---------------------------------------------------------------------------
(* The catalog that fromBackend makes up *)

Catalogs == Seq([name : Word, path : Path])

\* Neither two entries of one name nor two of one path.
Distinct(cat) ==
    \A i, j \in 1..Len(cat) : cat[i].name = cat[j].name \/ cat[i].path = cat[j].path => i = j

\* What one entry makes of a catalog.
Cataloged(cat, path) ==
    IF path \in Paths(cat) THEN cat
    ELSE Append(cat, [name |-> NewName(cat, path), path |-> path])

\* An entry of a path not seen before leaves all names and paths different.
LEMMA CatalogedOK ==
    ASSUME NEW cat \in Catalogs, NEW path \in Path
    PROVE  /\ Cataloged(cat, path) \in Catalogs
           /\ Distinct(cat) => Distinct(Cataloged(cat, path))
           /\ Paths(Cataloged(cat, path)) = Paths(cat) \cup {path}
<1>1. CASE path \in Paths(cat)
  BY <1>1 DEF Cataloged
<1>2. CASE path \notin Paths(cat)
  <2>1. PICK name : name = NewName(cat, path)
    OBVIOUS
  <2>2. name \in Word /\ name \notin Names(cat)
    BY <2>1, NewNameIsNew DEF Catalogs
  <2>3. PICK e : e = [name |-> name, path |-> path]
    OBVIOUS
  <2>4. e \in [name : Word, path : Path] /\ e.name = name /\ e.path = path
    BY <2>2, <2>3
  <2>5. PICK new : new = Append(cat, e)
    OBVIOUS
  <2>6. Cataloged(cat, path) = new
    BY <1>2, <2>1, <2>3, <2>5 DEF Cataloged
  <2>7. /\ new \in Catalogs /\ Len(new) = Len(cat) + 1
        /\ \A i \in 1..Len(cat) : new[i] = cat[i]
        /\ new[Len(cat) + 1] = e
    BY <2>4, <2>5, AppendProperties DEF Catalogs
  <2>8. Len(cat) \in Nat /\ DOMAIN cat = 1..Len(cat) /\ DOMAIN new = 1..Len(cat) + 1
    BY <2>7, LenProperties DEF Catalogs
  <2>9. \A i \in 1..Len(cat) : cat[i].name # name /\ cat[i].path # path
    BY <1>2, <2>2, <2>8 DEF Names, Paths
  <2>10. \A i \in 1..Len(cat) + 1 : i \in 1..Len(cat) \/ i = Len(cat) + 1
    BY <2>8
  <2>11. Distinct(cat) => Distinct(new)
    BY <2>4, <2>7, <2>9, <2>10 DEF Distinct
  <2>12. Paths(new) = Paths(cat) \cup {path}
    <3>1. Paths(new) = {new[i].path : i \in 1..Len(cat) + 1}
      BY <2>8 DEF Paths
    <3>2. Paths(cat) = {cat[i].path : i \in 1..Len(cat)}
      BY <2>8 DEF Paths
    <3>3. Len(cat) + 1 \in 1..Len(cat) + 1 /\ \A i \in 1..Len(cat) : i \in 1..Len(cat) + 1
      BY <2>8
    <3>4. QED
      BY <2>4, <2>7, <2>10, <3>1, <3>2, <3>3
  <2>13. QED
    BY <2>6, <2>7, <2>11, <2>12
<1>3. QED
  BY <1>1, <1>2

\* The catalog has every path once, under a name of its own.
LEMMA CatalogOfEntries ==
    ASSUME NEW U, NEW entries \in Seq([path : Path, upstream : U])
    PROVE  /\ CatalogOf(entries) \in Catalogs
           /\ Distinct(CatalogOf(entries))
           /\ Paths(CatalogOf(entries)) = {entries[i].path : i \in 1..Len(entries)}
<1> DEFINE n == Len(entries)
           step == [i \in 1..n |-> [cat \in Catalogs |-> Cataloged(cat, entries[i].path)]]
           Def(f) == [i \in 0..n |-> IF i = 0 THEN <<>> ELSE Cataloged(f[i - 1], entries[i].path)]
           made == CHOOSE f : f = Def(f)
<1>1. CatalogOf(entries) = made[n]
  BY DEF CatalogOf, Cataloged
<1>2. n \in Nat /\ \A i \in 1..n : entries[i].path \in Path
  <2>1. n \in Nat /\ entries \in [1..n -> [path : Path, upstream : U]]
    BY LenProperties
  <2>2. \A i \in 1..n : entries[i] \in [path : Path, upstream : U]
    BY <2>1
  <2>3. QED
    BY <2>1, <2>2
<1>3. step \in [1..n -> [Catalogs -> Catalogs]]
  <2>1. \A i \in 1..n : \A cat \in Catalogs : Cataloged(cat, entries[i].path) \in Catalogs
    BY <1>2, CatalogedOK
  <2>2. QED
    BY <2>1
<1>4. \A i \in 1..n, cat \in Catalogs : step[i][cat] = Cataloged(cat, entries[i].path)
  OBVIOUS
<1>5. <<>> \in Catalogs
  BY DEF Catalogs
<1> HIDE DEF step
<1>6. PICK g : Iterates(g, n, Catalogs, <<>>, step)
  BY <1>2, <1>3, <1>5, Recursion
<1>7. /\ g \in [0..n -> Catalogs] /\ g[0] = <<>>
      /\ \A i \in 1..n : g[i] = Cataloged(g[i - 1], entries[i].path)
  <2>1. /\ g \in [0..n -> Catalogs] /\ g[0] = <<>>
        /\ \A i \in 1..n : g[i] = step[i][g[i - 1]]
    BY <1>6 DEF Iterates
  <2>2. \A i \in 1..n : i - 1 \in 0..n
    BY <1>2
  <2>3. QED
    BY <1>4, <2>1, <2>2
<1>8. g = Def(g)
  <2>1. \A i \in 0..n : g[i] = IF i = 0 THEN <<>> ELSE Cataloged(g[i - 1], entries[i].path)
    <3>1. \A i \in 0..n : i = 0 \/ i \in 1..n
      BY <1>2
    <3>2. QED
      BY <1>7, <3>1
  <2>2. QED
    BY <1>7, <2>1
<1>9. made = Def(made)
  BY <1>8
<1>10. PICK h : h = made
  OBVIOUS
<1>11. /\ h[0] = <<>>
       /\ \A i \in 1..n : h[i] = Cataloged(h[i - 1], entries[i].path)
       /\ CatalogOf(entries) = h[n]
  <2>1. h = [i \in 0..n |-> IF i = 0 THEN <<>> ELSE Cataloged(h[i - 1], entries[i].path)]
    BY <1>9, <1>10
  <2>2. 0 \in 0..n /\ \A i \in 1..n : i \in 0..n /\ i # 0
    BY <1>2
  <2>3. CatalogOf(entries) = h[n]
    BY <1>1, <1>10
  <2>4. QED
    BY <2>1, <2>2, <2>3
<1> HIDE DEF made, Def
<1> DEFINE S == {m \in Nat : m <= n => /\ h[m] \in Catalogs /\ Distinct(h[m])
                                       /\ Paths(h[m]) = {entries[i].path : i \in 1..m}}
<1>12. 0 \in S
  <2>1. Len(<<>>) = 0 /\ DOMAIN <<>> = {}
    OBVIOUS
  <2>2. Distinct(<<>>)
    BY <2>1 DEF Distinct
  <2>3. Paths(<<>>) = {}
    BY <2>1 DEF Paths
  <2>4. {entries[i].path : i \in 1..0} = {}
    OBVIOUS
  <2>5. QED
    BY <1>5, <1>11, <2>2, <2>3, <2>4
<1>13. ASSUME NEW m \in Nat, m \in S PROVE m + 1 \in S
  <2> SUFFICES ASSUME m + 1 <= n
               PROVE  /\ h[m + 1] \in Catalogs /\ Distinct(h[m + 1])
                      /\ Paths(h[m + 1]) = {entries[i].path : i \in 1..m + 1}
    OBVIOUS
  <2>1. m + 1 \in 1..n /\ (m + 1) - 1 = m /\ m <= n
    BY <1>2
  <2>2. h[m] \in Catalogs /\ Distinct(h[m]) /\ Paths(h[m]) = {entries[i].path : i \in 1..m}
    BY <1>13, <2>1
  <2>3. PICK cat, path : cat = h[m] /\ path = entries[m + 1].path
    OBVIOUS
  <2>4. h[m + 1] = Cataloged(cat, path) /\ cat \in Catalogs /\ path \in Path
    BY <1>2, <1>11, <2>1, <2>2, <2>3
  <2>5. /\ h[m + 1] \in Catalogs /\ Distinct(h[m + 1])
        /\ Paths(h[m + 1]) = Paths(cat) \cup {path}
    BY <2>2, <2>3, <2>4, CatalogedOK
  <2>6. \A i \in 1..m + 1 : i \in 1..m \/ i = m + 1
    OBVIOUS
  <2>7. m + 1 \in 1..m + 1 /\ \A i \in 1..m : i \in 1..m + 1
    OBVIOUS
  <2>8. {entries[i].path : i \in 1..m + 1} = {entries[i].path : i \in 1..m} \cup {path}
    BY <2>3, <2>6, <2>7
  <2>9. QED
    BY <2>2, <2>3, <2>5, <2>8
<1> HIDE DEF S
<1>14. n \in S
  BY <1>2, <1>12, <1>13, NatInduct
<1>15. QED
  BY <1>2, <1>11, <1>14 DEF S

---------------------------------------------------------------------------
(* The names that commitToConfig gives *)

Rule == [rulesets : Seq(Word), settings : Settings, subnet : Ecs]

\* Groups of different rules have different names, none of them the default's.
Given(given) ==
    /\ \A i \in 1..Len(given) : given[i] # Default
    /\ \A i, j \in 1..Len(given) : given[i] = given[j] => i = j

NextName(before, rule, i) == Append(before, GroupNameForRule(rule, i, {Default} \cup ToSet(before)))

\* The name of one more group keeps the names different.
LEMMA NextNameOK ==
    ASSUME NEW before \in Seq(Word), NEW rule \in Rule, NEW i \in Nat
    PROVE  /\ NextName(before, rule, i) \in Seq(Word)
           /\ Len(NextName(before, rule, i)) = Len(before) + 1
           /\ Given(before) => Given(NextName(before, rule, i))
<1>1. Len(before) \in Nat /\ DOMAIN before = 1..Len(before)
  BY LenProperties
<1>2. PICK used : used = {Default} \cup ToSet(before)
  OBVIOUS
<1>3. IsFiniteSet(used)
  <2>1. PICK f : f = [k \in 1..Len(before) |-> before[k]]
    OBVIOUS
  <2>2. f \in [1..Len(before) -> ToSet(before)] /\ \A x \in ToSet(before) : \E k \in 1..Len(before) : f[k] = x
    BY <1>1, <2>1 DEF ToSet
  <2>3. f \in Surjection(1..Len(before), ToSet(before))
    BY <2>2, Fun_IsSurj
  <2>4. IsFiniteSet(1..Len(before))
    BY <1>1, FS_Interval
  <2>5. IsFiniteSet(ToSet(before))
    BY <2>3, <2>4, FS_Surjection
  <2>6. ToSet(before) \cup {Default} = used
    BY <1>2
  <2>7. QED
    BY <2>5, <2>6, FS_AddElement
<1>4. PICK name : name = GroupNameForRule(rule, i, used)
  OBVIOUS
<1>5. rule.rulesets \in Seq(Word)
  BY DEF Rule
<1>6. name \in Word /\ name \notin used
  BY <1>3, <1>4, <1>5, GroupNameIsNew
<1>7. PICK new : new = Append(before, name)
  OBVIOUS
<1>8. NextName(before, rule, i) = new
  BY <1>2, <1>4, <1>7 DEF NextName
<1>9. /\ new \in Seq(Word) /\ Len(new) = Len(before) + 1
      /\ \A k \in 1..Len(before) : new[k] = before[k]
      /\ new[Len(before) + 1] = name
  BY <1>6, <1>7, AppendProperties
<1>10. name # Default /\ \A k \in 1..Len(before) : before[k] # name
  BY <1>1, <1>2, <1>6 DEF ToSet
<1>11. \A k \in 1..Len(before) + 1 : k \in 1..Len(before) \/ k = Len(before) + 1
  BY <1>1
<1>12. Given(before) => Given(new)
  BY <1>9, <1>10, <1>11 DEF Given
<1>13. QED
  BY <1>8, <1>9, <1>12

\* There is a name for every rule's group, and they differ (groupNameForRule).
LEMMA GroupNamesOK ==
    ASSUME NEW rs \in Seq(Rule)
    PROVE  GroupNames(rs) \in Seq(Word) /\ Len(GroupNames(rs)) = Len(rs) /\ Given(GroupNames(rs))
<1> DEFINE n == Len(rs)
           step == [i \in 1..n |-> [before \in Seq(Word) |-> NextName(before, rs[i], i)]]
           Def(f) == [i \in 0..n |-> IF i = 0 THEN <<>> ELSE NextName(f[i - 1], rs[i], i)]
           given == CHOOSE f : f = Def(f)
<1>1. GroupNames(rs) = given[n]
  BY DEF GroupNames, NextName
<1>2. n \in Nat /\ \A i \in 1..n : rs[i] \in Rule
  OBVIOUS
<1>3. step \in [1..n -> [Seq(Word) -> Seq(Word)]]
  <2>1. \A i \in 1..n : \A before \in Seq(Word) : NextName(before, rs[i], i) \in Seq(Word)
    <3> SUFFICES ASSUME NEW i \in 1..n, NEW before \in Seq(Word)
                 PROVE  NextName(before, rs[i], i) \in Seq(Word)
      OBVIOUS
    <3>1. PICK rule : rule = rs[i]
      OBVIOUS
    <3>2. rule \in Rule /\ i \in Nat
      BY <1>2, <3>1
    <3>3. QED
      BY <3>1, <3>2, NextNameOK
  <2>2. QED
    BY <2>1
<1>4. \A i \in 1..n, before \in Seq(Word) : step[i][before] = NextName(before, rs[i], i)
  OBVIOUS
<1>5. <<>> \in Seq(Word)
  OBVIOUS
<1> HIDE DEF step
<1>6. PICK g : Iterates(g, n, Seq(Word), <<>>, step)
  BY <1>2, <1>3, <1>5, Recursion
<1>7. /\ g \in [0..n -> Seq(Word)] /\ g[0] = <<>>
      /\ \A i \in 1..n : g[i] = NextName(g[i - 1], rs[i], i)
  <2>1. /\ g \in [0..n -> Seq(Word)] /\ g[0] = <<>>
        /\ \A i \in 1..n : g[i] = step[i][g[i - 1]]
    BY <1>6 DEF Iterates
  <2>2. \A i \in 1..n : i - 1 \in 0..n
    BY <1>2
  <2>3. QED
    BY <1>4, <2>1, <2>2
<1>8. g = Def(g)
  <2>1. \A i \in 0..n : g[i] = IF i = 0 THEN <<>> ELSE NextName(g[i - 1], rs[i], i)
    <3>1. \A i \in 0..n : i = 0 \/ i \in 1..n
      BY <1>2
    <3>2. QED
      BY <1>7, <3>1
  <2>2. QED
    BY <1>7, <2>1
<1>9. given = Def(given)
  BY <1>8
<1>10. PICK h : h = given
  OBVIOUS
<1>11. /\ h[0] = <<>>
       /\ \A i \in 1..n : h[i] = NextName(h[i - 1], rs[i], i)
       /\ GroupNames(rs) = h[n]
  <2>1. h = [i \in 0..n |-> IF i = 0 THEN <<>> ELSE NextName(h[i - 1], rs[i], i)]
    BY <1>9, <1>10
  <2>2. 0 \in 0..n /\ \A i \in 1..n : i \in 0..n /\ i # 0
    BY <1>2
  <2>3. GroupNames(rs) = h[n]
    BY <1>1, <1>10
  <2>4. QED
    BY <2>1, <2>2, <2>3
<1> HIDE DEF given, Def
<1> DEFINE S == {m \in Nat : m <= n => h[m] \in Seq(Word) /\ Len(h[m]) = m /\ Given(h[m])}
<1>12. 0 \in S
  <2>1. h[0] \in Seq(Word) /\ Len(h[0]) = 0
    BY <1>11
  <2>2. Given(h[0])
    BY <2>1 DEF Given
  <2>3. QED
    BY <2>1, <2>2
<1>13. ASSUME NEW m \in Nat, m \in S PROVE m + 1 \in S
  <2> SUFFICES ASSUME m + 1 <= n
               PROVE  h[m + 1] \in Seq(Word) /\ Len(h[m + 1]) = m + 1 /\ Given(h[m + 1])
    OBVIOUS
  <2>1. m + 1 \in 1..n /\ (m + 1) - 1 = m /\ m <= n
    BY <1>2
  <2>2. h[m] \in Seq(Word) /\ Len(h[m]) = m /\ Given(h[m])
    BY <1>13, <2>1
  <2>3. PICK before, rule, i : before = h[m] /\ rule = rs[m + 1] /\ i = m + 1
    OBVIOUS
  <2>4. h[m + 1] = NextName(before, rule, i) /\ before \in Seq(Word) /\ rule \in Rule /\ i \in Nat
    BY <1>2, <1>11, <2>1, <2>2, <2>3
  <2>5. QED
    BY <2>2, <2>3, <2>4, NextNameOK, SMTT(30)
<1> HIDE DEF S
<1>14. n \in S
  BY <1>2, <1>12, <1>13, NatInduct
<1>15. QED
  BY <1>2, <1>11, <1>14 DEF S

---------------------------------------------------------------------------
(* commitToConfig *)

Item == [name : Word, path : Path \cup {Null}]

\* The names that have a path, and the places of those among a rule's.
Known(cat) == {n \in Names(cat) : PathOf(cat, n) # Null}
Ticked(cat, rule) == {i \in 1..Len(rule.rulesets) : rule.rulesets[i] \in Known(cat)}
AllPaths(cat, rule) == [i \in 1..Len(rule.rulesets) |-> PathOf(cat, rule.rulesets[i])]

\* The path of a name is that of the last entry of that name.
LEMMA PathOfOK ==
    ASSUME NEW cat \in Seq(Item), NEW n \in Names(cat)
    PROVE  /\ PathOf(cat, n) \in Path \cup {Null}
           /\ \E i \in 1..Len(cat) : /\ cat[i].name = n /\ PathOf(cat, n) = cat[i].path
                                     /\ \A j \in 1..Len(cat) : cat[j].name = n => j <= i
<1>1. Len(cat) \in Nat /\ DOMAIN cat = 1..Len(cat) /\ \A i \in 1..Len(cat) : cat[i] \in Item
  BY LenProperties
<1>2. PICK S : S = {i \in DOMAIN cat : cat[i].name = n}
  OBVIOUS
<1>3. S \in SUBSET (1..Len(cat)) /\ S # {}
  BY <1>1, <1>2 DEF Names
<1>4. MaxOf(S) \in S /\ \A y \in S : y <= MaxOf(S)
  BY <1>1, <1>3, GreatestOf
<1>5. PathOf(cat, n) = cat[MaxOf(S)].path
  BY <1>2 DEF PathOf
<1>6. PICK i : i = MaxOf(S)
  OBVIOUS
<1>7. i \in 1..Len(cat) /\ cat[i].name = n /\ \A j \in 1..Len(cat) : cat[j].name = n => j <= i
  BY <1>1, <1>2, <1>4, <1>6
<1>8. PathOf(cat, n) = cat[i].path /\ cat[i] \in Item
  BY <1>1, <1>5, <1>6, <1>7
<1>9. QED
  BY <1>7, <1>8 DEF Item

\* The paths of a rule are a part of those of all its names.
LEMMA PathsOfIs ==
    ASSUME NEW cat \in Seq(Item), NEW rule \in Rule
    PROVE  /\ PathsOf(cat, rule) = At(AllPaths(cat, rule), Ticked(cat, rule))
           /\ PathsOf(cat, rule) \in Seq(Path)
<1>1. PICK names : names = rule.rulesets
  OBVIOUS
<1>2. names \in Seq(Word) /\ Len(names) \in Nat /\ DOMAIN names = 1..Len(names)
  BY <1>1, LenProperties DEF Rule
<1>3. PICK K : K = Ticked(cat, rule)
  OBVIOUS
<1>4. K \in SUBSET (1..Len(names)) /\ K = {i \in DOMAIN names : names[i] \in Known(cat)}
  BY <1>1, <1>2, <1>3 DEF Ticked
<1>5. PICK c, p : Enumerates(p, c, K)
  BY <1>2, <1>4, Enumerated
<1>6. c \in Nat /\ p \in [1..c -> K]
  BY <1>5 DEF Enumerates
<1>7. PICK named : named = At(names, K)
  OBVIOUS
<1>8. named = [k \in 1..c |-> names[p[k]]]
  BY <1>5, <1>7, AtIs
<1>9. PathsOf(cat, rule) = [k \in DOMAIN named |-> PathOf(cat, named[k])]
  BY <1>1, <1>4, <1>7 DEF PathsOf, Only, Known
<1>10. DOMAIN named = 1..c
  BY <1>8
<1>11. PICK paths : paths = PathsOf(cat, rule)
  OBVIOUS
<1>12. paths = [k \in 1..c |-> PathOf(cat, names[p[k]])]
  BY <1>8, <1>9, <1>10, <1>11
<1>13. PICK all : all = AllPaths(cat, rule)
  OBVIOUS
<1>14. \A i \in 1..Len(names) : all[i] = PathOf(cat, names[i])
  BY <1>1, <1>13 DEF AllPaths
<1>15. At(all, K) = [k \in 1..c |-> all[p[k]]]
  BY <1>5, AtIs
<1>16. \A k \in 1..c : all[p[k]] = PathOf(cat, names[p[k]])
  BY <1>4, <1>6, <1>14
<1>17. paths = At(all, K)
  BY <1>12, <1>15, <1>16
<1>18. \A n \in Known(cat) : PathOf(cat, n) \in Path
  <2> SUFFICES ASSUME NEW n \in Known(cat) PROVE PathOf(cat, n) \in Path
    OBVIOUS
  <2>1. n \in Names(cat) /\ PathOf(cat, n) # Null
    BY DEF Known
  <2>2. PathOf(cat, n) \in Path \cup {Null}
    BY <2>1, PathOfOK
  <2>3. QED
    BY <2>1, <2>2
<1>19. paths \in [1..c -> Path]
  BY <1>4, <1>6, <1>12, <1>18
<1>20. paths \in Seq(Path)
  BY <1>6, <1>19, SeqDef
<1>21. QED
  BY <1>3, <1>11, <1>13, <1>17, <1>20

GroupsTyped(grps) == Default \in DOMAIN grps /\ grps \in [DOMAIN grps -> Group]

\* The entries that commitToConfig makes of each rule.
EntriesOfRule(cat, rs, given, i) ==
    [k \in DOMAIN PathsOf(cat, rs[i]) |-> [path |-> PathsOf(cat, rs[i])[k], upstream |-> given[i]]]
EntriesOfRules(cat, rs, given) == [i \in DOMAIN rs |-> EntriesOfRule(cat, rs, given, i)]

\* Every rule has its group, and its entries name it; the default group stays.
LEMMA CommitOK ==
    ASSUME NEW cat \in Seq(Item), NEW rs \in Seq(Rule), GroupsTyped(groups),
           CommitToConfig(cat, rs), NEW given, given = GroupNames(rs)
    PROVE  /\ GroupsTyped(groups') /\ groups'[Default] = groups[Default]
           /\ \A i \in 1..Len(rs) : given[i] \in DOMAIN groups' /\ groups'[given[i]] = GroupOf(rs[i])
           /\ rulesets' = FlattenSeq(EntriesOfRules(cat, rs, given))
<1>1. given \in Seq(Word) /\ Len(given) = Len(rs) /\ Given(given)
  BY GroupNamesOK
<1>2. Len(rs) \in Nat /\ DOMAIN rs = 1..Len(rs) /\ \A i \in 1..Len(rs) : rs[i] \in Rule
  BY LenProperties
<1>3. DOMAIN given = 1..Len(rs) /\ ToSet(given) = {given[i] : i \in 1..Len(rs)}
  BY <1>1, LenProperties DEF ToSet
<1>4. groups' = [n \in {Default} \cup ToSet(given) |->
                    IF n \in ToSet(given) THEN GroupOf(rs[MaxOf({i \in DOMAIN rs : given[i] = n})])
                    ELSE groups[Default]]
  BY DEF CommitToConfig
<1>5. ASSUME NEW i \in 1..Len(rs)
      PROVE  MaxOf({j \in DOMAIN rs : given[j] = given[i]}) = i
  <2>1. PICK S : S = {j \in DOMAIN rs : given[j] = given[i]}
    OBVIOUS
  <2>2. S = {i}
    BY <1>1, <1>2, <2>1 DEF Given
  <2>3. MaxOf(S) \in S
    BY <1>2, <2>2, GreatestOf
  <2>4. QED
    BY <2>1, <2>2, <2>3
<1>6. \A i \in 1..Len(rs) : given[i] \in DOMAIN groups' /\ groups'[given[i]] = GroupOf(rs[i])
  <2> SUFFICES ASSUME NEW i \in 1..Len(rs)
               PROVE  given[i] \in DOMAIN groups' /\ groups'[given[i]] = GroupOf(rs[i])
    OBVIOUS
  <2>1. given[i] \in ToSet(given)
    BY <1>3
  <2>2. groups'[given[i]] = GroupOf(rs[MaxOf({j \in DOMAIN rs : given[j] = given[i]})])
    BY <1>4, <2>1
  <2>3. QED
    BY <1>4, <1>5, <2>1, <2>2
<1>7. \A i \in 1..Len(rs) : GroupOf(rs[i]) \in Group
  BY <1>2 DEF GroupOf, Group, Rule, Ecs
<1>8. Default \notin ToSet(given)
  BY <1>1, <1>3 DEF Given
<1>9. groups'[Default] = groups[Default] /\ groups[Default] \in Group
  BY <1>4, <1>8 DEF GroupsTyped
<1>10. \A n \in DOMAIN groups' : groups'[n] \in Group
  <2>1. \A n \in DOMAIN groups' : n = Default \/ \E i \in 1..Len(rs) : n = given[i]
    BY <1>3, <1>4
  <2>2. QED
    BY <1>6, <1>7, <1>9, <2>1
<1>11. Default \in DOMAIN groups' /\ groups' = [n \in DOMAIN groups' |-> groups'[n]]
  BY <1>4
<1>12. GroupsTyped(groups')
  BY <1>10, <1>11 DEF GroupsTyped
<1>13. rulesets' = FlattenSeq(EntriesOfRules(cat, rs, given))
  BY DEF CommitToConfig, EntriesOfRules, EntriesOfRule
<1>14. QED
  BY <1>6, <1>9, <1>12, <1>13

Pair == [path : Path, to : Settings]

\* What each rule says it routes, and what entries route.
PairsOfRule(cat, rule) ==
    [k \in DOMAIN PathsOf(cat, rule) |-> [path |-> PathsOf(cat, rule)[k], to |-> rule.settings]]
PairsOfRules(cat, rs) == [i \in DOMAIN rs |-> PairsOfRule(cat, rs[i])]
PairsOf(grps, entries) ==
    [i \in DOMAIN entries |-> [path |-> entries[i].path, to |-> grps[entries[i].upstream].settings]]

\* What is routed, and what is shown to be, is the first hits of such pairs.
LEMMA RoutesAre ==
    ASSUME NEW cat, NEW rs, NEW grps, NEW entries
    PROVE  /\ ShownRouting(cat, rs) = FirstHits(FlattenSeq(PairsOfRules(cat, rs)))
           /\ Routed(grps, entries) = FirstHits(PairsOf(grps, entries))
BY DEF ShownRouting, Routed, PairsOfRules, PairsOfRule, PairsOf

\* The lists of the rules are as long as their paths.
LEMMA ListsOfRules ==
    ASSUME NEW cat \in Seq(Item), NEW rs \in Seq(Rule), NEW given, NEW U,
           \A i \in 1..Len(rs) : given[i] \in U
    PROVE  /\ EntriesOfRules(cat, rs, given) \in Seq(Seq([path : Path, upstream : U]))
           /\ PairsOfRules(cat, rs) \in Seq(Seq(Pair))
           /\ Len(EntriesOfRules(cat, rs, given)) = Len(rs)
           /\ Len(PairsOfRules(cat, rs)) = Len(rs)
           /\ \A i \in 1..Len(rs) :
                  /\ Len(EntriesOfRules(cat, rs, given)[i]) = Len(PathsOf(cat, rs[i]))
                  /\ Len(PairsOfRules(cat, rs)[i]) = Len(PathsOf(cat, rs[i]))
                  /\ \A k \in 1..Len(PathsOf(cat, rs[i])) :
                         /\ EntriesOfRules(cat, rs, given)[i][k] =
                                [path |-> PathsOf(cat, rs[i])[k], upstream |-> given[i]]
                         /\ PairsOfRules(cat, rs)[i][k] =
                                [path |-> PathsOf(cat, rs[i])[k], to |-> rs[i].settings]
<1>1. Len(rs) \in Nat /\ DOMAIN rs = 1..Len(rs) /\ \A i \in 1..Len(rs) : rs[i] \in Rule
  BY LenProperties
<1>2. ASSUME NEW i \in 1..Len(rs)
      PROVE  /\ EntriesOfRule(cat, rs, given, i) \in Seq([path : Path, upstream : U])
             /\ PairsOfRule(cat, rs[i]) \in Seq(Pair)
             /\ Len(EntriesOfRule(cat, rs, given, i)) = Len(PathsOf(cat, rs[i]))
             /\ Len(PairsOfRule(cat, rs[i])) = Len(PathsOf(cat, rs[i]))
             /\ \A k \in 1..Len(PathsOf(cat, rs[i])) :
                    /\ EntriesOfRule(cat, rs, given, i)[k] =
                           [path |-> PathsOf(cat, rs[i])[k], upstream |-> given[i]]
                    /\ PairsOfRule(cat, rs[i])[k] =
                           [path |-> PathsOf(cat, rs[i])[k], to |-> rs[i].settings]
  <2>1. PICK rule : rule = rs[i]
    OBVIOUS
  <2>2. rule \in Rule /\ rule.settings \in Settings
    BY <1>1, <2>1 DEF Rule
  <2>3. PICK paths : paths = PathsOf(cat, rule)
    OBVIOUS
  <2>4. paths \in Seq(Path)
    BY <2>2, <2>3, PathsOfIs
  <2>5. Len(paths) \in Nat /\ DOMAIN paths = 1..Len(paths) /\ \A k \in 1..Len(paths) : paths[k] \in Path
    BY <2>4, LenProperties
  <2>6. PICK e, p : /\ e = EntriesOfRule(cat, rs, given, i)
                    /\ p = PairsOfRule(cat, rule)
    OBVIOUS
  <2>7. /\ e = [k \in 1..Len(paths) |-> [path |-> paths[k], upstream |-> given[i]]]
        /\ p = [k \in 1..Len(paths) |-> [path |-> paths[k], to |-> rule.settings]]
    BY <2>1, <2>3, <2>5, <2>6 DEF EntriesOfRule, PairsOfRule
  <2>8. e \in [1..Len(paths) -> [path : Path, upstream : U]] /\ p \in [1..Len(paths) -> Pair]
    BY <2>2, <2>5, <2>7 DEF Pair
  <2>9. /\ e \in Seq([path : Path, upstream : U]) /\ Len(e) = Len(paths)
        /\ p \in Seq(Pair) /\ Len(p) = Len(paths)
    <3>1. PICK V : V = [path : Path, upstream : U]
      OBVIOUS
    <3>2. PICK n : n = Len(paths)
      OBVIOUS
    <3>3. n \in Nat /\ e \in [1..n -> V] /\ p \in [1..n -> Pair]
      BY <2>5, <2>8, <3>1, <3>2
    <3>4. e \in Seq(V) /\ Len(e) = n
      BY <3>3, IsList
    <3>5. p \in Seq(Pair) /\ Len(p) = n
      BY <3>3, IsList
    <3>6. QED
      BY <3>1, <3>2, <3>4, <3>5
  <2>10. QED
    BY <2>1, <2>3, <2>6, <2>7, <2>9
<1>3. PICK es, ps : es = EntriesOfRules(cat, rs, given) /\ ps = PairsOfRules(cat, rs)
  OBVIOUS
<1>4. /\ es = [i \in 1..Len(rs) |-> EntriesOfRule(cat, rs, given, i)]
      /\ ps = [i \in 1..Len(rs) |-> PairsOfRule(cat, rs[i])]
  BY <1>1, <1>3 DEF EntriesOfRules, PairsOfRules
<1>5. es \in [1..Len(rs) -> Seq([path : Path, upstream : U])] /\ ps \in [1..Len(rs) -> Seq(Pair)]
  BY <1>2, <1>4
<1>6. /\ es \in Seq(Seq([path : Path, upstream : U])) /\ Len(es) = Len(rs)
      /\ ps \in Seq(Seq(Pair)) /\ Len(ps) = Len(rs)
  <2>1. PICK V, W : V = Seq([path : Path, upstream : U]) /\ W = Seq(Pair)
    OBVIOUS
  <2>2. PICK n : n = Len(rs)
    OBVIOUS
  <2>3. n \in Nat /\ es \in [1..n -> V] /\ ps \in [1..n -> W]
    BY <1>1, <1>5, <2>1, <2>2
  <2>4. es \in Seq(V) /\ Len(es) = n
    BY <2>3, IsList
  <2>5. ps \in Seq(W) /\ Len(ps) = n
    BY <2>3, IsList
  <2>6. QED
    BY <2>1, <2>2, <2>4, <2>5
<1>7. \A i \in 1..Len(rs) : es[i] = EntriesOfRule(cat, rs, given, i) /\ ps[i] = PairsOfRule(cat, rs[i])
  BY <1>4
<1>8. QED
  BY <1>2, <1>3, <1>6, <1>7

\* What the rules say is what the entries made of them route.
LEMMA CommitRoutes ==
    ASSUME NEW cat \in Seq(Item), NEW rs \in Seq(Rule), GroupsTyped(groups),
           CommitToConfig(cat, rs)
    PROVE  /\ rulesets' \in Seq(EntriesOf(groups'))
           /\ PairsOf(groups', rulesets') = FlattenSeq(PairsOfRules(cat, rs))
           /\ Routed(groups', rulesets') = ShownRouting(cat, rs)
<1>1. PICK given : given = GroupNames(rs)
  OBVIOUS
<1>2. /\ GroupsTyped(groups')
      /\ \A i \in 1..Len(rs) : given[i] \in DOMAIN groups' /\ groups'[given[i]] = GroupOf(rs[i])
      /\ rulesets' = FlattenSeq(EntriesOfRules(cat, rs, given))
  BY <1>1, CommitOK
<1>3. PICK U : U = DOMAIN groups'
  OBVIOUS
<1>4. \A i \in 1..Len(rs) : given[i] \in U
  BY <1>2, <1>3
<1>4a. /\ EntriesOfRules(cat, rs, given) \in Seq(Seq([path : Path, upstream : U]))
       /\ PairsOfRules(cat, rs) \in Seq(Seq(Pair))
       /\ Len(EntriesOfRules(cat, rs, given)) = Len(rs)
       /\ Len(PairsOfRules(cat, rs)) = Len(rs)
       /\ \A i \in 1..Len(rs) :
              /\ Len(EntriesOfRules(cat, rs, given)[i]) = Len(PathsOf(cat, rs[i]))
              /\ Len(PairsOfRules(cat, rs)[i]) = Len(PathsOf(cat, rs[i]))
              /\ \A k \in 1..Len(PathsOf(cat, rs[i])) :
                     /\ EntriesOfRules(cat, rs, given)[i][k] =
                            [path |-> PathsOf(cat, rs[i])[k], upstream |-> given[i]]
                     /\ PairsOfRules(cat, rs)[i][k] =
                            [path |-> PathsOf(cat, rs[i])[k], to |-> rs[i].settings]
  BY <1>4, ListsOfRules
<1>4b. PICK es, ps : es = EntriesOfRules(cat, rs, given) /\ ps = PairsOfRules(cat, rs)
  OBVIOUS
<1>5. /\ es \in Seq(Seq([path : Path, upstream : U]))
      /\ ps \in Seq(Seq(Pair))
      /\ Len(es) = Len(rs) /\ Len(ps) = Len(rs)
      /\ \A i \in 1..Len(rs) :
             /\ Len(es[i]) = Len(PathsOf(cat, rs[i])) /\ Len(ps[i]) = Len(PathsOf(cat, rs[i]))
             /\ \A k \in 1..Len(PathsOf(cat, rs[i])) :
                    /\ es[i][k] = [path |-> PathsOf(cat, rs[i])[k], upstream |-> given[i]]
                    /\ ps[i][k] = [path |-> PathsOf(cat, rs[i])[k], to |-> rs[i].settings]
  BY <1>4a, <1>4b
<1>6. PICK o : Offsets(o, es)
  BY <1>5, OffsetsExist
<1>7. Offsets(o, ps)
  BY <1>5, <1>6 DEF Offsets
<1>8. PICK entries, pairs : entries = FlattenSeq(es) /\ pairs = FlattenSeq(ps)
  OBVIOUS
<1>9. /\ entries \in Seq([path : Path, upstream : U]) /\ Len(entries) = o[Len(rs)]
      /\ \A i \in 1..Len(rs) : \A k \in 1..Len(es[i]) : entries[o[i - 1] + k] = es[i][k]
  BY <1>5, <1>6, <1>8, Flattened, SMTT(30)
<1>10. /\ pairs \in Seq(Pair) /\ Len(pairs) = o[Len(rs)]
       /\ \A i \in 1..Len(rs) : \A k \in 1..Len(ps[i]) : pairs[o[i - 1] + k] = ps[i][k]
  BY <1>5, <1>7, <1>8, Flattened, SMTT(30)
<1>11. entries = rulesets' /\ rulesets' \in Seq(EntriesOf(groups'))
  BY <1>2, <1>3, <1>4b, <1>8, <1>9 DEF EntriesOf
<1>12. PICK n : n = o[Len(rs)]
  OBVIOUS
<1>13. n \in Nat /\ DOMAIN entries = 1..n /\ DOMAIN pairs = 1..n
  BY <1>9, <1>10, <1>12, LenProperties
<1>14. ASSUME NEW x \in 1..n
       PROVE  pairs[x] = [path |-> entries[x].path, to |-> groups'[entries[x].upstream].settings]
  <2>1. PICK i \in 1..Len(es) : \E k \in 1..Len(es[i]) : x = o[i - 1] + k
    <3>1. x \in 1..o[Len(es)]
      BY <1>5, <1>12
    <3>2. QED
      BY ONLY <1>6, <3>1, OffsetsCover
  <2>2. PICK k \in 1..Len(es[i]) : x = o[i - 1] + k
    BY <2>1
  <2>3. i \in 1..Len(rs) /\ k \in 1..Len(PathsOf(cat, rs[i])) /\ k \in 1..Len(ps[i])
    BY <1>5, <2>1, <2>2
  <2>4. entries[x] = es[i][k] /\ pairs[x] = ps[i][k]
    BY <1>9, <1>10, <2>2, <2>3
  <2>5. /\ entries[x] = [path |-> PathsOf(cat, rs[i])[k], upstream |-> given[i]]
        /\ pairs[x] = [path |-> PathsOf(cat, rs[i])[k], to |-> rs[i].settings]
    BY <1>5, <2>3, <2>4
  <2>6. groups'[given[i]].settings = rs[i].settings
    <3>1. groups'[given[i]] = GroupOf(rs[i])
      BY <1>2, <2>3
    <3>2. GroupOf(rs[i]).settings = rs[i].settings
      BY DEF GroupOf
    <3>3. QED
      BY <3>1, <3>2
  <2>7. QED
    BY <2>5, <2>6
<1>15. PairsOf(groups', entries) = pairs
  <2>1. pairs = [x \in 1..n |-> pairs[x]]
    BY <1>10, <1>12, LenProperties
  <2>2. PairsOf(groups', entries) =
            [x \in 1..n |-> [path |-> entries[x].path, to |-> groups'[entries[x].upstream].settings]]
    BY <1>13 DEF PairsOf
  <2>3. QED
    BY <1>14, <2>1, <2>2
<1>16. PairsOf(groups', rulesets') = FlattenSeq(PairsOfRules(cat, rs))
  BY <1>4b, <1>8, <1>11, <1>15
<1>17. QED
  BY <1>11, <1>16, RoutesAre


---------------------------------------------------------------------------
(* What the user does with the rules *)

\* A list without the entry at a place, and with another one there.
LEMMA RemoveAtOK ==
    ASSUME NEW V, NEW s \in Seq(V), NEW i \in 1..Len(s)
    PROVE  RemoveAt(s, i) \in Seq(V) /\ Len(RemoveAt(s, i)) = Len(s) - 1
<1>1. PICK n, a, b : n = Len(s) /\ a = SubSeq(s, 1, i - 1) /\ b = SubSeq(s, i + 1, n)
  OBVIOUS
<1>2. n \in Nat /\ i \in 1..n
  BY <1>1
<1>3. a \in Seq(V) /\ Len(a) = i - 1
  BY <1>1, <1>2, SubSeqProperties
<1>4. b \in Seq(V) /\ Len(b) = n - i
  BY <1>1, <1>2, SubSeqProperties
<1>5. a \o b \in Seq(V) /\ Len(a \o b) = Len(a) + Len(b)
  BY <1>3, <1>4, ConcatProperties
<1>6. RemoveAt(s, i) = a \o b
  BY <1>1 DEF RemoveAt
<1>7. (i - 1) + (n - i) = n - 1
  BY <1>2
<1>8. Len(RemoveAt(s, i)) = n - 1
  BY ONLY <1>3, <1>4, <1>5, <1>6, <1>7
<1>9. QED
  BY ONLY <1>1, <1>5, <1>6, <1>8

\* A list with another entry at a place.
LEMMA ReplacedOK ==
    ASSUME NEW V, NEW s \in Seq(V), NEW i \in 1..Len(s), NEW v \in V
    PROVE  [s EXCEPT ![i] = v] \in Seq(V)
<1>1. Len(s) \in Nat /\ s \in [1..Len(s) -> V]
  BY LenProperties
<1>2. [s EXCEPT ![i] = v] \in [1..Len(s) -> V]
  BY <1>1
<1>3. QED
  BY <1>1, <1>2, IsList

\* The names a rule ticks can be any list of names.
LEMMA TickedAnew ==
    ASSUME NEW rule \in Rule, NEW names \in Seq(Word)
    PROVE  [rule EXCEPT !.rulesets = names] \in Rule
<1>1. rule = [rulesets |-> rule.rulesets, settings |-> rule.settings, subnet |-> rule.subnet]
      /\ rule.settings \in Settings /\ rule.subnet \in Ecs
  BY DEF Rule
<1>2. [rule EXCEPT !.rulesets = names] =
          [rulesets |-> names, settings |-> rule.settings, subnet |-> rule.subnet]
  BY <1>1
<1>3. QED
  BY <1>1, <1>2 DEF Rule

\* Filters leave lists of the same kind.
LEMMA FilteredOK ==
    ASSUME NEW V, NEW s \in Seq(V), NEW S
    PROVE  Only(s, S) \in Seq(V) /\ Without(s, S) \in Seq(V) /\ FirstOnes(s) \in Seq(V)
<1>1. PICK n : n = Len(s)
  OBVIOUS
<1>2. n \in Nat /\ DOMAIN s = 1..n /\ \A i \in 1..n : s[i] \in V
  BY <1>1, LenProperties
<1>3. PICK I, J, K : /\ I = {i \in DOMAIN s : s[i] \in S}
                     /\ J = {i \in DOMAIN s : s[i] \notin S}
                     /\ K = {i \in DOMAIN s : \A j \in DOMAIN s : j < i => s[j] # s[i]}
  OBVIOUS
<1>4. I \in SUBSET (1..n) /\ J \in SUBSET (1..n) /\ K \in SUBSET (1..n)
  BY <1>2, <1>3
<1>5. \A i \in I \cup J \cup K : s[i] \in V
  BY <1>2, <1>4
<1>6. At(s, I) \in Seq(V)
  BY <1>2, <1>4, <1>5, AtIsList
<1>7. At(s, J) \in Seq(V)
  BY <1>2, <1>4, <1>5, AtIsList
<1>8. At(s, K) \in Seq(V)
  BY <1>2, <1>4, <1>5, AtIsList
<1>9. QED
  BY <1>3, <1>6, <1>7, <1>8 DEF Only, Without, FirstOnes, FirstAmong

\* Every edit in the rules tab makes a catalog and rules and commits them.
Committed(cat, rs) == cat \in Seq(Item) /\ rs \in Seq(Rule) /\ Commit(cat, rs)

\* Whatever is edited in the tab, all of its catalog and rules is committed.
LEMMA EditCommits ==
    ASSUME catalog \in Seq(Item), rules \in Seq(Rule), RulesEdit
    PROVE  Committed(catalog', rules')
<1> DEFINE Good == \E cat \in Seq(Item), rs \in Seq(Rule) : Commit(cat, rs)
<1>1. /\ Len(catalog) \in Nat /\ DOMAIN catalog = 1..Len(catalog)
      /\ \A i \in 1..Len(catalog) : catalog[i] \in Item
  BY LenProperties
<1>2. /\ Len(rules) \in Nat /\ DOMAIN rules = 1..Len(rules)
      /\ \A i \in 1..Len(rules) : rules[i] \in Rule
  BY LenProperties
<1>3. \A i \in 1..Len(catalog), name \in Word :
          [catalog EXCEPT ![i].name = name] \in Seq(Item)
  <2> SUFFICES ASSUME NEW i \in 1..Len(catalog), NEW name \in Word
               PROVE  [catalog EXCEPT ![i].name = name] \in Seq(Item)
    OBVIOUS
  <2>1. catalog[i] \in Item
    BY <1>1
  <2>2. [name |-> name, path |-> catalog[i].path] \in Item
    BY <2>1 DEF Item
  <2>3. [catalog[i] EXCEPT !.name = name] = [name |-> name, path |-> catalog[i].path]
    BY <2>1 DEF Item
  <2>4. [catalog EXCEPT ![i] = [catalog[i] EXCEPT !.name = name]] \in Seq(Item)
    BY <2>2, <2>3, ReplacedOK
  <2>5. QED
    BY <2>4
<1>4. \A i \in 1..Len(catalog), path \in Path \cup {Null} :
          [catalog EXCEPT ![i].path = path] \in Seq(Item)
  <2> SUFFICES ASSUME NEW i \in 1..Len(catalog), NEW path \in Path \cup {Null}
               PROVE  [catalog EXCEPT ![i].path = path] \in Seq(Item)
    OBVIOUS
  <2>1. catalog[i] \in Item
    BY <1>1
  <2>2. [name |-> catalog[i].name, path |-> path] \in Item
    BY <2>1 DEF Item
  <2>3. [catalog[i] EXCEPT !.path = path] = [name |-> catalog[i].name, path |-> path]
    BY <2>1 DEF Item
  <2>4. [catalog EXCEPT ![i] = [catalog[i] EXCEPT !.path = path]] \in Seq(Item)
    BY <2>2, <2>3, ReplacedOK
  <2>5. QED
    BY <2>4
<1>5. \A i \in 1..Len(rules), names \in Seq(Word) :
          [rules EXCEPT ![i].rulesets = names] \in Seq(Rule)
  <2> SUFFICES ASSUME NEW i \in 1..Len(rules), NEW names \in Seq(Word)
               PROVE  [rules EXCEPT ![i].rulesets = names] \in Seq(Rule)
    OBVIOUS
  <2>1. [rules[i] EXCEPT !.rulesets = names] \in Rule
    BY <1>2, TickedAnew
  <2>2. [rules EXCEPT ![i] = [rules[i] EXCEPT !.rulesets = names]] \in Seq(Rule)
    BY <2>1, ReplacedOK
  <2>3. QED
    BY <2>2
<1>6. ASSUME NEW f, \A r \in 1..Len(rules) : f[r] \in Seq(Word)
      PROVE  [r \in DOMAIN rules |-> [rules[r] EXCEPT !.rulesets = f[r]]] \in Seq(Rule)
  <2>1. PICK n : n = Len(rules)
    OBVIOUS
  <2>2. \A r \in 1..n : [rules[r] EXCEPT !.rulesets = f[r]] \in Rule
    BY <1>2, <1>6, <2>1, TickedAnew
  <2>3. [r \in 1..n |-> [rules[r] EXCEPT !.rulesets = f[r]]] \in [1..n -> Rule]
    BY <2>2
  <2>4. [r \in 1..n |-> [rules[r] EXCEPT !.rulesets = f[r]]] \in Seq(Rule)
    BY <1>2, <2>1, <2>3, IsList
  <2>5. QED
    BY <1>2, <2>1, <2>4
<1>7. ASSUME NEW name \in Name, NEW path \in Typed, AddCatalogEntry(name, path) PROVE Good
  <2>1. [name |-> name, path |-> path] \in Item
    BY Words, PathAssumption DEF Item
  <2>2. Append(catalog, [name |-> name, path |-> path]) \in Seq(Item)
    BY <2>1, AppendProperties
  <2>3. QED
    BY <1>7, <2>2 DEF AddCatalogEntry
<1>8. ASSUME NEW i \in DOMAIN catalog, NEW name \in Name, EditName(i, name) PROVE Good
  <2>1. name \in Word /\ i \in 1..Len(catalog)
    BY <1>1, Words
  <2>2. [catalog EXCEPT ![i].name = name] \in Seq(Item)
    BY <1>3, <2>1
  <2>3. \A r \in 1..Len(rules) : ReplaceAll(rules[r].rulesets, catalog[i].name, name) \in Seq(Word)
    <3> SUFFICES ASSUME NEW r \in 1..Len(rules)
                 PROVE  ReplaceAll(rules[r].rulesets, catalog[i].name, name) \in Seq(Word)
      OBVIOUS
    <3>1. PICK names, n : names = rules[r].rulesets /\ n = Len(names)
      OBVIOUS
    <3>2. names \in Seq(Word)
      BY <1>2, <3>1 DEF Rule
    <3>3. n \in Nat /\ \A k \in 1..n : names[k] \in Word
      BY <3>1, <3>2, LenProperties
    <3>4. [k \in 1..n |-> IF names[k] = catalog[i].name THEN name ELSE names[k]] \in [1..n -> Word]
      BY <2>1, <3>3
    <3>5. [k \in 1..n |-> IF names[k] = catalog[i].name THEN name ELSE names[k]] \in Seq(Word)
      BY <3>3, <3>4, IsList
    <3>6. QED
      BY <3>1, <3>5 DEF ReplaceAll
  <2>4. PICK f : f = [r \in 1..Len(rules) |-> ReplaceAll(rules[r].rulesets, catalog[i].name, name)]
    OBVIOUS
  <2>4a. \A r \in 1..Len(rules) : f[r] \in Seq(Word)
    BY <2>3, <2>4
  <2>5. [r \in DOMAIN rules |-> [rules[r] EXCEPT !.rulesets = f[r]]] \in Seq(Rule)
    BY ONLY <1>6, <2>4a
  <2>6. [r \in DOMAIN rules |-> [rules[r] EXCEPT !.rulesets = f[r]]] =
        [r \in DOMAIN rules |->
            [rules[r] EXCEPT !.rulesets = ReplaceAll(@, catalog[i].name, name)]]
    BY <1>2, <2>4
  <2>7. QED
    BY <1>8, <2>2, <2>5, <2>6 DEF EditName
<1>9. ASSUME NEW i \in DOMAIN catalog, NEW path \in Typed \cup {Null}, EditPath(i, path) PROVE Good
  <2>1. [catalog EXCEPT ![i].path = path] \in Seq(Item)
    BY <1>1, <1>4, PathAssumption
  <2>2. QED
    BY <1>9, <2>1 DEF EditPath
<1>10. ASSUME NEW i \in DOMAIN catalog, RemoveCatalogEntry(i) PROVE Good
  <2>1. RemoveAt(catalog, i) \in Seq(Item)
    BY <1>1, RemoveAtOK
  <2>2. PICK S : S = {catalog[i].name}
    OBVIOUS
  <2>3. \A r \in 1..Len(rules) : Without(rules[r].rulesets, S) \in Seq(Word)
    <3> SUFFICES ASSUME NEW r \in 1..Len(rules) PROVE Without(rules[r].rulesets, S) \in Seq(Word)
      OBVIOUS
    <3>1. rules[r].rulesets \in Seq(Word)
      BY <1>2 DEF Rule
    <3>2. QED
      BY <3>1, FilteredOK
  <2>4. PICK f : f = [r \in 1..Len(rules) |-> Without(rules[r].rulesets, S)]
    OBVIOUS
  <2>4a. \A r \in 1..Len(rules) : f[r] \in Seq(Word)
    BY <2>3, <2>4
  <2>5. [r \in DOMAIN rules |-> [rules[r] EXCEPT !.rulesets = f[r]]] \in Seq(Rule)
    BY ONLY <1>6, <2>4a
  <2>6. [r \in DOMAIN rules |-> [rules[r] EXCEPT !.rulesets = f[r]]] =
        [r \in DOMAIN rules |-> [rules[r] EXCEPT !.rulesets = Without(@, {catalog[i].name})]]
    BY <1>2, <2>2, <2>4
  <2>7. QED
    BY <1>10, <2>1, <2>5, <2>6 DEF RemoveCatalogEntry
<1>11. ASSUME AddRule PROVE Good
  <2>1. <<>> \in Seq(Word)
    BY EmptySeq
  <2>2. EmptyRule \in Rule
    BY <2>1, SettingsAssumption DEF EmptyRule, Rule, Ecs
  <2>3. Append(rules, EmptyRule) \in Seq(Rule)
    BY <2>2, AppendProperties
  <2>4. QED
    BY <1>11, <2>3 DEF AddRule
<1>12. ASSUME NEW i \in DOMAIN rules, NEW name \in Names(catalog), ToggleRuleset(i, name) PROVE Good
  <2>1. name \in Word
    BY <1>1 DEF Names, Item
  <2>2. PICK once : once = FirstOnes(rules[i].rulesets)
    OBVIOUS
  <2>3. once \in Seq(Word)
    <3>1. rules[i].rulesets \in Seq(Word)
      BY <1>2 DEF Rule
    <3>2. QED
      BY <2>2, <3>1, FilteredOK
  <2>4. Without(once, {name}) \in Seq(Word)
    BY <2>3, FilteredOK
  <2>5. Append(once, name) \in Seq(Word)
    BY <2>1, <2>3, AppendProperties
  <2>6. PICK names : names = IF Contains(once, name) THEN Without(once, {name}) ELSE Append(once, name)
    OBVIOUS
  <2>7. names \in Seq(Word)
    BY <2>4, <2>5, <2>6
  <2>8. [rules EXCEPT ![i].rulesets = names] \in Seq(Rule)
    BY <1>2, <1>5, <2>7
  <2>9. Commit(catalog, [rules EXCEPT ![i].rulesets = names])
    BY <1>12, <2>2, <2>6 DEF ToggleRuleset
  <2>10. QED
    BY <2>8, <2>9
<1>13. ASSUME NEW i \in DOMAIN rules, NEW s \in Settings, EditSettings(i, s) PROVE Good
  <2>1. rules[i] \in Rule
    BY <1>2
  <2>2. [rulesets |-> rules[i].rulesets, settings |-> s, subnet |-> rules[i].subnet] \in Rule
    BY <2>1 DEF Rule
  <2>3. [rules[i] EXCEPT !.settings = s] =
            [rulesets |-> rules[i].rulesets, settings |-> s, subnet |-> rules[i].subnet]
    <3>1. PICK rule : rule = rules[i]
      OBVIOUS
    <3>2. rule = [rulesets |-> rule.rulesets, settings |-> rule.settings, subnet |-> rule.subnet]
      BY <2>1, <3>1 DEF Rule
    <3>3. [rule EXCEPT !.settings = s] = [rulesets |-> rule.rulesets, settings |-> s, subnet |-> rule.subnet]
      BY <3>2
    <3>4. QED
      BY <3>1, <3>3
  <2>4. [rules EXCEPT ![i] = [rules[i] EXCEPT !.settings = s]] \in Seq(Rule)
    BY <1>2, <2>2, <2>3, ReplacedOK
  <2>5. [rules EXCEPT ![i].settings = s] \in Seq(Rule)
    BY <2>4
  <2>6. QED
    BY <1>13, <2>5 DEF EditSettings
<1>14. ASSUME NEW i \in DOMAIN rules, NEW s \in Ecs, EditSubnet(i, s) PROVE Good
  <2>1. rules[i] \in Rule
    BY <1>2
  <2>2. [rulesets |-> rules[i].rulesets, settings |-> rules[i].settings, subnet |-> s] \in Rule
    BY <2>1 DEF Rule
  <2>3. [rules[i] EXCEPT !.subnet = s] =
            [rulesets |-> rules[i].rulesets, settings |-> rules[i].settings, subnet |-> s]
    <3>1. PICK rule : rule = rules[i]
      OBVIOUS
    <3>2. rule = [rulesets |-> rule.rulesets, settings |-> rule.settings, subnet |-> rule.subnet]
      BY <2>1, <3>1 DEF Rule
    <3>3. [rule EXCEPT !.subnet = s] = [rulesets |-> rule.rulesets, settings |-> rule.settings, subnet |-> s]
      BY <3>2
    <3>4. QED
      BY <3>1, <3>3
  <2>4. [rules EXCEPT ![i] = [rules[i] EXCEPT !.subnet = s]] \in Seq(Rule)
    BY <1>2, <2>2, <2>3, ReplacedOK
  <2>5. [rules EXCEPT ![i].subnet = s] \in Seq(Rule)
    BY <2>4
  <2>6. QED
    BY <1>14, <2>5 DEF EditSubnet
<1>15. ASSUME NEW i \in DOMAIN rules, RemoveRule(i) PROVE Good
  <2>1. RemoveAt(rules, i) \in Seq(Rule)
    BY <1>2, RemoveAtOK
  <2>2. QED
    BY <1>15, <2>1 DEF RemoveRule
<1>16. ASSUME NEW i \in DOMAIN rules, NEW j \in DOMAIN rules, MoveRule(i, j) PROVE Good
  <2>1. [rules EXCEPT ![i] = rules[j], ![j] = rules[i]] \in [1..Len(rules) -> Rule]
    BY <1>2, LenProperties
  <2>2. [rules EXCEPT ![i] = rules[j], ![j] = rules[i]] \in Seq(Rule)
    BY <1>2, <2>1, IsList
  <2>3. QED
    BY <1>16, <2>2 DEF MoveRule
<1>17. Good
  BY <1>7, <1>8, <1>9, <1>10, <1>11, <1>12, <1>13, <1>14, <1>15, <1>16 DEF RulesEdit
<1>18. PICK cat \in Seq(Item), rs \in Seq(Rule) : Commit(cat, rs)
  BY <1>17
<1>19. catalog' = cat /\ rules' = rs
  BY <1>18 DEF Commit
<1>20. QED
  BY <1>18, <1>19 DEF Committed

---------------------------------------------------------------------------
(* Rows of names *)

\* An object has every key once.
RowsOK(rows) ==
    /\ rows \in Seq(Row)
    /\ \A i, j \in 1..Len(rows) : rows[i].key = rows[j].key => i = j

Differ(s) == \A i, j \in 1..Len(s) : s[i] = s[j] => i = j

\* What differs in the list differs in a part of it.
LEMMA AtDiffer ==
    ASSUME NEW n \in Nat, NEW I \in SUBSET (1..n), NEW s, NEW V,
           \A i \in I : s[i] \in V, \A i, j \in I : s[i] = s[j] => i = j
    PROVE  Differ(At(s, I))
<1>1. PICK c, p : Enumerates(p, c, I)
  BY Enumerated
<1>2. /\ c \in Nat /\ p \in [1..c -> I] /\ \A k, l \in 1..c : k < l => p[k] < p[l]
  BY <1>1 DEF Enumerates
<1>3. PICK t : t = At(s, I)
  OBVIOUS
<1>4. t = [k \in 1..c |-> s[p[k]]]
  BY <1>1, <1>3, AtIs
<1>5. t \in [1..c -> V]
  BY <1>2, <1>4
<1>6. Len(t) = c
  BY <1>2, <1>5, IsList
<1>7. ASSUME NEW k \in 1..c, NEW l \in 1..c, t[k] = t[l] PROVE k = l
  <2>1. p[k] \in I /\ p[l] \in I /\ s[p[k]] = s[p[l]]
    BY <1>2, <1>4, <1>7
  <2>2. p[k] = p[l]
    BY <2>1
  <2>3. p[k] \in Nat
    <3>1. I \subseteq Nat
      OBVIOUS
    <3>2. QED
      BY <2>1, <3>1
  <2>4. ~(k < l) /\ ~(l < k)
    <3>1. k < l => p[k] < p[l]
      BY <1>2
    <3>2. l < k => p[l] < p[k]
      BY <1>2
    <3>3. QED
      BY <2>2, <2>3, <3>1, <3>2
  <2>5. QED
    BY <1>2, <2>4
<1>8. QED
  BY <1>3, <1>6, <1>7 DEF Differ

\* What filters leave of a list.
LEMMA FilteredIs ==
    ASSUME NEW V, NEW s \in Seq(V), NEW S
    PROVE  /\ ToSet(Only(s, S)) = ToSet(s) \cap S
           /\ ToSet(Without(s, S)) = ToSet(s) \ S
           /\ Differ(s) => Differ(Only(s, S)) /\ Differ(Without(s, S))
<1>1. PICK n : n = Len(s)
  OBVIOUS
<1>2. n \in Nat /\ DOMAIN s = 1..n /\ \A i \in 1..n : s[i] \in V
  BY <1>1, LenProperties
<1>3. PICK I : I = {i \in DOMAIN s : s[i] \in S}
  OBVIOUS
<1>4. PICK J : J = {i \in DOMAIN s : s[i] \notin S}
  OBVIOUS
<1>5. I \in SUBSET (1..n) /\ J \in SUBSET (1..n)
  BY <1>2, <1>3, <1>4
<1>6. (\A i \in I : s[i] \in V) /\ (\A i \in J : s[i] \in V)
  BY <1>2, <1>5
<1>7. ToSet(At(s, I)) = {s[i] : i \in I}
  BY <1>2, <1>5, <1>6, AtIsList
<1>8. ToSet(At(s, J)) = {s[i] : i \in J}
  BY <1>2, <1>5, <1>6, AtIsList
<1>9. ToSet(s) = {s[i] : i \in 1..n}
  BY <1>2 DEF ToSet
<1>10. ToSet(At(s, I)) = ToSet(s) \cap S
  BY <1>2, <1>3, <1>7, <1>9
<1>11. ToSet(At(s, J)) = ToSet(s) \ S
  BY <1>2, <1>4, <1>8, <1>9
<1>12. ASSUME Differ(s) PROVE Differ(At(s, I)) /\ Differ(At(s, J))
  <2>1. \A i, j \in 1..n : s[i] = s[j] => i = j
    BY <1>1, <1>12 DEF Differ
  <2>2. Differ(At(s, I))
    <3>1. \A i, j \in I : s[i] = s[j] => i = j
      BY <1>5, <2>1
    <3>2. QED
      BY <1>2, <1>5, <1>6, <3>1, AtDiffer
  <2>3. Differ(At(s, J))
    <3>1. \A i, j \in J : s[i] = s[j] => i = j
      BY <1>5, <2>1
    <3>2. QED
      BY <1>2, <1>5, <1>6, <3>1, AtDiffer
  <2>4. QED
    BY <2>2, <2>3
<1>13. QED
  BY <1>3, <1>4, <1>10, <1>11, <1>12 DEF Only, Without

\* The first ones are all there is, each once.
LEMMA FirstOnesAre ==
    ASSUME NEW V, NEW s \in Seq(V)
    PROVE  /\ ToSet(FirstOnes(s)) = ToSet(s)
           /\ Differ(FirstOnes(s))
<1>1. PICK n : n = Len(s)
  OBVIOUS
<1>2. n \in Nat /\ DOMAIN s = 1..n /\ \A i \in 1..n : s[i] \in V
  BY <1>1, LenProperties
<1>3. PICK K : K = {i \in DOMAIN s : \A j \in DOMAIN s : j < i => s[j] # s[i]}
  OBVIOUS
<1>4. K \in SUBSET (1..n) /\ \A i \in K : s[i] \in V
  BY <1>2, <1>3
<1>5. FirstOnes(s) = At(s, K)
  BY <1>3 DEF FirstOnes, FirstAmong
<1>6. ToSet(At(s, K)) = {s[i] : i \in K}
  BY <1>2, <1>4, AtIsList
<1>7. ASSUME NEW i \in 1..n PROVE \E k \in K : s[k] = s[i]
  <2>1. PICK S : S = {j \in 1..n : s[j] = s[i]}
    OBVIOUS
  <2>2. S \in SUBSET Nat /\ S # {}
    <3>1. i \in S
      BY <2>1
    <3>2. \A j \in S : j \in Nat
      BY <1>2, <2>1
    <3>3. QED
      BY <3>1, <3>2
  <2>3. PICK k : k = MinOf(S)
    OBVIOUS
  <2>4. k \in S /\ \A j \in S : k <= j
    BY <2>2, <2>3, LeastOf
  <2>5. k \in 1..n /\ s[k] = s[i]
    BY <2>1, <2>4
  <2>6. \A j \in 1..n : j < k => s[j] # s[k]
    BY <1>2, <2>1, <2>4, <2>5
  <2>7. QED
    BY <1>2, <1>3, <2>5, <2>6
<1>8. ToSet(s) = {s[i] : i \in 1..n}
  BY <1>2 DEF ToSet
<1>9. ToSet(At(s, K)) = ToSet(s)
  BY <1>4, <1>6, <1>7, <1>8
<1>10. \A i, j \in K : s[i] = s[j] => i = j
  <2> SUFFICES ASSUME NEW i \in K, NEW j \in K, s[i] = s[j] PROVE i = j
    OBVIOUS
  <2>1. i \in 1..n /\ j \in 1..n /\ ~(i < j) /\ ~(j < i)
    BY <1>2, <1>3
  <2>2. QED
    BY <1>2, <2>1
<1>11. Differ(At(s, K))
  BY <1>2, <1>4, <1>10, AtDiffer
<1>12. QED
  BY <1>5, <1>9, <1>11

\* A list without repetitions consists of its first ones.
LEMMA FirstOnesOfDiffer ==
    ASSUME NEW V, NEW s \in Seq(V), Differ(s)
    PROVE  FirstOnes(s) = s
<1>1. Len(s) \in Nat /\ DOMAIN s = 1..Len(s)
  BY LenProperties
<1>2. {i \in DOMAIN s : \A j \in DOMAIN s : j < i => s[j] # s[i]} = 1..Len(s)
  BY <1>1 DEF Differ
<1>3. At(s, 1..Len(s)) = s
  BY AtAll
<1>4. QED
  BY <1>1, <1>2, <1>3 DEF FirstOnes, FirstAmong

\* Two lists that share nothing, one behind the other.
LEMMA BothDiffer ==
    ASSUME NEW V, NEW s \in Seq(V), NEW t \in Seq(V), Differ(s), Differ(t),
           ToSet(s) \cap ToSet(t) = {}
    PROVE  /\ s \o t \in Seq(V)
           /\ Differ(s \o t)
           /\ ToSet(s \o t) = ToSet(s) \cup ToSet(t)
<1>1. PICK m, n : m = Len(s) /\ n = Len(t)
  OBVIOUS
<1>2. /\ m \in Nat /\ DOMAIN s = 1..m
      /\ n \in Nat /\ DOMAIN t = 1..n
  BY <1>1, LenProperties
<1>3. PICK u : u = s \o t
  OBVIOUS
<1>4. /\ u \in Seq(V) /\ Len(u) = m + n
      /\ \A i \in 1..m + n : u[i] = IF i <= m THEN s[i] ELSE t[i - m]
  BY <1>1, <1>3, ConcatProperties
<1>5. DOMAIN u = 1..m + n
  BY <1>4, LenProperties
<1>6. \A i \in 1..m : i \in 1..m + n /\ u[i] = s[i]
  BY <1>2, <1>4
<1>7. \A i \in 1..n : m + i \in 1..m + n /\ u[m + i] = t[i]
  <2> SUFFICES ASSUME NEW i \in 1..n PROVE m + i \in 1..m + n /\ u[m + i] = t[i]
    OBVIOUS
  <2>1. m + i \in 1..m + n /\ ~(m + i <= m) /\ (m + i) - m = i
    BY <1>2
  <2>2. QED
    BY <1>4, <2>1
<1>8. \A i \in 1..m + n : i \in 1..m \/ \E k \in 1..n : i = m + k
  <2> SUFFICES ASSUME NEW i \in 1..m + n, i \notin 1..m PROVE \E k \in 1..n : i = m + k
    OBVIOUS
  <2>1. i - m \in 1..n /\ i = m + (i - m)
    BY <1>2
  <2>2. QED
    BY <2>1
<1>9. /\ ToSet(s) = {s[i] : i \in 1..m} /\ ToSet(t) = {t[i] : i \in 1..n}
      /\ ToSet(u) = {u[i] : i \in 1..m + n}
  BY <1>2, <1>5 DEF ToSet
<1>10. ToSet(u) = ToSet(s) \cup ToSet(t)
  BY <1>6, <1>7, <1>8, <1>9
<1>11. \A i \in 1..m, k \in 1..n : s[i] # t[k]
  BY <1>9
<1>12. ASSUME NEW i \in 1..m + n, NEW j \in 1..m + n, u[i] = u[j] PROVE i = j
  <2>1. CASE i \in 1..m /\ j \in 1..m
    BY <1>1, <1>6, <1>12, <2>1 DEF Differ
  <2>2. CASE i \in 1..m /\ j \notin 1..m
    <3>1. PICK l \in 1..n : j = m + l
      BY <1>8, <2>2
    <3>2. QED
      BY <1>6, <1>7, <1>11, <1>12, <2>2, <3>1
  <2>3. CASE i \notin 1..m /\ j \in 1..m
    <3>1. PICK l \in 1..n : i = m + l
      BY <1>8, <2>3
    <3>2. QED
      BY <1>6, <1>7, <1>11, <1>12, <2>3, <3>1
  <2>4. CASE i \notin 1..m /\ j \notin 1..m
    <3>1. PICK k \in 1..n : i = m + k
      BY <1>8, <2>4
    <3>2. PICK l \in 1..n : j = m + l
      BY <1>8, <2>4
    <3>3. t[k] = t[l]
      BY <1>7, <1>12, <3>1, <3>2
    <3>4. k = l
      BY <1>1, <3>3 DEF Differ
    <3>5. QED
      BY <3>1, <3>2, <3>4
  <2>5. QED
    BY <2>1, <2>2, <2>3, <2>4
<1>13. Differ(u)
  BY <1>4, <1>12 DEF Differ
<1>14. QED
  BY <1>3, <1>4, <1>10, <1>13

\* The keys of an object in its order.
KeysOf(rows) ==
    LET order == FirstOnes([i \in DOMAIN rows |-> rows[i].key])
    IN Only(Index, ToSet(order)) \o Without(order, ToSet(Index))

\* The keys of an object are those of the rows it was made of, each once.
LEMMA KeysOfAre ==
    ASSUME NEW rows \in Seq(Row)
    PROVE  KeysOf(rows) \in Seq(Key) /\ Differ(KeysOf(rows)) /\ ToSet(KeysOf(rows)) = Keys(rows)
<1>1. PICK n : n = Len(rows)
  OBVIOUS
<1>2. n \in Nat /\ DOMAIN rows = 1..n /\ \A i \in 1..n : rows[i] \in Row
  BY <1>1, LenProperties
<1>3. PICK keys : keys = [i \in DOMAIN rows |-> rows[i].key]
  OBVIOUS
<1>4. keys = [i \in 1..n |-> rows[i].key]
  BY <1>2, <1>3
<1>5. keys \in [1..n -> Key]
  BY <1>2, <1>4 DEF Row
<1>6. keys \in Seq(Key)
  BY <1>2, <1>5, IsList
<1>7. ToSet(keys) = Keys(rows)
  BY <1>2, <1>4 DEF ToSet, Keys
<1>8. PICK order : order = FirstOnes(keys)
  OBVIOUS
<1>9. order \in Seq(Key)
  BY <1>6, <1>8, FilteredOK
<1>10. ToSet(order) = Keys(rows) /\ Differ(order)
  BY <1>6, <1>7, <1>8, FirstOnesAre
<1>11. Index \in Seq(Key) /\ Differ(Index)
  <2>1. Index \in Seq(Key \ {NoKey})
    BY KeyAssumption
  <2>2. Index \in Seq(Key)
    <3>1. (Key \ {NoKey}) \subseteq Key
      OBVIOUS
    <3>2. PICK K : K = Key \ {NoKey}
      OBVIOUS
    <3>3. Index \in Seq(K) /\ K \subseteq Key
      BY <2>1, <3>1, <3>2
    <3>4. QED
      BY <3>3, SeqMonotonic
  <2>3. DOMAIN Index = 1..Len(Index)
    BY <2>2, LenProperties
  <2>4. QED
    BY <2>2, <2>3, KeyAssumption DEF IsInjective, Differ
<1>12. PICK K, I : K = ToSet(order) /\ I = ToSet(Index)
  OBVIOUS
<1>13. PICK s : s = Only(Index, K)
  OBVIOUS
<1>14. PICK t : t = Without(order, I)
  OBVIOUS
<1>15. s \in Seq(Key)
  BY <1>11, <1>13, FilteredOK
<1>16. t \in Seq(Key)
  BY <1>9, <1>14, FilteredOK
<1>17. ToSet(s) = I \cap K /\ Differ(s)
  BY <1>11, <1>12, <1>13, FilteredIs
<1>18. ToSet(t) = K \ I /\ Differ(t)
  BY <1>9, <1>10, <1>12, <1>14, FilteredIs
<1>19. ToSet(s) \cap ToSet(t) = {}
  BY <1>17, <1>18
<1>20. /\ s \o t \in Seq(Key) /\ Differ(s \o t)
       /\ ToSet(s \o t) = ToSet(s) \cup ToSet(t)
  BY <1>15, <1>16, <1>17, <1>18, <1>19, BothDiffer
<1>21. ToSet(s) \cup ToSet(t) = Keys(rows)
  BY <1>10, <1>12, <1>17, <1>18
<1>22. KeysOf(rows) = s \o t
  BY <1>3, <1>8, <1>12, <1>13, <1>14 DEF KeysOf
<1>23. QED
  BY <1>20, <1>21, <1>22

\* An object made of rows has every key once, with the value of its last row.
LEMMA FromEntriesOK ==
    ASSUME NEW rows \in Seq(Row)
    PROVE  /\ RowsOK(FromEntries(rows))
           /\ Len(FromEntries(rows)) = Len(KeysOf(rows))
           /\ \A i \in 1..Len(KeysOf(rows)) :
                  /\ FromEntries(rows)[i].key = KeysOf(rows)[i]
                  /\ \E j \in 1..Len(rows) :
                         /\ rows[j].key = KeysOf(rows)[i]
                         /\ FromEntries(rows)[i].value = rows[j].value
                         /\ \A l \in 1..Len(rows) : rows[l].key = KeysOf(rows)[i] => l <= j
<1>1. PICK n : n = Len(rows)
  OBVIOUS
<1>2. n \in Nat /\ DOMAIN rows = 1..n /\ \A i \in 1..n : rows[i] \in Row
  BY <1>1, LenProperties
<1>3. PICK keys : keys = KeysOf(rows)
  OBVIOUS
<1>4. keys \in Seq(Key) /\ Differ(keys) /\ ToSet(keys) = Keys(rows)
  BY <1>3, KeysOfAre
<1>5. PICK m : m = Len(keys)
  OBVIOUS
<1>6. m \in Nat /\ DOMAIN keys = 1..m /\ \A i \in 1..m : keys[i] \in Key
  BY <1>4, <1>5, LenProperties
<1>7. PICK new : new = FromEntries(rows)
  OBVIOUS
<1>8. new = [i \in DOMAIN keys |->
                [key |-> keys[i],
                 value |-> rows[MaxOf({j \in DOMAIN rows : rows[j].key = keys[i]})].value]]
  BY <1>3, <1>7 DEF FromEntries, KeysOf
<1>9. ASSUME NEW i \in 1..m
      PROVE  \E j \in 1..n : /\ rows[j].key = keys[i]
                             /\ new[i] = [key |-> keys[i], value |-> rows[j].value]
                             /\ \A l \in 1..n : rows[l].key = keys[i] => l <= j
  <2>1. PICK S : S = {j \in DOMAIN rows : rows[j].key = keys[i]}
    OBVIOUS
  <2>2. keys[i] \in Keys(rows)
    BY <1>4, <1>6 DEF ToSet
  <2>3. S \in SUBSET (1..n) /\ S # {}
    BY <1>2, <2>1, <2>2 DEF Keys
  <2>4. PICK j : j = MaxOf(S)
    OBVIOUS
  <2>5. j \in S /\ \A l \in S : l <= j
    BY <1>2, <2>3, <2>4, GreatestOf
  <2>6. new[i] = [key |-> keys[i], value |-> rows[j].value]
    BY <1>6, <1>8, <2>1, <2>4
  <2>7. QED
    BY <1>2, <2>1, <2>5, <2>6
<1>10. \A i \in 1..m : new[i] \in Row /\ new[i].key = keys[i]
  <2> SUFFICES ASSUME NEW i \in 1..m PROVE new[i] \in Row /\ new[i].key = keys[i]
    OBVIOUS
  <2>1. PICK j \in 1..n : new[i] = [key |-> keys[i], value |-> rows[j].value]
    BY <1>9
  <2>2. rows[j].value \in Ip \cup {NoIp}
    BY <1>2 DEF Row
  <2>3. QED
    BY <1>6, <2>1, <2>2 DEF Row
<1>11. new \in [1..m -> Row]
  BY <1>6, <1>8, <1>10
<1>12. new \in Seq(Row) /\ Len(new) = m
  BY <1>6, <1>11, IsList
<1>13. \A i, j \in 1..m : new[i].key = new[j].key => i = j
  BY <1>4, <1>5, <1>10 DEF Differ
<1>14. RowsOK(new)
  BY <1>12, <1>13 DEF RowsOK
<1>15. \A i \in 1..m :
           /\ new[i].key = keys[i]
           /\ \E j \in 1..n : /\ rows[j].key = keys[i]
                              /\ new[i].value = rows[j].value
                              /\ \A l \in 1..n : rows[l].key = keys[i] => l <= j
  <2> SUFFICES ASSUME NEW i \in 1..m
               PROVE  \E j \in 1..n : /\ rows[j].key = keys[i]
                                      /\ new[i].value = rows[j].value
                                      /\ \A l \in 1..n : rows[l].key = keys[i] => l <= j
    BY <1>10
  <2>1. PICK j \in 1..n : /\ rows[j].key = keys[i]
                          /\ new[i] = [key |-> keys[i], value |-> rows[j].value]
                          /\ \A l \in 1..n : rows[l].key = keys[i] => l <= j
    BY <1>9
  <2>2. new[i].value = rows[j].value
    BY <2>1
  <2>3. QED
    BY <2>1, <2>2
<1>16. QED
  BY <1>1, <1>3, <1>5, <1>7, <1>12, <1>14, <1>15

\* An object that was made of rows.
Made(obj) == \E rows \in Seq(Row) : obj = FromEntries(rows)

\* The page makes an object of the server's names.
LEMMA FromServerOK ==
    ASSUME NEW rows \in Seq(Row)
    PROVE  RowsOK(FromServer(rows)) /\ Made(FromServer(rows))
<1>1. DOMAIN rows = 1..Len(rows) /\ \A i \in 1..Len(rows) : rows[i] \in Row
  BY LenProperties
<1>2. PICK K : K = Keys(rows)
  OBVIOUS
<1>3. PICK keys : keys = Only(Sorted, K)
  OBVIOUS
<1>4. Sorted \in Seq(Key)
  BY KeyAssumption
<1>5. keys \in Seq(Key)
  BY <1>3, <1>4, FilteredOK
<1>6. ToSet(keys) = ToSet(Sorted) \cap K
  BY <1>3, <1>4, FilteredIs
<1>7. PICK n : n = Len(keys)
  OBVIOUS
<1>8. n \in Nat /\ DOMAIN keys = 1..n
  BY <1>5, <1>7, LenProperties
<1>9. \A i \in 1..n : keys[i] \in K
  BY <1>6, <1>8 DEF ToSet
<1>10. PICK new : new = [i \in DOMAIN keys |-> CHOOSE row \in ToSet(rows) : row.key = keys[i]]
  OBVIOUS
<1>11. \A i \in 1..n : new[i] \in Row
  <2> SUFFICES ASSUME NEW i \in 1..n PROVE new[i] \in Row
    OBVIOUS
  <2>1. PICK j \in 1..Len(rows) : rows[j].key = keys[i]
    BY <1>1, <1>2, <1>9 DEF Keys
  <2>2. rows[j] \in ToSet(rows)
    BY <1>1, <2>1 DEF ToSet
  <2>3. new[i] \in ToSet(rows)
    BY <1>8, <1>10, <2>1, <2>2
  <2>4. QED
    BY <1>1, <2>3 DEF ToSet
<1>12. new \in [1..n -> Row]
  BY <1>8, <1>10, <1>11
<1>13. new \in Seq(Row)
  BY <1>8, <1>12, IsList
<1>14. FromServer(rows) = FromEntries(new)
  BY <1>2, <1>3, <1>10 DEF FromServer
<1>15. QED
  BY <1>13, <1>14, FromEntriesOK DEF Made

---------------------------------------------------------------------------
(* Every step keeps the form of what there is *)

TypeInv ==
    /\ GroupsTyped(groups) /\ GroupsTyped(server.groups)
    /\ \A n \in DOMAIN server.groups : server.groups[n].kebab = Null
    /\ rulesets \in Seq(EntriesOf(groups))
    /\ server.rulesets \in Seq(EntriesOf(server.groups))
    /\ catalog \in Seq(Item) /\ rules \in Seq(Rule)
    /\ RowsOK(hosts) /\ RowsOK(server.hosts)
    /\ dirty \in BOOLEAN /\ tab \in Tabs /\ edits \in 0..MaxEdits

\* What fromBackend shows of groups and entries.
NameAt(cat, entries) ==
    [i \in DOMAIN entries |->
        cat[CHOOSE c \in DOMAIN cat : cat[c].path = entries[i].path].name]
RuleAt(grps, cat, entries) ==
    [i \in DOMAIN entries |->
        LET known == entries[i].upstream \in DOMAIN grps
        IN [rulesets |-> FirstAmong(NameAt(cat, entries), Run(entries, i)),
            settings |-> IF known THEN grps[entries[i].upstream].settings ELSE Blank,
            subnet   |-> IF known THEN grps[entries[i].upstream].kebab ELSE Null]]

\* What fromBackend makes of groups and entries.
LEMMA FromBackendIs ==
    ASSUME NEW grps, NEW entries
    PROVE  FromBackend(grps, entries) =
               [catalog |-> CatalogOf(entries),
                rules |-> At(RuleAt(grps, CatalogOf(entries), entries), Starts(entries))]
BY DEF FromBackend, RuleAt, NameAt

\* The name of an entry is that of its path in the catalog.
LEMMA NameAtIs ==
    ASSUME NEW grps, NEW entries \in Seq(EntriesOf(grps)), NEW cat, cat = CatalogOf(entries),
           NEW i \in 1..Len(entries)
    PROVE  /\ NameAt(cat, entries)[i] \in Word
           /\ \E c \in 1..Len(cat) : /\ cat[c].path = entries[i].path
                                     /\ cat[c].name = NameAt(cat, entries)[i]
<1>1. PICK U : U = DOMAIN grps
  OBVIOUS
<1>2. entries \in Seq([path : Path, upstream : U])
  BY <1>1 DEF EntriesOf
<1>3. cat \in Catalogs /\ Paths(cat) = {entries[k].path : k \in 1..Len(entries)}
  BY <1>2, CatalogOfEntries
<1>4. DOMAIN cat = 1..Len(cat) /\ \A c \in 1..Len(cat) : cat[c] \in [name : Word, path : Path]
  BY <1>3, LenProperties DEF Catalogs
<1>5. \E c \in 1..Len(cat) : cat[c].path = entries[i].path
  <2>1. entries[i].path \in Paths(cat)
    BY <1>3
  <2>2. QED
    BY <1>4, <2>1 DEF Paths
<1>6. PICK c : c = CHOOSE k \in 1..Len(cat) : cat[k].path = entries[i].path
  OBVIOUS
<1>7. c \in 1..Len(cat) /\ cat[c].path = entries[i].path
  BY <1>5, <1>6
<1>8. DOMAIN entries = 1..Len(entries)
  BY <1>2, LenProperties
<1>9. NameAt(cat, entries)[i] = cat[c].name
  BY <1>4, <1>6, <1>8 DEF NameAt
<1>10. QED
  BY <1>4, <1>7, <1>9

\* The catalog and the rules of a mounted tab have their form.
LEMMA FromBackendOK ==
    ASSUME NEW grps, GroupsTyped(grps), NEW entries \in Seq(EntriesOf(grps))
    PROVE  /\ FromBackend(grps, entries).catalog \in Seq(Item)
           /\ FromBackend(grps, entries).rules \in Seq(Rule)
           /\ \A i \in 1..Len(entries) :
                  RuleAt(grps, CatalogOf(entries), entries)[i] \in Rule
<1>1. PICK cat, n : cat = CatalogOf(entries) /\ n = Len(entries)
  OBVIOUS
<1>2. cat \in Seq(Item)
  <2>1. PICK U : U = DOMAIN grps
    OBVIOUS
  <2>2. entries \in Seq([path : Path, upstream : U])
    BY <2>1 DEF EntriesOf
  <2>3. cat \in Catalogs
    BY <1>1, <2>2, CatalogOfEntries
  <2>4. [name : Word, path : Path] \subseteq Item
    BY DEF Item
  <2>5. QED
    BY <2>3, <2>4, SeqMonotonic DEF Catalogs
<1>3. n \in Nat /\ DOMAIN entries = 1..n /\ \A i \in 1..n : entries[i] \in EntriesOf(grps)
  BY <1>1, LenProperties
<1>4. PICK named : named = NameAt(cat, entries)
  OBVIOUS
<1>5. \A i \in 1..n : named[i] \in Word
  BY <1>1, <1>4, NameAtIs
<1>6. ASSUME NEW i \in 1..n PROVE RuleAt(grps, cat, entries)[i] \in Rule
  <2>1. PICK I : I = {j \in Run(entries, i) : \A k \in Run(entries, i) : k < j => named[k] # named[j]}
    OBVIOUS
  <2>2. I \in SUBSET (1..n)
    BY <1>3, <2>1 DEF Run
  <2>3. At(named, I) \in Seq(Word)
    BY <1>3, <1>5, <2>2, AtIsList
  <2>4. FirstAmong(named, Run(entries, i)) = At(named, I)
    BY <2>1 DEF FirstAmong
  <2>5. PICK g : g = grps[entries[i].upstream]
    OBVIOUS
  <2>6. entries[i].upstream \in DOMAIN grps
    BY <1>3 DEF EntriesOf
  <2>7. g \in Group
    BY <2>5, <2>6 DEF GroupsTyped
  <2>8. RuleAt(grps, cat, entries)[i] =
            [rulesets |-> At(named, I), settings |-> g.settings, subnet |-> g.kebab]
    BY <1>3, <1>4, <2>4, <2>5, <2>6 DEF RuleAt
  <2>9. QED
    BY <2>3, <2>7, <2>8 DEF Rule, Group
<1>7. PICK I, r : I = Starts(entries) /\ r = RuleAt(grps, cat, entries)
  OBVIOUS
<1>8. I \in SUBSET (1..n)
  BY <1>3, <1>7 DEF Starts
<1>9. \A i \in I : r[i] \in Rule
  BY <1>6, <1>7, <1>8
<1>10. At(r, I) \in Seq(Rule)
  BY <1>3, <1>8, <1>9, AtIsList
<1>11. FromBackend(grps, entries) = [catalog |-> cat, rules |-> At(r, I)]
  BY <1>1, <1>7, FromBackendIs
<1>12. QED
  BY <1>1, <1>2, <1>6, <1>10, <1>11

\* The loaded page has the form of what the server has read.
LEMMA InitTyped ==
    ASSUME Init PROVE TypeInv
<1>1. PICK c : c = server
  OBVIOUS
<1>2. /\ Default \in DOMAIN c.groups
      /\ c.groups \in [DOMAIN c.groups -> [settings : Settings \ Refused, kebab : {Null}, snake : Ecs]]
      /\ c.rulesets \in Seq([path : Path, upstream : DOMAIN c.groups])
      /\ c.hosts \in Seq([key : Key, value : Ip])
      /\ \A i, j \in DOMAIN c.hosts : c.hosts[i].key = c.hosts[j].key => i = j
  BY <1>1, FilesAssumption DEF Init
<1>3. [settings : Settings \ Refused, kebab : {Null}, snake : Ecs] \subseteq Group
  BY DEF Group, Ecs
<1>4. GroupsTyped(c.groups) /\ \A n \in DOMAIN c.groups : c.groups[n].kebab = Null
  BY <1>2, <1>3 DEF GroupsTyped
<1>5. c.rulesets \in Seq(EntriesOf(c.groups))
  BY <1>2 DEF EntriesOf
<1>6. RowsOK(c.hosts)
  <2>1. PICK h, R : h = c.hosts /\ R = [key : Key, value : Ip]
    OBVIOUS
  <2>2. h \in Seq(R) /\ R \subseteq Row
    BY <1>2, <2>1 DEF Row
  <2>3. h \in Seq(Row)
    BY <2>2, SeqMonotonic
  <2>4. DOMAIN h = 1..Len(h)
    BY <2>3, LenProperties
  <2>5. QED
    BY <1>2, <2>1, <2>3, <2>4 DEF RowsOK
<1>7. RowsOK(FromServer(c.hosts))
  BY <1>6, FromServerOK DEF RowsOK
<1>8. <<>> \in Seq(Item) /\ <<>> \in Seq(Rule)
  BY EmptySeq
<1>9. 0 \in 0..MaxEdits
  BY BoundsAssumption
<1>10. QED
  BY <1>1, <1>4, <1>5, <1>6, <1>7, <1>8, <1>9 DEF Init, TypeInv, Tabs

\* What Mount and Unmount show.
LEMMA ShownTyped ==
    ASSUME NEW grps, GroupsTyped(grps), NEW entries \in Seq(EntriesOf(grps)), NEW rulesTab,
           IF rulesTab THEN Mount(grps, entries) ELSE Unmount
    PROVE  catalog' \in Seq(Item) /\ rules' \in Seq(Rule)
<1>1. <<>> \in Seq(Item) /\ <<>> \in Seq(Rule)
  BY EmptySeq
<1>2. /\ FromBackend(grps, entries).catalog \in Seq(Item)
      /\ FromBackend(grps, entries).rules \in Seq(Rule)
  BY FromBackendOK
<1>3. QED
  BY <1>1, <1>2 DEF Mount, Unmount

\* An edit of the default group replaces it and no other.
LEMMA DefaultEdited ==
    ASSUME GroupsTyped(groups), BasicEdit
    PROVE  /\ GroupsTyped(groups') /\ DOMAIN groups' = DOMAIN groups
           /\ groups'[Default].snake = groups[Default].snake
           /\ UNCHANGED <<rulesets, catalog, rules, hosts>>
<1>1. PICK g : g = groups[Default]
  OBVIOUS
<1>2. g \in Group /\ g = [settings |-> g.settings, kebab |-> g.kebab, snake |-> g.snake]
  BY <1>1 DEF GroupsTyped, Group
<1>3. \E h \in Group : h.snake = g.snake /\ EditDefaultGroup(h)
  <2>1. ASSUME NEW s \in Settings, EditDefaultGroup([groups[Default] EXCEPT !.settings = s])
        PROVE  \E h \in Group : h.snake = g.snake /\ EditDefaultGroup(h)
    <3>1. [g EXCEPT !.settings = s] = [settings |-> s, kebab |-> g.kebab, snake |-> g.snake]
      BY <1>2
    <3>2. PICK h : h = [settings |-> s, kebab |-> g.kebab, snake |-> g.snake]
      OBVIOUS
    <3>3. h \in Group /\ h.snake = g.snake
      BY <1>2, <3>2 DEF Group
    <3>4. EditDefaultGroup(h)
      BY <1>1, <2>1, <3>1, <3>2
    <3>5. QED
      BY <3>3, <3>4
  <2>2. ASSUME NEW s \in Ecs, EditDefaultGroup([groups[Default] EXCEPT !.kebab = s])
        PROVE  \E h \in Group : h.snake = g.snake /\ EditDefaultGroup(h)
    <3>1. [g EXCEPT !.kebab = s] = [settings |-> g.settings, kebab |-> s, snake |-> g.snake]
      BY <1>2
    <3>2. PICK h : h = [settings |-> g.settings, kebab |-> s, snake |-> g.snake]
      OBVIOUS
    <3>3. h \in Group /\ h.snake = g.snake
      BY <1>2, <3>2 DEF Group
    <3>4. EditDefaultGroup(h)
      BY <1>1, <2>2, <3>1, <3>2
    <3>5. QED
      BY <3>3, <3>4
  <2>3. QED
    BY <2>1, <2>2 DEF BasicEdit
<1>4. PICK h \in Group : h.snake = g.snake /\ EditDefaultGroup(h)
  BY <1>3
<1>5. /\ groups' = [groups EXCEPT ![Default] = h]
      /\ UNCHANGED <<rulesets, catalog, rules, hosts>>
  BY <1>4 DEF EditDefaultGroup
<1>6. groups'[Default] = h /\ DOMAIN groups' = DOMAIN groups
  BY <1>5 DEF GroupsTyped
<1>7. groups' \in [DOMAIN groups -> Group]
  BY <1>4, <1>5 DEF GroupsTyped
<1>8. QED
  BY <1>1, <1>4, <1>5, <1>6, <1>7 DEF GroupsTyped

\* An edit in the tab of host names makes an object of rows.
LEMMA HostsEdited ==
    ASSUME RowsOK(hosts), HostsEdit
    PROVE  RowsOK(hosts') /\ Made(hosts')
<1>1. /\ Len(hosts) \in Nat /\ DOMAIN hosts = 1..Len(hosts)
      /\ \A i \in 1..Len(hosts) : hosts[i] \in Row
      /\ hosts \in Seq(Row)
  BY LenProperties DEF RowsOK
<1>2. \A i \in 1..Len(hosts) : hosts[i] = [key |-> hosts[i].key, value |-> hosts[i].value]
                               /\ hosts[i].key \in Key /\ hosts[i].value \in Ip \cup {NoIp}
  BY <1>1 DEF Row
<1>3. ASSUME NEW i \in DOMAIN hosts, NEW key \in Key, SetKey(i, key) PROVE RowsOK(hosts') /\ Made(hosts')
  <2>1. PICK row : row = hosts[i]
    OBVIOUS
  <2>2. row = [key |-> row.key, value |-> row.value] /\ row.value \in Ip \cup {NoIp}
    BY <1>1, <1>2, <2>1
  <2>3. [row EXCEPT !.key = key] = [key |-> key, value |-> row.value]
    BY <2>2
  <2>4. [key |-> key, value |-> row.value] \in Row
    BY <2>2 DEF Row
  <2>5. [hosts EXCEPT ![i] = [row EXCEPT !.key = key]] \in Seq(Row)
    BY <1>1, <2>3, <2>4, ReplacedOK
  <2>6. [hosts EXCEPT ![i].key = key] \in Seq(Row)
    BY <2>1, <2>5
  <2>7. QED
    BY <1>3, <2>6, FromEntriesOK DEF SetKey, Made
<1>4. ASSUME NEW i \in DOMAIN hosts, NEW value \in Ip \cup {NoIp}, SetValue(i, value)
      PROVE  RowsOK(hosts') /\ Made(hosts')
  <2>1. PICK row : row = hosts[i]
    OBVIOUS
  <2>2. row = [key |-> row.key, value |-> row.value] /\ row.key \in Key
    BY <1>1, <1>2, <2>1
  <2>3. [row EXCEPT !.value = value] = [key |-> row.key, value |-> value]
    BY <2>2
  <2>4. [key |-> row.key, value |-> value] \in Row
    BY <2>2 DEF Row
  <2>5. [hosts EXCEPT ![i] = [row EXCEPT !.value = value]] \in Seq(Row)
    BY <1>1, <2>3, <2>4, ReplacedOK
  <2>6. [hosts EXCEPT ![i].value = value] \in Seq(Row)
    BY <2>1, <2>5
  <2>7. QED
    BY <1>4, <2>6, FromEntriesOK DEF SetValue, Made
<1>5. ASSUME NEW i \in DOMAIN hosts, RemoveRow(i) PROVE RowsOK(hosts') /\ Made(hosts')
  <2>1. RemoveAt(hosts, i) \in Seq(Row)
    BY <1>1, RemoveAtOK
  <2>2. QED
    BY <1>5, <2>1, FromEntriesOK DEF RemoveRow, Made
<1>6. ASSUME AddRow PROVE RowsOK(hosts') /\ Made(hosts')
  <2>1. [key |-> NoKey, value |-> NoIp] \in Row
    BY KeyAssumption DEF Row
  <2>2. Append(hosts, [key |-> NoKey, value |-> NoIp]) \in Seq(Row)
    BY <1>1, <2>1, AppendProperties
  <2>3. QED
    BY <1>6, <2>2, FromEntriesOK DEF AddRow, Made
<1>7. QED
  BY <1>3, <1>4, <1>5, <1>6 DEF HostsEdit

\* The server takes from a draft what it can parse.
LEMMA ParsedOK ==
    ASSUME GroupsTyped(groups)
    PROVE  /\ GroupsTyped(Parsed(groups)) /\ DOMAIN Parsed(groups) = DOMAIN groups
           /\ \A n \in DOMAIN groups :
                  /\ Parsed(groups)[n].settings = groups[n].settings
                  /\ Parsed(groups)[n].kebab = Null
                  /\ Parsed(groups)[n].snake = groups[n].snake
<1>1. ASSUME NEW n \in DOMAIN groups
      PROVE  Parsed(groups)[n] =
                 [settings |-> groups[n].settings, kebab |-> Null, snake |-> groups[n].snake]
             /\ Parsed(groups)[n] \in Group
  <2>1. PICK g : g = groups[n]
    OBVIOUS
  <2>2. /\ g = [settings |-> g.settings, kebab |-> g.kebab, snake |-> g.snake]
        /\ g.settings \in Settings /\ g.snake \in Ecs
    BY <2>1 DEF GroupsTyped, Group
  <2>3. [g EXCEPT !.kebab = Null] = [settings |-> g.settings, kebab |-> Null, snake |-> g.snake]
    BY <2>2
  <2>4. Parsed(groups)[n] = [g EXCEPT !.kebab = Null]
    BY <2>1 DEF Parsed
  <2>5. [settings |-> g.settings, kebab |-> Null, snake |-> g.snake] \in Group
    BY <2>2 DEF Group, Ecs
  <2>6. QED
    BY <2>1, <2>3, <2>4, <2>5
<1>2. DOMAIN Parsed(groups) = DOMAIN groups
  BY DEF Parsed
<1>3. Parsed(groups) = [n \in DOMAIN groups |-> Parsed(groups)[n]]
  BY DEF Parsed
<1>4. Parsed(groups) \in [DOMAIN groups -> Group]
  BY <1>1, <1>3
<1>5. QED
  BY <1>1, <1>2, <1>4 DEF GroupsTyped

\* A configuration is loaded.
LEMMA LoadTyped ==
    ASSUME NEW config, Load(config), GroupsTyped(config.groups),
           config.rulesets \in Seq(EntriesOf(config.groups)), RowsOK(config.hosts)
    PROVE  /\ GroupsTyped(groups') /\ rulesets' \in Seq(EntriesOf(groups'))
           /\ catalog' \in Seq(Item) /\ rules' \in Seq(Rule) /\ RowsOK(hosts')
           /\ dirty' = FALSE
<1>1. groups' = config.groups /\ rulesets' = config.rulesets
  BY DEF Load
<1>2. catalog' \in Seq(Item) /\ rules' \in Seq(Rule)
  <2>1. IF tab = "rules" THEN Mount(config.groups, config.rulesets) ELSE Unmount
    BY DEF Load
  <2>2. QED
    BY <2>1, ShownTyped
<1>3. RowsOK(hosts')
  BY FromServerOK DEF Load, RowsOK
<1>4. QED
  BY <1>1, <1>2, <1>3 DEF Load

\* No step, of whichever tab, of a save or a load, disturbs the form.
LEMMA StepTyped ==
    ASSUME TypeInv, [Next]_vars
    PROVE  TypeInv'
<1> USE DEF TypeInv
<1>1. CASE UNCHANGED vars
  <2>1. /\ UNCHANGED <<groups, rulesets, catalog, rules, hosts>>
        /\ UNCHANGED <<server, dirty, tab, edits>>
    BY <1>1 DEF vars
  <2>2. GroupsTyped(groups') /\ GroupsTyped(server'.groups)
    BY <2>1
  <2>3. rulesets' \in Seq(EntriesOf(groups')) /\ server'.rulesets \in Seq(EntriesOf(server'.groups))
    BY <2>1
  <2>4. QED
    BY <2>1, <2>2, <2>3
<1>2. ASSUME NEW t \in Tabs, OpenTab(t) PROVE TypeInv'
  <2>1. /\ UNCHANGED <<groups, rulesets, hosts, server, dirty, edits>> /\ tab' = t
        /\ IF t = "rules" THEN Mount(groups, rulesets) ELSE Unmount
    BY <1>2 DEF OpenTab
  <2>2. catalog' \in Seq(Item) /\ rules' \in Seq(Rule)
    BY <2>1, ShownTyped
  <2>3. GroupsTyped(groups') /\ GroupsTyped(server'.groups)
    BY <2>1
  <2>4. rulesets' \in Seq(EntriesOf(groups')) /\ server'.rulesets \in Seq(EntriesOf(server'.groups))
    BY <2>1
  <2>5. QED
    BY <2>1, <2>2, <2>3, <2>4
<1>3. ASSUME Edited, GroupsTyped(groups'), rulesets' \in Seq(EntriesOf(groups')),
             catalog' \in Seq(Item), rules' \in Seq(Rule), RowsOK(hosts')
      PROVE  TypeInv'
  <2>1. UNCHANGED <<server, tab>> /\ dirty' = TRUE
    BY <1>3 DEF Edited
  <2>2. edits' \in 0..MaxEdits
    BY <1>3, BoundsAssumption DEF Edited
  <2>3. GroupsTyped(server'.groups) /\ server'.rulesets \in Seq(EntriesOf(server'.groups))
    BY <2>1
  <2>4. QED
    BY <1>3, <2>1, <2>2, <2>3
<1>4. ASSUME EditBasicTab PROVE TypeInv'
  <2>1. BasicEdit /\ Edited
    BY <1>4 DEF EditBasicTab
  <2>2. /\ GroupsTyped(groups') /\ DOMAIN groups' = DOMAIN groups
        /\ UNCHANGED <<rulesets, catalog, rules, hosts>>
    BY <2>1, DefaultEdited
  <2>3. EntriesOf(groups') = EntriesOf(groups)
    BY <2>2 DEF EntriesOf
  <2>4. rulesets' \in Seq(EntriesOf(groups'))
    BY <2>2, <2>3
  <2>5. catalog' \in Seq(Item) /\ rules' \in Seq(Rule) /\ RowsOK(hosts')
    BY <2>2
  <2>6. QED
    BY <1>3, <2>1, <2>2, <2>4, <2>5
<1>5. ASSUME EditRulesTab PROVE TypeInv'
  <2>1. RulesEdit /\ Edited /\ UNCHANGED hosts
    BY <1>5 DEF EditRulesTab
  <2>2. Committed(catalog', rules')
    BY <2>1, EditCommits
  <2>3. catalog' \in Seq(Item) /\ rules' \in Seq(Rule) /\ CommitToConfig(catalog', rules')
    BY <2>2 DEF Committed, Commit
  <2>4. PICK cat, rs : cat = catalog' /\ rs = rules'
    OBVIOUS
  <2>5. cat \in Seq(Item) /\ rs \in Seq(Rule) /\ CommitToConfig(cat, rs)
    BY <2>3, <2>4
  <2>6. PICK given : given = GroupNames(rs)
    OBVIOUS
  <2>7. GroupsTyped(groups')
    BY <2>5, <2>6, CommitOK
  <2>8. rulesets' \in Seq(EntriesOf(groups'))
    BY <2>5, CommitRoutes
  <2>9. RowsOK(hosts')
    BY <2>1
  <2>10. QED
    BY <1>3, <2>1, <2>3, <2>7, <2>8, <2>9
<1>6. ASSUME EditHostsTab PROVE TypeInv'
  <2>1. HostsEdit /\ Edited /\ UNCHANGED <<groups, rulesets, catalog, rules>>
    BY <1>6 DEF EditHostsTab, tabVars
  <2>2. RowsOK(hosts')
    BY <2>1, HostsEdited
  <2>3. GroupsTyped(groups') /\ rulesets' \in Seq(EntriesOf(groups'))
    BY <2>1
  <2>4. QED
    BY <1>3, <2>1, <2>2, <2>3
<1>7. ASSUME Save PROVE TypeInv'
  <2>1. PICK new : new = server'
    OBVIOUS
  <2>2. new = [groups |-> Parsed(groups), rulesets |-> rulesets, hosts |-> hosts] /\ Load(new)
    BY <1>7, <2>1 DEF Save
  <2>3. GroupsTyped(new.groups) /\ \A n \in DOMAIN new.groups : new.groups[n].kebab = Null
    BY <2>2, ParsedOK
  <2>4. new.rulesets \in Seq(EntriesOf(new.groups))
    <3>1. EntriesOf(new.groups) = EntriesOf(groups)
      BY <2>2, ParsedOK DEF EntriesOf
    <3>2. QED
      BY <2>2, <3>1
  <2>5. RowsOK(new.hosts)
    BY <2>2
  <2>6. /\ GroupsTyped(groups') /\ rulesets' \in Seq(EntriesOf(groups'))
        /\ catalog' \in Seq(Item) /\ rules' \in Seq(Rule) /\ RowsOK(hosts')
        /\ dirty' = FALSE
    BY <2>2, <2>3, <2>4, <2>5, LoadTyped
  <2>7. UNCHANGED <<tab, edits>>
    BY <2>2 DEF Load
  <2>8. QED
    BY <2>1, <2>3, <2>4, <2>5, <2>6, <2>7
<1>8. ASSUME Cancel PROVE TypeInv'
  <2>1. UNCHANGED server /\ Load(server)
    BY <1>8 DEF Cancel
  <2>2. /\ GroupsTyped(groups') /\ rulesets' \in Seq(EntriesOf(groups'))
        /\ catalog' \in Seq(Item) /\ rules' \in Seq(Rule) /\ RowsOK(hosts')
        /\ dirty' = FALSE
    BY <2>1, LoadTyped
  <2>3. GroupsTyped(server'.groups) /\ server'.rulesets \in Seq(EntriesOf(server'.groups))
    BY <2>1
  <2>4. UNCHANGED <<tab, edits>>
    BY <2>1 DEF Load
  <2>5. QED
    BY <2>1, <2>2, <2>3, <2>4
<1>9. QED
  BY <1>1, <1>2, <1>4, <1>5, <1>6, <1>7, <1>8 DEF Next

\* So it is in every behaviour.
LEMMA TypeInvariance == Spec => []TypeInv
<1>1. Init => TypeInv
  BY InitTyped
<1>2. TypeInv /\ [Next]_vars => TypeInv'
  BY StepTyped
<1>3. QED
  BY <1>1, <1>2, PTL DEF Spec

\* Draft and server have the form the server demands, the lists of the tabs the
\* form the tabs expect (TypeOK), whatever is edited in whichever order.
THEOREM TypeCorrect == Spec => []TypeOK
<1>1. TypeInv => TypeOK
  <2> SUFFICES ASSUME TypeInv PROVE TypeOK
    OBVIOUS
  <2>1. \A grps \in {groups, server.groups} :
            Default \in DOMAIN grps /\ \A n \in DOMAIN grps : grps[n] \in Group
    BY DEF TypeInv, GroupsTyped
  <2>2. \A i \in DOMAIN catalog : catalog[i].path \in Path \cup {Null}
    <3>1. DOMAIN catalog = 1..Len(catalog) /\ \A i \in 1..Len(catalog) : catalog[i] \in Item
      BY LenProperties DEF TypeInv
    <3>2. QED
      BY <3>1 DEF Item
  <2>3. \A i \in DOMAIN rules : rules[i].settings \in Settings /\ rules[i].subnet \in Ecs
    <3>1. DOMAIN rules = 1..Len(rules) /\ \A i \in 1..Len(rules) : rules[i] \in Rule
      BY LenProperties DEF TypeInv
    <3>2. QED
      BY <3>1 DEF Rule
  <2>4. PICK n : n = Len(hosts)
    OBVIOUS
  <2>5. n \in Nat /\ DOMAIN hosts = 1..n /\ \A i \in 1..n : hosts[i] \in Row
    BY <2>4, LenProperties DEF TypeInv, RowsOK
  <2>6. Cardinality(Keys(hosts)) = n
    <3>1. PICK f : f = [i \in 1..n |-> hosts[i].key]
      OBVIOUS
    <3>2. PICK K : K = Keys(hosts)
      OBVIOUS
    <3>3. f \in [1..n -> K] /\ \A k \in K : \E i \in 1..n : f[i] = k
      BY <2>5, <3>1, <3>2 DEF Keys
    <3>4. \A i, j \in 1..n : f[i] = f[j] => i = j
      BY <2>4, <3>1 DEF TypeInv, RowsOK
    <3>5. f \in Bijection(1..n, K)
      BY <3>3, <3>4, Fun_IsBij
    <3>6. IsFiniteSet(1..n) /\ Cardinality(1..n) = n
      BY <2>5, FS_Interval
    <3>7. Cardinality(K) = n
      BY <3>5, <3>6, FS_Bijection DEF ExistsBijection
    <3>8. QED
      BY <3>2, <3>7
  <2>7. QED
    BY <2>1, <2>2, <2>3, <2>4, <2>5, <2>6 DEF TypeInv, TypeOK
<1>2. QED
  BY <1>1, TypeInvariance, PTL

---------------------------------------------------------------------------
(* The default group *)

\* The subnet of the configuration file is the one the draft has.
SnakeInv == groups[Default].snake = server.groups[Default].snake

\* What a step does to the default group.
LEMMA DefaultStep ==
    ASSUME TypeInv, SnakeInv, Next
    PROVE  /\ SnakeInv'
           /\ dirty' /\ tab # "basic" => groups'[Default] = groups[Default]
<1>1. GroupsTyped(groups) /\ Default \in DOMAIN groups
  BY DEF TypeInv, GroupsTyped
<1>2. ASSUME NEW t \in Tabs, OpenTab(t)
      PROVE  SnakeInv' /\ groups' = groups
  BY <1>2 DEF OpenTab, SnakeInv
<1>3. ASSUME EditBasicTab PROVE SnakeInv' /\ tab = "basic"
  <2>1. BasicEdit /\ UNCHANGED server
    BY <1>3 DEF EditBasicTab, Edited
  <2>2. groups'[Default].snake = groups[Default].snake
    BY <1>1, <2>1, DefaultEdited
  <2>3. QED
    BY <1>3, <2>1, <2>2 DEF SnakeInv, EditBasicTab
<1>4. ASSUME EditRulesTab PROVE SnakeInv' /\ groups'[Default] = groups[Default]
  <2>1. RulesEdit /\ UNCHANGED server /\ catalog \in Seq(Item) /\ rules \in Seq(Rule)
    BY <1>4 DEF EditRulesTab, Edited, TypeInv
  <2>2. Committed(catalog', rules')
    BY <2>1, EditCommits
  <2>3. PICK cat, rs : cat = catalog' /\ rs = rules'
    OBVIOUS
  <2>4. cat \in Seq(Item) /\ rs \in Seq(Rule) /\ CommitToConfig(cat, rs)
    BY <2>2, <2>3 DEF Committed, Commit
  <2>5. PICK given : given = GroupNames(rs)
    OBVIOUS
  <2>6. groups'[Default] = groups[Default]
    BY <1>1, <2>4, <2>5, CommitOK
  <2>7. QED
    BY <2>1, <2>6 DEF SnakeInv
<1>5. ASSUME EditHostsTab PROVE SnakeInv' /\ groups' = groups
  BY <1>5 DEF EditHostsTab, Edited, tabVars, SnakeInv
<1>6. ASSUME Save PROVE SnakeInv' /\ dirty' = FALSE
  <2>1. /\ server' = [groups |-> Parsed(groups), rulesets |-> rulesets, hosts |-> hosts]
        /\ groups' = server'.groups /\ dirty' = FALSE
    BY <1>6 DEF Save, Load
  <2>2. QED
    BY <2>1 DEF SnakeInv
<1>7. ASSUME Cancel PROVE SnakeInv' /\ dirty' = FALSE
  BY <1>7 DEF Cancel, Load, SnakeInv
<1>8. QED
  BY <1>2, <1>3, <1>4, <1>5, <1>6, <1>7 DEF Next

\* The server's client subnet stays in every behaviour.
LEMMA SnakeInvariance == Spec => []SnakeInv
<1>1. Init => SnakeInv
  BY DEF Init, SnakeInv
<1>2. TypeInv /\ SnakeInv /\ [Next]_vars => SnakeInv'
  <2>1. TypeInv /\ SnakeInv /\ Next => SnakeInv'
    BY DefaultStep
  <2>2. SnakeInv /\ UNCHANGED vars => SnakeInv'
    BY DEF SnakeInv, vars
  <2>3. QED
    BY <2>1, <2>2
<1>3. QED
  BY <1>1, <1>2, TypeInvariance, PTL DEF Spec

\* The default group is nobody's but the first tab's, and the subnet of the
\* configuration file stays in it through every edit and save (DefaultKept).
THEOREM DefaultStays == Spec => DefaultKept
<1>1. /\ TypeInv /\ SnakeInv /\ [Next]_vars
      => [dirty' => /\ tab # "basic" => groups'[Default] = groups[Default]
                    /\ groups'[Default].snake = server.groups[Default].snake]_vars
  <2> SUFFICES ASSUME TypeInv, SnakeInv, Next, dirty', vars' # vars
               PROVE  /\ tab # "basic" => groups'[Default] = groups[Default]
                      /\ groups'[Default].snake = server.groups[Default].snake
    OBVIOUS
  <2>1. tab # "basic" => groups'[Default] = groups[Default]
    BY DefaultStep
  <2>2. SnakeInv'
    BY DefaultStep
  <2>3. server' = server
    <3>1. ~Save
      BY DEF Save, Load
    <3>2. QED
      BY <3>1 DEF Next, OpenTab, EditBasicTab, EditRulesTab, EditHostsTab, Edited, Cancel
  <2>4. QED
    BY <2>1, <2>2, <2>3 DEF SnakeInv
<1>2. QED
  BY <1>1, TypeInvariance, SnakeInvariance, PTL DEF Spec, DefaultKept

---------------------------------------------------------------------------
(* What a rule keeps of the entries it was made of *)

\* Places in blocks, one block after the other, and all of them.
InBlocks(F, c) == \A k, l \in 1..c : k < l => \A i \in F[k], j \in F[l] : i < j
AnyOf(F, c, n) == {i \in 1..n : \E k \in 1..c : i \in F[k]}

\* ts has of s what is there at the places in the blocks.
InParts(ts, s, F, c, n, V) ==
    /\ c \in Nat /\ n \in Nat /\ F \in [1..c -> SUBSET (1..n)] /\ InBlocks(F, c)
    /\ \A i \in 1..n : s[i] \in V
    /\ ts \in [1..c -> Seq(V)] /\ \A k \in 1..c : ts[k] = At(s, F[k])

\* The blocks of a list one behind the other are the part with all their places.
LEMMA Blocks ==
    ASSUME NEW ts, NEW s, NEW F, NEW c, NEW n, NEW V, InParts(ts, s, F, c, n, V)
    PROVE  FlattenSeq(ts) = At(s, AnyOf(F, c, n))
<1>0a. /\ c \in Nat /\ n \in Nat /\ F \in [1..c -> SUBSET (1..n)] /\ InBlocks(F, c)
  BY DEF InParts
<1>0b. /\ \A i \in 1..n : s[i] \in V
       /\ ts \in [1..c -> Seq(V)] /\ \A k \in 1..c : ts[k] = At(s, F[k])
  BY DEF InParts
<1>0. PICK us, K : us = ts /\ K = AnyOf(F, c, n)
  OBVIOUS
<1> USE <1>0a
<1>1. \A k \in 1..c : \E p : \E d : Enumerates(p, d, F[k])
  <2> SUFFICES ASSUME NEW k \in 1..c PROVE \E p : \E d : Enumerates(p, d, F[k])
    OBVIOUS
  <2>1. PICK I : I = F[k]
    OBVIOUS
  <2>2. I \in SUBSET (1..n)
    BY <2>1
  <2>3. QED
    BY <2>1, <2>2, Enumerated
<1>2. PICK ps : ps = [k \in 1..c |-> CHOOSE p : \E d : Enumerates(p, d, F[k])]
  OBVIOUS
<1>3. \A k \in 1..c : \E d : Enumerates(ps[k], d, F[k])
  BY <1>1, <1>2
<1>4. ASSUME NEW k \in 1..c
      PROVE  ps[k] \in Seq(Nat) /\ Enumerates(ps[k], Len(ps[k]), F[k])
  <2>1. PICK p : p = ps[k]
    OBVIOUS
  <2>2. PICK d : Enumerates(p, d, F[k])
    BY <1>3, <2>1
  <2>3. d \in Nat /\ p \in [1..d -> Nat]
    BY <2>2 DEF Enumerates
  <2>4. p \in Seq(Nat) /\ Len(p) = d
    BY <2>3, IsList
  <2>5. QED
    BY <2>1, <2>2, <2>4
<1>5. ps \in Seq(Seq(Nat)) /\ Len(ps) = c
  <2>1. PICK W : W = Seq(Nat)
    OBVIOUS
  <2>2. \A k \in 1..c : ps[k] \in W
    BY <1>4, <2>1
  <2>3. ps \in [1..c -> W]
    BY <1>2, <2>2
  <2>4. ps \in Seq(W) /\ Len(ps) = c
    BY <2>3, IsList
  <2>5. QED
    BY <2>1, <2>4
<1>6. us \in [1..c -> Seq(V)] /\ \A k \in 1..c : us[k] = At(s, F[k])
  BY <1>0, <1>0b
<1>7. ASSUME NEW k \in 1..c
      PROVE  /\ us[k] \in Seq(V) /\ Len(us[k]) = Len(ps[k])
             /\ \A x \in 1..Len(ps[k]) : us[k][x] = s[ps[k][x]]
  <2>1. PICK p, d, I : p = ps[k] /\ d = Len(ps[k]) /\ I = F[k]
    OBVIOUS
  <2>2. Enumerates(p, d, I) /\ I \in SUBSET (1..n)
    BY <1>4, <2>1
  <2>3. d \in Nat /\ p \in [1..d -> I]
    BY <2>2 DEF Enumerates
  <2>4. PICK t : t = us[k]
    OBVIOUS
  <2>5. t = [x \in 1..d |-> s[p[x]]]
    BY <1>6, <2>1, <2>2, <2>4, AtIs
  <2>6. \A x \in 1..d : s[p[x]] \in V
    BY <1>0b, <2>2, <2>3
  <2>7. t \in [1..d -> V]
    BY <2>5, <2>6
  <2>8. t \in Seq(V) /\ Len(t) = d
    BY <2>3, <2>7, IsList
  <2>9. QED
    BY <2>1, <2>4, <2>5, <2>8
<1>8. us \in Seq(Seq(V)) /\ Len(us) = c
  <2>1. PICK W : W = Seq(V)
    OBVIOUS
  <2>2. us \in Seq(W) /\ Len(us) = c
    BY <1>6, <2>1, IsList
  <2>3. QED
    BY <2>1, <2>2
<1>9. PICK o : Offsets(o, ps)
  BY <1>5, OffsetsExist
<1>10. Offsets(o, us)
  BY <1>5, <1>7, <1>8, <1>9 DEF Offsets
<1>11. PICK q, u : q = FlattenSeq(ps) /\ u = FlattenSeq(us)
  OBVIOUS
<1>12. PICK d : d = o[c]
  OBVIOUS
<1>13. /\ q \in Seq(Nat) /\ Len(q) = d
       /\ \A i \in 1..c : \A k \in 1..Len(ps[i]) : q[o[i - 1] + k] = ps[i][k]
  <2>1. ps \in Seq(Seq(Nat))
    BY <1>5
  <2>2. /\ FlattenSeq(ps) \in Seq(Nat) /\ Len(FlattenSeq(ps)) = o[Len(ps)]
        /\ \A i \in 1..Len(ps) : \A k \in 1..Len(ps[i]) : FlattenSeq(ps)[o[i - 1] + k] = ps[i][k]
    BY ONLY <1>9, <2>1, Flattened
  <2>3. QED
    BY <1>5, <1>11, <1>12, <2>2
<1>14. /\ u \in Seq(V) /\ Len(u) = d
       /\ \A i \in 1..c : \A k \in 1..Len(us[i]) : u[o[i - 1] + k] = us[i][k]
  <2>1. us \in Seq(Seq(V))
    BY <1>8
  <2>2. /\ FlattenSeq(us) \in Seq(V) /\ Len(FlattenSeq(us)) = o[Len(us)]
        /\ \A i \in 1..Len(us) : \A k \in 1..Len(us[i]) : FlattenSeq(us)[o[i - 1] + k] = us[i][k]
    BY ONLY <1>10, <2>1, Flattened
  <2>3. QED
    BY <1>8, <1>11, <1>12, <2>2
<1>15. d \in Nat /\ DOMAIN q = 1..d
  BY <1>13, LenProperties
<1>16a. \A x \in 1..o[Len(ps)] : \E i \in 1..Len(ps) : \E k \in 1..Len(ps[i]) : x = o[i - 1] + k
  BY ONLY <1>9, OffsetsCover
<1>16b. /\ \A i \in 0..c : o[i] \in Nat
        /\ \A i \in 1..c : o[i] = o[i - 1] + Len(ps[i]) /\ Len(ps[i]) \in Nat
        /\ \A i, j \in 0..c : i <= j => o[i] <= o[j]
  <2>1. \A i \in 0..c : o[i] \in Nat
    BY <1>5, <1>9 DEF Offsets
  <2>2. \A i \in 1..c : o[i] = o[i - 1] + Len(ps[i]) /\ Len(ps[i]) \in Nat
    BY <1>4, <1>5, <1>9, LenProperties DEF Offsets
  <2>4. \A j \in 0..Len(ps), i \in 0..Len(ps) : i <= j => o[i] <= o[j]
    BY ONLY <1>9, OffsetsGrow
  <2>5. \A i, j \in 0..c : i <= j => o[i] <= o[j]
    BY <1>5, <2>4
  <2>6. QED
    BY ONLY <2>1, <2>2, <2>5
<1>16. ASSUME NEW x \in 1..d
       PROVE  \E i \in 1..c : \E k \in 1..Len(ps[i]) : x = o[i - 1] + k /\ q[x] = ps[i][k]
  <2>1. PICK i \in 1..Len(ps) : \E k \in 1..Len(ps[i]) : x = o[i - 1] + k
    <3>1. x \in 1..o[Len(ps)]
      BY <1>5, <1>12
    <3>2. QED
      BY ONLY <1>16a, <3>1
  <2>2. PICK k \in 1..Len(ps[i]) : x = o[i - 1] + k
    BY <2>1
  <2>3. QED
    BY <1>5, <1>13, <2>2
<1>17. \A i \in 1..c, k \in Nat : k \in 1..Len(ps[i]) => ps[i][k] \in F[i]
  BY <1>4 DEF Enumerates
<1>18. ASSUME NEW x \in 1..d
       PROVE  q[x] \in K /\ u[x] = s[q[x]]
  <2>1. PICK i \in 1..c : \E k \in 1..Len(ps[i]) : x = o[i - 1] + k /\ q[x] = ps[i][k]
    BY <1>16
  <2>2. PICK k \in 1..Len(ps[i]) : x = o[i - 1] + k /\ q[x] = ps[i][k]
    BY <2>1
  <2>3. q[x] \in F[i]
    BY <1>17, <2>2
  <2>4. u[x] = us[i][k] /\ us[i][k] = s[ps[i][k]]
    BY <1>7, <1>14, <2>2
  <2>5. q[x] \in 1..n
    BY <2>3
  <2>6. QED
    BY <1>0, <2>2, <2>3, <2>4, <2>5 DEF AnyOf
<1>19. ASSUME NEW x \in 1..d, NEW y \in 1..d, x < y
       PROVE  q[x] < q[y]
  <2>1. PICK i \in 1..c : \E k \in 1..Len(ps[i]) : x = o[i - 1] + k /\ q[x] = ps[i][k]
    BY <1>16
  <2>2. PICK k \in 1..Len(ps[i]) : x = o[i - 1] + k /\ q[x] = ps[i][k]
    BY <2>1
  <2>3. PICK j \in 1..c : \E l \in 1..Len(ps[j]) : y = o[j - 1] + l /\ q[y] = ps[j][l]
    BY <1>16
  <2>4. PICK l \in 1..Len(ps[j]) : y = o[j - 1] + l /\ q[y] = ps[j][l]
    BY <2>3
  <2>5. CASE i = j
    <3>1. k < l
      <4>1. PICK b : b = o[i - 1]
        OBVIOUS
      <4>2. i - 1 \in 0..c
        OBVIOUS
      <4>3. b \in Nat
        BY ONLY <1>16b, <4>1, <4>2
      <4>4. QED
        BY <2>2, <2>4, <2>5, <1>19, <4>1, <4>3
    <3>2. ps[i][k] < ps[i][l]
      BY <1>4, <2>4, <2>5, <3>1 DEF Enumerates
    <3>3. QED
      BY <2>2, <2>4, <2>5, <3>2
  <2>6. CASE i < j
    <3>1. q[x] \in F[i] /\ q[y] \in F[j]
      BY <1>17, <2>2, <2>4
    <3>2. QED
      BY <2>6, <3>1 DEF InBlocks
  <2>7. CASE j < i
    <3>1. j \in 0..c /\ i - 1 \in 0..c /\ j - 1 \in 0..c /\ j <= i - 1
      BY <2>7
    <3>2. o[j] <= o[i - 1]
      BY ONLY <1>16b, <3>1
    <3>3. PICK a, b, e, m : a = o[j] /\ b = o[i - 1] /\ e = o[j - 1] /\ m = Len(ps[j])
      OBVIOUS
    <3>4. a \in Nat /\ b \in Nat /\ e \in Nat
      BY ONLY <1>16b, <3>1, <3>3
    <3>5. a = e + m /\ m \in Nat
      BY <1>16b, <3>3
    <3>7. y = e + l /\ l \in 1..m /\ x = b + k /\ a <= b
      BY <2>2, <2>4, <3>2, <3>3
    <3>8. QED
      BY <1>19, <3>4, <3>5, <3>7
  <2>8. QED
    BY <2>5, <2>6, <2>7
<1>20. ASSUME NEW i \in K PROVE \E x \in 1..d : q[x] = i
  <2>1. PICK k \in 1..c : i \in F[k]
    BY <1>0 DEF AnyOf
  <2>2. PICK z \in 1..Len(ps[k]) : ps[k][z] = i
    BY <1>4, <2>1 DEF Enumerates
  <2>3. q[o[k - 1] + z] = i
    BY <1>13, <2>2
  <2>4. o[k - 1] + z \in 1..d
    <3>1. k \in 0..c /\ c \in 0..c /\ k <= c /\ k - 1 \in 0..c
      OBVIOUS
    <3>2. o[k] <= o[c]
      BY ONLY <1>16b, <3>1
    <3>3. PICK a, b, m : a = o[k] /\ b = o[k - 1] /\ m = Len(ps[k])
      OBVIOUS
    <3>4. a \in Nat /\ b \in Nat
      BY ONLY <1>16b, <3>1, <3>3
    <3>5. a = b + m /\ m \in Nat
      BY <1>16b, <3>3
    <3>7. a <= d /\ z \in 1..m
      BY <1>12, <2>2, <3>2, <3>3
    <3>8. b + z \in 1..d
      BY <1>15, <3>4, <3>5, <3>7
    <3>9. QED
      BY <3>3, <3>8
  <2>5. QED
    BY <2>3, <2>4
<1>21. Enumerates(q, d, K)
  <2>1. q = [x \in 1..d |-> q[x]]
    BY <1>13, LenProperties
  <2>2. q \in [1..d -> K]
    BY <1>18, <2>1
  <2>3. K \subseteq Nat
    BY <1>0 DEF AnyOf
  <2>4. QED
    BY <1>15, <1>19, <1>20, <2>2, <2>3 DEF Enumerates
<1>22. At(s, K) = [x \in 1..d |-> s[q[x]]]
  BY ONLY <1>21, AtIs
<1>23. u = [x \in 1..d |-> u[x]]
  BY <1>14, LenProperties
<1>24. QED
  BY <1>0, <1>11, <1>18, <1>22, <1>23

\* The first hits are among any places that have the first of every path.
FirstHitPlaces(pairs) == {i \in DOMAIN pairs : \A j \in 1..i - 1 : pairs[j].path # pairs[i].path}

\* A part of the pairs that has the first hits has the same ones.
LEMMA FirstHitsOfPart ==
    ASSUME NEW pairs \in Seq(Pair), NEW K \in SUBSET (1..Len(pairs)),
           FirstHitPlaces(pairs) \subseteq K
    PROVE  FirstHits(At(pairs, K)) = FirstHits(pairs)
<1>1. PICK n : n = Len(pairs)
  OBVIOUS
<1>2. n \in Nat /\ DOMAIN pairs = 1..n /\ K \in SUBSET (1..n) /\ \A i \in 1..n : pairs[i] \in Pair
  BY <1>1, LenProperties
<1>3. PICK d, q : Enumerates(q, d, K)
  BY <1>2, Enumerated
<1>4. /\ d \in Nat /\ q \in [1..d -> K]
      /\ \A k, l \in 1..d : k < l => q[k] < q[l]
      /\ \A i \in K : \E k \in 1..d : q[k] = i
  BY <1>3 DEF Enumerates
<1>5. PICK part : part = At(pairs, K)
  OBVIOUS
<1>6. part = [k \in 1..d |-> pairs[q[k]]]
  BY <1>3, <1>5, AtIs
<1>7. PICK J : J = FirstHitPlaces(part)
  OBVIOUS
<1>8. J = {k \in 1..d : \A l \in 1..k - 1 : part[l].path # part[k].path}
  BY <1>6, <1>7 DEF FirstHitPlaces
<1>9. PICK H : H = FirstHitPlaces(pairs)
  OBVIOUS
<1>10. H = {i \in 1..n : \A j \in 1..i - 1 : pairs[j].path # pairs[i].path} /\ H \subseteq K
  BY <1>2, <1>9 DEF FirstHitPlaces
<1>11. ASSUME NEW k \in J PROVE q[k] \in H
  <2>1. PICK i : i = q[k]
    OBVIOUS
  <2>2. k \in 1..d /\ i \in K /\ i \in 1..n
    BY <1>2, <1>4, <1>8, <2>1
  <2>3. SUFFICES ASSUME NEW j \in 1..i - 1, pairs[j].path = pairs[i].path PROVE FALSE
    BY <1>10, <2>1, <2>2
  <2>4. PICK S : S = {l \in 1..n : pairs[l].path = pairs[i].path}
    OBVIOUS
  <2>5. j \in S
    BY <1>2, <2>2, <2>3, <2>4
  <2>6. S \in SUBSET Nat /\ S # {}
    <3>1. \A l \in S : l \in Nat
      BY <2>4
    <3>2. QED
      BY <2>5, <3>1
  <2>7. PICK m : m = MinOf(S)
    OBVIOUS
  <2>8. m \in S /\ \A l \in S : m <= l
    BY <2>6, <2>7, LeastOf
  <2>9. m \in 1..n /\ m <= j /\ pairs[m].path = pairs[i].path
    BY <2>4, <2>5, <2>8
  <2>10. \A l \in 1..m - 1 : l \in 1..n /\ pairs[l].path # pairs[m].path
    <3> SUFFICES ASSUME NEW l \in 1..m - 1 PROVE l \in 1..n /\ pairs[l].path # pairs[m].path
      OBVIOUS
    <3>1. l \in 1..n /\ ~(m <= l)
      BY <1>2, <2>9
    <3>2. l \notin S
      BY <2>8, <3>1
    <3>3. QED
      BY <2>4, <2>9, <3>1, <3>2
  <2>11. m \in K
    BY <1>10, <2>9, <2>10
  <2>12. PICK l \in 1..d : q[l] = m
    BY <1>4, <2>11
  <2>13. l < k
    <3>1. m < i
      BY <2>2, <2>3, <2>9
    <3>2. ~(l = k) /\ ~(k < l)
      <4>1. k < l => i < m
        BY <1>4, <2>1, <2>2, <2>12
      <4>2. l = k => m = i
        BY <2>1, <2>12
      <4>3. QED
        BY <2>2, <2>9, <3>1, <4>1, <4>2
    <3>3. QED
      BY <1>4, <2>2, <2>12, <3>2
  <2>14. l \in 1..k - 1
    BY <1>4, <2>2, <2>12, <2>13
  <2>15. part[l].path # part[k].path
    BY <1>8, <2>14
  <2>16. part[l] = pairs[m] /\ part[k] = pairs[i]
    BY <1>6, <2>1, <2>2, <2>12
  <2>17. QED
    BY <2>9, <2>15, <2>16
<1>12. ASSUME NEW i \in H PROVE \E k \in J : q[k] = i
  <2>1. i \in K /\ i \in 1..n
    BY <1>10
  <2>2. PICK k \in 1..d : q[k] = i
    BY <1>4, <2>1
  <2>3. \A l \in 1..k - 1 : part[l].path # part[k].path
    <3> SUFFICES ASSUME NEW l \in 1..k - 1 PROVE part[l].path # part[k].path
      OBVIOUS
    <3>1. l \in 1..d /\ l < k
      BY <1>4, <2>2
    <3>2. PICK j : j = q[l]
      OBVIOUS
    <3>3. j \in K /\ j < i
      BY <1>4, <2>2, <3>1, <3>2
    <3>4. j \in 1..n
      BY <1>2, <3>3
    <3>5. j \in 1..i - 1
      BY <2>1, <3>3, <3>4
    <3>6. pairs[j].path # pairs[i].path
      BY <1>10, <3>5
    <3>7. part[l] = pairs[j] /\ part[k] = pairs[i]
      BY <1>6, <2>2, <3>1, <3>2
    <3>8. QED
      BY <3>6, <3>7
  <2>4. QED
    BY <1>8, <2>2, <2>3
<1>13. {q[k] : k \in J} = H
  BY <1>11, <1>12
<1>14. J \in SUBSET (1..d)
  BY <1>8
<1>15. At(part, J) = At(pairs, {q[k] : k \in J})
  BY <1>3, <1>5, <1>14, AtOfAt
<1>16. FirstHits(part) = At(part, J) /\ FirstHits(pairs) = At(pairs, H)
  BY <1>7, <1>9 DEF FirstHits, FirstHitPlaces
<1>17. QED
  BY <1>5, <1>13, <1>15, <1>16

\* The runs of entries are blocks, and every entry is in one.
LEMMA RunsAre ==
    ASSUME NEW U, NEW entries \in Seq([path : Path, upstream : U])
    PROVE  /\ Starts(entries) \in SUBSET (1..Len(entries))
           /\ \A i \in 1..Len(entries) :
                  Run(entries, i) = {j \in 1..Len(entries) :
                                        i <= j /\ \A k \in i + 1..j : k \notin Starts(entries)}
           /\ \A i \in 1..Len(entries) : \E h \in Starts(entries) : i \in Run(entries, h)
           /\ \A g, h \in Starts(entries) : g < h =>
                  \A i \in Run(entries, g), j \in Run(entries, h) : i < j
           /\ \A i \in 1..Len(entries) : \A j \in Run(entries, i) :
                  entries[j].upstream = entries[i].upstream
<1>1. PICK n, I : n = Len(entries) /\ I = Starts(entries)
  OBVIOUS
<1>2. n \in Nat /\ DOMAIN entries = 1..n
  BY <1>1, LenProperties
<1>3. I = {i \in 1..n : i > 1 => entries[i].upstream # entries[i - 1].upstream}
  BY <1>1, <1>2 DEF Starts
<1>4. \A i \in 1..n : Run(entries, i) = {j \in 1..n : i <= j /\ \A k \in i + 1..j : k \notin I}
  BY <1>1, <1>2 DEF Run
<1>5. ASSUME NEW i \in 1..n PROVE \E h \in I : i \in Run(entries, h)
  <2>1. PICK S : S = {h \in I : h <= i}
    OBVIOUS
  <2>2. 1 \in S
    <3>1. 1 \in 1..n /\ 1 <= i
      BY <1>2
    <3>2. 1 \in I
      BY <1>3, <3>1
    <3>3. QED
      BY <2>1, <3>1, <3>2
  <2>3. S \in SUBSET (1..n)
    BY <1>3, <2>1
  <2>4. PICK h : h = MaxOf(S)
    OBVIOUS
  <2>5. h \in S /\ \A l \in S : l <= h
    BY <1>2, <2>2, <2>3, <2>4, GreatestOf
  <2>6. h \in I /\ h \in 1..n /\ h <= i
    BY <2>1, <2>3, <2>5
  <2>7. \A k \in h + 1..i : k \notin I
    <3> SUFFICES ASSUME NEW k \in h + 1..i, k \in I PROVE FALSE
      OBVIOUS
    <3>1. k \in Int /\ h < k /\ k <= i
      BY <2>6
    <3>2. k \in S
      BY <2>1, <3>1
    <3>3. QED
      BY <2>5, <2>6, <3>1, <3>2
  <2>8. QED
    BY <1>4, <2>6, <2>7
<1>6. ASSUME NEW g \in I, NEW h \in I, g < h, NEW i \in Run(entries, g), NEW j \in Run(entries, h)
      PROVE  i < j
  <2>1. g \in 1..n /\ h \in 1..n
    BY <1>3
  <2>2. i \in 1..n /\ j \in 1..n /\ g <= i /\ h <= j /\ \A k \in g + 1..i : k \notin I
    BY <1>4, <2>1
  <2>3. ~(h \in g + 1..i)
    BY <2>2
  <2>4. i < h
    BY <1>6, <2>1, <2>2, <2>3
  <2>5. QED
    BY <2>1, <2>2, <2>4
<1>7. ASSUME NEW i \in 1..n, NEW j \in Run(entries, i)
      PROVE  entries[j].upstream = entries[i].upstream
  <2> DEFINE T == {m \in Nat : i + m <= j => entries[i + m].upstream = entries[i].upstream}
  <2>1. j \in 1..n /\ i <= j /\ \A k \in i + 1..j : k \notin I
    BY <1>4
  <2>2. 0 \in T
    BY <1>2
  <2>3. ASSUME NEW m \in Nat, m \in T PROVE m + 1 \in T
    <3> SUFFICES ASSUME i + (m + 1) <= j
                 PROVE  entries[i + (m + 1)].upstream = entries[i].upstream
      OBVIOUS
    <3>1. PICK a, b : a = i + m /\ b = i + (m + 1)
      OBVIOUS
    <3>2. b \in 1..n /\ b > 1 /\ b - 1 = a /\ a <= j /\ b \in i + 1..j
      BY <1>2, <2>1, <3>1
    <3>3. b \notin I
      BY <2>1, <3>2
    <3>4. entries[b].upstream = entries[a].upstream
      BY <1>3, <3>2, <3>3
    <3>5. entries[a].upstream = entries[i].upstream
      BY <2>3, <3>1, <3>2
    <3>6. QED
      BY <3>1, <3>4, <3>5
  <2> HIDE DEF T
  <2>4. Nat \subseteq T
    BY <2>2, <2>3, NatInduct
  <2>5. j - i \in Nat /\ i + (j - i) = j
    BY <1>2, <2>1
  <2>6. PICK d : d = j - i
    OBVIOUS
  <2>7. d \in Nat /\ d \in T /\ i + d = j
    BY <2>4, <2>5, <2>6
  <2>8. QED
    BY <2>1, <2>7 DEF T
<1>8. I \in SUBSET (1..n)
  BY <1>3
<1>9. \A g, h \in I : g < h => \A i \in Run(entries, g), j \in Run(entries, h) : i < j
  BY <1>6
<1>10. \A i \in 1..n : \A j \in Run(entries, i) : entries[j].upstream = entries[i].upstream
  BY <1>7
<1>11. \A i \in 1..n : \E h \in I : i \in Run(entries, h)
  BY <1>5
<1>12. QED
  <2>1. Starts(entries) \in SUBSET (1..Len(entries))
    BY <1>1, <1>8
  <2>2. \A i \in 1..Len(entries) :
            Run(entries, i) = {j \in 1..Len(entries) :
                                  i <= j /\ \A k \in i + 1..j : k \notin Starts(entries)}
    BY ONLY <1>1, <1>2 DEF Run
  <2>3. \A i \in 1..Len(entries) : \E h \in Starts(entries) : i \in Run(entries, h)
    BY ONLY <1>1, <1>11
  <2>4. \A g, h \in Starts(entries) : g < h =>
            \A i \in Run(entries, g), j \in Run(entries, h) : i < j
    BY ONLY <1>1, <1>9
  <2>5. \A i \in 1..Len(entries) : \A j \in Run(entries, i) :
            entries[j].upstream = entries[i].upstream
    BY ONLY <1>1, <1>10
  <2>6. QED
    BY ONLY <2>1, <2>2, <2>3, <2>4, <2>5

\* The places in a run that have a path first there.
FirstInRun(entries, i) ==
    {j \in Run(entries, i) : \A k \in Run(entries, i) : k < j => entries[k].path # entries[j].path}
PathAt(entries) == [i \in 1..Len(entries) |-> entries[i].path]

\* What a rule shows that is made of entries.
LEMMA BackendRule ==
    ASSUME NEW grps, GroupsTyped(grps), NEW entries \in Seq(EntriesOf(grps)),
           NEW cat, cat = CatalogOf(entries),
           NEW i \in 1..Len(entries), NEW rule, rule = RuleAt(grps, cat, entries)[i]
    PROVE  /\ rule \in Rule
           /\ rule.settings = grps[entries[i].upstream].settings
           /\ rule.subnet = grps[entries[i].upstream].kebab
           /\ PathsOf(cat, rule) = At(PathAt(entries), FirstInRun(entries, i))
<1>1. PICK n : n = Len(entries)
  OBVIOUS
<1>2. n \in Nat /\ DOMAIN entries = 1..n /\ \A j \in 1..n : entries[j] \in EntriesOf(grps)
  BY <1>1, LenProperties
<1>3. PICK U : U = DOMAIN grps
  OBVIOUS
<1>4. entries \in Seq([path : Path, upstream : U])
  BY <1>3 DEF EntriesOf
<1>5. cat \in Catalogs /\ Distinct(cat)
  BY <1>4, CatalogOfEntries
<1>6. cat \in Seq(Item)
  <2>1. [name : Word, path : Path] \subseteq Item
    BY DEF Item
  <2>2. QED
    BY <1>5, <2>1, SeqMonotonic DEF Catalogs
<1>7. rule \in Rule
  BY FromBackendOK
<1>8. PICK named : named = NameAt(cat, entries)
  OBVIOUS
<1>9. DOMAIN cat = 1..Len(cat) /\ \A c \in 1..Len(cat) : cat[c].path \in Path
  <2>1. PICK R : R = [name : Word, path : Path]
    OBVIOUS
  <2>2. cat \in Seq(R) /\ \A r \in R : r.path \in Path
    BY <1>5, <2>1 DEF Catalogs
  <2>3. DOMAIN cat = 1..Len(cat) /\ \A c \in 1..Len(cat) : cat[c] \in R
    BY <2>2, LenProperties
  <2>4. QED
    BY <2>2, <2>3
<1>10. ASSUME NEW j \in 1..n
       PROVE  /\ named[j] \in Word /\ named[j] \in Names(cat)
              /\ PathOf(cat, named[j]) = entries[j].path
  <2>1. /\ named[j] \in Word
        /\ \E c \in 1..Len(cat) : cat[c].path = entries[j].path /\ cat[c].name = named[j]
    BY <1>1, <1>8, NameAtIs
  <2>2. PICK c \in 1..Len(cat) : cat[c].path = entries[j].path /\ cat[c].name = named[j]
    BY <2>1
  <2>3. named[j] \in Names(cat)
    BY <1>9, <2>2 DEF Names
  <2>4. PICK b \in 1..Len(cat) : cat[b].name = named[j] /\ PathOf(cat, named[j]) = cat[b].path
    BY <1>6, <2>3, PathOfOK
  <2>5. b = c
    BY <1>5, <2>2, <2>4 DEF Distinct
  <2>6. QED
    BY <2>1, <2>2, <2>3, <2>4, <2>5
<1>11. \A j, k \in 1..n : named[j] = named[k] <=> entries[j].path = entries[k].path
  <2> SUFFICES ASSUME NEW j \in 1..n, NEW k \in 1..n
               PROVE  named[j] = named[k] <=> entries[j].path = entries[k].path
    OBVIOUS
  <2>1. named[j] = named[k] => entries[j].path = entries[k].path
    <3>1. PathOf(cat, named[j]) = entries[j].path
      BY <1>10
    <3>2. PathOf(cat, named[k]) = entries[k].path
      BY <1>10
    <3>3. QED
      BY <3>1, <3>2
  <2>2. entries[j].path = entries[k].path => named[j] = named[k]
    <3>1. PICK a \in 1..Len(cat) : cat[a].path = entries[j].path /\ cat[a].name = named[j]
      BY <1>1, <1>8, NameAtIs
    <3>2. PICK b \in 1..Len(cat) : cat[b].path = entries[k].path /\ cat[b].name = named[k]
      BY <1>1, <1>8, NameAtIs
    <3>3. entries[j].path = entries[k].path => a = b
      BY <1>5, <3>1, <3>2 DEF Distinct
    <3>4. QED
      BY <3>1, <3>2, <3>3
  <2>3. QED
    BY <2>1, <2>2
<1>12. PICK R, I : R = Run(entries, i) /\ I = FirstInRun(entries, i)
  OBVIOUS
<1>13. R \in SUBSET (1..n)
  BY <1>2, <1>12 DEF Run
<1>14. I = {j \in R : \A k \in R : k < j => named[k] # named[j]}
  BY <1>11, <1>12, <1>13 DEF FirstInRun
<1>15. I \in SUBSET (1..n)
  BY <1>13, <1>14
<1>16. FirstAmong(named, R) = At(named, I)
  BY <1>14 DEF FirstAmong
<1>17. entries[i].upstream \in DOMAIN grps
  BY <1>1, <1>2 DEF EntriesOf
<1>18. rule = [rulesets |-> At(named, I), settings |-> grps[entries[i].upstream].settings,
               subnet |-> grps[entries[i].upstream].kebab]
  BY <1>1, <1>2, <1>8, <1>12, <1>16, <1>17 DEF RuleAt
<1>19. PICK c, p : Enumerates(p, c, I)
  BY <1>2, <1>15, Enumerated
<1>20. c \in Nat /\ p \in [1..c -> I]
  BY <1>19 DEF Enumerates
<1>21. PICK names : names = rule.rulesets
  OBVIOUS
<1>22. names = [k \in 1..c |-> named[p[k]]]
  <2>1. At(named, I) = [k \in 1..c |-> named[p[k]]]
    BY ONLY <1>19, AtIs
  <2>2. QED
    BY <1>18, <1>21, <2>1
<1>23. names \in Seq(Word) /\ Len(names) = c
  <2>1. \A k \in 1..c : named[p[k]] \in Word
    BY <1>10, <1>15, <1>20
  <2>2. names \in [1..c -> Word]
    BY <1>22, <2>1
  <2>3. QED
    BY <1>20, <2>2, IsList
<1>24. \A k \in 1..c : PathOf(cat, names[k]) = entries[p[k]].path /\ names[k] \in Known(cat)
  <2> SUFFICES ASSUME NEW k \in 1..c
               PROVE  PathOf(cat, names[k]) = entries[p[k]].path /\ names[k] \in Known(cat)
    OBVIOUS
  <2>1. PICK j : j = p[k]
    OBVIOUS
  <2>2. j \in 1..n /\ names[k] = named[j]
    BY <1>15, <1>20, <1>22, <2>1
  <2>3. PathOf(cat, names[k]) = entries[j].path /\ names[k] \in Names(cat)
    BY <1>10, <2>2
  <2>4. entries[j].path \in Path
    BY <1>2, <2>2 DEF EntriesOf
  <2>5. PathOf(cat, names[k]) # Null
    BY <2>3, <2>4, PathAssumption
  <2>6. QED
    BY <2>1, <2>3, <2>5 DEF Known
<1>25. Ticked(cat, rule) = 1..c
  BY <1>21, <1>23, <1>24 DEF Ticked
<1>26. PICK all : all = AllPaths(cat, rule)
  OBVIOUS
<1>27. all = [k \in 1..c |-> entries[p[k]].path]
  BY <1>21, <1>23, <1>24, <1>26 DEF AllPaths
<1>28. all \in Seq(Path) /\ Len(all) = c
  <2>1. \A k \in 1..c : entries[p[k]].path \in Path
    <3> SUFFICES ASSUME NEW k \in 1..c PROVE entries[p[k]].path \in Path
      OBVIOUS
    <3>1. p[k] \in 1..n
      BY <1>15, <1>20
    <3>2. QED
      BY <1>2, <3>1 DEF EntriesOf
  <2>2. all \in [1..c -> Path]
    BY <1>27, <2>1
  <2>3. QED
    BY <1>20, <2>2, IsList
<1>29. At(all, 1..c) = all
  <2>1. At(all, 1..Len(all)) = all
    BY <1>28, AtAll
  <2>2. QED
    BY <1>28, <2>1
<1>30. PathsOf(cat, rule) = all
  <2>1. PathsOf(cat, rule) = At(AllPaths(cat, rule), Ticked(cat, rule))
    BY <1>6, <1>7, PathsOfIs
  <2>2. QED
    BY <1>25, <1>26, <1>29, <2>1
<1>31. PICK paths : paths = PathAt(entries)
  OBVIOUS
<1>32. At(paths, I) = [k \in 1..c |-> paths[p[k]]]
  BY ONLY <1>19, AtIs
<1>33. \A k \in 1..c : paths[p[k]] = entries[p[k]].path
  <2> SUFFICES ASSUME NEW k \in 1..c PROVE paths[p[k]] = entries[p[k]].path
    OBVIOUS
  <2>1. p[k] \in 1..n
    BY <1>15, <1>20
  <2>2. QED
    BY <1>1, <1>31, <2>1 DEF PathAt
<1>34. At(paths, I) = all
  BY <1>27, <1>32, <1>33
<1>35. QED
  BY <1>7, <1>12, <1>18, <1>30, <1>31, <1>34

\* When the tab is opened it shows what the draft routes.
LEMMA MountRoutes ==
    ASSUME NEW grps, GroupsTyped(grps), NEW entries \in Seq(EntriesOf(grps)),
           NEW boot, boot = FromBackend(grps, entries)
    PROVE  Routed(grps, entries) = ShownRouting(boot.catalog, boot.rules)
<1>1. PICK n, cat, I, ruleAt : /\ n = Len(entries) /\ cat = CatalogOf(entries)
                               /\ I = Starts(entries) /\ ruleAt = RuleAt(grps, cat, entries)
  OBVIOUS
<1>2. boot.catalog = cat /\ boot.rules = At(ruleAt, I)
  BY <1>1, FromBackendIs
<1>3. n \in Nat /\ DOMAIN entries = 1..n /\ \A j \in 1..n : entries[j] \in EntriesOf(grps)
  BY <1>1, LenProperties
<1>4. PICK U : U = DOMAIN grps
  OBVIOUS
<1>5. entries \in Seq([path : Path, upstream : U])
  BY <1>4 DEF EntriesOf
<1>6. /\ I \in SUBSET (1..n)
      /\ \A i \in 1..n : \E h \in I : i \in Run(entries, h)
      /\ \A g, h \in I : g < h => \A i \in Run(entries, g), j \in Run(entries, h) : i < j
      /\ \A i \in 1..n : \A j \in Run(entries, i) : entries[j].upstream = entries[i].upstream
  BY <1>1, <1>5, RunsAre
<1>7. PICK c, p : Enumerates(p, c, I)
  BY <1>3, <1>6, Enumerated
<1>8. /\ c \in Nat /\ p \in [1..c -> I] /\ \A k, l \in 1..c : k < l => p[k] < p[l]
      /\ \A i \in I : \E k \in 1..c : p[k] = i
  BY <1>7 DEF Enumerates
<1>9. PICK rs : rs = At(ruleAt, I)
  OBVIOUS
<1>10. rs = [k \in 1..c |-> ruleAt[p[k]]]
  <2>1. At(ruleAt, I) = [k \in 1..c |-> ruleAt[p[k]]]
    BY ONLY <1>7, AtIs
  <2>2. QED
    BY <1>9, <2>1
<1>11. PICK pairs : pairs = PairsOf(grps, entries)
  OBVIOUS
<1>12. pairs = [i \in 1..n |-> [path |-> entries[i].path, to |-> grps[entries[i].upstream].settings]]
  BY <1>3, <1>11 DEF PairsOf
<1>13. \A i \in 1..n : pairs[i] \in Pair
  <2> SUFFICES ASSUME NEW i \in 1..n PROVE pairs[i] \in Pair
    OBVIOUS
  <2>1. entries[i].path \in Path /\ entries[i].upstream \in DOMAIN grps
    BY <1>3 DEF EntriesOf
  <2>2. grps[entries[i].upstream].settings \in Settings
    BY <2>1 DEF GroupsTyped, Group
  <2>3. QED
    BY <1>12, <2>1, <2>2 DEF Pair
<1>14. pairs \in Seq(Pair) /\ Len(pairs) = n
  <2>1. pairs \in [1..n -> Pair]
    BY <1>12, <1>13
  <2>2. QED
    BY <1>3, <2>1, IsList
<1>15. PICK F : F = [k \in 1..c |-> FirstInRun(entries, p[k])]
  OBVIOUS
<1>16. \A i \in 1..n : Run(entries, i) \subseteq 1..n
  BY <1>3 DEF Run
<1>17. ASSUME NEW k \in 1..c
       PROVE  /\ p[k] \in 1..n
              /\ F[k] \subseteq Run(entries, p[k]) /\ F[k] \subseteq 1..n
              /\ F[k] = {j \in Run(entries, p[k]) :
                            \A l \in Run(entries, p[k]) : l < j => entries[l].path # entries[j].path}
  <2>1. p[k] \in I /\ p[k] \in 1..n
    BY <1>6, <1>8
  <2>2. F[k] = FirstInRun(entries, p[k])
    BY <1>15
  <2>3. FirstInRun(entries, p[k]) \subseteq Run(entries, p[k])
    BY DEF FirstInRun
  <2>4. Run(entries, p[k]) \subseteq 1..n
    BY <1>16, <2>1
  <2>5. QED
    BY <2>1, <2>2, <2>3, <2>4 DEF FirstInRun
<1>18. F \in [1..c -> SUBSET (1..n)]
  BY <1>15, <1>17
<1>19. InBlocks(F, c)
  <2> SUFFICES ASSUME NEW k \in 1..c, NEW l \in 1..c, k < l, NEW i \in F[k], NEW j \in F[l]
               PROVE  i < j
    BY DEF InBlocks
  <2>1. p[k] < p[l] /\ p[k] \in I /\ p[l] \in I
    BY <1>8
  <2>2. i \in Run(entries, p[k]) /\ j \in Run(entries, p[l])
    BY <1>17
  <2>3. QED
    BY <1>6, <2>1, <2>2
<1>20. PICK K : K = AnyOf(F, c, n)
  OBVIOUS
<1>22. ASSUME NEW k \in 1..c
       PROVE  PairsOfRule(cat, rs[k]) = At(pairs, F[k])
  <2>1. PICK i, J, rule : i = p[k] /\ J = F[k] /\ rule = rs[k]
    OBVIOUS
  <2>2. i \in 1..n /\ rule = ruleAt[i] /\ J = FirstInRun(entries, i) /\ J \in SUBSET (1..n)
    BY <1>10, <1>15, <1>17, <2>1
  <2>3. PICK paths : paths = PathAt(entries)
    OBVIOUS
  <2>4. rule.settings = grps[entries[i].upstream].settings /\ PathsOf(cat, rule) = At(paths, J)
    BY <1>1, <2>2, <2>3, BackendRule
  <2>5. PICK d, q : Enumerates(q, d, J)
    BY <1>3, <2>2, Enumerated
  <2>6. d \in Nat /\ q \in [1..d -> J]
    BY <2>5 DEF Enumerates
  <2>7. At(paths, J) = [x \in 1..d |-> paths[q[x]]]
    BY ONLY <2>5, AtIs
  <2>8. At(pairs, J) = [x \in 1..d |-> pairs[q[x]]]
    BY ONLY <2>5, AtIs
  <2>9. PairsOfRule(cat, rule) =
            [x \in 1..d |-> [path |-> paths[q[x]], to |-> grps[entries[i].upstream].settings]]
    BY <2>4, <2>7 DEF PairsOfRule
  <2>10. ASSUME NEW x \in 1..d
         PROVE  pairs[q[x]] = [path |-> paths[q[x]], to |-> grps[entries[i].upstream].settings]
    <3>1. PICK j : j = q[x]
      OBVIOUS
    <3>2. j \in J /\ j \in 1..n /\ j \in Run(entries, i)
      BY <1>17, <2>1, <2>2, <2>6, <3>1
    <3>3. entries[j].upstream = entries[i].upstream
      BY <1>6, <2>2, <3>2
    <3>4. paths[j] = entries[j].path
      BY <1>1, <2>3, <3>2 DEF PathAt
    <3>5. QED
      BY <1>12, <3>1, <3>2, <3>3, <3>4
  <2>11. QED
    BY <2>1, <2>8, <2>9, <2>10
<1>23. FlattenSeq(PairsOfRules(cat, rs)) = At(pairs, K)
  <2>1. n \in Nat /\ c \in Nat
    BY <1>3, <1>8
  <2>2. PICK ts : ts = PairsOfRules(cat, rs)
    OBVIOUS
  <2>3. ts = [k \in 1..c |-> PairsOfRule(cat, rs[k])]
    BY <1>10, <2>2 DEF PairsOfRules
  <2>3a. \A k \in 1..c : ts[k] = At(pairs, F[k])
    BY <1>22, <2>3
  <2>3b. ASSUME NEW k \in 1..c PROVE ts[k] \in Seq(Pair)
    <3>1. PICK J : J = F[k]
      OBVIOUS
    <3>2. J \in SUBSET (1..n) /\ ts[k] = At(pairs, J)
      BY <1>17, <2>3a, <3>1
    <3>3. \A i \in J : pairs[i] \in Pair
      BY <1>13, <3>2
    <3>4. At(pairs, J) \in Seq(Pair)
      BY ONLY <2>1, <3>2, <3>3, AtIsList
    <3>5. QED
      BY <3>2, <3>4
  <2>3c. ts \in [1..c -> Seq(Pair)]
    BY <2>3, <2>3b
  <2>3d. InParts(ts, pairs, F, c, n, Pair)
    BY <2>1, <1>13, <1>18, <1>19, <2>3a, <2>3c DEF InParts
  <2>4. FlattenSeq(ts) = At(pairs, K)
    BY <1>20, <2>3d, Blocks
  <2>5. QED
    BY <2>2, <2>4
<1>24. FirstHitPlaces(pairs) \subseteq K
  <2> SUFFICES ASSUME NEW i \in FirstHitPlaces(pairs) PROVE i \in K
    OBVIOUS
  <2>1. i \in 1..n /\ \A j \in 1..i - 1 : pairs[j].path # pairs[i].path
    BY <1>12 DEF FirstHitPlaces
  <2>2. PICK h \in I : i \in Run(entries, h)
    BY <1>6, <2>1
  <2>3. PICK k \in 1..c : p[k] = h
    BY <1>8
  <2>4. \A l \in Run(entries, h) : l < i => entries[l].path # entries[i].path
    <3> SUFFICES ASSUME NEW l \in Run(entries, h), l < i PROVE entries[l].path # entries[i].path
      OBVIOUS
    <3>1. l \in 1..n
      BY <1>6, <1>16
    <3>2. l \in 1..i - 1
      BY <2>1, <3>1
    <3>3. pairs[l].path # pairs[i].path
      BY <2>1, <3>2
    <3>4. QED
      BY <1>12, <2>1, <3>1, <3>3
  <2>5. i \in F[k]
    BY <1>17, <2>2, <2>3, <2>4
  <2>6. QED
    BY <1>20, <2>1, <2>5 DEF AnyOf
<1>25. FirstHits(At(pairs, K)) = FirstHits(pairs)
  <2>1. K \in SUBSET (1..Len(pairs))
    BY <1>14, <1>20 DEF AnyOf
  <2>2. QED
    BY <1>14, <1>24, <2>1, FirstHitsOfPart
<1>26. ShownRouting(cat, rs) = FirstHits(At(pairs, K))
  BY <1>23, RoutesAre
<1>27. QED
  BY <1>2, <1>9, <1>11, <1>25, <1>26, RoutesAre

\* What a step that leaves the rules tab open does: an edit commits, and a
\* configuration that is loaded is mounted.
LEMMA RulesTabStep ==
    ASSUME TypeInv, [Next]_vars, tab' = "rules"
    PROVE  \/ UNCHANGED <<groups, rulesets, catalog, rules>>
           \/ /\ tab = "rules" /\ RulesEdit
              /\ catalog' \in Seq(Item) /\ rules' \in Seq(Rule) /\ CommitToConfig(catalog', rules')
           \/ /\ GroupsTyped(groups') /\ rulesets' \in Seq(EntriesOf(groups'))
              /\ ~(dirty' /\ tab = "rules")
              /\ catalog' = FromBackend(groups', rulesets').catalog
              /\ rules' = FromBackend(groups', rulesets').rules
<1>1. CASE UNCHANGED vars
  BY <1>1 DEF vars
<1>2. GroupsTyped(groups') /\ rulesets' \in Seq(EntriesOf(groups'))
  BY StepTyped DEF TypeInv
<1>3. ASSUME NEW t \in Tabs, OpenTab(t)
      PROVE  /\ catalog' = FromBackend(groups', rulesets').catalog
             /\ rules' = FromBackend(groups', rulesets').rules
             /\ tab # "rules"
  BY <1>3 DEF OpenTab, Mount
<1>4. ASSUME EditBasicTab PROVE FALSE
  BY <1>4 DEF EditBasicTab, Edited
<1>5. ASSUME EditRulesTab
      PROVE  /\ tab = "rules" /\ RulesEdit
             /\ catalog' \in Seq(Item) /\ rules' \in Seq(Rule) /\ CommitToConfig(catalog', rules')
  <2>1. catalog \in Seq(Item) /\ rules \in Seq(Rule) /\ RulesEdit /\ tab = "rules"
    BY <1>5 DEF TypeInv, EditRulesTab
  <2>2. Committed(catalog', rules')
    BY <2>1, EditCommits
  <2>3. QED
    BY <2>1, <2>2 DEF Committed, Commit
<1>6. ASSUME EditHostsTab PROVE FALSE
  BY <1>6 DEF EditHostsTab, Edited
<1>7. ASSUME NEW config, Load(config)
      PROVE  /\ catalog' = FromBackend(groups', rulesets').catalog
             /\ rules' = FromBackend(groups', rulesets').rules
             /\ dirty' = FALSE
  <2>1. tab = "rules"
    BY <1>7 DEF Load
  <2>2. QED
    BY <1>7, <2>1 DEF Load, Mount
<1>8. ASSUME Save \/ Cancel
      PROVE  /\ catalog' = FromBackend(groups', rulesets').catalog
             /\ rules' = FromBackend(groups', rulesets').rules
             /\ dirty' = FALSE
  BY <1>7, <1>8 DEF Save, Cancel
<1>9. QED
  BY <1>1, <1>2, <1>3, <1>4, <1>5, <1>6, <1>8 DEF Next

\* After an edit the draft routes what is shown as it does after a mount.
LEMMA RoutedStep ==
    ASSUME TypeInv, RulesAreRouted, [Next]_vars
    PROVE  RulesAreRouted'
<1> SUFFICES ASSUME tab' = "rules"
             PROVE  Routed(groups', rulesets') = ShownRouting(catalog', rules')
  BY DEF RulesAreRouted
<1>1. PICK cat, rs, grps, entries :
          cat = catalog' /\ rs = rules' /\ grps = groups' /\ entries = rulesets'
  OBVIOUS
<1>2. CASE UNCHANGED <<groups, rulesets, catalog, rules>> /\ tab = "rules"
  BY <1>2 DEF RulesAreRouted
<1>3. ASSUME cat \in Seq(Item), rs \in Seq(Rule), CommitToConfig(cat, rs)
      PROVE  Routed(groups', rulesets') = ShownRouting(cat, rs)
  <2>1. GroupsTyped(groups)
    BY DEF TypeInv
  <2>2. QED
    BY <1>3, <2>1, CommitRoutes
<1>4. ASSUME GroupsTyped(grps), entries \in Seq(EntriesOf(grps)),
             cat = FromBackend(grps, entries).catalog, rs = FromBackend(grps, entries).rules
      PROVE  Routed(grps, entries) = ShownRouting(cat, rs)
  BY <1>4, MountRoutes
<1>5. CASE tab # "rules"
  <2>1. PICK t \in Tabs : OpenTab(t)
    BY <1>5 DEF Next, vars, EditBasicTab, EditRulesTab, EditHostsTab, Edited, Save, Cancel, Load
  <2>2. catalog' = FromBackend(groups', rulesets').catalog /\ rules' = FromBackend(groups', rulesets').rules
    BY <2>1 DEF OpenTab, Mount
  <2>3. GroupsTyped(groups') /\ rulesets' \in Seq(EntriesOf(groups'))
    BY StepTyped DEF TypeInv
  <2>4. QED
    BY <1>1, <1>4, <2>2, <2>3
<1>6. CASE tab = "rules"
  <2>1. CASE UNCHANGED <<groups, rulesets, catalog, rules>>
    BY <1>2, <1>6, <2>1
  <2>2. CASE catalog' \in Seq(Item) /\ rules' \in Seq(Rule) /\ CommitToConfig(catalog', rules')
    BY <1>1, <1>3, <2>2
  <2>3. CASE /\ GroupsTyped(groups') /\ rulesets' \in Seq(EntriesOf(groups'))
             /\ catalog' = FromBackend(groups', rulesets').catalog
             /\ rules' = FromBackend(groups', rulesets').rules
    BY <1>1, <1>4, <2>3
  <2>4. QED
    BY <2>1, <2>2, <2>3, RulesTabStep
<1>7. QED
  BY <1>5, <1>6

\* What the tab shows is what the draft routes, in the same order and to the
\* same servers, after any edits, saves and changes of tabs (RulesAreRouted).
THEOREM ShownIsRouted == Spec => []RulesAreRouted
<1>1. Init => RulesAreRouted
  BY DEF Init, RulesAreRouted
<1>2. TypeInv /\ RulesAreRouted /\ [Next]_vars => RulesAreRouted'
  BY RoutedStep
<1>3. QED
  BY <1>1, <1>2, TypeInvariance, PTL DEF Spec

---------------------------------------------------------------------------
(* To rename an entry of the catalog *)

\* No two entries have one name.
OneEach(cat) == \A j, k \in 1..Len(cat) : cat[j].name = cat[k].name => j = k

\* two is the catalog one with another name at a place.
Renamed(one, two, i, name) ==
    /\ Len(two) = Len(one)
    /\ \A j \in 1..Len(one) : /\ two[j].path = one[j].path
                              /\ two[j].name = IF j = i THEN name ELSE one[j].name

\* As many names as entries: no two entries have one name.
LEMMA NamesDifferIs ==
    ASSUME NEW cat \in Seq(Item), Cardinality(Names(cat)) = Len(cat)
    PROVE  OneEach(cat)
<1>1. PICK n, T, f : n = Len(cat) /\ T = Names(cat) /\ f = [j \in 1..n |-> cat[j].name]
  OBVIOUS
<1>2. n \in Nat /\ DOMAIN cat = 1..n
  BY <1>1, LenProperties
<1>3. T = {cat[j].name : j \in 1..n}
  BY <1>1, <1>2 DEF Names
<1>4. f \in [1..n -> T] /\ \A t \in T : \E j \in 1..n : f[j] = t
  BY <1>1, <1>3
<1>5. f \in Surjection(1..n, T)
  BY <1>4, Fun_IsSurj
<1>6. IsFiniteSet(1..n) /\ Cardinality(1..n) = n
  BY <1>2, FS_Interval
<1>7. Cardinality(1..n) = Cardinality(T)
  BY <1>1, <1>6
<1>8. f \in Injection(1..n, T)
  BY <1>5, <1>6, <1>7, FS_SurjSameCardinalityImpliesInj
<1>9. \A j, k \in 1..n : f[j] = f[k] => j = k
  BY <1>4, <1>8 DEF Injection, IsInjective
<1>10. QED
  BY <1>1, <1>9 DEF OneEach

\* If names differ the path of a name is that of its entry.
LEMMA PathOfItsOwn ==
    ASSUME NEW cat \in Seq(Item), OneEach(cat), NEW j \in 1..Len(cat)
    PROVE  cat[j].name \in Names(cat) /\ PathOf(cat, cat[j].name) = cat[j].path
<1>1. DOMAIN cat = 1..Len(cat)
  BY LenProperties
<1>2. PICK n : n = cat[j].name
  OBVIOUS
<1>3. n \in Names(cat)
  BY <1>1, <1>2 DEF Names
<1>4. PICK l \in 1..Len(cat) : cat[l].name = n /\ PathOf(cat, n) = cat[l].path
  BY <1>3, PathOfOK
<1>5. l = j
  BY <1>2, <1>4 DEF OneEach
<1>6. QED
  BY <1>2, <1>3, <1>4, <1>5

\* Rules that follow to a name in nobody's use keep their paths.
LEMMA RenamedPaths ==
    ASSUME NEW cat \in Seq(Item), OneEach(cat), NEW i \in 1..Len(cat), NEW name \in Word,
           name \notin Names(cat), NEW two \in Seq(Item), Renamed(cat, two, i, name),
           NEW rule \in Rule, name \notin ToSet(rule.rulesets),
           NEW other \in Rule, other.rulesets = ReplaceAll(rule.rulesets, cat[i].name, name)
    PROVE  PathsOf(two, other) = PathsOf(cat, rule)
<1>1. PICK n, old : n = Len(cat) /\ old = cat[i].name
  OBVIOUS
<1>2. n \in Nat /\ DOMAIN cat = 1..n /\ DOMAIN two = 1..n /\ Len(two) = n
  BY <1>1, LenProperties DEF Renamed
<1>3. \A j \in 1..n : two[j].path = cat[j].path /\ two[j].name = IF j = i THEN name ELSE cat[j].name
  BY <1>1 DEF Renamed
<1>4. \A j \in 1..n : cat[j].name # name
  BY <1>2 DEF Names
<1>5. OneEach(two)
  <2> SUFFICES ASSUME NEW j \in 1..n, NEW k \in 1..n, two[j].name = two[k].name PROVE j = k
    BY <1>2 DEF OneEach
  <2>1. cat[j].name = cat[k].name => j = k
    BY <1>1 DEF OneEach
  <2>2. QED
    BY <1>3, <1>4, <2>1
<1>6. \A j \in 1..n : /\ cat[j].name \in Names(cat) /\ PathOf(cat, cat[j].name) = cat[j].path
                      /\ two[j].name \in Names(two) /\ PathOf(two, two[j].name) = cat[j].path
  <2> SUFFICES ASSUME NEW j \in 1..n
               PROVE  /\ cat[j].name \in Names(cat) /\ PathOf(cat, cat[j].name) = cat[j].path
                      /\ two[j].name \in Names(two) /\ PathOf(two, two[j].name) = cat[j].path
    OBVIOUS
  <2>1. cat[j].name \in Names(cat) /\ PathOf(cat, cat[j].name) = cat[j].path
    BY <1>1, PathOfItsOwn
  <2>2. two[j].name \in Names(two) /\ PathOf(two, two[j].name) = two[j].path
    BY <1>2, <1>5, PathOfItsOwn
  <2>3. QED
    BY <1>3, <2>1, <2>2
\* The name that takes the place of one.
<1> DEFINE New(w) == IF w = old THEN name ELSE w
<1>7. ASSUME NEW w \in Word, w # name
      PROVE  /\ w \in Known(cat) <=> New(w) \in Known(two)
             /\ w \in Known(cat) => PathOf(two, New(w)) = PathOf(cat, w)
  <2>1. CASE w \in Names(cat)
    <3>1. PICK j \in 1..n : cat[j].name = w
      BY <1>2, <2>1 DEF Names
    <3>2. two[j].name = New(w)
      <4>1. CASE j = i
        BY <1>1, <1>3, <3>1, <4>1
      <4>2. CASE j # i
        <5>1. w # old
          BY <1>1, <3>1, <4>2 DEF OneEach
        <5>2. QED
          BY <1>3, <3>1, <4>2, <5>1
      <4>3. QED
        BY <4>1, <4>2
    <3>3. /\ w \in Names(cat) /\ PathOf(cat, w) = cat[j].path
          /\ New(w) \in Names(two) /\ PathOf(two, New(w)) = cat[j].path
      BY <1>6, <3>1, <3>2
    <3>4. QED
      BY <3>3 DEF Known
  <2>2. CASE w \notin Names(cat)
    <3>1. w # old /\ New(w) = w
      BY <1>1, <1>6, <2>2
    <3>2. w \notin Names(two)
      <4> SUFFICES ASSUME NEW j \in 1..n, two[j].name = w PROVE FALSE
        BY <1>2 DEF Names
      <4>1. two[j].name = cat[j].name
        BY <1>3, <1>7
      <4>2. QED
        BY <1>6, <2>2, <4>1
    <3>3. QED
      BY <2>2, <3>1, <3>2 DEF Known
  <2>3. QED
    BY <2>1, <2>2
<1>8. PICK names, m : names = rule.rulesets /\ m = Len(names)
  OBVIOUS
<1>9. /\ m \in Nat /\ DOMAIN names = 1..m
      /\ \A k \in 1..m : names[k] \in Word /\ names[k] # name
  <2>1. names \in Seq(Word)
    BY <1>8 DEF Rule
  <2>2. m \in Nat /\ DOMAIN names = 1..m /\ \A k \in 1..m : names[k] \in Word
    BY <1>8, <2>1, LenProperties
  <2>3. \A k \in 1..m : names[k] # name
    BY <1>8, <2>2 DEF ToSet
  <2>4. QED
    BY <2>2, <2>3
<1>10. PICK news : news = other.rulesets
  OBVIOUS
<1>11. news = [k \in 1..m |-> New(names[k])]
  BY <1>1, <1>8, <1>10 DEF ReplaceAll
<1>12. Len(news) = m
  <2>1. \A k \in 1..m : New(names[k]) \in Word
    BY <1>9
  <2>2. news \in [1..m -> Word]
    BY <1>11, <2>1
  <2>3. QED
    BY ONLY <1>9, <2>2, IsList
<1>13. PICK K : K = Ticked(cat, rule)
  OBVIOUS
<1>14. K = {k \in 1..m : names[k] \in Known(cat)}
  BY <1>8, <1>13 DEF Ticked
<1>15. \A k \in 1..m : news[k] = New(names[k])
  BY <1>11
<1>16. \A k \in 1..m : /\ names[k] \in Known(cat) <=> news[k] \in Known(two)
                       /\ names[k] \in Known(cat) => PathOf(two, news[k]) = PathOf(cat, names[k])
  BY <1>7, <1>9, <1>15
<1> HIDE DEF New
<1>17. Ticked(two, other) = K
  BY <1>10, <1>12, <1>14, <1>16 DEF Ticked
<1>18. PICK s, t : s = AllPaths(cat, rule) /\ t = AllPaths(two, other)
  OBVIOUS
<1>19. K \in SUBSET (1..m) /\ \A k \in K : s[k] = t[k]
  BY <1>8, <1>10, <1>12, <1>14, <1>16, <1>18 DEF AllPaths
<1>20. At(s, K) = At(t, K)
  BY <1>9, <1>19, AtAgree
<1>21. PathsOf(cat, rule) = At(s, K)
  BY <1>13, <1>18, PathsOfIs
<1>22. PathsOf(two, other) = At(t, K)
  BY <1>17, <1>18, PathsOfIs
<1>23. QED
  BY <1>20, <1>21, <1>22

\* The catalog with another name in it.
LEMMA RenamedIs ==
    ASSUME NEW cat \in Seq(Item), NEW i \in 1..Len(cat), NEW name \in Word,
           NEW two, two = [cat EXCEPT ![i].name = name]
    PROVE  two \in Seq(Item) /\ Renamed(cat, two, i, name)
<1>1. PICK n : n = Len(cat)
  OBVIOUS
<1>2. n \in Nat /\ cat \in [1..n -> Item] /\ i \in 1..n
  BY <1>1, LenProperties
<1>3. PICK e : e = cat[i]
  OBVIOUS
<1>4. e \in Item /\ e = [name |-> e.name, path |-> e.path] /\ e.path \in Path \cup {Null}
  BY <1>2, <1>3 DEF Item
<1>5. PICK d : d = [e EXCEPT !.name = name]
  OBVIOUS
<1>6. d = [name |-> name, path |-> e.path]
  BY <1>4, <1>5
<1>7. d \in Item /\ d.name = name /\ d.path = e.path
  BY <1>4, <1>6 DEF Item
<1>8. two = [cat EXCEPT ![i] = d]
  BY <1>3, <1>5
<1>9. two \in [1..n -> Item]
  BY <1>2, <1>7, <1>8
<1>10. two \in Seq(Item) /\ Len(two) = n
  BY <1>2, <1>9, IsList
<1>11. \A j \in 1..n : two[j] = IF j = i THEN d ELSE cat[j]
  BY <1>2, <1>8
<1>12. \A j \in 1..n : /\ two[j].path = cat[j].path
                       /\ two[j].name = IF j = i THEN name ELSE cat[j].name
  BY <1>3, <1>7, <1>11
<1>13. QED
  BY <1>1, <1>10, <1>12 DEF Renamed

\* Only to type the name gives an entry a new name.
LEMMA RenameIsTyped ==
    ASSUME catalog \in Seq(Item), rules \in Seq(Rule), RulesEdit,
           NEW i \in 1..Len(catalog), NEW name \in Name, name \notin Names(catalog),
           catalog' = [catalog EXCEPT ![i].name = name]
    PROVE  EditName(i, name)
<1>1. PICK n, two : n = Len(catalog) /\ two = catalog'
  OBVIOUS
<1>2. n \in Nat /\ DOMAIN catalog = 1..n
  BY <1>1, LenProperties
<1>3. name \in Word
  BY Words
<1>4. two \in Seq(Item) /\ Renamed(catalog, two, i, name)
  BY <1>1, <1>3, RenamedIs
<1>5. Len(two) = n /\ two[i].name = name
  BY <1>1, <1>4 DEF Renamed
<1>6. \A j \in 1..n : catalog[j].name # name
  BY <1>2 DEF Names
<1>7. two # catalog
  BY <1>1, <1>5, <1>6
<1>8. ASSUME NEW nm \in Name, NEW path \in Typed, AddCatalogEntry(nm, path) PROVE FALSE
  <2>1. PICK e : e = [name |-> nm, path |-> path]
    OBVIOUS
  <2>2. e \in Item
    BY <2>1, Words, PathAssumption DEF Item
  <2>3. two = Append(catalog, e)
    BY <1>1, <1>8, <2>1 DEF AddCatalogEntry, Commit
  <2>4. Len(two) = n + 1
    BY <1>1, <2>2, <2>3, AppendProperties
  <2>5. QED
    BY <1>2, <1>5, <2>4
<1>9. ASSUME NEW j \in DOMAIN catalog, NEW nm \in Name, EditName(j, nm) PROVE j = i /\ nm = name
  <2>1. two = [catalog EXCEPT ![j].name = nm] /\ j \in 1..n /\ nm \in Word
    BY <1>1, <1>2, <1>9, Words DEF EditName, Commit
  <2>2. Renamed(catalog, two, j, nm)
    BY <1>1, <2>1, RenamedIs
  <2>3. two[i].name = IF i = j THEN nm ELSE catalog[i].name
    BY <1>1, <2>2 DEF Renamed
  <2>4. QED
    BY <1>1, <1>5, <1>6, <2>3
<1>10. ASSUME NEW j \in DOMAIN catalog, NEW path \in Typed \cup {Null}, EditPath(j, path) PROVE FALSE
  <2>1. two = [catalog EXCEPT ![j].path = path] /\ j \in 1..n
    BY <1>1, <1>2, <1>10 DEF EditPath, Commit
  <2>2. two[i].name = catalog[i].name
    <3>1. PICK e : e = catalog[j]
      OBVIOUS
    <3>2. e \in Item
      BY <1>1, <2>1, <3>1
    <3>3. e = [name |-> e.name, path |-> e.path]
      BY <3>2 DEF Item
    <3>4. PICK d : d = [e EXCEPT !.path = path]
      OBVIOUS
    <3>5. d.name = e.name
      BY <3>3, <3>4
    <3>6. two = [catalog EXCEPT ![j] = d]
      BY <2>1, <3>1, <3>4
    <3>7. two[i] = IF i = j THEN d ELSE catalog[i]
      BY <1>1, <1>2, <3>6
    <3>8. QED
      BY <3>1, <3>5, <3>7
  <2>3. QED
    BY <1>1, <1>5, <1>6, <2>2
<1>11. ASSUME NEW j \in DOMAIN catalog, RemoveCatalogEntry(j) PROVE FALSE
  <2>1. two = RemoveAt(catalog, j) /\ j \in 1..n
    BY <1>1, <1>2, <1>11 DEF RemoveCatalogEntry, Commit
  <2>2. Len(two) = n - 1
    BY <1>1, <2>1, RemoveAtOK
  <2>3. QED
    BY <1>2, <1>5, <2>2
<1>12. ASSUME NEW rs, Commit(catalog, rs) PROVE FALSE
  BY <1>1, <1>7, <1>12 DEF Commit
<1>13. ASSUME AddRule PROVE FALSE
  BY <1>12, <1>13 DEF AddRule
<1>14. ASSUME NEW r \in DOMAIN rules, NEW nm \in Names(catalog), ToggleRuleset(r, nm) PROVE FALSE
  BY <1>12, <1>14 DEF ToggleRuleset
<1>15. ASSUME NEW r \in DOMAIN rules, NEW s \in Settings, EditSettings(r, s) PROVE FALSE
  BY <1>12, <1>15 DEF EditSettings
<1>16. ASSUME NEW r \in DOMAIN rules, NEW s \in Ecs, EditSubnet(r, s) PROVE FALSE
  BY <1>12, <1>16 DEF EditSubnet
<1>17. ASSUME NEW r \in DOMAIN rules, RemoveRule(r) PROVE FALSE
  BY <1>12, <1>17 DEF RemoveRule
<1>18. ASSUME NEW r \in DOMAIN rules, NEW q \in DOMAIN rules, MoveRule(r, q) PROVE FALSE
  BY <1>12, <1>18 DEF MoveRule
<1>19. QED
  BY <1>8, <1>9, <1>10, <1>11, <1>13, <1>14, <1>15, <1>16, <1>17, <1>18 DEF RulesEdit

\* To rename an entry changes no routing: what is shown does not change, and
\* the draft routes what is shown before and after.
LEMMA RenameStep ==
    ASSUME TypeInv, RulesAreRouted, Next, tab = "rules", dirty', NamesDiffer,
           NEW i \in DOMAIN catalog, NEW name \in Name \ {<<>>}, name \notin Names(catalog),
           \A r \in DOMAIN rules : name \notin ToSet(rules[r].rulesets),
           catalog' = [catalog EXCEPT ![i].name = name]
    PROVE  Routed(groups', rulesets') = Routed(groups, rulesets)
<1>1. catalog \in Seq(Item) /\ rules \in Seq(Rule) /\ GroupsTyped(groups)
  BY DEF TypeInv
<1>2. i \in 1..Len(catalog) /\ name \in Word /\ name \in Name
  BY <1>1, Words, LenProperties
<1>3. PICK two : two = catalog'
  OBVIOUS
<1>4. two \in Seq(Item) /\ Renamed(catalog, two, i, name)
  BY <1>1, <1>2, <1>3, RenamedIs
<1>5. two # <<>>
  <2>1. Len(two) = Len(catalog) /\ Len(catalog) \in Nat
    BY <1>1, <1>4, LenProperties DEF Renamed
  <2>2. QED
    BY <1>2, <2>1
<1>6. RulesEdit
  <2>1. \A t \in Tabs : ~OpenTab(t)
    BY <1>3, <1>5 DEF OpenTab, Unmount
  <2>2. ~EditBasicTab /\ ~EditHostsTab /\ ~Save /\ ~Cancel
    BY DEF EditBasicTab, EditHostsTab, Save, Cancel, Load
  <2>3. QED
    BY <2>1, <2>2 DEF Next, EditRulesTab
<1>7. EditName(i, name)
  BY <1>1, <1>2, <1>6, RenameIsTyped
<1>8. Committed(catalog', rules')
  BY <1>1, <1>6, EditCommits
<1>9. PICK rs : rs = rules'
  OBVIOUS
<1>10. rs \in Seq(Rule) /\ CommitToConfig(two, rs)
  BY <1>3, <1>8, <1>9 DEF Committed, Commit
<1>11. Routed(groups', rulesets') = ShownRouting(two, rs)
  BY <1>1, <1>4, <1>10, CommitRoutes
<1>12. Routed(groups, rulesets) = ShownRouting(catalog, rules)
  BY DEF RulesAreRouted
<1>13. PICK n : n = Len(rules)
  OBVIOUS
<1>14. n \in Nat /\ DOMAIN rules = 1..n /\ \A r \in 1..n : rules[r] \in Rule
  BY <1>1, <1>13, LenProperties
<1>15. rs = [r \in DOMAIN rules |->
                [rules[r] EXCEPT !.rulesets = ReplaceAll(@, catalog[i].name, name)]]
  BY <1>7, <1>9 DEF EditName, Commit
<1>16. Len(rs) = n /\ \A r \in 1..n : rs[r] \in Rule
  <2>1. DOMAIN rs = 1..Len(rs) /\ Len(rs) \in Nat /\ \A r \in 1..Len(rs) : rs[r] \in Rule
    BY <1>10, LenProperties
  <2>2. DOMAIN rs = 1..n
    BY <1>14, <1>15
  <2>3. QED
    BY <1>14, <2>1, <2>2
<1>17. OneEach(catalog)
  BY <1>1, NamesDifferIs DEF NamesDiffer
<1>18. ASSUME NEW r \in 1..n
       PROVE  PairsOfRule(two, rs[r]) = PairsOfRule(catalog, rules[r])
  <2>1. PICK rule, other : rule = rules[r] /\ other = rs[r]
    OBVIOUS
  <2>2. rule \in Rule /\ other \in Rule /\ name \notin ToSet(rule.rulesets)
    BY <1>14, <1>16, <2>1
  <2>3. rule = [rulesets |-> rule.rulesets, settings |-> rule.settings, subnet |-> rule.subnet]
    BY <2>2 DEF Rule
  <2>4. other = [rule EXCEPT !.rulesets = ReplaceAll(rule.rulesets, catalog[i].name, name)]
    BY <1>14, <1>15, <2>1
  <2>5. /\ other.rulesets = ReplaceAll(rule.rulesets, catalog[i].name, name)
        /\ other.settings = rule.settings
    BY <2>3, <2>4
  <2>6. PathsOf(two, other) = PathsOf(catalog, rule)
    BY <1>1, <1>2, <1>4, <1>17, <2>2, <2>5, RenamedPaths
  <2>7. QED
    BY <2>1, <2>5, <2>6 DEF PairsOfRule
<1>19. DOMAIN rs = 1..n
  BY <1>10, <1>16, LenProperties
<1>20. PairsOfRules(two, rs) = PairsOfRules(catalog, rules)
  BY <1>14, <1>18, <1>19 DEF PairsOfRules
<1>21. QED
  BY <1>11, <1>12, <1>20, RoutesAre

\* A name of the catalog is only a name: to change it to one nobody uses, even
\* to `default' or to that of a group, changes no routing (RenameKeepsRouting).
THEOREM NamesDoNotRoute == Spec => RenameKeepsRouting
<1>1. /\ TypeInv /\ RulesAreRouted /\ [Next]_vars
      => [\A i \in DOMAIN catalog, name \in Name \ {<<>>} :
              /\ tab = "rules" /\ dirty' /\ NamesDiffer
              /\ name \notin Names(catalog)
              /\ \A r \in DOMAIN rules : name \notin ToSet(rules[r].rulesets)
              /\ catalog' = [catalog EXCEPT ![i].name = name]
              => Routed(groups', rulesets') = Routed(groups, rulesets)]_vars
  BY RenameStep
<1>2. QED
  BY <1>1, TypeInvariance, ShownIsRouted, PTL DEF Spec, RenameKeepsRouting

---------------------------------------------------------------------------
(* To type a key in a row *)

\* Keys that are whole numbers come first, in their order.
InOrder(rows, p, c, J) ==
    /\ J \in SUBSET (1..Len(Index)) /\ Enumerates(p, c, J)
    /\ c <= Len(rows)
    /\ \A k \in 1..c : rows[k].key = Index[p[k]]
    /\ \A k \in 1..Len(rows) : k > c => rows[k].key \notin ToSet(Index)
Ordered(rows) == \E p, c, J : InOrder(rows, p, c, J)

\* The keys that are whole numbers, each once.
LEMMA IndexIs ==
    /\ Index \in Seq(Key) /\ Len(Index) \in Nat
    /\ DOMAIN Index = 1..Len(Index)
    /\ ToSet(Index) = {Index[j] : j \in 1..Len(Index)}
    /\ \A i, j \in 1..Len(Index) : Index[i] = Index[j] => i = j
<1>1. PICK K : K = Key \ {NoKey}
  OBVIOUS
<1>2. Index \in Seq(K) /\ K \subseteq Key
  BY <1>1, KeyAssumption
<1>3. Index \in Seq(Key)
  BY <1>2, SeqMonotonic
<1>4. Len(Index) \in Nat /\ DOMAIN Index = 1..Len(Index)
  BY <1>3, LenProperties
<1>5. QED
  BY <1>3, <1>4, KeyAssumption DEF IsInjective, ToSet

\* An object is in order.
LEMMA MadeInOrder ==
    ASSUME NEW obj, Made(obj)
    PROVE  Ordered(obj)
<1>1. PICK rows \in Seq(Row) : obj = FromEntries(rows)
  BY DEF Made
<1>2. PICK n, m : n = Len(rows) /\ m = Len(Index)
  OBVIOUS
<1>3. /\ n \in Nat /\ DOMAIN rows = 1..n /\ \A i \in 1..n : rows[i] \in Row
      /\ m \in Nat /\ DOMAIN Index = 1..m
  BY <1>2, IndexIs, LenProperties
<1>4. PICK keys, order : /\ keys = [i \in DOMAIN rows |-> rows[i].key]
                         /\ order = FirstOnes(keys)
  OBVIOUS
<1>5. order \in Seq(Key)
  <2>1. keys \in [1..n -> Key]
    BY <1>3, <1>4 DEF Row
  <2>2. keys \in Seq(Key)
    BY <1>3, <2>1, IsList
  <2>3. QED
    BY <1>4, <2>2, FilteredOK
<1>6. PICK K : K = ToSet(order)
  OBVIOUS
<1>7. PICK J : J = {j \in DOMAIN Index : Index[j] \in K}
  OBVIOUS
<1>8. J \in SUBSET (1..m)
  BY <1>3, <1>7
<1>9. PICK c, p : Enumerates(p, c, J)
  BY <1>3, <1>8, Enumerated
<1>10. c \in Nat /\ p \in [1..c -> J]
  BY <1>9 DEF Enumerates
<1>11. PICK s, t : s = At(Index, J) /\ t = Without(order, ToSet(Index))
  OBVIOUS
<1>12. s = [k \in 1..c |-> Index[p[k]]]
  <2>1. At(Index, J) = [k \in 1..c |-> Index[p[k]]]
    BY ONLY <1>9, AtIs
  <2>2. QED
    BY <1>11, <2>1
<1>13. s \in Seq(Key) /\ Len(s) = c
  <2>1. \A k \in 1..c : Index[p[k]] \in Key
    <3>1. \A j \in 1..m : Index[j] \in Key
      BY <1>2, IndexIs, LenProperties
    <3>2. QED
      BY <1>8, <1>10, <3>1
  <2>2. s \in [1..c -> Key]
    BY <1>12, <2>1
  <2>3. QED
    BY <1>10, <2>2, IsList
<1>14. t \in Seq(Key)
  BY <1>5, <1>11, FilteredOK
<1>15. ToSet(t) = K \ ToSet(Index)
  BY <1>5, <1>6, <1>11, FilteredIs
<1>16. PICK all, d : all = KeysOf(rows) /\ d = Len(t)
  OBVIOUS
<1>17. all = s \o t
  BY <1>4, <1>6, <1>7, <1>11, <1>16 DEF KeysOf, Only
<1>18. d \in Nat /\ DOMAIN t = 1..d
  BY <1>14, <1>16, LenProperties
<1>19. /\ Len(all) = c + d
       /\ \A k \in 1..c + d : all[k] = IF k <= c THEN s[k] ELSE t[k - c]
  <2>1. PICK a, b : a = Len(s) /\ b = Len(t)
    OBVIOUS
  <2>2. /\ Len(all) = a + b
        /\ \A k \in 1..a + b : all[k] = IF k <= a THEN s[k] ELSE t[k - a]
    BY <1>13, <1>14, <1>17, <2>1, ConcatProperties
  <2>3. a = c /\ b = d
    BY <1>13, <1>16, <2>1
  <2>4. QED
    BY ONLY <2>2, <2>3
<1>20. Len(obj) = c + d /\ \A k \in 1..c + d : obj[k].key = all[k]
  BY <1>1, <1>16, <1>19, FromEntriesOK
<1>21. c <= Len(obj)
  BY <1>10, <1>18, <1>20
<1>22. \A k \in 1..c : obj[k].key = Index[p[k]]
  <2> SUFFICES ASSUME NEW k \in 1..c PROVE obj[k].key = Index[p[k]]
    OBVIOUS
  <2>1. k \in 1..c + d /\ k <= c
    BY <1>10, <1>18
  <2>2. QED
    BY <1>12, <1>19, <1>20, <2>1
<1>23. \A k \in 1..Len(obj) : k > c => obj[k].key \notin ToSet(Index)
  <2> SUFFICES ASSUME NEW k \in 1..c + d, k > c PROVE obj[k].key \notin ToSet(Index)
    BY <1>20
  <2>1. k - c \in 1..d /\ ~(k <= c)
    BY <1>10, <1>18
  <2>2. obj[k].key = t[k - c]
    BY <1>19, <1>20, <2>1
  <2>3. t[k - c] \in ToSet(t)
    BY <1>18, <2>1 DEF ToSet
  <2>4. QED
    BY <1>15, <2>2, <2>3
<1>24. InOrder(obj, p, c, J)
  BY <1>2, <1>8, <1>9, <1>21, <1>22, <1>23 DEF InOrder
<1>25. QED
  BY <1>24 DEF Ordered

\* An object made of the entries of one is the same.
LEMMA MadeAgain ==
    ASSUME NEW rows, RowsOK(rows), Ordered(rows)
    PROVE  FromEntries(rows) = rows
<1>1. PICK n, m : n = Len(rows) /\ m = Len(Index)
  OBVIOUS
<1>2. /\ rows \in Seq(Row)
      /\ n \in Nat /\ DOMAIN rows = 1..n /\ \A i \in 1..n : rows[i] \in Row
      /\ \A i, j \in 1..n : rows[i].key = rows[j].key => i = j
      /\ m \in Nat /\ DOMAIN Index = 1..m
  BY <1>1, IndexIs, LenProperties DEF RowsOK
<1>3. PICK p, c, J : InOrder(rows, p, c, J)
  BY DEF Ordered
<1>4. /\ J \in SUBSET (1..m) /\ Enumerates(p, c, J) /\ c <= n
      /\ \A k \in 1..c : rows[k].key = Index[p[k]]
      /\ \A k \in 1..n : k > c => rows[k].key \notin ToSet(Index)
  BY <1>1, <1>3 DEF InOrder
<1>5. c \in Nat /\ p \in [1..c -> J] /\ \A j \in J : \E k \in 1..c : p[k] = j
  BY <1>4 DEF Enumerates
<1>6. PICK keys : keys = [i \in DOMAIN rows |-> rows[i].key]
  OBVIOUS
<1>7. keys = [i \in 1..n |-> rows[i].key]
  BY <1>2, <1>6
<1>8. keys \in Seq(Key) /\ Len(keys) = n
  <2>1. keys \in [1..n -> Key]
    BY <1>2, <1>7 DEF Row
  <2>2. QED
    BY <1>2, <2>1, IsList
<1>9. DOMAIN keys = 1..n
  BY <1>7
<1>10. FirstOnes(keys) = keys
  <2>1. Differ(keys)
    BY <1>2, <1>7, <1>8 DEF Differ
  <2>2. QED
    BY <1>8, <2>1, FirstOnesOfDiffer
<1>11. \A j \in 1..m : Index[j] \in ToSet(keys) <=> j \in J
  <2>1. ToSet(keys) = {rows[k].key : k \in 1..n}
    BY <1>7 DEF ToSet
  <2>2. ASSUME NEW j \in 1..m, Index[j] \in ToSet(keys) PROVE j \in J
    <3>1. PICK k \in 1..n : rows[k].key = Index[j]
      BY <2>1, <2>2
    <3>2. Index[j] \in ToSet(Index)
      BY <1>1, IndexIs
    <3>3. k \in 1..c
      BY <1>4, <1>5, <3>1, <3>2
    <3>4. Index[p[k]] = Index[j] /\ p[k] \in J /\ p[k] \in 1..m
      BY <1>4, <1>5, <3>1, <3>3
    <3>5. p[k] = j
      BY <1>1, <3>4, IndexIs
    <3>6. QED
      BY <3>4, <3>5
  <2>3. ASSUME NEW j \in J PROVE Index[j] \in ToSet(keys)
    <3>1. PICK k \in 1..c : p[k] = j
      BY <1>5
    <3>2. k \in 1..n
      BY <1>2, <1>4, <1>5
    <3>3. rows[k].key = Index[j]
      BY <1>4, <3>1
    <3>4. QED
      BY <2>1, <3>2, <3>3
  <2>4. QED
    BY <2>2, <2>3
<1>12. Only(Index, ToSet(keys)) = [k \in 1..c |-> Index[p[k]]]
  <2>1. {j \in DOMAIN Index : Index[j] \in ToSet(keys)} = J
    BY <1>2, <1>4, <1>11
  <2>2. At(Index, J) = [k \in 1..c |-> Index[p[k]]]
    BY ONLY <1>4, AtIs
  <2>3. QED
    BY <2>1, <2>2 DEF Only
\* The other keys are the rest.
<1>13. PICK d, q : d = n - c /\ q = [k \in 1..d |-> c + k]
  OBVIOUS
<1>14. d \in Nat /\ c + d = n
  BY <1>2, <1>4, <1>5, <1>13
<1>15. PICK R : R = c + 1..n
  OBVIOUS
<1>16. Enumerates(q, d, R)
  <2>1. R \subseteq Nat
    BY <1>5, <1>15
  <2>2. q \in [1..d -> R]
    BY <1>5, <1>13, <1>14, <1>15
  <2>3. \A k, l \in 1..d : k < l => q[k] < q[l]
    BY <1>5, <1>13, <1>14
  <2>4. \A i \in R : \E k \in 1..d : q[k] = i
    <3> SUFFICES ASSUME NEW i \in R PROVE \E k \in 1..d : q[k] = i
      OBVIOUS
    <3>1. i - c \in 1..d /\ c + (i - c) = i
      BY <1>5, <1>14, <1>15
    <3>2. q[i - c] = i
      BY <1>13, <3>1
    <3>3. QED
      BY <3>1, <3>2
  <2>5. QED
    BY <1>14, <2>1, <2>2, <2>3, <2>4 DEF Enumerates
<1>17. \A k \in 1..n : keys[k] \notin ToSet(Index) <=> k > c
  <2>1. \A k \in 1..c : rows[k].key \in ToSet(Index)
    <3> SUFFICES ASSUME NEW k \in 1..c PROVE rows[k].key \in ToSet(Index)
      OBVIOUS
    <3>1. p[k] \in 1..m
      BY <1>4, <1>5
    <3>2. QED
      BY <1>1, <1>4, <3>1, IndexIs
  <2>2. \A k \in 1..n : k > c \/ k \in 1..c
    BY <1>2, <1>5
  <2>3. \A k \in 1..c : ~(k > c)
    BY <1>5
  <2>4. QED
    BY <1>4, <1>7, <2>1, <2>2, <2>3
<1>18. Without(keys, ToSet(Index)) = [k \in 1..d |-> keys[q[k]]]
  <2>1. {k \in DOMAIN keys : keys[k] \notin ToSet(Index)} = R
    BY <1>2, <1>5, <1>9, <1>15, <1>17
  <2>2. At(keys, R) = [k \in 1..d |-> keys[q[k]]]
    BY ONLY <1>16, AtIs
  <2>3. QED
    BY <2>1, <2>2 DEF Without
<1>19. PICK s, t : s = Only(Index, ToSet(keys)) /\ t = Without(keys, ToSet(Index))
  OBVIOUS
<1>20. s = [k \in 1..c |-> Index[p[k]]] /\ t = [k \in 1..d |-> keys[c + k]]
  BY <1>12, <1>13, <1>18, <1>19
<1>21. s \in Seq(Key) /\ Len(s) = c /\ t \in Seq(Key) /\ Len(t) = d
  <2>1. \A k \in 1..n : keys[k] \in Key
    BY <1>2, <1>7 DEF Row
  <2>2. \A k \in 1..c : Index[p[k]] \in Key
    <3> SUFFICES ASSUME NEW k \in 1..c PROVE Index[p[k]] \in Key
      OBVIOUS
    <3>1. k \in 1..n
      BY <1>5, <1>14
    <3>2. QED
      BY <1>4, <1>7, <2>1, <3>1
  <2>3. \A k \in 1..d : c + k \in 1..n
    BY <1>5, <1>14
  <2>4. s \in [1..c -> Key] /\ t \in [1..d -> Key]
    BY <1>20, <2>1, <2>2, <2>3
  <2>5. s \in Seq(Key) /\ Len(s) = c
    BY <1>5, <2>4, IsList
  <2>6. t \in Seq(Key) /\ Len(t) = d
    BY <1>14, <2>4, IsList
  <2>7. QED
    BY <2>5, <2>6
<1>22. PICK u : u = s \o t
  OBVIOUS
<1>23. u \in Seq(Key) /\ Len(u) = n /\ \A k \in 1..n : u[k] = IF k <= c THEN s[k] ELSE t[k - c]
  BY <1>14, <1>21, <1>22, ConcatProperties
<1>24. \A k \in 1..n : u[k] = keys[k]
  <2> SUFFICES ASSUME NEW k \in 1..n PROVE u[k] = keys[k]
    OBVIOUS
  <2>1. CASE k <= c
    <3>1. k \in 1..c
      BY <1>5, <2>1
    <3>2. QED
      BY <1>4, <1>7, <1>20, <1>23, <2>1, <3>1
  <2>2. CASE ~(k <= c)
    <3>1. k - c \in 1..d /\ c + (k - c) = k
      BY <1>5, <1>14, <2>2
    <3>2. t[k - c] = keys[k]
      BY <1>20, <3>1
    <3>3. QED
      BY <1>23, <2>2, <3>2
  <2>3. QED
    BY <2>1, <2>2
<1>25. u = keys
  BY <1>8, <1>23, <1>24, SeqEqual
<1>26. KeysOf(rows) = keys
  BY <1>6, <1>10, <1>19, <1>22, <1>25 DEF KeysOf
<1>27. PICK new : new = FromEntries(rows)
  OBVIOUS
<1>28. /\ new \in Seq(Row) /\ Len(new) = n
       /\ \A k \in 1..n : new[k].key = keys[k] /\ \E j \in 1..n : rows[j].key = keys[k] /\ new[k].value = rows[j].value
  <2>1. RowsOK(new) /\ Len(new) = Len(keys)
    BY <1>2, <1>26, <1>27, FromEntriesOK
  <2>2. \A k \in 1..Len(keys) :
            /\ new[k].key = keys[k]
            /\ \E j \in 1..Len(rows) : /\ rows[j].key = keys[k]
                                       /\ new[k].value = rows[j].value
    BY <1>2, <1>26, <1>27, FromEntriesOK
  <2>3. new \in Seq(Row)
    BY <2>1 DEF RowsOK
  <2>4. QED
    BY ONLY <1>1, <1>8, <2>1, <2>2, <2>3
<1>29. \A k \in 1..n : new[k] = rows[k]
  <2> SUFFICES ASSUME NEW k \in 1..n PROVE new[k] = rows[k]
    OBVIOUS
  <2>1. PICK j \in 1..n : rows[j].key = keys[k] /\ new[k].value = rows[j].value
    BY <1>28
  <2>2. j = k
    BY <1>2, <1>7, <2>1
  <2>3. new[k] \in Row /\ rows[k] \in Row
    BY <1>2, <1>28, LenProperties, SMTT(30)
  <2>4. new[k].key = rows[k].key /\ new[k].value = rows[k].value
    BY <1>7, <1>28, <2>1, <2>2
  <2>5. QED
    BY <2>3, <2>4 DEF Row
<1>30. rows \in Seq(Row) /\ new \in Seq(Row) /\ Len(new) = Len(rows)
       /\ \A k \in 1..Len(new) : new[k] = rows[k]
  BY ONLY <1>1, <1>2, <1>28, <1>29
<1>31. new = rows
  BY ONLY <1>30, SeqEqual
<1>32. QED
  BY <1>27, <1>31

\* The draft's names are an object.
MadeInv == Made(hosts)

\* Edits, saves and loads all make an object of rows.
LEMMA MadeStep ==
    ASSUME TypeInv, MadeInv, [Next]_vars
    PROVE  MadeInv'
<1>1. CASE UNCHANGED hosts
  BY <1>1 DEF MadeInv
<1>2. ASSUME NEW config, Load(config), RowsOK(config.hosts) PROVE MadeInv'
  BY <1>2, FromServerOK DEF Load, RowsOK, MadeInv
<1>3. CASE Save
  <2>1. PICK config : config = server'
    OBVIOUS
  <2>2. RowsOK(config.hosts) /\ Load(config)
    BY <1>3, <2>1 DEF Save, TypeInv
  <2>3. QED
    BY <1>2, <2>2
<1>4. CASE Cancel
  BY <1>2, <1>4 DEF Cancel, TypeInv
<1>5. CASE EditHostsTab
  BY <1>5, HostsEdited DEF EditHostsTab, TypeInv, MadeInv
<1>6. ASSUME NEW t \in Tabs, OpenTab(t) PROVE UNCHANGED hosts
  BY <1>6 DEF OpenTab
<1>7. ASSUME EditBasicTab PROVE UNCHANGED hosts
  BY <1>7 DEF EditBasicTab, BasicEdit, EditDefaultGroup
<1>8. ASSUME EditRulesTab PROVE UNCHANGED hosts
  BY <1>8 DEF EditRulesTab
<1>9. QED
  BY <1>1, <1>3, <1>4, <1>5, <1>6, <1>7, <1>8 DEF Next, vars

\* The draft's names are an object in every behaviour.
LEMMA MadeInvariance == Spec => []MadeInv
<1>1. Init => MadeInv
  <2> SUFFICES ASSUME Init PROVE MadeInv
    OBVIOUS
  <2>1. RowsOK(server.hosts)
    BY InitTyped DEF TypeInv
  <2>2. QED
    BY <2>1, FromServerOK DEF Init, RowsOK, MadeInv
<1>2. TypeInv /\ MadeInv /\ [Next]_vars => MadeInv'
  BY MadeStep
<1>3. QED
  BY <1>1, <1>2, TypeInvariance, PTL DEF Spec

\* The keys of an object are those of its rows.
LEMMA KeysKept ==
    ASSUME NEW rows \in Seq(Row)
    PROVE  Keys(FromEntries(rows)) = Keys(rows)
<1>1. PICK obj, keys, n : obj = FromEntries(rows) /\ keys = KeysOf(rows) /\ n = Len(keys)
  OBVIOUS
<1>2. keys \in Seq(Key) /\ ToSet(keys) = Keys(rows)
  BY <1>1, KeysOfAre
<1>3. DOMAIN keys = 1..n
  BY <1>1, <1>2, LenProperties
<1>4. RowsOK(obj) /\ Len(obj) = n /\ \A k \in 1..n : obj[k].key = keys[k]
  BY <1>1, FromEntriesOK
<1>5. DOMAIN obj = 1..n
  BY <1>4, LenProperties DEF RowsOK
<1>6. Keys(obj) = {keys[k] : k \in 1..n}
  BY <1>4, <1>5 DEF Keys
<1>7. QED
  BY <1>1, <1>2, <1>3, <1>6 DEF ToSet

\* To remove a row brings no key.
LEMMA RemovedKeys ==
    ASSUME NEW rows \in Seq(Row), NEW i \in 1..Len(rows)
    PROVE  Keys(RemoveAt(rows, i)) \subseteq Keys(rows)
<1>1. PICK n, a, b : n = Len(rows) /\ a = SubSeq(rows, 1, i - 1) /\ b = SubSeq(rows, i + 1, n)
  OBVIOUS
<1>2. n \in Nat /\ i \in 1..n /\ DOMAIN rows = 1..n
  BY <1>1, LenProperties
<1>3. a \in Seq(Row) /\ Len(a) = i - 1 /\ \A k \in 1..i - 1 : a[k] = rows[k]
  BY <1>1, <1>2, SubSeqProperties
<1>4. b \in Seq(Row) /\ Len(b) = n - i /\ \A k \in 1..n - i : b[k] = rows[i + k]
  BY <1>1, <1>2, SubSeqProperties
<1>5. PICK u, m, d : u = a \o b /\ m = i - 1 /\ d = n - i
  OBVIOUS
<1>6. m \in Nat /\ d \in Nat /\ Len(a) = m /\ Len(b) = d
  BY <1>2, <1>3, <1>4, <1>5
<1>7. /\ u \in Seq(Row) /\ Len(u) = Len(a) + Len(b)
      /\ \A k \in 1..Len(a) + Len(b) : u[k] = IF k <= Len(a) THEN a[k] ELSE b[k - Len(a)]
  BY <1>3, <1>4, <1>5, ConcatProperties
<1>8. DOMAIN u = 1..m + d /\ \A k \in 1..m + d : u[k] = IF k <= m THEN a[k] ELSE b[k - m]
  <2>1. DOMAIN u = 1..Len(u)
    BY <1>7, LenProperties
  <2>2. QED
    BY ONLY <1>6, <1>7, <2>1
<1>9. \A k \in 1..m + d : \E j \in 1..n : u[k] = rows[j]
  <2> SUFFICES ASSUME NEW k \in 1..m + d PROVE \E j \in 1..n : u[k] = rows[j]
    OBVIOUS
  <2>1. CASE k <= m
    <3>1. k \in 1..i - 1 /\ k \in 1..n
      BY <1>2, <1>5, <1>6, <2>1
    <3>2. QED
      BY <1>3, <1>8, <2>1, <3>1
  <2>2. CASE ~(k <= m)
    <3>1. k - m \in 1..n - i /\ i + (k - m) \in 1..n
      BY <1>2, <1>5, <1>6, <2>2
    <3>2. u[k] = b[k - m] /\ b[k - m] = rows[i + (k - m)]
      BY <1>4, <1>8, <2>2, <3>1
    <3>3. QED
      BY <3>1, <3>2
  <2>3. QED
    BY <2>1, <2>2
<1>10. RemoveAt(rows, i) = u
  BY <1>1, <1>5 DEF RemoveAt
<1>11. QED
  BY <1>2, <1>8, <1>9, <1>10 DEF Keys

\* Only to type the one key over the other puts it in its place.
LEMMA TypingIsSetKey ==
    ASSUME RowsOK(hosts), HostsEdit, NEW i \in DOMAIN hosts, NEW key \in Key,
           key \notin Keys(hosts), key \in Keys(hosts'), hosts[i].key \notin Keys(hosts')
    PROVE  SetKey(i, key)
<1>1. PICK n : n = Len(hosts)
  OBVIOUS
<1>2. /\ n \in Nat /\ DOMAIN hosts = 1..n /\ hosts \in Seq(Row) /\ i \in 1..n
      /\ \A k \in 1..n : hosts[k] \in Row
  BY <1>1, LenProperties DEF RowsOK
<1>3. \A k \in 1..n : hosts[k].key \in Keys(hosts)
  BY <1>2 DEF Keys
\* What rows that differ in one place have in common.
<1>4. ASSUME NEW j \in 1..n, NEW row \in Row, NEW rows, rows = [hosts EXCEPT ![j] = row]
      PROVE  /\ rows \in Seq(Row)
             /\ Keys(rows) = {IF k = j THEN row.key ELSE hosts[k].key : k \in 1..n}
  <2>1. rows \in Seq(Row)
    BY <1>1, <1>2, <1>4, ReplacedOK
  <2>2. rows = [k \in 1..n |-> IF k = j THEN row ELSE hosts[k]]
    BY <1>2, <1>4
  <2>3. Keys(rows) = {rows[k].key : k \in 1..n}
    BY <2>2 DEF Keys
  <2>4. \A k \in 1..n : rows[k].key = IF k = j THEN row.key ELSE hosts[k].key
    BY <2>2
  <2>5. QED
    BY <2>1, <2>3, <2>4
<1>5. ASSUME NEW j \in 1..n, NEW k \in Key, SetKey(j, k) PROVE SetKey(i, key)
  <2>1. PICK old : old = hosts[j]
    OBVIOUS
  <2>2. old = [key |-> old.key, value |-> old.value] /\ old.value \in Ip \cup {NoIp}
    BY <1>2, <2>1 DEF Row
  <2>3. PICK row : row = [old EXCEPT !.key = k]
    OBVIOUS
  <2>4. row = [key |-> k, value |-> old.value]
    BY <2>2, <2>3
  <2>5. row \in Row /\ row.key = k
    BY <2>2, <2>4 DEF Row
  <2>6. PICK rows : rows = [hosts EXCEPT ![j] = row]
    OBVIOUS
  <2>7. rows \in Seq(Row) /\ Keys(rows) = {IF l = j THEN row.key ELSE hosts[l].key : l \in 1..n}
    BY ONLY <1>4, <2>5, <2>6
  <2>8. hosts' = FromEntries(rows)
    BY <1>5, <2>1, <2>3, <2>6 DEF SetKey
  <2>9. Keys(hosts') = Keys(rows)
    BY <2>7, <2>8, KeysKept
  <2>10. j = i
    BY <1>2, <2>5, <2>7, <2>9
  <2>11. k = key
    BY <1>3, <2>5, <2>7, <2>9
  <2>12. QED
    BY <1>5, <2>10, <2>11
<1>6. ASSUME NEW j \in 1..n, NEW value \in Ip \cup {NoIp}, SetValue(j, value) PROVE FALSE
  <2>1. PICK old : old = hosts[j]
    OBVIOUS
  <2>2. old = [key |-> old.key, value |-> old.value] /\ old.key \in Key
    BY <1>2, <2>1 DEF Row
  <2>3. PICK row : row = [old EXCEPT !.value = value]
    OBVIOUS
  <2>4. row = [key |-> old.key, value |-> value]
    BY <2>2, <2>3
  <2>5. row \in Row /\ row.key = old.key
    BY <2>2, <2>4 DEF Row
  <2>6. PICK rows : rows = [hosts EXCEPT ![j] = row]
    OBVIOUS
  <2>7. rows \in Seq(Row) /\ Keys(rows) = {IF l = j THEN row.key ELSE hosts[l].key : l \in 1..n}
    BY ONLY <1>4, <2>5, <2>6
  <2>8. hosts' = FromEntries(rows)
    BY <1>6, <2>1, <2>3, <2>6 DEF SetValue
  <2>9. Keys(hosts') = Keys(rows)
    BY <2>7, <2>8, KeysKept
  <2>10. QED
    BY <1>3, <2>1, <2>5, <2>7, <2>9
<1>7. ASSUME NEW j \in 1..n, RemoveRow(j) PROVE FALSE
  <2>1. PICK rows : rows = RemoveAt(hosts, j)
    OBVIOUS
  <2>2. rows \in Seq(Row)
    BY <1>1, <1>2, <2>1, RemoveAtOK
  <2>3. Keys(hosts') = Keys(rows)
    BY <1>7, <2>1, <2>2, KeysKept DEF RemoveRow
  <2>4. Keys(rows) \subseteq Keys(hosts)
    BY <1>1, <1>2, <2>1, RemovedKeys
  <2>5. QED
    BY <2>3, <2>4
<1>8. ASSUME AddRow PROVE FALSE
  <2>1. PICK row, rows : row = [key |-> NoKey, value |-> NoIp] /\ rows = Append(hosts, row)
    OBVIOUS
  <2>2. row \in Row
    BY <2>1, KeyAssumption DEF Row
  <2>3. /\ rows \in Seq(Row) /\ Len(rows) = n + 1 /\ \A k \in 1..n : rows[k] = hosts[k]
    BY <1>1, <1>2, <2>1, <2>2, AppendProperties
  <2>4. DOMAIN rows = 1..n + 1
    BY <2>3, LenProperties
  <2>5. hosts[i].key \in Keys(rows)
    <3>1. i \in 1..n + 1 /\ rows[i] = hosts[i]
      BY <1>2, <2>3
    <3>2. QED
      BY <2>4, <3>1 DEF Keys
  <2>6. Keys(hosts') = Keys(rows)
    BY <1>8, <2>1, <2>3, KeysKept DEF AddRow
  <2>7. QED
    BY <2>5, <2>6
<1>9. QED
  BY <1>2, <1>5, <1>6, <1>7, <1>8 DEF HostsEdit

\* The step that types one key over another changes nothing but that.
LEMMA TypingStep ==
    ASSUME TypeInv, MadeInv, Next, tab = "hosts", dirty',
           NEW i \in DOMAIN hosts, NEW key \in Key \ (ToSet(Index) \cup Keys(hosts)),
           hosts[i].key \notin ToSet(Index),
           key \in Keys(hosts'), hosts[i].key \notin Keys(hosts')
    PROVE  hosts' = [hosts EXCEPT ![i].key = key]
<1>1. RowsOK(hosts)
  BY DEF TypeInv
<1>2. HostsEdit
  <2>1. hosts' # hosts
    OBVIOUS
  <2>2. QED
    BY <2>1 DEF Next, OpenTab, EditBasicTab, EditRulesTab, EditHostsTab, Save, Cancel, Load
<1>3. PICK n : n = Len(hosts)
  OBVIOUS
<1>4. /\ n \in Nat /\ DOMAIN hosts = 1..n /\ hosts \in Seq(Row) /\ i \in 1..n
      /\ \A k \in 1..n : hosts[k] \in Row
      /\ \A k, l \in 1..n : hosts[k].key = hosts[l].key => k = l
  BY <1>1, <1>3, LenProperties DEF RowsOK
<1>5. PICK old : old = hosts[i]
  OBVIOUS
<1>6. old = [key |-> old.key, value |-> old.value] /\ old.value \in Ip \cup {NoIp}
  BY <1>4, <1>5 DEF Row
<1>7. PICK row : row = [old EXCEPT !.key = key]
  OBVIOUS
<1>8. row = [key |-> key, value |-> old.value]
  BY <1>6, <1>7
<1>9. row \in Row /\ row.key = key
  BY <1>6, <1>8 DEF Row
<1>10. PICK rows : rows = [hosts EXCEPT ![i] = row]
  OBVIOUS
<1>11. rows \in Seq(Row)
  BY <1>3, <1>4, <1>9, <1>10, ReplacedOK
<1>12. rows = [k \in 1..n |-> IF k = i THEN row ELSE hosts[k]]
  BY <1>4, <1>10
<1>13. Len(rows) = n
  <2>1. rows \in [1..n -> Row]
    BY <1>4, <1>9, <1>12
  <2>2. QED
    BY ONLY <1>4, <2>1, IsList
<1>14. \A k \in 1..n : hosts[k].key # key
  BY <1>4 DEF Keys
<1>15. RowsOK(rows)
  BY <1>4, <1>9, <1>11, <1>12, <1>13, <1>14 DEF RowsOK
<1>16. Ordered(rows)
  <2>1. Ordered(hosts)
    BY MadeInOrder DEF MadeInv
  <2>2. PICK p, c, J : InOrder(hosts, p, c, J)
    BY <2>1 DEF Ordered
  <2>3. /\ J \in SUBSET (1..Len(Index)) /\ Enumerates(p, c, J) /\ c <= n
        /\ \A k \in 1..c : hosts[k].key = Index[p[k]]
        /\ \A k \in 1..n : k > c => hosts[k].key \notin ToSet(Index)
    BY <1>3, <2>2 DEF InOrder
  <2>4. c \in Nat /\ p \in [1..c -> J]
    BY <2>3 DEF Enumerates
  <2>5. ~(i \in 1..c)
    <3> SUFFICES ASSUME i \in 1..c PROVE FALSE
      OBVIOUS
    <3>1. p[i] \in 1..Len(Index) /\ hosts[i].key = Index[p[i]]
      BY <2>3, <2>4
    <3>2. QED
      BY <3>1, IndexIs
  <2>6. \A k \in 1..c : rows[k].key = Index[p[k]]
    BY <1>4, <1>12, <2>3, <2>4, <2>5
  <2>7. \A k \in 1..n : k > c => rows[k].key \notin ToSet(Index)
    BY <1>9, <1>12, <2>3
  <2>8. InOrder(rows, p, c, J)
    BY <1>13, <2>3, <2>6, <2>7 DEF InOrder
  <2>9. QED
    BY <2>8 DEF Ordered
<1>17. SetKey(i, key)
  BY <1>1, <1>2, TypingIsSetKey
<1>18. hosts' = FromEntries(rows)
  BY <1>5, <1>7, <1>10, <1>17 DEF SetKey
<1>19. FromEntries(rows) = rows
  BY <1>15, <1>16, MadeAgain
<1>20. QED
  BY <1>5, <1>7, <1>10, <1>18, <1>19

\* To type a key over another changes no other row and moves none, as long as
\* neither is a whole number and no other row has the new one: the object made
\* of the rows lists them as they are (TypingStaysInRow).
THEOREM TypingMovesNothing == Spec => TypingStaysInRow
<1>1. TypeInv /\ MadeInv /\ [Next]_vars
      => [\A i \in DOMAIN hosts, key \in Key \ (ToSet(Index) \cup Keys(hosts)) :
              /\ tab = "hosts" /\ dirty'
              /\ hosts[i].key \notin ToSet(Index)
              /\ key \in Keys(hosts') /\ hosts[i].key \notin Keys(hosts')
              => hosts' = [hosts EXCEPT ![i].key = key]]_vars
  BY TypingStep
<1>2. QED
  BY <1>1, TypeInvariance, MadeInvariance, PTL DEF Spec, TypingStaysInRow

---------------------------------------------------------------------------
(* The tab left and opened again *)

\* F has the places of G, each b further on, and t there what s has.
Shifted(t, F, s, G, b) == F = {b + g : g \in G} /\ \A g \in G : t[b + g] = s[g]

\* A part of a list that another list has further on.
LEMMA AtShifted ==
    ASSUME NEW b \in Nat, NEW G, NEW c, NEW p, Enumerates(p, c, G), NEW F, NEW s, NEW t,
           Shifted(t, F, s, G, b)
    PROVE  At(t, F) = At(s, G)
<1>1. Enumerates(p, c, G)
  OBVIOUS
<1>2. /\ c \in Nat /\ p \in [1..c -> G] /\ \A k, l \in 1..c : k < l => p[k] < p[l]
      /\ \A i \in G : \E k \in 1..c : p[k] = i
      /\ G \subseteq Nat
  BY <1>1 DEF Enumerates
<1>3. PICK q : q = [k \in 1..c |-> b + p[k]]
  OBVIOUS
<1>4. \A k \in 1..c : p[k] \in G /\ p[k] \in Nat /\ q[k] = b + p[k]
  BY ONLY <1>2, <1>3
<1>5. Enumerates(q, c, F)
  <2> USE DEF Shifted
  <2>1. F \subseteq Nat
    <3>1. \A g \in G : b + g \in Nat
      BY <1>2
    <3>2. QED
      BY <3>1
  <2>2. q \in [1..c -> F]
    BY <1>3, <1>4
  <2>3. \A k, l \in 1..c : k < l => q[k] < q[l]
    <3> SUFFICES ASSUME NEW k \in 1..c, NEW l \in 1..c, k < l PROVE q[k] < q[l]
      OBVIOUS
    <3>1. p[k] < p[l]
      BY <1>2
    <3>2. QED
      BY <1>4, <3>1
  <2>4. \A i \in F : \E k \in 1..c : q[k] = i
    <3> SUFFICES ASSUME NEW i \in F PROVE \E k \in 1..c : q[k] = i
      OBVIOUS
    <3>1. PICK g \in G : i = b + g
      OBVIOUS
    <3>2. PICK k \in 1..c : p[k] = g
      BY <1>2
    <3>3. q[k] = i
      BY <1>4, <3>1, <3>2
    <3>4. QED
      BY <3>3
  <2>5. QED
    BY <1>2, <2>1, <2>2, <2>3, <2>4 DEF Enumerates
<1>6. At(s, G) = [k \in 1..c |-> s[p[k]]]
  BY ONLY <1>1, AtIs
<1>7. At(t, F) = [k \in 1..c |-> t[q[k]]]
  BY ONLY <1>5, AtIs
<1>8. \A k \in 1..c : t[q[k]] = s[p[k]]
  BY <1>4 DEF Shifted
<1>9. QED
  BY <1>6, <1>7, <1>8

\* The entries of each rule follow each other, those of no two rules have one group.
InGroups(entries, o, n, given) ==
    /\ n \in Nat /\ o \in [0..n -> Nat] /\ o[0] = 0 /\ o[n] = Len(entries)
    /\ \A i, j \in 0..n : i <= j => o[i] <= o[j]
    /\ \A i \in 1..n : \A x \in o[i - 1] + 1..o[i] : entries[x].upstream = given[i]
    /\ \A x \in 1..Len(entries) : \E i \in 1..n : x \in o[i - 1] + 1..o[i]
    /\ \A i, j \in 1..n : given[i] = given[j] => i = j

\* The places of the rules that have entries.
Filled(o, n) == {i \in 1..n : o[i - 1] < o[i]}

\* fromBackend makes one rule of the entries of every rule that has some.
LEMMA RunsOfGroups ==
    ASSUME NEW U, NEW entries \in Seq([path : Path, upstream : U]), NEW o, NEW n, NEW given,
           InGroups(entries, o, n, given)
    PROVE  /\ Starts(entries) = {o[i - 1] + 1 : i \in Filled(o, n)}
           /\ \A i \in Filled(o, n) : Run(entries, o[i - 1] + 1) = o[i - 1] + 1..o[i]
<1>1. PICK m, I : m = Len(entries) /\ I = Starts(entries)
  OBVIOUS
<1>2. m \in Nat /\ DOMAIN entries = 1..m
  BY <1>1, LenProperties
<1>3. /\ n \in Nat /\ o[0] = 0 /\ o[n] = m /\ \A i \in 0..n : o[i] \in Nat
      /\ \A i, j \in 0..n : i <= j => o[i] <= o[j]
  BY <1>1 DEF InGroups
<1>4. /\ \A i \in 1..n : \A x \in o[i - 1] + 1..o[i] : entries[x].upstream = given[i]
      /\ \A x \in 1..m : \E i \in 1..n : x \in o[i - 1] + 1..o[i]
      /\ \A i, j \in 1..n : given[i] = given[j] => i = j
  BY <1>1 DEF InGroups
<1>5. \A i \in 1..n : i - 1 \in 0..n /\ i \in 0..n /\ o[i - 1] \in Nat /\ o[i] \in Nat /\ o[i] <= m
  BY <1>3
<1>6. ASSUME NEW i \in 1..n, NEW x \in o[i - 1] + 1..o[i]
      PROVE  x \in 1..m /\ x \in Nat /\ o[i - 1] < x /\ x <= o[i] /\ i \in Filled(o, n)
  <2>1. o[i - 1] \in Nat /\ o[i] \in Nat /\ o[i] <= m
    BY <1>5
  <2>2. QED
    BY <1>2, <2>1 DEF Filled
\* A rule begins where the entries of a group do.
<1>7. ASSUME NEW i \in 1..n, NEW x \in o[i - 1] + 1..o[i]
      PROVE  x \in I <=> x = o[i - 1] + 1
  <2>1. x \in 1..m /\ x \in Nat /\ o[i - 1] < x /\ x <= o[i]
    BY <1>6
  <2>2. x \in I <=> (x > 1 => entries[x].upstream # entries[x - 1].upstream)
    BY <1>1, <1>2, <2>1 DEF Starts
  <2>3. entries[x].upstream = given[i]
    BY <1>4
  <2>4. o[i - 1] \in Nat /\ o[i] \in Nat
    BY <1>5
  <2>5. CASE x = o[i - 1] + 1
    <3>1. SUFFICES ASSUME x > 1 PROVE entries[x].upstream # entries[x - 1].upstream
      BY <2>2, <2>5
    <3>2. x - 1 \in 1..m
      BY <1>2, <2>1, <3>1
    <3>3. PICK j \in 1..n : x - 1 \in o[j - 1] + 1..o[j]
      BY <1>4, <3>2
    <3>4. entries[x - 1].upstream = given[j]
      BY <1>4, <3>3
    <3>5. j # i
      BY <2>1, <2>4, <2>5, <3>3
    <3>6. given[j] # given[i]
      BY <1>4, <3>5
    <3>7. QED
      BY <2>3, <3>4, <3>6
  <2>6. CASE x # o[i - 1] + 1
    <3>1. x > 1 /\ x - 1 \in o[i - 1] + 1..o[i]
      BY <2>1, <2>4, <2>6
    <3>2. entries[x - 1].upstream = given[i]
      BY <1>4, <3>1
    <3>3. QED
      BY <2>2, <2>3, <2>6, <3>1, <3>2
  <2>7. QED
    BY <2>5, <2>6
<1>8. ASSUME NEW i \in Filled(o, n)
      PROVE  /\ i \in 1..n /\ o[i - 1] < o[i]
             /\ o[i - 1] + 1 \in o[i - 1] + 1..o[i] /\ o[i - 1] + 1 \in 1..m
  <2>1. i \in 1..n /\ o[i - 1] < o[i]
    BY DEF Filled
  <2>2. o[i - 1] \in Nat /\ o[i] \in Nat
    BY <1>5, <2>1
  <2>3. o[i - 1] + 1 \in o[i - 1] + 1..o[i]
    BY <2>1, <2>2
  <2>4. QED
    BY <1>6, <2>1, <2>3
<1>9. I \subseteq 1..m
  BY <1>1, <1>2 DEF Starts
<1>10. I = {o[i - 1] + 1 : i \in Filled(o, n)}
  <2>1. ASSUME NEW x \in I PROVE \E i \in Filled(o, n) : x = o[i - 1] + 1
    <3>1. PICK i \in 1..n : x \in o[i - 1] + 1..o[i]
      BY <1>4, <1>9
    <3>2. i \in Filled(o, n)
      BY <1>6, <3>1
    <3>3. x = o[i - 1] + 1
      BY <1>7, <3>1
    <3>4. QED
      BY <3>2, <3>3
  <2>2. ASSUME NEW i \in Filled(o, n) PROVE o[i - 1] + 1 \in I
    <3>1. i \in 1..n /\ o[i - 1] + 1 \in o[i - 1] + 1..o[i]
      BY <1>8
    <3>2. PICK x : x = o[i - 1] + 1
      OBVIOUS
    <3>3. x \in I
      BY <1>7, <3>1, <3>2
    <3>4. QED
      BY <3>2, <3>3
  <2>3. QED
    BY <2>1, <2>2
<1>11. ASSUME NEW i \in Filled(o, n)
       PROVE  Run(entries, o[i - 1] + 1) = o[i - 1] + 1..o[i]
  <2>1. PICK a, b : a = o[i - 1] + 1 /\ b = o[i]
    OBVIOUS
  <2>2. i \in 1..n /\ a \in 1..m /\ a <= b /\ b \in Nat /\ b <= m /\ o[i - 1] \in Nat
    BY <1>5, <1>8, <2>1
  <2>3. Run(entries, a) = {j \in 1..m : a <= j /\ \A k \in a + 1..j : k \notin I}
    BY <1>1, <1>2 DEF Run
  <2>4. \A k \in a..b : k \in I <=> k = a
    BY <1>7, <2>1, <2>2
  <2>5. ASSUME NEW j \in a..b PROVE j \in Run(entries, a)
    <3>1. j \in 1..m /\ a <= j
      BY <1>2, <2>2
    <3>2. \A k \in a + 1..j : k \notin I
      BY <2>2, <2>4, <3>1
    <3>3. QED
      BY <2>3, <3>1, <3>2
  <2>6. ASSUME NEW j \in Run(entries, a) PROVE j \in a..b
    <3>1. j \in 1..m /\ a <= j /\ \A k \in a + 1..j : k \notin I
      BY <2>3
    <3>2. SUFFICES ASSUME b < j PROVE FALSE
      BY <1>2, <2>2, <3>1
    <3>3. PICK y : y = b + 1
      OBVIOUS
    <3>4. y \in 1..m /\ y \in a + 1..j
      BY <1>2, <2>2, <3>1, <3>2, <3>3
    <3>5. PICK h \in 1..n : y \in o[h - 1] + 1..o[h]
      BY <1>4, <3>4
    <3>6. o[h - 1] \in Nat /\ o[h] \in Nat /\ o[h - 1] < y /\ y <= o[h] /\ h - 1 \in 0..n /\ h \in 0..n
      BY <1>5, <1>6, <3>5
    <3>7. i < h
      <4>1. ~(h <= i)
        <5> SUFFICES ASSUME h <= i PROVE FALSE
          OBVIOUS
        <5>1. i \in 0..n
          BY <1>5, <2>2
        <5>2. o[h] <= o[i]
          BY <1>3, <3>6, <5>1
        <5>3. QED
          BY <2>1, <2>2, <3>3, <3>6, <5>2
      <4>2. QED
        BY <1>3, <2>2, <4>1
    <3>8. b <= o[h - 1]
      <4>1. i <= h - 1 /\ i \in 0..n
        BY <1>3, <1>5, <2>2, <3>7
      <4>2. QED
        BY <1>3, <2>1, <3>6, <4>1
    <3>9. y = o[h - 1] + 1
      BY <2>2, <3>3, <3>6, <3>8
    <3>10. y \in I
      BY <1>7, <3>5, <3>9
    <3>11. QED
      BY <3>1, <3>4, <3>10
  <2>7. Run(entries, a) = a..b
    BY <2>5, <2>6
  <2>8. QED
    BY <2>1, <2>7
<1>12. QED
  BY <1>1, <1>10, <1>11

\* What commitToConfig writes is in groups.
LEMMA CommitGroups ==
    ASSUME NEW cat \in Seq(Item), NEW rs \in Seq(Rule), GroupsTyped(groups),
           CommitToConfig(cat, rs)
    PROVE  /\ rulesets' \in Seq(EntriesOf(groups'))
           /\ \E o : /\ InGroups(rulesets', o, Len(rs), GroupNames(rs))
                     /\ \A i \in 1..Len(rs) :
                            /\ o[i] = o[i - 1] + Len(PathsOf(cat, rs[i]))
                            /\ \A k \in 1..Len(PathsOf(cat, rs[i])) :
                                   rulesets'[o[i - 1] + k].path = PathsOf(cat, rs[i])[k]
<1>0. PICK given : given = GroupNames(rs)
  OBVIOUS
<1>1. PICK n, es : n = Len(rs) /\ es = EntriesOfRules(cat, rs, given)
  OBVIOUS
<1>2. /\ \A i \in 1..n : given[i] \in DOMAIN groups'
      /\ rulesets' = FlattenSeq(es)
  BY <1>0, <1>1, CommitOK
<1>3. PICK U : U = DOMAIN groups'
  OBVIOUS
<1>4. \A i \in 1..Len(rs) : given[i] \in U
  BY <1>1, <1>2, <1>3
<1>5. /\ EntriesOfRules(cat, rs, given) \in Seq(Seq([path : Path, upstream : U]))
      /\ PairsOfRules(cat, rs) \in Seq(Seq(Pair))
      /\ Len(EntriesOfRules(cat, rs, given)) = Len(rs)
      /\ Len(PairsOfRules(cat, rs)) = Len(rs)
      /\ \A i \in 1..Len(rs) :
             /\ Len(EntriesOfRules(cat, rs, given)[i]) = Len(PathsOf(cat, rs[i]))
             /\ Len(PairsOfRules(cat, rs)[i]) = Len(PathsOf(cat, rs[i]))
             /\ \A k \in 1..Len(PathsOf(cat, rs[i])) :
                    /\ EntriesOfRules(cat, rs, given)[i][k] =
                           [path |-> PathsOf(cat, rs[i])[k], upstream |-> given[i]]
                    /\ PairsOfRules(cat, rs)[i][k] =
                           [path |-> PathsOf(cat, rs[i])[k], to |-> rs[i].settings]
  BY <1>4, ListsOfRules
<1>6. /\ es \in Seq(Seq([path : Path, upstream : U])) /\ Len(es) = n
      /\ \A i \in 1..n : Len(es[i]) = Len(PathsOf(cat, rs[i]))
      /\ \A i \in 1..n : \A k \in 1..Len(es[i]) :
             es[i][k] = [path |-> PathsOf(cat, rs[i])[k], upstream |-> given[i]]
  BY <1>1, <1>5
<1>7. PICK o : Offsets(o, es)
  BY <1>6, OffsetsExist
<1>8. /\ n \in Nat /\ o \in [0..n -> Nat] /\ o[0] = 0
      /\ \A i \in 1..n : Len(es[i]) \in Nat /\ o[i] = o[i - 1] + Len(es[i])
  BY <1>6, <1>7 DEF Offsets
<1>9. PICK entries : entries = rulesets'
  OBVIOUS
<1>10. /\ entries \in Seq([path : Path, upstream : U]) /\ Len(entries) = o[n]
       /\ \A i \in 1..n : \A k \in 1..Len(es[i]) : entries[o[i - 1] + k] = es[i][k]
  <2>1. PICK R : R = [path : Path, upstream : U]
    OBVIOUS
  <2>2. es \in Seq(Seq(R))
    BY <1>6, <2>1
  <2>3. /\ FlattenSeq(es) \in Seq(R)
        /\ Len(FlattenSeq(es)) = o[Len(es)]
        /\ \A i \in 1..Len(es) : \A k \in 1..Len(es[i]) : FlattenSeq(es)[o[i - 1] + k] = es[i][k]
    BY ONLY <1>7, <2>2, Flattened
  <2>4. QED
    BY ONLY <1>2, <1>6, <1>9, <2>1, <2>3
<1>11. \A i, j \in 0..n : i <= j => o[i] <= o[j]
  BY <1>6, <1>7, OffsetsGrow
<1>12. ASSUME NEW i \in 1..n, NEW x \in o[i - 1] + 1..o[i]
       PROVE  entries[x].upstream = given[i]
  <2>1. i - 1 \in 0..n /\ o[i - 1] \in Nat /\ Len(es[i]) \in Nat /\ o[i] = o[i - 1] + Len(es[i])
    BY <1>8
  <2>2. PICK k : k = x - o[i - 1]
    OBVIOUS
  <2>3. k \in 1..Len(es[i]) /\ x = o[i - 1] + k
    BY <2>1, <2>2, SMTT(30)
  <2>4. entries[x] = es[i][k]
    BY <1>10, <2>3
  <2>5. es[i][k] = [path |-> PathsOf(cat, rs[i])[k], upstream |-> given[i]]
    BY <1>6, <2>3
  <2>6. QED
    BY <2>4, <2>5
<1>13. ASSUME NEW x \in 1..Len(entries) PROVE \E i \in 1..n : x \in o[i - 1] + 1..o[i]
  <2>1. x \in 1..o[Len(es)]
    BY <1>6, <1>10
  <2>2. PICK i \in 1..Len(es) : \E k \in 1..Len(es[i]) : x = o[i - 1] + k
    BY ONLY <1>7, <2>1, OffsetsCover
  <2>3. i \in 1..n /\ i - 1 \in 0..n /\ o[i - 1] \in Nat /\ Len(es[i]) \in Nat /\ o[i] = o[i - 1] + Len(es[i])
    BY <1>6, <1>8, <2>2
  <2>4. PICK k \in 1..Len(es[i]) : x = o[i - 1] + k
    BY <2>2
  <2>5. x \in o[i - 1] + 1..o[i]
    BY <2>3, <2>4
  <2>6. QED
    BY <2>3, <2>5
<1>14. \A i, j \in 1..n : given[i] = given[j] => i = j
  <2>1. Len(given) = n /\ Given(given)
    BY <1>0, <1>1, GroupNamesOK
  <2>2. QED
    BY <2>1 DEF Given
<1>15. InGroups(entries, o, n, given)
  BY <1>8, <1>10, <1>11, <1>12, <1>13, <1>14 DEF InGroups
<1>16. ASSUME NEW i \in 1..n
       PROVE  /\ o[i] = o[i - 1] + Len(PathsOf(cat, rs[i]))
              /\ \A k \in 1..Len(PathsOf(cat, rs[i])) :
                     entries[o[i - 1] + k].path = PathsOf(cat, rs[i])[k]
  <2>1. o[i] = o[i - 1] + Len(PathsOf(cat, rs[i]))
    BY <1>6, <1>8
  <2>2. ASSUME NEW k \in 1..Len(PathsOf(cat, rs[i]))
        PROVE  entries[o[i - 1] + k].path = PathsOf(cat, rs[i])[k]
    <3>1. k \in 1..Len(es[i])
      BY <1>6
    <3>2. entries[o[i - 1] + k] = es[i][k]
      BY <1>10, <3>1
    <3>3. es[i][k] = [path |-> PathsOf(cat, rs[i])[k], upstream |-> given[i]]
      BY <1>6, <3>1
    <3>4. QED
      BY <3>2, <3>3
  <2>3. QED
    BY <2>1, <2>2
<1>17. rulesets' \in Seq(EntriesOf(groups'))
  BY <1>3, <1>9, <1>10 DEF EntriesOf
<1>18. QED
  BY <1>0, <1>1, <1>9, <1>15, <1>16, <1>17

\* The entries with these paths are those of one rule.
MakeOne(E, b, paths) ==
    /\ b + Len(paths) <= Len(E)
    /\ \A k \in 1..Len(paths) : E[b + k].path = paths[k]
    /\ Run(E, b + 1) = b + 1..b + Len(paths)

\* What the rule shows that is made of the entries of a rule: the paths of that
\* one, each once.
LEMMA PathsAgain ==
    ASSUME NEW E, Len(E) \in Nat,
           NEW paths \in Seq(Path), NEW b \in Nat, paths # <<>>, MakeOne(E, b, paths),
           NEW again, again = At(PathAt(E), FirstInRun(E, b + 1))
    PROVE  again # <<>> /\ FirstOnes(again) = FirstOnes(paths)
<1>1. PICK l, m : l = Len(paths) /\ m = Len(E)
  OBVIOUS
<1>2. /\ l \in Nat /\ l # 0 /\ m \in Nat /\ b + l <= m /\ DOMAIN paths = 1..l
      /\ \A k \in 1..l : paths[k] \in Path
  BY <1>1, LenProperties DEF MakeOne
<1>3. PICK all : all = PathAt(E)
  OBVIOUS
<1>4. \A k \in 1..l : b + k \in 1..m /\ all[b + k] = paths[k] /\ E[b + k].path = paths[k]
  <2> SUFFICES ASSUME NEW k \in 1..l
               PROVE  b + k \in 1..m /\ all[b + k] = paths[k] /\ E[b + k].path = paths[k]
    OBVIOUS
  <2>1. b + k \in 1..m
    BY <1>2
  <2>2. E[b + k].path = paths[k]
    BY <1>1 DEF MakeOne
  <2>3. QED
    BY <1>1, <1>3, <2>1, <2>2 DEF PathAt
<1>5. PICK G : G = {k \in 1..l : \A j \in 1..l : j < k => paths[j] # paths[k]}
  OBVIOUS
<1>6. FirstOnes(paths) = At(paths, G)
  BY <1>2, <1>5 DEF FirstOnes, FirstAmong
<1>7. PICK R, F : R = b + 1..b + l /\ F = FirstInRun(E, b + 1)
  OBVIOUS
<1>8. F = {x \in R : \A y \in R : y < x => E[y].path # E[x].path}
  BY <1>1, <1>7 DEF FirstInRun, MakeOne
<1>9. \A x \in R : x - b \in 1..l /\ b + (x - b) = x
  BY <1>2, <1>7
<1>10. \A k \in 1..l : b + k \in R
  BY <1>2, <1>7
<1>11. F = {b + g : g \in G}
  <2>1. ASSUME NEW x \in F PROVE \E g \in G : x = b + g
    <3>1. PICK g : g = x - b
      OBVIOUS
    <3>2. x \in R /\ g \in 1..l /\ x = b + g
      BY <1>8, <1>9, <3>1
    <3>3. \A j \in 1..l : j < g => paths[j] # paths[g]
      <4> SUFFICES ASSUME NEW j \in 1..l, j < g PROVE paths[j] # paths[g]
        OBVIOUS
      <4>1. PICK y : y = b + j
        OBVIOUS
      <4>2. y \in R /\ y < x
        <5>1. y \in R
          BY <1>10, <4>1
        <5>2. b \in Nat /\ j \in Nat /\ g \in Nat
          BY <1>2, <3>2
        <5>3. QED
          BY ONLY j < g, <3>2, <4>1, <5>1, <5>2
      <4>3. E[y].path # E[x].path
        BY <1>8, <4>2
      <4>4. E[y].path = paths[j] /\ E[x].path = paths[g]
        BY <1>4, <3>2, <4>1
      <4>5. QED
        BY <4>3, <4>4
    <3>4. QED
      BY <1>5, <3>2, <3>3
  <2>2. ASSUME NEW g \in G, NEW x, x = b + g PROVE x \in F
    <3>1. g \in 1..l /\ x \in R
      BY <1>5, <1>10, <2>2
    <3>2. \A y \in R : y < x => E[y].path # E[x].path
      <4> SUFFICES ASSUME NEW y \in R, y < x PROVE E[y].path # E[x].path
        OBVIOUS
      <4>1. PICK j : j = y - b
        OBVIOUS
      <4>2. j \in 1..l /\ b + j = y
        BY <1>9, <4>1
      <4>3. j < g
        BY <1>2, <2>2, <3>1, <4>2
      <4>4. paths[j] # paths[g]
        BY <1>5, <4>2, <4>3
      <4>5. E[y].path = paths[j] /\ E[x].path = paths[g]
        BY <1>4, <2>2, <3>1, <4>2
      <4>6. QED
        BY <4>4, <4>5
    <3>3. QED
      BY <1>8, <3>1, <3>2
  <2>3. QED
    BY <2>1, <2>2
<1>12. G \in SUBSET (1..l) /\ \A g \in G : all[b + g] = paths[g]
  BY <1>4, <1>5
<1>13. At(all, F) = At(paths, G)
  <2>1. l \in Nat
    BY <1>2
  <2>2. Shifted(all, F, paths, G, b)
    BY <1>11, <1>12 DEF Shifted
  <2>3. G \in SUBSET (1..l)
    BY <1>12
  <2>4. PICK c, p : Enumerates(p, c, G)
    BY <2>1, <2>3, Enumerated
  <2>5. QED
    BY <2>2, <2>4, AtShifted
<1>14. again = FirstOnes(paths)
  BY <1>3, <1>6, <1>7, <1>13
<1>15. ToSet(again) = ToSet(paths) /\ Differ(again)
  BY <1>14, FirstOnesAre
<1>16. again \in Seq(Path)
  BY <1>14, FilteredOK
<1>17. FirstOnes(again) = again
  BY <1>15, <1>16, FirstOnesOfDiffer
<1>18. again # <<>>
  <2>1. paths[1] \in ToSet(paths)
    BY <1>2 DEF ToSet
  <2>2. ToSet(<<>>) = {}
    BY DEF ToSet
  <2>3. QED
    BY <1>15, <2>1, <2>2
<1>19. QED
  BY <1>14, <1>17, <1>18

\* What the list of rules has that the remounted tab is compared by.
Shows(cat, rule) ==
    [paths |-> FirstOnes(PathsOf(cat, rule)), settings |-> rule.settings, subnet |-> rule.subnet]

\* The rules that route anything are a part of what all the rules show.
LEMMA RoutingIs ==
    ASSUME NEW cat, NEW rs
    PROVE  Routing(cat, rs) = At([i \in DOMAIN rs |-> Shows(cat, rs[i])],
                                 {i \in DOMAIN rs : PathsOf(cat, rs[i]) # <<>>})
BY DEF Routing, Shows

\* The rule made of the entries of a rule shows what that one does.
LEMMA RuleAgain ==
    ASSUME NEW cat \in Seq(Item), NEW rs \in Seq(Rule), GroupsTyped(groups),
           CommitToConfig(cat, rs), NEW o, InGroups(rulesets', o, Len(rs), GroupNames(rs)),
           \A i \in 1..Len(rs) :
               /\ o[i] = o[i - 1] + Len(PathsOf(cat, rs[i]))
               /\ \A k \in 1..Len(PathsOf(cat, rs[i])) :
                      rulesets'[o[i - 1] + k].path = PathsOf(cat, rs[i])[k],
           NEW i \in Filled(o, Len(rs))
    PROVE  LET cat2 == CatalogOf(rulesets')
               rule == RuleAt(groups', cat2, rulesets')[o[i - 1] + 1]
           IN PathsOf(cat2, rule) # <<>> /\ Shows(cat2, rule) = Shows(cat, rs[i])
<1>1. PICK n, entries, given, grps :
          n = Len(rs) /\ entries = rulesets' /\ given = GroupNames(rs) /\ grps = groups'
  OBVIOUS
<1>2. /\ GroupsTyped(grps)
      /\ \A j \in 1..n : given[j] \in DOMAIN grps /\ grps[given[j]] = GroupOf(rs[j])
  BY <1>1, CommitOK
<1>3. entries \in Seq(EntriesOf(grps))
  BY <1>1, CommitGroups
<1>4. InGroups(entries, o, n, given)
  BY <1>1
<1>5. PICK U : U = DOMAIN grps
  OBVIOUS
<1>6. entries \in Seq([path : Path, upstream : U])
  BY <1>3, <1>5 DEF EntriesOf
<1>7. i \in Filled(o, n)
  BY <1>1
<1>8. PICK paths, b : paths = PathsOf(cat, rs[i]) /\ b = o[i - 1]
  OBVIOUS
<1>9. i \in 1..n /\ n \in Nat /\ i - 1 \in 0..n /\ i \in 0..n /\ o[i - 1] < o[i]
  BY <1>4, <1>7 DEF Filled, InGroups
<1>10. rs[i] \in Rule
  BY <1>1, <1>9, LenProperties
<1>11. paths \in Seq(Path)
  BY <1>8, <1>10, PathsOfIs
<1>12. PICK l : l = Len(paths)
  OBVIOUS
<1>13. /\ o[i] = b + l /\ b \in Nat /\ l \in Nat /\ o[i] <= Len(entries)
       /\ \A k \in 1..l : entries[b + k].path = paths[k]
  <2>1. o[i] = b + l /\ \A k \in 1..l : entries[b + k].path = paths[k]
    BY <1>1, <1>8, <1>9, <1>12
  <2>2. b \in Nat /\ o[i] <= o[n] /\ o[n] = Len(entries)
    BY <1>4, <1>8, <1>9 DEF InGroups
  <2>3. l \in Nat
    BY <1>11, <1>12, LenProperties
  <2>4. QED
    BY <2>1, <2>2, <2>3
<1>14. l > 0 /\ paths # <<>>
  <2>1. l > 0
    BY <1>8, <1>9, <1>13
  <2>2. QED
    BY <1>12, <2>1
<1>15. Run(entries, b + 1) = b + 1..b + l
  <2>1. \A j \in Filled(o, n) : Run(entries, o[j - 1] + 1) = o[j - 1] + 1..o[j]
    BY ONLY <1>4, <1>6, RunsOfGroups
  <2>2. QED
    BY <1>7, <1>8, <1>13, <2>1
<1>16. PICK cat2, x : cat2 = CatalogOf(entries) /\ x = b + 1
  OBVIOUS
<1>17. x \in 1..Len(entries)
  <2>1. Len(entries) \in Nat
    BY <1>3, LenProperties
  <2>2. QED
    BY <1>13, <1>14, <1>16, <2>1
<1>18. PICK rule : rule = RuleAt(grps, cat2, entries)[x]
  OBVIOUS
<1>19. /\ rule.settings = grps[entries[x].upstream].settings
       /\ rule.subnet = grps[entries[x].upstream].kebab
       /\ PathsOf(cat2, rule) = At(PathAt(entries), FirstInRun(entries, x))
  BY <1>2, <1>3, <1>16, <1>17, <1>18, BackendRule
<1>20. entries[x].upstream = given[i]
  <2>1. x \in o[i - 1] + 1..o[i]
    BY <1>8, <1>13, <1>14, <1>16
  <2>2. QED
    BY <1>4, <1>9, <2>1 DEF InGroups
<1>21. rule.settings = rs[i].settings /\ rule.subnet = rs[i].subnet
  <2>1. grps[given[i]] = GroupOf(rs[i])
    BY <1>2, <1>9
  <2>2. GroupOf(rs[i]).settings = rs[i].settings /\ GroupOf(rs[i]).kebab = rs[i].subnet
    BY DEF GroupOf
  <2>3. QED
    BY <1>19, <1>20, <2>1, <2>2
<1>22. PICK again : again = At(PathAt(entries), FirstInRun(entries, b + 1))
  OBVIOUS
<1>23. again # <<>> /\ FirstOnes(again) = FirstOnes(paths)
  <2>1. MakeOne(entries, b, paths)
    BY <1>12, <1>13, <1>15 DEF MakeOne
  <2>2. b \in Nat /\ paths # <<>>
    BY <1>13, <1>14
  <2>3. Len(entries) \in Nat
    BY <1>3, LenProperties
  <2>4. QED
    BY ONLY <1>11, <1>22, <2>1, <2>2, <2>3, PathsAgain
<1>24. PathsOf(cat2, rule) = again
  BY <1>16, <1>19, <1>22
<1>25. Shows(cat2, rule) = Shows(cat, rs[i])
  BY <1>8, <1>21, <1>23, <1>24 DEF Shows
<1>26. QED
  BY <1>1, <1>8, <1>16, <1>18, <1>23, <1>24, <1>25

\* What commitToConfig writes shows the same rules when it is opened again.
LEMMA CommitRemounts ==
    ASSUME NEW cat \in Seq(Item), NEW rs \in Seq(Rule), GroupsTyped(groups),
           CommitToConfig(cat, rs)
    PROVE  LET boot == FromBackend(groups', rulesets')
           IN Routing(boot.catalog, boot.rules) = Routing(cat, rs)
<1>1. PICK n, entries, given, grps :
          n = Len(rs) /\ entries = rulesets' /\ given = GroupNames(rs) /\ grps = groups'
  OBVIOUS
<1>2. PICK o : /\ InGroups(rulesets', o, Len(rs), GroupNames(rs))
               /\ \A i \in 1..Len(rs) :
                      /\ o[i] = o[i - 1] + Len(PathsOf(cat, rs[i]))
                      /\ \A k \in 1..Len(PathsOf(cat, rs[i])) :
                             rulesets'[o[i - 1] + k].path = PathsOf(cat, rs[i])[k]
  BY CommitGroups
<1>3. entries \in Seq(EntriesOf(grps))
  BY <1>1, CommitGroups
<1>4. InGroups(entries, o, n, given)
  BY <1>1, <1>2
<1>5. PICK U : U = DOMAIN grps
  OBVIOUS
<1>6. entries \in Seq([path : Path, upstream : U])
  BY <1>3, <1>5 DEF EntriesOf
<1>7. PICK I, cat2 : I = Filled(o, n) /\ cat2 = CatalogOf(entries)
  OBVIOUS
<1>8. Starts(entries) = {o[i - 1] + 1 : i \in I}
  BY <1>4, <1>6, <1>7, RunsOfGroups
<1>9. /\ n \in Nat /\ \A i \in 0..n : o[i] \in Nat
      /\ \A i, j \in 0..n : i <= j => o[i] <= o[j]
  BY <1>4 DEF InGroups
<1>10. I \in SUBSET (1..n) /\ \A i \in I : o[i - 1] < o[i]
  BY <1>7 DEF Filled
<1>11. PICK d, q : Enumerates(q, d, I)
  BY <1>9, <1>10, Enumerated
<1>12. /\ d \in Nat /\ q \in [1..d -> I] /\ \A k, l \in 1..d : k < l => q[k] < q[l]
       /\ \A i \in I : \E k \in 1..d : q[k] = i
  BY <1>11 DEF Enumerates
<1>13. PICK p : p = [k \in 1..d |-> o[q[k] - 1] + 1]
  OBVIOUS
<1>14. ASSUME NEW k \in 1..d
       PROVE  /\ q[k] \in I /\ q[k] \in 1..n /\ q[k] - 1 \in 0..n /\ q[k] \in 0..n
              /\ p[k] = o[q[k] - 1] + 1 /\ p[k] \in Starts(entries) /\ p[k] \in Nat
              /\ o[q[k]] \in Nat /\ p[k] <= o[q[k]]
  <2>1. q[k] \in I /\ p[k] = o[q[k] - 1] + 1
    BY <1>12, <1>13
  <2>2. q[k] \in 1..n /\ o[q[k] - 1] < o[q[k]]
    BY <1>10, <2>1
  <2>3. q[k] - 1 \in 0..n /\ q[k] \in 0..n
    BY <1>9, <2>2
  <2>4. o[q[k] - 1] \in Nat /\ o[q[k]] \in Nat
    BY <1>9, <2>3
  <2>5. p[k] \in Starts(entries)
    BY <1>8, <2>1
  <2>6. QED
    BY <2>1, <2>2, <2>3, <2>4, <2>5
<1>15. PICK S : S = Starts(entries)
  OBVIOUS
<1>16. Enumerates(p, d, S)
  <2>1. p \in [1..d -> S]
    BY <1>13, <1>14, <1>15
  <2>2. \A k, l \in 1..d : k < l => p[k] < p[l]
    <3> SUFFICES ASSUME NEW k \in 1..d, NEW l \in 1..d, k < l PROVE p[k] < p[l]
      OBVIOUS
    <3>1. q[k] < q[l] /\ q[k] \in 1..n /\ q[l] \in 1..n
      BY <1>12, <1>14
    <3>2. q[k] <= q[l] - 1 /\ q[k] \in 0..n /\ q[l] - 1 \in 0..n
      BY <1>9, <3>1
    <3>3. o[q[k]] <= o[q[l] - 1]
      BY <1>9, <3>2
    <3>4. p[k] <= o[q[k]] /\ p[l] = o[q[l] - 1] + 1 /\ p[k] \in Nat /\ p[l] \in Nat
      BY <1>14
    <3>5. o[q[k]] \in Nat /\ o[q[l] - 1] \in Nat
      BY <1>9, <3>2
    <3>6. QED
      BY <3>3, <3>4, <3>5, SMTT(30)
  <2>3. \A x \in S : \E k \in 1..d : p[k] = x
    <3> SUFFICES ASSUME NEW x \in S PROVE \E k \in 1..d : p[k] = x
      OBVIOUS
    <3>1. PICK i \in I : x = o[i - 1] + 1
      BY <1>8, <1>15
    <3>2. PICK k \in 1..d : q[k] = i
      BY <1>12
    <3>3. QED
      BY <1>13, <3>1, <3>2
  <2>4. S \subseteq Nat
    <3> SUFFICES ASSUME NEW x \in S PROVE x \in Nat
      OBVIOUS
    <3>1. PICK k \in 1..d : p[k] = x
      BY <2>3
    <3>2. QED
      BY <1>14, <3>1
  <2>5. QED
    BY <1>12, <2>1, <2>2, <2>3, <2>4 DEF Enumerates
<1>17. PICK ruleAt, again : ruleAt = RuleAt(grps, cat2, entries) /\ again = At(ruleAt, S)
  OBVIOUS
<1>18. again = [k \in 1..d |-> ruleAt[p[k]]]
  <2>1. At(ruleAt, S) = [k \in 1..d |-> ruleAt[p[k]]]
    BY ONLY <1>16, AtIs
  <2>2. QED
    BY <1>17, <2>1
<1>19. FromBackend(groups', rulesets') = [catalog |-> cat2, rules |-> again]
  BY <1>1, <1>7, <1>15, <1>17, FromBackendIs
<1>20. ASSUME NEW k \in 1..d
       PROVE  PathsOf(cat2, again[k]) # <<>> /\ Shows(cat2, again[k]) = Shows(cat, rs[q[k]])
  <2>1. PICK i : i = q[k]
    OBVIOUS
  <2>2. i \in Filled(o, Len(rs))
    BY <1>1, <1>7, <1>14, <2>1
  <2>3. LET c2 == CatalogOf(rulesets')
            rule == RuleAt(groups', c2, rulesets')[o[i - 1] + 1]
        IN PathsOf(c2, rule) # <<>> /\ Shows(c2, rule) = Shows(cat, rs[i])
    BY <1>2, <2>2, RuleAgain
  <2>4. again[k] = RuleAt(groups', CatalogOf(rulesets'), rulesets')[o[i - 1] + 1]
    BY <1>1, <1>7, <1>14, <1>17, <1>18, <2>1
  <2>5. QED
    BY <1>1, <1>7, <2>1, <2>3, <2>4
\* All the rules of the remounted tab route something.
<1>21. PICK u, w : /\ u = [k \in DOMAIN again |-> Shows(cat2, again[k])]
                   /\ w = [i \in DOMAIN rs |-> Shows(cat, rs[i])]
  OBVIOUS
<1>22. DOMAIN again = 1..d /\ DOMAIN rs = 1..n
  BY <1>1, <1>18, LenProperties
<1>23. {k \in DOMAIN again : PathsOf(cat2, again[k]) # <<>>} = 1..d
  BY <1>20, <1>22
<1>24. At(u, 1..d) = [k \in 1..d |-> u[k]]
  <2>1. PICK r, D : r = [k \in 1..d |-> k] /\ D = 1..d
    OBVIOUS
  <2>2. Enumerates(r, d, D)
    BY <1>12, <2>1 DEF Enumerates
  <2>3. At(u, D) = [k \in 1..d |-> u[r[k]]]
    BY ONLY <2>2, AtIs
  <2>4. QED
    BY <2>1, <2>3
<1>25. Routing(cat2, again) = [k \in 1..d |-> u[k]]
  BY <1>21, <1>23, <1>24, RoutingIs
<1>26. {i \in DOMAIN rs : PathsOf(cat, rs[i]) # <<>>} = I
  <2> SUFFICES ASSUME NEW i \in 1..n PROVE PathsOf(cat, rs[i]) # <<>> <=> o[i - 1] < o[i]
    BY <1>7, <1>22 DEF Filled
  <2>1. PICK paths : paths = PathsOf(cat, rs[i])
    OBVIOUS
  <2>2. rs[i] \in Rule
    BY <1>1, LenProperties
  <2>3. paths \in Seq(Path)
    BY <2>1, <2>2, PathsOfIs
  <2>4. Len(paths) \in Nat /\ (paths = <<>> <=> Len(paths) = 0)
    BY <2>3, EmptySeq, LenProperties
  <2>5. o[i] = o[i - 1] + Len(paths)
    BY <1>1, <1>2, <2>1
  <2>6. o[i - 1] \in Nat
    <3>1. i - 1 \in 0..n
      BY <1>9
    <3>2. QED
      BY <1>9, <3>1
  <2>7. QED
    BY <2>1, <2>4, <2>5, <2>6
<1>27. Routing(cat, rs) = [k \in 1..d |-> w[q[k]]]
  <2>1. At(w, I) = [k \in 1..d |-> w[q[k]]]
    BY ONLY <1>11, AtIs
  <2>2. QED
    BY <1>21, <1>26, <2>1, RoutingIs
<1>28. \A k \in 1..d : u[k] = w[q[k]]
  BY <1>14, <1>20, <1>21, <1>22
<1>29. Routing(cat2, again) = Routing(cat, rs)
  BY <1>25, <1>27, <1>28
<1>30. QED
  BY <1>19, <1>29

\* Edits commit what can be shown again, and a mount shows it.
LEMMA RemountStep ==
    ASSUME TypeInv, RemountKeepsRules, [Next]_vars
    PROVE  RemountKeepsRules'
<1> SUFFICES ASSUME tab' = "rules"
             PROVE  Routing(FromBackend(groups', rulesets').catalog,
                            FromBackend(groups', rulesets').rules) = Routing(catalog', rules')
  BY DEF RemountKeepsRules
<1>1. CASE UNCHANGED <<groups, rulesets, catalog, rules>> /\ tab = "rules"
  BY <1>1 DEF RemountKeepsRules
<1>2. ASSUME catalog' = FromBackend(groups', rulesets').catalog,
             rules' = FromBackend(groups', rulesets').rules
      PROVE  Routing(FromBackend(groups', rulesets').catalog,
                     FromBackend(groups', rulesets').rules) = Routing(catalog', rules')
  BY <1>2
<1>3. CASE tab # "rules"
  <2>1. PICK t \in Tabs : OpenTab(t)
    BY <1>3 DEF Next, vars, EditBasicTab, EditRulesTab, EditHostsTab, Edited, Save, Cancel, Load
  <2>2. catalog' = FromBackend(groups', rulesets').catalog /\ rules' = FromBackend(groups', rulesets').rules
    BY <2>1 DEF OpenTab, Mount
  <2>3. QED
    BY <1>2, <2>2
<1>4. ASSUME catalog' \in Seq(Item), rules' \in Seq(Rule), CommitToConfig(catalog', rules')
      PROVE  Routing(FromBackend(groups', rulesets').catalog,
                     FromBackend(groups', rulesets').rules) = Routing(catalog', rules')
  <2>1. PICK cat, rs : cat = catalog' /\ rs = rules'
    OBVIOUS
  <2>2. cat \in Seq(Item) /\ rs \in Seq(Rule) /\ CommitToConfig(cat, rs) /\ GroupsTyped(groups)
    BY <1>4, <2>1 DEF TypeInv
  <2>3. LET boot == FromBackend(groups', rulesets')
        IN Routing(boot.catalog, boot.rules) = Routing(cat, rs)
    BY <2>2, CommitRemounts
  <2>4. QED
    BY <2>1, <2>3
<1>5. CASE tab = "rules"
  <2>1. CASE UNCHANGED <<groups, rulesets, catalog, rules>>
    BY <1>1, <1>5, <2>1
  <2>2. CASE catalog' \in Seq(Item) /\ rules' \in Seq(Rule) /\ CommitToConfig(catalog', rules')
    BY <1>4, <2>2
  <2>3. CASE /\ catalog' = FromBackend(groups', rulesets').catalog
             /\ rules' = FromBackend(groups', rulesets').rules
    BY <1>2, <2>3
  <2>4. QED
    BY <2>1, <2>2, <2>3, RulesTabStep
<1>6. QED
  BY <1>3, <1>5

\* The tab left and opened again shows the same rules, as far as they route
\* anything: none merged with its neighbour, split or given the settings of
\* another (RemountKeepsRules).
THEOREM RulesSurviveRemount == Spec => []RemountKeepsRules
<1>1. Init => RemountKeepsRules
  BY DEF Init, RemountKeepsRules
<1>2. TypeInv /\ RemountKeepsRules /\ [Next]_vars => RemountKeepsRules'
  BY RemountStep
<1>3. QED
  BY <1>1, <1>2, TypeInvariance, PTL DEF Spec
=============================================================================

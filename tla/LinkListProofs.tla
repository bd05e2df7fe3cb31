--------------------------- MODULE LinkListProofs ---------------------------
(***************************************************************************)
(* Proofs about the circular list, for any number of cells: the walks from *)
(* both ends meet the same cells, and the list implements the sequence of  *)
(* its elements.                                                           *)
(*                                                                         *)
(* The invariant says that the header and the live cells can be numbered   *)
(* from 0 to size so that next goes up, prev goes down, and both close the *)
(* ring at the header.  What the walks compute is defined by recursion;    *)
(* that such functions exist is proved first.                              *)
(***************************************************************************)
EXTENDS LinkList, FiniteSetTheorems, SequenceTheorems, NaturalsInduction,
        WellFoundedInduction, TLAPS

-------------------------------------------------------------------------------
(* Induction *)

LEMMA LeastNat ==
  ASSUME NEW S \in SUBSET Nat, S # {}
  PROVE  \E m \in S : \A n \in S : m <= n
<1> DEFINE R == {ss \in Nat \X Nat : ss[1] < ss[2]}
<1>1. IsWellFoundedOn(R, Nat)
  <2>1. OpToRel(<, Nat) = R
    BY Zenon DEF OpToRel
  <2> QED
    BY <2>1, NatLessThanWellFounded, Zenon
<1>2. \A x, y \in Nat : <<x, y>> \in R <=> x < y
  BY Zenon
<1> HIDE DEF R
<1>3. PICK m \in S : \A n \in S : <<n, m>> \notin R
  BY <1>1, WFMin
<1>4. \A n \in S : ~(n < m)
  BY <1>2, <1>3
<1> QED
  BY <1>4

LEMMA NatSetInduction ==
  ASSUME NEW S, 0 \in S, \A n \in S \cap Nat : n + 1 \in S
  PROVE  Nat \subseteq S
<1> SUFFICES ASSUME Nat \ S # {} PROVE FALSE
  OBVIOUS
<1>1. PICK m \in Nat \ S : \A n \in Nat \ S : m <= n
  BY LeastNat
<1>2. m # 0 /\ m - 1 \in Nat /\ (m - 1) + 1 = m
  BY <1>1
<1>3. m - 1 \in S
  BY <1>1, <1>2
<1> QED
  BY <1>1, <1>2, <1>3

Iterate(f, g, x, S) == f \in [Nat -> S] /\ f[0] = x /\ \A n \in Nat : f[n + 1] = g[f[n]]

(* The iterates of g exist: a function that is defined up to n can be        *)
(* extended by one, two such functions agree, and so their last values make  *)
(* one function.                                                             *)
LEMMA Iterates ==
  ASSUME NEW S, NEW g \in [S -> S], NEW x \in S
  PROVE  \E f : Iterate(f, g, x, S)
<1> DEFINE Upto(n, h) == /\ h \in [0 .. n -> S] /\ h[0] = x
                         /\ \A i \in 0 .. n : i # n => h[i + 1] = g[h[i]]
           P == {n \in Nat : \E h : Upto(n, h)}
<1>1. Nat \subseteq P
  <2>1. 0 \in P
    <3>1. Upto(0, [i \in 0 .. 0 |-> x])
      OBVIOUS
    <3> QED
      BY <3>1
  <2>2. ASSUME NEW n \in P PROVE n + 1 \in P
    <3>1. PICK h : Upto(n, h)
      OBVIOUS
    <3> DEFINE k == [i \in 0 .. n + 1 |-> IF i = n + 1 THEN g[h[n]] ELSE h[i]]
    <3>2. h[n] \in S /\ g[h[n]] \in S
      BY <3>1
    <3>3. k \in [0 .. n + 1 -> S] /\ k[0] = x
      BY <3>1, <3>2
    <3>4. ASSUME NEW i \in 0 .. n + 1, i # n + 1 PROVE k[i + 1] = g[k[i]]
      <4>1. i \in 0 .. n /\ i + 1 \in 0 .. n + 1 /\ k[i] = h[i]
        BY <3>4
      <4>2. CASE i = n
        BY <4>1, <4>2
      <4>3. CASE i # n
        BY <4>1, <4>3, <3>1
      <4> QED
        BY <4>2, <4>3
    <3>5. Upto(n + 1, k)
      BY <3>3, <3>4
    <3> QED
      BY <3>5
  <2> HIDE DEF P
  <2> QED
    BY <2>1, <2>2, NatSetInduction
<1> DEFINE H(n) == CHOOSE h : Upto(n, h)
<1>2. ASSUME NEW n \in Nat PROVE Upto(n, H(n))
  <2>1. \E h : Upto(n, h)
    BY <1>1
  <2> HIDE DEF Upto
  <2> QED
    BY <2>1
<1> HIDE DEF H
<1>3. ASSUME NEW n \in Nat PROVE H(n + 1)[n] = H(n)[n]
  <2> DEFINE a == H(n)
             b == H(n + 1)
             Q == {i \in Nat : i <= n => a[i] = b[i]}
  <2>1. Upto(n, a) /\ Upto(n + 1, b)
    <3>1. n + 1 \in Nat
      OBVIOUS
    <3> HIDE DEF Upto
    <3> QED
      BY <1>2, <3>1
  <2> HIDE DEF a, b
  <2>2. 0 \in Q
    BY <2>1
  <2>3. ASSUME NEW i \in Q PROVE i + 1 \in Q
    <3> SUFFICES ASSUME i + 1 <= n PROVE a[i + 1] = b[i + 1]
      OBVIOUS
    <3>1. i \in 0 .. n /\ i # n /\ i \in 0 .. n + 1 /\ i # n + 1 /\ a[i] = b[i]
      OBVIOUS
    <3> QED
      BY <2>1, <3>1
  <2>4. n \in Q
    <3> HIDE DEF Q
    <3> QED
      BY <2>2, <2>3, NatSetInduction
  <2> QED
    BY <2>4 DEF a, b
<1> DEFINE f == [n \in Nat |-> H(n)[n]]
<1>4. f \in [Nat -> S]
  <2>1. ASSUME NEW n \in Nat PROVE H(n)[n] \in S
    <3>1. n \in 0 .. n /\ H(n) \in [0 .. n -> S]
      BY <1>2
    <3> QED
      BY <3>1
  <2> QED
    BY <2>1
<1>5. f[0] = x
  BY <1>2
<1>6. ASSUME NEW n \in Nat PROVE f[n + 1] = g[f[n]]
  <2>2. n \in 0 .. n + 1 /\ n # n + 1 /\ n + 1 \in Nat
    OBVIOUS
  <2>1. Upto(n + 1, H(n + 1))
    <3> HIDE DEF Upto
    <3> QED
      BY <1>2, <2>2
  <2>3. H(n + 1)[n + 1] = g[H(n + 1)[n]]
    BY <2>1, <2>2
  <2> QED
    BY <2>2, <2>3, <1>3
<1> HIDE DEF f
<1> QED
  BY <1>4, <1>5, <1>6 DEF Iterate

-------------------------------------------------------------------------------
(* The ring *)

Addresses == Cells \cup {header}

(* s numbers the header and the cells in lv by 0 .. k, in the order of nx,   *)
(* and against that of pv.                                                   *)
RingOf(s, nx, pv, k, lv) ==
  /\ s \in [0 .. k -> lv \cup {header}] /\ s[0] = header
  /\ \A c \in lv : \E i \in 1 .. k : s[i] = c
  /\ \A i, j \in 0 .. k : s[i] = s[j] => i = j
  /\ \A i \in 0 .. k : nx[s[i]] = IF i = k THEN header ELSE s[i + 1]
  /\ \A i \in 0 .. k : pv[s[i]] = IF i = 0 THEN s[k] ELSE s[i - 1]

Heap ==
  /\ next \in [Addresses -> Addresses \cup {NULL}]
  /\ prev \in [Addresses -> Addresses \cup {NULL}]
  /\ DOMAIN elem = Addresses
  /\ live \subseteq Cells /\ size \in Nat /\ size = Cardinality(live)

ListInv == Heap /\ \E s \in [0 .. size -> Ring] : RingOf(s, next, prev, size, live)

(* Forward is the walk along next, Backward the one along prev. *)
Walk(nx) == LET f[n \in Nat] == IF n = 0 THEN header ELSE nx[f[n - 1]] IN f

LEMMA Walks == Forward = Walk(next) /\ Backward = Walk(prev)
  BY DEF Forward, Backward, Walk

LEMMA WalkStep ==
  ASSUME NEW S, header \in S, NEW nx, \A c \in S : nx[c] \in S
  PROVE  /\ Walk(nx)[0] = header
         /\ \A n \in Nat : Walk(nx)[n] \in S /\ Walk(nx)[n + 1] = nx[Walk(nx)[n]]
<1> DEFINE Eqn(f) == f = [n \in Nat |-> IF n = 0 THEN header ELSE nx[f[n - 1]]]
           W == Walk(nx)
<1>1. PICK f \in [Nat -> S] : f[0] = header /\ \A n \in Nat : f[n + 1] = nx[f[n]]
  <2> DEFINE g == [c \in S |-> nx[c]]
  <2>1. g \in [S -> S]
    OBVIOUS
  <2> HIDE DEF g
  <2>2. PICK f : Iterate(f, g, header, S)
    BY <2>1, Iterates
  <2> QED
    BY <2>2 DEF g, Iterate
<1>2. Eqn(f)
  <2>1. ASSUME NEW n \in Nat PROVE f[n] = IF n = 0 THEN header ELSE nx[f[n - 1]]
    <3>1. n # 0 => n - 1 \in Nat /\ (n - 1) + 1 = n
      OBVIOUS
    <3> QED
      BY <3>1, <1>1
  <2> QED
    BY <2>1
<1>3. W = CHOOSE h : Eqn(h)
  BY DEF Walk
<1> HIDE DEF W
<1>4. Eqn(W)
  <2> HIDE DEF Eqn
  <2> QED
    BY <1>2, <1>3
<1>5. W[0] = header
  BY <1>4
<1>6. ASSUME NEW n \in Nat PROVE W[n + 1] = nx[W[n]]
  <2>1. n + 1 \in Nat /\ n + 1 # 0 /\ (n + 1) - 1 = n
    OBVIOUS
  <2> QED
    BY <1>4, <2>1
<1>7. \A n \in Nat : W[n] \in S
  <2> DEFINE Q == {n \in Nat : W[n] \in S}
  <2>1. 0 \in Q /\ \A n \in Q \cap Nat : n + 1 \in Q
    BY <1>5, <1>6
  <2> HIDE DEF Q
  <2>2. Nat \subseteq Q
    BY <2>1, NatSetInduction
  <2> QED
    BY <2>2 DEF Q
<1> QED
  BY <1>5, <1>6, <1>7 DEF W

LEMMA RingWalk ==
  ASSUME NEW k \in Nat, NEW lv, NEW s, NEW nx, NEW pv, RingOf(s, nx, pv, k, lv)
  PROVE  /\ \A n \in 0 .. k : Walk(nx)[n] = s[n]
         /\ Walk(nx)[k + 1] = header /\ Walk(pv)[0] = header
         /\ \A n \in 1 .. k : Walk(pv)[n] = s[k + 1 - n]
         /\ \A n \in Nat : Walk(nx)[n] \in lv \cup {header}
<1> DEFINE S == lv \cup {header}
<1>1. \A c \in S : \E i \in 0 .. k : s[i] = c
  BY DEF RingOf
<1>2. header \in S /\ \A c \in S : nx[c] \in S /\ pv[c] \in S
  <2>1. \A i \in 0 .. k : s[i] \in S /\ (i # k => i + 1 \in 0 .. k) /\ (i # 0 => i - 1 \in 0 .. k)
                          /\ k \in 0 .. k
    BY DEF RingOf
  <2>2. \A i \in 0 .. k : nx[s[i]] \in S /\ pv[s[i]] \in S
    BY <2>1 DEF RingOf
  <2> QED
    BY <1>1, <2>2
<1> DEFINE W == Walk(nx)
           B == Walk(pv)
<1> HIDE DEF S
<1>3. W[0] = header /\ \A n \in Nat : W[n] \in S /\ W[n + 1] = nx[W[n]]
  BY <1>2, WalkStep
<1>4. B[0] = header /\ \A n \in Nat : B[n] \in S /\ B[n + 1] = pv[B[n]]
  BY <1>2, WalkStep
<1> HIDE DEF W, B
<1>5. \A n \in 0 .. k : W[n] = s[n]
  <2> DEFINE Q == {n \in Nat : n <= k => W[n] = s[n]}
  <2>1. 0 \in Q
    BY <1>3 DEF RingOf
  <2>2. ASSUME NEW n \in Q PROVE n + 1 \in Q
    <3> SUFFICES ASSUME n + 1 <= k PROVE W[n + 1] = s[n + 1]
      OBVIOUS
    <3>1. n \in 0 .. k /\ n # k /\ W[n] = s[n] /\ n \in Nat
      OBVIOUS
    <3>2. W[n + 1] = nx[s[n]]
      BY <3>1, <1>3
    <3> HIDE DEF Q
    <3> QED
      BY <3>1, <3>2 DEF RingOf
  <2> HIDE DEF Q
  <2>3. Nat \subseteq Q
    BY <2>1, <2>2, NatSetInduction
  <2> QED
    BY <2>3 DEF Q
<1>6. W[k + 1] = header
  <2>1. W[k] = s[k] /\ k \in 0 .. k
    BY <1>5
  <2> QED
    BY <2>1, <1>3 DEF RingOf
<1>7. \A n \in 1 .. k : B[n] = s[k + 1 - n]
  <2> DEFINE Q == {n \in Nat : n + 1 <= k => B[n + 1] = s[k - n]}
  <2>1. 0 \in Q
    BY <1>4 DEF RingOf
  <2>2. ASSUME NEW n \in Q PROVE n + 1 \in Q
    <3> SUFFICES ASSUME (n + 1) + 1 <= k PROVE B[(n + 1) + 1] = s[k - (n + 1)]
      OBVIOUS
    <3>1. n + 1 <= k /\ n + 1 \in Nat /\ k - n \in 0 .. k /\ k - n # 0 /\ (k - n) - 1 = k - (n + 1)
      OBVIOUS
    <3>2. B[n + 1] = s[k - n]
      BY <3>1
    <3>3. B[(n + 1) + 1] = pv[s[k - n]]
      BY <3>1, <3>2, <1>4
    <3> QED
      BY <3>1, <3>3 DEF RingOf
  <2> HIDE DEF Q
  <2>3. Nat \subseteq Q
    BY <2>1, <2>2, NatSetInduction
  <2>4. ASSUME NEW n \in 1 .. k PROVE B[n] = s[k + 1 - n]
    <3>1. n - 1 \in Nat /\ (n - 1) + 1 = n /\ n <= k /\ k - (n - 1) = k + 1 - n
      OBVIOUS
    <3>2. n - 1 \in Q
      BY <2>3, <3>1
    <3> QED
      BY <3>1, <3>2 DEF Q
  <2> QED
    BY <2>4
<1> QED
  BY <1>3, <1>4, <1>5, <1>6, <1>7 DEF W, B, S
-------------------------------------------------------------------------------
(* What insertion and removal do to a ring *)

(* Cell new, not in the ring, is linked in before entry, the at-th of the ring. *)
LinkedIn(k, lv, s, A, nx, pv, new, at, entry, nx2, pv2, s2) ==
  /\ new \in A /\ new \notin lv /\ new # header
  /\ lv \subseteq A /\ header \in A /\ header \notin lv
  /\ DOMAIN nx = A /\ DOMAIN pv = A /\ nx = [c \in A |-> nx[c]] /\ pv = [c \in A |-> pv[c]]
  /\ at \in 1 .. k + 1 /\ entry = IF at = k + 1 THEN header ELSE s[at]
  /\ nx2 = [nx EXCEPT ![new] = entry, ![pv[entry]] = new]
  /\ pv2 = [pv EXCEPT ![new] = pv[entry], ![entry] = new]
  /\ s2 = [i \in 0 .. k + 1 |-> IF i < at THEN s[i] ELSE IF i = at THEN new ELSE s[i - 1]]

LEMMA RingInsert ==
  ASSUME NEW k \in Nat, NEW lv, NEW s, NEW A, NEW nx, NEW pv, RingOf(s, nx, pv, k, lv),
         NEW new, NEW at, NEW entry, NEW nx2, NEW pv2, NEW s2,
         LinkedIn(k, lv, s, A, nx, pv, new, at, entry, nx2, pv2, s2)
  PROVE  RingOf(s2, nx2, pv2, k + 1, lv \cup {new})
<1> USE DEF LinkedIn
<1>1. /\ at - 1 \in 0 .. k /\ entry \in lv \cup {header} /\ pv[entry] = s[at - 1]
      /\ s[at - 1] \in lv \cup {header}
  <2>1. at - 1 \in 0 .. k /\ s[at - 1] \in lv \cup {header}
    BY DEF RingOf
  <2>2. CASE at = k + 1
    <3>1. 0 \in 0 .. k /\ entry = s[0] /\ at - 1 = k
      BY <2>2 DEF RingOf
    <3>2. pv[s[0]] = s[k]
      BY <3>1 DEF RingOf
    <3> QED
      BY <2>1, <2>2, <3>1, <3>2
  <2>3. CASE at # k + 1
    <3>1. at \in 0 .. k /\ entry = s[at] /\ at # 0
      BY <2>3
    <3>2. pv[s[at]] = s[at - 1] /\ s[at] \in lv \cup {header}
      BY <3>1 DEF RingOf
    <3> QED
      BY <2>1, <3>1, <3>2
  <2> QED
    BY <2>2, <2>3
<1>2. \A c \in A : /\ nx2[c] = IF c = s[at - 1] THEN new ELSE IF c = new THEN entry ELSE nx[c]
                   /\ pv2[c] = IF c = entry THEN new ELSE IF c = new THEN s[at - 1] ELSE pv[c]
  <2>1. pv[entry] \in A /\ entry \in A /\ pv[entry] # new /\ entry # new
    BY <1>1
  <2> QED
    BY <1>1, <2>1
<1>3. /\ s2 \in [0 .. k + 1 -> (lv \cup {new}) \cup {header}] /\ s2[0] = header
      /\ s2[at] = new
      /\ \A i \in 0 .. k + 1 : i < at => i \in 0 .. k /\ s2[i] = s[i]
      /\ \A i \in 0 .. k + 1 : i > at => i - 1 \in 0 .. k /\ s2[i] = s[i - 1]
      /\ at \in 0 .. k + 1
  BY DEF RingOf
<1>4. ASSUME NEW c \in lv \cup {new} PROVE \E i \in 1 .. k + 1 : s2[i] = c
  <2>1. CASE c = new
    BY <2>1, <1>3
  <2>2. CASE c \in lv
    <3>1. PICK i \in 1 .. k : s[i] = c
      BY <2>2 DEF RingOf
    <3>2. CASE i < at
      <4>1. i \in 1 .. k + 1 /\ i \in 0 .. k + 1
        OBVIOUS
      <4> QED
        BY <4>1, <3>1, <3>2, <1>3
    <3>3. CASE i >= at
      <4>1. i + 1 \in 1 .. k + 1 /\ i + 1 \in 0 .. k + 1 /\ i + 1 > at /\ (i + 1) - 1 = i
        BY <3>3
      <4>2. s2[i + 1] = s[(i + 1) - 1]
        BY <4>1, <1>3
      <4>3. s2[i + 1] = c
        BY <4>1, <4>2, <3>1
      <4> QED
        BY <4>1, <4>3
    <3>4. i < at \/ i >= at
      OBVIOUS
    <3> QED
      BY <3>2, <3>3, <3>4, Zenon
  <2> QED
    BY <2>1, <2>2
<1>5. \A i, j \in 0 .. k : s[i] = s[j] => i = j
  BY DEF RingOf
<1>6. \A i \in 0 .. k : s[i] # new
  BY DEF RingOf
<1>7. ASSUME NEW i \in 0 .. k + 1, NEW j \in 0 .. k + 1, s2[i] = s2[j] PROVE i = j
  <2>1. i < at \/ i = at \/ i > at
    OBVIOUS
  <2>2. j < at \/ j = at \/ j > at
    OBVIOUS
  <2> QED
    BY <2>1, <2>2, <1>3, <1>5, <1>6, <1>7
<1>8. ASSUME NEW i \in 0 .. k + 1
      PROVE  nx2[s2[i]] = IF i = k + 1 THEN header ELSE s2[i + 1]
  <2>1. CASE i < at - 1
    <3>1. i \in 0 .. k /\ i # k /\ i + 1 \in 0 .. k + 1 /\ i + 1 < at /\ i < at /\ i # at - 1
      BY <2>1
    <3>2. s2[i] = s[i] /\ s2[i + 1] = s[i + 1] /\ s[i] \in lv \cup {header}
      BY <3>1, <1>3 DEF RingOf
    <3>3. nx2[s[i]] = nx[s[i]]
      BY <3>1, <3>2, <1>1, <1>2, <1>5, <1>6
    <3> QED
      <4>1. nx[s[i]] = s[i + 1]
        <5>1. \A j \in 0 .. k : nx[s[j]] = IF j = k THEN header ELSE s[j + 1]
          BY Zenon DEF RingOf
        <5> QED
          BY <3>1, <5>1, Zenon
      <4>2. i # k + 1
        BY <3>1
      <4> QED
        BY <3>2, <3>3, <4>1, <4>2, Zenon
  <2>2. CASE i = at - 1
    <3>1. i < at /\ i + 1 = at /\ i # k + 1
      BY <2>2
    <3>2. s2[i] = s[at - 1] /\ s2[i + 1] = new
      BY <2>2, <3>1, <1>3
    <3>3. nx2[s[at - 1]] = new
      BY <1>1, <1>2
    <3> QED
      BY <3>1, <3>2, <3>3
  <2>3. CASE i = at
    <3>1. nx2[s2[i]] = entry
      BY <2>3, <1>1, <1>2, <1>3, <1>6
    <3>2. CASE i = k + 1
      BY <2>3, <3>1, <3>2
    <3>3. CASE i # k + 1
      <4>1. i + 1 \in 0 .. k + 1 /\ i + 1 > at /\ (i + 1) - 1 = at
        BY <2>3, <3>3
      <4>2. s2[i + 1] = s[(i + 1) - 1]
        BY <4>1, <1>3
      <4> QED
        BY <2>3, <3>1, <3>3, <4>1, <4>2
    <3> QED
      BY <3>2, <3>3
  <2>4. CASE i > at
    <3>1. i - 1 \in 0 .. k /\ s2[i] = s[i - 1] /\ i - 1 # at - 1
      BY <2>4, <1>3
    <3>2. nx2[s[i - 1]] = nx[s[i - 1]] /\ s[i - 1] \in lv \cup {header}
      <4>1. s[i - 1] \in lv \cup {header} /\ s[i - 1] # s[at - 1] /\ s[i - 1] # new
        BY <3>1, <1>1, <1>5, <1>6 DEF RingOf
      <4> QED
        BY <4>1, <1>2
    <3>3. CASE i = k + 1
      <4>1. i - 1 = k /\ k \in 0 .. k
        BY <3>3
      <4>2. nx[s[k]] = header
        BY <4>1 DEF RingOf
      <4>3. nx2[s2[i]] = nx[s[k]]
        BY <3>1, <3>2, <4>1
      <4> QED
        BY <3>3, <4>2, <4>3, Zenon
    <3>4. CASE i # k + 1
      <4>1. i - 1 # k /\ i + 1 \in 0 .. k + 1 /\ i + 1 > at /\ (i + 1) - 1 = i /\ (i - 1) + 1 = i
        BY <2>4, <3>4
      <4>2. nx[s[i - 1]] = s[(i - 1) + 1]
        BY <3>1, <4>1 DEF RingOf
      <4> QED
        BY <3>1, <3>2, <3>4, <4>1, <4>2, <1>3
    <3> QED
      BY <3>3, <3>4
  <2> QED
    BY <2>1, <2>2, <2>3, <2>4
<1>9. ASSUME NEW i \in 0 .. k + 1
      PROVE  pv2[s2[i]] = IF i = 0 THEN s2[k + 1] ELSE s2[i - 1]
  <2>1. k + 1 \in 0 .. k + 1 /\ 0 \in 0 .. k
    OBVIOUS
  <2>2. entry = IF at = k + 1 THEN s[0] ELSE s[at]
    BY DEF RingOf
  <2>3. CASE i < at
    <3>1. i \in 0 .. k /\ s2[i] = s[i] /\ s[i] \in lv \cup {header} /\ s[i] # new
      BY <2>3, <1>3, <1>6 DEF RingOf
    <3>2. CASE i = 0 /\ at = k + 1
      BY <3>1, <3>2, <2>1, <2>2, <1>2, <1>3
    <3>3. CASE i = 0 /\ at # k + 1
      <4>1. s[i] # entry
        <5>1. at \in 0 .. k /\ at # i
          BY <3>3
        <5> QED
          BY <5>1, <3>1, <3>3, <2>2, <1>5
      <4>2. pv2[s[i]] = s[k]
        BY <3>1, <3>3, <4>1, <1>2 DEF RingOf
      <4>3. s2[k + 1] = s[(k + 1) - 1]
        BY <3>3, <2>1, <1>3
      <4> QED
        BY <3>1, <3>3, <4>2, <4>3
    <3>4. CASE i # 0
      <4>1. s[i] # entry
        <5>1. at = k + 1 \/ at \in 0 .. k
          OBVIOUS
        <5> QED
          BY <2>1, <2>2, <2>3, <3>1, <3>4, <5>1, <1>5
      <4>2. pv2[s[i]] = s[i - 1]
        BY <3>1, <3>4, <4>1, <1>2 DEF RingOf
      <4>3. i - 1 \in 0 .. k + 1 /\ i - 1 < at
        BY <2>3, <3>4
      <4> QED
        BY <3>1, <3>4, <4>2, <4>3, <1>3
    <3> QED
      BY <3>2, <3>3, <3>4
  <2>4. CASE i = at
    <3>1. i # 0 /\ i - 1 \in 0 .. k + 1 /\ i - 1 < at
      BY <2>4
    <3> QED
      BY <2>4, <3>1, <1>1, <1>2, <1>3
  <2>5. CASE i > at
    <3>1. i - 1 \in 0 .. k /\ s2[i] = s[i - 1] /\ i # 0 /\ at # k + 1 /\ at \in 0 .. k
      BY <2>5, <1>3
    <3>2. s[i - 1] \in lv \cup {header} /\ s[i - 1] # new
      BY <3>1, <1>6 DEF RingOf
    <3>3. CASE i - 1 = at
      <4>1. pv2[s[i - 1]] = new
        BY <3>1, <3>2, <3>3, <2>2, <1>2
      <4> QED
        BY <3>1, <3>3, <4>1, <1>3
    <3>4. CASE i - 1 # at
      <4>1. s[i - 1] # entry
        BY <3>1, <3>4, <2>2, <1>5
      <4>2. pv2[s[i - 1]] = s[(i - 1) - 1]
        <5>1. i - 1 # 0
          BY <2>5
        <5> QED
          BY <5>1, <3>1, <3>2, <4>1, <1>2 DEF RingOf
      <4>3. i - 1 \in 0 .. k + 1 /\ i - 1 > at
        BY <2>5, <3>4
      <4> QED
        BY <3>1, <4>2, <4>3, <1>3
    <3> QED
      BY <3>3, <3>4
  <2> QED
    BY <2>3, <2>4, <2>5
<1> QED
  BY <1>3, <1>4, <1>7, <1>8, <1>9 DEF RingOf
(* The at-th cell of the ring is unlinked. *)
Unlinked(k, lv, s, A, nx, pv, at, entry, nx2, pv2, s2) ==
  /\ lv \subseteq A /\ header \in A /\ header \notin lv
  /\ nx = [c \in A |-> nx[c]] /\ pv = [c \in A |-> pv[c]]
  /\ at \in 1 .. k /\ entry = s[at]
  /\ nx2 = [nx EXCEPT ![pv[entry]] = nx[entry], ![entry] = NULL]
  /\ pv2 = [pv EXCEPT ![nx[entry]] = pv[entry], ![entry] = NULL]
  /\ s2 = [i \in 0 .. k - 1 |-> IF i < at THEN s[i] ELSE s[i + 1]]

LEMMA RingRemove ==
  ASSUME NEW k \in Nat, NEW lv, NEW s, NEW A, NEW nx, NEW pv, RingOf(s, nx, pv, k, lv),
         NEW at, NEW entry, NEW nx2, NEW pv2, NEW s2,
         Unlinked(k, lv, s, A, nx, pv, at, entry, nx2, pv2, s2)
  PROVE  RingOf(s2, nx2, pv2, k - 1, lv \ {entry})
<1> USE DEF Unlinked
<1> DEFINE after == IF at = k THEN s[0] ELSE s[at + 1]
           before == s[at - 1]
<1>1. /\ s \in [0 .. k -> lv \cup {header}] /\ s[0] = header
      /\ \A c \in lv : \E i \in 1 .. k : s[i] = c
      /\ \A i, j \in 0 .. k : s[i] = s[j] => i = j
      /\ \A i \in 0 .. k : nx[s[i]] = IF i = k THEN header ELSE s[i + 1]
      /\ \A i \in 0 .. k : pv[s[i]] = IF i = 0 THEN s[k] ELSE s[i - 1]
  BY Zenon DEF RingOf
<1>2. /\ at \in 0 .. k /\ at - 1 \in 0 .. k /\ at # 0 /\ at # at - 1 /\ 0 \in 0 .. k
      /\ (at # k => at + 1 \in 0 .. k /\ at # at + 1) /\ k - 1 \in Nat
  OBVIOUS
<1>3. nx[entry] = after /\ pv[entry] = before
  BY <1>1, <1>2
<1>4. entry \in lv /\ entry # header /\ before \in lv \cup {header} /\ after \in lv \cup {header}
      /\ before # entry /\ after # entry
  BY <1>1, <1>2
<1>5. \A c \in A : /\ nx2[c] = IF c = entry THEN NULL ELSE IF c = before THEN after ELSE nx[c]
                   /\ pv2[c] = IF c = entry THEN NULL ELSE IF c = after THEN before ELSE pv[c]
  BY <1>3, <1>4
<1>6. /\ \A i \in 0 .. k - 1 : i < at => i \in 0 .. k /\ i # at /\ s2[i] = s[i]
      /\ \A i \in 0 .. k - 1 : i >= at => i + 1 \in 0 .. k /\ i + 1 # at /\ s2[i] = s[i + 1]
  OBVIOUS
<1>7. \A i \in 0 .. k - 1 : i < at \/ i >= at
  OBVIOUS
<1>8. s2 \in [0 .. k - 1 -> (lv \ {entry}) \cup {header}] /\ s2[0] = header
  <2>1. ASSUME NEW i \in 0 .. k, i # at PROVE s[i] \in (lv \ {entry}) \cup {header}
    BY <1>1, <1>2, <2>1
  <2>2. 0 \in 0 .. k - 1 /\ 0 < at
    OBVIOUS
  <2>3. s2[0] = header
    BY <2>2, <1>1, <1>6, Zenon
  <2>4. \A i \in 0 .. k - 1 : s2[i] \in (lv \ {entry}) \cup {header}
    BY <2>1, <1>6, <1>7, Zenon
  <2> QED
    BY <2>3, <2>4
<1>9. ASSUME NEW c \in lv \ {entry} PROVE \E i \in 1 .. k - 1 : s2[i] = c
  <2>1. PICK i \in 1 .. k : s[i] = c
    BY <1>1
  <2>2. i # at
    BY <2>1
  <2>3. CASE i < at
    <3>1. i \in 1 .. k - 1 /\ i \in 0 .. k - 1
      BY <2>3
    <3> QED
      BY <3>1, <2>1, <2>3, <1>6, Zenon
  <2>4. CASE i > at
    <3>1. i - 1 \in 1 .. k - 1 /\ i - 1 \in 0 .. k - 1 /\ i - 1 >= at /\ (i - 1) + 1 = i
      BY <2>4
    <3>2. s2[i - 1] = s[(i - 1) + 1]
      BY <3>1, <1>6, Zenon
    <3> QED
      BY <3>1, <3>2, <2>1, Zenon
  <2>5. i < at \/ i > at
    BY <2>2
  <2> QED
    BY <2>3, <2>4, <2>5, Zenon
<1>10. ASSUME NEW i \in 0 .. k - 1, NEW j \in 0 .. k - 1, s2[i] = s2[j] PROVE i = j
  <2>1. (i < at \/ i >= at) /\ (j < at \/ j >= at)
    OBVIOUS
  <2>2. (i < at /\ j >= at => i # j + 1) /\ (i >= at /\ j < at => i + 1 # j)
        /\ (i + 1 = j + 1 => i = j)
    OBVIOUS
  <2> QED
    BY <2>1, <2>2, <1>1, <1>6, <1>10, Zenon
<1>11. ASSUME NEW i \in 0 .. k - 1
       PROVE  nx2[s2[i]] = IF i = k - 1 THEN header ELSE s2[i + 1]
  <2>1. \A j \in 0 .. k : s[j] \in A /\ (j # at => s[j] # entry) /\ (j # at - 1 => s[j] # before)
    BY <1>1, <1>2
  <2>2. CASE i < at /\ i # at - 1
    <3>1. i \in 0 .. k /\ i # at /\ i # k /\ i # k - 1 /\ i + 1 \in 0 .. k - 1 /\ i + 1 < at
      BY <2>2
    <3>2. s2[i] = s[i] /\ s2[i + 1] = s[i + 1]
      BY <2>2, <3>1, <1>6, Zenon
    <3>3. nx2[s[i]] = nx[s[i]]
      BY <2>1, <2>2, <3>1, <1>5, Zenon
    <3>4. nx[s[i]] = s[i + 1]
      BY <3>1, <1>1, Zenon
    <3> QED
      BY <3>1, <3>2, <3>3, <3>4, Zenon
  <2>3. CASE i = at - 1
    <3>1. i < at
      BY <2>3
    <3>2. nx2[s2[i]] = after
      BY <2>3, <3>1, <1>2, <1>4, <1>5, <1>6, <2>1, Zenon
    <3>3. CASE at = k
      BY <2>3, <3>2, <3>3, <1>1
    <3>4. CASE at # k
      <4>1. i # k - 1 /\ i + 1 = at /\ at \in 0 .. k - 1 /\ at >= at
        BY <2>3, <3>4
      <4>2. s2[at] = s[at + 1]
        BY <4>1, <1>6, Zenon
      <4> QED
        BY <3>2, <3>4, <4>1, <4>2, Zenon
    <3> QED
      BY <3>3, <3>4
  <2>4. CASE i >= at
    <3>1. i + 1 \in 0 .. k /\ i + 1 # at /\ i + 1 # at - 1 /\ s2[i] = s[i + 1]
      BY <2>4, <1>6
    <3>2. nx2[s[i + 1]] = nx[s[i + 1]]
      BY <2>1, <3>1, <1>5, Zenon
    <3>3. CASE i = k - 1
      <4>1. i + 1 = k
        BY <3>3
      <4> QED
        BY <3>1, <3>2, <3>3, <4>1, <1>1, Zenon
    <3>4. CASE i # k - 1
      <4>1. i + 1 # k /\ i + 1 \in 0 .. k - 1 /\ i + 1 >= at
        BY <2>4, <3>4
      <4>2. nx[s[i + 1]] = s[(i + 1) + 1] /\ s2[i + 1] = s[(i + 1) + 1]
        BY <3>1, <4>1, <1>1, <1>6, Zenon
      <4> QED
        BY <3>1, <3>2, <3>4, <4>2, Zenon
    <3> QED
      BY <3>3, <3>4
  <2>5. (i < at /\ i # at - 1) \/ i = at - 1 \/ i >= at
    OBVIOUS
  <2> QED
    BY <2>2, <2>3, <2>4, <2>5, Zenon
<1>12. ASSUME NEW i \in 0 .. k - 1
       PROVE  pv2[s2[i]] = IF i = 0 THEN s2[k - 1] ELSE s2[i - 1]
  <2>1. \A j \in 0 .. k : s[j] \in A /\ (j # at => s[j] # entry)
    BY <1>1, <1>2
  <2>2. ASSUME NEW j \in 0 .. k, s[j] = after PROVE (at = k /\ j = 0) \/ (at # k /\ j = at + 1)
    BY <1>1, <1>2, <2>2
  <2>3. k - 1 \in 0 .. k - 1
    OBVIOUS
  <2>4. CASE i < at
    <3>1. i \in 0 .. k /\ i # at /\ s2[i] = s[i] /\ i # at + 1
      BY <2>4, <1>6
    <3>2. CASE i = 0 /\ at = k
      <4>1. pv2[s[i]] = before
        BY <2>1, <3>1, <3>2, <1>5, Zenon
      <4>2. k - 1 < at /\ at - 1 = k - 1
        BY <3>2
      <4>3. s2[k - 1] = s[k - 1]
        BY <4>2, <2>3, <1>6, Zenon
      <4> QED
        BY <3>1, <3>2, <4>1, <4>2, <4>3, Zenon
    <3>3. CASE i = 0 /\ at # k
      <4>1. pv2[s[i]] = pv[s[i]]
        BY <2>1, <2>2, <3>1, <3>3, <1>5, Zenon
      <4>2. pv[s[i]] = s[k]
        BY <3>1, <3>3, <1>1, Zenon
      <4>3. k - 1 >= at /\ (k - 1) + 1 = k
        BY <3>3
      <4>4. s2[k - 1] = s[(k - 1) + 1]
        BY <4>3, <2>3, <1>6, Zenon
      <4> QED
        BY <3>1, <3>3, <4>1, <4>2, <4>3, <4>4, Zenon
    <3>4. CASE i # 0
      <4>1. pv2[s[i]] = pv[s[i]]
        BY <2>1, <2>2, <3>1, <3>4, <1>5, Zenon
      <4>2. pv[s[i]] = s[i - 1]
        BY <3>1, <3>4, <1>1, Zenon
      <4>3. i - 1 \in 0 .. k - 1 /\ i - 1 < at
        BY <2>4, <3>4
      <4>4. s2[i - 1] = s[i - 1]
        BY <4>3, <1>6, Zenon
      <4> QED
        BY <3>1, <3>4, <4>1, <4>2, <4>4, Zenon
    <3> QED
      BY <3>2, <3>3, <3>4
  <2>5. CASE i >= at
    <3>1. i + 1 \in 0 .. k /\ i + 1 # at /\ s2[i] = s[i + 1] /\ i # 0 /\ at # k /\ i + 1 # 0
          /\ i - 1 \in 0 .. k - 1 /\ (i + 1) - 1 = i
      BY <2>5, <1>6
    <3>2. CASE i = at
      <4>1. pv2[s[i + 1]] = before
        BY <2>1, <3>1, <3>2, <1>5, Zenon
      <4>2. i - 1 < at
        BY <3>2
      <4>3. s2[i - 1] = s[i - 1]
        BY <3>1, <4>2, <1>6, Zenon
      <4> QED
        BY <3>1, <3>2, <4>1, <4>3, Zenon
    <3>3. CASE i # at
      <4>1. i + 1 # at + 1 /\ i - 1 >= at /\ (i - 1) + 1 = i
        BY <2>5, <3>3
      <4>2. pv2[s[i + 1]] = pv[s[i + 1]]
        BY <2>1, <2>2, <3>1, <4>1, <1>5, Zenon
      <4>3. pv[s[i + 1]] = s[(i + 1) - 1] /\ s2[i - 1] = s[(i - 1) + 1]
        BY <3>1, <4>1, <1>1, <1>6, Zenon
      <4> QED
        BY <3>1, <4>1, <4>2, <4>3, Zenon
    <3> QED
      BY <3>2, <3>3
  <2> QED
    BY <2>4, <2>5, <1>7, Zenon
<1> QED
  BY <1>8, <1>9, <1>10, <1>11, <1>12, Zenon DEF RingOf

LEMMA RingEmpty ==
  ASSUME NEW nx, NEW pv, nx[header] = header, pv[header] = header
  PROVE  RingOf([i \in 0 .. 0 |-> header], nx, pv, 0, {})
<1>1. 0 .. 0 = {0}
  OBVIOUS
<1> QED
  BY <1>1 DEF RingOf
-------------------------------------------------------------------------------
(* What insertion and removal do to a sequence *)

Inserted(sq, k, at, e) ==
  [n \in 1 .. k + 1 |-> IF n < at THEN sq[n] ELSE IF n = at THEN e ELSE sq[n - 1]]

LEMMA InsertAtEffect ==
  ASSUME NEW k \in Nat, NEW S, NEW sq \in [1 .. k -> S], NEW e \in S, NEW at \in 1 .. k + 1
  PROVE  Elements!InsertAt(sq, at, e) = Inserted(sq, k, at, e)
<1> DEFINE a == SubSeq(sq, 1, at - 1)
           b == SubSeq(sq, at, k)
           c == a \o <<e>>
           r == c \o b
<1>1. Len(sq) = k /\ at - 1 \in Int /\ at \in Int /\ k \in Int /\ 1 \in Int
  OBVIOUS
<1>2. Elements!InsertAt(sq, at, e) = r
  BY <1>1 DEF Elements!InsertAt
<1>3. a \in Seq(S) /\ Len(a) = at - 1 /\ \A i \in 1 .. at - 1 : a[i] = sq[i]
  <2>1. \A i \in 1 .. at - 1 : sq[i] \in S
    OBVIOUS
  <2>2. /\ a \in Seq(S) /\ Len(a) = IF 1 <= at - 1 THEN (at - 1) - 1 + 1 ELSE 0
        /\ \A i \in 1 .. (at - 1) - 1 + 1 : a[i] = sq[1 + i - 1]
    BY <1>1, <2>1, SubSeqProperties
  <2> HIDE DEF a
  <2> QED
    BY <2>2
<1>4. b \in Seq(S) /\ Len(b) = k - at + 1 /\ \A i \in 1 .. k - at + 1 : b[i] = sq[at + i - 1]
  <2>1. \A i \in at .. k : sq[i] \in S
    OBVIOUS
  <2>2. /\ b \in Seq(S) /\ Len(b) = IF at <= k THEN k - at + 1 ELSE 0
        /\ \A i \in 1 .. k - at + 1 : b[i] = sq[at + i - 1]
    BY <1>1, <2>1, SubSeqProperties
  <2> HIDE DEF b
  <2> QED
    BY <2>2
<1>5. <<e>> \in Seq(S) /\ Len(<<e>>) = 1 /\ <<e>>[1] = e
  OBVIOUS
<1> HIDE DEF a, b
<1>6. c \in Seq(S) /\ Len(c) = at /\ \A i \in 1 .. at : c[i] = IF i < at THEN sq[i] ELSE e
  <2>1. /\ c \in Seq(S) /\ Len(c) = Len(a) + Len(<<e>>)
        /\ \A i \in 1 .. Len(a) + Len(<<e>>) : c[i] = IF i <= Len(a) THEN a[i] ELSE <<e>>[i - Len(a)]
    BY <1>3, <1>5, ConcatProperties, Zenon
  <2> HIDE DEF c
  <2>2. Len(c) = at
    BY <1>3, <1>5, <2>1
  <2>3. ASSUME NEW i \in 1 .. at PROVE c[i] = IF i < at THEN sq[i] ELSE e
    <3>1. i \in 1 .. Len(a) + Len(<<e>>)
      BY <1>3, <1>5
    <3>2. CASE i < at
      BY <1>3, <2>1, <3>1, <3>2
    <3>3. CASE i = at
      <4>1. ~(i <= Len(a)) /\ i - Len(a) = 1
        BY <1>3, <3>3
      <4> QED
        BY <1>5, <2>1, <3>1, <3>3, <4>1
    <3> QED
      BY <3>2, <3>3
  <2> QED
    BY <2>1, <2>2, <2>3
<1> HIDE DEF c
<1>7. /\ r \in Seq(S) /\ Len(r) = k + 1
      /\ \A i \in 1 .. k + 1 : r[i] = IF i <= at THEN c[i] ELSE b[i - at]
  <2>1. /\ r \in Seq(S) /\ Len(r) = Len(c) + Len(b)
        /\ \A i \in 1 .. Len(c) + Len(b) : r[i] = IF i <= Len(c) THEN c[i] ELSE b[i - Len(c)]
    BY <1>4, <1>6, ConcatProperties, Zenon
  <2>2. Len(c) + Len(b) = k + 1
    BY <1>4, <1>6
  <2> QED
    BY <2>1, <2>2, <1>6
<1> HIDE DEF r
<1> DEFINE t == [n \in 1 .. k + 1 |-> IF n < at THEN sq[n] ELSE IF n = at THEN e ELSE sq[n - 1]]
<1>8. ASSUME NEW i \in 1 .. k + 1 PROVE r[i] = t[i]
  <2>1. CASE i <= at
    <3>1. i \in 1 .. at /\ (i < at \/ i = at)
      BY <2>1
    <3> QED
      BY <2>1, <3>1, <1>6, <1>7
  <2>2. CASE i > at
    <3>1. i - at \in 1 .. k - at + 1 /\ at + (i - at) - 1 = i - 1 /\ ~(i <= at) /\ ~(i < at) /\ i # at
      BY <2>2
    <3>2. r[i] = b[i - at]
      BY <3>1, <1>7
    <3>3. b[i - at] = sq[at + (i - at) - 1]
      BY <3>1, <1>4
    <3> QED
      BY <3>1, <3>2, <3>3
  <2> QED
    BY <2>1, <2>2
<1>9. r = [i \in 1 .. k + 1 |-> r[i]]
  BY <1>7
<1>10. r = t
  BY <1>8, <1>9
<1> QED
  BY <1>2, <1>10 DEF Inserted

LEMMA RemoveAtEffect ==
  ASSUME NEW k \in Nat, NEW S, NEW sq \in [1 .. k -> S], NEW at \in 1 .. k
  PROVE  Elements!RemoveAt(sq, at) =
           [n \in 1 .. k - 1 |-> IF n < at THEN sq[n] ELSE sq[n + 1]]
<1> DEFINE a == SubSeq(sq, 1, at - 1)
           b == SubSeq(sq, at + 1, k)
           r == a \o b
<1>1. Len(sq) = k /\ at - 1 \in Int /\ at + 1 \in Int /\ k \in Int /\ 1 \in Int
  OBVIOUS
<1>2. Elements!RemoveAt(sq, at) = r
  BY <1>1 DEF Elements!RemoveAt
<1>3. a \in Seq(S) /\ Len(a) = at - 1 /\ \A i \in 1 .. at - 1 : a[i] = sq[i]
  <2>1. \A i \in 1 .. at - 1 : sq[i] \in S
    OBVIOUS
  <2>2. /\ a \in Seq(S) /\ Len(a) = IF 1 <= at - 1 THEN (at - 1) - 1 + 1 ELSE 0
        /\ \A i \in 1 .. (at - 1) - 1 + 1 : a[i] = sq[1 + i - 1]
    BY <1>1, <2>1, SubSeqProperties
  <2> HIDE DEF a
  <2> QED
    BY <2>2
<1>4. b \in Seq(S) /\ Len(b) = k - at /\ \A i \in 1 .. k - at : b[i] = sq[at + i]
  <2>1. \A i \in at + 1 .. k : sq[i] \in S
    OBVIOUS
  <2>2. /\ b \in Seq(S) /\ Len(b) = IF at + 1 <= k THEN k - (at + 1) + 1 ELSE 0
        /\ \A i \in 1 .. k - (at + 1) + 1 : b[i] = sq[(at + 1) + i - 1]
    BY <1>1, <2>1, SubSeqProperties
  <2> HIDE DEF b
  <2>3. k - (at + 1) + 1 = k - at /\ Len(b) = k - at
    BY <2>2
  <2>4. ASSUME NEW i \in 1 .. k - at PROVE b[i] = sq[at + i]
    <3>1. i \in 1 .. k - (at + 1) + 1 /\ (at + 1) + i - 1 = at + i
      OBVIOUS
    <3>2. b[i] = sq[(at + 1) + i - 1]
      BY <2>2, <3>1, Zenon
    <3> QED
      BY <3>1, <3>2, Zenon
  <2> QED
    BY <2>2, <2>3, <2>4
<1> HIDE DEF a, b
<1>7. /\ r \in Seq(S) /\ Len(r) = k - 1
      /\ \A i \in 1 .. k - 1 : r[i] = IF i <= at - 1 THEN a[i] ELSE b[i - (at - 1)]
  <2>1. /\ r \in Seq(S) /\ Len(r) = Len(a) + Len(b)
        /\ \A i \in 1 .. Len(a) + Len(b) : r[i] = IF i <= Len(a) THEN a[i] ELSE b[i - Len(a)]
    BY <1>3, <1>4, ConcatProperties, Zenon
  <2>2. Len(a) + Len(b) = k - 1
    BY <1>3, <1>4
  <2> QED
    BY <2>1, <2>2, <1>3
<1> HIDE DEF r
<1> DEFINE t == [n \in 1 .. k - 1 |-> IF n < at THEN sq[n] ELSE sq[n + 1]]
<1>8. ASSUME NEW i \in 1 .. k - 1 PROVE r[i] = t[i]
  <2>1. CASE i < at
    <3>1. i \in 1 .. at - 1 /\ i <= at - 1
      BY <2>1
    <3> QED
      BY <2>1, <3>1, <1>3, <1>7
  <2>2. CASE i >= at
    <3>1. i - (at - 1) \in 1 .. k - at /\ at + (i - (at - 1)) = i + 1 /\ ~(i <= at - 1) /\ ~(i < at)
      BY <2>2
    <3>2. r[i] = b[i - (at - 1)]
      BY <3>1, <1>7
    <3>3. b[i - (at - 1)] = sq[at + (i - (at - 1))]
      BY <3>1, <1>4
    <3> QED
      BY <3>1, <3>2, <3>3
  <2> QED
    BY <2>1, <2>2
<1>9. r = [i \in 1 .. k - 1 |-> r[i]]
  BY <1>7
<1>10. r = t
  BY <1>8, <1>9
<1> QED
  BY <1>2, <1>10

(* The position of e in a sequence, when the first m - 1 elements are others *)
(* and the m-th is e or m is past the end.                                   *)
(* The first e of a sequence of k is the m-th; k + 1: there is none. *)
FirstAt(k, sq, e, m) ==
  /\ sq = [n \in 1 .. k |-> sq[n]] /\ DOMAIN sq = 1 .. k
  /\ m \in 1 .. k + 1 /\ (m = k + 1 \/ sq[m] = e) /\ \A n \in 1 .. m - 1 : sq[n] # e

PositionIn(sq, e) == Elements!SelectInSeq(sq, LAMBDA x : x = e)

LEMMA PositionOf ==
  ASSUME NEW k \in Nat, NEW sq, NEW e, NEW m, FirstAt(k, sq, e, m)
  PROVE  PositionIn(sq, e) = IF m = k + 1 THEN 0 ELSE m
<1> USE DEF FirstAt
<1> DEFINE I == {i \in 1 .. Len(sq) : sq[i] = e}
<1>1. Len(sq) = k
  OBVIOUS
<1>2. PositionIn(sq, e) = IF I # {} THEN Elements!Min(I) ELSE 0
  BY DEF PositionIn, Elements!SelectInSeq
<1>3. CASE m = k + 1
  <2>1. I = {}
    BY <1>1, <1>3
  <2> QED
    BY <1>2, <1>3, <2>1
<1>4. CASE m # k + 1
  <2>1. m \in I /\ \A i \in I : m <= i
    <3>1. m \in 1 .. k
      BY <1>4
    <3>2. m \in I
      BY <1>1, <1>4, <3>1
    <3>3. ASSUME NEW i \in 1 .. k, ~(m <= i) PROVE sq[i] # e
      <4>1. i \in 1 .. m - 1
        BY <3>3
      <4> QED
        BY <4>1, Zenon
    <3> QED
      BY <1>1, <3>2, <3>3
  <2> HIDE DEF I
  <2>2. \A x \in I : (\A y \in I : x <= y) => x = m
    <3>1. I \subseteq Nat
      BY DEF I
    <3> QED
      BY <2>1, <3>1
  <2>3. Elements!Min(I) = m
    BY <2>1, <2>2 DEF Elements!Min
  <2> QED
    BY <1>2, <1>4, <2>1, <2>3
<1> QED
  BY <1>3, <1>4
-------------------------------------------------------------------------------
(* What the walks find in a list that is a ring *)

LEMMA RingFacts ==
  ASSUME Heap, NEW s, RingOf(s, next, prev, size, live)
  PROVE  /\ \A n \in 0 .. size : Forward[n] = s[n]
         /\ Forward[size + 1] = header
         /\ \A n \in Nat : Forward[n] \in Ring
         /\ \A i \in 0 .. size - 1 : Backward[size - i] = s[i + 1] /\ linkList_entry(i) = s[i + 1]
         /\ next[header] = IF size = 0 THEN header ELSE s[1]
         /\ prev[header] = s[size]
         /\ s \in [0 .. size -> Ring] /\ s[0] = header
         /\ \A i \in 1 .. size : s[i] \in live /\ s[i] # header /\ s[i] \in Addresses
         /\ \A c \in live : \E i \in 1 .. size : s[i] = c
         /\ \A i, j \in 0 .. size : s[i] = s[j] => i = j
         /\ IsFiniteSet(live) /\ header \notin live /\ live \subseteq Addresses
         /\ Cardinality(Cells) \in Nat /\ size <= Cardinality(Cells)
<1>1. /\ size \in Nat /\ live \subseteq Cells /\ size = Cardinality(live)
      /\ IsFiniteSet(Cells) /\ header \notin Cells
  BY CellsAssumption DEF Heap
<1>2. IsFiniteSet(live) /\ Cardinality(Cells) \in Nat /\ size <= Cardinality(Cells)
  BY <1>1, FS_Subset, FS_CardinalityType
<1>3. header \notin live /\ live \subseteq Addresses
  BY <1>1 DEF Addresses
<1>4. /\ \A n \in 0 .. size : Forward[n] = s[n]
      /\ Forward[size + 1] = header /\ \A n \in Nat : Forward[n] \in Ring
      /\ \A n \in 1 .. size : Backward[n] = s[size + 1 - n]
  BY <1>1, Walks, RingWalk DEF Ring
<1>5. /\ s \in [0 .. size -> Ring] /\ s[0] = header
      /\ \A c \in live : \E i \in 1 .. size : s[i] = c
      /\ \A i, j \in 0 .. size : s[i] = s[j] => i = j
      /\ \A i \in 0 .. size : next[s[i]] = IF i = size THEN header ELSE s[i + 1]
      /\ \A i \in 0 .. size : prev[s[i]] = IF i = 0 THEN s[size] ELSE s[i - 1]
  BY Zenon DEF RingOf, Ring
<1>6. ASSUME NEW i \in 1 .. size PROVE s[i] \in live /\ s[i] # header /\ s[i] \in Addresses
  <2>1. i \in 0 .. size /\ 0 \in 0 .. size /\ i # 0
    BY <1>1
  <2> QED
    BY <2>1, <1>3, <1>5 DEF Ring
<1>7. ASSUME NEW i \in 0 .. size - 1
      PROVE  Backward[size - i] = s[i + 1] /\ linkList_entry(i) = s[i + 1]
  <2>1. size - i \in 1 .. size /\ i + 1 \in 0 .. size /\ size + 1 - (size - i) = i + 1
    BY <1>1
  <2>2. Backward[size - i] = s[i + 1]
    <3>1. Backward[size - i] = s[size + 1 - (size - i)]
      BY <2>1, <1>4, Zenon
    <3> QED
      BY <2>1, <3>1
  <2>3. Forward[i + 1] = s[i + 1]
    BY <2>1, <1>4
  <2> QED
    BY <2>2, <2>3, Zenon DEF linkList_entry
<1>8. next[header] = IF size = 0 THEN header ELSE s[1]
  <2>1. 0 \in 0 .. size /\ 0 + 1 = 1
    BY <1>1
  <2> QED
    BY <2>1, <1>5
<1>9. prev[header] = s[size]
  <2>1. 0 \in 0 .. size
    BY <1>1
  <2> QED
    BY <2>1, <1>5
<1> QED
  BY <1>2, <1>3, <1>4, <1>5, <1>6, <1>7, <1>8, <1>9, Zenon

(* The steps to e lead to its first cell, or all the way round. *)
LEMMA Search ==
  ASSUME Heap, NEW s, RingOf(s, next, prev, size, live), NEW e
  PROVE  /\ StepsTo(e) \in 1 .. size + 1
         /\ StepsTo(e) = size + 1 \/ elem[s[StepsTo(e)]] = e
         /\ \A n \in 1 .. StepsTo(e) - 1 : elem[s[n]] # e
         /\ Found(e) <=> StepsTo(e) # size + 1
<1> DEFINE Stop(n) == Forward[n] = header \/ elem[Forward[n]] = e
           First(n) == Stop(n) /\ \A m \in 1 .. n - 1 : Forward[m] # header /\ elem[Forward[m]] # e
           T == {n \in 1 .. size + 1 : Stop(n)}
           q == StepsTo(e)
<1>1. /\ \A n \in 0 .. size : Forward[n] = s[n]
      /\ Forward[size + 1] = header
      /\ \A i \in 1 .. size : s[i] # header
      /\ Cardinality(Cells) \in Nat /\ size <= Cardinality(Cells) /\ size \in Nat
  BY RingFacts DEF Heap
<1>2. \E n \in 1 .. Cardinality(Cells) + 1 : First(n)
  <2>1. size + 1 \in T /\ T \in SUBSET Nat
    BY <1>1
  <2>2. PICK n \in T : \A m \in T : n <= m
    <3> HIDE DEF T
    <3> QED
      BY <2>1, LeastNat
  <2>3. n \in 1 .. size + 1 /\ Stop(n) /\ n \in 1 .. Cardinality(Cells) + 1
    BY <1>1
  <2>4. ASSUME NEW m \in 1 .. n - 1 PROVE ~Stop(m)
    <3>1. m \in 1 .. size + 1 /\ ~(n <= m)
      BY <1>1, <2>3
    <3>2. m \notin T
      BY <2>2, <3>1
    <3> QED
      BY <3>1, <3>2
  <2>5. First(n)
    BY <2>3, <2>4
  <2> QED
    BY <2>3, <2>5
<1>3. q = CHOOSE n \in 1 .. Cardinality(Cells) + 1 : First(n)
  BY DEF StepsTo
<1> HIDE DEF q
<1>4. q \in 1 .. Cardinality(Cells) + 1 /\ First(q)
  <2> HIDE DEF First
  <2> QED
    BY <1>2, <1>3
<1>5. q <= size + 1
  <2> SUFFICES ASSUME ~(q <= size + 1) PROVE FALSE
    OBVIOUS
  <2>1. size + 1 \in 1 .. q - 1
    BY <1>1, <1>4
  <2> QED
    BY <2>1, <1>1, <1>4
<1>6. q \in 1 .. size + 1
  BY <1>1, <1>4, <1>5
<1>7. q # size + 1 => q \in 1 .. size /\ q \in 0 .. size
  BY <1>1, <1>6
<1>8. q # size + 1 => Forward[q] = s[q] /\ s[q] # header
  BY <1>1, <1>7, Zenon
<1>9. q = size + 1 \/ elem[s[q]] = e
  BY <1>4, <1>8, Zenon
<1>10. ASSUME NEW n \in 1 .. q - 1 PROVE elem[s[n]] # e
  <2>1. n \in 0 .. size
    BY <1>1, <1>6
  <2> QED
    BY <2>1, <1>1, <1>4, Zenon
<1>11. Found(e) <=> q # size + 1
  BY <1>1, <1>8, Zenon DEF Found, q
<1> QED
  BY <1>6, <1>9, <1>10, <1>11 DEF q

(* The elements on the way round. *)
Shown == [n \in 1 .. size |-> elem[Forward[n]]]

ShownOf(nx, el, k) == [n \in 1 .. k |-> el[Walk(nx)[n]]]

LEMMA ShownWalk == Shown = ShownOf(next, elem, size) /\ Shown' = ShownOf(next', elem', size')
  BY DEF Shown, ShownOf, Forward, Walk

LEMMA ShownRing ==
  ASSUME NEW k \in Nat, NEW lv, NEW s, NEW nx, NEW pv, RingOf(s, nx, pv, k, lv), NEW el
  PROVE  ShownOf(nx, el, k) = [n \in 1 .. k |-> el[s[n]]]
<1>1. \A n \in 0 .. k : Walk(nx)[n] = s[n]
  BY RingWalk
<1>2. \A n \in 1 .. k : n \in 0 .. k
  OBVIOUS
<1> QED
  BY <1>1, <1>2 DEF ShownOf
-------------------------------------------------------------------------------
(* What each change does to the list *)

LEMMA ShownNext ==
  ASSUME size' \in Nat, NEW s, RingOf(s, next', prev', size', live')
  PROVE  Shown' = [n \in 1 .. size' |-> elem'[s[n]]]
  BY ShownWalk, ShownRing

LEMMA SameHeap ==
  ASSUME ListInv, UNCHANGED heap PROVE ListInv' /\ Shown' = Shown
  BY ShownWalk DEF ListInv, Heap, Ring, heap, ShownOf

LEMMA AddEffect ==
  ASSUME Heap, NEW s, RingOf(s, next, prev, size, live), NEW new \in Cells \ live, NEW e,
         NEW at \in 1 .. size + 1, NEW entry, entry = IF at = size + 1 THEN header ELSE s[at],
         linkList_addBefore(e, entry, new)
  PROVE  ListInv' /\ Shown' = Elements!InsertAt(Shown, at, e)
<1>1. /\ size \in Nat /\ live \subseteq Cells /\ size = Cardinality(live) /\ IsFiniteSet(live)
      /\ live \subseteq Addresses /\ header \in Addresses /\ header \notin live
      /\ new \in Addresses /\ new \notin live /\ new # header
  BY RingFacts, CellsAssumption DEF Heap, Addresses
<1>2. /\ next' = [next EXCEPT ![new] = entry, ![prev[entry]] = new]
      /\ prev' = [prev EXCEPT ![new] = prev[entry], ![entry] = new]
      /\ elem' = [elem EXCEPT ![new] = e]
      /\ size' = size + 1
      /\ live' = live \cup {new}
  BY DEF linkList_addBefore
<1>3. /\ DOMAIN next = Addresses /\ next = [c \in Addresses |-> next[c]]
      /\ DOMAIN prev = Addresses /\ prev = [c \in Addresses |-> prev[c]]
      /\ DOMAIN elem = Addresses
  BY DEF Heap
<1> DEFINE s2 == [i \in 0 .. size + 1 |->
                    IF i < at THEN s[i] ELSE IF i = at THEN new ELSE s[i - 1]]
<1>4. RingOf(s2, next', prev', size + 1, live \cup {new})
  <2>1. LinkedIn(size, live, s, Addresses, next, prev, new, at, entry, next', prev', s2)
    BY <1>1, <1>2, <1>3, Zenon DEF LinkedIn
  <2> HIDE DEF s2
  <2> QED
    BY <1>1, <2>1, RingInsert
<1>5. Heap'
  <2>1. entry \in Addresses /\ prev[entry] \in Addresses
    <3>1. at \in 1 .. size \/ at = size + 1
      BY <1>1
    <3>2. entry \in Addresses
      BY <3>1, <1>1, RingFacts
    <3>3. prev[entry] \in Ring
      <4>1. CASE at = size + 1
        <5>1. size \in 0 .. size
          BY <1>1
        <5> QED
          BY <4>1, <5>1, RingFacts
      <4>2. CASE at # size + 1
        <5>1. at \in 0 .. size /\ at # 0 /\ at - 1 \in 0 .. size
          BY <4>2, <1>1
        <5>2. prev[s[at]] = s[at - 1]
          BY <5>1 DEF RingOf
        <5> QED
          BY <4>2, <5>1, <5>2, RingFacts
      <4> QED
        BY <4>1, <4>2
    <3> QED
      BY <3>2, <3>3, <1>1 DEF Ring
  <2>2. next' \in [Addresses -> Addresses \cup {NULL}]
    BY <1>1, <1>2, <2>1 DEF Heap
  <2>3. prev' \in [Addresses -> Addresses \cup {NULL}]
    BY <1>1, <1>2, <2>1 DEF Heap
  <2>4. size' = Cardinality(live') /\ size' \in Nat
    <3>1. Cardinality(live \cup {new}) = Cardinality(live) + 1
      BY <1>1, FS_AddElement, Zenon
    <3> QED
      BY <1>1, <1>2, <3>1
  <2>5. DOMAIN elem' = Addresses /\ live' \subseteq Cells
    BY <1>1, <1>2, <1>3
  <2> QED
    BY <2>2, <2>3, <2>4, <2>5 DEF Heap, Addresses
<1>6. ListInv'
  <2>1. RingOf(s2, next', prev', size', live')
    BY <1>2, <1>4, Zenon
  <2>2. s2 \in [0 .. size' -> Ring']
    BY <2>1, Zenon DEF RingOf, Ring
  <2> HIDE DEF s2
  <2> QED
    BY <1>5, <2>1, <2>2, Zenon DEF ListInv
<1> DEFINE sq == [n \in 1 .. size |-> elem[s[n]]]
           S  == {elem[c] : c \in Addresses} \cup {e}
<1>7. Shown = sq
  BY <1>1, ShownWalk, ShownRing
<1>8. Shown' = [n \in 1 .. size + 1 |-> elem'[s2[n]]]
  <2> HIDE DEF s2
  <2>1. ShownOf(next', elem', size + 1) = [n \in 1 .. size + 1 |-> elem'[s2[n]]]
    BY <1>1, <1>4, ShownRing
  <2> QED
    BY <1>2, <2>1, ShownWalk
<1>9. sq \in [1 .. size -> S] /\ e \in S
  BY <1>1, RingFacts
<1>10. Elements!InsertAt(sq, at, e) = Inserted(sq, size, at, e)
  <2> HIDE DEF sq, S
  <2>1. ASSUME NEW k \in Nat, NEW q \in [1 .. k -> S], NEW x \in S, NEW m \in 1 .. k + 1
        PROVE  Elements!InsertAt(q, m, x) = Inserted(q, k, m, x)
    BY InsertAtEffect
  <2> QED
    BY <1>1, <1>9, <2>1, Zenon
<1>11. ASSUME NEW n \in 1 .. size + 1
       PROVE  elem'[s2[n]] = IF n < at THEN sq[n] ELSE IF n = at THEN e ELSE sq[n - 1]
  <2>1. \A i \in 1 .. size : s[i] # new /\ s[i] \in Addresses /\ elem'[s[i]] = elem[s[i]]
    <3>1. \A i \in 1 .. size : s[i] \in live /\ s[i] \in Addresses
      BY RingFacts, Zenon
    <3> QED
      BY <1>1, <1>2, <1>3, <3>1
  <2>2. n \in 0 .. size + 1
    BY <1>1
  <2>3. CASE n < at
    <3>1. n \in 1 .. size /\ s2[n] = s[n]
      BY <2>2, <2>3, <1>1
    <3> QED
      BY <2>1, <2>3, <3>1
  <2>4. CASE n = at
    <3>1. s2[n] = new /\ ~(n < at)
      BY <2>2, <2>4, <1>1
    <3> QED
      BY <2>4, <3>1, <1>1, <1>2, <1>3
  <2>5. CASE n > at
    <3>1. n - 1 \in 1 .. size /\ s2[n] = s[n - 1] /\ ~(n < at) /\ n # at
      BY <2>2, <2>5, <1>1
    <3> QED
      BY <2>1, <3>1
  <2> QED
    BY <2>3, <2>4, <2>5, <1>1
<1> HIDE DEF s2, sq
<1>12. Shown' = Elements!InsertAt(sq, at, e)
  BY <1>8, <1>10, <1>11 DEF Inserted
<1> QED
  BY <1>6, <1>7, <1>12

LEMMA RemoveEffect ==
  ASSUME Heap, NEW s, RingOf(s, next, prev, size, live), NEW at \in 1 .. size,
         linkList_removeEntry(s[at])
  PROVE  /\ ListInv' /\ Shown' = Elements!RemoveAt(Shown, at)
         /\ Shown[at] = elem[s[at]] /\ at \in DOMAIN Shown
<1> DEFINE entry == s[at]
<1>1. /\ size \in Nat /\ live \subseteq Cells /\ size = Cardinality(live) /\ IsFiniteSet(live)
      /\ live \subseteq Addresses /\ header \in Addresses /\ header \notin live
      /\ entry \in live /\ entry # header
  BY RingFacts DEF Heap, Addresses
<1>2. /\ next' = [next EXCEPT ![prev[entry]] = next[entry], ![entry] = NULL]
      /\ prev' = [prev EXCEPT ![next[entry]] = prev[entry], ![entry] = NULL]
      /\ live' = live \ {entry} /\ size' = size - 1 /\ elem' = elem
  BY DEF linkList_removeEntry
<1>3. /\ DOMAIN next = Addresses /\ next = [c \in Addresses |-> next[c]]
      /\ DOMAIN prev = Addresses /\ prev = [c \in Addresses |-> prev[c]]
      /\ DOMAIN elem = Addresses
  BY DEF Heap
<1> DEFINE s2 == [i \in 0 .. size - 1 |-> IF i < at THEN s[i] ELSE s[i + 1]]
<1>4. RingOf(s2, next', prev', size - 1, live \ {entry})
  <2>1. Unlinked(size, live, s, Addresses, next, prev, at, entry, next', prev', s2)
    BY <1>1, <1>2, <1>3, Zenon DEF Unlinked
  <2> HIDE DEF s2, entry
  <2> QED
    BY <1>1, <2>1, RingRemove
<1>5. Heap'
  <2>1. \A c \in Addresses : next[c] \in Addresses \cup {NULL} /\ prev[c] \in Addresses \cup {NULL}
    BY DEF Heap
  <2>2. next' \in [Addresses -> Addresses \cup {NULL}]
    BY <1>1, <1>2, <1>3, <2>1
  <2>3. prev' \in [Addresses -> Addresses \cup {NULL}]
    BY <1>1, <1>2, <1>3, <2>1
  <2>4. size' = Cardinality(live')
    BY <1>1, <1>2, FS_RemoveElement
  <2>5. DOMAIN elem' = Addresses /\ live' \subseteq Cells /\ size' \in Nat
    BY <1>1, <1>2, <1>3
  <2> QED
    BY <2>2, <2>3, <2>4, <2>5 DEF Heap, Addresses
<1>6. ListInv'
  <2>1. RingOf(s2, next', prev', size', live')
    BY <1>2, <1>4, Zenon
  <2>2. s2 \in [0 .. size' -> Ring']
    BY <2>1, Zenon DEF RingOf, Ring
  <2> HIDE DEF s2
  <2> QED
    BY <1>5, <2>1, <2>2, Zenon DEF ListInv
<1> DEFINE sq == [n \in 1 .. size |-> elem[s[n]]]
           S  == {elem[c] : c \in Addresses}
<1>7. Shown = sq
  BY <1>1, ShownWalk, ShownRing
<1>8. Shown' = [n \in 1 .. size - 1 |-> elem[s2[n]]]
  <2>1. size - 1 \in Nat
    BY <1>1
  <2> HIDE DEF s2
  <2>2. ShownOf(next', elem', size - 1) = [n \in 1 .. size - 1 |-> elem'[s2[n]]]
    BY <1>4, <2>1, ShownRing
  <2> QED
    BY <1>2, <2>2, ShownWalk
<1>9. sq \in [1 .. size -> S]
  BY <1>1, RingFacts
<1>10. Elements!RemoveAt(sq, at) = [n \in 1 .. size - 1 |-> IF n < at THEN sq[n] ELSE sq[n + 1]]
  <2> HIDE DEF sq, S
  <2>1. ASSUME NEW k \in Nat, NEW q \in [1 .. k -> S], NEW m \in 1 .. k
        PROVE  Elements!RemoveAt(q, m) =
                 [n \in 1 .. k - 1 |-> IF n < m THEN q[n] ELSE q[n + 1]]
    BY RemoveAtEffect
  <2>2. size \in Nat
    BY <1>1
  <2>3. \A q \in [1 .. size -> S] : \A m \in 1 .. size :
          Elements!RemoveAt(q, m) =
            [n \in 1 .. size - 1 |-> IF n < m THEN q[n] ELSE q[n + 1]]
    BY <2>1, <2>2, Zenon
  <2>4. \A m \in 1 .. size :
          Elements!RemoveAt(sq, m) =
            [n \in 1 .. size - 1 |-> IF n < m THEN sq[n] ELSE sq[n + 1]]
    BY <1>9, <2>3, Zenon
  <2> QED
    BY <2>4, Zenon
<1>11. ASSUME NEW n \in 1 .. size - 1
       PROVE  elem[s2[n]] = IF n < at THEN sq[n] ELSE sq[n + 1]
  <2>1. n \in 0 .. size - 1 /\ n \in 1 .. size /\ n + 1 \in 1 .. size
    BY <1>1
  <2> QED
    BY <2>1
<1>12. sq[at] = elem[s[at]] /\ at \in DOMAIN sq
  BY <1>1
<1> HIDE DEF s2, sq
<1>13. Shown' = Elements!RemoveAt(sq, at)
  BY <1>8, <1>10, <1>11
<1> QED
  BY <1>6, <1>7, <1>12, <1>13

LEMMA SetEffect ==
  ASSUME Heap, NEW s, RingOf(s, next, prev, size, live), NEW at \in 1 .. size, NEW e,
         elem' = [elem EXCEPT ![s[at]] = e], UNCHANGED <<next, prev, size, live>>
  PROVE  /\ ListInv' /\ Shown' = [Shown EXCEPT ![at] = e]
         /\ Shown[at] = elem[s[at]] /\ at \in DOMAIN Shown
<1>1. size \in Nat /\ DOMAIN elem = Addresses
  BY DEF Heap
<1>2. Heap'
  BY DEF Heap, Addresses
<1>3. RingOf(s, next', prev', size', live')
  BY DEF RingOf
<1>4. ListInv'
  <2>1. s \in [0 .. size' -> Ring']
    BY <1>3, Zenon DEF RingOf, Ring
  <2> QED
    BY <1>2, <1>3, <2>1, Zenon DEF ListInv
<1>5. Shown = [n \in 1 .. size |-> elem[s[n]]]
  BY <1>1, ShownWalk, ShownRing
<1>6. Shown' = [n \in 1 .. size |-> elem'[s[n]]]
  BY <1>1, <1>3, ShownNext
<1>7. ASSUME NEW n \in 1 .. size PROVE elem'[s[n]] = IF n = at THEN e ELSE elem[s[n]]
  <2>1. n \in 0 .. size /\ at \in 0 .. size
    BY <1>1
  <2>2. s[n] \in Addresses /\ s[at] \in Addresses /\ (s[n] = s[at] => n = at)
    BY <2>1, RingFacts
  <2> QED
    BY <1>1, <2>2
<1> QED
  BY <1>4, <1>5, <1>6, <1>7

LEMMA ClearEffect ==
  ASSUME Heap, NEW s, RingOf(s, next, prev, size, live), linkList_clear
  PROVE  ListInv' /\ Shown' = <<>>
<1> DEFINE walked == {Forward[n] : n \in 1 .. Cardinality(Cells)}
           wiped(f) == [c \in DOMAIN f |-> IF c \in walked THEN NULL ELSE f[c]]
<1>1. /\ next' = [wiped(next) EXCEPT ![header] = header]
      /\ prev' = [wiped(prev) EXCEPT ![header] = header]
      /\ elem' = wiped(elem) /\ size' = 0 /\ live' = live \ walked
  BY DEF linkList_clear
<1>2. /\ \A n \in 0 .. size : Forward[n] = s[n]
      /\ \A c \in live : \E i \in 1 .. size : s[i] = c
      /\ size \in Nat /\ Cardinality(Cells) \in Nat /\ size <= Cardinality(Cells)
  BY RingFacts DEF Heap
<1>3. live \subseteq walked
  <2>1. ASSUME NEW c \in live PROVE c \in walked
    <3>1. PICK i \in 1 .. size : s[i] = c
      BY <1>2
    <3>2. i \in 0 .. size /\ i \in 1 .. Cardinality(Cells)
      BY <1>2
    <3>3. Forward[i] = c
      BY <1>2, <3>1, <3>2
    <3> QED
      BY <3>2, <3>3
  <2> QED
    BY <2>1
<1>4. live' = {}
  BY <1>1, <1>3
<1> HIDE DEF walked
<1>5. next' \in [Addresses -> Addresses \cup {NULL}] /\ next'[header] = header
  BY <1>1 DEF Heap, Addresses
<1>6. prev' \in [Addresses -> Addresses \cup {NULL}] /\ prev'[header] = header
  BY <1>1 DEF Heap, Addresses
<1>7. DOMAIN elem' = Addresses
  BY <1>1 DEF Heap
<1>8. Heap'
  BY <1>1, <1>4, <1>5, <1>6, <1>7, FS_EmptySet DEF Heap, Addresses
<1> DEFINE s2 == [i \in 0 .. 0 |-> header]
<1>9. RingOf(s2, next', prev', 0, {})
  BY <1>5, <1>6, RingEmpty
<1>10. ListInv'
  <2> HIDE DEF s2
  <2>1. RingOf(s2, next', prev', size', live')
    BY <1>1, <1>4, <1>9, Zenon
  <2>2. s2 \in [0 .. size' -> Ring']
    BY <2>1, Zenon DEF RingOf, Ring
  <2> QED
    BY <1>8, <2>1, <2>2, Zenon DEF ListInv
<1>11. Shown' = <<>>
  <2>1. 1 .. 0 = {}
    OBVIOUS
  <2> QED
    BY <1>1, <2>1 DEF Shown
<1> QED
  BY <1>10, <1>11
-------------------------------------------------------------------------------
(* The operations of the sequence, said of the elements shown *)

LEMMA ShownIsSeq ==
  ASSUME Heap, NEW s, RingOf(s, next, prev, size, live)
  PROVE  /\ Shown = [n \in 1 .. size |-> elem[s[n]]]
         /\ DOMAIN Shown = 1 .. size /\ Len(Shown) = size
         /\ Shown = <<>> <=> size = 0
<1> DEFINE S == {elem[c] : c \in Addresses}
<1>1. size \in Nat
  BY DEF Heap
<1>2. Shown = [n \in 1 .. size |-> elem[s[n]]]
  BY <1>1, ShownWalk, ShownRing
<1>3. Shown \in [1 .. size -> S]
  <2>1. \A n \in 1 .. size : s[n] \in Addresses
    BY RingFacts, Zenon
  <2> QED
    BY <1>2, <2>1
<1> HIDE DEF S
<1>4. Len(Shown) = size /\ DOMAIN Shown = 1 .. size
  BY <1>1, <1>3
<1>5. ASSUME size = 0 PROVE Shown = <<>>
  <2>1. 1 .. size = {}
    BY <1>5
  <2> QED
    BY <1>2, <2>1
<1>6. Shown = <<>> => size = 0
  BY <1>4
<1> QED
  BY <1>2, <1>4, <1>5, <1>6

LEMMA InsertOf ==
  ASSUME NEW e, NEW at, Shown' = Elements!InsertAt(Shown, at, e), result' = 0
  PROVE  Elements!Insert(e, at)
  BY DEF Shown, Elements!Insert

LEMMA RemoveOf ==
  ASSUME NEW at, Shown' = Elements!RemoveAt(Shown, at), result' = Shown[at]
  PROVE  Elements!RemoveFrom(at)
  BY DEF Shown, Elements!RemoveFrom

LEMMA ReplaceOf ==
  ASSUME NEW e, NEW at, Shown' = [Shown EXCEPT ![at] = e], result' = Shown[at]
  PROVE  Elements!Replace(at, e)
  BY DEF Shown, Elements!Replace, Elements!ReplaceAt

LEMMA UnchangedOf ==
  ASSUME Shown' = Shown
  PROVE  /\ result' = 0 => Elements!InsertNothing
         /\ Shown = <<>> /\ result' = NULL => Elements!RemoveNothing /\ Elements!LookAtNothing
         /\ \A at : result' = Shown[at] => Elements!Look(at)
         /\ \A e : result' = Elements!Position(e) - 1 => Elements!IndexOf(e)
         /\ result' = Len(Shown) => Elements!Size
  BY DEF Shown, Elements!InsertNothing, Elements!RemoveNothing, Elements!LookAtNothing,
         Elements!Look, Elements!IndexOf, Elements!Size

LEMMA PositionShown ==
  ASSUME Heap, NEW s, RingOf(s, next, prev, size, live), NEW e
  PROVE  Elements!Position(e) = IF Found(e) THEN StepsTo(e) ELSE 0
<1>1. /\ size \in Nat /\ DOMAIN Shown = 1 .. size /\ Shown = [n \in 1 .. size |-> elem[s[n]]]
      /\ StepsTo(e) \in 1 .. size + 1
  BY ShownIsSeq, Search DEF Heap
<1> DEFINE m == StepsTo(e)
<1>2. /\ m = size + 1 \/ elem[s[m]] = e
      /\ \A n \in 1 .. m - 1 : elem[s[n]] # e
      /\ Found(e) <=> m # size + 1
  BY Search
<1> HIDE DEF m
<1>3. m \in 1 .. size + 1
  BY <1>1 DEF m
<1>4. m = size + 1 \/ Shown[m] = e
  BY <1>1, <1>2, <1>3
<1>5. \A n \in 1 .. m - 1 : Shown[n] # e
  BY <1>1, <1>2, <1>3
<1>6. Shown = [n \in 1 .. size |-> Shown[n]]
  BY <1>1
<1>7. PositionIn(Shown, e) = IF m = size + 1 THEN 0 ELSE m
  <2>1. FirstAt(size, Shown, e, m)
    BY <1>1, <1>3, <1>4, <1>5, <1>6, Zenon DEF FirstAt
  <2> QED
    BY <1>1, <2>1, PositionOf
<1>8. Elements!Position(e) = PositionIn(Shown, e)
  BY DEF Shown, Elements!Position, PositionIn
<1> QED
  BY <1>2, <1>7, <1>8 DEF m
-------------------------------------------------------------------------------
(* Every operation keeps the ring and is an operation of the sequence *)

LEMMA InitRing == Init => ListInv /\ Elements!Init
<1> SUFFICES ASSUME Init PROVE ListInv /\ Elements!Init
  OBVIOUS
<1>1. /\ next[header] = header /\ prev[header] = header /\ size = 0 /\ live = {} /\ result = 0
      /\ next \in [Addresses -> Addresses \cup {NULL}] /\ prev = next /\ DOMAIN elem = Addresses
  BY DEF Init, Addresses
<1>2. Heap
  BY <1>1, FS_EmptySet DEF Heap, Addresses
<1> DEFINE s == [i \in 0 .. 0 |-> header]
<1>3. RingOf(s, next, prev, 0, {})
  BY <1>1, RingEmpty
<1> HIDE DEF s
<1>4. RingOf(s, next, prev, size, live)
  BY <1>1, <1>3, Zenon
<1>5. s \in [0 .. size -> Ring]
  BY <1>4, Zenon DEF RingOf, Ring
<1>6. Shown = <<>>
  BY <1>1, <1>2, <1>4, ShownIsSeq
<1> QED
  BY <1>1, <1>2, <1>4, <1>5, <1>6 DEF ListInv, Elements!Init, Shown

LEMMA AddStep ==
  ASSUME ListInv, NEW e \in Elems, Add(e) PROVE ListInv' /\ Elements!Next
<1>1. PICK s \in [0 .. size -> Ring] : RingOf(s, next, prev, size, live)
  BY Zenon DEF ListInv
<1>2. Heap /\ size \in Nat /\ result' = 0
  BY DEF ListInv, Heap, Add
<1>3. Len(Shown) = size /\ next[header] = IF size = 0 THEN header ELSE s[1]
  BY <1>1, <1>2, ShownIsSeq, RingFacts, Zenon
<1>4. CASE UNCHANGED heap
  <2>1. ListInv' /\ Elements!InsertNothing
    BY <1>2, <1>4, SameHeap, UnchangedOf
  <2> QED
    BY <2>1 DEF Elements!Next
<1>5. ASSUME NEW new \in Cells \ live, NEW entry \in {next[header], header},
             linkList_addBefore(e, entry, new)
      PROVE  ListInv' /\ Elements!Next
  <2>1. ASSUME NEW at \in {1, size + 1}, entry = IF at = size + 1 THEN header ELSE s[at]
        PROVE  ListInv' /\ Elements!Next
    <3>1. at \in 1 .. size + 1
      BY <1>2
    <3>2. ListInv' /\ Shown' = Elements!InsertAt(Shown, at, e)
      BY <1>1, <1>2, <1>5, <2>1, <3>1, AddEffect
    <3>3. at = 1 \/ at = Len(Shown) + 1
      BY <1>3
    <3>4. \/ Shown' = Elements!InsertAt(Shown, 1, e)
          \/ Shown' = Elements!InsertAt(Shown, Len(Shown) + 1, e)
      BY <3>2, <3>3
    <3>5. Elements!Insert(e, 1) \/ Elements!Insert(e, Len(Shown) + 1)
      BY <1>2, <3>4 DEF Elements!Insert, Shown
    <3> QED
      BY <3>2, <3>5 DEF Elements!Next, Shown
  <2>2. CASE entry = header
    BY <2>1, <2>2
  <2>3. CASE entry # header
    <3>1. size # 0 /\ entry = s[1] /\ 1 # size + 1
      BY <1>2, <1>3, <2>3
    <3> QED
      BY <2>1, <3>1
  <2> QED
    BY <2>2, <2>3
<1> QED
  BY <1>4, <1>5 DEF Add

LEMMA RemoveStep ==
  ASSUME ListInv, Remove PROVE ListInv' /\ Elements!Next
<1>1. PICK s \in [0 .. size -> Ring] : RingOf(s, next, prev, size, live)
  BY Zenon DEF ListInv
<1>2. Heap /\ size \in Nat
  BY DEF ListInv, Heap
<1>3. /\ Shown = <<>> <=> size = 0
      /\ next[header] = IF size = 0 THEN header ELSE s[1]
      /\ prev[header] = s[size] /\ s[0] = header
      /\ \A i \in 0 .. size - 1 : linkList_entry(i) = s[i + 1]
      /\ \A i \in 1 .. size : s[i] # header
  BY <1>1, <1>2, ShownIsSeq, RingFacts, Zenon
<1>4. PICK entry \in {next[header], prev[header]} \cup {linkList_entry(i) : i \in 0 .. size - 1} :
        IF entry = header
          THEN UNCHANGED heap /\ result' = NULL
          ELSE linkList_removeEntry(entry) /\ result' = elem[entry]
  BY DEF Remove
<1>5. size # 0 => \E at \in 1 .. size : entry = s[at]
  <2> SUFFICES ASSUME size # 0 PROVE \E at \in 1 .. size : entry = s[at]
    OBVIOUS
  <2>1. 1 \in 1 .. size /\ size \in 1 .. size
    BY <1>2
  <2>2. CASE entry \in {next[header], prev[header]}
    BY <1>3, <2>1, <2>2
  <2>3. ASSUME NEW i \in 0 .. size - 1, entry = linkList_entry(i)
        PROVE  \E at \in 1 .. size : entry = s[at]
    <3>1. i + 1 \in 1 .. size
      BY <1>2
    <3> QED
      BY <1>3, <2>3, <3>1
  <2> QED
    BY <1>4, <2>2, <2>3
<1>6. size = 0 => entry = header
  <2>1. 0 .. -1 = {}
    OBVIOUS
  <2> QED
    BY <1>3, <1>4, <2>1
<1>7. CASE size = 0
  <2>1. UNCHANGED heap /\ result' = NULL /\ Shown = <<>>
    BY <1>3, <1>4, <1>6, <1>7
  <2>2. ListInv' /\ Elements!RemoveNothing
    BY <2>1, SameHeap, UnchangedOf
  <2> QED
    BY <2>2 DEF Elements!Next
<1>8. CASE size # 0
  <2>1. PICK at \in 1 .. size : entry = s[at]
    BY <1>5, <1>8
  <2>2. linkList_removeEntry(s[at]) /\ result' = elem[s[at]]
    BY <1>3, <1>4, <2>1
  <2>3. /\ ListInv' /\ Shown' = Elements!RemoveAt(Shown, at)
        /\ Shown[at] = elem[s[at]] /\ at \in DOMAIN Shown
    BY <1>1, <1>2, <2>2, RemoveEffect
  <2>4. Elements!RemoveFrom(at)
    BY <2>2, <2>3, RemoveOf
  <2> QED
    BY <2>3, <2>4 DEF Elements!Next, Shown
<1> QED
  BY <1>7, <1>8

LEMMA RemoveElementStep ==
  ASSUME ListInv, NEW e \in Elems, linkList_removeElement(e) PROVE ListInv' /\ Elements!Next
<1>1. PICK s \in [0 .. size -> Ring] : RingOf(s, next, prev, size, live)
  BY Zenon DEF ListInv
<1>2. Heap /\ size \in Nat
  BY DEF ListInv, Heap
<1>3. Elements!Position(e) = IF Found(e) THEN StepsTo(e) ELSE 0
  BY <1>1, <1>2, PositionShown
<1>4. CASE ~Found(e)
  <2>1. UNCHANGED heap /\ result' = -1
    BY <1>4 DEF linkList_removeElement
  <2>2. ListInv' /\ Shown' = Shown
    BY <2>1, SameHeap
  <2>3. Elements!RemoveElement(e)
    BY <1>3, <1>4, <2>1, <2>2 DEF Elements!RemoveElement, Shown
  <2> QED
    BY <2>2, <2>3 DEF Elements!Next
<1>5. CASE Found(e)
  <2> DEFINE at == StepsTo(e)
  <2>1. at \in 1 .. size + 1 /\ (Found(e) <=> at # size + 1)
    BY <1>1, <1>2, Search
  <2>2. linkList_removeEntry(Forward[at]) /\ result' = 0
    BY <1>5 DEF linkList_removeElement
  <2> HIDE DEF at
  <2>3. at \in 1 .. size /\ at \in 0 .. size /\ at # 0
    BY <1>2, <1>5, <2>1
  <2>4. Forward[at] = s[at]
    BY <1>1, <1>2, <2>3, RingFacts, Zenon
  <2>5. ListInv' /\ Shown' = Elements!RemoveAt(Shown, at)
    BY <1>1, <1>2, <2>2, <2>3, <2>4, RemoveEffect
  <2>6. Elements!Position(e) = at
    BY <1>3, <1>5 DEF at
  <2>7. Elements!RemoveElement(e)
    BY <2>2, <2>3, <2>5, <2>6 DEF Elements!RemoveElement, Shown
  <2> QED
    BY <2>5, <2>7 DEF Elements!Next
<1> QED
  BY <1>4, <1>5

LEMMA SetStep ==
  ASSUME ListInv, NEW e \in Elems, NEW i \in 0 .. size - 1, linkList_set(i, e)
  PROVE  ListInv' /\ Elements!Next
<1>1. PICK s \in [0 .. size -> Ring] : RingOf(s, next, prev, size, live)
  BY Zenon DEF ListInv
<1>2. Heap /\ size \in Nat
  BY DEF ListInv, Heap
<1>3. linkList_entry(i) = s[i + 1] /\ i + 1 \in 1 .. size
  <2>1. i + 1 \in 1 .. size
    BY <1>2
  <2>2. linkList_entry(i) = s[i + 1]
    BY <1>1, <1>2, RingFacts, Zenon
  <2> QED
    BY <2>1, <2>2
<1> DEFINE at == i + 1
<1>4. /\ elem' = [elem EXCEPT ![s[at]] = e] /\ result' = elem[s[at]]
      /\ UNCHANGED <<next, prev, size, live>>
  BY <1>3 DEF linkList_set
<1>5. at \in 1 .. size
  BY <1>3
<1> HIDE DEF at
<1>6. /\ ListInv' /\ Shown' = [Shown EXCEPT ![at] = e]
      /\ Shown[at] = elem[s[at]] /\ at \in DOMAIN Shown
  BY <1>1, <1>2, <1>4, <1>5, SetEffect
<1>7. Elements!Replace(at, e)
  BY <1>4, <1>6, ReplaceOf
<1> QED
  BY <1>6, <1>7 DEF Elements!Next, Shown

LEMMA ClearStep ==
  ASSUME ListInv, linkList_clear PROVE ListInv' /\ Elements!Next
<1>1. PICK s \in [0 .. size -> Ring] : RingOf(s, next, prev, size, live)
  BY Zenon DEF ListInv
<1>2. Heap /\ result' = 0
  BY DEF ListInv, linkList_clear
<1>3. ListInv' /\ Shown' = <<>>
  BY <1>1, <1>2, ClearEffect
<1>4. Elements!Clear
  BY <1>2, <1>3 DEF Elements!Clear, Shown
<1> QED
  BY <1>3, <1>4 DEF Elements!Next

LEMMA LookStep ==
  ASSUME ListInv, UNCHANGED heap, Look \/ \E e \in Elems : linkList_indexOf(e)
  PROVE  ListInv' /\ Elements!Next
<1>1. PICK s \in [0 .. size -> Ring] : RingOf(s, next, prev, size, live)
  BY Zenon DEF ListInv
<1>2. Heap /\ size \in Nat
  BY DEF ListInv, Heap
<1>3. ListInv' /\ Shown' = Shown
  BY SameHeap
<1>4. /\ Shown = [n \in 1 .. size |-> elem[s[n]]] /\ DOMAIN Shown = 1 .. size /\ Len(Shown) = size
      /\ Shown = <<>> <=> size = 0
  BY <1>1, <1>2, ShownIsSeq
<1>5. /\ next[header] = IF size = 0 THEN header ELSE s[1]
      /\ prev[header] = s[size]
      /\ \A i \in 0 .. size - 1 : linkList_entry(i) = s[i + 1]
  BY <1>1, <1>2, RingFacts, Zenon
<1>6. ASSUME NEW at \in 1 .. size, result' = elem[s[at]] PROVE Elements!Next
  <2>1. Elements!Look(at)
    BY <1>3, <1>4, <1>6, UnchangedOf
  <2>2. at \in DOMAIN Shown
    BY <1>4
  <2> QED
    BY <2>1, <2>2 DEF Elements!Next, Shown
<1>7. ASSUME NEW i \in 0 .. size - 1, result' = elem[linkList_entry(i)] PROVE Elements!Next
  <2>1. i + 1 \in 1 .. size
    BY <1>2
  <2>2. result' = elem[s[i + 1]]
    BY <1>5, <1>7
  <2> QED
    BY <1>6, <2>1, <2>2
<1>8. ASSUME NEW end \in {next[header], prev[header]}, result' = IF size = 0 THEN NULL ELSE elem[end]
      PROVE  Elements!Next
  <2>1. CASE size = 0
    <3>1. Elements!LookAtNothing
      BY <1>3, <1>4, <1>8, <2>1, UnchangedOf
    <3> QED
      BY <3>1 DEF Elements!Next
  <2>2. CASE size # 0
    <3>1. 1 \in 1 .. size /\ size \in 1 .. size
      BY <1>2, <2>2
    <3>2. result' = elem[s[1]] \/ result' = elem[s[size]]
      BY <1>5, <1>8, <2>2
    <3> QED
      BY <1>6, <3>1, <3>2
  <2> QED
    BY <2>1, <2>2
<1>9. ASSUME result' = size PROVE Elements!Next
  <2>1. Elements!Size
    BY <1>3, <1>4, <1>9, UnchangedOf
  <2> QED
    BY <2>1 DEF Elements!Next
<1>10. ASSUME NEW e \in Elems, linkList_indexOf(e) PROVE Elements!Next
  <2>1. Elements!Position(e) = IF Found(e) THEN StepsTo(e) ELSE 0
    BY <1>1, <1>2, PositionShown
  <2>2. result' = Elements!Position(e) - 1
    BY <1>10, <2>1 DEF linkList_indexOf
  <2>3. Elements!IndexOf(e)
    BY <1>3, <2>2, UnchangedOf
  <2> QED
    BY <2>3 DEF Elements!Next
<1> QED
  BY <1>3, <1>7, <1>8, <1>9, <1>10 DEF Look

LEMMA ListStep ==
  ASSUME ListInv, [Next]_vars PROVE ListInv' /\ [Elements!Next]_Elements!vars
<1>1. CASE Next
  <2>1. CASE \E e \in Elems : Add(e) \/ linkList_removeElement(e)
    BY <2>1, AddStep, RemoveElementStep
  <2>2. CASE \E e \in Elems, i \in 0 .. size - 1 : linkList_set(i, e)
    BY <2>2, SetStep
  <2>3. CASE Remove \/ linkList_clear
    BY <2>3, RemoveStep, ClearStep
  <2>4. CASE (Look \/ \E e \in Elems : linkList_indexOf(e)) /\ UNCHANGED heap
    BY <2>4, LookStep
  <2> QED
    BY <1>1, <2>1, <2>2, <2>3, <2>4 DEF Next
<1>2. CASE UNCHANGED vars
  <2>1. UNCHANGED heap /\ result' = result
    BY <1>2 DEF vars
  <2>2. ListInv' /\ Shown' = Shown
    BY <2>1, SameHeap
  <2> QED
    BY <2>1, <2>2 DEF Elements!vars, Shown
<1> QED
  BY <1>1, <1>2
-------------------------------------------------------------------------------
(* What is proved of the list *)

LEMMA SpecRing == Spec => []ListInv
<1>1. ListInv /\ [Next]_vars => ListInv'
  BY ListStep
<1> QED
  BY <1>1, InitRing, PTL DEF Spec

(* In every state the walk along next meets each live cell once and no freed *)
(* one, size counts them, and linkList_entry (linklist.c) returns the i-th   *)
(* cell from whichever end it walks.                                         *)
THEOREM SpecEntryFindsCell == Spec => []EntryFindsCell
<1>1. ASSUME ListInv PROVE EntryFindsCell
  <2>1. PICK s \in [0 .. size -> Ring] : RingOf(s, next, prev, size, live)
    BY <1>1, Zenon DEF ListInv
  <2>2. Heap /\ size \in Nat /\ size = Cardinality(live)
    BY <1>1 DEF ListInv, Heap
  <2>3. /\ \A n \in 0 .. size : Forward[n] = s[n]
        /\ \A i \in 0 .. size - 1 : Backward[size - i] = s[i + 1] /\ linkList_entry(i) = s[i + 1]
        /\ \A i \in 1 .. size : s[i] \in live
        /\ \A c \in live : \E i \in 1 .. size : s[i] = c
    BY <2>1, <2>2, RingFacts, Zenon
  <2>4. \A n \in 1 .. size : n \in 0 .. size
    BY <2>2
  <2>5. {Forward[n] : n \in 1 .. size} = live
    BY <2>3, <2>4
  <2>6. \A i \in 0 .. size - 1 : i + 1 \in 0 .. size
    BY <2>2
  <2> QED
    BY <2>2, <2>3, <2>5, <2>6 DEF EntryFindsCell
<1> QED
  BY <1>1, SpecRing, PTL

(* Every operation of linklist.c changes the elements on the way round, and  *)
(* answers, as the same operation on a sequence does; an add whose malloc    *)
(* fails changes nothing and answers as if it had succeeded.                 *)
THEOREM SpecImplementsElementList == Spec => ImplementsElementList
<1>1. ListInv /\ [Next]_vars => [Elements!Next]_Elements!vars
  BY ListStep
<1> QED
  BY <1>1, InitRing, SpecRing, PTL DEF Spec, ImplementsElementList, Elements!Spec
==============================================================================

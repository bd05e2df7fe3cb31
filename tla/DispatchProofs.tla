---------------------------- MODULE DispatchProofs ----------------------------
(***************************************************************************)
(* Every index addresses one thread and every thread has one, and while no *)
(* expansion fails no event is lost, for pools of any sizes and any number *)
(* of events.  Two ideas carry the proof.  The running sum of the walk     *)
(* over the pools has a closed form, Capacity, which turns addressing into *)
(* arithmetic.  And the thread with the last index is idle whenever a scan *)
(* begins, because an event is given to it only after a new pool has been  *)
(* put behind it; so every scan ends at an idle thread.  All of that is    *)
(* about processes whose first pool got into the list (listed); for the    *)
(* others Lost says that they end before they give anything to a thread.   *)
(***************************************************************************)
EXTENDS Dispatch, FiniteSetTheorems, TLAPS

Thread == [flag : {0, 1}, event : Events \cup {NoEvent},
           locked : BOOLEAN, doing : Events \cup {NoEvent}]

Early   == {"start", "arrays", "lists", "pool"}
Before  == Early \cup {"register", "test", "wait", "join", "destroy", "freed"}
Handing == {"scan", "grow", "assign"}
PCs     == Before \cup Handing \cup {"next", "exited", "crashed"}

Types ==
  /\ pc \in PCs
  /\ batch \subseteq Events /\ evt \in Events \cup {NoEvent}
  /\ arrived \subseteq Events /\ handled \subseteq Events
  /\ failures \in BOOLEAN /\ listed \in BOOLEAN

(* How many threads n pools have, and how many one of them has.              *)
Capacity(n) == IF n = 0 THEN 0 ELSE BASESIZE + (n - 1) * ELEMSIZE
PoolSize(k) == IF k = 1 THEN BASESIZE ELSE ELEMSIZE

WellSized(ps) ==
  ps \in Seq(Seq(Thread)) /\ \A k \in DOMAIN ps : Len(ps[k]) = PoolSize(k)
PlacesOf(ps)  == UNION {{<<k, p>> : p \in DOMAIN ps[k]} : k \in DOMAIN ps}
Sizes         == WellSized(pools)

(* There is a pool once the loop is reached; the loop's variables belong to  *)
(* the place it is at.                                                       *)
Loop ==
  /\ pc \in PCs \ (Early \cup {"exited", "crashed"}) => pools # <<>>
  /\ pc \in Early => pools = <<>> /\ arrived = {} /\ handled = {}
  /\ (pc = "scan" /\ j > 0) \/ pc \in {"grow", "assign"} => path \in Places
  /\ pc \in {"scan", "grow"} => sum = Capacity(Len(pools)) /\ j \in 0 .. sum
  /\ pc \in Before => batch = {}
  /\ pc \in Before \cup {"next"} => evt = NoEvent
  /\ pc \in Handing => evt \in Events

(* The index of a place, and the place with the last index.                  *)
Index(at) == Capacity(at[1] - 1) + at[2] - 1
LastPlace == <<Len(pools), PoolSize(Len(pools))>>

Holds(at, e) ==
  /\ e \in Events
  /\ \/ thread(at).doing = e
     \/ ~thread(at).locked /\ thread(at).event = e

(* An idle thread waits on its locked mutex; a thread is not given an event  *)
(* while it has one.                                                         *)
Flags == \A at \in Places :
  /\ thread(at).flag = 0 => thread(at).locked /\ thread(at).doing = NoEvent
  /\ ~thread(at).locked => thread(at).event \in Events /\ thread(at).doing = NoEvent

Spare ==
  /\ pc \in {"register", "test", "wait", "next", "scan", "grow", "assign"}
       => thread(LastPlace).flag = 0
  /\ pc \in {"grow", "assign"} => thread(path).flag = 0
  /\ pc \in {"scan", "grow"} => j < sum
  /\ pc = "grow" => Index(path) = j
  /\ pc = "assign" => path # LastPlace

(* Each event is in one place.                                               *)
OneHolder == \A a, b \in Places, e \in Events : Holds(a, e) /\ Holds(b, e) => a = b

HeldOnly == \A at \in Places, e \in Events :
  Holds(at, e) => e \in arrived /\ e \notin batch \cup handled \cup {evt}

ElseOnce ==
  /\ batch \subseteq arrived /\ handled \subseteq arrived /\ batch \cap handled = {}
  /\ evt \in Events => evt \in arrived /\ evt \notin batch \cup handled

Somewhere == \A e \in arrived :
  e \in batch \cup handled \cup {evt} \/ \E at \in Places : Holds(at, e)

Base  == Types /\ Sizes /\ Loop
Clean == Flags /\ Spare /\ OneHolder /\ HeldOnly /\ ElseOnce /\ Somewhere
Inv   == Base /\ (~failures => Clean)

(* The first pool did not get into the list: nothing is scanned, and the     *)
(* first event stays with the main loop, which ends at it.                   *)
Lost ==
  /\ Types
  /\ pc \notin Early
  /\ \/ pools = <<>>
     \/ pools = << AThreadPool_create(ELEMSIZE) >> /\ pc \in {"assign", "crashed"}
  /\ pc = "scan" => sum = 0 /\ j = 0
  /\ pc \in Handing => path = Nobody
  /\ pc \in Before => batch = {}
  /\ pc \in Before \cup {"next"} => evt = NoEvent
  /\ handled = {} /\ evt \notin batch
  /\ arrived = batch \cup ({evt} \ {NoEvent})

Whole == (listed => Inv) /\ (~listed => Lost)

-------------------------------------------------------------------------------
(* Induction.  The library's theorem takes an operator, which no prover here *)
(* instantiates; this one takes the set of numbers that have the property.   *)

LEMMA LeastNat ==
  ASSUME NEW S \in SUBSET Nat, S # {}
  PROVE  \E m \in S : \A n \in S : m <= n
<1> DEFINE R == {ss \in Nat \X Nat : ss[1] < ss[2]}
<1>1. IsWellFoundedOn(R, Nat)
  <2>1. OpToRel(<, Nat) = R
    BY Zenon DEF OpToRel
  <2> QED
    BY <2>1, NatLessThanWellFounded, Zenon
<1>2. \A x, y \in Nat : <<x, y>> \in R <=> x < y
  BY Zenon
<1> HIDE DEF R
<1>3. PICK m \in S : \A n \in S : <<n, m>> \notin R
  BY <1>1, WFMin
<1>4. \A n \in S : ~(n < m)
  BY <1>2, <1>3
<1> QED
  BY <1>4

LEMMA NatSetInduction ==
  ASSUME NEW S, 0 \in S, \A n \in S \cap Nat : n + 1 \in S
  PROVE  Nat \subseteq S
<1> SUFFICES ASSUME Nat \ S # {} PROVE FALSE
  OBVIOUS
<1>1. PICK m \in Nat \ S : \A n \in Nat \ S : m <= n
  BY LeastNat
<1>2. m # 0 /\ m - 1 \in Nat /\ (m - 1) + 1 = m
  BY <1>1
<1>3. m - 1 \in S
  BY <1>1, <1>2
<1> QED
  BY <1>1, <1>2, <1>3

-------------------------------------------------------------------------------
(* Addressing *)

LEMMA CapacityStep ==
  /\ Capacity(0) = 0
  /\ \A n \in Nat : Capacity(n) \in Nat
  /\ \A n \in Nat : Capacity(n + 1) = Capacity(n) + PoolSize(n + 1)
  /\ \A k \in Nat : PoolSize(k) \in Nat /\ PoolSize(k) >= WARNSIZE /\ PoolSize(k) >= 2
<1>1. \A n \in Nat : n # 0 => (n - 1) * ELEMSIZE \in Nat
  BY SizesAssumption
<1>2. \A n \in Nat : n # 0 => n * ELEMSIZE = (n - 1) * ELEMSIZE + ELEMSIZE
  BY SizesAssumption
<1>3. 0 * ELEMSIZE = 0
  BY SizesAssumption
<1>4. \A n \in Nat : Capacity(n) \in Nat
  BY <1>1, SizesAssumption DEF Capacity
<1>5. ASSUME NEW n \in Nat PROVE Capacity(n + 1) = Capacity(n) + PoolSize(n + 1)
  <2>1. (n + 1) - 1 = n
    OBVIOUS
  <2>2. CASE n = 0
    BY <2>1, <2>2, <1>3, SizesAssumption DEF Capacity, PoolSize
  <2>3. CASE n # 0
    <3>1. Capacity(n + 1) = BASESIZE + n * ELEMSIZE
      BY <2>1 DEF Capacity
    <3>2. n + 1 # 1
      BY <2>3
    <3> QED
      BY <3>1, <3>2, <2>3, <1>2, <1>1, SizesAssumption DEF Capacity, PoolSize
  <2> QED
    BY <2>2, <2>3
<1> QED
  BY <1>4, <1>5, SizesAssumption DEF Capacity, PoolSize

LEMMA CapacityGrows == \A m, n \in Nat : m <= n => Capacity(m) <= Capacity(n)
<1> SUFFICES ASSUME NEW m \in Nat PROVE \A n \in Nat : m <= n => Capacity(m) <= Capacity(n)
  OBVIOUS
<1> DEFINE S == {n \in Nat : m <= n => Capacity(m) <= Capacity(n)}
<1>1. 0 \in S
  BY CapacityStep
<1>2. ASSUME NEW n \in S PROVE n + 1 \in S
  BY CapacityStep
<1> HIDE DEF S
<1>3. Nat \subseteq S
  BY <1>1, <1>2, NatSetInduction
<1> QED
  BY <1>3 DEF S

(* The walk's running sum, by its recursive definition, is the capacity.     *)
LEMMA PrefixIsCapacity ==
  ASSUME Sizes
  PROVE  Prefix = [n \in 0 .. Len(pools) |-> Capacity(n)]
<1> DEFINE D == 0 .. Len(pools)
           Eqn(p) == p = [n \in D |-> IF n = 0 THEN 0 ELSE p[n - 1] + Len(pools[n])]
           C == [n \in D |-> Capacity(n)]
<1>1. Len(pools) \in Nat /\ DOMAIN pools = 1 .. Len(pools)
  BY DEF Sizes, WellSized
<1>2. \A n \in D : n # 0 => n - 1 \in D /\ Len(pools[n]) = PoolSize(n)
  BY <1>1 DEF Sizes, WellSized
<1>3. \A n \in D : n # 0 => Capacity(n) = Capacity(n - 1) + PoolSize(n)
  <2> SUFFICES ASSUME NEW n \in D, n # 0
               PROVE  Capacity(n) = Capacity(n - 1) + PoolSize(n)
    OBVIOUS
  <2>1. n - 1 \in Nat /\ (n - 1) + 1 = n
    BY <1>1
  <2> HIDE DEF D
  <2> QED
    BY <2>1, CapacityStep
<1>4. Eqn(C)
  BY <1>2, <1>3, CapacityStep
<1>5. Prefix = CHOOSE p : Eqn(p)
  BY DEF Prefix
<1> HIDE DEF C
<1>6. Eqn(Prefix)
  BY <1>4, <1>5
<1>7. \A n \in Nat : n \in D => Prefix[n] = Capacity(n)
  <2> DEFINE S == {n \in Nat : n \in D => Prefix[n] = Capacity(n)}
  <2>1. 0 \in S
    BY <1>6, <1>1, CapacityStep
  <2>2. ASSUME NEW n \in S PROVE n + 1 \in S
    <3> SUFFICES ASSUME n + 1 \in D PROVE Prefix[n + 1] = Capacity(n + 1)
      OBVIOUS
    <3>1. n \in D /\ n + 1 # 0 /\ (n + 1) - 1 = n
      BY <1>1
    <3>2. Prefix[n + 1] = Prefix[n] + Len(pools[n + 1])
      BY <1>6, <3>1
    <3> QED
      BY <3>1, <3>2, <1>2, <1>3
  <2> HIDE DEF S
  <2>3. Nat \subseteq S
    BY <2>1, <2>2, NatSetInduction
  <2> QED
    BY <2>3 DEF S
<1>8. \A n \in D : Prefix[n] = Capacity(n)
  BY <1>7, <1>1
<1> QED
  BY <1>6, <1>8

LEMMA PlacesShape ==
  ASSUME NEW ps, WellSized(ps)
  PROVE  /\ Len(ps) \in Nat /\ DOMAIN ps = 1 .. Len(ps)
         /\ \A k \in 1 .. Len(ps) : DOMAIN ps[k] = 1 .. PoolSize(k)
         /\ \A at : at \in PlacesOf(ps) <=>
              \E k \in 1 .. Len(ps), p \in Nat : p \in 1 .. PoolSize(k) /\ at = <<k, p>>
<1>1. \A k \in 1 .. Len(ps) : DOMAIN ps[k] = 1 .. PoolSize(k)
  BY DEF WellSized
<1>2. Len(ps) \in Nat /\ DOMAIN ps = 1 .. Len(ps)
  BY DEF WellSized
<1>3. \A at : at \in PlacesOf(ps) <=>
        \E k \in DOMAIN ps : \E p \in DOMAIN ps[k] : at = <<k, p>>
  <2> DEFINE Row(k) == {<<k, p>> : p \in DOMAIN ps[k]}
  <2>1. \A k : \A at : at \in Row(k) <=> \E p \in DOMAIN ps[k] : at = <<k, p>>
    OBVIOUS
  <2>2. PlacesOf(ps) = UNION {Row(k) : k \in DOMAIN ps}
    BY DEF PlacesOf
  <2> HIDE DEF Row
  <2>3. \A at : at \in PlacesOf(ps) <=> \E k \in DOMAIN ps : at \in Row(k)
    BY <2>2
  <2> QED
    BY <2>1, <2>3
<1>4. \A at : at \in PlacesOf(ps) <=>
        \E k \in 1 .. Len(ps) : \E p \in 1 .. PoolSize(k) : at = <<k, p>>
  BY <1>1, <1>2, <1>3, Zenon
<1>5. \A k \in 1 .. Len(ps) : \A p \in 1 .. PoolSize(k) : p \in Nat
  OBVIOUS
<1> QED
  BY <1>1, <1>2, <1>4, <1>5, Zenon

LEMMA PlaceFacts ==
  ASSUME Sizes
  PROVE  /\ Len(pools) \in Nat /\ DOMAIN pools = 1 .. Len(pools)
         /\ \A k \in 1 .. Len(pools) : DOMAIN pools[k] = 1 .. PoolSize(k)
         /\ \A at : at \in Places <=>
              \E k \in 1 .. Len(pools), p \in Nat : p \in 1 .. PoolSize(k) /\ at = <<k, p>>
  BY PlacesShape, Zenon DEF Sizes, Places, PlacesOf

LEMMA IndexOf == \A k, p \in Nat : Index(<<k, p>>) = Capacity(k - 1) + p - 1
  BY DEF Index

LEMMA ElemIPlace ==
  ASSUME Sizes,
         NEW i \in Nat, i < Capacity(Len(pools))
  PROVE  /\ PoolLinker_getElemI(i) \in Places
         /\ Index(PoolLinker_getElemI(i)) = i
<1> DEFINE L == Len(pools)
           P == {e \in Nat : i < Capacity(e)}
<1>1. L \in Nat /\ DOMAIN pools = 1 .. L
  BY DEF Sizes, WellSized
<1>2. PICK e \in Nat :
        e <= L /\ i < Capacity(e) /\ \A d \in Nat : i < Capacity(d) => e <= d
  <2>1. P \in SUBSET Nat /\ L \in P
    BY <1>1
  <2>2. PICK e \in P : \A d \in P : e <= d
    <3> HIDE DEF P
    <3> QED
      BY <2>1, LeastNat
  <2> QED
    BY <2>1, <2>2
<1> HIDE DEF P
<1>3. e \in 1 .. L
  <2>1. e # 0
    BY <1>2, CapacityStep
  <2> QED
    BY <2>1, <1>1, <1>2
<1>4. ASSUME NEW d \in 1 .. e - 1 PROVE i >= Capacity(d)
  <2>1. d \in Nat /\ ~(e <= d)
    BY <1>3, <1>1
  <2>2. ~(i < Capacity(d))
    BY <1>2, <2>1
  <2>3. Capacity(d) \in Nat
    BY <2>1, CapacityStep
  <2> QED
    BY <2>2, <2>3
<1>5. \A d \in 0 .. L : Prefix[d] = Capacity(d) /\ Capacity(d) \in Nat
  BY PrefixIsCapacity, <1>1, CapacityStep
<1>6. PoolOf(i) = e
  <2> DEFINE Q(d) == i <= Prefix[d] - 1 /\ \A c \in 1 .. d - 1 : i > Prefix[c] - 1
  <2>1. Q(e)
    <3>1. e \in 0 .. L /\ \A c \in 1 .. e - 1 : c \in 0 .. L
      BY <1>1, <1>3
    <3>2. \A c \in 1 .. e - 1 : i > Prefix[c] - 1
      BY <3>1, <1>4, <1>5
    <3> QED
      BY <3>1, <3>2, <1>2, <1>5
  <2>2. ASSUME NEW d \in 1 .. L, Q(d) PROVE d = e
    <3>1. ~(d < e)
      BY <1>4, <1>5, <2>2, <1>3, <1>1
    <3>2. ~(e < d)
      BY <2>1, <2>2, <1>3, <1>5, <1>1
    <3> QED
      BY <3>1, <3>2, <1>3, <1>1
  <2>3. PoolOf(i) = CHOOSE d \in 1 .. L : Q(d)
    BY DEF PoolOf
  <2> HIDE DEF Q
  <2> QED
    BY <2>1, <2>2, <2>3, <1>3
<1>7. Len(pools[e]) = PoolSize(e) /\ e - 1 \in Nat /\ Capacity(e - 1) \in Nat
      /\ Capacity(e) = Capacity(e - 1) + PoolSize(e) /\ PoolSize(e) \in Nat
  <2>1. e - 1 \in Nat /\ (e - 1) + 1 = e
    BY <1>3, <1>1
  <2> QED
    BY <2>1, <1>3, <1>1, CapacityStep DEF Sizes, WellSized
<1>8. Capacity(e - 1) <= i /\ i < Capacity(e)
  BY <1>2, <1>3, <1>4, <1>1, <1>7, CapacityStep
<1>9. PoolLinker_getElemI(i) = <<e, i - Capacity(e - 1) + 1>>
  BY <1>5, <1>6, <1>7, <1>3, <1>1 DEF PoolLinker_getElemI
<1>10. i - Capacity(e - 1) + 1 \in 1 .. PoolSize(e)
  BY <1>7, <1>8
<1> QED
  BY <1>7, <1>9, <1>10, <1>3, <1>1, PlaceFacts, IndexOf

LEMMA IndexInRange ==
  ASSUME Sizes, NEW at \in Places
  PROVE  Index(at) \in Nat /\ Index(at) < Capacity(Len(pools))
<1>1. PICK k \in 1 .. Len(pools), p \in Nat : p \in 1 .. PoolSize(k) /\ at = <<k, p>>
  BY PlaceFacts
<1>2. k - 1 \in Nat /\ (k - 1) + 1 = k /\ k \in Nat /\ Len(pools) \in Nat /\ k <= Len(pools)
  BY <1>1
<1>3. Capacity(k) = Capacity(k - 1) + PoolSize(k) /\ Capacity(k - 1) \in Nat
      /\ PoolSize(k) \in Nat /\ Capacity(k) <= Capacity(Len(pools))
      /\ Capacity(Len(pools)) \in Nat
  BY <1>2, CapacityStep, CapacityGrows
<1> QED
  BY <1>1, <1>3 DEF Index

LEMMA IndexInjective ==
  ASSUME Sizes,
         NEW a \in Places, NEW b \in Places, Index(a) = Index(b)
  PROVE  a = b
<1>1. PICK k \in 1 .. Len(pools), p \in Nat : p \in 1 .. PoolSize(k) /\ a = <<k, p>>
  BY PlaceFacts
<1>2. PICK l \in 1 .. Len(pools), q \in Nat : q \in 1 .. PoolSize(l) /\ b = <<l, q>>
  BY PlaceFacts
<1>3. /\ k \in Nat /\ k - 1 \in Nat /\ (k - 1) + 1 = k
      /\ l \in Nat /\ l - 1 \in Nat /\ (l - 1) + 1 = l
  OBVIOUS
<1>4. /\ Capacity(k) = Capacity(k - 1) + PoolSize(k)
      /\ Capacity(l) = Capacity(l - 1) + PoolSize(l)
      /\ Capacity(k - 1) \in Nat /\ Capacity(l - 1) \in Nat
      /\ PoolSize(k) \in Nat /\ PoolSize(l) \in Nat
  BY <1>3, CapacityStep
<1>5. Capacity(k - 1) + p = Capacity(l - 1) + q
  <2>1. Index(a) = Capacity(k - 1) + p - 1 /\ Index(b) = Capacity(l - 1) + q - 1
    BY <1>1, <1>2, <1>3, IndexOf
  <2>2. Capacity(k - 1) + p - 1 = Capacity(l - 1) + q - 1
    BY <2>1, Zenon
  <2>3. \A x, y \in Nat : x + p - 1 = y + q - 1 => x + p = y + q
    OBVIOUS
  <2> QED
    BY <2>2, <2>3, <1>4
<1>6. ~(k < l)
  <2>1. k < l => Capacity(k) <= Capacity(l - 1)
    BY <1>3, CapacityGrows
  <2> QED
    BY <2>1, <1>1, <1>2, <1>3, <1>4, <1>5
<1>7. ~(l < k)
  <2>1. l < k => Capacity(l) <= Capacity(k - 1)
    BY <1>3, CapacityGrows
  <2> QED
    BY <2>1, <1>1, <1>2, <1>3, <1>4, <1>5
<1>8. k = l
  BY <1>3, <1>6, <1>7
<1> QED
  BY <1>1, <1>2, <1>5, <1>8, <1>4

LEMMA CapacityMultiplied ==
  ASSUME Sizes
  PROVE  PoolLinker_getCapacity = Capacity(Len(pools))
<1>1. Len(pools) \in Nat
  BY PlaceFacts
<1>2. Len(pools) # 0 => (Len(pools) - 1) * ELEMSIZE \in Nat
  BY <1>1, SizesAssumption
<1> QED
  BY <1>1, <1>2, SizesAssumption DEF PoolLinker_getCapacity, Capacity

LEMMA Addressing ==
  ASSUME Sizes, listed
  PROVE  EveryThreadAddressed
<1> DEFINE N == Capacity(Len(pools))
<1>1. N \in Nat /\ PoolLinker_getCapacity = N
  BY CapacityMultiplied, CapacityStep, PlaceFacts
<1> HIDE DEF N
<1>2. \A i \in 0 .. N - 1 : i \in Nat /\ i < N
  BY <1>1
<1>3. \A i \in 0 .. N - 1 :
        PoolLinker_getElemI(i) \in Places /\ Index(PoolLinker_getElemI(i)) = i
  BY <1>2, ElemIPlace DEF N
<1>4. ASSUME NEW at \in Places
      PROVE  Index(at) \in 0 .. N - 1 /\ PoolLinker_getElemI(Index(at)) = at
  <2>1. Index(at) \in 0 .. N - 1
    BY <1>1, IndexInRange DEF N
  <2> QED
    BY <2>1, <1>3, IndexInjective
<1> QED
  BY <1>1, <1>3, <1>4 DEF EveryThreadAddressed

-------------------------------------------------------------------------------
(* What the two changes of the pools do to them *)

Changed(ps, at, t) == [ps EXCEPT ![at[1]][at[2]] = t]

LEMMA ChangedFacts ==
  ASSUME NEW ps, WellSized(ps), NEW at \in PlacesOf(ps), NEW t \in Thread
  PROVE  LET q == Changed(ps, at, t) IN
         /\ WellSized(q) /\ Len(q) = Len(ps) /\ PlacesOf(q) = PlacesOf(ps)
         /\ q[at[1]][at[2]] = t
         /\ \A b \in PlacesOf(ps) : b # at => q[b[1]][b[2]] = ps[b[1]][b[2]]
<1> DEFINE q == Changed(ps, at, t)
<1>1. PICK k \in 1 .. Len(ps), p \in Nat : p \in 1 .. PoolSize(k) /\ at = <<k, p>>
  BY PlacesShape
<1>2. Len(ps) \in Nat /\ DOMAIN ps = 1 .. Len(ps)
      /\ \A l \in 1 .. Len(ps) : ps[l] \in Seq(Thread) /\ Len(ps[l]) = PoolSize(l)
                                 /\ DOMAIN ps[l] = 1 .. PoolSize(l)
  BY PlacesShape DEF WellSized
<1>3. q = [ps EXCEPT ![k] = [ps[k] EXCEPT ![p] = t]]
  BY <1>1 DEF Changed
<1>4. [ps[k] EXCEPT ![p] = t] \in Seq(Thread) /\ Len([ps[k] EXCEPT ![p] = t]) = PoolSize(k)
  BY <1>1, <1>2
<1>5. q \in Seq(Seq(Thread)) /\ Len(q) = Len(ps)
  BY <1>2, <1>3, <1>4 DEF WellSized
<1>6. WellSized(q)
  BY <1>2, <1>3, <1>4, <1>5 DEF WellSized
<1>7. PlacesOf(q) = PlacesOf(ps)
  <2> HIDE DEF q
  <2>1. \A b : b \in PlacesOf(q) <=> b \in PlacesOf(ps)
    <3>1. \A b : b \in PlacesOf(q) <=>
            \E l \in 1 .. Len(ps), r \in Nat : r \in 1 .. PoolSize(l) /\ b = <<l, r>>
      BY <1>5, <1>6, PlacesShape
    <3>2. \A b : b \in PlacesOf(ps) <=>
            \E l \in 1 .. Len(ps), r \in Nat : r \in 1 .. PoolSize(l) /\ b = <<l, r>>
      BY PlacesShape
    <3> QED
      BY <3>1, <3>2, Zenon
  <2> QED
    BY <2>1
<1>8. q[at[1]][at[2]] = t
  BY <1>1, <1>2, <1>3
<1>9. ASSUME NEW b \in PlacesOf(ps), b # at PROVE q[b[1]][b[2]] = ps[b[1]][b[2]]
  <2>1. PICK l \in 1 .. Len(ps), r \in Nat : r \in 1 .. PoolSize(l) /\ b = <<l, r>>
    BY PlacesShape
  <2>2. CASE l = k
    BY <2>1, <2>2, <1>9, <1>1, <1>2, <1>3
  <2>3. CASE l # k
    BY <2>1, <2>3, <1>1, <1>2, <1>3
  <2> QED
    BY <2>2, <2>3
<1> QED
  BY <1>5, <1>6, <1>7, <1>8, <1>9

LEMMA NewPool ==
  ASSUME NEW n \in Nat
  PROVE  /\ AThreadPool_create(n) \in Seq(Thread) /\ Len(AThreadPool_create(n)) = n
         /\ \A p \in 1 .. n : AThreadPool_create(n)[p] = Idler
<1>1. Idler \in Thread
  BY DEF Idler, Thread
<1> QED
  BY <1>1 DEF AThreadPool_create

LEMMA ExpandedFacts ==
  ASSUME NEW ps, WellSized(ps), ps # <<>>
  PROVE  LET q == Append(ps, AThreadPool_create(ELEMSIZE)) IN
         /\ WellSized(q) /\ Len(q) = Len(ps) + 1 /\ PlacesOf(ps) \subseteq PlacesOf(q)
         /\ \A b \in PlacesOf(ps) : q[b[1]][b[2]] = ps[b[1]][b[2]]
         /\ \A b \in PlacesOf(q) :
              b \in PlacesOf(ps) \/ (b[1] = Len(q) /\ q[b[1]][b[2]] = Idler)
<1> DEFINE new == AThreadPool_create(ELEMSIZE)
           q   == Append(ps, new)
<1>1. new \in Seq(Thread) /\ Len(new) = ELEMSIZE
      /\ \A p \in 1 .. ELEMSIZE : new[p] = Idler
  BY NewPool, SizesAssumption
<1> HIDE DEF new
<1>2. ps \in Seq(Seq(Thread)) /\ Len(ps) \in Nat /\ Len(ps) # 0
      /\ \A l \in 1 .. Len(ps) : Len(ps[l]) = PoolSize(l)
  BY PlacesShape DEF WellSized
<1>3. q \in Seq(Seq(Thread)) /\ Len(q) = Len(ps) + 1 /\ q[Len(q)] = new
      /\ \A l \in 1 .. Len(ps) : q[l] = ps[l]
  BY <1>1, <1>2
<1>4. PoolSize(Len(q)) = ELEMSIZE
  BY <1>2, <1>3 DEF PoolSize
<1>5. WellSized(q)
  BY <1>1, <1>2, <1>3, <1>4 DEF WellSized
<1> HIDE DEF q
<1>6. \A b : b \in PlacesOf(ps) <=>
         \E k \in 1 .. Len(ps), p \in Nat : p \in 1 .. PoolSize(k) /\ b = <<k, p>>
  BY PlacesShape
<1>7. \A b : b \in PlacesOf(q) <=>
         \E k \in 1 .. Len(q), p \in Nat : p \in 1 .. PoolSize(k) /\ b = <<k, p>>
  BY <1>5, PlacesShape
<1>8. \A k \in 1 .. Len(ps) : k \in 1 .. Len(q)
  BY <1>2, <1>3
<1>9. PlacesOf(ps) \subseteq PlacesOf(q)
  BY <1>6, <1>7, <1>8
<1>10. \A b \in PlacesOf(ps) : q[b[1]][b[2]] = ps[b[1]][b[2]]
  BY <1>3, <1>6
<1>11. ASSUME NEW b \in PlacesOf(q)
       PROVE  b \in PlacesOf(ps) \/ (b[1] = Len(q) /\ q[b[1]][b[2]] = Idler)
  <2>1. PICK k \in 1 .. Len(q), p \in Nat : p \in 1 .. PoolSize(k) /\ b = <<k, p>>
    BY <1>7
  <2>2. CASE k \in 1 .. Len(ps)
    BY <2>1, <2>2, <1>6
  <2>3. CASE k = Len(q)
    BY <2>1, <2>3, <1>1, <1>3, <1>4
  <2> QED
    BY <2>1, <2>2, <2>3, <1>2, <1>3
<1> QED
  BY <1>3, <1>5, <1>9, <1>10, <1>11 DEF q, new

-------------------------------------------------------------------------------
(* Types, sizes and the loop's variables *)

PoolsStill == UNCHANGED pools

LEMMA StillFacts == PoolsStill => Places' = Places /\ Sizes' = Sizes
  BY DEF PoolsStill, Places, Sizes

LEMMA PutFacts ==
  ASSUME Sizes, NEW at, at \in Places, NEW t \in Thread, pools' = Changed(pools, at, t)
  PROVE  /\ Sizes' /\ Len(pools') = Len(pools) /\ Places' = Places
         /\ pools'[at[1]][at[2]] = t
         /\ \A b \in Places : b # at => pools'[b[1]][b[2]] = pools[b[1]][b[2]]
<1>1. Places = PlacesOf(pools) /\ Places' = PlacesOf(pools')
  BY DEF Places, PlacesOf
<1> QED
  BY <1>1, ChangedFacts DEF Sizes

LEMMA ThreadType ==
  ASSUME Sizes, NEW at \in Places
  PROVE  pools[at[1]][at[2]] \in Thread
<1>1. PICK k \in 1 .. Len(pools), p \in Nat : p \in 1 .. PoolSize(k) /\ at = <<k, p>>
  BY PlaceFacts
<1>2. pools[k] \in Seq(Thread) /\ Len(pools[k]) = PoolSize(k)
  BY PlaceFacts DEF Sizes, WellSized
<1> QED
  BY <1>1, <1>2

LEMMA NonEmpty == ASSUME Sizes PROVE pools # <<>> <=> Len(pools) # 0
  BY DEF Sizes, WellSized

LEMMA BaseInit == Init => Base
<1> SUFFICES ASSUME Init PROVE Base
  OBVIOUS
<1>1. Sizes
  BY DEF Init, Sizes, WellSized
<1> QED
  BY <1>1 DEF Init, Base, Types, Loop, PCs, Before, Early, Handing

LEMMA BaseStart ==
  ASSUME Base, StartStep, listed' PROVE Base'
<1> USE DEF Base, Types, Loop, PCs, Before, Early, Handing, To, scan, past
<1>1. CASE createTCPSrv
  BY <1>1, StillFacts DEF createTCPSrv, PoolsStill
<1>2. CASE createConnectArray
  BY <1>2, StillFacts DEF createConnectArray, PoolsStill
<1>3. CASE CreateLists
  BY <1>3, StillFacts DEF CreateLists, PoolsStill
<1>4. CASE PoolLinker_init
  <2>1. CASE UNCHANGED pools /\ pc' \in {"exited", "crashed"}
    BY <1>4, <2>1, StillFacts DEF PoolLinker_init, PoolsStill
  <2>2. CASE pools' = << AThreadPool_create(BASESIZE) >> /\ pc' = "register"
    <3>1. Sizes' /\ Len(pools') = 1
      BY <2>2, NewPool, SizesAssumption DEF Sizes, WellSized, PoolSize
    <3>2. pools' # <<>>
      BY <2>2
    <3> QED
      BY <1>4, <3>1, <3>2, <2>2 DEF PoolLinker_init
  <2> QED
    BY <1>4, <2>1, <2>2 DEF PoolLinker_init
<1>5. CASE Register
  BY <1>5, StillFacts DEF Register, PoolsStill
<1> QED
  BY <1>1, <1>2, <1>3, <1>4, <1>5 DEF StartStep

(* A place whose thread has a flag to read: what Scan looks at.              *)
LEMMA ScannedPlace ==
  ASSUME Base, pc = "scan", j < sum
  PROVE  PoolLinker_getElemI(j) \in Places /\ Index(PoolLinker_getElemI(j)) = j
<1>1. j \in Nat /\ j < Capacity(Len(pools))
  <2>1. sum = Capacity(Len(pools)) /\ j \in 0 .. sum
    BY DEF Base, Loop
  <2> QED
    BY <2>1
<1> QED
  BY <1>1, ElemIPlace DEF Base

LEMMA BaseLoop ==
  ASSUME Base, LoopStep, listed' PROVE Base'
<1> USE DEF Base, Types, Loop, PCs, Before, Early, Handing, scan, past
<1>1. CASE Test
  BY <1>1, StillFacts DEF Test, TestRunning, PoolsStill
<1>2. CASE NextEvent
  <2>1. CASE batch = {}
    BY <1>2, <2>1, StillFacts DEF NextEvent, PoolsStill
  <2>2. CASE batch # {}
    <3>1. sum' = Capacity(Len(pools)) /\ Capacity(Len(pools)) \in Nat
      BY <1>2, <2>2, CapacityMultiplied, CapacityStep, PlaceFacts DEF NextEvent
    <3> QED
      BY <1>2, <2>2, <3>1, StillFacts DEF NextEvent, PoolsStill
  <2> QED
    BY <2>1, <2>2
<1>3. CASE Scan
  <2>1. path' \in Places
    BY <1>3, ScannedPlace DEF Scan
  <2>2. sum \in Nat /\ j \in 0 .. sum
    BY <1>3, CapacityStep, PlaceFacts DEF Scan
  <2> QED
    BY <1>3, <2>1, <2>2, StillFacts DEF Scan, PoolsStill
<1>4. CASE ScanEnds
  <2>1. sum = Capacity(Len(pools)) /\ j = sum /\ pools # <<>>
    BY <1>4 DEF ScanEnds
  <2>2. Len(pools) \in Nat /\ Len(pools) # 0
    BY <2>1, PlaceFacts, NonEmpty
  <2>3. j > 0
    <3>1. Capacity(1) <= Capacity(Len(pools)) /\ Capacity(1) = 0 + PoolSize(1)
          /\ PoolSize(1) >= 2 /\ PoolSize(1) \in Nat /\ Capacity(Len(pools)) \in Nat
      <4>1. 1 \in Nat /\ 0 \in Nat /\ 0 + 1 = 1 /\ 1 <= Len(pools)
        BY <2>2
      <4> QED
        BY <4>1, <2>2, CapacityStep, CapacityGrows
    <3> QED
      BY <2>1, <3>1
  <2> QED
    BY <1>4, <2>3, StillFacts DEF ScanEnds, PoolsStill
<1>5. CASE Enough
  BY <1>5, StillFacts DEF Enough, PoolsStill
<1>6. CASE PoolLinker_expandCapacity
  <2>1. WellSized(pools) /\ pools # <<>> /\ pools' = Append(pools, AThreadPool_create(ELEMSIZE))
    BY <1>6 DEF PoolLinker_expandCapacity, Sizes
  <2>2. WellSized(pools') /\ Len(pools') = Len(pools) + 1
        /\ PlacesOf(pools) \subseteq PlacesOf(pools')
    BY <2>1, ExpandedFacts
  <2>3. Sizes' /\ Places \subseteq Places' /\ pools' # <<>>
    BY <2>2, PlaceFacts DEF Sizes, Places, PlacesOf, WellSized
  <2> QED
    BY <1>6, <2>1, <2>3 DEF PoolLinker_expandCapacity
<1>7. CASE ExpandFails
  BY <1>7, StillFacts DEF ExpandFails, PoolsStill
<1>8. CASE CreateCrashes
  BY <1>8, StillFacts DEF CreateCrashes, PoolsStill
<1>9. CASE Assign
  <2>1. path \in Places /\ pools # <<>>
    BY <1>9 DEF Assign
  <2>2. Given(thread(path)) \in Thread
    <3>1. pools[path[1]][path[2]] \in Thread
      BY <2>1, ThreadType
    <3> QED
      BY <1>9, <3>1 DEF Given, thread, Thread, Assign
  <2>3. pools' = Changed(pools, path, Given(thread(path)))
    BY <1>9 DEF Assign, Put, Changed
  <2>4. Sizes' /\ Len(pools') = Len(pools) /\ Places' = Places
    BY <2>1, <2>2, <2>3, PutFacts
  <2>5. pools' # <<>>
    BY <2>1, <2>4, NonEmpty DEF Sizes, WellSized
  <2> QED
    BY <1>9, <2>1, <2>4, <2>5 DEF Assign
<1>10. CASE AssignCrashes
  BY <1>10, StillFacts DEF AssignCrashes, PoolsStill
<1> QED
  BY <1>1, <1>2, <1>3, <1>4, <1>5, <1>6, <1>7, <1>8, <1>9, <1>10 DEF LoopStep

LEMMA BaseThread ==
  ASSUME Base, NEW at \in Places, Begin(at) \/ End(at) PROVE Base'
<1> USE DEF Base, Types, Loop, PCs, Before, Early, Handing, scan, past
<1>1. pools[at[1]][at[2]] \in Thread /\ pools # <<>>
  BY ThreadType, PlaceFacts, NonEmpty
<1>2. CASE Begin(at)
  <2> DEFINE t == [thread(at) EXCEPT !.locked = TRUE, !.doing = thread(at).event]
  <2>1. t \in Thread
    BY <1>1 DEF Thread, thread
  <2>2. pools' = Changed(pools, at, t)
    BY <1>2 DEF Begin, Put, Changed
  <2> HIDE DEF t
  <2>3. Sizes' /\ Len(pools') = Len(pools) /\ Places' = Places
    BY <2>1, <2>2, PutFacts
  <2>4. pools' # <<>>
    BY <1>1, <2>3, NonEmpty DEF Sizes, WellSized
  <2> QED
    BY <1>2, <1>1, <2>3, <2>4 DEF Begin, Intact, Over
<1>3. CASE End(at)
  <2> DEFINE t == [thread(at) EXCEPT !.doing = NoEvent, !.flag = 0]
  <2>1. t \in Thread
    BY <1>1 DEF Thread, thread
  <2>2. pools' = Changed(pools, at, t)
    BY <1>3 DEF End, Put, Changed
  <2> HIDE DEF t
  <2>3. Sizes' /\ Len(pools') = Len(pools) /\ Places' = Places
    BY <2>1, <2>2, PutFacts
  <2>4. pools' # <<>>
    BY <1>1, <2>3, NonEmpty DEF Sizes, WellSized
  <2>5. handled' \subseteq Events
    BY <1>3, <1>1 DEF End, Working, thread, Thread
  <2> QED
    BY <1>3, <1>1, <2>3, <2>4, <2>5 DEF End, Intact, Over
<1> QED
  BY <1>2, <1>3

LEMMA BaseOther ==
  ASSUME Base, EndStep \/ EpollWait \/ EpollFails \/ Stop \/ UseFreed \/ UNCHANGED vars
  PROVE  Base'
<1> USE DEF Base, Types, Loop, PCs, Before, Early, Handing, scan, past
<1>1. CASE EndStep
  BY <1>1, StillFacts DEF EndStep, JoinSrv, PoolLinker_destroy, Exit, PoolsStill
<1>2. CASE EpollWait
  BY <1>2, StillFacts DEF EpollWait, PoolsStill
<1>3. CASE Stop
  BY <1>3, StillFacts DEF Stop, Over, PoolsStill
<1>4. CASE UseFreed
  BY <1>4, StillFacts DEF UseFreed, PoolsStill
<1>5. CASE UNCHANGED vars
  BY <1>5, StillFacts DEF vars, PoolsStill
<1>6. CASE EpollFails
  BY <1>6, StillFacts DEF EpollFails, PoolsStill
<1> QED
  BY <1>1, <1>2, <1>3, <1>4, <1>5, <1>6

LEMMA BaseStep == Base /\ [Next]_vars /\ listed' => Base'
  BY BaseStart, BaseLoop, BaseThread, BaseOther DEF Next, Quiet

LEMMA ListedOnce ==
  ASSUME [Next]_vars, ~PoolLinker_init PROVE listed' = listed
<1>1. CASE StartStep \/ EndStep
  BY <1>1 DEF StartStep, createTCPSrv, createConnectArray, CreateLists, Register,
     EndStep, JoinSrv, PoolLinker_destroy, Exit, past
<1>2. CASE LoopStep
  BY <1>2 DEF LoopStep, Test, NextEvent, Scan, ScanEnds, Enough, PoolLinker_expandCapacity,
     ExpandFails, CreateCrashes, Assign, AssignCrashes, past
<1>3. CASE \E at \in Places : Begin(at) \/ End(at)
  BY <1>3 DEF Begin, End, past
<1> QED
  BY <1>1, <1>2, <1>3 DEF Next, EpollWait, EpollFails, Stop, UseFreed, Quiet, vars, past

-------------------------------------------------------------------------------
(* A process whose first pool did not get into the list *)

LEMMA LostIdle ==
  ASSUME Lost
  PROVE  \A at \in Places :
           thread(at) = Idler /\ ~Ready(at) /\ ~Working(at) /\ pc \in {"assign", "crashed"}
<1>1. CASE pools = <<>>
  BY <1>1 DEF Places
<1>2. CASE pools = << AThreadPool_create(ELEMSIZE) >> /\ pc \in {"assign", "crashed"}
  <2>1. Len(pools) = 1 /\ DOMAIN pools = {1} /\ pools[1] = AThreadPool_create(ELEMSIZE)
    BY <1>2
  <2>2. DOMAIN pools[1] = 1 .. ELEMSIZE /\ \A p \in 1 .. ELEMSIZE : pools[1][p] = Idler
    BY <2>1 DEF AThreadPool_create
  <2>3. \A at \in Places : \E k \in DOMAIN pools : \E p \in DOMAIN pools[k] : at = <<k, p>>
    BY DEF Places
  <2>4. ASSUME NEW at \in Places PROVE thread(at) = Idler
    <3>1. PICK k \in DOMAIN pools : \E p \in DOMAIN pools[k] : at = <<k, p>>
      BY <2>3
    <3>2. PICK p \in DOMAIN pools[k] : at = <<k, p>>
      BY <3>1
    <3>3. k = 1 /\ p \in 1 .. ELEMSIZE
      BY <2>1, <2>2
    <3> QED
      BY <2>2, <3>2, <3>3 DEF thread
  <2> QED
    BY <1>2, <2>4 DEF Ready, Working, Idler
<1> QED
  BY <1>1, <1>2 DEF Lost

LEMMA LostStep ==
  ASSUME Lost, [Next]_vars PROVE Lost' /\ listed' = listed
<1> USE NoEventAssumption
    DEF Lost, Types, PCs, Before, Early, Handing, Over, scan, past
<1>1. ~PoolLinker_init
  BY DEF PoolLinker_init
<1>2. listed' = listed
  BY <1>1, ListedOnce
<1>3. CASE StartStep \/ EndStep
  BY <1>1, <1>2, <1>3 DEF StartStep, createTCPSrv, createConnectArray, CreateLists, Register, To,
     EndStep, JoinSrv, PoolLinker_destroy, Exit
<1>4. CASE Test \/ EpollFails \/ Stop \/ UseFreed \/ Quiet \/ UNCHANGED vars
  BY <1>2, <1>4 DEF Test, TestRunning, EpollFails, Stop, UseFreed, Quiet, vars
<1>5. CASE EpollWait
  BY <1>2, <1>5 DEF EpollWait
<1>6. CASE NextEvent
  <2>1. pools = <<>> => PoolLinker_getCapacity = 0
    BY DEF PoolLinker_getCapacity
  <2> QED
    BY <1>2, <1>6, <2>1 DEF NextEvent
<1>7. CASE Scan \/ ScanEnds \/ Enough
  BY <1>2, <1>7 DEF Scan, ScanEnds, Enough
<1>8. CASE PoolLinker_expandCapacity
  <2>1. pools' = << AThreadPool_create(ELEMSIZE) >>
    BY <1>8 DEF PoolLinker_expandCapacity
  <2> QED
    BY <1>2, <1>8, <2>1 DEF PoolLinker_expandCapacity
<1>9. CASE ExpandFails \/ CreateCrashes \/ Assign \/ AssignCrashes
  BY <1>2, <1>9 DEF ExpandFails, CreateCrashes, Assign, AssignCrashes
<1>10. ~\E at \in Places : Begin(at) \/ End(at)
  BY LostIdle DEF Begin, End
<1> QED
  BY <1>2, <1>3, <1>4, <1>5, <1>6, <1>7, <1>8, <1>9, <1>10 DEF Next, LoopStep

(* The node of the first pool is not to be had.                              *)
LEMMA LostFirst ==
  ASSUME Base, PoolLinker_init, listed, ~listed' PROVE Lost'
  BY NoEventAssumption
  DEF Base, Types, Loop, Lost, PCs, Before, Early, Handing, PoolLinker_init, scan

-------------------------------------------------------------------------------
(* No event is lost while no expansion fails *)

LEMMA LastFacts ==
  ASSUME Sizes, pools # <<>>
  PROVE  /\ LastPlace \in Places
         /\ Index(LastPlace) = Capacity(Len(pools)) - 1
         /\ Capacity(Len(pools)) \in Nat /\ Capacity(Len(pools)) >= 2
<1>1. Len(pools) \in Nat /\ Len(pools) # 0
  BY NonEmpty, PlaceFacts
<1> DEFINE n == Len(pools)
<1>2. n - 1 \in Nat /\ (n - 1) + 1 = n /\ n \in 1 .. n
  BY <1>1
<1> HIDE DEF n
<1>3. Capacity(n) = Capacity(n - 1) + PoolSize(n) /\ Capacity(n - 1) \in Nat
      /\ PoolSize(n) \in Nat /\ PoolSize(n) >= 2
  BY <1>1, <1>2, CapacityStep DEF n
<1>4. LastPlace = <<n, PoolSize(n)>>
  BY DEF LastPlace, n
<1>5. LastPlace \in Places
  <2>1. PoolSize(n) \in 1 .. PoolSize(n)
    BY <1>3
  <2> QED
    BY <2>1, <1>2, <1>3, <1>4, PlaceFacts DEF n
<1>6. Index(LastPlace) = Capacity(n - 1) + PoolSize(n) - 1
  BY <1>4 DEF Index
<1>7. Capacity(n) \in Nat /\ Capacity(n) >= 2 /\ Index(LastPlace) = Capacity(n) - 1
  BY <1>3, <1>6
<1> QED
  BY <1>5, <1>7 DEF n

LEMMA StillHolds ==
  PoolsStill => /\ Flags' = Flags /\ OneHolder' = OneHolder /\ LastPlace' = LastPlace
                /\ \A at, e : Holds(at, e)' = Holds(at, e)
                /\ \A at : thread(at)' = thread(at)
<1> SUFFICES ASSUME PoolsStill
             PROVE  /\ Flags' = Flags /\ OneHolder' = OneHolder /\ LastPlace' = LastPlace
                    /\ \A at, e : Holds(at, e)' = Holds(at, e)
                    /\ \A at : thread(at)' = thread(at)
  OBVIOUS
<1>1. Places' = Places /\ pools' = pools
  BY StillFacts DEF PoolsStill
<1> QED
  <2>1. \A at : thread(at)' = thread(at)
    BY <1>1 DEF thread
  <2>2. \A at, e : Holds(at, e)' = Holds(at, e)
    BY <2>1 DEF Holds
  <2>3. Flags' = Flags /\ LastPlace' = LastPlace
    BY <1>1, <2>1 DEF Flags, LastPlace
  <2>4. OneHolder' = OneHolder
    BY <1>1, <2>2 DEF OneHolder
  <2> QED
    BY <2>1, <2>2, <2>3, <2>4

LEMMA CleanInit == Init => Clean
<1> SUFFICES ASSUME Init PROVE Clean
  OBVIOUS
<1>1. Places = {}
  BY DEF Init, Places
<1> QED
  BY <1>1, NoEventAssumption
  DEF Init, Clean, Flags, Spare, OneHolder, HeldOnly, ElseOnce, Somewhere

(* A step that leaves the pools and every event where they are.              *)
LEMMA CleanKept ==
  ASSUME Base, Clean, PoolsStill, UNCHANGED <<batch, evt, arrived, handled>>, Spare'
  PROVE  Clean'
<1>1. Places' = Places
  BY StillFacts
<1>2. Flags' /\ OneHolder' /\ \A at, e : Holds(at, e)' = Holds(at, e)
  BY StillHolds DEF Clean
<1>3. HeldOnly' /\ Somewhere'
  BY <1>1, <1>2 DEF Clean, HeldOnly, Somewhere
<1>4. ElseOnce'
  BY DEF Clean, ElseOnce
<1> QED
  BY <1>2, <1>3, <1>4 DEF Clean

LEMMA CleanStart ==
  ASSUME Base, Clean, StartStep, listed' PROVE Clean'
<1> USE DEF scan, past
<1>1. CASE Register
  <2>1. PoolsStill
    BY <1>1 DEF Register, PoolsStill
  <2>2. thread(LastPlace)' = thread(LastPlace)
    BY <2>1, StillHolds
  <2>3. Spare'
    BY <1>1, <2>2 DEF Register, To, Clean, Spare
  <2> QED
    BY <1>1, <2>1, <2>3, CleanKept DEF Register
<1>2. CASE createTCPSrv \/ createConnectArray \/ CreateLists
           \/ (PoolLinker_init /\ UNCHANGED pools /\ pc' # "register")
  <2>1. PoolsStill
    BY <1>2 DEF createTCPSrv, createConnectArray, CreateLists, PoolsStill
  <2>2. pc' \in {"arrays", "lists", "pool", "exited", "crashed"}
    BY <1>2 DEF createTCPSrv, createConnectArray, CreateLists, PoolLinker_init, To
  <2>3. Spare'
    BY <2>2 DEF Spare
  <2> QED
    BY <1>2, <2>1, <2>3, CleanKept
       DEF createTCPSrv, createConnectArray, CreateLists, PoolLinker_init
<1>3. CASE PoolLinker_init /\ pools' = << AThreadPool_create(BASESIZE) >> /\ pc' = "register"
  <2>1. Places = {}
    BY <1>3 DEF PoolLinker_init, Base, Loop, Early, Places
  <2>2. Sizes' /\ Len(pools') = 1 /\ DOMAIN pools' = {1}
    BY <1>3, NewPool, SizesAssumption DEF Sizes, WellSized, PoolSize
  <2>3. ASSUME NEW at, at \in Places' PROVE thread(at)' = Idler
    <3>1. WellSized(pools') /\ at \in PlacesOf(pools')
      BY <2>2, <2>3 DEF Sizes, Places, PlacesOf
    <3>2. PICK k \in 1 .. 1, p \in Nat : p \in 1 .. PoolSize(k) /\ at = <<k, p>>
      BY <2>2, <3>1, PlacesShape
    <3>3. k = 1 /\ p \in 1 .. BASESIZE
      BY <3>2 DEF PoolSize
    <3> QED
      BY <1>3, <3>2, <3>3, NewPool, SizesAssumption DEF thread
  <2>4. Idler.flag = 0 /\ Idler.locked /\ Idler.doing = NoEvent
    BY DEF Idler
  <2>5. \A e : \A at \in Places' : ~Holds(at, e)'
    BY <2>3, <2>4, NoEventAssumption DEF Holds
  <2>6. Flags' /\ OneHolder' /\ HeldOnly'
    BY <2>3, <2>4, <2>5 DEF Flags, OneHolder, HeldOnly
  <2>7. ElseOnce' /\ Somewhere'
    BY <1>3, <2>1 DEF Clean, ElseOnce, Somewhere, PoolLinker_init
  <2>8. Spare'
    <3>1. LastPlace' \in Places'
      <4>1. LastPlace' = <<1, BASESIZE>> /\ PoolSize(1) = BASESIZE /\ BASESIZE \in 1 .. BASESIZE
        BY <2>2, SizesAssumption DEF LastPlace, PoolSize
      <4>2. WellSized(pools') /\ Places' = PlacesOf(pools')
        BY <2>2 DEF Sizes, Places, PlacesOf
      <4> QED
        BY <2>2, <4>1, <4>2, PlacesShape
    <3> QED
      BY <1>3, <2>3, <2>4, <3>1 DEF Spare
  <2> QED
    BY <2>6, <2>7, <2>8 DEF Clean
<1> QED
  BY <1>1, <1>2, <1>3 DEF StartStep, PoolLinker_init

LEMMA CleanReport ==
  ASSUME Base, Clean, EpollWait PROVE Clean'
<1>1. PoolsStill /\ pc = "wait" /\ pc' = "next" /\ batch = {} /\ evt = NoEvent
  BY DEF EpollWait, PoolsStill, Base, Loop, Before
<1>2. Places' = Places /\ Flags' /\ OneHolder' /\ \A at, e : Holds(at, e)' = Holds(at, e)
  BY <1>1, StillFacts, StillHolds DEF Clean
<1>3. Spare'
  BY <1>1, StillHolds DEF Clean, Spare
<1>4. PICK new \in SUBSET (Events \ arrived) : batch' = new /\ arrived' = arrived \cup new
  BY DEF EpollWait
<1>5. UNCHANGED <<evt, handled>>
  BY DEF EpollWait
<1>6. HeldOnly' /\ Somewhere'
  BY <1>1, <1>2, <1>4, <1>5, NoEventAssumption DEF Clean, HeldOnly, Somewhere
<1>7. ElseOnce'
  BY <1>1, <1>4, <1>5, NoEventAssumption DEF Clean, ElseOnce
<1> QED
  BY <1>2, <1>3, <1>6, <1>7 DEF Clean

(* The scan ends at an idle thread: the last one, if at no earlier one.      *)
LEMMA CleanScan ==
  ASSUME Base, Clean, Scan PROVE Clean'
<1>1. PoolsStill /\ UNCHANGED <<batch, evt, arrived, handled, sum, pools>>
      /\ pc = "scan" /\ j < sum /\ path' = PoolLinker_getElemI(j)
      /\ sum = Capacity(Len(pools)) /\ j \in 0 .. sum /\ Sizes /\ pools # <<>>
  BY DEF Scan, PoolsStill, past, Base, Loop, Early, PCs, Handing
<1>2. path' \in Places /\ Index(path') = j
  BY <1>1, ScannedPlace
<1>3. thread(LastPlace)' = thread(LastPlace)
      /\ thread(LastPlace).flag = 0 /\ LastPlace' = LastPlace
  BY <1>1, StillHolds DEF Clean, Spare
<1>4. Spare'
  <2>1. CASE thread(path').flag = 0
    <3>1. pc' = "grow" /\ j' = j
      BY <2>1 DEF Scan
    <3>2. thread(path)'.flag = 0
      BY <2>1, <1>1 DEF thread
    <3>3. Index(path)' = j
      BY <1>2 DEF Index, Capacity
    <3> QED
      BY <1>1, <1>3, <3>1, <3>2, <3>3 DEF Spare
  <2>2. CASE thread(path').flag # 0
    <3>1. pc' = "scan" /\ j' = j + 1
      BY <2>2, <1>1 DEF Scan
    <3>2. path' # LastPlace
      BY <2>2, <1>3
    <3>3. Index(path') # Index(LastPlace)
      BY <1>1, <1>2, <3>2, IndexInjective, LastFacts
    <3>4. j # sum - 1
      BY <1>1, <1>2, <3>3, LastFacts
    <3>5. sum \in Nat
      BY <1>1, LastFacts
    <3>6. j' < sum'
      BY <3>1, <3>4, <3>5, <1>1
    <3> QED
      BY <1>1, <1>3, <3>1, <3>6 DEF Spare
  <2> QED
    BY <2>1, <2>2
<1> QED
  BY <1>1, <1>4, CleanKept

(* An event is not given to the last thread: with so few left the loop grows *)
(* first, and the last thread is then one of the new pool's.                 *)
LEMMA CleanGrow ==
  ASSUME Base, Clean, Enough \/ PoolLinker_expandCapacity \/ CreateCrashes PROVE Clean'
<1>1. /\ pc = "grow" /\ sum = Capacity(Len(pools)) /\ j \in 0 .. sum /\ Sizes /\ pools # <<>>
      /\ path \in Places /\ Index(path) = j /\ thread(path).flag = 0
      /\ thread(LastPlace).flag = 0
      /\ UNCHANGED <<batch, evt, arrived, handled, path>>
  BY DEF Enough, PoolLinker_expandCapacity, CreateCrashes, scan, past, Base, Loop, Early,
         PCs, Handing, Before, Clean, Spare
<1>2. CASE Enough
  <2>1. PoolsStill /\ pc' = "assign"
    BY <1>2 DEF Enough, PoolsStill
  <2>2. path # LastPlace
    <3>1. sum \in Nat /\ Index(LastPlace) = sum - 1
      BY <1>1, LastFacts
    <3>2. ~(sum - j < WARNSIZE)
      BY <1>2 DEF Enough, NearlyFull
    <3> QED
      BY <1>1, <3>1, <3>2, SizesAssumption
  <2>3. LastPlace' = LastPlace /\ thread(LastPlace)' = thread(LastPlace)
        /\ thread(path)' = thread(path)
    BY <1>1, <2>1, StillHolds DEF thread, PoolsStill
  <2>4. Spare'
    BY <1>1, <2>1, <2>2, <2>3 DEF Spare
  <2> QED
    BY <1>1, <2>1, <2>4, CleanKept
<1>3. CASE PoolLinker_expandCapacity
  <2>1. pools' = Append(pools, AThreadPool_create(ELEMSIZE)) /\ pc' = "assign"
    BY <1>3 DEF PoolLinker_expandCapacity
  <2>2. WellSized(pools) /\ Places = PlacesOf(pools) /\ Places' = PlacesOf(pools')
    BY <1>1 DEF Sizes, Places, PlacesOf
  <2>3. /\ WellSized(pools') /\ Len(pools') = Len(pools) + 1 /\ Places \subseteq Places'
        /\ \A at \in Places : pools'[at[1]][at[2]] = pools[at[1]][at[2]]
        /\ \A at \in Places' :
             at \in Places \/ (at[1] = Len(pools') /\ pools'[at[1]][at[2]] = Idler)
    BY <1>1, <2>1, <2>2, ExpandedFacts
  <2>4. \A at \in Places : thread(at)' = thread(at)
    BY <2>3 DEF thread
  <2>5. \A at \in Places' : at \in Places \/ (at[1] = Len(pools') /\ thread(at)' = Idler)
    BY <2>3 DEF thread
  <2>6. Idler.flag = 0 /\ Idler.locked /\ Idler.doing = NoEvent
    BY DEF Idler
  <2>7. \A e : \A at \in Places' : Holds(at, e)' => at \in Places /\ Holds(at, e)
    BY <2>4, <2>5, <2>6, NoEventAssumption DEF Holds
  <2>8. \A e : \A at \in Places : Holds(at, e) => Holds(at, e)'
    BY <2>4 DEF Holds
  <2>9. Flags'
    BY <2>4, <2>5, <2>6 DEF Clean, Flags
  <2>10. OneHolder' /\ HeldOnly'
    BY <1>1, <2>7 DEF Clean, OneHolder, HeldOnly
  <2>11. Somewhere'
    BY <1>1, <2>3, <2>8 DEF Clean, Somewhere
  <2>12. ElseOnce'
    BY <1>1 DEF Clean, ElseOnce
  <2>13. LastPlace' \in Places' /\ LastPlace' \notin Places
    <3>1. Len(pools) \in Nat /\ Len(pools) # 0 /\ Len(pools') \in 1 .. Len(pools')
          /\ Len(pools') \in Nat
      BY <1>1, <2>3, NonEmpty, PlaceFacts
    <3>2. LastPlace' = <<Len(pools'), PoolSize(Len(pools'))>>
      BY DEF LastPlace, PoolSize
    <3>3. PoolSize(Len(pools')) \in Nat /\ PoolSize(Len(pools')) \in 1 .. PoolSize(Len(pools'))
      <4>1. PoolSize(Len(pools')) \in Nat /\ PoolSize(Len(pools')) >= 2
        BY <3>1, CapacityStep
      <4>2. \A n \in Nat : n >= 2 => n \in 1 .. n
        OBVIOUS
      <4> QED
        BY <4>1, <4>2
    <3>4. LastPlace' \in Places'
      BY <2>2, <2>3, <3>1, <3>2, <3>3, PlacesShape
    <3>5. Len(pools') \notin 1 .. Len(pools)
      BY <2>3, <3>1
    <3> QED
      BY <1>1, <3>2, <3>4, <3>5, PlaceFacts
  <2>14. thread(LastPlace)' = Idler
    BY <2>5, <2>13 DEF LastPlace, thread
  <2>15. path' # LastPlace' /\ thread(path)' = thread(path)
    BY <1>1, <2>4, <2>13 DEF thread
  <2>16. Spare'
    BY <1>1, <2>1, <2>6, <2>14, <2>15 DEF Spare
  <2> QED
    BY <2>9, <2>10, <2>11, <2>12, <2>16 DEF Clean
<1>4. CASE CreateCrashes
  <2>1. PoolsStill /\ Spare'
    BY <1>4 DEF CreateCrashes, PoolsStill, Spare
  <2> QED
    BY <1>1, <2>1, CleanKept
<1> QED
  BY <1>2, <1>3, <1>4

(* The idle thread found gets the event, which nobody else has.              *)
LEMMA CleanAssign ==
  ASSUME Base, Clean, Assign PROVE Clean'
<1> DEFINE t == Given(thread(path))
<1>1. /\ pc = "assign" /\ pc' = "next" /\ Sizes /\ pools # <<>> /\ path \in Places
      /\ evt \in Events /\ evt' = NoEvent /\ UNCHANGED <<batch, arrived, handled>>
      /\ thread(path).flag = 0 /\ path # LastPlace /\ thread(LastPlace).flag = 0
  BY DEF Assign, past, Base, Loop, Early, PCs, Handing, Before, Clean, Spare
<1>2. thread(path) \in Thread /\ thread(path).doing = NoEvent
  BY <1>1, ThreadType DEF Clean, Flags, thread
<1>3. t \in Thread /\ t.flag = 1 /\ t.event = evt /\ ~t.locked /\ t.doing = NoEvent
  BY <1>1, <1>2 DEF Given, Thread
<1>4. pools' = Changed(pools, path, t)
  BY DEF Assign, Put, Changed
<1> HIDE DEF t
<1>5. Sizes' /\ Len(pools') = Len(pools) /\ Places' = Places
      /\ pools'[path[1]][path[2]] = t
      /\ \A b \in Places : b # path => pools'[b[1]][b[2]] = pools[b[1]][b[2]]
  BY <1>1, <1>3, <1>4, PutFacts
<1>6. \A at \in Places : thread(at)' = IF at = path THEN t ELSE thread(at)
  BY <1>5 DEF thread
<1>7. \A e : \A at \in Places : Holds(at, e)' <=>
        IF at = path THEN e = evt ELSE Holds(at, e)
  BY <1>1, <1>3, <1>6, NoEventAssumption DEF Holds
<1>8. Flags'
  BY <1>1, <1>3, <1>5, <1>6 DEF Clean, Flags
<1>9. OneHolder' /\ HeldOnly'
  BY <1>1, <1>5, <1>7, NoEventAssumption DEF Clean, OneHolder, HeldOnly, ElseOnce
<1>10. ElseOnce' /\ Somewhere'
  <2>1. ElseOnce'
    BY <1>1, NoEventAssumption DEF Clean, ElseOnce
  <2>2. ASSUME NEW e \in arrived', e \notin batch' \cup handled' \cup {evt'}
        PROVE  \E at \in Places' : Holds(at, e)'
    <3>1. CASE e = evt
      BY <3>1, <1>1, <1>5, <1>7
    <3>2. CASE e # evt
      <4>1. PICK at \in Places : Holds(at, e)
        BY <3>2, <2>2, <1>1 DEF Clean, Somewhere
      <4>2. at # path
        BY <4>1, <1>1, <1>2, NoEventAssumption DEF Clean, Flags, Holds
      <4> QED
        BY <4>1, <4>2, <1>5, <1>7
    <3> QED
      BY <3>1, <3>2
  <2> QED
    BY <2>1, <2>2 DEF Somewhere
<1>11. LastPlace' = LastPlace /\ LastPlace \in Places
  BY <1>1, <1>5, LastFacts DEF LastPlace
<1>12. thread(LastPlace)' = thread(LastPlace)
  BY <1>1, <1>6, <1>11 DEF thread
<1>13. Spare'
  BY <1>1, <1>12 DEF Spare
<1> QED
  BY <1>8, <1>9, <1>10, <1>13 DEF Clean

LEMMA CleanThread ==
  ASSUME Base, Clean, NEW at \in Places, Begin(at) \/ End(at) PROVE Clean'
<1>1. thread(at) \in Thread /\ Sizes /\ pools # <<>>
  BY ThreadType, PlaceFacts, NonEmpty DEF Base, thread
<1>2. UNCHANGED <<pc, batch, evt, arrived, sum, j, path>>
  BY DEF Begin, End, scan, past
<1>3. LastPlace \in Places
  BY <1>1, LastFacts
<1>4. CASE Begin(at)
  <2> DEFINE t == [thread(at) EXCEPT !.locked = TRUE, !.doing = thread(at).event]
  <2>1. thread(at).doing = NoEvent /\ thread(at).event \in Events /\ thread(at).flag # 0
        /\ ~thread(at).locked
    BY <1>4 DEF Begin, Ready, Clean, Flags
  <2>2. t \in Thread /\ t.flag # 0 /\ t.locked /\ t.doing = thread(at).event
    BY <1>1, <2>1 DEF Thread
  <2>3. pools' = Changed(pools, at, t) /\ handled' = handled
    BY <1>4 DEF Begin, Put, Changed, past
  <2> HIDE DEF t
  <2>4. Sizes' /\ Len(pools') = Len(pools) /\ Places' = Places
        /\ pools'[at[1]][at[2]] = t
        /\ \A b \in Places : b # at => pools'[b[1]][b[2]] = pools[b[1]][b[2]]
    BY <1>1, <2>2, <2>3, PutFacts
  <2>5. \A b \in Places : thread(b)' = IF b = at THEN t ELSE thread(b)
    BY <2>4 DEF thread
  <2>6. \A e : \A b \in Places : Holds(b, e)' <=> Holds(b, e)
    BY <2>1, <2>2, <2>5, NoEventAssumption DEF Holds
  <2>7. Flags'
    BY <2>2, <2>4, <2>5 DEF Clean, Flags
  <2>8. OneHolder' /\ HeldOnly' /\ Somewhere'
    BY <1>2, <2>3, <2>4, <2>6 DEF Clean, OneHolder, HeldOnly, Somewhere
  <2>9. ElseOnce'
    BY <1>2, <2>3 DEF Clean, ElseOnce
  <2>10. Spare'
    <3>1. \A b \in Places : thread(b).flag = 0 => thread(b)' = thread(b)
      BY <2>1, <2>5
    <3>2. LastPlace' = LastPlace /\ path' = path /\ Index(path)' = Index(path)
      BY <1>2, <2>4 DEF LastPlace, Index, Capacity
    <3>3. thread(LastPlace).flag = 0 => thread(LastPlace)' = thread(LastPlace)
      BY <1>3, <3>1, <3>2 DEF thread
    <3>4. pc \in {"grow", "assign"} => path \in Places
      BY DEF Base, Loop
    <3>5. pc \in {"grow", "assign"} /\ thread(path).flag = 0 => thread(path)' = thread(path)
      BY <3>1, <3>2, <3>4 DEF thread
    <3> QED
      BY <1>2, <3>2, <3>3, <3>5 DEF Clean, Spare
  <2> QED
    BY <2>7, <2>8, <2>9, <2>10 DEF Clean
<1>5. CASE End(at)
  <2> DEFINE t == [thread(at) EXCEPT !.doing = NoEvent, !.flag = 0]
             x == thread(at).doing
  <2>1. x \in Events /\ thread(at).locked /\ Holds(at, x)
        /\ \A e : Holds(at, e) => e = x
    BY <1>1, <1>5 DEF End, Working, Clean, Flags, Holds, Thread
  <2>2. t \in Thread /\ t.flag = 0 /\ t.locked /\ t.doing = NoEvent
    BY <1>1, <2>1 DEF Thread
  <2>3. pools' = Changed(pools, at, t) /\ handled' = handled \cup {x}
    BY <1>5 DEF End, Put, Changed
  <2> HIDE DEF t, x
  <2>4. Sizes' /\ Len(pools') = Len(pools) /\ Places' = Places
        /\ pools'[at[1]][at[2]] = t
        /\ \A b \in Places : b # at => pools'[b[1]][b[2]] = pools[b[1]][b[2]]
    BY <1>1, <2>2, <2>3, PutFacts
  <2>5. \A b \in Places : thread(b)' = IF b = at THEN t ELSE thread(b)
    BY <2>4 DEF thread
  <2>6. \A e : \A b \in Places : Holds(b, e)' <=> b # at /\ Holds(b, e)
    BY <2>2, <2>5, NoEventAssumption DEF Holds
  <2>7. Flags'
    BY <2>2, <2>4, <2>5 DEF Clean, Flags
  <2>8. OneHolder'
    BY <2>4, <2>6 DEF Clean, OneHolder
  <2>9. HeldOnly'
    BY <1>2, <2>1, <2>3, <2>4, <2>6 DEF Clean, OneHolder, HeldOnly
  <2>10. Somewhere'
    BY <1>2, <2>1, <2>3, <2>4, <2>6 DEF Clean, Somewhere
  <2>11. ElseOnce'
    <3>1. x \in arrived /\ x \notin batch /\ x # evt
      BY <2>1 DEF Clean, HeldOnly
    <3> QED
      BY <1>2, <2>3, <3>1 DEF Clean, ElseOnce
  <2>12. Spare'
    <3>1. \A b \in Places : thread(b).flag = 0 => thread(b)'.flag = 0
      BY <2>2, <2>5
    <3>2. LastPlace' = LastPlace /\ path' = path /\ Index(path)' = Index(path)
      BY <1>2, <2>4 DEF LastPlace, Index, Capacity
    <3>3. thread(LastPlace).flag = 0 => thread(LastPlace)'.flag = 0
      BY <1>3, <3>1, <3>2 DEF thread
    <3>4. pc \in {"grow", "assign"} => path \in Places
      BY DEF Base, Loop
    <3>5. pc \in {"grow", "assign"} /\ thread(path).flag = 0 => thread(path)'.flag = 0
      BY <3>1, <3>2, <3>4 DEF thread
    <3> QED
      BY <1>2, <3>2, <3>3, <3>5 DEF Clean, Spare
  <2> QED
    BY <2>7, <2>8, <2>9, <2>10, <2>11, <2>12 DEF Clean
<1> QED
  BY <1>4, <1>5

(* The rest of the steps: NextEvent moves one event from the batch to evt.   *)
LEMMA CleanNextEvent ==
  ASSUME Base, Clean, NextEvent PROVE Clean'
<1>1. PoolsStill /\ UNCHANGED <<arrived, handled>> /\ pc = "next" /\ evt = NoEvent
      /\ Sizes /\ pools # <<>>
  BY DEF NextEvent, PoolsStill, past, scan, Base, Loop, Before, PCs, Early
<1>2. Places' = Places /\ Flags' /\ OneHolder' /\ LastPlace' = LastPlace
      /\ thread(LastPlace)' = thread(LastPlace)
      /\ \A at, e : Holds(at, e)' = Holds(at, e)
  BY <1>1, StillFacts, StillHolds DEF Clean
<1>3. CASE batch = {}
  <2>1. Spare'
    BY <1>1, <1>2, <1>3 DEF NextEvent, Clean, Spare
  <2> QED
    BY <1>1, <1>3, <2>1, CleanKept DEF NextEvent
<1>4. CASE batch # {}
  <2>1. evt' \in batch /\ batch' = batch \ {evt'} /\ pc' = "scan" /\ j' = 0
        /\ sum' = PoolLinker_getCapacity
    BY <1>4 DEF NextEvent
  <2>2. Spare'
    BY <1>1, <1>2, <2>1, CapacityMultiplied, LastFacts DEF Clean, Spare
  <2>3. batch = batch' \cup {evt'} /\ evt \notin Events /\ arrived \subseteq Events
    BY <1>1, <2>1, NoEventAssumption DEF Base, Types
  <2>4. HeldOnly' /\ Somewhere'
    BY <1>1, <1>2, <2>3 DEF Clean, HeldOnly, Somewhere
  <2>5. ElseOnce'
    BY <1>1, <2>1 DEF Clean, ElseOnce
  <2> QED
    BY <1>2, <2>2, <2>4, <2>5 DEF Clean
<1> QED
  BY <1>3, <1>4

LEMMA CleanOther ==
  ASSUME Base, Clean,
         \/ Test \/ ScanEnds \/ AssignCrashes \/ EndStep \/ EpollFails \/ Stop \/ UseFreed
         \/ UNCHANGED vars
  PROVE  Clean'
<1>1. PoolsStill /\ UNCHANGED <<batch, evt, arrived, handled, sum, j, path>>
  BY DEF Test, ScanEnds, AssignCrashes, EndStep, JoinSrv, PoolLinker_destroy, Exit,
         EpollFails, Stop, UseFreed, vars, scan, past, PoolsStill
<1>2. LastPlace' = LastPlace /\ thread(LastPlace)' = thread(LastPlace)
      /\ thread(path)' = thread(path) /\ Index(path)' = Index(path)
  BY <1>1, StillHolds DEF thread, Index, Capacity, PoolsStill
<1>3. CASE UNCHANGED pc
  <2>1. Spare'
    BY <1>1, <1>2, <1>3 DEF Clean, Spare
  <2> QED
    BY <1>1, <2>1, CleanKept
<1>4. CASE pc = "test" \/ pc' \in {"destroy", "freed", "exited", "crashed"}
           \/ (pc = "wait" /\ pc' = "test")
  <2>1. Spare'
    BY <1>1, <1>2, <1>4
       DEF Clean, Spare, Test, TestRunning, ScanEnds, AssignCrashes, EndStep, JoinSrv,
           PoolLinker_destroy, Exit, EpollFails, Stop, UseFreed, vars
  <2> QED
    BY <1>1, <2>1, CleanKept
<1>5. CASE ScanEnds
  <2>1. pc = "scan" /\ j = sum /\ j < sum /\ sum = Capacity(Len(pools)) /\ Sizes
    BY <1>5 DEF ScanEnds, Clean, Spare, Base, Loop
  <2>2. sum \in Nat
    BY <2>1, CapacityStep, PlaceFacts
  <2> QED
    BY <2>1, <2>2
<1>6. CASE Stop
  BY <1>6, <1>3, <1>4 DEF Stop
<1> QED
  BY <1>3, <1>4, <1>5, <1>6
     DEF Test, TestRunning, AssignCrashes, EndStep, JoinSrv, PoolLinker_destroy, Exit,
         EpollFails, UseFreed, vars

LEMMA InvStep == Inv /\ [Next]_vars /\ listed' => Inv'
<1> SUFFICES ASSUME Inv, [Next]_vars, listed' PROVE Inv'
  OBVIOUS
<1>1. Base /\ Base'
  BY BaseStep DEF Inv
<1>2. ASSUME ~failures' PROVE Clean'
  <2>1. ~ExpandFails
    BY <1>2 DEF ExpandFails
  <2>2. failures' = failures
    BY <2>1 DEF Next, StartStep, createTCPSrv, createConnectArray, CreateLists, PoolLinker_init,
         Register, LoopStep, Test, NextEvent, Scan, ScanEnds, Enough,
         PoolLinker_expandCapacity, CreateCrashes, Assign, AssignCrashes, EndStep, JoinSrv,
         PoolLinker_destroy, Exit, EpollWait, EpollFails, Stop, Begin, End, UseFreed, Quiet,
         vars, past
  <2>3. Clean
    BY <1>2, <2>2 DEF Inv
  <2> QED
    BY <1>1, <2>1, <2>3, CleanStart, CleanReport, CleanScan, CleanGrow, CleanAssign,
       CleanThread, CleanNextEvent, CleanOther DEF Next, LoopStep, Quiet
<1> QED
  BY <1>1, <1>2 DEF Inv

LEMMA CountOne ==
  ASSUME NEW S, NEW x
  PROVE  /\ S = {} => Cardinality(S) = 0
         /\ S = {x} => Cardinality(S) = 1
  BY FS_EmptySet, FS_Singleton

LEMMA Conserved ==
  ASSUME Inv PROVE EventsConserved
<1> DEFINE waiting == {at \in Places : ~thread(at).locked}
           working == {at \in Places : Working(at)}
           W(e) == {at \in waiting : thread(at).event = e}
           D(e) == {at \in working : thread(at).doing = e}
<1> SUFFICES ASSUME ~failures, NEW e \in arrived
             PROVE  Cardinality(W(e)) + Cardinality(D(e)) + Cardinality({e} \cap batch)
                      + Cardinality({e} \cap {evt}) + Cardinality({e} \cap handled) = 1
  BY DEF EventsConserved
<1>1. Clean /\ e \in Events
  BY DEF Inv, Base, Types
<1>2. \A at \in Places : at \in W(e) \cup D(e) <=> Holds(at, e)
  BY <1>1, NoEventAssumption DEF Holds, Working
<1>3. W(e) \cap D(e) = {} /\ W(e) \cup D(e) \subseteq Places
  BY <1>1, NoEventAssumption DEF Clean, Flags
<1>4. \A a, b \in W(e) \cup D(e) : a = b
  BY <1>1, <1>2, <1>3 DEF Clean, OneHolder
<1> HIDE DEF W, D
<1>5. CASE e \in batch \cup handled \cup {evt}
  <2>1. W(e) = {} /\ D(e) = {}
    BY <1>1, <1>2, <1>3, <1>5 DEF Clean, HeldOnly
  <2>2. \/ {e} \cap batch = {e} /\ {e} \cap {evt} = {} /\ {e} \cap handled = {}
        \/ {e} \cap batch = {} /\ {e} \cap {evt} = {e} /\ {e} \cap handled = {}
        \/ {e} \cap batch = {} /\ {e} \cap {evt} = {} /\ {e} \cap handled = {e}
    BY <1>1, <1>5 DEF Clean, ElseOnce
  <2> QED
    BY <2>1, <2>2, CountOne
<1>6. CASE e \notin batch \cup handled \cup {evt}
  <2>1. PICK at \in Places : Holds(at, e)
    BY <1>1, <1>6 DEF Clean, Somewhere
  <2>2. (W(e) = {at} /\ D(e) = {}) \/ (W(e) = {} /\ D(e) = {at})
    BY <2>1, <1>2, <1>3, <1>4
  <2>3. {e} \cap batch = {} /\ {e} \cap {evt} = {} /\ {e} \cap handled = {}
    BY <1>6
  <2>4. Cardinality(W(e)) + Cardinality(D(e)) = 1
    <3>1. Cardinality({}) = 0 /\ Cardinality({at}) = 1
      BY CountOne
    <3> QED
      BY <2>2, <3>1
  <2>5. Cardinality({}) = 0
    BY CountOne
  <2>6. Cardinality(W(e)) \in Nat /\ Cardinality(D(e)) \in Nat
    BY <2>2, CountOne
  <2> QED
    BY <2>3, <2>4, <2>5, <2>6
<1> QED
  BY <1>5, <1>6

(* Nothing is handed over in a process without a listed pool.                *)
LEMMA ConservedLost ==
  ASSUME Lost PROVE EventsConserved
<1> DEFINE W(e) == {at \in {at \in Places : ~thread(at).locked} : thread(at).event = e}
           D(e) == {at \in {at \in Places : Working(at)} : thread(at).doing = e}
<1> SUFFICES ASSUME NEW e \in arrived
             PROVE  Cardinality(W(e)) + Cardinality(D(e)) + Cardinality({e} \cap batch)
                      + Cardinality({e} \cap {evt}) + Cardinality({e} \cap handled) = 1
  BY DEF EventsConserved
<1>1. W(e) = {} /\ D(e) = {}
  BY LostIdle DEF Idler, Working
<1>2. \/ {e} \cap batch = {e} /\ {e} \cap {evt} = {} /\ {e} \cap handled = {}
      \/ {e} \cap batch = {} /\ {e} \cap {evt} = {e} /\ {e} \cap handled = {}
  BY DEF Lost
<1> HIDE DEF W, D
<1> QED
  BY <1>1, <1>2, CountOne

-------------------------------------------------------------------------------
(* Both kinds of process *)

LEMMA WholeStep == Whole /\ [Next]_vars => Whole'
<1> SUFFICES ASSUME Whole, [Next]_vars PROVE Whole'
  OBVIOUS
<1>1. CASE ~listed
  BY <1>1, LostStep DEF Whole
<1>2. CASE listed /\ listed'
  BY <1>2, InvStep DEF Whole
<1>3. CASE listed /\ ~listed'
  <2>1. PoolLinker_init
    BY <1>3, ListedOnce
  <2> QED
    BY <1>3, <2>1, LostFirst DEF Whole, Inv
<1> QED
  BY <1>1, <1>2, <1>3

LEMMA SpecWhole == Spec => []Whole
<1>1. Init => Whole
  <2>1. Init => listed
    BY DEF Init
  <2> QED
    BY <2>1, BaseInit, CleanInit DEF Whole, Inv
<1> QED
  BY <1>1, WholeStep, PTL DEF Spec

(* The running sum over the pools and the product of their number address    *)
(* every thread of every pool by exactly one index: linkList_getElement's    *)
(* walk in PoolLinker_getElemI and PoolLinker_getCapacity agree.  If the     *)
(* first pool did not get into the list, which linkList_addElement does not  *)
(* report, no thread is ever given an event and main.c ends at its first.    *)
THEOREM SpecEveryThreadAddressed == Spec => []EveryThreadAddressed
<1>1. listed /\ Inv => EveryThreadAddressed
  BY Addressing DEF Inv, Base
<1>2. ~listed /\ Lost => EveryThreadAddressed
  BY LostIdle DEF EveryThreadAddressed
<1>3. Whole => EveryThreadAddressed
  BY <1>1, <1>2 DEF Whole
<1> QED
  BY <1>3, SpecWhole, PTL

(* While no expansion of the pools has failed, every event that epoll_wait   *)
(* reported is in exactly one place: the batch, the loop's hands, one        *)
(* thread's tPara, one thread's work, or done.  main.c's scan of the flags,  *)
(* which the threads clear without a lock, never gives a thread that has an  *)
(* event another one.                                                        *)
THEOREM SpecEventsConserved == Spec => []EventsConserved
<1>1. Whole => EventsConserved
  BY Conserved, ConservedLost DEF Whole
<1> QED
  BY <1>1, SpecWhole, PTL
===============================================================================

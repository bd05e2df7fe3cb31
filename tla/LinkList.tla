------------------------------ MODULE LinkList ------------------------------
(***************************************************************************)
(* The circular doubly linked list of linklist.c, on which the gateway     *)
(* keeps its idle slots and its thread pools: cells in the heap, two links *)
(* in each, a header that never holds an element, and a size counted by    *)
(* hand.  The list itself is sequential: an operation is one action.       *)
(***************************************************************************)
EXTENDS Integers, FiniteSets

CONSTANTS Cells,   \* addresses malloc may return
          header,  \* the address of the header
          Elems,   \* what callers put in the list; NULL may be one of them
          NULL

ASSUME CellsAssumption == IsFiniteSet(Cells) /\ header \notin Cells /\ NULL \notin Cells \cup {header}

VARIABLES next, prev,  \* the links of every cell, NULL once it was freed
          elem,        \* its element
          size,
          live,        \* the cells allocated, without the header
          result       \* what the last operation returned (0: nothing)

heap == <<next, prev, elem, size, live>>
vars == <<heap, result>>

Ring == live \cup {header}

(* linkList_create; a malloc that fails there leaves no list to speak of. *)
Init ==
  /\ next = [c \in Cells \cup {header} |-> IF c = header THEN header ELSE NULL]
  /\ prev = next
  /\ elem = [c \in Cells \cup {header} |-> NULL]
  /\ size = 0
  /\ live = {}
  /\ result = 0

-------------------------------------------------------------------------------
(* Walking *)

(* The cell after n steps from the header, one way and the other. *)
Forward  == LET f[n \in Nat] == IF n = 0 THEN header ELSE next[f[n - 1]] IN f
Backward == LET b[n \in Nat] == IF n = 0 THEN header ELSE prev[b[n - 1]] IN b

(* The cell of an index in 0 .. size - 1, from whichever end is nearer; any  *)
(* other index gives NULL, which no caller of it tests.                      *)
linkList_entry(i) == IF i < size \div 2 THEN Forward[i + 1] ELSE Backward[size - i]

(* How many steps the loops of removeElement and indexOf take until they are *)
(* at the first cell with element e, or back at the header.                  *)
StepsTo(e) ==
  CHOOSE n \in 1 .. Cardinality(Cells) + 1 :
    /\ Forward[n] = header \/ elem[Forward[n]] = e
    /\ \A m \in 1 .. n - 1 : Forward[m] # header /\ elem[Forward[m]] # e

Found(e) == Forward[StepsTo(e)] # header

-------------------------------------------------------------------------------
(* Changing the list *)

AddHalfLinked(e, entry, new) ==
  /\ next' = [next EXCEPT ![new] = entry, ![prev[entry]] = new]
  /\ prev' = [prev EXCEPT ![new] = prev[entry]]
  /\ elem' = [elem EXCEPT ![new] = e]
  /\ size' = size + 1
  /\ live' = live \cup {new}

linkList_addBefore(e, entry, new) ==
  /\ next' = [next EXCEPT ![new] = entry, ![prev[entry]] = new]
  /\ prev' = [prev EXCEPT ![new] = prev[entry], ![entry] = new]
  /\ elem' = [elem EXCEPT ![new] = e]
  /\ size' = size + 1
  /\ live' = live \cup {new}

RemoveUncounted(entry) ==
  /\ next' = [next EXCEPT ![prev[entry]] = next[entry], ![entry] = NULL]
  /\ prev' = [prev EXCEPT ![next[entry]] = prev[entry], ![entry] = NULL]
  /\ live' = live \ {entry}
  /\ UNCHANGED <<elem, size>>

linkList_removeEntry(entry) ==
  /\ next' = [next EXCEPT ![prev[entry]] = next[entry], ![entry] = NULL]
  /\ prev' = [prev EXCEPT ![next[entry]] = prev[entry], ![entry] = NULL]
  /\ live' = live \ {entry}
  /\ size' = size - 1
  /\ UNCHANGED elem

(* addFirst, addLast and addElement; the last returns 0 in either case. *)
Add(e) ==
  /\ \/ \E new \in Cells \ live, entry \in {next[header], header} :
          linkList_addBefore(e, entry, new)
     \/ UNCHANGED heap
  /\ result' = 0

(* removeFirst, removeLast and removeIndex of a valid index; the header,     *)
(* which is first and last in an empty list, is never removed.               *)
Remove ==
  LET entries == {next[header], prev[header]}
                   \cup {linkList_entry(i) : i \in 0 .. size - 1}
  IN  \E entry \in entries :
        IF entry = header
          THEN UNCHANGED heap /\ result' = NULL
          ELSE linkList_removeEntry(entry) /\ result' = elem[entry]

linkList_removeElement(e) ==
  IF Found(e)
    THEN linkList_removeEntry(Forward[StepsTo(e)]) /\ result' = 0
    ELSE UNCHANGED heap /\ result' = -1

linkList_set(i, e) ==
  /\ elem' = [elem EXCEPT ![linkList_entry(i)] = e]
  /\ result' = elem[linkList_entry(i)]
  /\ UNCHANGED <<next, prev, size, live>>

(* Frees every cell on the way round; the header stays. *)
linkList_clear ==
  LET walked    == {Forward[n] : n \in 1 .. Cardinality(Cells)}
      wiped(f)  == [c \in DOMAIN f |-> IF c \in walked THEN NULL ELSE f[c]]
  IN  /\ next' = [wiped(next) EXCEPT ![header] = header]
      /\ prev' = [wiped(prev) EXCEPT ![header] = header]
      /\ elem' = wiped(elem)
      /\ size' = 0
      /\ live' = live \ walked
      /\ result' = 0

-------------------------------------------------------------------------------
(* Looking *)

linkList_indexOf(e) == result' = IF Found(e) THEN StepsTo(e) - 1 ELSE -1

Look ==
  \/ \E i \in 0 .. size - 1 : result' = elem[linkList_entry(i)]
  \/ \E end \in {next[header], prev[header]} :
       result' = IF size = 0 THEN NULL ELSE elem[end]
  \/ result' = size

Next ==
  \/ \E e \in Elems : Add(e) \/ linkList_removeElement(e)
  \/ \E e \in Elems, i \in 0 .. size - 1 : linkList_set(i, e)
  \/ Remove \/ linkList_clear
  \/ (Look \/ \E e \in Elems : linkList_indexOf(e)) /\ UNCHANGED heap

Spec == Init /\ [][Next]_vars

-------------------------------------------------------------------------------
(* Properties *)

(* The walks from both ends meet the same live cells, each once and no freed *)
(* one: linkList_entry finds the i-th of them from whichever end it walks,   *)
(* and size counts them.                                                     *)
EntryFindsCell ==
  /\ {Forward[n] : n \in 1 .. size} = live /\ size = Cardinality(live)
  /\ \A i \in 0 .. size - 1 :
       linkList_entry(i) = Forward[i + 1] /\ Backward[size - i] = Forward[i + 1]

(* The list implements the sequence of the elements found on the way round.  *)
Elements == INSTANCE ElementList WITH
  list <- [n \in 1 .. size |-> elem[Forward[n]]]

ImplementsElementList == Elements!Spec
==============================================================================

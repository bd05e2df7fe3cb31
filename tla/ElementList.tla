----------------------------- MODULE ElementList -----------------------------
(***************************************************************************)
(* What a list of elements promises its caller: it is a sequence, and each *)
(* operation answers what the same operation on a sequence would.          *)
(* LinkList.tla (linklist.c) is shown to implement it.                     *)
(***************************************************************************)
EXTENDS Integers, SequencesExt

CONSTANTS Elems, NULL   \* the elements; NULL may be one of them

VARIABLES list,    \* the elements in order
          result   \* what the last operation returned

vars == <<list, result>>

Init == list = <<>> /\ result = 0

Position(e) == SelectInSeq(list, LAMBDA x : x = e)   \* 0: it is not there

Insert(e, at) == list' = InsertAt(list, at, e) /\ result' = 0

(* No memory: nothing is added, and the caller is told nothing. *)
InsertNothing == UNCHANGED list /\ result' = 0

RemoveFrom(at) == list' = RemoveAt(list, at) /\ result' = list[at]

RemoveNothing == list = <<>> /\ UNCHANGED list /\ result' = NULL

RemoveElement(e) ==
  IF Position(e) = 0
    THEN UNCHANGED list /\ result' = -1
    ELSE list' = RemoveAt(list, Position(e)) /\ result' = 0

Replace(at, e) == list' = ReplaceAt(list, at, e) /\ result' = list[at]

Clear == list' = <<>> /\ result' = 0

Look(at) == UNCHANGED list /\ result' = list[at]

LookAtNothing == list = <<>> /\ UNCHANGED list /\ result' = NULL

IndexOf(e) == UNCHANGED list /\ result' = Position(e) - 1

Size == UNCHANGED list /\ result' = Len(list)

Next ==
  \/ \E e \in Elems :
       \/ Insert(e, 1) \/ Insert(e, Len(list) + 1)
       \/ RemoveElement(e) \/ IndexOf(e)
       \/ \E at \in DOMAIN list : Replace(at, e)
  \/ \E at \in DOMAIN list : RemoveFrom(at) \/ Look(at)
  \/ InsertNothing \/ RemoveNothing \/ LookAtNothing \/ Clear \/ Size

Spec == Init /\ [][Next]_vars
==============================================================================

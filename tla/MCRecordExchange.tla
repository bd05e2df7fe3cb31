-------------------------- MODULE MCRecordExchange --------------------------
(* Small instances of the four programs for TLC. *)
EXTENDS RecordExchange

(* Up to n events, then a quit. *)
UpTo(S, n) == UNION {[1 .. k -> S] : k \in 0 .. n}
Typed   == {Append(s, "quit") : s \in UpTo({"line"}, 4)}
Failing == {Append(s, "quit") : s \in UpTo({"line", "fail"}, 3)}
Any     == Typed \cup Failing
==============================================================================

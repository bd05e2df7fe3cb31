----------------------------- MODULE MCLineStream -----------------------------
(* Small instances of the stream programs for TLC. *)
EXTENDS LineStream

(* Up to four lines, quits among them, and lines with a quit inside. *)
Typing == UNION {[1 .. k -> Kinds] : k \in 0 .. 4}
===============================================================================

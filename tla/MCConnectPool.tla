---------------------------- MODULE MCConnectPool ----------------------------
(* Small instances of the connection slots for TLC. *)
EXTENDS ConnectPool, TLC

Interchangeable == Permutations(Fds) \cup Permutations(Workers)
==============================================================================

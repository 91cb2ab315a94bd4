---- MODULE MCRpc ----
(* Every frame in every state; delays around a millisecond of 3 ns. *)
EXTENDS Rpc

MCDelays == {-4, 0, 1, 3, 4}
====

---- MODULE MCH2 ----
(* One application stream allowed, three table entries and four streams, so *)
(* that the table overflows.                                                 *)
EXTENDS H2, TLC

StreamSymmetry == Permutations(Streams)
====

---- MODULE MCLifecycle ----
(* Small scale: ceilings 2, 4 and 5 (8 clipped), delays of 1 to 5, and a    *)
(* clock of 10 units so that deadlines saturate.                            *)
EXTENDS Lifecycle
====

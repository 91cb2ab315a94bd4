------------------------------ MODULE MCTunnel ------------------------------
(* Model-checking constants for module Tunnel. *)
EXTENDS Tunnel

MCRandoms == {0}
MCDelays == {3}
MCVersions == {0, 1}
MCNoVersion == {}
MCNoDelay == {0}
=============================================================================

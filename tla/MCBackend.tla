------------------------------ MODULE MCBackend ------------------------------
(* One application stream allowed: one response record for three entries of *)
(* the session, so that the table of records fills up.                      *)
EXTENDS Backend
=============================================================================

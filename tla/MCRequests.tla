----------------------------- MODULE MCRequests -----------------------------
(* Requests on small sets.  No symmetry: the run checks liveness.             *)
EXTENDS Requests
=============================================================================

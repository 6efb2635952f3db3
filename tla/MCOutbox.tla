------------------------------ MODULE MCOutbox ------------------------------
(* Model values for the run of Outbox.                                     *)
EXTENDS Outbox

CONSTANTS r1, r2, worker, api

=============================================================================

------------------------------- MODULE MCSotJob -------------------------------
(* Model values for the runs of SotJob.                                    *)
EXTENDS SotJob

CONSTANTS j1, j2, w1, w2, none

=============================================================================

----------------------------- MODULE MCJobLease -----------------------------
(* A small job queue for TLC: two workers, one of which serves every job. *)
EXTENDS JobLease, TLC

CONSTANTS w1, w2

MCServes == (w1 :> Job) @@ (w2 :> {1})
=============================================================================

---------------------------- MODULE MCJobStatus ----------------------------
(* Instances of JobStatus for TLC. *)
EXTENDS JobStatus, TLC

\* Repeated delivery only, or every loss as well.
NoLoss == {}
EveryLoss == {"outage", "forget", "crash"}

\* Jobs are alike, and so are the polls in flight.
PageSymmetry == Permutations(Job) \cup Permutations(Request)
============================================================================

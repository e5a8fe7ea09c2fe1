---------------------------- MODULE MCJobOutbox ----------------------------
(***************************************************************************)
(* The outbox for TLC: jobs are numbers because the relay polls them by    *)
(* age, so there is no symmetry to use.                                    *)
(***************************************************************************)
EXTENDS JobOutbox

OneJob == {1}
TwoJobs == {1, 2}

=============================================================================

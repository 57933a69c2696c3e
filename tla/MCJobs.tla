------------------------------- MODULE MCJobs -------------------------------
(* Small instances of Jobs. *)
EXTENDS Jobs

MCMeetings == {1}
=============================================================================

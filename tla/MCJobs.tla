------------------------------- MODULE MCJobs -------------------------------
(* Jobs started in a session, or before there was one.                     *)
EXTENDS Jobs

CONSTANTS s1
=============================================================================

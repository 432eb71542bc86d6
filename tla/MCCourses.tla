----------------------------- MODULE MCCourses -----------------------------
(* Courses for TLC.                                                         *)
EXTENDS Courses, TLC

CONSTANTS s1, viewer

StatusQueues == {StatusQueue}
Subscribers == s1 :> viewer
Threads == Permutations(Requests)
=============================================================================

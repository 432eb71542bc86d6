------------------------------ MODULE MCRoadmap ------------------------------
(* Roadmap requests against a catalog of three courses: two of one track,   *)
(* whose order matters, and one of another that may stand between them.     *)
EXTENDS Roadmap

CONSTANTS m1, m2

MCCatalog == << [hours |-> 3, level |-> 2, track |-> "backend"],
                [hours |-> 1, level |-> 1, track |-> "backend"],
                [hours |-> 2, level |-> 1, track |-> "infra"] >>

MCModels == <<m1, m2>>

MCRequests == { [via |-> "build",  weeks |-> 3, hoursPerWeek |-> 2],
                [via |-> "stream", weeks |-> 2, hoursPerWeek |-> 2],
                [via |-> "cli",    weeks |-> 1, hoursPerWeek |-> 4] }
=============================================================================

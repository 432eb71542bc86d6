------------------------------- MODULE MCTutor -------------------------------
(* Two turns of one conversation beside an index of two documents that      *)
(* is rebuilt once in two batches, and documents of up to five lines for    *)
(* the dry run.                                                             *)
EXTENDS Tutor, TLC

CONSTANTS lab, t1, t2

MCSource == [s \in {lab} |-> [readme |-> TRUE, docs |-> FALSE, code |-> TRUE]]

Line(is, level, mark, len) == [is |-> is, level |-> level, title |-> level, mark |-> mark, len |-> len]
Lines == {Line("text", 0, 0, 2), Line("text", 0, 0, 6), Line("text", 0, 0, 14), Line("text", 0, 0, 24),
          Line("heading", 1, 0, 3), Line("heading", 2, 0, 3),
          Line("fence", 0, 1, 1), Line("fence", 0, 2, 1)}
MCShapes == UNION {[1..n -> Lines] : n \in 1..5}

Overlapping == Permutations(Turns)
=============================================================================

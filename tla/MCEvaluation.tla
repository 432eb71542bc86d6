----------------------------- MODULE MCEvaluation -----------------------------
(* Two files, once with a section in "pay" that does not fit into one chunk, *)
(* once with such a section in "rules", an empty one in "pay", a level that  *)
(* is skipped and text above the first heading.  The keys of the first item  *)
(* exist in both.                                                            *)
EXTENDS Evaluation

Heading(level, word) == [level |-> level, clause |-> FALSE, size |-> 1, word |-> word]
Text(word)         == [level |-> 0, clause |-> FALSE, size |-> 1, word |-> word]
Clause(word)       == [level |-> 0, clause |-> TRUE, size |-> 2, word |-> word]
Blank              == [level |-> 0, clause |-> FALSE, size |-> 0, word |-> ""]

MCFiles == <<"rules", "pay">>

MCDocs == { [rules |-> [id |-> "R", lines |-> <<Heading(1, "h"), Text("late"), Heading(3, "i"), Text("absent")>>],
             pay   |-> [id |-> "P", lines |-> <<Heading(2, "j"), Clause("rate"), Clause("day")>>]],
            [rules |-> [id |-> "R", lines |-> <<Text("intro"), Heading(2, "h"), Clause("late"), Clause("absent")>>],
             pay   |-> [id |-> "P", lines |-> <<Heading(1, "j"), Blank, Heading(3, "k"), Text("rate")>>]] }

MCNewParts == { <<Heading(3, "m"), Text("new")>>, <<Text("new")>>, <<Clause("more"), Blank>> }

MCInitialItems == << [type |-> "multi_hop", file |-> "rules", keys |-> {<<"R", 2>>, <<"P", 1>>}],
                     [type |-> "unanswerable", file |-> "rules", keys |-> {}] >>

MCNewItems == { [type |-> "multi_hop", file |-> "pay", keys |-> {<<"R", 2>>, <<"P", 2>>}],
                [type |-> "unanswerable", file |-> "pay", keys |-> {}] }

MCAnswers == { [cited |-> {<<"R", 2>>}, refs |-> {<<"P", 1>>}, denies |-> FALSE],
               [cited |-> {}, refs |-> {<<"P", 2>>}, denies |-> TRUE] }
=============================================================================

------------------------------ MODULE Evaluation ------------------------------
(***************************************************************************)
(* Evaluating the chatbot: regulations that are edited, the index and the  *)
(* prompt text built from them by hand, the check of the answer keys, runs *)
(* of the evaluation that ask the model item by item, and stored runs that *)
(* are scored again.                                                       *)
(*                                                                         *)
(* Each script is a process of its own that reads the files it needs when  *)
(* it starts.  A run of the evaluation takes minutes and the others may    *)
(* run meanwhile; they take one step.  The regulations and the items with  *)
(* their answer keys are edited at any time; items are neither added nor   *)
(* removed, so an item's id is its place in the file.  The judge, which    *)
(* decides nothing about passing, the metrics and the wording of the       *)
(* denial are left out.                                                    *)
(***************************************************************************)
EXTENDS Regulations, FiniteSets

CONSTANTS
  InitialDocs,   \* the regulations the keys were written for
  NewParts,      \* sequences of lines an edit may insert
  InitialItems,  \* the items, as records [type, file, keys]
  NewItems,      \* items an edit may put in the place of one
  Answers,       \* what the model may answer: [cited, refs, denies]
  MaxEdits,      \* bound: edits of the regulations and of the items
  MaxRuns,       \* bound: stored runs
  NoFile, NoEval, NoAnswer

ASSUME EvaluationAssumption ==
  /\ {MaxEdits, MaxRuns} \subseteq Nat
  /\ InitialDocs \subseteq [ToSet(Files) -> Regulation] /\ NewParts \subseteq Seq(Line)
  /\ \A item \in ToSet(InitialItems) \cup NewItems :
       item.type \in {"normal", "multi_hop", "conflict", "unanswerable"}

VARIABLES
  docs,        \* docs/*.md
  items,       \* data/eval_qa.jsonl
  edits,       \* how often the two were edited
  chunksFile,  \* data/chunks.jsonl
  contextFile, \* data/context.txt: the chunks it was made of
  eval,        \* the evaluation under way
  runs         \* eval_results/run_NNN.json

evaluationVars == <<docs, items, edits, chunksFile, contextFile, eval, runs>>

EvaluationInit ==
  /\ docs \in InitialDocs /\ items = InitialItems /\ edits = 0
  /\ chunksFile = NoFile /\ contextFile = NoFile
  /\ eval = NoEval /\ runs = <<>>

-----------------------------------------------------------------------------
(* Preparing the data.                                                     *)

(* A part is put in or a line taken out; the keys stay as they are. *)
EditDocs ==
  /\ edits < MaxEdits /\ edits' = edits + 1
  /\ \E f \in DOMAIN docs :
       \/ \E i \in 0..Len(docs[f].lines), part \in NewParts :
            docs' = [docs EXCEPT ![f].lines =
                       SubSeq(@, 1, i) \o part \o SubSeq(@, i + 1, Len(@))]
       \/ \E i \in DOMAIN docs[f].lines :
            docs' = [docs EXCEPT ![f].lines = RemoveAt(@, i)]
  /\ UNCHANGED <<items, chunksFile, contextFile, eval, runs>>

(* An item is written anew, after the check complained or for another reason. *)
EditItem ==
  /\ edits < MaxEdits /\ edits' = edits + 1
  /\ \E i \in DOMAIN items, item \in NewItems : items' = [items EXCEPT ![i] = item]
  /\ UNCHANGED <<docs, chunksFile, contextFile, eval, runs>>

BuildIndex ==
  /\ chunksFile' = ChunkAll(docs)
  /\ UNCHANGED <<docs, items, edits, contextFile, eval, runs>>

BuildContext ==
  /\ chunksFile # NoFile
  /\ contextFile' = chunksFile
  /\ UNCHANGED <<docs, items, edits, chunksFile, eval, runs>>

(* Variant: one key that exists is enough. *)
KeyError_AnyKey(item) ==
  IF item.type = "unanswerable" THEN item.keys # {}
  ELSE item.keys \cap {c \in IdsOf(ChunkAll(docs)) : c[1] = docs[item.file].id} = {}

(* What the check of the keys counts as an error. *)
KeyError(item) ==
  LET fresh == ChunkAll(docs)
      own   == ChunkDocument(docs[item.file])
  IN IF item.type = "unanswerable" THEN item.keys # {}
     ELSE \/ item.keys = {}
          \/ ~(item.keys \subseteq IdsOf(fresh))
          \/ own = <<>>
          \/ item.keys \cap {c \in IdsOf(fresh) : c[1] = docs[item.file].id} = {}

DuplicateIds == Cardinality(IdsOf(ChunkAll(docs))) # Len(ChunkAll(docs))

(* The exit code of check_eval_keys.py.  It changes nothing. *)
KeysPass == ~DuplicateIds /\ \A i \in DOMAIN items : ~KeyError(items[i])

-----------------------------------------------------------------------------
(* Scoring.                                                                *)

(* load_chunk_ids. *)
ChunkIds == IdsOf(chunksFile)

(* Variant: scoring again looks at the regulations, not at the index. *)
RescoreIds_FromDocs == IdsOf(ChunkAll(docs))

RescoreIds == ChunkIds

(* score_item: everything cited exists, and either the absence is stated
   without a claim to the contrary, or every key was brought up. *)
Passes(item, answer, ids) ==
  /\ answer.cited \cup answer.refs \subseteq ids
  /\ IF item.type = "unanswerable"
     THEN answer.denies /\ answer.cited = {}
     ELSE answer.cited # {} /\ item.keys \subseteq answer.cited \cup answer.refs

(* What is stored about an item: its type and keys, and the verdict.
   blank_result: no answer is a failure. *)
Result(item, answer, context, ids) ==
  [type |-> item.type, truth |-> item.keys, answer |-> answer, from |-> context,
   pass |-> answer # NoAnswer /\ Passes(item, answer, ids)]

(* Items, index and prompt text are read once, at the start; the first items
   may be evaluated only. *)
StartEval ==
  /\ eval = NoEval /\ chunksFile # NoFile /\ contextFile # NoFile /\ Len(runs) < MaxRuns
  /\ \E limit \in DOMAIN items :
       eval' = [items |-> SubSeq(items, 1, limit), ids |-> ChunkIds,
                context |-> contextFile, results |-> <<>>]
  /\ UNCHANGED <<docs, items, edits, chunksFile, contextFile, runs>>

(* The next item is asked for: an answer, or none after the repetitions. *)
AskItem ==
  /\ eval # NoEval /\ Len(eval.results) < Len(eval.items)
  /\ \E answer \in Answers \cup {NoAnswer} :
       eval' = [eval EXCEPT !.results =
                  Append(@, Result(eval.items[Len(@) + 1], answer, eval.context, eval.ids))]
  /\ UNCHANGED <<docs, items, edits, chunksFile, contextFile, runs>>

(* An error other than a refused call ends the script: nothing is stored. *)
Abort ==
  /\ eval # NoEval
  /\ eval' = NoEval
  /\ UNCHANGED <<docs, items, edits, chunksFile, contextFile, runs>>

(* The provenance is that of what was read at the start. *)
Save ==
  /\ eval # NoEval /\ Len(eval.results) = Len(eval.items) /\ Len(runs) < MaxRuns
  /\ runs' = Append(runs, [context |-> eval.context, ids |-> eval.ids,
                           items |-> eval.results, rescored |-> 0])
  /\ eval' = NoEval
  /\ UNCHANGED <<docs, items, edits, chunksFile, contextFile>>

(* Variant: the prompt text of today is recorded. *)
RescoredContext_Current(run) == contextFile

(* The answers are those of the original run, so is what they were made from. *)
RescoredContext(run) == run.context

(* The answers are kept; items and index are those of today. *)
Rescore ==
  /\ chunksFile # NoFile /\ Len(runs) < MaxRuns
  /\ \E r \in DOMAIN runs :
       runs' = Append(runs,
         [context |-> RescoredContext(runs[r]), ids |-> ChunkIds, rescored |-> r,
          items |-> [i \in DOMAIN runs[r].items |->
            LET old == runs[r].items[i]
            IN Result(items[i], old.answer, old.from, RescoreIds)]])
  /\ UNCHANGED <<docs, items, edits, chunksFile, contextFile, eval>>

(* The items whose verdict a run changes compared with another. *)
Changed(run, old) == {i \in DOMAIN run.items : run.items[i].pass # old.items[i].pass}

EvaluationNext ==
  \/ EditDocs \/ EditItem \/ BuildIndex \/ BuildContext
  \/ StartEval \/ AskItem \/ Abort \/ Save \/ Rescore

EvaluationSpec == EvaluationInit /\ [][EvaluationNext]_evaluationVars

-----------------------------------------------------------------------------
(* The regulations are cut whole, whatever was edited. *)
CutsAreWhole == \A f \in DOMAIN docs : CutWhole(docs[f])

(* The prompt text a stored run names is the one every answer in it was made
   from, through rescoring, and though the files were rebuilt while the run
   was under way. *)
ProvenanceIsTrue ==
  \A r \in DOMAIN runs : \A i \in DOMAIN runs[r].items :
    runs[r].items[i].from = runs[r].context

(* The ids an answer shows the user. *)
Mentioned(answer) == IF answer = NoAnswer THEN {} ELSE answer.cited \cup answer.refs

(* Scoring a stored run again changes the verdict on an item only for a
   reason that can be told from the two runs and the index: its stored type
   or keys are others, or the answer mentions an id that one of the two
   indexes had and the other had not.  Edits of other items, of regulations
   that were not built into the index, and of other chunks change nothing.
   (run_eval.py:393-394 claims more, that only the scoring code can have
   changed; it reads the keys and the ids of today.) *)
RescoringIsComparable ==
  \A r \in DOMAIN runs :
    LET run == runs[r]
        old == runs[run.rescored]
    IN run.rescored # 0 => \A i \in Changed(run, old) :
         \/ <<run.items[i].type, run.items[i].truth>> # <<old.items[i].type, old.items[i].truth>>
         \/ \E c \in Mentioned(run.items[i].answer) : (c \in run.ids) # (c \in old.ids)

(* What the check of the keys can promise the scoring: when it passes and
   index and prompt text are those of today's regulations, then every item
   can be passed, by an answer that cites its keys or states the absence,
   and no two chunks share an id under which it would be cited. *)
CheckedItemsCanPass ==
  chunksFile = ChunkAll(docs) /\ KeysPass =>
    /\ Len(chunksFile) = Cardinality(ChunkIds)
    /\ \A i \in DOMAIN items :
         LET keys == items[i].keys
         IN Passes(items[i], [cited |-> keys, refs |-> {}, denies |-> keys = {}], ChunkIds)
=============================================================================

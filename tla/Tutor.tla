-------------------------------- MODULE Tutor --------------------------------
(***************************************************************************)
(* The AI tutor: a learner's turns on one conversation thread, each run    *)
(* through the graph classify -> retrieve -> grade -> (rewrite | generate  *)
(* | no_evidence) -> guard over a state that a checkpointer saves after    *)
(* every node and hands to the next turn of the thread, beside an index    *)
(* that is being rebuilt.                                                  *)
(*                                                                         *)
(* Requests are served on threads of their own: turns of one conversation  *)
(* may overlap.  Each loads the latest checkpoint when it starts and works *)
(* on its own copy from then on.  The language model may say anything and  *)
(* any call of it may fail.                                                *)
(***************************************************************************)
EXTENDS Index

CONSTANTS
  Turns,            \* the turns of the conversation
  NoTurn,
  TopK,             \* chunks a search returns at most
  MaxRetry,         \* rewrites per turn
  RecursionLimit,   \* nodes per turn
  MaxCrashes        \* bound: server crashes

ASSUME TutorAssumption ==
  /\ NoTurn \notin Turns
  /\ {TopK, MaxRetry, RecursionLimit, MaxCrashes} \subseteq Nat

VARIABLES
  turn,         \* per turn: where it is, its copy of the graph's state
  checkpoint,   \* the thread's latest saved state
  crashes

tutorVars == <<turn, checkpoint, crashes>>
vars == <<indexVars, tutorVars>>

Nodes == {"classify", "retrieve", "grade", "rewrite", "generate", "hint", "no_evidence", "guard"}
Ended == {"replied", "unprepared", "failed"}

(* What can be said to the learner: the retrieved chunks, a hint with or
   without code in it, the fixed refusal, the fixed regret. *)
NoText  == [kind |-> "none", ids |-> {}]
Text(k) == [kind |-> k, ids |-> {}]

(* A query or a question is known by the turn whose question it comes from. *)
Empty ==
  [question |-> NoTurn, search_query |-> NoTurn, standalone |-> NoTurn,
   chunks |-> {}, soughtFor |-> NoTurn, top |-> "none", graded_ok |-> FALSE, retry |-> 0,
   intent |-> "none", route |-> "none", answer |-> NoText, citations |-> {}, blocked |-> FALSE,
   messages |-> <<>>]

TutorInit ==
  /\ turn = [t \in Turns |-> [at |-> "waiting", steps |-> 0, state |-> Empty]]
  /\ checkpoint = Empty
  /\ crashes = 0

Init == IndexInit /\ TutorInit

(* Variant: a new turn keeps the query of the last one. *)
NewTurn_KeepsQuery(t, saved) ==
  [saved EXCEPT !.question = t, !.standalone = NoTurn,
                !.chunks = {}, !.soughtFor = NoTurn, !.top = "none", !.retry = 0,
                !.graded_ok = FALSE, !.citations = {}, !.blocked = FALSE]

(* What a new turn empties of the state it inherits; the intent, the route
   and the answer of the turn before stay until a node replaces them. *)
NewTurn(t, saved) ==
  [saved EXCEPT !.question = t, !.search_query = NoTurn, !.standalone = NoTurn,
                !.chunks = {}, !.soughtFor = NoTurn, !.top = "none", !.retry = 0,
                !.graded_ok = FALSE, !.citations = {}, !.blocked = FALSE]

(* No marker: the question is answered without the graph. *)
Unprepared(t) ==
  /\ turn[t].at = "waiting"
  /\ ~marker
  /\ turn' = [turn EXCEPT ![t].at = "unprepared"]
  /\ UNCHANGED <<indexVars, checkpoint, crashes>>

Chat(t) ==
  /\ turn[t].at = "waiting"
  /\ marker
  /\ turn' = [turn EXCEPT ![t] = [at |-> "classify", steps |-> 0, state |-> NewTurn(t, checkpoint)]]
  /\ checkpoint' = NewTurn(t, checkpoint)
  /\ UNCHANGED <<indexVars, crashes>>

(* Of the final state only what the reply is made of is kept. *)
Reply(s) == [s EXCEPT !.messages = <<>>, !.retry = 0, !.standalone = NoTurn, !.search_query = NoTurn,
                      !.intent = "none", !.top = "none", !.chunks = {}]

(* A node's update is saved and the graph goes on, or ends with a reply. *)
Run(t, next, update) ==
  /\ turn' = [turn EXCEPT ![t] = [at    |-> next,
                                  steps |-> IF next = "replied" THEN 0 ELSE @.steps + 1,
                                  state |-> IF next = "replied" THEN Reply(update) ELSE update]]
  /\ checkpoint' = update
  /\ UNCHANGED crashes

Said(s, by, text) == [s EXCEPT !.messages = Append(@, [by |-> by, turn |-> s.question, text |-> text])]

-----------------------------------------------------------------------------
RouteIntent(s) ==
  CASE s.intent = "SOLUTION_SEEKING" -> "hint"
    [] s.intent = "OUT_OF_SCOPE"     -> "no_evidence"
    [] OTHER                         -> "retrieve"

(* A failed classification counts as CONCEPT and leaves no standalone
   question. *)
Classify(t) ==
  LET s == turn[t].state
  IN  /\ turn[t].at = "classify"
      /\ \E intent \in {"CONCEPT", "SOLUTION_SEEKING", "OUT_OF_SCOPE"}, failed \in BOOLEAN :
           /\ failed => intent = "CONCEPT"
           /\ LET u == Said([s EXCEPT !.intent = intent,
                                      !.standalone = IF failed THEN @ ELSE t],
                            "human", [kind |-> "question", ids |-> {}])
              IN  Run(t, RouteIntent(u), u)
      /\ Open
      /\ UNCHANGED <<store, marker, build, removed, cut>>

(* The rewritten query, else the standalone question, else the question. *)
QueryOf(s) ==
  IF s.search_query # NoTurn THEN s.search_query
  ELSE IF s.standalone # NoTurn THEN s.standalone ELSE s.question

Search(ids) == {found \in SUBSET LearnerFilter(ids) : Cardinality(found) <= TopK}

Retrieve(t) ==
  LET s == turn[t].state
  IN  /\ turn[t].at = "retrieve"
      /\ Open
      /\ \E found \in Search(Visible), top \in {"low", "high"} :
           Run(t, "grade", [s EXCEPT !.search_query = QueryOf(s), !.soughtFor = QueryOf(s),
                                     !.chunks = found, !.top = IF found = {} THEN "none" ELSE top])
      /\ UNCHANGED <<store, marker, build, removed, cut>>

(* Variant: a rewrite more than the limit says. *)
RouteGrade_OneMore(s) ==
  IF s.graded_ok THEN "generate"
  ELSE IF s.retry <= MaxRetry THEN "rewrite" ELSE "no_evidence"

RouteGrade(s) ==
  IF s.graded_ok THEN "generate"
  ELSE IF s.retry < MaxRetry THEN "rewrite" ELSE "no_evidence"

(* Only what scores well is judged by the model, and a judgement that fails
   counts as insufficient. *)
Grade(t) ==
  LET s == turn[t].state
  IN  /\ turn[t].at = "grade"
      /\ \E ok \in IF s.chunks # {} /\ s.top = "high" THEN BOOLEAN ELSE {FALSE} :
           LET u == [s EXCEPT !.graded_ok = ok] IN Run(t, RouteGrade(u), u)
      /\ UNCHANGED indexVars

(* A rewrite that fails keeps the query but counts. *)
Rewrite(t) ==
  LET s == turn[t].state
  IN  /\ turn[t].at = "rewrite"
      /\ \E failed \in BOOLEAN :
           Run(t, "retrieve", [s EXCEPT !.retry = @ + 1,
                                        !.search_query = IF failed THEN @ ELSE s.question])
      /\ UNCHANGED indexVars

NoEvidence(t) ==
  LET s == turn[t].state
  IN  /\ turn[t].at = "no_evidence"
      /\ Run(t, "replied",
             Said([s EXCEPT !.answer = Text("regret"), !.citations = {},
                            !.route = IF s.intent = "OUT_OF_SCOPE" THEN "OUT_OF_SCOPE" ELSE "NO_EVIDENCE"],
                  "ai", Text("regret")))
      /\ UNCHANGED indexVars

(* Variant: the hint enters the history before it is checked. *)
Hint_SaidAtOnce(t) ==
  LET s == turn[t].state
  IN  /\ turn[t].at = "hint"
      /\ \E kind \in {"hint", "hint with code", "refusal"} :
           Run(t, "guard", Said([s EXCEPT !.answer = Text(kind), !.citations = {}, !.route = "HINT"],
                                "ai", Text(kind)))
      /\ UNCHANGED indexVars

(* The hint is written without any search; a failed call gives the refusal. *)
Hint(t) ==
  LET s == turn[t].state
  IN  /\ turn[t].at = "hint"
      /\ \E kind \in {"hint", "hint with code", "refusal"} :
           Run(t, "guard", [s EXCEPT !.answer = Text(kind), !.citations = {}, !.route = "HINT"])
      /\ UNCHANGED indexVars

(* The answer is the chunks as they stand. *)
Generate(t) ==
  LET s == turn[t].state
  IN  /\ turn[t].at = "generate"
      /\ Run(t, "guard", [s EXCEPT !.answer = [kind |-> "chunks", ids |-> s.chunks],
                                   !.citations = s.chunks, !.route = "ANSWER"])
      /\ UNCHANGED indexVars

CheckOutput(s) ==
  \/ s.route = "ANSWER" /\ s.citations = {}
  \/ \E id \in s.citations : ~Public(id)
  \/ s.route = "HINT" /\ s.answer.kind = "hint with code"

(* A blocked answer is replaced as a whole, and only what is left after the
   check enters the history. *)
Guard(t) ==
  LET s == turn[t].state
      blank == [s EXCEPT !.blocked = TRUE, !.citations = {}]
      safe == IF ~CheckOutput(s) THEN s
              ELSE IF s.route = "HINT" THEN [blank EXCEPT !.answer = Text("refusal")]
              ELSE [blank EXCEPT !.answer = Text("regret"), !.route = "NO_EVIDENCE"]
  IN  /\ turn[t].at = "guard"
      /\ Run(t, "replied", Said(safe, "ai", safe.answer))
      /\ UNCHANGED indexVars

Failed == [at |-> "failed", steps |-> 0, state |-> Empty]

(* Searching and the model's construction are not guarded: without a key, or
   with the store gone, the turn ends in an error. *)
Fail(t) ==
  /\ turn[t].at \in {"retrieve", "grade"}
  /\ turn' = [turn EXCEPT ![t] = Failed]
  /\ UNCHANGED <<indexVars, checkpoint, crashes>>

(* The server dies with the turns it was running and opens the store anew.
   Their checkpoints stay, in the middle of a turn. *)
Crash ==
  /\ crashes < MaxCrashes
  /\ crashes' = crashes + 1
  /\ turn' = [t \in Turns |-> IF turn[t].at \in Nodes THEN Failed ELSE turn[t]]
  /\ opened' = "no"
  /\ removed' = {}
  /\ UNCHANGED <<store, marker, build, cut, checkpoint>>

TurnStep(t) ==
  \/ Unprepared(t) \/ Chat(t) \/ Classify(t) \/ Retrieve(t) \/ Grade(t) \/ Rewrite(t)
  \/ NoEvidence(t) \/ Hint(t) \/ Generate(t) \/ Guard(t) \/ Fail(t)

Next == (\E t \in Turns : TurnStep(t)) \/ (IndexStep /\ UNCHANGED tutorVars) \/ Crash

Spec == Init /\ [][Next]_vars

-----------------------------------------------------------------------------
TypeOK ==
  /\ \A t \in Turns : /\ turn[t].at \in {"waiting"} \cup Nodes \cup Ended
                      /\ turn[t].steps \in Nat
                      /\ turn[t].state.retry \in 0..MaxRetry
  /\ store \subseteq IdsOf(Corpus) /\ removed \subseteq IdsOf(Corpus)
  /\ opened \in {"no", "live", "stale"}

(* A turn that was answered from the material was answered from what a query
   about its own question found, all of it public, and cites exactly that:
   the state it started from was left behind by another turn, finished,
   overtaken or cut off in the middle. *)
EvidenceIsForThisTurn ==
  \A t \in Turns :
    LET s == turn[t].state
    IN  turn[t].at = "replied" /\ s.route = "ANSWER" =>
          /\ s.question = t /\ s.soughtFor = t
          /\ s.answer = [kind |-> "chunks", ids |-> s.citations]
          /\ s.citations # {} /\ \A id \in s.citations : Public(id)

(* The history the model will be shown holds each question at most once and
   directly after it at most one answer, the one that passed the guard: an
   answer it blocked is nowhere in it. *)
HistoryIsGuarded ==
  LET told == checkpoint.messages
  IN  /\ \A i, j \in DOMAIN told :
           i # j => <<told[i].by, told[i].turn>> # <<told[j].by, told[j].turn>>
      /\ \A i \in DOMAIN told : told[i].by = "ai" =>
           /\ told[i].text.kind \in {"chunks", "hint", "refusal", "regret"}
           /\ \A id \in told[i].text.ids : Public(id)
           /\ i > 1 /\ told[i - 1].by = "human" /\ told[i - 1].turn = told[i].turn

(* The bound on rewrites ends the loop before the framework has to: whenever
   a node is about to run there is a step left for it, so no turn is broken
   off by the recursion limit (builder.py: it is there in case the bound does
   not work). *)
LoopEndsItself == \A t \in Turns : turn[t].at \in Nodes => turn[t].steps < RecursionLimit
=============================================================================

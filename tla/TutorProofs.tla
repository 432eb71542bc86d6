----------------------------- MODULE TutorProofs -----------------------------
(***************************************************************************)
(* Theorems about the tutor, for any corpus, any number of turns of one    *)
(* conversation overlapping in any way, any rebuilds and crashes.          *)
(*                                                                         *)
(* A turn starts from whatever checkpoint another turn has left, finished, *)
(* overtaken or cut off, and overwrites it with its own copy after every   *)
(* node.  The inductive invariant therefore says of every copy what the    *)
(* node about to run may rely on, and of every history, saved or held,     *)
(* that it speaks only of turns that have begun: so it cannot yet hold the *)
(* question of a turn that is about to ask it.                             *)
(*                                                                         *)
(* Documents are cut by two loops, over lines and over blocks, and small   *)
(* chunks merged by a third.  Of each it is shown what holds after every   *)
(* turn (Parsing, Packing, AllFit): the first n lines, but for headings,   *)
(* are in the blocks and the open block, the first k blocks in the chunks  *)
(* and the open chunk, in their order.                                     *)
(***************************************************************************)
EXTENDS Tutor, LoopProofs, FiniteSetTheorems

(* What a node can leave in the graph's state.                             *)
Kinds   == {"none", "question", "chunks", "hint", "hint with code", "refusal", "regret"}
Texts   == [kind : Kinds, ids : SUBSET Corpus]
Message == [by : {"human", "ai"}, turn : Turns, text : Texts]
Asked   == Turns \cup {NoTurn}

State ==
  [question : Asked, search_query : Asked, standalone : Asked, chunks : SUBSET Corpus,
   soughtFor : Asked, top : {"none", "low", "high"}, graded_ok : BOOLEAN, retry : 0..MaxRetry,
   intent : {"none", "CONCEPT", "SOLUTION_SEEKING", "OUT_OF_SCOPE"},
   route : {"none", "ANSWER", "HINT", "NO_EVIDENCE", "OUT_OF_SCOPE"},
   answer : Texts, citations : SUBSET Corpus, blocked : BOOLEAN, messages : Seq(Message)]

Progress == [at : {"waiting"} \cup Nodes \cup Ended, steps : Nat, state : State]

TutorTyped == turn \in [Turns -> Progress] /\ checkpoint \in State /\ crashes \in Nat

-----------------------------------------------------------------------------
(* The index: a run stores what it set out to before it sets the marker.   *)
IndexTyped ==
  /\ store \subseteq Corpus /\ removed \subseteq Corpus /\ marker \in BOOLEAN
  /\ opened \in {"no", "live", "stale"}
  /\ build \in [at : {"none", "clear", "open", "add", "finish"}, snapshot : SUBSET Corpus,
                todo : SUBSET Corpus, tries : Nat, resume : BOOLEAN, runs : Nat]

BuildFits ==
  /\ marker => build.at = "none" /\ build.snapshot \subseteq store
  /\ build.at = "add" => build.snapshot \subseteq store \cup build.todo
  /\ build.at = "finish" => build.snapshot \subseteq store

IndexInv == IndexTyped /\ BuildFits

-----------------------------------------------------------------------------
(* The history of a thread: every question once, and after it at most the  *)
(* answer that passed the guard.                                           *)
Fit(m) == m.text.kind \in {"chunks", "hint", "refusal", "regret"} /\ \A id \in m.text.ids : Public(id)

Guarded(told) ==
  /\ \A i, j \in DOMAIN told : i # j => <<told[i].by, told[i].turn>> # <<told[j].by, told[j].turn>>
  /\ \A i \in DOMAIN told : told[i].by = "ai" =>
       /\ Fit(told[i])
       /\ i > 1 /\ told[i - 1].by = "human" /\ told[i - 1].turn = told[i].turn

(* Only turns that have begun are spoken of.                               *)
Begun(told, now) == \A i \in DOMAIN told : now[told[i].turn].at # "waiting"

(* The history a turn works on ends with its question, once it is asked.   *)
EndsWith(told, t) ==
  /\ told # <<>> /\ told[Len(told)].by = "human" /\ told[Len(told)].turn = t
  /\ \A i \in DOMAIN told : told[i].turn = t => i = Len(told)

(* The nodes before this one that are not part of a round of the loop; a   *)
(* round is three nodes.                                                   *)
Before(at) == CASE at = "classify" -> 0 [] at = "retrieve" -> 1 [] at = "grade" -> 2
                [] at = "guard" -> 4 [] OTHER -> 3

Evidence(t, s) ==
  /\ s.question = t /\ s.soughtFor = t
  /\ s.answer = [kind |-> "chunks", ids |-> s.citations]
  /\ s.citations # {} /\ \A id \in s.citations : Public(id)

(* What a node finds in its copy of the state, whatever turn had left the  *)
(* checkpoint it began with.                                               *)
CopyFits(t, at, s) ==
  /\ s.question = t /\ s.search_query \in {NoTurn, t} /\ s.standalone \in {NoTurn, t}
  /\ at \in {"grade", "generate"} => s.soughtFor = t /\ \A id \in s.chunks : Public(id)
  /\ at = "rewrite" => s.retry < MaxRetry
  /\ at = "generate" => s.chunks # {}
  /\ at = "guard" =>
       \/ s.route = "ANSWER" /\ Evidence(t, s)
       \/ /\ s.route = "HINT" /\ s.citations = {} /\ s.answer.ids = {}
          /\ s.answer.kind \in {"hint", "hint with code", "refusal"}
  /\ IF at = "classify" THEN \A i \in DOMAIN s.messages : s.messages[i].turn # t
                        ELSE EndsWith(s.messages, t)

TurnFits(t, c) ==
  /\ c.at \in Nodes => CopyFits(t, c.at, c.state) /\ c.steps <= Before(c.at) + 3 * c.state.retry
  /\ c.at = "replied" /\ c.state.route = "ANSWER" => Evidence(t, c.state)

ThreadInv ==
  /\ \A t \in Turns : TurnFits(t, turn[t])
  /\ \A t \in Turns : Guarded(turn[t].state.messages) /\ Begun(turn[t].state.messages, turn)
  /\ Guarded(checkpoint.messages) /\ Begun(checkpoint.messages, turn)

TutorInv == TutorTyped /\ IndexInv /\ ThreadInv

-----------------------------------------------------------------------------
(* The index.                                                              *)

LEMMA IndexStarts == IndexInit => IndexInv
<1> SUFFICES ASSUME IndexInit PROVE IndexInv
  OBVIOUS
<1>1. PICK resume \in BOOLEAN : build = [at |-> "none", snapshot |-> Corpus, todo |-> {}, tries |-> 0,
                                        resume |-> resume, runs |-> 0]
  BY DEF IndexInit, NoBuild, IdsOf
<1> QED
  BY <1>1 DEF IndexInit, IndexInv, IndexTyped, BuildFits, IdsOf

LEMMA IndexStepKeeps == ASSUME IndexInv, IndexStep PROVE IndexInv'
<1>1. CASE StartBuild
  <2>1. PICK docs \in FirstFiles, resume \in BOOLEAN :
          build' = [build EXCEPT !.at = IF resume THEN "open" ELSE "clear", !.resume = resume,
                                 !.snapshot = docs, !.runs = @ + 1]
    BY <1>1 DEF StartBuild, IdsOf
  <2>2. docs \subseteq Corpus
    BY DEF FirstFiles
  <2>3. PICK at \in {"open", "clear"} :
          build' = [build EXCEPT !.at = at, !.resume = resume, !.snapshot = docs, !.runs = @ + 1]
    BY <2>1
  <2>t. build.runs + 1 \in Nat
    BY DEF IndexInv, IndexTyped
  <2>4. build' = [at |-> at, snapshot |-> docs, todo |-> build.todo, tries |-> build.tries,
                  resume |-> resume, runs |-> build.runs + 1]
    BY <2>3 DEF IndexInv, IndexTyped
  <2>5. marker' \in BOOLEAN /\ ~marker' /\ UNCHANGED <<store, opened, removed>>
    BY <1>1 DEF StartBuild
  <2>6. IndexTyped'
    BY <2>t, <2>2, <2>4, <2>5 DEF IndexInv, IndexTyped
  <2> QED
    BY <2>4, <2>5, <2>6 DEF IndexInv, BuildFits
<1>2. CASE ClearStore
  <2>1. IndexTyped'
    BY <1>2 DEF ClearStore, IndexInv, IndexTyped
  <2> QED
    BY <1>2, <2>1 DEF ClearStore, IndexInv, IndexTyped, BuildFits
<1>3. CASE OpenStore
  <2>1. PICK todo, at :
          /\ build' = [build EXCEPT !.at = at, !.todo = todo, !.tries = 0]
          /\ todo = IF build.resume THEN build.snapshot \ store ELSE build.snapshot
          /\ at = IF todo = {} THEN "finish" ELSE "add"
    BY <1>3 DEF OpenStore
  <2>t. todo \subseteq Corpus /\ at \in {"finish", "add"}
    BY <2>1 DEF IndexInv, IndexTyped
  <2>2. IndexTyped'
    <3>1. build' = [at |-> at, snapshot |-> build.snapshot, todo |-> todo, tries |-> 0,
                    resume |-> build.resume, runs |-> build.runs]
      BY <2>1 DEF IndexInv, IndexTyped
    <3>2. UNCHANGED <<store, marker, opened, removed>>
      BY <1>3 DEF OpenStore
    <3> QED
      BY <2>t, <3>1, <3>2 DEF IndexInv, IndexTyped
  <2>3. BuildFits'
    BY <1>3, <2>1 DEF OpenStore, IndexInv, IndexTyped, BuildFits
  <2> QED
    BY <2>2, <2>3 DEF IndexInv
<1>4. CASE AddBatch
  <2>1. PICK ids \in SUBSET build.todo, at \in {"finish", "add"} :
          /\ store' = store \cup ids /\ at = IF build.todo = ids THEN "finish" ELSE "add"
          /\ build' = [build EXCEPT !.todo = @ \ ids, !.tries = 0, !.at = at]
    BY <1>4 DEF AddBatch
  <2>2. IndexTyped'
    BY <1>4, <2>1 DEF AddBatch, IndexInv, IndexTyped
  <2>3. BuildFits'
    BY <1>4, <2>1 DEF AddBatch, IndexInv, IndexTyped, BuildFits
  <2> QED
    BY <2>2, <2>3 DEF IndexInv
<1>5. CASE RetryBatch
  BY <1>5 DEF RetryBatch, IndexInv, IndexTyped, BuildFits
<1>6. CASE FinishBuild
  BY <1>6 DEF FinishBuild, IndexInv, IndexTyped, BuildFits
<1>7. CASE BuildDies
  BY <1>7 DEF BuildDies, IndexInv, IndexTyped, BuildFits
<1>8. CASE DryRun
  <2>1. MaxBuilds \in Nat
    BY IndexAssumption
  <2>2. build' = [build EXCEPT !.runs = MaxBuilds] /\ UNCHANGED <<store, marker, opened, removed>>
    BY <1>8 DEF DryRun
  <2> QED
    BY <2>1, <2>2 DEF IndexInv, IndexTyped, BuildFits
<1> QED
  BY <1>1, <1>2, <1>3, <1>4, <1>5, <1>6, <1>7, <1>8 DEF IndexStep

(* The server's steps only open the store or forget what they had opened.  *)
LEMMA IndexServed ==
  ASSUME IndexInv, UNCHANGED <<store, marker, build>>, removed' \in {removed, {}},
         opened' \in {opened, "no", "live"}
  PROVE  IndexInv'
  BY DEF IndexInv, IndexTyped, BuildFits

-----------------------------------------------------------------------------
(* The history.                                                            *)

LEMMA QuestionAdded ==
  ASSUME NEW told \in Seq(Message), NEW t \in Turns, NEW text \in Texts,
         Guarded(told), \A i \in DOMAIN told : told[i].turn # t
  PROVE  LET more == Append(told, [by |-> "human", turn |-> t, text |-> text])
         IN  more \in Seq(Message) /\ Guarded(more) /\ EndsWith(more, t)
<1> DEFINE m == [by |-> "human", turn |-> t, text |-> text]
           more == Append(told, m)
<1>1. m \in Message /\ m.by = "human" /\ m.turn = t
  BY DEF Message
<1> HIDE DEF m
<1>2. /\ more \in Seq(Message) /\ Len(told) \in Nat /\ Len(more) = Len(told) + 1
      /\ DOMAIN told = 1..Len(told) /\ DOMAIN more = 1..(Len(told) + 1)
      /\ more[Len(told) + 1] = m /\ \A i \in 1..Len(told) : more[i] = told[i]
  BY <1>1
<1> HIDE DEF more
<1>3. \A i, j \in DOMAIN more : i # j => <<more[i].by, more[i].turn>> # <<more[j].by, more[j].turn>>
  BY <1>1, <1>2 DEF Guarded
<1>4. \A i \in DOMAIN more : more[i].by = "ai" =>
        /\ Fit(more[i])
        /\ i > 1 /\ more[i - 1].by = "human" /\ more[i - 1].turn = more[i].turn
  <2> SUFFICES ASSUME NEW i \in DOMAIN more, more[i].by = "ai"
               PROVE  /\ Fit(more[i])
                      /\ i > 1 /\ more[i - 1].by = "human" /\ more[i - 1].turn = more[i].turn
    OBVIOUS
  <2>1. i \in 1..Len(told) /\ more[i] = told[i]
    BY <1>1, <1>2
  <2>2. Fit(told[i]) /\ i > 1 /\ told[i - 1].by = "human" /\ told[i - 1].turn = told[i].turn
    BY <1>2, <2>1 DEF Guarded
  <2>3. i - 1 \in 1..Len(told)
    BY <1>2, <2>1, <2>2
  <2> QED
    BY <1>2, <2>1, <2>2, <2>3
<1>5. EndsWith(more, t)
  BY <1>1, <1>2 DEF EndsWith
<1> QED
  BY <1>2, <1>3, <1>4, <1>5 DEF Guarded, more, m

LEMMA AnswerAdded ==
  ASSUME NEW told \in Seq(Message), NEW t \in Turns, NEW text \in Texts,
         text.kind \in {"chunks", "hint", "refusal", "regret"}, \A id \in text.ids : Public(id),
         Guarded(told), EndsWith(told, t)
  PROVE  LET more == Append(told, [by |-> "ai", turn |-> t, text |-> text])
         IN  more \in Seq(Message) /\ Guarded(more)
<1> DEFINE m == [by |-> "ai", turn |-> t, text |-> text]
           more == Append(told, m)
<1>1. m \in Message /\ m.by = "ai" /\ m.turn = t /\ Fit(m)
  BY DEF Message, Fit
<1> HIDE DEF m
<1>2. /\ more \in Seq(Message) /\ Len(told) \in Nat /\ Len(more) = Len(told) + 1
      /\ DOMAIN told = 1..Len(told) /\ DOMAIN more = 1..(Len(told) + 1)
      /\ more[Len(told) + 1] = m /\ \A i \in 1..Len(told) : more[i] = told[i]
  BY <1>1
<1> HIDE DEF more
<1>3. /\ Len(told) # 0 /\ told[Len(told)].by = "human" /\ told[Len(told)].turn = t
      /\ \A i \in 1..Len(told) : told[i].turn = t => told[i].by = "human"
  BY <1>2, EmptySeq DEF EndsWith
<1>4. \A i, j \in DOMAIN more : i # j => <<more[i].by, more[i].turn>> # <<more[j].by, more[j].turn>>
  BY <1>1, <1>2, <1>3 DEF Guarded
<1>5. \A i \in DOMAIN more : more[i].by = "ai" =>
        /\ Fit(more[i])
        /\ i > 1 /\ more[i - 1].by = "human" /\ more[i - 1].turn = more[i].turn
  <2> SUFFICES ASSUME NEW i \in DOMAIN more, more[i].by = "ai"
               PROVE  /\ Fit(more[i])
                      /\ i > 1 /\ more[i - 1].by = "human" /\ more[i - 1].turn = more[i].turn
    OBVIOUS
  <2>1. CASE i = Len(told) + 1
    BY <1>1, <1>2, <1>3, <2>1
  <2>2. CASE i # Len(told) + 1
    <3>1. i \in 1..Len(told) /\ more[i] = told[i]
      BY <1>2, <2>2
    <3>2. Fit(told[i]) /\ i > 1 /\ told[i - 1].by = "human" /\ told[i - 1].turn = told[i].turn
      BY <1>2, <3>1 DEF Guarded
    <3>3. i - 1 \in 1..Len(told)
      BY <1>2, <3>1, <3>2
    <3> QED
      BY <1>2, <3>1, <3>2, <3>3
  <2> QED
    BY <2>1, <2>2
<1> QED
  BY <1>2, <1>4, <1>5 DEF Guarded, more, m

-----------------------------------------------------------------------------
(* A turn.                                                                 *)

LEMMA SpokenOf ==
  ASSUME NEW told \in Seq(Message), NEW i \in DOMAIN told
  PROVE  told[i] \in Message /\ told[i].turn \in Turns
<1>1. told[i] \in Message
  BY ElementOfSeq, LenProperties
<1> QED
  BY <1>1 DEF Message

(* One turn moves and the checkpoint is replaced; the others are where     *)
(* they were, and a turn that has begun stays begun.                       *)
LEMMA TurnMoves ==
  ASSUME TutorInv, NEW t \in Turns, NEW new \in Progress, new.at # "waiting",
         turn' = [turn EXCEPT ![t] = new], checkpoint' \in State, crashes' = crashes,
         TurnFits(t, new),
         Guarded(new.state.messages), Begun(new.state.messages, turn'),
         Guarded(checkpoint'.messages), Begun(checkpoint'.messages, turn')
  PROVE  TutorTyped' /\ ThreadInv'
<1>1. TutorTyped'
  BY DEF TutorInv, TutorTyped
<1>2. \A u \in Turns : turn'[u] = IF u = t THEN new ELSE turn[u]
  BY DEF TutorInv, TutorTyped
<1>3. \A u \in Turns : TurnFits(u, turn'[u])
  BY <1>2 DEF TutorInv, ThreadInv
<1>4. \A u \in Turns : Guarded(turn'[u].state.messages)
  BY <1>2 DEF TutorInv, ThreadInv
<1>5. ASSUME NEW u \in Turns PROVE Begun(turn'[u].state.messages, turn')
  <2>1. CASE u = t
    BY <1>2, <2>1
  <2>2. CASE u # t
    <3>1. /\ turn'[u] = turn[u] /\ Begun(turn[u].state.messages, turn)
          /\ turn[u].state.messages \in Seq(Message)
      BY <1>2, <2>2 DEF TutorInv, ThreadInv, TutorTyped, Progress, State
    <3>2. \A i \in DOMAIN turn[u].state.messages : turn[u].state.messages[i].turn \in Turns
      BY <3>1, SpokenOf
    <3> QED
      BY <1>2, <3>1, <3>2 DEF Begun
  <2> QED
    BY <2>1, <2>2
<1> QED
  BY <1>1, <1>3, <1>4, <1>5 DEF ThreadInv

(* A state to whose history nothing has been added.                        *)
LEMMA ReplyTyped ==
  ASSUME NEW s \in State
  PROVE  /\ Reply(s) \in State /\ Reply(s).messages = <<>>
         /\ Reply(s).question = s.question /\ Reply(s).soughtFor = s.soughtFor
         /\ Reply(s).answer = s.answer /\ Reply(s).citations = s.citations /\ Reply(s).route = s.route
<1>1. /\ "none" \in {"none", "low", "high"} /\ NoTurn \in Asked /\ {} \in SUBSET Corpus
      /\ "none" \in {"none", "CONCEPT", "SOLUTION_SEEKING", "OUT_OF_SCOPE"}
      /\ 0 \in 0..MaxRetry /\ <<>> \in Seq(Message)
  BY TutorAssumption, EmptySeq DEF Asked
<1>2. Reply(s) \in State
  BY <1>1 DEF Reply, State
<1>3. /\ Reply(s).messages = <<>>
      /\ Reply(s).question = s.question /\ Reply(s).soughtFor = s.soughtFor
      /\ Reply(s).answer = s.answer /\ Reply(s).citations = s.citations /\ Reply(s).route = s.route
  BY DEF Reply, State
<1> QED
  BY <1>2, <1>3

LEMMA EmptyHistory == ASSUME NEW now PROVE Guarded(<<>>) /\ Begun(<<>>, now)
  BY DEF Guarded, Begun

(* A node has run: it leaves what the next one relies on.                  *)
LEMMA RunKeeps ==
  ASSUME TutorInv, NEW t \in Turns, turn[t].at \in Nodes, NEW next \in Nodes \cup {"replied"},
         NEW update \in State, Run(t, next, update),
         next \in Nodes => CopyFits(t, next, update) /\ turn[t].steps + 1 <= Before(next) + 3 * update.retry,
         next = "replied" /\ update.route = "ANSWER" => Evidence(t, update),
         Guarded(update.messages), Begun(update.messages, turn)
  PROVE  TutorTyped' /\ ThreadInv'
<1> DEFINE new == [at    |-> next,
                   steps |-> IF next = "replied" THEN 0 ELSE turn[t].steps + 1,
                   state |-> IF next = "replied" THEN Reply(update) ELSE update]
<1>1. turn' = [turn EXCEPT ![t] = new] /\ checkpoint' = update /\ crashes' = crashes
  BY DEF Run
<1>2. new \in Progress /\ new.at = next /\ new.at # "waiting"
  <2>1. turn[t].steps + 1 \in Nat
    BY DEF TutorInv, TutorTyped, Progress
  <2> QED
    BY <2>1, ReplyTyped DEF Progress, Nodes, Ended
<1>3. TurnFits(t, new)
  <2>1. CASE next = "replied"
    BY <2>1, ReplyTyped DEF TurnFits, Evidence, Nodes
  <2>2. CASE next \in Nodes
    BY <2>2 DEF TurnFits, Nodes
  <2> QED
    BY <2>1, <2>2
<1>4. turn[t].at # "waiting"
  BY DEF Nodes
<1>5. Begun(update.messages, turn')
  <2>1. update.messages \in Seq(Message)
    BY DEF State
  <2>2. \A i \in DOMAIN update.messages : update.messages[i].turn \in Turns
    BY <2>1, SpokenOf
  <2> HIDE DEF new
  <2> QED
    BY <1>1, <1>2, <1>4, <2>2 DEF Begun, TutorInv, TutorTyped
<1>6. Guarded(new.state.messages) /\ Begun(new.state.messages, turn')
  BY <1>5, ReplyTyped, EmptyHistory
<1> HIDE DEF new
<1> QED
  BY <1>1, <1>2, <1>3, <1>5, <1>6, TurnMoves

(* What a node that is about to run finds.                                 *)
LEMMA NodeFinds ==
  ASSUME TutorInv, NEW t \in Turns, turn[t].at \in Nodes
  PROVE  /\ turn[t].state \in State /\ turn[t].steps \in Nat
         /\ CopyFits(t, turn[t].at, turn[t].state)
         /\ turn[t].steps <= Before(turn[t].at) + 3 * turn[t].state.retry
         /\ turn[t].state.retry \in Nat
         /\ Guarded(turn[t].state.messages) /\ Begun(turn[t].state.messages, turn)
<1>1. turn[t].state \in State /\ turn[t].steps \in Nat
  BY DEF TutorInv, TutorTyped, Progress
<1>2. turn[t].state.retry \in Nat
  BY <1>1, TutorAssumption DEF State
<1> QED
  BY <1>1, <1>2 DEF TutorInv, ThreadInv, TurnFits

-----------------------------------------------------------------------------
(* The nodes.                                                              *)

LEMMA BeforeIs ==
  /\ Before("classify") = 0 /\ Before("retrieve") = 1 /\ Before("grade") = 2 /\ Before("guard") = 4
  /\ \A at \in {"rewrite", "generate", "hint", "no_evidence"} : Before(at) = 3
  BY DEF Before

LEMMA ClassifyKeeps ==
  ASSUME TutorInv, NEW t \in Turns, Classify(t)
  PROVE  TutorInv'
<1> DEFINE s == turn[t].state
           asked == [kind |-> "question", ids |-> {}]
<1>1. turn[t].at = "classify" /\ turn[t].at \in Nodes
  BY DEF Classify, Nodes
<1>2. /\ s \in State /\ turn[t].steps \in Nat /\ CopyFits(t, "classify", s)
      /\ turn[t].steps <= 0 + 3 * s.retry
      /\ Guarded(s.messages) /\ Begun(s.messages, turn)
  BY <1>1, NodeFinds, BeforeIs
<1>3. PICK intent \in {"CONCEPT", "SOLUTION_SEEKING", "OUT_OF_SCOPE"}, standalone \in {s.standalone, t} :
        LET u == Said([s EXCEPT !.intent = intent, !.standalone = standalone], "human", asked)
        IN  Run(t, RouteIntent(u), u)
  BY DEF Classify
<1> DEFINE more == Append(s.messages, [by |-> "human", turn |-> s.question, text |-> asked])
           u == Said([s EXCEPT !.intent = intent, !.standalone = standalone], "human", asked)
<1>4. /\ s.question = t /\ s.search_query \in {NoTurn, t} /\ standalone \in {NoTurn, t}
      /\ standalone \in Asked /\ s.messages \in Seq(Message)
      /\ \A i \in DOMAIN s.messages : s.messages[i].turn # t
  BY <1>2 DEF CopyFits, State, Asked
<1>5. asked \in Texts
  BY DEF Texts, Kinds
<1>6. more \in Seq(Message) /\ Guarded(more) /\ EndsWith(more, t)
  BY <1>2, <1>4, <1>5, QuestionAdded
<1>7. Begun(more, turn)
  BY <1>1, <1>2, <1>4 DEF Begun, Nodes
<1>8. u = [s EXCEPT !.intent = intent, !.standalone = standalone, !.messages = more]
  BY <1>2 DEF Said, State
<1> HIDE DEF more, u, asked
<1>9. u \in State
  BY <1>2, <1>4, <1>6, <1>8 DEF State
<1>10. /\ u.question = t /\ u.search_query = s.search_query /\ u.standalone = standalone
       /\ u.retry = s.retry /\ u.messages = more /\ u.intent = intent
  BY <1>2, <1>4, <1>8 DEF State
<1>11. RouteIntent(u) \in {"hint", "no_evidence", "retrieve"}
  BY DEF RouteIntent
<1>12. /\ CopyFits(t, RouteIntent(u), u)
       /\ turn[t].steps + 1 <= Before(RouteIntent(u)) + 3 * u.retry
  <2>1. CopyFits(t, RouteIntent(u), u)
    BY <1>4, <1>6, <1>10, <1>11 DEF CopyFits
  <2>2. Before(RouteIntent(u)) \in {1, 3}
    BY <1>11, BeforeIs
  <2>3. s.retry \in Nat /\ turn[t].steps <= 3 * s.retry
    BY <1>2, TutorAssumption DEF State
  <2> QED
    BY <1>2, <1>10, <2>1, <2>2, <2>3
<1>13. TutorTyped' /\ ThreadInv'
  <2>1. Run(t, RouteIntent(u), u) /\ RouteIntent(u) \in Nodes /\ RouteIntent(u) # "replied"
    BY <1>3, <1>11 DEF u, asked, Nodes
  <2> QED
    BY <1>1, <1>6, <1>7, <1>9, <1>10, <1>12, <2>1, RunKeeps
<1>14. IndexInv'
  BY IndexServed DEF Classify, Open, TutorInv
<1> QED
  BY <1>13, <1>14 DEF TutorInv

(* What a search returns is public.                                        *)
LEMMA FoundIsPublic ==
  ASSUME TutorInv, NEW found \in Search(Visible)
  PROVE  found \subseteq Corpus /\ \A id \in found : Public(id)
  BY DEF Search, LearnerFilter, Visible, TutorInv, IndexInv, IndexTyped

LEMMA RetrieveKeeps ==
  ASSUME TutorInv, NEW t \in Turns, Retrieve(t)
  PROVE  TutorInv'
<1> DEFINE s == turn[t].state
<1>1. turn[t].at = "retrieve" /\ turn[t].at \in Nodes
  BY DEF Retrieve, Nodes
<1>2. /\ s \in State /\ turn[t].steps \in Nat /\ CopyFits(t, "retrieve", s)
      /\ turn[t].steps <= 1 + 3 * s.retry
      /\ Guarded(s.messages) /\ Begun(s.messages, turn)
  BY SMTT(30), <1>1, NodeFinds, BeforeIs
<1>3. PICK found \in Search(Visible), top \in {"none", "low", "high"} :
        Run(t, "grade", [s EXCEPT !.search_query = QueryOf(s), !.soughtFor = QueryOf(s),
                                  !.chunks = found, !.top = top])
  BY DEF Retrieve
<1>4. QueryOf(s) = t /\ EndsWith(s.messages, t) /\ s.question = t
      /\ s.standalone \in {NoTurn, t} /\ t \in Asked
  BY <1>2 DEF CopyFits, QueryOf, Asked
<1>5. found \in SUBSET Corpus /\ \A id \in found : Public(id)
  BY FoundIsPublic
<1> DEFINE u == [s EXCEPT !.search_query = t, !.soughtFor = t, !.chunks = found, !.top = top]
<1>6. u \in State
  BY <1>2, <1>4, <1>5 DEF State
<1>7. /\ u.question = t /\ u.search_query = t /\ u.standalone = s.standalone /\ u.soughtFor = t
      /\ u.chunks = found /\ u.retry = s.retry /\ u.messages = s.messages
  BY <1>2, <1>4 DEF State
<1>8. Run(t, "grade", u)
  BY <1>3, <1>4
<1> HIDE DEF u
<1>9. CopyFits(t, "grade", u)
  BY <1>4, <1>5, <1>7 DEF CopyFits
<1>10. turn[t].steps + 1 <= Before("grade") + 3 * u.retry
  <2>1. s.retry \in Nat
    BY <1>2, TutorAssumption DEF State
  <2> QED
    BY <1>2, <1>7, <2>1, BeforeIs
<1>11. TutorTyped' /\ ThreadInv'
  <2>1. "grade" \in Nodes /\ "grade" # "replied"
    BY DEF Nodes
  <2> QED
    BY <1>1, <1>2, <1>6, <1>7, <1>8, <1>9, <1>10, <2>1, RunKeeps
<1>12. IndexInv'
  BY IndexServed DEF Retrieve, Open, TutorInv
<1> QED
  BY <1>11, <1>12 DEF TutorInv

LEMMA IndexUntouched == ASSUME TutorInv, UNCHANGED indexVars PROVE IndexInv'
  BY DEF TutorInv, indexVars, IndexInv, IndexTyped, BuildFits

LEMMA GradeKeeps ==
  ASSUME TutorInv, NEW t \in Turns, Grade(t)
  PROVE  TutorInv'
<1> DEFINE s == turn[t].state
<1>1. turn[t].at = "grade" /\ turn[t].at \in Nodes
  BY DEF Grade, Nodes
<1>2. /\ s \in State /\ turn[t].steps \in Nat /\ CopyFits(t, "grade", s)
      /\ turn[t].steps <= 2 + 3 * s.retry
      /\ Guarded(s.messages) /\ Begun(s.messages, turn)
  BY <1>1, NodeFinds, BeforeIs
<1>3. PICK ok \in BOOLEAN : /\ ok => s.chunks # {}
                            /\ LET u == [s EXCEPT !.graded_ok = ok] IN Run(t, RouteGrade(u), u)
  BY DEF Grade
<1> DEFINE u == [s EXCEPT !.graded_ok = ok]
<1>4. u \in State
  BY <1>2 DEF State
<1>5. /\ u.question = s.question /\ u.search_query = s.search_query /\ u.standalone = s.standalone
      /\ u.soughtFor = s.soughtFor /\ u.chunks = s.chunks /\ u.retry = s.retry
      /\ u.messages = s.messages /\ (u.graded_ok <=> ok)
  BY <1>2 DEF State
<1>6. Run(t, RouteGrade(u), u)
  BY <1>3
<1> HIDE DEF u
<1>7. \/ RouteGrade(u) = "generate" /\ s.chunks # {}
      \/ RouteGrade(u) = "rewrite" /\ s.retry < MaxRetry
      \/ RouteGrade(u) = "no_evidence"
  BY <1>3, <1>5 DEF RouteGrade
<1>8. CopyFits(t, RouteGrade(u), u)
  BY <1>2, <1>5, <1>7 DEF CopyFits
<1>9. turn[t].steps + 1 <= Before(RouteGrade(u)) + 3 * u.retry
  <2>1. s.retry \in Nat
    BY <1>2, TutorAssumption DEF State
  <2>2. Before(RouteGrade(u)) = 3
    BY <1>7, BeforeIs
  <2> QED
    BY <1>2, <1>5, <2>1, <2>2
<1>10. TutorTyped' /\ ThreadInv'
  <2>1. RouteGrade(u) \in Nodes /\ RouteGrade(u) # "replied"
    BY <1>7 DEF Nodes
  <2> QED
    BY <1>1, <1>2, <1>4, <1>5, <1>6, <1>8, <1>9, <2>1, RunKeeps
<1> QED
  BY <1>10, IndexUntouched DEF Grade, TutorInv

LEMMA RewriteKeeps ==
  ASSUME TutorInv, NEW t \in Turns, Rewrite(t)
  PROVE  TutorInv'
<1> DEFINE s == turn[t].state
<1>1. turn[t].at = "rewrite" /\ turn[t].at \in Nodes
  BY DEF Rewrite, Nodes
<1>2. /\ s \in State /\ turn[t].steps \in Nat /\ CopyFits(t, "rewrite", s)
      /\ turn[t].steps <= 3 + 3 * s.retry
      /\ Guarded(s.messages) /\ Begun(s.messages, turn)
  BY <1>1, NodeFinds, BeforeIs
<1>3. PICK query \in {s.search_query, s.question} :
        Run(t, "retrieve", [s EXCEPT !.retry = @ + 1, !.search_query = query])
  BY DEF Rewrite
<1>4. /\ query \in {NoTurn, t} /\ query \in Asked /\ s.question = t /\ s.standalone \in {NoTurn, t}
      /\ EndsWith(s.messages, t) /\ s.retry < MaxRetry
  BY <1>2 DEF CopyFits, Asked
<1>5. s.retry + 1 \in 0..MaxRetry /\ s.retry \in Nat
  BY SMTT(30), <1>2, <1>4, TutorAssumption DEF State
<1> DEFINE u == [s EXCEPT !.retry = @ + 1, !.search_query = query]
<1>6. u \in State
  BY <1>2, <1>4, <1>5 DEF State
<1>7. /\ u.question = t /\ u.search_query = query /\ u.standalone = s.standalone
      /\ u.retry = s.retry + 1 /\ u.messages = s.messages
  BY <1>2, <1>4 DEF State
<1>8. Run(t, "retrieve", u)
  BY <1>3
<1> HIDE DEF u
<1>9. CopyFits(t, "retrieve", u)
  BY <1>4, <1>7 DEF CopyFits
<1>10. turn[t].steps + 1 <= Before("retrieve") + 3 * u.retry
  BY <1>2, <1>5, <1>7, BeforeIs
<1>11. TutorTyped' /\ ThreadInv'
  <2>1. "retrieve" \in Nodes /\ "retrieve" # "replied"
    BY DEF Nodes
  <2> QED
    BY <1>1, <1>2, <1>6, <1>7, <1>8, <1>9, <1>10, <2>1, RunKeeps
<1> QED
  BY <1>11, IndexUntouched DEF Rewrite, TutorInv

(* The hint and the answer wait for the guard.                             *)
LEMMA HintKeeps ==
  ASSUME TutorInv, NEW t \in Turns, Hint(t)
  PROVE  TutorInv'
<1> DEFINE s == turn[t].state
<1>1. turn[t].at = "hint" /\ turn[t].at \in Nodes
  BY DEF Hint, Nodes
<1>2. /\ s \in State /\ turn[t].steps \in Nat /\ CopyFits(t, "hint", s)
      /\ turn[t].steps <= 3 + 3 * s.retry /\ s.retry \in Nat
      /\ Guarded(s.messages) /\ Begun(s.messages, turn)
  BY <1>1, NodeFinds, BeforeIs
<1>t. turn[t].steps + 1 <= 4 + 3 * s.retry
  BY <1>2
<1>3. PICK said \in {"hint", "hint with code", "refusal"} :
        Run(t, "guard", [s EXCEPT !.answer = Text(said), !.citations = {}, !.route = "HINT"])
  BY DEF Hint
<1>4. /\ Text(said) \in Texts /\ Text(said).ids = {} /\ Text(said).kind = said
      /\ "HINT" \in {"none", "ANSWER", "HINT", "NO_EVIDENCE", "OUT_OF_SCOPE"}
      /\ {} \in SUBSET Corpus
  BY DEF Text, Texts, Kinds
<1> DEFINE u == [s EXCEPT !.answer = Text(said), !.citations = {}, !.route = "HINT"]
<1>5. u \in State
  BY <1>2, <1>4 DEF State
<1>6. /\ u.question = s.question /\ u.search_query = s.search_query /\ u.standalone = s.standalone
      /\ u.answer = Text(said) /\ u.citations = {} /\ u.route = "HINT"
      /\ u.retry = s.retry /\ u.messages = s.messages
  BY <1>2 DEF State
<1>7. Run(t, "guard", u)
  BY <1>3
<1> HIDE DEF u
<1>8. CopyFits(t, "guard", u)
  BY <1>2, <1>4, <1>6 DEF CopyFits
<1>9. turn[t].steps + 1 <= Before("guard") + 3 * u.retry
  <2>1. u.retry = s.retry
    BY <1>6
  <2> QED
    BY <1>t, <2>1, BeforeIs
<1>10. TutorTyped' /\ ThreadInv'
  <2>1. "guard" \in Nodes /\ "guard" # "replied"
    BY DEF Nodes
  <2> QED
    BY <1>1, <1>2, <1>5, <1>6, <1>7, <1>8, <1>9, <2>1, RunKeeps
<1> QED
  BY <1>10, IndexUntouched DEF Hint, TutorInv

LEMMA GenerateKeeps ==
  ASSUME TutorInv, NEW t \in Turns, Generate(t)
  PROVE  TutorInv'
<1> DEFINE s == turn[t].state
           answer == [kind |-> "chunks", ids |-> s.chunks]
<1>1. turn[t].at = "generate" /\ turn[t].at \in Nodes
  BY DEF Generate, Nodes
<1>2. /\ s \in State /\ turn[t].steps \in Nat /\ CopyFits(t, "generate", s)
      /\ turn[t].steps <= 3 + 3 * s.retry
      /\ Guarded(s.messages) /\ Begun(s.messages, turn)
  BY <1>1, NodeFinds, BeforeIs
<1>3. /\ s.chunks \in SUBSET Corpus
      /\ "ANSWER" \in {"none", "ANSWER", "HINT", "NO_EVIDENCE", "OUT_OF_SCOPE"}
  BY <1>2 DEF State
<1>4. answer \in Texts
  BY <1>3 DEF Texts, Kinds
<1> DEFINE u == [s EXCEPT !.answer = answer, !.citations = s.chunks, !.route = "ANSWER"]
<1>5. Run(t, "guard", u)
  BY DEF Generate
<1> HIDE DEF answer
<1>6. u \in State
  BY <1>2, <1>3, <1>4 DEF State
<1>7. /\ u.question = s.question /\ u.search_query = s.search_query /\ u.standalone = s.standalone
      /\ u.answer = answer /\ u.citations = s.chunks /\ u.route = "ANSWER"
      /\ u.retry = s.retry /\ u.messages = s.messages /\ u.soughtFor = s.soughtFor
  BY <1>2 DEF State
<1> HIDE DEF u
<1>8. Evidence(t, u)
  BY <1>2, <1>7 DEF CopyFits, Evidence, answer
<1>9. CopyFits(t, "guard", u)
  BY <1>2, <1>7, <1>8 DEF CopyFits
<1>10. turn[t].steps + 1 <= Before("guard") + 3 * u.retry
  <2>1. s.retry \in Nat
    BY <1>2, TutorAssumption DEF State
  <2> QED
    BY <1>2, <1>7, <2>1, BeforeIs
<1>11. TutorTyped' /\ ThreadInv'
  <2>1. "guard" \in Nodes /\ "guard" # "replied"
    BY DEF Nodes
  <2> QED
    BY <1>1, <1>2, <1>5, <1>6, <1>7, <1>9, <1>10, <2>1, RunKeeps
<1> QED
  BY <1>11, IndexUntouched DEF Generate, TutorInv

(* A reply enters the history after its question.                          *)
LEMMA ReplyKeeps ==
  ASSUME TutorInv, NEW t \in Turns, turn[t].at \in Nodes \ {"classify"}, NEW s \in State, NEW answer \in Texts,
         s.question = t, s.messages = turn[t].state.messages,
         answer.kind \in {"chunks", "hint", "refusal", "regret"}, \A id \in answer.ids : Public(id),
         s.route = "ANSWER" => Evidence(t, s),
         Run(t, "replied", Said(s, "ai", answer))
  PROVE  TutorTyped' /\ ThreadInv'
<1> DEFINE more == Append(s.messages, [by |-> "ai", turn |-> t, text |-> answer])
           u == Said(s, "ai", answer)
<1>1. /\ EndsWith(s.messages, t) /\ Guarded(s.messages) /\ Begun(s.messages, turn)
      /\ s.messages \in Seq(Message)
  BY NodeFinds DEF CopyFits, State
<1>2. more \in Seq(Message) /\ Guarded(more)
  BY <1>1, AnswerAdded
<1>3. Begun(more, turn)
  BY SMTT(30), <1>1 DEF Begun, Nodes
<1>4. u = [s EXCEPT !.messages = more]
  BY DEF Said, State
<1> HIDE DEF more, u
<1>5. u \in State
  BY <1>2, <1>4 DEF State
<1>6. /\ u.messages = more /\ u.route = s.route /\ u.question = s.question /\ u.soughtFor = s.soughtFor
      /\ u.answer = s.answer /\ u.citations = s.citations
  BY <1>4 DEF State
<1>7. u.route = "ANSWER" => Evidence(t, u)
  BY <1>6 DEF Evidence
<1> QED
  <2>1. Run(t, "replied", u) /\ "replied" \notin Nodes /\ turn[t].at \in Nodes
    BY DEF u, Nodes
  <2> QED
    BY <1>2, <1>3, <1>5, <1>6, <1>7, <2>1, RunKeeps

LEMMA NoEvidenceKeeps ==
  ASSUME TutorInv, NEW t \in Turns, NoEvidence(t)
  PROVE  TutorInv'
<1> DEFINE s == turn[t].state
<1>1. turn[t].at \in Nodes /\ turn[t].at \in Nodes \ {"classify"}
  BY DEF NoEvidence, Nodes
<1>2. s \in State /\ s.question = t
  BY <1>1, NodeFinds DEF CopyFits
<1>3. PICK route \in {"OUT_OF_SCOPE", "NO_EVIDENCE"} :
        Run(t, "replied", Said([s EXCEPT !.answer = Text("regret"), !.citations = {}, !.route = route],
                               "ai", Text("regret")))
  BY DEF NoEvidence
<1>4. /\ Text("regret") \in Texts /\ Text("regret").ids = {} /\ Text("regret").kind = "regret"
      /\ {} \in SUBSET Corpus
  BY DEF Text, Texts, Kinds
<1> DEFINE u == [s EXCEPT !.answer = Text("regret"), !.citations = {}, !.route = route]
<1>5. u \in State
  BY <1>2, <1>4 DEF State
<1>6. u.question = t /\ u.messages = s.messages /\ u.route # "ANSWER"
  BY <1>2 DEF State
<1>7. Run(t, "replied", Said(u, "ai", Text("regret")))
  BY <1>3
<1> HIDE DEF u
<1>8. TutorTyped' /\ ThreadInv'
  BY <1>1, <1>4, <1>5, <1>6, <1>7, ReplyKeeps
<1> QED
  BY <1>8, IndexUntouched DEF NoEvidence, TutorInv

(* What the guard leaves of an answer: the answer, or a fixed text.        *)
LEMMA GuardKeeps ==
  ASSUME TutorInv, NEW t \in Turns, Guard(t)
  PROVE  TutorInv'
<1> DEFINE s == turn[t].state
<1>1. turn[t].at = "guard" /\ turn[t].at \in Nodes /\ turn[t].at \in Nodes \ {"classify"}
  BY DEF Guard, Nodes
<1>2. /\ s \in State /\ s.question = t
      /\ \/ s.route = "ANSWER" /\ Evidence(t, s)
         \/ /\ s.route = "HINT" /\ s.citations = {} /\ s.answer.ids = {}
            /\ s.answer.kind \in {"hint", "hint with code", "refusal"}
  BY <1>1, NodeFinds DEF CopyFits
<1>3. CASE ~CheckOutput(s)
  <2>1. Run(t, "replied", Said(s, "ai", s.answer))
    BY <1>3 DEF Guard
  <2>2. s.answer \in Texts /\ (s.route = "ANSWER" => Evidence(t, s))
    BY <1>2 DEF State
  <2>3. /\ s.answer.kind \in {"chunks", "hint", "refusal", "regret"}
        /\ \A id \in s.answer.ids : Public(id)
    <3>1. CASE s.route = "ANSWER"
      BY <2>2, <3>1 DEF Evidence
    <3>2. CASE s.route = "HINT"
      BY <1>2, <1>3, <3>2 DEF CheckOutput
    <3> QED
      BY <1>2, <3>1, <3>2
  <2> QED
    BY <1>1, <1>2, <2>1, <2>2, <2>3, ReplyKeeps, IndexUntouched DEF Guard, TutorInv
<1>4. CASE CheckOutput(s)
  <2>1. PICK blocked \in BOOLEAN : blocked = TRUE
    OBVIOUS
  <2> DEFINE blank == [s EXCEPT !.blocked = blocked, !.citations = {}]
  <2>2. blank \in State
    <3>1. {} \in SUBSET Corpus
      OBVIOUS
    <3> QED
      BY <1>2, <3>1 DEF State
  <2>3. blank.question = t /\ blank.messages = s.messages /\ blank.route = s.route
    BY <1>2 DEF State
  <2>4. CASE s.route = "HINT"
    <3> DEFINE safe == [blank EXCEPT !.answer = Text("refusal")]
    <3>1. Run(t, "replied", Said(safe, "ai", safe.answer))
      BY <1>4, <2>1, <2>4 DEF Guard
    <3> HIDE DEF blank
    <3>2. Text("refusal") \in Texts /\ Text("refusal").ids = {} /\ Text("refusal").kind = "refusal"
      BY DEF Text, Texts, Kinds
    <3>3. safe \in State
      BY <2>2, <3>2 DEF State
    <3>4. /\ safe.question = t /\ safe.messages = s.messages /\ safe.route = "HINT"
          /\ safe.answer = Text("refusal")
      BY <2>2, <2>3, <2>4 DEF State
    <3> HIDE DEF safe
    <3>5. TutorTyped' /\ ThreadInv'
      BY <1>1, <3>1, <3>2, <3>3, <3>4, ReplyKeeps
    <3> QED
      BY <3>5, IndexUntouched DEF Guard, TutorInv
  <2>5. CASE s.route # "HINT"
    <3> DEFINE safe == [blank EXCEPT !.answer = Text("regret"), !.route = "NO_EVIDENCE"]
    <3>1. Run(t, "replied", Said(safe, "ai", safe.answer))
      BY <1>4, <2>1, <2>5 DEF Guard
    <3> HIDE DEF blank
    <3>2. Text("regret") \in Texts /\ Text("regret").ids = {} /\ Text("regret").kind = "regret"
      BY DEF Text, Texts, Kinds
    <3>3. safe \in State
      BY <2>2, <3>2 DEF State
    <3>4. /\ safe.question = t /\ safe.messages = s.messages /\ safe.route = "NO_EVIDENCE"
          /\ safe.answer = Text("regret")
      BY <2>2, <2>3 DEF State
    <3> HIDE DEF safe
    <3>5. TutorTyped' /\ ThreadInv'
      BY <1>1, <3>1, <3>2, <3>3, <3>4, ReplyKeeps
    <3> QED
      BY <3>5, IndexUntouched DEF Guard, TutorInv
  <2> QED
    BY <2>4, <2>5
<1> QED
  BY <1>3, <1>4

-----------------------------------------------------------------------------
(* A turn begins, with what the checkpoint holds: its question is not yet  *)
(* in that history, whose turns have all begun.                            *)
LEMMA ChatKeeps ==
  ASSUME TutorInv, NEW t \in Turns, Chat(t)
  PROVE  TutorInv'
<1> DEFINE u == NewTurn(t, checkpoint)
           new == [at |-> "classify", steps |-> 0, state |-> u]
<1>1. turn[t].at = "waiting" /\ turn' = [turn EXCEPT ![t] = new] /\ checkpoint' = u /\ crashes' = crashes
  BY DEF Chat
<1>2. /\ checkpoint \in State /\ checkpoint.messages \in Seq(Message)
      /\ Guarded(checkpoint.messages) /\ Begun(checkpoint.messages, turn)
  BY DEF TutorInv, TutorTyped, ThreadInv, State
<1>3. /\ t \in Asked /\ NoTurn \in Asked /\ {} \in SUBSET Corpus /\ 0 \in 0..MaxRetry
      /\ "none" \in {"none", "low", "high"}
  BY TutorAssumption DEF Asked
<1>4. PICK no \in BOOLEAN : no = FALSE
  OBVIOUS
<1>5. u = [checkpoint EXCEPT !.question = t, !.search_query = NoTurn, !.standalone = NoTurn,
                             !.chunks = {}, !.soughtFor = NoTurn, !.top = "none", !.retry = 0,
                             !.graded_ok = no, !.citations = {}, !.blocked = no]
  BY <1>4 DEF NewTurn
<1> HIDE DEF u
<1>6. u \in State
  BY <1>2, <1>3, <1>5 DEF State
<1>7. /\ u.question = t /\ u.search_query = NoTurn /\ u.standalone = NoTurn
      /\ u.retry = 0 /\ u.messages = checkpoint.messages
  BY <1>2, <1>5 DEF State
<1>8. \A i \in DOMAIN u.messages : u.messages[i].turn # t
  BY <1>1, <1>2, <1>7 DEF Begun
<1>9. new \in Progress /\ new.at = "classify" /\ new.steps = 0 /\ new.state = u
  BY <1>6 DEF Progress, Nodes
<1>10. TurnFits(t, new)
  <2>1. CopyFits(t, "classify", u)
    BY <1>7, <1>8 DEF CopyFits
  <2>2. new.steps <= Before("classify") + 3 * u.retry
    BY <1>7, BeforeIs
  <2> HIDE DEF new
  <2> QED
    BY <1>9, <2>1, <2>2 DEF TurnFits
<1> HIDE DEF new
<1>11. Begun(u.messages, turn')
  <2>1. \A i \in DOMAIN u.messages : u.messages[i].turn \in Turns
    BY <1>2, <1>7, SpokenOf
  <2>2. \A i \in DOMAIN u.messages : turn[u.messages[i].turn].at # "waiting"
    BY <1>2, <1>7 DEF Begun
  <2> QED
    BY <1>1, <1>8, <2>1, <2>2 DEF Begun, TutorInv, TutorTyped
<1>12. Guarded(u.messages)
  BY <1>2, <1>7
<1>13. TutorTyped' /\ ThreadInv'
  BY <1>1, <1>6, <1>9, <1>10, <1>11, <1>12, TurnMoves
<1> QED
  BY <1>13, IndexUntouched DEF Chat, TutorInv

LEMMA EmptyState == Empty \in State /\ Empty.messages = <<>> /\ Empty.route = "none"
<1>1. /\ NoTurn \in Asked /\ {} \in SUBSET Corpus /\ 0 \in 0..MaxRetry /\ <<>> \in Seq(Message)
      /\ NoText \in Texts
  BY TutorAssumption, EmptySeq DEF Asked, NoText, Texts, Kinds
<1>2. PICK no \in BOOLEAN : no = FALSE
  OBVIOUS
<1>3. Empty =
        [question |-> NoTurn, search_query |-> NoTurn, standalone |-> NoTurn,
         chunks |-> {}, soughtFor |-> NoTurn, top |-> "none", graded_ok |-> no, retry |-> 0,
         intent |-> "none", route |-> "none", answer |-> NoText, citations |-> {}, blocked |-> no,
         messages |-> <<>>]
  BY <1>2 DEF Empty
<1> QED
  BY <1>1, <1>3 DEF State

(* A turn is answered without the graph, or fails.                         *)
LEMMA TurnEndsKeeps ==
  ASSUME TutorInv, NEW t \in Turns, Unprepared(t) \/ Fail(t)
  PROVE  TutorInv'
<1>1. PICK new \in Progress :
        /\ turn' = [turn EXCEPT ![t] = new]
        /\ new.at \in {"unprepared", "failed"} /\ new.state \in {turn[t].state, Empty}
  <2>1. CASE Unprepared(t)
    <3> DEFINE new == [turn[t] EXCEPT !.at = "unprepared"]
    <3>1. turn[t] \in Progress
      BY DEF TutorInv, TutorTyped
    <3>2. new \in Progress /\ new.at = "unprepared" /\ new.state = turn[t].state
      BY <3>1 DEF Progress, Ended
    <3>3. turn' = [turn EXCEPT ![t] = new]
      BY <2>1 DEF Unprepared
    <3> QED
      BY <3>2, <3>3
  <2>2. CASE Fail(t)
    <3>1. Failed \in Progress /\ Failed.at = "failed" /\ Failed.state = Empty
      BY EmptyState DEF Failed, Progress, Ended
    <3>2. turn' = [turn EXCEPT ![t] = Failed]
      BY <2>2 DEF Fail
    <3> QED
      BY <3>1, <3>2
  <2> QED
    BY <2>1, <2>2
<1>2. checkpoint' = checkpoint /\ crashes' = crashes /\ UNCHANGED indexVars
  BY DEF Unprepared, Fail
<1>3. TurnFits(t, new)
  BY <1>1 DEF TurnFits, Nodes
<1>4. ASSUME NEW told \in Seq(Message), Begun(told, turn) PROVE Begun(told, turn')
  <2>1. \A i \in DOMAIN told : told[i].turn \in Turns
    BY SpokenOf
  <2> QED
    BY <1>1, <1>4, <2>1 DEF Begun, TutorInv, TutorTyped
<1>5. /\ Guarded(new.state.messages) /\ Begun(new.state.messages, turn')
      /\ Guarded(checkpoint'.messages) /\ Begun(checkpoint'.messages, turn')
  <2>1. /\ turn[t].state.messages \in Seq(Message) /\ checkpoint.messages \in Seq(Message)
        /\ Guarded(turn[t].state.messages) /\ Begun(turn[t].state.messages, turn)
        /\ Guarded(checkpoint.messages) /\ Begun(checkpoint.messages, turn)
    BY DEF TutorInv, TutorTyped, ThreadInv, Progress, State
  <2>2. Guarded(Empty.messages) /\ Begun(Empty.messages, turn')
    BY EmptyState, EmptyHistory
  <2>3. Begun(turn[t].state.messages, turn') /\ Begun(checkpoint.messages, turn')
    BY <1>4, <2>1
  <2> QED
    BY <1>1, <1>2, <2>1, <2>2, <2>3
<1>6. checkpoint' \in State
  BY <1>2 DEF TutorInv, TutorTyped
<1>7. TutorTyped' /\ ThreadInv'
  BY <1>1, <1>2, <1>3, <1>5, <1>6, TurnMoves
<1> QED
  BY <1>2, <1>7, IndexUntouched DEF TutorInv

(* The server dies with the turns it was running; what they have saved     *)
(* stays.                                                                  *)
LEMMA CrashKeeps == ASSUME TutorInv, Crash PROVE TutorInv'
<1>1. /\ \A t \in Turns : turn'[t] = IF turn[t].at \in Nodes THEN Failed ELSE turn[t]
      /\ turn' = [t \in Turns |-> IF turn[t].at \in Nodes THEN Failed ELSE turn[t]]
      /\ UNCHANGED checkpoint
  BY DEF Crash
<1>2. Failed \in Progress /\ Failed.at = "failed" /\ Failed.state = Empty
  BY EmptyState DEF Failed, Progress, Ended
<1>3. TutorTyped'
  BY <1>1, <1>2 DEF Crash, TutorInv, TutorTyped
<1>4. \A t \in Turns : turn[t].at # "waiting" => turn'[t].at # "waiting"
  BY <1>1, <1>2
<1>5. ASSUME NEW told \in Seq(Message), Begun(told, turn) PROVE Begun(told, turn')
  <2>1. \A i \in DOMAIN told : told[i].turn \in Turns
    BY SpokenOf
  <2> QED
    BY <1>4, <1>5, <2>1 DEF Begun
<1>6. ASSUME NEW t \in Turns
      PROVE  /\ TurnFits(t, turn'[t])
             /\ Guarded(turn'[t].state.messages) /\ Begun(turn'[t].state.messages, turn')
  <2>1. CASE turn[t].at \in Nodes
    <3>1. turn'[t] = Failed
      BY <1>1, <2>1
    <3> QED
      BY <1>2, <3>1, EmptyState, EmptyHistory DEF TurnFits, Nodes
  <2>2. CASE turn[t].at \notin Nodes
    <3>1. turn'[t] = turn[t]
      BY <1>1, <2>2
    <3>2. /\ TurnFits(t, turn[t]) /\ turn[t].state.messages \in Seq(Message)
          /\ Guarded(turn[t].state.messages) /\ Begun(turn[t].state.messages, turn)
      BY DEF TutorInv, TutorTyped, ThreadInv, Progress, State
    <3> QED
      BY <1>5, <3>1, <3>2
  <2> QED
    BY <2>1, <2>2
<1>7. Guarded(checkpoint'.messages) /\ Begun(checkpoint'.messages, turn')
  <2>1. /\ checkpoint.messages \in Seq(Message)
        /\ Guarded(checkpoint.messages) /\ Begun(checkpoint.messages, turn)
    BY DEF TutorInv, TutorTyped, ThreadInv, State
  <2> QED
    BY <1>1, <1>5, <2>1
<1>8. ThreadInv'
  BY <1>6, <1>7 DEF ThreadInv
<1>9. IndexInv'
  BY IndexServed DEF Crash, TutorInv
<1> QED
  BY <1>3, <1>8, <1>9 DEF TutorInv

-----------------------------------------------------------------------------
(* The blocks a document is cut into.                                      *)

(* What parse_blocks holds: blocks, the path, the lines of the open block. *)
Blocks == [kind : {"code", "prose"}, path : Seq(Nat), lines : Seq(Nat), len : Nat]
Parsings ==
  {p \in [blocks : Seq(Blocks), path : Seq(Nat), lines : Seq(Nat), len : Nat, fence : 0..2] :
     p.lines # <<>> => p.len > 1}

(* A code block: it begins with a fence and misses no line.                *)
Fenced(doc, lines) ==
  /\ lines # <<>> /\ doc[lines[1]].is = "fence"
  /\ \A m \in 1..Len(lines) : lines[m] = lines[1] + m - 1

(* A path goes down level by level.                                        *)
Descends(doc, path) ==
  \A i \in 1..Len(path) :
    /\ path[i] \in 1..Len(doc) /\ doc[path[i]].level \in 1..MaxLevel
    /\ \A j \in 1..Len(path) : i < j => doc[path[i]].level < doc[path[j]].level

BlockFits(doc, block) ==
  /\ block \in Blocks /\ block.len > 0 /\ Len(block.path) <= MaxLevel
  /\ block.kind = "code" => Fenced(doc, block.lines)

LinesOf(blocks) == [k \in DOMAIN blocks |-> blocks[k].lines]

(* The lines taken up so far, in blocks or not yet.                        *)
TakenUp(p) == FlattenSeq(LinesOf(p.blocks)) \o p.lines

(* Of the first n lines of doc, s has every one but headings, in order.    *)
Complete(doc, s, n) ==
  /\ \A m \in 1..Len(s) : s[m] \in 1..n
  /\ \A m \in 2..Len(s) : s[m - 1] < s[m]
  /\ \A i \in 1..n : doc[i].is = "heading" \/ \E m \in 1..Len(s) : s[m] = i

(* One more line is taken up, or it is a heading.                          *)
LEMMA CompleteGrows ==
  ASSUME NEW doc, NEW s \in Seq(Nat), NEW n \in Nat, Complete(doc, s, n)
  PROVE  /\ Complete(doc, Append(s, n + 1), n + 1)
         /\ doc[n + 1].is = "heading" => Complete(doc, s, n + 1)
<1> DEFINE m == n + 1  t == Append(s, m)  N == Len(s)
<1>1. /\ N \in Nat /\ t \in Seq(Nat) /\ Len(t) = N + 1 /\ t[N + 1] = m
      /\ \A i \in 1..N : t[i] = s[i]
  OBVIOUS
<1>2. /\ \A i \in 1..N : s[i] \in 1..n
      /\ \A i \in 2..N : s[i - 1] < s[i]
      /\ \A i \in 1..n : doc[i].is = "heading" \/ \E j \in 1..N : s[j] = i
  BY DEF Complete
<1>3. m \in Nat /\ n < m /\ \A i \in 1..m : i \in 1..n \/ i = m
  OBVIOUS
<1>3a. 1..n \subseteq 1..m /\ m \in 1..m
  OBVIOUS
<1> HIDE DEF t, m, N
<1>4. ASSUME NEW i \in 1..(N + 1) PROVE t[i] \in 1..m
  <2>1. i \in 1..N \/ i = N + 1
    BY <1>1
  <2>2. CASE i \in 1..N
    BY <1>1, <1>2, <1>3a, <2>2
  <2>3. CASE i = N + 1
    BY <1>1, <1>3a, <2>3
  <2> QED
    BY <2>1, <2>2, <2>3
<1>5. ASSUME NEW i \in 2..(N + 1) PROVE t[i - 1] < t[i]
  <2>1. i - 1 \in 1..N /\ (i \in 2..N \/ i = N + 1)
    BY <1>1
  <2>2. CASE i \in 2..N
    <3>1. i \in 1..N /\ t[i] = s[i] /\ t[i - 1] = s[i - 1]
      BY <1>1, <2>1, <2>2
    <3> QED
      BY <1>2, <2>2, <3>1
  <2>3. CASE i = N + 1
    <3>1. t[i] = m /\ t[i - 1] = s[i - 1] /\ s[i - 1] \in 1..n
      BY <1>1, <1>2, <2>1, <2>3
    <3> QED
      BY <1>3, <3>1
  <2> QED
    BY <2>1, <2>2, <2>3
<1>6. ASSUME NEW i \in 1..m PROVE doc[i].is = "heading" \/ \E j \in 1..(N + 1) : t[j] = i
  <2>1. CASE i \in 1..n
    <3>1. ASSUME NEW j \in 1..N, s[j] = i PROVE j \in 1..(N + 1) /\ t[j] = i
      BY <1>1, <3>1
    <3> QED
      BY <1>2, <2>1, <3>1
  <2>2. CASE i = m
    <3>1. N + 1 \in 1..(N + 1)
      BY <1>1
    <3> QED
      BY <1>1, <2>2, <3>1
  <2> QED
    BY <1>3, <2>1, <2>2
<1>7. Complete(doc, t, m)
  BY <1>1, <1>4, <1>5, <1>6 DEF Complete
<1>8. ASSUME doc[m].is = "heading" PROVE Complete(doc, s, m)
  BY <1>2, <1>3, <1>3a, <1>8 DEF Complete, N
<1> QED
  BY <1>7, <1>8 DEF t, m

(* The headings above a line of a level are a path that ends above it.     *)
LEMMA AboveDescends ==
  ASSUME NEW doc \in Seq(DocLine), NEW path \in Seq(Nat), Descends(doc, path), NEW level \in Nat
  PROVE  LET above == Without(path, {h \in DOMAIN doc : doc[h].level >= level})
         IN  /\ above \in Seq(Nat) /\ Descends(doc, above)
             /\ \A i \in 1..Len(above) : doc[above[i]].level < level
<1> DEFINE S == {h \in DOMAIN doc : doc[h].level >= level}  N == Len(path)  above == Without(path, S)
<1>1. PICK f \in [0..N -> Seq(Nat)] : above = f[N] /\ Leaving(f, path, S)
  BY WithoutLoop
<1>2. N \in Nat /\ DOMAIN doc = 1..Len(doc) /\ \A h \in DOMAIN doc : doc[h].level \in Nat
  <2>1. \A l \in DocLine : l.level \in Nat
    BY DEF DocLine, MaxLevel
  <2>2. DOMAIN doc = 1..Len(doc) /\ \A h \in DOMAIN doc : doc[h] \in DocLine
    OBVIOUS
  <2> QED
    BY <2>1, <2>2
<1> DEFINE Of(n, q) == \A i \in 1..Len(q) : q[i] \notin S /\ \E k \in 1..n : q[i] = path[k]
           I == {n \in 0..N : Of(n, f[n]) /\ Descends(doc, f[n])}
<1>3. f[0] = <<>> /\ \A n \in 1..N : f[n] = IF path[n] \in S THEN f[n - 1] ELSE Append(f[n - 1], path[n])
  BY <1>1 DEF Leaving
<1> HIDE DEF S
<1>4. 0 \in I
  BY <1>2, <1>3 DEF Descends
<1>5. ASSUME NEW n \in 0..(N - 1), n \in I PROVE n + 1 \in I
  <2> DEFINE m == n + 1  q == f[n]  r == f[m]  e == path[m]  K == Len(q)
  <2>1. n \in 0..N /\ m \in 1..N /\ m \in 0..N /\ m - 1 = n /\ n \in Nat
    BY <1>2
  <2>2. q \in Seq(Nat) /\ r \in Seq(Nat) /\ K \in Nat /\ e \in Nat
    <3>1. m \in 1..Len(path)
      BY <2>1
    <3> HIDE DEF m, N
    <3> QED
      BY SMTT(30), <2>1, <3>1
  <2>3. r = IF e \in S THEN q ELSE Append(q, e)
    BY <1>3, <2>1
  <2>4. Of(n, q) /\ Descends(doc, q)
    BY <1>5
  <2>5. 1..n \subseteq 1..m /\ m \in 1..m
    BY <2>1
  <2>5a. e \in 1..Len(doc) /\ doc[e].level \in 1..MaxLevel
    BY <2>1 DEF Descends
  <2> HIDE DEF q, r
  <2>6. CASE e \in S
    <3>1. r = q
      BY <2>3, <2>6
    <3>2. Of(m, r)
      BY <2>4, <2>5, <3>1
    <3> QED
      BY <2>1, <2>4, <3>1, <3>2 DEF r, q
  <2>7. CASE e \notin S
    <3>1. r = Append(q, e)
      BY <2>3, <2>7
    <3>2. Len(r) = K + 1 /\ r[K + 1] = e /\ \A i \in 1..K : r[i] = q[i]
      BY <2>2, <3>1
    <3>3. \A i \in 1..(K + 1) : i \in 1..K \/ i = K + 1
      BY <2>2
    <3> HIDE DEF K
    <3>4. Of(m, r)
      <4>1. ASSUME NEW i \in 1..K PROVE r[i] \notin S /\ \E k \in 1..m : r[i] = path[k]
        <5>1. i \in 1..Len(q)
          BY DEF K
        <5>2. PICK k \in 1..n : q[i] = path[k]
          BY <2>4, <5>1
        <5> QED
          BY <2>4, <2>5, <3>2, <5>1, <5>2
      <4>2. r[K + 1] \notin S /\ \E k \in 1..m : r[K + 1] = path[k]
        BY <2>5, <2>7, <3>2
      <4> QED
        BY <3>2, <3>3, <4>1, <4>2
    <3>5. ASSUME NEW i \in 1..K PROVE doc[q[i]].level < doc[e].level
      <4>1. i \in 1..Len(q)
        BY DEF K
      <4>2. PICK k \in 1..n : q[i] = path[k]
        BY <2>4, <4>1
      <4>3. k \in 1..Len(path) /\ m \in 1..Len(path) /\ k < m
        BY <1>2, <2>1
      <4> QED
        BY <4>2, <4>3 DEF Descends
    <3>6. Descends(doc, r)
      <4>1. \A i \in 1..K : q[i] \in 1..Len(doc) /\ doc[q[i]].level \in 1..MaxLevel
              /\ \A j \in 1..K : i < j => doc[q[i]].level < doc[q[j]].level
        BY <2>4 DEF Descends, K
      <4>2. ASSUME NEW i \in 1..(K + 1)
            PROVE  /\ r[i] \in 1..Len(doc) /\ doc[r[i]].level \in 1..MaxLevel
                   /\ \A j \in 1..(K + 1) : i < j => doc[r[i]].level < doc[r[j]].level
        <5>1. CASE i \in 1..K
          <6>1. \A j \in 1..(K + 1) : i < j => doc[r[i]].level < doc[r[j]].level
            BY <3>2, <3>3, <3>5, <4>1, <5>1
          <6> QED
            BY <3>2, <4>1, <5>1, <6>1
        <5>2. CASE i = K + 1
          <6>1. \A j \in 1..(K + 1) : ~(i < j)
            BY <2>2, <5>2 DEF K
          <6> QED
            BY <2>5a, <3>2, <5>2, <6>1
        <5> QED
          BY <3>3, <5>1, <5>2
      <4> QED
        BY <3>2, <4>2 DEF Descends
    <3> QED
      BY <2>1, <3>4, <3>6 DEF r
  <2> QED
    BY <2>6, <2>7
<1>6. N \in I
  <2>1. N \in 0..N
    BY <1>2
  <2> HIDE DEF I
  <2> QED
    BY <1>2, <1>4, <1>5, <2>1, Climb
<1>7. above \in Seq(Nat) /\ Descends(doc, above) /\ Of(N, above)
  <2>1. N \in 0..N
    BY <1>2
  <2> QED
    BY <1>1, <1>6, <2>1
<1>8. ASSUME NEW i \in 1..Len(above) PROVE doc[above[i]].level < level
  <2> HIDE DEF above
  <2>1. above[i] \notin S /\ above[i] \in 1..Len(doc)
    BY <1>7 DEF Descends
  <2> QED
    BY <1>2, <2>1 DEF S
<1> QED
  BY <1>7, <1>8 DEF S

(* One more heading below all of a path.                                   *)
LEMMA PathGrows ==
  ASSUME NEW doc, NEW path \in Seq(Nat), Descends(doc, path), NEW n \in 1..Len(doc), Len(doc) \in Nat,
         doc[n].level \in 1..MaxLevel, \A i \in 1..Len(path) : doc[path[i]].level < doc[n].level
  PROVE  Append(path, n) \in Seq(Nat) /\ Descends(doc, Append(path, n))
<1> DEFINE r == Append(path, n)  K == Len(path)
<1>1. /\ K \in Nat /\ r \in Seq(Nat) /\ Len(r) = K + 1 /\ r[K + 1] = n
      /\ \A i \in 1..K : r[i] = path[i]
  OBVIOUS
<1>2. /\ \A i \in 1..K : path[i] \in 1..Len(doc) /\ doc[path[i]].level \in 1..MaxLevel
          /\ \A j \in 1..K : i < j => doc[path[i]].level < doc[path[j]].level
      /\ \A i \in 1..K : doc[path[i]].level < doc[n].level
  BY DEF Descends
<1> HIDE DEF r, K
<1>3. \A i \in 1..(K + 1) : i \in 1..K \/ i = K + 1
  BY <1>1
<1>4. ASSUME NEW i \in 1..(K + 1)
      PROVE  /\ r[i] \in 1..Len(doc) /\ doc[r[i]].level \in 1..MaxLevel
             /\ \A j \in 1..(K + 1) : i < j => doc[r[i]].level < doc[r[j]].level
  <2>1. CASE i \in 1..K
    <3>1. \A j \in 1..(K + 1) : i < j => doc[r[i]].level < doc[r[j]].level
      BY <1>1, <1>2, <1>3, <2>1
    <3> QED
      BY <1>1, <1>2, <2>1, <3>1
  <2>2. CASE i = K + 1
    <3>1. \A j \in 1..(K + 1) : ~(i < j)
      BY <1>1, <2>2
    <3> QED
      BY <1>1, <2>2, <3>1
  <2> QED
    BY <1>3, <2>1, <2>2
<1> QED
  BY <1>1, <1>4 DEF Descends, r

(* A path is no longer than there are levels.                              *)
LEMMA PathIsShort ==
  ASSUME NEW doc, NEW path \in Seq(Nat), Descends(doc, path)
  PROVE  Len(path) <= MaxLevel
<1> DEFINE K == Len(path)  level == [i \in 1..K |-> doc[path[i]].level]
           I == {i \in 0..K : i = 0 \/ i <= level[i]}
<1>1. K \in Nat /\ \A i \in 1..K : level[i] \in 1..MaxLevel
  BY DEF Descends
<1>2. \A i, j \in 1..K : i < j => level[i] < level[j]
  BY DEF Descends
<1> HIDE DEF level, K
<1>3. 0 \in I
  BY <1>1
<1>4. ASSUME NEW i \in 0..(K - 1), i \in I PROVE i + 1 \in I
  <2>1. i + 1 \in 1..K /\ i + 1 \in 0..K /\ level[i + 1] \in 1..MaxLevel
    BY <1>1
  <2>2. CASE i = 0
    BY <2>1, <2>2 DEF MaxLevel
  <2>3. CASE i # 0
    <3>1. i \in 1..K /\ i < i + 1 /\ i <= level[i] /\ level[i] \in 1..MaxLevel
      BY <1>1, <1>4, <2>3
    <3>2. level[i] < level[i + 1]
      BY <1>2, <2>1, <3>1
    <3> QED
      BY <2>1, <3>1, <3>2 DEF MaxLevel
  <2> QED
    BY <2>2, <2>3
<1>5. K \in I
  <2>1. K \in 0..K
    BY <1>1
  <2> HIDE DEF I
  <2> QED
    BY <1>1, <1>3, <1>4, <2>1, Climb
<1>6. K <= MaxLevel
  <2>1. CASE K = 0
    BY <2>1 DEF MaxLevel
  <2>2. CASE K # 0
    <3>1. K \in 1..K /\ K <= level[K] /\ level[K] \in 1..MaxLevel
      BY <1>1, <1>5, <2>2
    <3> QED
      BY <1>1, <3>1 DEF MaxLevel
  <2> QED
    BY <2>1, <2>2
<1> QED
  BY <1>6 DEF K

(* The lines of some blocks.                                               *)
LEMMA LinesTaken ==
  ASSUME NEW blocks \in Seq(Blocks)
  PROVE  /\ LinesOf(blocks) \in Seq(Seq(Nat)) /\ Len(LinesOf(blocks)) = Len(blocks)
         /\ \A i \in 1..Len(blocks) : LinesOf(blocks)[i] = blocks[i].lines
         /\ FlattenSeq(LinesOf(blocks)) \in Seq(Nat)
<1> DEFINE N == Len(blocks)
<1>1. N \in Nat /\ DOMAIN blocks = 1..N /\ \A i \in 1..N : blocks[i] \in Blocks
  OBVIOUS
<1>2. \A b \in Blocks : b.lines \in Seq(Nat)
  BY DEF Blocks
<1> HIDE DEF N
<1>3. /\ LinesOf(blocks) \in Seq(Seq(Nat)) /\ Len(LinesOf(blocks)) = N
      /\ \A i \in 1..N : LinesOf(blocks)[i] = blocks[i].lines
  BY <1>1, <1>2 DEF LinesOf
<1>4. FlattenSeq(LinesOf(blocks)) \in Seq(Nat)
  BY <1>3, FlattenFacts
<1> QED
  BY <1>3, <1>4 DEF N

(* One more block.                                                         *)
LEMMA LinesAppended ==
  ASSUME NEW blocks \in Seq(Blocks), NEW block \in Blocks
  PROVE  FlattenSeq(LinesOf(Append(blocks, block))) = FlattenSeq(LinesOf(blocks)) \o block.lines
<1> DEFINE N == Len(blocks)  more == Append(blocks, block)
<1>1. /\ N \in Nat /\ DOMAIN blocks = 1..N /\ more \in Seq(Blocks) /\ DOMAIN more = 1..(N + 1)
      /\ more[N + 1] = block /\ \A i \in 1..N : more[i] = blocks[i] /\ blocks[i] \in Blocks
  OBVIOUS
<1>2. block.lines \in Seq(Nat) /\ \A b \in Blocks : b.lines \in Seq(Nat)
  BY DEF Blocks
<1> HIDE DEF N, more
<1>3. LinesOf(blocks) \in Seq(Seq(Nat)) /\ Len(LinesOf(blocks)) = N
      /\ \A i \in 1..N : LinesOf(blocks)[i] = blocks[i].lines
  BY LinesTaken DEF N
<1>4. LinesOf(more) = Append(LinesOf(blocks), block.lines)
  <2> DEFINE a == LinesOf(more)  b == Append(LinesOf(blocks), block.lines)
  <2>1. DOMAIN a = 1..(N + 1) /\ a = [k \in 1..(N + 1) |-> more[k].lines]
    BY <1>1 DEF LinesOf
  <2>2. b \in Seq(Seq(Nat)) /\ Len(b) = N + 1 /\ b[N + 1] = block.lines
        /\ \A i \in 1..N : b[i] = LinesOf(blocks)[i]
    BY <1>1, <1>2, <1>3
  <2> HIDE DEF a, b
  <2>3. ASSUME NEW i \in 1..(N + 1) PROVE a[i] = b[i]
    <3>1. i \in 1..N \/ i = N + 1
      BY <1>1
    <3> QED
      BY <1>1, <1>3, <2>1, <2>2, <3>1
  <2>4. b = [k \in 1..(N + 1) |-> b[k]]
    BY <2>2
  <2> QED
    BY <2>1, <2>3, <2>4 DEF a, b
<1>5. FlattenSeq(Append(LinesOf(blocks), block.lines)) = FlattenSeq(LinesOf(blocks)) \o block.lines
  BY <1>2, <1>3, FlattenAppend
<1> QED
  BY <1>4, <1>5 DEF more

(* What holds after n lines, fence apart.                                  *)
Parsing(doc, p, n) ==
  /\ p \in Parsings
  /\ \A k \in 1..Len(p.blocks) : BlockFits(doc, p.blocks[k])
  /\ Complete(doc, TakenUp(p), n)
  /\ Descends(doc, p.path)

(* Inside a code fence the open block is all that came since the fence.    *)
InFence(doc, p, n) == p.fence # 0 => Fenced(doc, p.lines) /\ p.lines[Len(p.lines)] = n

(* The titles of a path are as many as its headings.                       *)
LEMMA TitlesOfPath ==
  ASSUME NEW doc \in Seq(DocLine), NEW path \in Seq(Nat), Descends(doc, path)
  PROVE  /\ [h \in DOMAIN path |-> doc[path[h]].title] \in Seq(Nat)
         /\ Len([h \in DOMAIN path |-> doc[path[h]].title]) = Len(path)
<1> DEFINE N == Len(path)  title(h) == doc[path[h]].title
<1>1. N \in Nat /\ DOMAIN path = 1..N
  OBVIOUS
<1>2. \A line \in DocLine : line.title \in Nat
  BY DEF DocLine
<1>3. ASSUME NEW h \in 1..N PROVE title(h) \in Nat
  <2>1. path[h] \in 1..Len(doc)
    BY DEF Descends
  <2>2. doc[path[h]] \in DocLine
    BY <2>1
  <2> QED
    BY <1>2, <2>2
<1> HIDE DEF N, title
<1>4. [h \in 1..N |-> title(h)] \in Seq(Nat) /\ Len([h \in 1..N |-> title(h)]) = N
  BY <1>1, <1>3
<1> QED
  BY <1>1, <1>4 DEF N, title

(* A block stored takes nothing away.                                      *)
LEMMA FlushKeeps ==
  ASSUME NEW doc \in Seq(DocLine), NEW p, NEW n, Parsing(doc, p, n), NEW kind \in {"code", "prose"},
         kind = "code" => Fenced(doc, p.lines)
  PROVE  /\ Parsing(doc, Flush(p, doc, kind), n) /\ Flush(p, doc, kind).lines = <<>>
         /\ Flush(p, doc, kind).path = p.path /\ Flush(p, doc, kind).fence = p.fence
         /\ FlattenSeq(LinesOf(Flush(p, doc, kind).blocks)) = TakenUp(p)
<1> DEFINE q == Flush(p, doc, kind)
<1>1. /\ p \in Parsings /\ p.blocks \in Seq(Blocks) /\ p.path \in Seq(Nat) /\ p.lines \in Seq(Nat)
      /\ p.len \in Nat /\ Len(p.blocks) \in Nat /\ (p.lines # <<>> => p.len > 1)
  BY DEF Parsing, Parsings
<1>2. LinesOf(p.blocks) \in Seq(Seq(Nat)) /\ FlattenSeq(LinesOf(p.blocks)) \in Seq(Nat)
  BY <1>1, LinesTaken
<1>3. CASE p.lines = <<>>
  <2>1. q = p
    BY <1>3 DEF Flush
  <2>2. TakenUp(p) = FlattenSeq(LinesOf(p.blocks))
    BY <1>2, <1>3 DEF TakenUp
  <2> QED
    BY <1>3, <2>1, <2>2
<1>4. CASE p.lines # <<>>
  <2> DEFINE titles == [h \in DOMAIN p.path |-> doc[p.path[h]].title]
             b == [kind |-> kind, lines |-> p.lines, len |-> p.len - 1, path |-> titles]
             all == Append(p.blocks, b)
  <2>0. titles \in Seq(Nat) /\ Len(titles) = Len(p.path)
    BY <1>1, TitlesOfPath DEF Parsing
  <2>1. q = [p EXCEPT !.blocks = all, !.lines = <<>>, !.len = 0]
    BY <1>4 DEF Flush
  <2> HIDE DEF titles
  <2>2. b \in Blocks /\ b.lines = p.lines /\ b.len > 0 /\ b.path = titles /\ b.kind = kind
    BY <1>1, <1>4, <2>0 DEF Blocks
  <2> HIDE DEF b
  <2>3. BlockFits(doc, b)
    <3>1. Len(titles) <= MaxLevel
      BY <1>1, <2>0, PathIsShort DEF Parsing
    <3> QED
      BY <2>2, <3>1 DEF BlockFits
  <2>4. /\ all \in Seq(Blocks) /\ Len(all) = Len(p.blocks) + 1 /\ all[Len(p.blocks) + 1] = b
        /\ \A k \in 1..Len(p.blocks) : all[k] = p.blocks[k]
    BY <1>1, <2>2
  <2>5. FlattenSeq(LinesOf(all)) = TakenUp(p)
    BY <1>1, <2>2, LinesAppended DEF TakenUp
  <2> HIDE DEF all, q
  <2>6. /\ q \in Parsings /\ q.blocks = all /\ q.lines = <<>> /\ q.path = p.path /\ q.fence = p.fence
    <3>1. <<>> \in Seq(Nat) /\ 0 \in Nat
      OBVIOUS
    <3>2. p \in [blocks : Seq(Blocks), path : Seq(Nat), lines : Seq(Nat), len : Nat, fence : 0..2]
      BY <1>1 DEF Parsings
    <3>3. /\ q \in [blocks : Seq(Blocks), path : Seq(Nat), lines : Seq(Nat), len : Nat, fence : 0..2]
          /\ q.blocks = all /\ q.lines = <<>> /\ q.path = p.path /\ q.fence = p.fence
      BY <2>1, <2>4, <3>1, <3>2
    <3> QED
      BY <3>3 DEF Parsings
  <2>7. \A k \in 1..Len(q.blocks) : BlockFits(doc, q.blocks[k])
    <3>1. \A k \in 1..(Len(p.blocks) + 1) : k \in 1..Len(p.blocks) \/ k = Len(p.blocks) + 1
      BY <1>1
    <3>2. \A k \in 1..Len(p.blocks) : BlockFits(doc, p.blocks[k])
      BY DEF Parsing
    <3> QED
      BY <2>3, <2>4, <2>6, <3>1, <3>2
  <2>8. TakenUp(q) = TakenUp(p)
    <3>1. TakenUp(p) \in Seq(Nat)
      BY <1>1, <1>2, ConcatProperties DEF TakenUp
    <3>2. TakenUp(q) = TakenUp(p) \o <<>>
      BY <2>5, <2>6 DEF TakenUp
    <3> QED
      BY <3>1, <3>2
  <2>9. Complete(doc, TakenUp(q), n) /\ Descends(doc, q.path)
    BY <2>6, <2>8 DEF Parsing
  <2>10. Parsing(doc, q, n)
    BY <2>6, <2>7, <2>9 DEF Parsing
  <2> QED
    BY <2>5, <2>6, <2>10 DEF q
<1> QED
  BY <1>3, <1>4

(* A line is taken up.                                                     *)
LEMMA KeepTakes ==
  ASSUME NEW doc \in Seq(DocLine), NEW p, NEW n \in 0..(Len(doc) - 1), Parsing(doc, p, n)
  PROVE  /\ Parsing(doc, Keep(p, doc, n + 1), n + 1)
         /\ Keep(p, doc, n + 1).lines = Append(p.lines, n + 1)
         /\ Keep(p, doc, n + 1).fence = p.fence
<1> DEFINE m == n + 1  q == Keep(p, doc, m)  lines == Append(p.lines, m)  len == p.len + doc[m].len + 1
<1>1. /\ p \in Parsings /\ p.blocks \in Seq(Blocks) /\ p.path \in Seq(Nat) /\ p.lines \in Seq(Nat)
      /\ p.len \in Nat /\ (p.lines # <<>> => p.len > 1)
  BY DEF Parsing, Parsings
<1>2. m \in 1..Len(doc) /\ m \in Nat /\ n \in Nat /\ doc[m].len \in Nat \ {0}
  <2>1. m \in 1..Len(doc)
    OBVIOUS
  <2>2. doc[m] \in DocLine
    BY <2>1
  <2> QED
    BY <2>1, <2>2 DEF DocLine
<1>3. q = [p EXCEPT !.lines = lines, !.len = len]
  BY DEF Keep
<1>4. lines \in Seq(Nat) /\ len \in Nat /\ len > 1
  BY SMTT(30), <1>1, <1>2
<1>5. FlattenSeq(LinesOf(p.blocks)) \in Seq(Nat)
  BY <1>1, LinesTaken
<1>6. FlattenSeq(LinesOf(p.blocks)) \o lines = Append(TakenUp(p), m) /\ TakenUp(p) \in Seq(Nat)
  <2> DEFINE a == FlattenSeq(LinesOf(p.blocks))  b == p.lines
  <2>1. a \in Seq(Nat) /\ b \in Seq(Nat) /\ <<m>> \in Seq(Nat) /\ a \o b \in Seq(Nat)
    BY <1>1, <1>2, <1>5, OneItem, ConcatProperties
  <2> HIDE DEF a, b, m
  <2>2. Regroups(Nat)
    BY Regrouped
  <2>3. (a \o b) \o <<m>> = a \o (b \o <<m>>)
    BY <2>1, <2>2 DEF Regroups
  <2>4. Append(b, m) = b \o <<m>> /\ Append(a \o b, m) = (a \o b) \o <<m>>
    BY <1>2, <2>1, AppendIsConcat
  <2> QED
    BY <2>1, <2>3, <2>4 DEF TakenUp, a, b
<1> HIDE DEF lines, len, q
<1>7. /\ q \in Parsings /\ q.blocks = p.blocks /\ q.lines = lines /\ q.path = p.path /\ q.fence = p.fence
  BY <1>1, <1>3, <1>4 DEF Parsings
<1>8. TakenUp(q) = Append(TakenUp(p), m)
  BY <1>6, <1>7 DEF TakenUp
<1>9. Complete(doc, Append(TakenUp(p), m), m)
  BY <1>2, <1>6, CompleteGrows DEF Parsing
<1>10. /\ \A k \in 1..Len(q.blocks) : BlockFits(doc, q.blocks[k])
       /\ Descends(doc, q.path)
  BY <1>7 DEF Parsing
<1>11. Parsing(doc, q, m)
  BY <1>7, <1>8, <1>9, <1>10 DEF Parsing
<1> QED
  BY <1>7, <1>11 DEF q, lines

(* A heading is taken up in the path alone.                                *)
LEMMA HeadingPassed ==
  ASSUME NEW doc \in Seq(DocLine), NEW p, NEW n \in 0..(Len(doc) - 1), Parsing(doc, p, n),
         doc[n + 1].is = "heading", NEW path \in Seq(Nat), Descends(doc, path)
  PROVE  /\ Parsing(doc, [p EXCEPT !.path = path], n + 1)
         /\ [p EXCEPT !.path = path].fence = p.fence
<1> DEFINE m == n + 1  q == [p EXCEPT !.path = path]
<1>1. p \in Parsings /\ p.blocks \in Seq(Blocks) /\ p.lines \in Seq(Nat)
  BY DEF Parsing, Parsings
<1>2. q \in Parsings /\ q.blocks = p.blocks /\ q.lines = p.lines /\ q.path = path /\ q.fence = p.fence
  BY <1>1 DEF Parsings
<1>3. TakenUp(p) \in Seq(Nat)
  <2>1. FlattenSeq(LinesOf(p.blocks)) \in Seq(Nat)
    BY <1>1, LinesTaken
  <2> QED
    BY <1>1, <2>1, ConcatProperties DEF TakenUp
<1>4. n \in Nat
  OBVIOUS
<1>5. Complete(doc, TakenUp(p), m)
  BY <1>3, <1>4, CompleteGrows DEF Parsing
<1> HIDE DEF q, m
<1>6. Complete(doc, TakenUp(q), m) /\ \A k \in 1..Len(q.blocks) : BlockFits(doc, q.blocks[k])
  BY <1>2, <1>5 DEF TakenUp, Parsing
<1>7. Parsing(doc, q, m)
  BY <1>2, <1>6 DEF Parsing
<1> QED
  BY <1>2, <1>7 DEF q, m

(* A fence that opens or closes leaves the rest.                           *)
LEMMA FenceChanges ==
  ASSUME NEW doc, NEW p, NEW n, Parsing(doc, p, n), NEW fence \in 0..2
  PROVE  /\ Parsing(doc, [p EXCEPT !.fence = fence], n) /\ [p EXCEPT !.fence = fence].fence = fence
         /\ [p EXCEPT !.fence = fence].lines = p.lines
<1> DEFINE q == [p EXCEPT !.fence = fence]
<1>1. p \in Parsings
  BY DEF Parsing
<1>2. q \in Parsings /\ q.blocks = p.blocks /\ q.lines = p.lines /\ q.path = p.path /\ q.fence = fence
  BY <1>1 DEF Parsings
<1> HIDE DEF q
<1>3. Parsing(doc, q, n)
  BY <1>2 DEF Parsing, TakenUp
<1> QED
  BY <1>2, <1>3 DEF q

(* One more line is parsed.                                                *)
LEMMA LineParsed ==
  ASSUME NEW doc \in Seq(DocLine), NEW n \in 0..(Len(doc) - 1), NEW p,
         Parsing(doc, p, n), InFence(doc, p, n)
  PROVE  /\ Parsing(doc, ParseLine(p, doc, n + 1), n + 1)
         /\ InFence(doc, ParseLine(p, doc, n + 1), n + 1)
<1> DEFINE m == n + 1  line == doc[m]  next == ParseLine(p, doc, m)
<1>1. /\ m \in 1..Len(doc) /\ m \in Nat /\ n \in Nat /\ Len(doc) \in Nat
      /\ line \in DocLine
  <2>1. m \in 1..Len(doc)
    OBVIOUS
  <2> QED
    BY <2>1
<1>2. /\ line.is \in {"heading", "fence", "text"} /\ line.level \in Nat /\ line.mark \in 0..2
      /\ line.is = "heading" => line.level \in 1..MaxLevel
      /\ line.is = "fence" => line.mark # 0
  BY <1>1 DEF DocLine, MaxLevel
<1>3. p.lines \in Seq(Nat) /\ p.path \in Seq(Nat) /\ p.fence \in 0..2
  BY DEF Parsing, Parsings
<1> DEFINE q == Keep(p, doc, m)
<1>4. Parsing(doc, q, m) /\ q.lines = Append(p.lines, m) /\ q.fence = p.fence
  BY KeepTakes
<1>5. Len(p.lines) \in Nat /\ Len(q.lines) = Len(p.lines) + 1 /\ q.lines[Len(q.lines)] = m
      /\ q.lines # <<>> /\ \A i \in 1..Len(p.lines) : q.lines[i] = p.lines[i]
  <2> DEFINE a == p.lines  b == q.lines
  <2>1. a \in Seq(Nat) /\ b = Append(a, m)
    BY <1>3, <1>4
  <2> HIDE DEF a, b, m
  <2>2. Len(a) \in Nat /\ Len(b) = Len(a) + 1 /\ b[Len(a) + 1] = m /\ \A i \in 1..Len(a) : b[i] = a[i]
    BY <1>1, <2>1
  <2>3. b # <<>>
    BY <2>2
  <2> QED
    BY <2>2, <2>3 DEF a, b
<1> HIDE DEF q
<1>6. ASSUME p.fence # 0 PROVE Fenced(doc, q.lines)
  <2> DEFINE K == Len(p.lines)
  <2>1. /\ p.lines # <<>> /\ doc[p.lines[1]].is = "fence" /\ p.lines[K] = n
        /\ \A i \in 1..K : p.lines[i] = p.lines[1] + i - 1
    BY <1>6 DEF InFence, Fenced
  <2>2. K \in Nat \ {0} /\ 1 \in 1..K /\ K \in 1..K /\ p.lines[1] \in Nat
    BY <1>3, <2>1
  <2>3. q.lines[1] = p.lines[1] /\ Len(q.lines) = K + 1 /\ q.lines[K + 1] = m
    BY <1>5, <2>2
  <2> HIDE DEF K
  <2>4. n = p.lines[1] + K - 1
    BY <2>1, <2>2
  <2>5. ASSUME NEW i \in 1..(K + 1) PROVE q.lines[i] = q.lines[1] + i - 1
    <3>1. i \in 1..K \/ i = K + 1
      BY <2>2
    <3>2. CASE i \in 1..K
      <4>1. q.lines[i] = p.lines[i]
        BY <1>5, <3>2 DEF K
      <4> QED
        BY <2>1, <2>3, <3>2, <4>1
    <3>3. CASE i = K + 1
      BY <2>2, <2>3, <2>4, <3>3
    <3> QED
      BY <3>1, <3>2, <3>3
  <2> QED
    BY <1>5, <2>1, <2>3, <2>5 DEF Fenced
<1>7. CASE p.fence # 0 /\ line.is = "fence" /\ line.mark = p.fence
  <2> DEFINE r == Flush(q, doc, "code")
  <2>1. next = [r EXCEPT !.fence = 0]
    BY <1>7 DEF ParseLine, q
  <2>2. Parsing(doc, r, m)
    BY <1>4, <1>6, <1>7, FlushKeeps
  <2> HIDE DEF r
  <2>3. 0 \in 0..2
    OBVIOUS
  <2>4. Parsing(doc, [r EXCEPT !.fence = 0], m) /\ [r EXCEPT !.fence = 0].fence = 0
    <3> HIDE DEF m
    <3> QED
      BY ZenonT(40), <2>2, <2>3, FenceChanges
  <2>5. Parsing(doc, next, m) /\ next.fence = 0
    BY <2>1, <2>4
  <2> QED
    BY <2>5 DEF InFence
<1>8. CASE p.fence = 0 /\ line.is = "fence"
  <2> DEFINE r == Flush(p, doc, "prose")  s == [r EXCEPT !.fence = line.mark]
  <2>1. next = Keep(s, doc, m)
    BY <1>8 DEF ParseLine
  <2>2. Parsing(doc, r, n) /\ r.lines = <<>>
    BY FlushKeeps
  <2> HIDE DEF r
  <2>3. Parsing(doc, s, n) /\ s.fence = line.mark /\ s.lines = r.lines
    BY <1>2, <2>2, FenceChanges
  <2> HIDE DEF s
  <2>4. Parsing(doc, Keep(s, doc, m), m) /\ Keep(s, doc, m).lines = Append(s.lines, m)
    BY <2>3, KeepTakes
  <2>5. next.lines = <<m>>
    BY <2>1, <2>2, <2>3, <2>4
  <2>6. Fenced(doc, next.lines) /\ next.lines[Len(next.lines)] = m
    <3> DEFINE l == next.lines
    <3>1. l = <<m>>
      BY <2>5
    <3>2. Len(l) = 1 /\ l[1] = m /\ l # <<>> /\ \A i \in 1..1 : i = 1
      <4> HIDE DEF m, l
      <4> QED
        BY <3>1
    <3>3. doc[m].is = "fence"
      BY <1>8
    <3> HIDE DEF l, m
    <3>4. \A i \in 1..Len(l) : l[i] = l[1] + i - 1
      BY <1>1, <3>2
    <3> QED
      BY <3>2, <3>3, <3>4 DEF Fenced, l
  <2> QED
    BY <2>1, <2>4, <2>6 DEF InFence
<1>9. CASE p.fence = 0 /\ line.is = "heading"
  <2> DEFINE r == Flush(p, doc, "prose")
             above == Without(r.path, {h \in DOMAIN doc : doc[h].level >= line.level})
             path == Append(above, m)
  <2>1. Parsing(doc, r, n) /\ r.path = p.path /\ r.fence = p.fence
    BY FlushKeeps
  <2>2. next = [r EXCEPT !.path = path]
    BY <1>9, <2>1 DEF ParseLine
  <2>3. r.path \in Seq(Nat) /\ Descends(doc, r.path)
    BY <1>3, <2>1 DEF Parsing
  <2>4. /\ above \in Seq(Nat) /\ Descends(doc, above)
        /\ \A i \in 1..Len(above) : doc[above[i]].level < line.level
    BY <1>2, <2>3, AboveDescends
  <2> HIDE DEF r, above
  <2>5. path \in Seq(Nat) /\ Descends(doc, path)
    BY <1>1, <1>2, <1>9, <2>4, PathGrows
  <2> HIDE DEF path
  <2>6. Parsing(doc, [r EXCEPT !.path = path], m) /\ [r EXCEPT !.path = path].fence = r.fence
    BY <1>9, <2>1, <2>5, HeadingPassed
  <2> QED
    BY <1>9, <2>1, <2>2, <2>6 DEF InFence
<1>10. CASE ~(p.fence # 0 /\ line.is = "fence" /\ line.mark = p.fence)
            /\ ~(p.fence = 0 /\ line.is = "fence") /\ ~(p.fence = 0 /\ line.is = "heading")
  <2>1. next = q
    BY <1>10 DEF ParseLine, q
  <2> QED
    BY <1>4, <1>5, <1>6, <2>1 DEF InFence
<1> QED
  BY <1>7, <1>8, <1>9, <1>10

(* Before the first line there is nothing to lose.                         *)
LEMMA ParsingBegins ==
  ASSUME NEW doc PROVE Parsing(doc, NoBlocks, 0) /\ InFence(doc, NoBlocks, 0)
<1> DEFINE p == NoBlocks
<1>1. /\ <<>> \in Seq(Blocks) /\ <<>> \in Seq(Nat) /\ 0 \in Nat /\ 0 \in 0..2 /\ Len(<<>>) = 0
      /\ 1..0 = {} /\ 2..0 = {}
  OBVIOUS
<1>2. p \in Parsings /\ p.blocks = <<>> /\ p.path = <<>> /\ p.lines = <<>> /\ p.fence = 0
  BY <1>1 DEF NoBlocks, Parsings
<1> HIDE DEF p
<1>3. TakenUp(p) = <<>>
  BY <1>2, FlattenFacts DEF TakenUp, LinesOf
<1>4. Complete(doc, TakenUp(p), 0)
  BY <1>1, <1>3 DEF Complete
<1>5. Descends(doc, p.path) /\ \A k \in 1..Len(p.blocks) : BlockFits(doc, p.blocks[k])
  BY <1>1, <1>2 DEF Descends
<1>6. Parsing(doc, p, 0) /\ InFence(doc, p, 0)
  BY <1>2, <1>4, <1>5 DEF Parsing, InFence
<1> QED
  BY <1>6 DEF p

(* The whole document is parsed.                                           *)
LEMMA ParsedFits ==
  ASSUME NEW doc \in Seq(DocLine)
  PROVE  Parsing(doc, Parsed(doc), Len(doc)) /\ InFence(doc, Parsed(doc), Len(doc))
<1> DEFINE N == Len(doc)  start == NoBlocks  states == Parsings
           Holds(p, n) == Parsing(doc, p, n) /\ InFence(doc, p, n)
           Step(p, n) == ParseLine(p, doc, n)
<1>0. N \in Nat /\ start \in states /\ Holds(start, 0)
  BY SMTT(30), ParsingBegins DEF Parsing
<1>a. ASSUME NEW n \in 1..N, NEW p, Holds(p, n - 1) PROVE Step(p, n) \in states /\ Holds(Step(p, n), n)
  <2> DEFINE k == n - 1
  <2>1. k \in 0..(Len(doc) - 1) /\ k + 1 = n
    BY <1>0
  <2>2. Holds(p, k)
    BY <1>a
  <2> HIDE DEF k
  <2>3. Parsing(doc, ParseLine(p, doc, k + 1), k + 1) /\ InFence(doc, ParseLine(p, doc, k + 1), k + 1)
    BY <2>1, <2>2, LineParsed
  <2>4. Parsing(doc, ParseLine(p, doc, n), n) /\ InFence(doc, ParseLine(p, doc, n), n)
    BY <2>1, <2>3
  <2> QED
    BY <2>4 DEF Parsing
<1> HIDE DEF N, start, Holds, Step, states
<1> DEFINE fit == [n \in 0..N |-> {p \in states : Holds(p, n)}]
           body == [n \in 1..N |-> [p \in states |-> Step(p, n)]]
<1>1. PICK g \in [0..N -> states] : Guided(g, start, N, body, fit)
  <2>1. fit \in [0..N -> SUBSET states]
    OBVIOUS
  <2>2. start \in fit[0]
    BY <1>0
  <2>3. ASSUME NEW n \in 1..N, NEW p \in fit[n - 1] PROVE body[n][p] \in fit[n]
    <3>1. n - 1 \in 0..N /\ n \in 0..N
      BY <1>0
    <3>2. p \in states /\ Holds(p, n - 1)
      BY <2>3, <3>1
    <3> QED
      BY <1>a, <3>1, <3>2
  <2> HIDE DEF fit, body
  <2> QED
    BY <1>0, <2>1, <2>2, <2>3, GuidedLoop
<1>2. ASSUME NEW n \in 1..N PROVE g[n] = Step(g[n - 1], n)
  <2>1. n - 1 \in 0..N
    BY <1>0
  <2>2. g[n - 1] \in states
    <3> HIDE DEF body, states
    <3> QED
      BY <2>1
  <2>3. g[n] = body[n][g[n - 1]]
    BY <1>1 DEF Guided
  <2> QED
    BY <2>2, <2>3
<1>3. g = [n \in 0..N |-> IF n = 0 THEN start ELSE Step(g[n - 1], n)]
  <2>1. ASSUME NEW n \in 0..N PROVE g[n] = IF n = 0 THEN start ELSE Step(g[n - 1], n)
    <3>1. n = 0 \/ n \in 1..N
      BY <1>0
    <3> QED
      BY <1>1, <1>2, <3>1 DEF Guided
  <2> HIDE DEF states, body, fit
  <2> QED
    BY <2>1
<1> DEFINE upto[n \in 0..N] == IF n = 0 THEN start ELSE Step(upto[n - 1], n)
<1>4. upto = [n \in 0..N |-> IF n = 0 THEN start ELSE Step(upto[n - 1], n)]
  BY <1>3
<1>5. Parsed(doc) = upto[N]
  BY DEF Parsed, N, start, Step
<1> HIDE DEF upto
<1> DEFINE I == {n \in 0..N : Holds(upto[n], n)}
<1>6. 0 \in I /\ \A n \in 1..N : upto[n] = Step(upto[n - 1], n)
  <2>1. 0 \in I
    BY <1>0, <1>4
  <2>2. ASSUME NEW n \in 1..N PROVE upto[n] = Step(upto[n - 1], n)
    <3>1. n \in 0..N /\ n # 0
      BY <1>0
    <3> QED
      BY <1>4, <3>1
  <2> QED
    BY <2>1, <2>2
<1>7. ASSUME NEW n \in 0..(N - 1), n \in I PROVE n + 1 \in I
  <2> DEFINE m == n + 1
  <2>1. m \in 0..N /\ m \in 1..N /\ m - 1 = n /\ Holds(upto[n], n)
    BY <1>0, <1>7
  <2> HIDE DEF m
  <2>2. upto[m] = Step(upto[m - 1], m)
    BY <1>6, <2>1
  <2>3. Holds(upto[m - 1], m - 1)
    BY <2>1
  <2>4. Holds(upto[m], m)
    BY <1>a, <2>1, <2>2, <2>3
  <2> QED
    BY <2>1, <2>4 DEF m
<1>8. Holds(upto[N], N)
  <2>1. N \in 0..N
    BY <1>0
  <2> HIDE DEF I
  <2>2. N \in I
    BY <1>0, <1>6, <1>7, <2>1, Climb
  <2> QED
    BY <2>2 DEF I
<1> QED
  BY <1>5, <1>8 DEF Holds, N

(* What parse_blocks returns.                                              *)
LEMMA BlocksFit ==
  ASSUME NEW doc \in Seq(DocLine)
  PROVE  /\ ParseBlocks(doc) \in Seq(Blocks)
         /\ \A k \in 1..Len(ParseBlocks(doc)) : BlockFits(doc, ParseBlocks(doc)[k])
         /\ Complete(doc, FlattenSeq(LinesOf(ParseBlocks(doc))), Len(doc))
<1> DEFINE p == Parsed(doc)  n == Len(doc)  kind == IF p.fence # 0 THEN "code" ELSE "prose"
           q == Flush(p, doc, kind)
<1>1. Parsing(doc, p, n) /\ InFence(doc, p, n)
  BY ParsedFits
<1>2. ParseBlocks(doc) = q.blocks
  BY DEF ParseBlocks
<1>3. kind \in {"code", "prose"} /\ (kind = "code" => Fenced(doc, p.lines))
  BY <1>1 DEF InFence
<1> HIDE DEF p, n, kind
<1>4. Parsing(doc, q, n) /\ FlattenSeq(LinesOf(q.blocks)) = TakenUp(p)
  BY <1>1, <1>3, FlushKeeps
<1>5. Complete(doc, TakenUp(p), n)
  BY <1>1 DEF Parsing
<1> HIDE DEF q
<1>6. q.blocks \in Seq(Blocks) /\ \A k \in 1..Len(q.blocks) : BlockFits(doc, q.blocks[k])
  BY <1>4 DEF Parsing, Parsings
<1> QED
  BY <1>2, <1>4, <1>5, <1>6 DEF n

-----------------------------------------------------------------------------
(* The chunks the blocks are packed into.                                  *)

(* What pack holds: chunks, and one that is open, if any.                  *)
Scraps == [block : Nat, at : Int, len : Nat, again : BOOLEAN]
Chunk == [path : Seq(Nat), len : Int, parts : Seq(Nat), text : SUBSET Scraps]
Packings == {p \in [out : Seq(Chunk), open : Chunk] : p.open = NoChunk \/ p.open.len > Sep}

(* What stands under a path: the parts, code whole, and what is there      *)
(* again, which is no more of a block than the overlap.                    *)
Stands(blocks, path, parts, text) ==
  /\ text \in SUBSET Scraps
  /\ \A x \in text :
       /\ x.block \in 1..Len(blocks) /\ blocks[x.block].path = path
       /\ x.again => x.len <= Overlap
       /\ ~x.again => /\ \E m \in 1..Len(parts) : x.block = parts[m]
                      /\ blocks[x.block].kind = "code" => x.len = blocks[x.block].len
  /\ \A m \in 1..Len(parts) : \E x \in text : x.block = parts[m] /\ ~x.again

(* What is there again came before a part.                                 *)
Follows(parts, text) == \A x \in text : x.again => \E m \in 1..Len(parts) : x.block < parts[m]

(* A text of the first k blocks that ends in time.                         *)
Within(text, k, end) == \A x \in text : x.block <= k /\ x.at + x.len <= end

(* A chunk holds text of blocks under its headings, and only a code block  *)
(* of its own exceeds the limit by more than an overlap.                   *)
Under(blocks, chunk) ==
  /\ chunk.parts # <<>>
  /\ \A m \in 1..Len(chunk.parts) :
       chunk.parts[m] \in 1..Len(blocks) /\ blocks[chunk.parts[m]].path = chunk.path
  /\ Stands(blocks, chunk.path, chunk.parts, chunk.text)
  /\ Follows(chunk.parts, chunk.text)

ChunkFits(blocks, chunk) ==
  /\ Under(blocks, chunk)
  /\ \/ Size(chunk) <= ChunkMax + Overlap + Sep
     \/ Len(chunk.parts) = 1 /\ blocks[chunk.parts[1]].kind = "code"

OpenFits(blocks, chunk) ==
  \/ chunk = NoChunk
  \/ Under(blocks, chunk) /\ chunk.len > Sep /\ Size(chunk) <= ChunkMax + Overlap + Sep + Sep

PartsOf(chunks) == [c \in DOMAIN chunks |-> chunks[c].parts]

(* The blocks put into chunks so far.                                      *)
Held(p) == FlattenSeq(PartsOf(p.out)) \o p.open.parts

(* s has the numbers up to k in their order, and only prose repeatedly.    *)
Counted(blocks, s, k) ==
  /\ \A m \in 1..Len(s) : s[m] \in 1..k
  /\ \A i \in 1..k : \E m \in 1..Len(s) : s[m] = i
  /\ \A m \in 2..Len(s) :
       s[m - 1] <= s[m] /\ (s[m - 1] = s[m] => blocks[s[m]].kind = "prose")

(* One more block is held, in one part or, if it is prose, in several.     *)
LEMMA CountedGrows ==
  ASSUME NEW blocks, NEW s \in Seq(Nat), NEW k \in Nat, Counted(blocks, s, k),
         NEW t \in Seq(Nat), t # <<>>, \A i \in 1..Len(t) : t[i] = k + 1,
         Len(t) = 1 \/ blocks[k + 1].kind = "prose"
  PROVE  Counted(blocks, s \o t, k + 1)
<1> DEFINE n == k + 1  K == Len(s)  N == Len(t)  u == s \o t
<1>1. K \in Nat /\ N \in Nat /\ N > 0 /\ n \in Nat /\ k < n
  BY EmptySeq
<1>2. /\ u \in Seq(Nat) /\ Len(u) = K + N
      /\ \A i \in 1..(K + N) : u[i] = IF i <= K THEN s[i] ELSE t[i - K]
  BY ConcatProperties
<1>3. /\ \A m \in 1..K : s[m] \in 1..k
      /\ \A i \in 1..k : \E m \in 1..K : s[m] = i
      /\ \A m \in 2..K : s[m - 1] <= s[m] /\ (s[m - 1] = s[m] => blocks[s[m]].kind = "prose")
      /\ \A i \in 1..N : t[i] = n
  BY DEF Counted
<1>4. (\A i \in 1..n : i \in 1..k \/ i = n) /\ 1..k \subseteq 1..n /\ n \in 1..n
  OBVIOUS
<1> HIDE DEF n, K, N, u
<1>5. ASSUME NEW m \in 1..(K + N)
      PROVE  (m \in 1..K /\ u[m] = s[m]) \/ (m > K /\ u[m] = n)
  <2>1. CASE m <= K
    <3>1. m \in 1..K
      BY <1>1, <2>1
    <3>2. u[m] = s[m]
      BY <1>2, <2>1
    <3> QED
      BY <3>1, <3>2
  <2>2. CASE m > K
    <3>1. m - K \in 1..N /\ u[m] = t[m - K]
      BY <1>1, <1>2, <2>2
    <3> QED
      BY <1>3, <2>2, <3>1
  <2> QED
    BY <1>1, <2>1, <2>2
<1>6. ASSUME NEW m \in 1..(K + N) PROVE u[m] \in 1..n
  BY <1>3, <1>4, <1>5
<1>7. ASSUME NEW i \in 1..n PROVE \E m \in 1..(K + N) : u[m] = i
  <2>1. CASE i \in 1..k
    <3>1. PICK m \in 1..K : s[m] = i
      BY <1>3, <2>1
    <3>2. m \in 1..(K + N) /\ m <= K
      BY <1>1
    <3> QED
      BY <1>2, <3>1, <3>2
  <2>2. CASE i = n
    <3>1. K + 1 \in 1..(K + N) /\ ~(K + 1 \in 1..K)
      BY <1>1
    <3> QED
      BY <1>5, <2>2, <3>1
  <2> QED
    BY <1>4, <2>1, <2>2
<1>8. ASSUME NEW m \in 2..(K + N)
      PROVE  u[m - 1] <= u[m] /\ (u[m - 1] = u[m] => blocks[u[m]].kind = "prose")
  <2>1. m \in 1..(K + N) /\ m - 1 \in 1..(K + N)
    BY <1>1
  <2>2. CASE m \in 1..K
    <3>1. m \in 2..K /\ m - 1 \in 1..K /\ ~(m > K) /\ ~(m - 1 > K)
      BY <1>1, <2>2
    <3>2. u[m] = s[m] /\ u[m - 1] = s[m - 1]
      BY <1>5, <2>1, <3>1
    <3> QED
      BY <1>3, <3>1, <3>2
  <2>3. CASE m > K
    <3>1. u[m] = n
      BY <1>1, <1>5, <2>1, <2>3
    <3>2. CASE m - 1 \in 1..K
      <4>1. u[m - 1] \in 1..k
        <5>1. ~(m - 1 > K)
          BY <1>1, <3>2
        <5> QED
          BY <1>3, <1>5, <2>1, <5>1
      <4> QED
        BY <1>1, <3>1, <4>1
    <3>3. CASE m - 1 > K
      <4>1. u[m - 1] = n /\ N # 1
        BY <1>1, <1>5, <2>1, <3>3
      <4> QED
        BY <1>1, <3>1, <4>1 DEF N, n
    <3> QED
      BY <1>1, <2>1, <3>2, <3>3
  <2> QED
    BY <1>1, <2>1, <2>2, <2>3
<1> QED
  BY <1>2, <1>6, <1>7, <1>8 DEF Counted, u, n

(* Joined, sequences of one number k each are that number as often.        *)
LEMMA Singles ==
  ASSUME NEW ss \in Seq(Seq(Nat)), NEW k \in Nat, \A i \in 1..Len(ss) : ss[i] = <<k>>
  PROVE  /\ FlattenSeq(ss) \in Seq(Nat) /\ Len(FlattenSeq(ss)) = Len(ss)
         /\ \A i \in 1..Len(ss) : FlattenSeq(ss)[i] = k
<1> DEFINE N == Len(ss)
<1>0. N \in Nat
  OBVIOUS
<1>1. PICK f \in [0..N -> Seq(Nat)] :
        FlattenSeq(ss) = f[N] /\ f[0] = <<>> /\ \A n \in 1..N : f[n] = f[n - 1] \o ss[n]
  BY FlattenLoop
<1>2. \A n \in 1..N : ss[n] = <<k>>
  OBVIOUS
<1> DEFINE I == {n \in 0..N : Len(f[n]) = n /\ \A i \in 1..n : f[n][i] = k}
<1> HIDE DEF N
<1>3. 0 \in I
  BY <1>0, <1>1
<1>4. ASSUME NEW n \in 0..(N - 1), n \in I PROVE n + 1 \in I
  <2> DEFINE m == n + 1  a == f[n]
  <2>1. n \in 0..N /\ m \in 1..N /\ m \in 0..N /\ m - 1 = n /\ n \in Nat /\ m = n + 1
    BY <1>0
  <2> HIDE DEF m
  <2>2. f[m] = a \o <<k>> /\ a \in Seq(Nat) /\ <<k>> \in Seq(Nat)
    BY <1>1, <1>2, <2>1, OneItem
  <2>3. Len(a) = n /\ \A i \in 1..n : a[i] = k
    BY <1>4
  <2> HIDE DEF a
  <2>4. f[m] = Append(a, k)
    BY <2>2, AppendIsConcat
  <2>5. Len(f[m]) = m /\ f[m][m] = k /\ \A i \in 1..n : f[m][i] = k
    <3> DEFINE b == f[m]
    <3>1. b = Append(a, k) /\ a \in Seq(Nat)
      BY <2>2, <2>4
    <3> HIDE DEF b
    <3>2. Len(b) = Len(a) + 1 /\ b[Len(a) + 1] = k /\ \A i \in 1..Len(a) : b[i] = a[i]
      BY <3>1
    <3>3. Len(b) = m /\ b[m] = k /\ \A i \in 1..n : b[i] = k
      BY <2>1, <2>3, <3>2
    <3> QED
      BY <3>3 DEF b
  <2>6. \A i \in 1..m : i \in 1..n \/ i = m
    BY <2>1
  <2>7. m \in I
    BY <2>1, <2>5, <2>6
  <2> QED
    BY <2>7 DEF m
<1>5. N \in I
  <2>1. N \in 0..N
    BY <1>0
  <2> HIDE DEF I
  <2> QED
    BY <1>0, <1>3, <1>4, <2>1, Climb
<1> QED
  <2>1. N \in 0..N
    BY <1>0
  <2> QED
    BY <1>1, <1>5, <2>1 DEF N

(* The parts of some chunks.                                               *)
LEMMA PartsTaken ==
  ASSUME NEW chunks \in Seq(Chunk)
  PROVE  /\ PartsOf(chunks) \in Seq(Seq(Nat)) /\ Len(PartsOf(chunks)) = Len(chunks)
         /\ \A i \in 1..Len(chunks) : PartsOf(chunks)[i] = chunks[i].parts
         /\ FlattenSeq(PartsOf(chunks)) \in Seq(Nat)
<1> DEFINE N == Len(chunks)
<1>1. N \in Nat /\ DOMAIN chunks = 1..N /\ \A i \in 1..N : chunks[i] \in Chunk
  OBVIOUS
<1>2. \A c \in Chunk : c.parts \in Seq(Nat)
  BY DEF Chunk
<1> HIDE DEF N
<1>3. /\ PartsOf(chunks) \in Seq(Seq(Nat)) /\ Len(PartsOf(chunks)) = N
      /\ \A i \in 1..N : PartsOf(chunks)[i] = chunks[i].parts
  BY <1>1, <1>2 DEF PartsOf
<1>4. FlattenSeq(PartsOf(chunks)) \in Seq(Nat)
  BY <1>3, FlattenFacts
<1> QED
  BY <1>3, <1>4 DEF N

(* Of chunks put together, they are the parts put together.                *)
LEMMA PartsJoined ==
  ASSUME NEW a \in Seq(Chunk), NEW b \in Seq(Chunk)
  PROVE  FlattenSeq(PartsOf(a \o b)) = FlattenSeq(PartsOf(a)) \o FlattenSeq(PartsOf(b))
<1> DEFINE K == Len(a)  N == Len(b)  c == a \o b  x == PartsOf(a)  y == PartsOf(b)
           z == PartsOf(c)  w == x \o y
<1>1. /\ K \in Nat /\ N \in Nat /\ c \in Seq(Chunk) /\ Len(c) = K + N
      /\ \A i \in 1..(K + N) : c[i] = IF i <= K THEN a[i] ELSE b[i - K]
  BY ConcatProperties
<1>2. /\ x \in Seq(Seq(Nat)) /\ Len(x) = K /\ \A i \in 1..K : x[i] = a[i].parts
      /\ y \in Seq(Seq(Nat)) /\ Len(y) = N /\ \A i \in 1..N : y[i] = b[i].parts
  BY PartsTaken
<1>3. z \in Seq(Seq(Nat)) /\ Len(z) = K + N /\ \A i \in 1..(K + N) : z[i] = c[i].parts
  <2> HIDE DEF c
  <2> QED
    BY <1>1, PartsTaken
<1> HIDE DEF K, N, c, x, y, z
<1>4. /\ w \in Seq(Seq(Nat)) /\ Len(w) = K + N
      /\ \A i \in 1..(K + N) : w[i] = IF i <= K THEN x[i] ELSE y[i - K]
  BY <1>2, ConcatProperties
<1>5. FlattenSeq(w) = FlattenSeq(x) \o FlattenSeq(y)
  BY <1>2, FlattenOfBoth
<1> HIDE DEF w
<1>6. ASSUME NEW i \in 1..(K + N) PROVE z[i] = w[i]
  <2>1. CASE i <= K
    <3>1. i \in 1..K
      BY <1>1, <2>1
    <3>2. w[i] = x[i] /\ c[i] = a[i] /\ z[i] = c[i].parts
      BY <1>1, <1>3, <1>4, <2>1
    <3> QED
      BY <1>2, <3>1, <3>2
  <2>2. CASE ~(i <= K)
    <3>1. i - K \in 1..N
      BY <1>1, <2>2
    <3>2. w[i] = y[i - K] /\ c[i] = b[i - K] /\ z[i] = c[i].parts
      BY <1>1, <1>3, <1>4, <2>2
    <3> QED
      BY <1>2, <3>1, <3>2
  <2> QED
    BY <2>1, <2>2
<1>7. z = w
  <2>1. z = [i \in 1..(K + N) |-> z[i]] /\ w = [i \in 1..(K + N) |-> w[i]]
    BY <1>3, <1>4
  <2> QED
    BY <1>6, <2>1
<1> QED
  BY <1>5, <1>7 DEF x, y, z, c

LEMMA PartsAppended ==
  ASSUME NEW chunks \in Seq(Chunk), NEW chunk \in Chunk
  PROVE  /\ Append(chunks, chunk) \in Seq(Chunk)
         /\ FlattenSeq(PartsOf(Append(chunks, chunk))) = FlattenSeq(PartsOf(chunks)) \o chunk.parts
<1> DEFINE one == <<chunk>>
<1>1. one \in Seq(Chunk) /\ Len(one) = 1 /\ one[1] = chunk /\ Append(chunks, chunk) = chunks \o one
      /\ Append(chunks, chunk) \in Seq(Chunk)
  BY OneItem, AppendIsConcat
<1>2. chunk.parts \in Seq(Nat)
  BY DEF Chunk
<1> HIDE DEF one
<1>3. PartsOf(one) \in Seq(Seq(Nat)) /\ Len(PartsOf(one)) = 1 /\ PartsOf(one)[1] = chunk.parts
  <2>1. /\ PartsOf(one) \in Seq(Seq(Nat)) /\ Len(PartsOf(one)) = Len(one)
        /\ \A i \in 1..Len(one) : PartsOf(one)[i] = one[i].parts
    BY <1>1, PartsTaken
  <2>2. 1 \in 1..Len(one)
    BY <1>1
  <2> QED
    BY <1>1, <2>1, <2>2
<1> DEFINE ps == PartsOf(one)
<1>4. PICK f \in [0..1 -> Seq(Nat)] :
        FlattenSeq(ps) = f[1] /\ f[0] = <<>> /\ \A n \in 1..1 : f[n] = f[n - 1] \o ps[n]
  <2>1. \E f \in [0..Len(ps) -> Seq(Nat)] :
          FlattenSeq(ps) = f[Len(ps)] /\ f[0] = <<>> /\ \A n \in 1..Len(ps) : f[n] = f[n - 1] \o ps[n]
    BY <1>3, FlattenLoop
  <2> QED
    BY <1>3, <2>1
<1>5. FlattenSeq(ps) = chunk.parts
  <2>1. 1 \in 1..1 /\ 1 - 1 = 0
    OBVIOUS
  <2>2. f[1] = <<>> \o chunk.parts
    BY <1>3, <1>4, <2>1
  <2> QED
    BY <1>2, <1>4, <2>2, ConcatEmptySeq
<1>6. FlattenSeq(PartsOf(chunks \o one)) = FlattenSeq(PartsOf(chunks)) \o FlattenSeq(ps)
  BY <1>1, PartsJoined
<1> QED
  BY <1>1, <1>5, <1>6

(* What holds of the chunks once k blocks are packed.                      *)
Packing(blocks, p, k) ==
  /\ p \in Packings
  /\ \A c \in 1..Len(p.out) : ChunkFits(blocks, p.out[c])
  /\ OpenFits(blocks, p.open)
  /\ Within(p.open.text, k, p.open.len)
  /\ Counted(blocks, Held(p), k)

(* No chunk is open.                                                       *)
LEMMA Nothing ==
  NoChunk \in Chunk /\ NoChunk.len = 0 /\ NoChunk.parts = <<>> /\ NoChunk.text = {}
<1>1. <<>> \in Seq(Nat)
  OBVIOUS
<1> QED
  BY <1>1 DEF NoChunk, Chunk

(* The types of what pack holds.                                           *)
LEMMA PackingTypes ==
  ASSUME NEW blocks, NEW p, NEW k, Packing(blocks, p, k)
  PROVE  /\ p = [out |-> p.out, open |-> p.open] /\ p.out \in Seq(Chunk) /\ p.open \in Chunk
         /\ p.open.path \in Seq(Nat) /\ p.open.len \in Nat /\ p.open.parts \in Seq(Nat)
         /\ p.open.text \in SUBSET Scraps
         /\ p.open = NoChunk \/ p.open.len > Sep
         /\ Held(p) \in Seq(Nat)
<1>1. p = [out |-> p.out, open |-> p.open] /\ p.out \in Seq(Chunk) /\ p.open \in Chunk
      /\ (p.open = NoChunk \/ p.open.len > Sep)
  BY DEF Packing, Packings
<1>2. p.open.path \in Seq(Nat) /\ p.open.len \in Nat /\ p.open.parts \in Seq(Nat)
      /\ p.open.text \in SUBSET Scraps
  <2>1. p.open.path \in Seq(Nat) /\ p.open.len \in Int /\ p.open.parts \in Seq(Nat)
        /\ p.open.text \in SUBSET Scraps
    BY <1>1 DEF Chunk
  <2>2. p.open.len \in Nat
    BY <1>1, <2>1, Nothing DEF Sep
  <2> QED
    BY <2>1, <2>2
<1>3. FlattenSeq(PartsOf(p.out)) \in Seq(Nat)
  BY <1>1, PartsTaken
<1>4. Held(p) \in Seq(Nat)
  BY <1>2, <1>3, ConcatProperties DEF Held
<1> QED
  BY <1>1, <1>2, <1>4

(* Chunks are added that hold what is to be held next, and nothing is open.*)
LEMMA ChunksAdded ==
  ASSUME NEW blocks, NEW p, NEW k \in Nat, Packing(blocks, p, k), p.open = NoChunk,
         NEW more \in Seq(Chunk), \A c \in 1..Len(more) : ChunkFits(blocks, more[c]),
         NEW n, Counted(blocks, FlattenSeq(PartsOf(p.out)) \o FlattenSeq(PartsOf(more)), n)
  PROVE  Packing(blocks, [p EXCEPT !.out = @ \o more], n)
<1> DEFINE all == p.out \o more  q == [p EXCEPT !.out = @ \o more]  K == Len(p.out)  N == Len(more)
<1>1. p = [out |-> p.out, open |-> p.open] /\ p.out \in Seq(Chunk)
  BY PackingTypes
<1>2. q = [p EXCEPT !.out = all] /\ p \in [out : Seq(Chunk), open : Chunk]
  BY DEF Packing, Packings
<1>3. /\ K \in Nat /\ N \in Nat /\ all \in Seq(Chunk) /\ Len(all) = K + N
      /\ \A i \in 1..(K + N) : all[i] = IF i <= K THEN p.out[i] ELSE more[i - K]
  BY <1>1, ConcatProperties
<1>4. \A c \in 1..K : ChunkFits(blocks, p.out[c])
  BY DEF Packing
<1>5. FlattenSeq(PartsOf(all)) = FlattenSeq(PartsOf(p.out)) \o FlattenSeq(PartsOf(more))
      /\ FlattenSeq(PartsOf(all)) \in Seq(Nat)
  BY <1>1, <1>3, PartsJoined, PartsTaken
<1> HIDE DEF q, all
<1>6. ASSUME NEW c \in 1..(K + N) PROVE ChunkFits(blocks, all[c])
  <2>1. CASE c <= K
    <3>1. c \in 1..K /\ all[c] = p.out[c]
      BY <1>3, <2>1
    <3> QED
      BY <1>4, <3>1
  <2>2. CASE ~(c <= K)
    <3>1. c - K \in 1..N /\ all[c] = more[c - K]
      BY <1>3, <2>2
    <3> QED
      BY <3>1
  <2> QED
    BY <2>1, <2>2
<1>7. q \in Packings /\ q.out = all /\ q.open = NoChunk
  <2>1. q \in [out : Seq(Chunk), open : Chunk] /\ q.out = all /\ q.open = p.open
    BY <1>2, <1>3
  <2> QED
    BY <2>1 DEF Packings
<1>8. Held(q) = FlattenSeq(PartsOf(all))
  BY <1>5, <1>7, Nothing, ConcatEmptySeq DEF Held
<1>9. Packing(blocks, q, n)
  BY <1>3, <1>5, <1>6, <1>7, <1>8, Nothing DEF Packing, OpenFits, Within
<1> QED
  BY <1>9 DEF q

(* What is moved still stands.                                             *)
LEMMA MovedStands ==
  ASSUME NEW blocks, NEW path, NEW parts, NEW text \in SUBSET Scraps, NEW by \in Int
  PROVE  /\ Stands(blocks, path, parts, text) => Stands(blocks, path, parts, Moved(text, by))
         /\ Follows(parts, text) => Follows(parts, Moved(text, by))
<1> DEFINE moved(x) == [x EXCEPT !.at = @ + by]
<1>1. Moved(text, by) = {moved(x) : x \in text}
  BY DEF Moved
<1>2. ASSUME NEW x \in Scraps
      PROVE  /\ moved(x) \in Scraps /\ moved(x).block = x.block /\ moved(x).len = x.len
             /\ moved(x).again = x.again
  BY DEF Scraps
<1>3. ASSUME Stands(blocks, path, parts, text) PROVE Stands(blocks, path, parts, Moved(text, by))
  <2>1. text \in SUBSET Scraps
    BY <1>3 DEF Stands
  <2> HIDE DEF moved
  <2>2. \A y \in Moved(text, by) :
          \E x \in text : y \in Scraps /\ y.block = x.block /\ y.len = x.len /\ y.again = x.again
    BY <1>1, <1>2, <2>1
  <2>3. \A x \in text : \E y \in Moved(text, by) : y.block = x.block /\ y.again = x.again
    BY <1>1, <1>2, <2>1
  <2> QED
    BY <1>3, <2>2, <2>3 DEF Stands
<1>4. ASSUME Follows(parts, text) PROVE Follows(parts, Moved(text, by))
  <2>1. \A x \in text : moved(x).block = x.block /\ moved(x).again = x.again
    BY <1>2
  <2> HIDE DEF moved
  <2> QED
    BY <1>1, <1>4, <2>1 DEF Follows
<1> QED
  BY <1>3, <1>4

(* The blanks in front of a chunk can be counted.                          *)
LEMMA BlanksCounted ==
  ASSUME NEW chunk, chunk.len \in Int
  PROVE  Blanks(chunk) \in Nat
<1> DEFINE before == {n \in 0..(chunk.len - 1) : \A piece \in chunk.text : n < piece.at}
<1>1. IsFiniteSet(0..(chunk.len - 1))
  BY FS_Interval
<1>2. before \in SUBSET (0..(chunk.len - 1))
  OBVIOUS
<1>3. Blanks(chunk) = Cardinality(before)
  BY DEF Blanks
<1> HIDE DEF before
<1>4. IsFiniteSet(before)
  BY <1>1, <1>2, FS_Subset
<1> QED
  BY <1>3, <1>4, FS_CardinalityType

(* To close the open chunk takes nothing away.                             *)
LEMMA CloseKeeps ==
  ASSUME NEW blocks, NEW p, NEW k \in Nat, Packing(blocks, p, k)
  PROVE  Packing(blocks, Close(p), k) /\ Close(p).open = NoChunk
<1>1. /\ p = [out |-> p.out, open |-> p.open] /\ p.out \in Seq(Chunk) /\ p.open \in Chunk
      /\ p.open.path \in Seq(Nat) /\ p.open.len \in Nat /\ p.open.parts \in Seq(Nat)
      /\ p.open.text \in SUBSET Scraps
      /\ p.open = NoChunk \/ p.open.len > Sep
  BY PackingTypes
<1>2. CASE p.open = NoChunk
  BY <1>2, Nothing DEF Close
<1>3. CASE p.open # NoChunk
  <2> DEFINE blank == Blanks(p.open)
             text == Moved(p.open.text, -blank)
             c == [p.open EXCEPT !.len = @ - Sep - blank, !.text = text]
             out == Append(p.out, c)  q == Close(p)
  <2>0. blank \in Nat
    BY <1>1, BlanksCounted
  <2>1. p.open.len > Sep /\ p.open.len # 0
    BY <1>1, <1>3 DEF Sep
  <2>2. q = [out |-> out, open |-> NoChunk]
    BY <2>1 DEF Close
  <2> HIDE DEF blank
  <2>a. Under(blocks, p.open) /\ Size(p.open) <= ChunkMax + Overlap + Sep + Sep
    BY <1>3 DEF Packing, OpenFits
  <2>b. Stands(blocks, p.open.path, p.open.parts, text) /\ Follows(p.open.parts, text)
    <3>1. Stands(blocks, p.open.path, p.open.parts, p.open.text) /\ Follows(p.open.parts, p.open.text)
      BY <2>a DEF Under
    <3>2. -blank \in Int
      BY <2>0
    <3> QED
      BY <1>1, <3>1, <3>2, MovedStands
  <2>c. text \in SUBSET Scraps
    BY <2>b DEF Stands
  <2> HIDE DEF text
  <2>3. c \in Chunk /\ c.path = p.open.path /\ c.len = p.open.len - Sep - blank /\ c.parts = p.open.parts
        /\ c.text = text
    <3>1. p.open.len - Sep - blank \in Int
      BY <1>1, <2>0 DEF Sep
    <3> QED
      BY <1>1, <2>c, <3>1 DEF Chunk
  <2> HIDE DEF c, q
  <2>4. ChunkFits(blocks, c)
    <3>2. Under(blocks, c)
      BY <2>3, <2>a, <2>b DEF Under
    <3>3. Size(c) <= ChunkMax + Overlap + Sep
      <4> DEFINE room == Crumb(p.open.path)  len == p.open.len
      <4>1. room \in Nat /\ ChunkMax \in Nat /\ Overlap \in Nat /\ len \in Nat
        BY <1>1, IndexAssumption DEF Crumb
      <4>2. room + len <= ChunkMax + Overlap + 2 + 2 /\ Size(c) = room + (len - 2 - blank)
        BY <2>3, <2>a DEF Size, Sep
      <4> HIDE DEF room, len
      <4>3. room + (len - 2 - blank) <= ChunkMax + Overlap + 2
        BY <2>0, <4>1, <4>2
      <4> QED
        BY <4>2, <4>3 DEF Sep
    <3> QED
      BY <3>2, <3>3 DEF ChunkFits
  <2>5. out \in Seq(Chunk) /\ FlattenSeq(PartsOf(out)) = FlattenSeq(PartsOf(p.out)) \o p.open.parts
    BY <1>1, <2>3, PartsAppended
  <2>6. Len(out) = Len(p.out) + 1 /\ out[Len(p.out) + 1] = c /\ Len(p.out) \in Nat
        /\ \A i \in 1..Len(p.out) : out[i] = p.out[i]
    BY <1>1, <2>3
  <2> HIDE DEF out
  <2>7. \A i \in 1..Len(out) : ChunkFits(blocks, out[i])
    <3>1. \A i \in 1..Len(out) : i \in 1..Len(p.out) \/ i = Len(p.out) + 1
      BY <2>6
    <3>2. \A i \in 1..Len(p.out) : ChunkFits(blocks, p.out[i])
      BY DEF Packing
    <3> QED
      BY <2>4, <2>6, <3>1, <3>2
  <2>8. q \in Packings /\ q.out = out /\ q.open = NoChunk
    BY <2>2, <2>5, Nothing DEF Packings
  <2>9. Held(q) = Held(p)
    <3>1. FlattenSeq(PartsOf(out)) \in Seq(Nat)
      BY <2>5, PartsTaken
    <3> QED
      BY <2>5, <2>8, <3>1, Nothing, ConcatEmptySeq DEF Held
  <2>10. Packing(blocks, q, k)
    BY <2>7, <2>8, <2>9, Nothing DEF Packing, OpenFits, Within
  <2> QED
    BY <2>8, <2>10 DEF q
<1> QED
  BY <1>2, <1>3

(* A block as parse_blocks returns it leaves room under its headings.      *)
LEMMA RoomUnderHeadings ==
  ASSUME NEW doc, NEW block, BlockFits(doc, block)
  PROVE  /\ block.path \in Seq(Nat) /\ block.len \in Nat \ {0} /\ block.kind \in {"code", "prose"}
         /\ Crumb(block.path) \in Nat /\ ChunkMax - Crumb(block.path) \in Nat \ {0}
<1>1. block.path \in Seq(Nat) /\ block.len \in Nat /\ block.len > 0 /\ block.kind \in {"code", "prose"}
      /\ Len(block.path) <= MaxLevel
  BY DEF BlockFits, Blocks
<1>2. Len(block.path) \in Nat /\ ChunkMax \in Nat /\ ChunkMax > 1 + MaxLevel
  BY <1>1, IndexAssumption
<1> QED
  BY <1>1, <1>2 DEF Crumb, MaxLevel

(* What a block over the limit comes in: whole, or in pieces if it is prose.*)
Pieces(blocks, pieces, n) ==
  /\ pieces \in Seq(Chunk) /\ pieces # <<>>
  /\ \A c \in 1..Len(pieces) : ChunkFits(blocks, pieces[c]) /\ pieces[c].parts = <<n>>
  /\ Len(pieces) = 1 \/ blocks[n].kind = "prose"

(* A block over the limit is held once its pieces are.                     *)
LEMMA PiecesAdded ==
  ASSUME NEW blocks, NEW p, NEW k \in Nat, Packing(blocks, p, k), p.open = NoChunk,
         NEW pieces, Pieces(blocks, pieces, k + 1)
  PROVE  Packing(blocks, [p EXCEPT !.out = @ \o pieces], k + 1)
<1> DEFINE n == k + 1  ps == PartsOf(pieces)  t == FlattenSeq(ps)  s == FlattenSeq(PartsOf(p.out))
<1>1. /\ pieces \in Seq(Chunk) /\ pieces # <<>> /\ n \in Nat
      /\ \A c \in 1..Len(pieces) : ChunkFits(blocks, pieces[c]) /\ pieces[c].parts = <<n>>
      /\ Len(pieces) = 1 \/ blocks[n].kind = "prose"
  BY DEF Pieces
<1>2. ps \in Seq(Seq(Nat)) /\ Len(ps) = Len(pieces) /\ \A i \in 1..Len(pieces) : ps[i] = pieces[i].parts
  BY <1>1, PartsTaken
<1> HIDE DEF ps, n
<1>3. t \in Seq(Nat) /\ Len(t) = Len(pieces) /\ \A i \in 1..Len(pieces) : t[i] = n
  <2>1. \A i \in 1..Len(ps) : ps[i] = <<n>>
    BY <1>1, <1>2
  <2> QED
    BY <1>1, <1>2, <2>1, Singles
<1>4. Len(pieces) # 0
  BY <1>1, EmptySeq
<1> HIDE DEF t
<1>5. t # <<>>
  BY <1>3, <1>4
<1>6. s \in Seq(Nat) /\ Counted(blocks, s, k)
  <2>1. p.out \in Seq(Chunk)
    BY PackingTypes
  <2>2. s \in Seq(Nat)
    BY <2>1, PartsTaken
  <2>3. Held(p) = s
    BY <2>2, Nothing, ConcatEmptySeq DEF Held
  <2> QED
    BY <2>2, <2>3 DEF Packing
<1> HIDE DEF s
<1>7. Counted(blocks, s \o t, k + 1)
  <2>1. \A i \in 1..Len(t) : t[i] = k + 1
    BY <1>3 DEF n
  <2>2. Len(t) = 1 \/ blocks[k + 1].kind = "prose"
    BY <1>1, <1>3 DEF n
  <2> QED
    BY <1>3, <1>5, <1>6, <2>1, <2>2, CountedGrows
<1>8. Packing(blocks, [p EXCEPT !.out = @ \o pieces], n)
  <2>1. Counted(blocks, FlattenSeq(PartsOf(p.out)) \o FlattenSeq(PartsOf(pieces)), n)
    BY <1>7 DEF n, s, t, ps
  <2> QED
    BY <1>1, <2>1, ChunksAdded
<1> QED
  BY <1>8 DEF n

(* How many pieces, and what the last one is left with.                    *)
LEMMA Division ==
  ASSUME NEW len \in Nat, NEW limit \in Nat \ {0}, len > limit
  PROVE  /\ (len + limit - 1) \div limit \in Nat \ {0}
         /\ len % limit \in 0..(limit - 1)
<1> DEFINE a == len + limit - 1
<1>1. a \in Nat /\ a >= limit
  OBVIOUS
<1> HIDE DEF a
<1>2. a \div limit \in Int /\ a \div limit >= 1
  BY <1>1
<1>3. len % limit \in 0..(limit - 1)
  OBVIOUS
<1> QED
  BY <1>2, <1>3 DEF a

(* Code over the limit is held whole, prose in pieces within the limit.    *)
LEMMA OversizeFits ==
  ASSUME NEW blocks, NEW p, NEW k \in Nat, Packing(blocks, p, k),
         k + 1 \in 1..Len(blocks), NEW doc, BlockFits(doc, blocks[k + 1]),
         NEW limit, limit = ChunkMax - Crumb(blocks[k + 1].path), blocks[k + 1].len > limit
  PROVE  Packing(blocks, Oversize(p, blocks[k + 1], k + 1, limit), k + 1)
<1> DEFINE n == k + 1  b == blocks[n]
           piece(len) == [path |-> b.path, len |-> len, parts |-> <<n>>, text |-> {Told(n, 0, len)}]
           N == (b.len + limit - 1) \div limit
           len(m) == IF m * limit <= b.len THEN limit ELSE b.len % limit
           cutUp == [m \in 1..N |-> piece(len(m))]
           pieces == IF b.kind = "code" THEN <<piece(b.len)>> ELSE cutUp
           q == Close(p)
<1>1. /\ b.path \in Seq(Nat) /\ b.len \in Nat \ {0} /\ b.kind \in {"code", "prose"}
      /\ Crumb(b.path) \in Nat /\ limit \in Nat \ {0}
  BY RoomUnderHeadings
<1>2. n \in Nat /\ n \in 1..Len(blocks) /\ b.len > limit /\ limit = ChunkMax - Crumb(b.path)
  OBVIOUS
<1>3. Oversize(p, b, n, limit) = [q EXCEPT !.out = @ \o pieces]
  BY DEF Oversize
<1>4. Packing(blocks, q, k) /\ q.open = NoChunk
  BY CloseKeeps
<1>5. N \in Nat \ {0} /\ b.len % limit \in 0..(limit - 1)
  BY <1>1, <1>2, Division
<1> HIDE DEF n, q, N
<1>6. ASSUME NEW l \in Nat, b.kind = "code" => l = b.len
      PROVE  piece(l) \in Chunk /\ Under(blocks, piece(l)) /\ piece(l).parts = <<n>> /\ piece(l).path = b.path
             /\ piece(l).len = l
  <2> DEFINE c == piece(l)
  <2>1. <<n>> \in Seq(Nat) /\ Len(<<n>>) = 1 /\ <<n>>[1] = n /\ <<n>> # <<>>
    BY <1>2
  <2> DEFINE t == Told(n, 0, l)
  <2>a. t \in Scraps /\ t.block = n /\ t.len = l /\ t.again = FALSE
    BY <1>2 DEF Told, Scraps
  <2> HIDE DEF t
  <2>2. c \in Chunk /\ c.parts = <<n>> /\ c.path = b.path /\ c.len = l /\ c.text = {t}
    BY <1>1, <2>1, <2>a DEF Chunk, t
  <2> HIDE DEF c
  <2>3. Under(blocks, c)
    <3>1. \A m \in 1..1 : m = 1
      OBVIOUS
    <3>2. Stands(blocks, c.path, c.parts, c.text) /\ Follows(c.parts, c.text)
      BY <1>2, <1>6, <2>1, <2>2, <2>a, <3>1 DEF Stands, Follows, b
    <3> QED
      BY <1>2, <2>1, <2>2, <3>1, <3>2 DEF Under, b
  <2> QED
    BY <2>2, <2>3 DEF c
<1>7. Pieces(blocks, pieces, n)
  <2>1. CASE b.kind = "code"
    <3> DEFINE c == piece(b.len)
    <3>1. c \in Chunk /\ Under(blocks, c) /\ c.parts = <<n>>
      BY <1>1, <1>6
    <3>2. pieces = <<c>>
      BY <2>1
    <3> HIDE DEF c, pieces, piece
    <3>3. pieces \in Seq(Chunk) /\ Len(pieces) = 1 /\ pieces[1] = c /\ pieces # <<>>
      BY <3>1, <3>2
    <3>4. Len(<<n>>) = 1 /\ <<n>>[1] = n
      BY <1>2
    <3>5. ChunkFits(blocks, c)
      BY <2>1, <3>1, <3>4 DEF ChunkFits, b
    <3>6. \A i \in 1..1 : i = 1
      OBVIOUS
    <3> QED
      BY <3>1, <3>3, <3>5, <3>6 DEF Pieces
  <2>2. CASE b.kind # "code"
    <3>1. pieces = cutUp /\ b.kind = "prose"
      BY <1>1, <2>2
    <3>2. ASSUME NEW m \in 1..N PROVE len(m) \in Nat /\ len(m) <= limit
      BY <1>1, <1>5
    <3>3. ASSUME NEW m \in 1..N
          PROVE  piece(len(m)) \in Chunk /\ piece(len(m)).parts = <<n>> /\ ChunkFits(blocks, piece(len(m)))
      <4> DEFINE l == len(m)  c == piece(l)
      <4>1. l \in Nat /\ l <= limit
        BY <3>2
      <4> HIDE DEF l, len
      <4>2. c \in Chunk /\ Under(blocks, c) /\ c.parts = <<n>> /\ c.path = b.path /\ c.len = l
        BY <1>6, <2>2, <4>1
      <4> HIDE DEF c, piece
      <4>3. Size(c) = Crumb(b.path) + l
        BY <4>2 DEF Size
      <4>4. ChunkMax \in Nat /\ Overlap \in Nat
        BY IndexAssumption
      <4>5. Size(c) <= ChunkMax + Overlap + Sep
        BY <1>1, <1>2, <4>1, <4>3, <4>4 DEF Sep
      <4>6. c \in Chunk /\ c.parts = <<n>> /\ ChunkFits(blocks, c)
        BY <4>2, <4>5 DEF ChunkFits
      <4> QED
        BY <4>6 DEF c, l
    <3> HIDE DEF piece, len, pieces
    <3>4. cutUp \in Seq(Chunk) /\ Len(cutUp) = N /\ \A m \in 1..N : cutUp[m] = piece(len(m))
      BY <1>5, <3>3
    <3> HIDE DEF cutUp
    <3>5. cutUp # <<>>
      BY <1>5, <3>4
    <3> QED
      BY <3>1, <3>3, <3>4, <3>5 DEF Pieces, b
  <2> QED
    BY <2>1, <2>2
<1> HIDE DEF pieces, b, piece, len
<1>8. Packing(blocks, [q EXCEPT !.out = @ \o pieces], k + 1)
  BY <1>4, <1>7, PiecesAdded DEF n
<1> QED
  BY <1>3, <1>8 DEF n, b

(* A block is put into the open chunk, after what stands there.            *)
LEMMA BlockOpened ==
  ASSUME NEW blocks, NEW p, NEW k \in Nat, Packing(blocks, p, k),
         k + 1 \in 1..Len(blocks), p.open = NoChunk \/ p.open.path = blocks[k + 1].path,
         blocks[k + 1].path \in Seq(Nat), NEW at \in Nat, NEW size \in Nat \ {0}, size = blocks[k + 1].len,
         NEW text, Stands(blocks, blocks[k + 1].path, p.open.parts, text), Within(text, k, at),
         Crumb(blocks[k + 1].path) + (at + size + Sep) <= ChunkMax + Overlap + Sep + Sep
  PROVE  Packing(blocks, [p EXCEPT !.open = [path |-> blocks[k + 1].path, len |-> at + size + Sep,
                                             parts |-> Append(p.open.parts, k + 1),
                                             text |-> text \cup {Told(k + 1, at, size)}]], k + 1)
<1> DEFINE n == k + 1  path == blocks[n].path  parts == Append(p.open.parts, n)  len == at + size + Sep
           piece == Told(n, at, size)  all == text \cup {piece}
           c == [path |-> path, len |-> len, parts |-> parts, text |-> all]  q == [p EXCEPT !.open = c]
<1>0. len \in Nat /\ len > Sep /\ at <= len /\ at + size <= len
  BY DEF Sep
<1>a. /\ piece \in Scraps /\ piece.block = n /\ piece.at = at /\ piece.len = size /\ piece.again = FALSE
      /\ size = blocks[n].len
  BY DEF Told, Scraps
<1> HIDE DEF len, piece
<1>1. n \in Nat /\ n \in 1..Len(blocks) /\ path \in Seq(Nat)
      /\ (p.open = NoChunk \/ p.open.path = path) /\ Crumb(path) + len <= ChunkMax + Overlap + Sep + Sep
  BY DEF len
<1>2. /\ p.out \in Seq(Chunk) /\ p.open \in Chunk /\ p.open.parts \in Seq(Nat) /\ Held(p) \in Seq(Nat)
      /\ p \in [out : Seq(Chunk), open : Chunk]
  BY PackingTypes DEF Packing, Packings
<1> HIDE DEF n, path
<1> DEFINE a == p.open.parts  K == Len(a)
<1>3. /\ parts \in Seq(Nat) /\ parts = a \o <<n>> /\ K \in Nat /\ Len(parts) = K + 1
      /\ parts[K + 1] = n /\ \A i \in 1..K : parts[i] = a[i]
  <2>1. a \in Seq(Nat) /\ parts = Append(a, n)
    BY <1>2
  <2>2. parts = a \o <<n>>
    BY <1>1, <2>1, AppendIsConcat
  <2> HIDE DEF a, parts
  <2> QED
    BY <1>1, <2>1, <2>2
<1>4. \A i \in 1..K : a[i] \in 1..Len(blocks) /\ blocks[a[i]].path = path
  <2>1. CASE p.open = NoChunk
    <3>1. a = <<>>
      BY <2>1, Nothing
    <3> QED
      BY <3>1
  <2>2. CASE p.open # NoChunk
    <3>1. Under(blocks, p.open) /\ p.open.path = path
      BY <1>1, <2>2 DEF Packing, OpenFits
    <3> QED
      BY <3>1 DEF Under
  <2> QED
    BY <2>1, <2>2
<1>b. Stands(blocks, path, parts, all) /\ Follows(parts, all) /\ Within(all, n, len)
  <2> HIDE DEF a, K, parts
  <2>1. /\ text \in SUBSET Scraps
        /\ \A x \in text : x.block \in 1..Len(blocks) /\ blocks[x.block].path = path
                          /\ x.block <= k /\ x.at + x.len <= at
        /\ \A x \in text : x.again => x.len <= Overlap
        /\ \A x \in text : ~x.again => /\ \E m \in 1..K : x.block = a[m]
                                       /\ blocks[x.block].kind = "code" => x.len = blocks[x.block].len
        /\ \A m \in 1..K : \E x \in text : x.block = a[m] /\ ~x.again
    BY DEF Stands, Within, path, n, a, K
  <2>2. K + 1 \in 1..(K + 1) /\ \A m \in 1..K : m \in 1..(K + 1)
    BY <1>3
  <2>3. \A m \in 1..(K + 1) : m \in 1..K \/ m = K + 1
    BY <1>3
  <2>4. Stands(blocks, path, parts, all)
    <3>1. all \in SUBSET Scraps
      BY <1>a, <2>1
    <3>2. ASSUME NEW x \in all
          PROVE  /\ x.block \in 1..Len(blocks) /\ blocks[x.block].path = path
                 /\ x.again => x.len <= Overlap
                 /\ ~x.again => /\ \E m \in 1..Len(parts) : x.block = parts[m]
                                /\ blocks[x.block].kind = "code" => x.len = blocks[x.block].len
      <4>1. CASE x \in text
        BY SMTT(30), <1>3, <2>1, <2>2, <4>1
      <4>2. CASE x = piece
        <5>1. x.block = n /\ ~x.again /\ x.len = blocks[n].len
          BY <1>a, <4>2
        <5>2. n \in 1..Len(blocks) /\ blocks[n].path = path /\ parts[K + 1] = n /\ K + 1 \in 1..Len(parts)
          BY <1>1, <1>3, <2>2 DEF path
        <5> QED
          BY <5>1, <5>2
      <4> QED
        BY <4>1, <4>2
    <3>3. ASSUME NEW m \in 1..(K + 1) PROVE \E x \in all : x.block = parts[m] /\ ~x.again
      <4>1. CASE m \in 1..K
        BY <1>3, <2>1, <4>1
      <4>2. CASE m = K + 1
        BY <1>3, <1>a, <4>2
      <4> QED
        BY <2>3, <4>1, <4>2
    <3>4. Len(parts) = K + 1
      BY <1>3
    <3> HIDE DEF all
    <3> QED
      BY <3>1, <3>2, <3>3, <3>4 DEF Stands
  <2>5. Follows(parts, all)
    <3>1. ASSUME NEW x \in all, x.again PROVE x.block < parts[K + 1]
      <4>1. x \in text
        BY <1>a, <3>1
      <4>2. x.block \in Nat /\ x.block <= k /\ n = k + 1
        BY <2>1, <4>1 DEF Scraps, n
      <4>3. parts[K + 1] = n
        BY <1>3
      <4> QED
        BY <4>2, <4>3
    <3> HIDE DEF all
    <3> QED
      BY <1>3, <2>2, <3>1 DEF Follows
  <2>6. Within(all, n, len)
    <3>1. ASSUME NEW x \in text PROVE x.block <= n /\ x.at + x.len <= len
      <4>1. x.block \in Nat /\ x.at \in Int /\ x.len \in Nat /\ x.block <= k /\ x.at + x.len <= at
        BY <2>1 DEF Scraps
      <4>2. n = k + 1
        BY DEF n
      <4> QED
        BY SMTT(30), <1>0, <4>1, <4>2
    <3>2. piece.block <= n /\ piece.at + piece.len <= len
      BY <1>0, <1>1, <1>a
    <3> QED
      BY <3>1, <3>2 DEF Within
  <2> QED
    BY <2>4, <2>5, <2>6
<1> HIDE DEF a, K, parts, all
<1>5. c \in Chunk /\ c.path = path /\ c.len = len /\ c.parts = parts /\ c.text = all
  <2>1. all \in SUBSET Scraps
    BY <1>b DEF Stands
  <2> QED
    BY SMTT(30), <1>0, <1>1, <1>3, <2>1 DEF Chunk
<1> HIDE DEF c
<1>6. q \in Packings /\ q.out = p.out /\ q.open = c
  <2>1. q \in [out : Seq(Chunk), open : Chunk] /\ q.out = p.out /\ q.open = c
    BY <1>2, <1>5
  <2> QED
    BY <1>0, <1>5, <2>1 DEF Packings
<1>7. OpenFits(blocks, c)
  <2>1. \A i \in 1..(K + 1) : i \in 1..K \/ i = K + 1
    BY <1>3
  <2>2. \A i \in 1..(K + 1) : parts[i] \in 1..Len(blocks) /\ blocks[parts[i]].path = path
    BY <1>1, <1>3, <1>4, <2>1 DEF path
  <2>3. parts # <<>>
    BY <1>3
  <2>4. Under(blocks, c)
    BY <1>3, <1>5, <1>b, <2>2, <2>3 DEF Under
  <2>5. Size(c) <= ChunkMax + Overlap + Sep + Sep
    BY <1>1, <1>5 DEF Size
  <2> QED
    BY <1>0, <1>5, <2>4, <2>5 DEF OpenFits
<1> HIDE DEF q
<1>8. Held(q) = Held(p) \o <<n>>
  <2> DEFINE u == FlattenSeq(PartsOf(p.out))  v == <<n>>
  <2>1. u \in Seq(Nat) /\ a \in Seq(Nat) /\ v \in Seq(Nat)
    BY <1>1, <1>2, PartsTaken, OneItem DEF a
  <2>2. Held(p) = u \o a /\ Held(q) = u \o (a \o v)
    BY <1>3, <1>5, <1>6 DEF Held, a
  <2> HIDE DEF u, v
  <2>3. Regroups(Nat)
    BY Regrouped
  <2>4. (u \o a) \o v = u \o (a \o v)
    BY ZenonT(40), <2>1, <2>3 DEF Regroups
  <2> QED
    BY <2>2, <2>4 DEF v
<1>9. Counted(blocks, Held(p) \o <<n>>, n)
  <2> DEFINE t == <<n>>
  <2>1. t \in Seq(Nat) /\ t # <<>> /\ Len(t) = 1 /\ \A i \in 1..Len(t) : t[i] = n
    BY <1>1
  <2> HIDE DEF t
  <2>2. Counted(blocks, Held(p), k)
    BY DEF Packing
  <2>3. Counted(blocks, Held(p) \o t, n)
    BY <1>2, <2>1, <2>2, CountedGrows DEF n
  <2> QED
    BY <2>3 DEF t
<1>10. \A i \in 1..Len(q.out) : ChunkFits(blocks, q.out[i])
  BY <1>6 DEF Packing
<1>11. Packing(blocks, q, n)
  BY <1>5, <1>6, <1>7, <1>8, <1>9, <1>10, <1>b DEF Packing
<1> QED
  BY <1>11 DEF q, c, parts, path, n, len, all, piece

(* The end of a text that stands under a path stands there again.          *)
LEMMA EndingStands ==
  ASSUME NEW blocks, NEW path, NEW parts, NEW text, Stands(blocks, path, parts, text),
         NEW k \in Nat, NEW end \in Nat, Within(text, k, end), NEW from \in Nat, end - from <= Overlap
  PROVE  /\ Stands(blocks, path, <<>>, Ending(text, from))
         /\ \A n \in Nat : end - from <= n => Within(Ending(text, from), k, n)
<1> DEFINE start(x) == IF x.at < from THEN from ELSE x.at
           rest(x) == [block |-> x.block, at |-> start(x) - from, len |-> x.at + x.len - start(x),
                      again |-> TRUE]
           left == {x \in text : x.at + x.len > from}
<1>1. Ending(text, from) = {rest(x) : x \in left}
  BY DEF Ending
<1>2. Overlap \in Nat /\ text \in SUBSET Scraps
  BY IndexAssumption DEF Stands
<1>3. ASSUME NEW x \in left
      PROVE  /\ rest(x) \in Scraps /\ rest(x).block = x.block /\ rest(x).again = TRUE /\ rest(x).len <= Overlap
             /\ rest(x).at + rest(x).len <= end - from
  <2>1. /\ x.block \in Nat /\ x.at \in Int /\ x.len \in Nat /\ x.at + x.len > from
        /\ x.at + x.len <= end
    BY <1>2 DEF Scraps, Within
  <2>2. start(x) \in Int /\ start(x) >= from /\ start(x) <= x.at + x.len
    BY <2>1
  <2> HIDE DEF start
  <2>3. /\ start(x) - from \in Int /\ x.at + x.len - start(x) \in Nat
        /\ x.at + x.len - start(x) <= end - from
        /\ (start(x) - from) + (x.at + x.len - start(x)) <= end - from
    BY <2>1, <2>2
  <2>4. /\ rest(x).block = x.block /\ rest(x).at = start(x) - from /\ rest(x).again = TRUE
        /\ rest(x).len = x.at + x.len - start(x) /\ rest(x) \in Scraps
    BY <2>1, <2>3 DEF Scraps
  <2> HIDE DEF rest
  <2>5. rest(x).len <= Overlap
    BY <1>2, <2>1, <2>2, <2>3, <2>4
  <2> QED
    BY <2>3, <2>4, <2>5
<1> HIDE DEF rest
<1>4. Stands(blocks, path, <<>>, Ending(text, from))
  <2>1. Len(<<>>) = 0 /\ 1..0 = {}
    OBVIOUS
  <2>2. \A x \in left : x.block \in 1..Len(blocks) /\ blocks[x.block].path = path
    BY DEF Stands
  <2>3. \A y \in Ending(text, from) :
          y \in Scraps /\ y.again = TRUE /\ y.len <= Overlap /\ \E x \in left : y.block = x.block
    <3> HIDE DEF left
    <3> QED
      BY <1>1, <1>3
  <2> HIDE DEF left, start
  <2> QED
    BY <2>1, <2>2, <2>3 DEF Stands
<1>5. ASSUME NEW n \in Nat, end - from <= n PROVE Within(Ending(text, from), k, n)
  <2>1. \A x \in left : x.block <= k
    BY DEF Within
  <2>2. ASSUME NEW x \in left PROVE rest(x).block <= k /\ rest(x).at + rest(x).len <= n
    <3> DEFINE y == rest(x)
    <3> HIDE DEF left
    <3>1. y \in Scraps /\ y.block = x.block /\ y.at + y.len <= end - from /\ x.block <= k
      BY <1>3, <2>1
    <3> HIDE DEF y
    <3>2. y.at \in Int /\ y.len \in Nat
      BY <3>1 DEF Scraps
    <3>3. y.at + y.len <= n
      BY <1>5, <3>1, <3>2
    <3> QED
      BY <3>1, <3>3 DEF y
  <2> HIDE DEF left
  <2> QED
    BY <1>1, <2>2 DEF Within
<1> QED
  BY <1>4, <1>5

(* A block within the limit goes where there is room, after an overlap.    *)
LEMMA AdjoinFits ==
  ASSUME NEW blocks, NEW p, NEW k \in Nat, Packing(blocks, p, k),
         k + 1 \in 1..Len(blocks), NEW doc, BlockFits(doc, blocks[k + 1]),
         p.open = NoChunk \/ p.open.path = blocks[k + 1].path,
         NEW limit, limit = ChunkMax - Crumb(blocks[k + 1].path), ~(blocks[k + 1].len > limit)
  PROVE  Packing(blocks, Adjoin(p, blocks[k + 1], k + 1, limit), k + 1)
<1> DEFINE n == k + 1  b == blocks[n]
           full == p.open.len > 0 /\ p.open.len + b.len + Sep > limit
           from == IF p.open.len < Overlap THEN 0 ELSE p.open.len - Overlap
           begun == IF full THEN [NoChunk EXCEPT !.len = p.open.len - from + Sep,
                                                 !.text = Ending(p.open.text, from)]
                    ELSE p.open
           base == IF full THEN Close(p) ELSE p
           added == [base EXCEPT !.open = [path  |-> b.path,
                                           len   |-> begun.len + b.len + Sep,
                                           parts |-> Append(begun.parts, n),
                                           text  |-> begun.text \cup {Told(n, begun.len, b.len)}]]
<1>1. /\ b.path \in Seq(Nat) /\ b.len \in Nat \ {0}
      /\ Crumb(b.path) \in Nat /\ limit \in Nat \ {0}
  BY RoomUnderHeadings
<1>2. n \in 1..Len(blocks) /\ ~(b.len > limit) /\ limit = ChunkMax - Crumb(b.path)
      /\ (p.open = NoChunk \/ p.open.path = b.path)
  OBVIOUS
<1>3. Adjoin(p, b, n, limit) = IF added.open.len >= ChunkTarget THEN Close(added) ELSE added
  BY DEF Adjoin
<1>4. p.open.len \in Nat /\ Overlap \in Nat /\ ChunkMax \in Nat
  BY PackingTypes, IndexAssumption
<1>5. Within(p.open.text, k, p.open.len) /\ Stands(blocks, b.path, p.open.parts, p.open.text)
  <2>1. CASE p.open = NoChunk
    <3>1. {} \in SUBSET Scraps /\ Len(<<>>) = 0 /\ 1..0 = {}
      OBVIOUS
    <3> QED
      BY <2>1, <3>1, Nothing DEF Stands, Packing
  <2>2. CASE p.open # NoChunk
    BY <1>2, <2>2 DEF Packing, OpenFits, Under
  <2> QED
    BY <2>1, <2>2
<1> DEFINE room == Crumb(b.path)  size == b.len
<1>a. /\ size \in Nat \ {0} /\ room \in Nat /\ limit \in Nat /\ size <= limit /\ limit = ChunkMax - room
      /\ size = b.len /\ room = Crumb(b.path)
  BY <1>1, <1>2
<1> HIDE DEF n, b, room, size
<1>6. Packing(blocks, base, k) /\ (base.open = NoChunk \/ base.open.path = b.path)
  <2>1. CASE full
    BY <2>1, CloseKeeps
  <2>2. CASE ~full
    BY <1>2, <2>2
  <2> QED
    BY <2>1, <2>2
<1>7. /\ begun.len \in Nat /\ begun.parts = base.open.parts
      /\ Stands(blocks, b.path, base.open.parts, begun.text) /\ Within(begun.text, k, begun.len)
      /\ room + (begun.len + size + Sep) <= ChunkMax + Overlap + Sep + Sep
  <2>1. CASE full
    <3> DEFINE there == p.open.len  tail == there - from + Sep  text == Ending(p.open.text, from)
    <3>1. base.open.parts = <<>>
      BY <2>1, CloseKeeps, Nothing
    <3>2. begun = [NoChunk EXCEPT !.len = tail, !.text = text]
      BY <2>1
    <3> HIDE DEF base, full
    <3>3. from \in Nat /\ there - from <= Overlap /\ there - from \in Nat
      BY <1>4
    <3> HIDE DEF from, begun
    <3>4. tail \in Nat /\ there - from <= tail /\ tail <= Overlap + Sep
      <4> DEFINE kept == there - from
      <4>1. kept \in Nat /\ kept <= Overlap /\ tail = kept + 2 /\ Overlap \in Nat
        BY <1>4, <3>3 DEF Sep
      <4> HIDE DEF kept, tail
      <4>2. tail \in Nat /\ kept <= tail /\ tail <= Overlap + 2
        BY <4>1
      <4> QED
        BY <4>2 DEF Sep, kept
    <3>5. Stands(blocks, b.path, <<>>, text) /\ Within(text, k, tail)
      <4> HIDE DEF tail
      <4> QED
        BY <1>4, <1>5, <3>3, <3>4, EndingStands
    <3> HIDE DEF tail, text
    <3>6. begun.len = tail /\ begun.parts = <<>> /\ begun.text = text
      BY <3>2 DEF NoChunk
    <3>7. room + (tail + size + 2) <= ChunkMax + Overlap + 2 + 2
      <4>1. tail \in Int /\ tail <= Overlap + 2 /\ Overlap \in Int /\ ChunkMax \in Int
        BY <1>4, <3>4 DEF Sep
      <4>2. size \in Int /\ room \in Int /\ size <= ChunkMax - room
        BY <1>a
      <4> QED
        BY <4>1, <4>2
    <3> QED
      BY <3>1, <3>4, <3>5, <3>6, <3>7 DEF Sep
  <2>2. CASE ~full
    <3> DEFINE there == p.open.len
    <3>1. begun = p.open /\ base = p
      BY <2>2
    <3>2. there = 0 \/ there + size + Sep <= limit
      BY SMTT(30), <1>1, <1>4, <1>a, <2>2 DEF Sep
    <3>3. room + (there + size + 2) <= ChunkMax + Overlap + 2 + 2
      <4>1. there \in Nat /\ Overlap \in Nat /\ ChunkMax \in Nat
        BY <1>4
      <4>2. size \in Nat /\ room \in Nat /\ size <= ChunkMax - room
            /\ (there = 0 \/ there + size + 2 <= ChunkMax - room)
        BY <1>a, <3>2 DEF Sep
      <4> HIDE DEF there
      <4> QED
        BY <4>1, <4>2
    <3> QED
      BY <1>4, <1>5, <3>1, <3>3 DEF Sep
  <2> QED
    BY <2>1, <2>2
<1>8. Packing(blocks, added, n)
  <2> DEFINE at == begun.len  text == begun.text
  <2>1. added = [base EXCEPT !.open = [path |-> b.path, len |-> at + size + Sep,
                                       parts |-> Append(base.open.parts, n),
                                       text |-> text \cup {Told(n, at, size)}]]
    BY <1>7, <1>a
  <2>2. /\ at \in Nat /\ Stands(blocks, b.path, base.open.parts, text) /\ Within(text, k, at)
        /\ Crumb(b.path) + (at + size + Sep) <= ChunkMax + Overlap + Sep + Sep
    BY <1>7, <1>a
  <2> HIDE DEF base, begun, added, at, text
  <2>3. Packing(blocks, [base EXCEPT !.open = [path |-> blocks[k + 1].path, len |-> at + size + Sep,
                                               parts |-> Append(base.open.parts, k + 1),
                                               text |-> text \cup {Told(k + 1, at, size)}]], k + 1)
    BY <1>1, <1>2, <1>6, <1>a, <2>2, BlockOpened DEF b, n
  <2> QED
    BY <2>1, <2>3 DEF b, n
<1>9. n \in Nat
  BY DEF n
<1> HIDE DEF added
<1>10. Packing(blocks, Close(added), n)
  BY <1>8, <1>9, CloseKeeps
<1>11. Packing(blocks, Adjoin(p, b, n, limit), n)
  BY <1>3, <1>8, <1>10
<1> QED
  BY <1>11 DEF n, b

(* One more block is packed.                                               *)
LEMMA BlockPacked ==
  ASSUME NEW blocks, NEW p, NEW k \in Nat, Packing(blocks, p, k),
         k + 1 \in 1..Len(blocks), NEW doc, BlockFits(doc, blocks[k + 1])
  PROVE  Packing(blocks, PackBlock(p, blocks[k + 1], k + 1), k + 1)
<1> DEFINE n == k + 1  b == blocks[n]
           here == IF p.open.path # b.path THEN Close(p) ELSE p
           limit == ChunkMax - Crumb(b.path)
<1>1. Packing(blocks, here, k) /\ (here.open = NoChunk \/ here.open.path = b.path)
  <2>1. CASE p.open.path # b.path
    BY <2>1, CloseKeeps
  <2>2. CASE p.open.path = b.path
    BY <2>2
  <2> QED
    BY <2>1, <2>2
<1>2. PackBlock(p, b, n) = IF b.len > limit THEN Oversize(here, b, n, limit) ELSE Adjoin(here, b, n, limit)
  BY DEF PackBlock
<1>3. limit = ChunkMax - Crumb(blocks[k + 1].path)
  OBVIOUS
<1> HIDE DEF here, limit
<1>4. CASE b.len > limit
  <2>1. Packing(blocks, Oversize(here, b, n, limit), n)
    BY <1>1, <1>3, <1>4, OversizeFits
  <2> QED
    BY <1>2, <1>4, <2>1
<1>5. CASE ~(b.len > limit)
  <2>1. Packing(blocks, Adjoin(here, b, n, limit), n)
    BY <1>1, <1>3, <1>5, AdjoinFits
  <2> QED
    BY <1>2, <1>5, <2>1
<1> QED
  BY <1>4, <1>5

(* Before the first block nothing is held.                                 *)
LEMMA PackingBegins ==
  ASSUME NEW blocks PROVE Packing(blocks, [out |-> <<>>, open |-> NoChunk], 0)
<1> DEFINE p == [out |-> <<>>, open |-> NoChunk]
<1>1. <<>> \in Seq(Chunk) /\ Len(<<>>) = 0 /\ 1..0 = {} /\ 2..0 = {}
  OBVIOUS
<1>2. p \in Packings /\ p.out = <<>> /\ p.open = NoChunk
  BY <1>1, Nothing DEF Packings
<1> HIDE DEF p
<1>3. Held(p) = <<>>
  <2>1. PartsOf(<<>>) = <<>>
    BY DEF PartsOf
  <2>2. FlattenSeq(<<>>) = <<>>
    BY FlattenFacts
  <2> QED
    BY <1>2, <2>1, <2>2, Nothing DEF Held
<1>4. Counted(blocks, Held(p), 0)
  BY <1>1, <1>3 DEF Counted
<1>5. Packing(blocks, p, 0)
  BY <1>1, <1>2, <1>4, Nothing DEF Packing, OpenFits, Within
<1> QED
  BY <1>5 DEF p

(* The blocks of a document are packed.                                    *)
LEMMA PackedFits ==
  ASSUME NEW doc, NEW blocks \in Seq(Blocks), \A k \in 1..Len(blocks) : BlockFits(doc, blocks[k])
  PROVE  /\ Packed(blocks) \in Seq(Chunk)
         /\ \A c \in 1..Len(Packed(blocks)) : ChunkFits(blocks, Packed(blocks)[c])
         /\ Counted(blocks, FlattenSeq(PartsOf(Packed(blocks))), Len(blocks))
<1> DEFINE N == Len(blocks)  start == [out |-> <<>>, open |-> NoChunk]  states == Packings
           Holds(p, n) == Packing(blocks, p, n)
           Step(p, n) == PackBlock(p, blocks[n], n)
<1>0. N \in Nat /\ start \in states /\ Holds(start, 0)
  BY PackingBegins DEF Packing
<1>a. ASSUME NEW n \in 1..N, NEW p, Holds(p, n - 1) PROVE Step(p, n) \in states /\ Holds(Step(p, n), n)
  <2> DEFINE k == n - 1
  <2>1. k \in Nat /\ k + 1 = n /\ n \in 1..Len(blocks)
    BY <1>0
  <2>2. Holds(p, k)
    BY <1>a
  <2> HIDE DEF k
  <2>3. Packing(blocks, PackBlock(p, blocks[k + 1], k + 1), k + 1)
    BY <2>1, <2>2, BlockPacked
  <2>4. Holds(Step(p, n), n)
    BY <2>1, <2>3
  <2> QED
    BY <2>4 DEF Packing
<1> HIDE DEF N, start, Holds, Step, states
<1> DEFINE fit == [n \in 0..N |-> {p \in states : Holds(p, n)}]
           body == [n \in 1..N |-> [p \in states |-> Step(p, n)]]
<1>1. PICK g \in [0..N -> states] : Guided(g, start, N, body, fit)
  <2>1. fit \in [0..N -> SUBSET states]
    OBVIOUS
  <2>2. start \in fit[0]
    BY <1>0
  <2>3. ASSUME NEW n \in 1..N, NEW p \in fit[n - 1] PROVE body[n][p] \in fit[n]
    <3>1. n - 1 \in 0..N /\ n \in 0..N
      BY <1>0
    <3>2. p \in states /\ Holds(p, n - 1)
      BY <2>3, <3>1
    <3> QED
      BY <1>a, <3>1, <3>2
  <2> HIDE DEF fit, body
  <2> QED
    BY <1>0, <2>1, <2>2, <2>3, GuidedLoop
<1>2. ASSUME NEW n \in 1..N PROVE g[n] = Step(g[n - 1], n)
  <2>1. n - 1 \in 0..N
    BY <1>0
  <2>2. g[n - 1] \in states
    <3> HIDE DEF body, states
    <3> QED
      BY <2>1
  <2>3. g[n] = body[n][g[n - 1]]
    BY <1>1 DEF Guided
  <2> QED
    BY <2>2, <2>3
<1>3. g = [n \in 0..N |-> IF n = 0 THEN start ELSE Step(g[n - 1], n)]
  <2>1. ASSUME NEW n \in 0..N PROVE g[n] = IF n = 0 THEN start ELSE Step(g[n - 1], n)
    <3>1. n = 0 \/ n \in 1..N
      BY <1>0
    <3> QED
      BY <1>1, <1>2, <3>1 DEF Guided
  <2> HIDE DEF states, body, fit
  <2> QED
    BY <2>1
<1> DEFINE upto[n \in 0..N] == IF n = 0 THEN start ELSE Step(upto[n - 1], n)
<1>4. upto = [n \in 0..N |-> IF n = 0 THEN start ELSE Step(upto[n - 1], n)]
  BY <1>3
<1>5. Packed(blocks) = Close(upto[N]).out
  BY DEF Packed, N, start, Step
<1> HIDE DEF upto
<1> DEFINE I == {n \in 0..N : Holds(upto[n], n)}
<1>6. 0 \in I /\ \A n \in 1..N : upto[n] = Step(upto[n - 1], n)
  <2>1. 0 \in I
    BY <1>0, <1>4
  <2>2. ASSUME NEW n \in 1..N PROVE upto[n] = Step(upto[n - 1], n)
    <3>1. n \in 0..N /\ n # 0
      BY <1>0
    <3> QED
      BY <1>4, <3>1
  <2> QED
    BY <2>1, <2>2
<1>7. ASSUME NEW n \in 0..(N - 1), n \in I PROVE n + 1 \in I
  <2> DEFINE m == n + 1
  <2>1. m \in 0..N /\ m \in 1..N /\ m - 1 = n /\ Holds(upto[n], n)
    BY <1>0, <1>7
  <2> HIDE DEF m
  <2>2. upto[m] = Step(upto[m - 1], m)
    BY <1>6, <2>1
  <2>3. Holds(upto[m - 1], m - 1)
    BY <2>1
  <2>4. Holds(upto[m], m)
    BY <1>a, <2>1, <2>2, <2>3
  <2> QED
    BY <2>1, <2>4 DEF m
<1>8. Holds(upto[N], N)
  <2>1. N \in 0..N
    BY <1>0
  <2> HIDE DEF I
  <2>2. N \in I
    BY <1>0, <1>6, <1>7, <2>1, Climb
  <2> QED
    BY <2>2 DEF I
<1> DEFINE q == Close(upto[N])
<1>9. Packing(blocks, q, N) /\ q.open = NoChunk
  <2>1. Packing(blocks, upto[N], N)
    BY <1>8 DEF Holds
  <2> QED
    BY <1>0, <2>1, CloseKeeps
<1>10. Packed(blocks) = q.out
  BY <1>5
<1> HIDE DEF q
<1>11. q.out \in Seq(Chunk) /\ FlattenSeq(PartsOf(q.out)) \in Seq(Nat)
  BY <1>9, PackingTypes, PartsTaken
<1>12. Held(q) = FlattenSeq(PartsOf(q.out))
  BY <1>9, <1>11, Nothing, ConcatEmptySeq DEF Held
<1> QED
  BY <1>9, <1>10, <1>11, <1>12 DEF Packing, N

-----------------------------------------------------------------------------
(* Small chunks are merged.                                                *)

AllFit(blocks, chunks) ==
  chunks \in Seq(Chunk) /\ \A c \in 1..Len(chunks) : ChunkFits(blocks, chunks[c])

(* One more chunk that fits.                                               *)
LEMMA FitAppended ==
  ASSUME NEW blocks, NEW chunks, AllFit(blocks, chunks), NEW chunk \in Chunk, ChunkFits(blocks, chunk)
  PROVE  AllFit(blocks, Append(chunks, chunk))
<1> DEFINE K == Len(chunks)  more == Append(chunks, chunk)
<1>1. chunks \in Seq(Chunk) /\ \A c \in 1..K : ChunkFits(blocks, chunks[c])
  BY DEF AllFit
<1>2. /\ K \in Nat /\ more \in Seq(Chunk) /\ Len(more) = K + 1 /\ more[K + 1] = chunk
      /\ \A c \in 1..K : more[c] = chunks[c]
  BY <1>1
<1> HIDE DEF K, more
<1>3. \A c \in 1..(K + 1) : c \in 1..K \/ c = K + 1
  BY <1>2
<1>4. AllFit(blocks, more)
  BY <1>1, <1>2, <1>3 DEF AllFit
<1> QED
  BY <1>4 DEF more

(* Two chunks under one heading that fit together hold what both held.     *)
LEMMA ChunkMerged ==
  ASSUME NEW blocks, NEW chunks, AllFit(blocks, chunks), NEW chunk \in Chunk, ChunkFits(blocks, chunk)
  PROVE  /\ AllFit(blocks, Merge(chunks, chunk))
         /\ FlattenSeq(PartsOf(Merge(chunks, chunk))) = FlattenSeq(PartsOf(chunks)) \o chunk.parts
<1> DEFINE before == Last(chunks)
           joins == /\ chunks # <<>>
                    /\ chunk.len < ChunkMin
                    /\ before.path = chunk.path
                    /\ before.len + chunk.len + Sep <= ChunkMax - Crumb(chunk.path)
           joined == [before EXCEPT !.len = @ + Sep + chunk.len, !.parts = @ \o chunk.parts,
                                    !.text = @ \cup Moved(chunk.text, before.len + Sep)]
<1>1. Merge(chunks, chunk) = IF joins THEN Append(Front(chunks), joined) ELSE Append(chunks, chunk)
  BY DEF Merge
<1>2. /\ chunks \in Seq(Chunk) /\ chunk.path \in Seq(Nat) /\ chunk.len \in Int /\ chunk.parts \in Seq(Nat)
      /\ chunk.text \in SUBSET Scraps
  BY DEF AllFit, Chunk
<1>3. CASE ~joins
  <2>1. Merge(chunks, chunk) = Append(chunks, chunk)
    BY <1>1, <1>3
  <2> QED
    BY <1>2, <2>1, FitAppended, PartsAppended
<1>4. CASE joins
  <2> DEFINE front == Front(chunks)  u == before.parts  v == chunk.parts  len == before.len + Sep + chunk.len
             moved == Moved(chunk.text, before.len + Sep)  text == before.text \cup moved
  <2>1. /\ Len(chunks) \in Nat \ {0} /\ front \in Seq(Chunk) /\ Len(front) = Len(chunks) - 1
        /\ \A i \in 1..(Len(chunks) - 1) : front[i] = chunks[i]
        /\ before = chunks[Len(chunks)] /\ before \in Chunk /\ chunks = Append(front, before)
    BY <1>2, <1>4, FrontAndLast
  <2>2. Merge(chunks, chunk) = Append(front, joined)
    BY <1>1, <1>4
  <2>3. /\ chunk.len < ChunkMin /\ before.path = chunk.path
        /\ before.len + chunk.len + Sep <= ChunkMax - Crumb(chunk.path)
    BY <1>4
  <2>4. AllFit(blocks, front) /\ Under(blocks, before)
    <3>1. \A c \in 1..Len(chunks) : ChunkFits(blocks, chunks[c])
      BY DEF AllFit
    <3>2. \A c \in 1..Len(front) : c \in 1..Len(chunks) /\ front[c] = chunks[c]
      BY <2>1
    <3>3. Len(chunks) \in 1..Len(chunks)
      BY <2>1
    <3> HIDE DEF before, front
    <3> QED
      BY <2>1, <3>1, <3>2, <3>3 DEF AllFit, ChunkFits
  <2>5. before.path \in Seq(Nat) /\ before.len \in Int /\ u \in Seq(Nat) /\ u \o v \in Seq(Nat) /\ len \in Int
        /\ before.text \in SUBSET Scraps /\ before.len + Sep \in Int
    <3>1. before.path \in Seq(Nat) /\ before.len \in Int /\ u \in Seq(Nat) /\ before.text \in SUBSET Scraps
      BY <2>1 DEF Chunk
    <3> QED
      BY <1>2, <3>1, ConcatProperties DEF Sep
  <2>a. /\ Stands(blocks, chunk.path, u, before.text) /\ Follows(u, before.text)
        /\ Stands(blocks, chunk.path, v, moved) /\ Follows(v, moved)
    <3>1. Stands(blocks, chunk.path, v, chunk.text) /\ Follows(v, chunk.text)
      BY DEF ChunkFits, Under
    <3> DEFINE by == before.len + Sep
    <3>2. by \in Int
      BY <2>5
    <3> HIDE DEF by
    <3>3. Stands(blocks, chunk.path, v, Moved(chunk.text, by)) /\ Follows(v, Moved(chunk.text, by))
      BY <1>2, <3>1, <3>2, MovedStands
    <3> QED
      BY <2>3, <2>4, <3>3 DEF Under, by
  <2> HIDE DEF moved
  <2>b. text \in SUBSET Scraps
    BY <2>a DEF Stands
  <2>6. joined \in Chunk /\ joined.path = chunk.path /\ joined.len = len /\ joined.parts = u \o v
        /\ joined.text = text
    <3>1. joined = [before EXCEPT !.len = len, !.parts = u \o v, !.text = text]
      BY DEF moved
    <3> HIDE DEF joined, before, len, u, v, text
    <3> QED
      BY <2>1, <2>3, <2>5, <2>b, <3>1 DEF Chunk
  <2> HIDE DEF joined, front, joins
  <2>7. Under(blocks, joined)
    <3> DEFINE w == u \o v  K == Len(u)  N == Len(v)
    <3>1. /\ w \in Seq(Nat) /\ K \in Nat /\ N \in Nat /\ Len(w) = K + N
          /\ \A i \in 1..(K + N) : w[i] = IF i <= K THEN u[i] ELSE v[i - K]
      <4> DEFINE x == u  y == v
      <4>1. x \in Seq(Nat) /\ y \in Seq(Nat)
        BY <1>2, <2>5
      <4> HIDE DEF x, y
      <4>2. /\ x \o y \in Seq(Nat) /\ Len(x) \in Nat /\ Len(y) \in Nat /\ Len(x \o y) = Len(x) + Len(y)
            /\ \A i \in 1..(Len(x) + Len(y)) : (x \o y)[i] = IF i <= Len(x) THEN x[i] ELSE y[i - Len(x)]
        BY <4>1, ConcatProperties
      <4> QED
        BY <4>2 DEF x, y
    <3>2. /\ u # <<>> /\ \A i \in 1..K : u[i] \in 1..Len(blocks) /\ blocks[u[i]].path = chunk.path
          /\ \A i \in 1..N : v[i] \in 1..Len(blocks) /\ blocks[v[i]].path = chunk.path
      BY <2>3, <2>4 DEF Under, ChunkFits
    <3>3. K # 0
      BY <2>5, <3>2, EmptySeq
    <3>4. w # <<>>
      BY <3>1, <3>3
    <3> HIDE DEF w, K, N, u, v, before
    <3>5. ASSUME NEW i \in 1..(K + N) PROVE w[i] \in 1..Len(blocks) /\ blocks[w[i]].path = chunk.path
      <4>1. CASE i <= K
        <5>1. i \in 1..K /\ w[i] = u[i]
          BY <3>1, <4>1
        <5> QED
          BY <3>2, <5>1
      <4>2. CASE ~(i <= K)
        <5>1. i - K \in 1..N /\ w[i] = v[i - K]
          BY <3>1, <4>2
        <5> QED
          BY <3>2, <5>1
      <4> QED
        BY <4>1, <4>2
    <3>6. Stands(blocks, chunk.path, w, text) /\ Follows(w, text)
      <4>1. \A m \in 1..K : m \in 1..(K + N) /\ w[m] = u[m]
        BY <3>1
      <4>2. ASSUME NEW m \in 1..N PROVE m + K \in 1..(K + N) /\ w[m + K] = v[m]
        <5>1. m + K \in 1..(K + N) /\ ~(m + K <= K) /\ (m + K) - K = m
          BY <3>1
        <5> QED
          BY <3>1, <5>1
      <4>3. \A m \in 1..(K + N) : m \in 1..K \/ m - K \in 1..N
        BY <3>1
      <4>4. /\ \A x \in before.text : /\ x.block \in 1..Len(blocks) /\ blocks[x.block].path = chunk.path
                                      /\ x.again => x.len <= Overlap /\ \E m \in 1..K : x.block < u[m]
                                      /\ ~x.again => /\ \E m \in 1..K : x.block = u[m]
                                                     /\ blocks[x.block].kind = "code" =>
                                                          x.len = blocks[x.block].len
            /\ \A m \in 1..K : \E x \in before.text : x.block = u[m] /\ ~x.again
        BY <2>a DEF Stands, Follows, K
      <4>5. /\ \A x \in moved : /\ x.block \in 1..Len(blocks) /\ blocks[x.block].path = chunk.path
                                /\ x.again => x.len <= Overlap /\ \E m \in 1..N : x.block < v[m]
                                /\ ~x.again => /\ \E m \in 1..N : x.block = v[m]
                                               /\ blocks[x.block].kind = "code" =>
                                                    x.len = blocks[x.block].len
            /\ \A m \in 1..N : \E x \in moved : x.block = v[m] /\ ~x.again
        BY <2>a DEF Stands, Follows, N
      <4>6. ASSUME NEW x \in text
            PROVE  /\ x.block \in 1..Len(blocks) /\ blocks[x.block].path = chunk.path
                   /\ x.again => x.len <= Overlap /\ \E m \in 1..(K + N) : x.block < w[m]
                   /\ ~x.again => /\ \E m \in 1..(K + N) : x.block = w[m]
                                  /\ blocks[x.block].kind = "code" => x.len = blocks[x.block].len
        <5>1. CASE x \in before.text
          BY <4>1, <4>4, <5>1
        <5>2. CASE x \in moved
          <6>1. x.again => \E m \in 1..(K + N) : x.block < w[m]
            <7>1. x.again => \E m \in 1..N : x.block < v[m]
              BY <4>5, <5>2
            <7> QED
              BY <4>2, <7>1
          <6>2. ~x.again => \E m \in 1..(K + N) : x.block = w[m]
            <7>1. ~x.again => \E m \in 1..N : x.block = v[m]
              BY <4>5, <5>2
            <7> QED
              BY <4>2, <7>1
          <6> QED
            BY <4>5, <5>2, <6>1, <6>2
        <5> QED
          BY <5>1, <5>2
      <4>7. ASSUME NEW m \in 1..(K + N) PROVE \E x \in text : x.block = w[m] /\ ~x.again
        <5>1. CASE m \in 1..K
          BY <4>1, <4>4, <5>1
        <5>2. CASE m - K \in 1..N
          <6>1. w[m] = v[m - K]
            <7>1. w[(m - K) + K] = v[m - K] /\ (m - K) + K = m
              BY <3>1, <4>2, <5>2
            <7> QED
              BY <7>1
          <6> QED
            BY <4>5, <5>2, <6>1
        <5> QED
          BY <4>3, <5>1, <5>2
      <4> HIDE DEF text
      <4> QED
        BY <2>b, <3>1, <4>6, <4>7 DEF Stands, Follows
    <3> QED
      BY <2>6, <3>1, <3>4, <3>5, <3>6 DEF Under, w
  <2>8. Size(joined) <= ChunkMax + Overlap + Sep
    <3> DEFINE a == before.len  b == chunk.len  room == Crumb(chunk.path)
    <3>1. Size(joined) = room + (a + Sep + b)
      BY <2>6 DEF Size
    <3>2. a \in Int /\ b \in Int /\ a + b + 2 <= ChunkMax - room /\ ChunkMax \in Nat /\ Overlap \in Nat
      BY <1>2, <2>3, <2>5, IndexAssumption DEF Sep
    <3>3. room \in Nat
      BY <1>2 DEF Crumb
    <3> HIDE DEF a, b, room
    <3>4. room + (a + 2 + b) <= ChunkMax + Overlap + 2
      BY <3>2, <3>3
    <3> QED
      BY <3>1, <3>4 DEF Sep
  <2>9. ChunkFits(blocks, joined)
    BY <2>7, <2>8 DEF ChunkFits
  <2>10. AllFit(blocks, Append(front, joined))
    BY <2>4, <2>6, <2>9, FitAppended
  <2>11. FlattenSeq(PartsOf(Append(front, joined))) = FlattenSeq(PartsOf(chunks)) \o v
    <3> DEFINE f == FlattenSeq(PartsOf(front))
    <3>1. f \in Seq(Nat)
      BY <2>1, PartsTaken
    <3>2. FlattenSeq(PartsOf(Append(front, joined))) = f \o (u \o v)
      BY <2>1, <2>6, PartsAppended
    <3>3. FlattenSeq(PartsOf(chunks)) = f \o u
      BY <2>1, PartsAppended
    <3> HIDE DEF f, u, v, before
    <3>4. Regroups(Nat)
      BY Regrouped
    <3>5. v \in Seq(Nat)
      BY <1>2 DEF v
    <3>6. (f \o u) \o v = f \o (u \o v)
      BY <2>5, <3>1, <3>4, <3>5 DEF Regroups
    <3> QED
      BY <3>2, <3>3, <3>6
  <2> QED
    BY <2>2, <2>10, <2>11
<1> QED
  BY <1>3, <1>4

(* After the chunks are merged where they fit, they hold the same.         *)
LEMMA MergedFits ==
  ASSUME NEW blocks, NEW chunks, AllFit(blocks, chunks)
  PROVE  /\ AllFit(blocks, Merged(chunks))
         /\ FlattenSeq(PartsOf(Merged(chunks))) = FlattenSeq(PartsOf(chunks))
<1> DEFINE N == Len(chunks)  start == <<>>  states == Seq(Chunk)  ps == PartsOf(chunks)
<1>b. /\ chunks \in Seq(Chunk) /\ N \in Nat
      /\ \A c \in 1..N : ChunkFits(blocks, chunks[c]) /\ chunks[c] \in Chunk
  BY DEF AllFit
<1>c. ps \in Seq(Seq(Nat)) /\ Len(ps) = N /\ \A i \in 1..N : ps[i] = chunks[i].parts
  BY <1>b, PartsTaken
<1> HIDE DEF N, ps
<1>d. PICK f \in [0..N -> Seq(Nat)] :
        FlattenSeq(ps) = f[N] /\ f[0] = <<>> /\ \A n \in 1..N : f[n] = f[n - 1] \o ps[n]
  <2>1. \E f \in [0..Len(ps) -> Seq(Nat)] :
          FlattenSeq(ps) = f[Len(ps)] /\ f[0] = <<>> /\ \A n \in 1..Len(ps) : f[n] = f[n - 1] \o ps[n]
    BY <1>c, FlattenLoop
  <2> QED
    BY <1>c, <2>1
<1> DEFINE Holds(m, n) == AllFit(blocks, m) /\ FlattenSeq(PartsOf(m)) = f[n]
           Step(m, n) == Merge(m, chunks[n])
<1>0. N \in Nat /\ start \in states /\ Holds(start, 0)
  <2>1. <<>> \in Seq(Chunk) /\ Len(<<>>) = 0 /\ 1..0 = {} /\ PartsOf(<<>>) = <<>>
    BY DEF PartsOf
  <2>2. FlattenSeq(<<>>) = <<>>
    BY FlattenFacts
  <2> QED
    BY <1>b, <1>d, <2>1, <2>2 DEF AllFit
<1>a. ASSUME NEW n \in 1..N, NEW m, Holds(m, n - 1) PROVE Step(m, n) \in states /\ Holds(Step(m, n), n)
  <2> DEFINE c == chunks[n]
  <2>1. c \in Chunk /\ ChunkFits(blocks, c) /\ ps[n] = c.parts
    BY <1>b, <1>c
  <2> HIDE DEF c
  <2>2. /\ AllFit(blocks, Merge(m, c))
        /\ FlattenSeq(PartsOf(Merge(m, c))) = FlattenSeq(PartsOf(m)) \o c.parts
    BY <1>a, <2>1, ChunkMerged
  <2>3. Holds(Merge(m, c), n)
    BY <1>a, <1>d, <2>1, <2>2
  <2> QED
    BY <2>3 DEF AllFit, c
<1> HIDE DEF start, Holds, Step, states
<1> DEFINE fit == [n \in 0..N |-> {m \in states : Holds(m, n)}]
           body == [n \in 1..N |-> [m \in states |-> Step(m, n)]]
<1>1. PICK g \in [0..N -> states] : Guided(g, start, N, body, fit)
  <2>1. fit \in [0..N -> SUBSET states]
    OBVIOUS
  <2>2. start \in fit[0]
    BY <1>0
  <2>3. ASSUME NEW n \in 1..N, NEW m \in fit[n - 1] PROVE body[n][m] \in fit[n]
    <3>1. n - 1 \in 0..N /\ n \in 0..N
      BY <1>0
    <3>2. m \in states /\ Holds(m, n - 1)
      BY <2>3, <3>1
    <3> QED
      BY <1>a, <3>1, <3>2
  <2> HIDE DEF fit, body
  <2> QED
    BY <1>0, <2>1, <2>2, <2>3, GuidedLoop
<1>2. ASSUME NEW n \in 1..N PROVE g[n] = Step(g[n - 1], n)
  <2>1. n - 1 \in 0..N
    BY <1>0
  <2>2. g[n - 1] \in states
    <3> HIDE DEF body, states
    <3> QED
      BY <2>1
  <2>3. g[n] = body[n][g[n - 1]]
    BY <1>1 DEF Guided
  <2> QED
    BY <2>2, <2>3
<1>3. g = [n \in 0..N |-> IF n = 0 THEN start ELSE Step(g[n - 1], n)]
  <2>1. ASSUME NEW n \in 0..N PROVE g[n] = IF n = 0 THEN start ELSE Step(g[n - 1], n)
    <3>1. n = 0 \/ n \in 1..N
      BY <1>0
    <3> QED
      BY <1>1, <1>2, <3>1 DEF Guided
  <2> HIDE DEF states, body, fit
  <2> QED
    BY <2>1
<1> DEFINE upto[n \in 0..N] == IF n = 0 THEN start ELSE Step(upto[n - 1], n)
<1>4. upto = [n \in 0..N |-> IF n = 0 THEN start ELSE Step(upto[n - 1], n)]
  BY <1>3
<1>5. Merged(chunks) = upto[N]
  BY DEF Merged, N, start, Step
<1> HIDE DEF upto
<1> DEFINE I == {n \in 0..N : Holds(upto[n], n)}
<1>6. 0 \in I /\ \A n \in 1..N : upto[n] = Step(upto[n - 1], n)
  <2>1. 0 \in I
    BY <1>0, <1>4
  <2>2. ASSUME NEW n \in 1..N PROVE upto[n] = Step(upto[n - 1], n)
    <3>1. n \in 0..N /\ n # 0
      BY <1>0
    <3> QED
      BY <1>4, <3>1
  <2> QED
    BY <2>1, <2>2
<1>7. ASSUME NEW n \in 0..(N - 1), n \in I PROVE n + 1 \in I
  <2> DEFINE k == n + 1
  <2>1. k \in 0..N /\ k \in 1..N /\ k - 1 = n /\ Holds(upto[n], n)
    BY <1>0, <1>7
  <2> HIDE DEF k
  <2>2. upto[k] = Step(upto[k - 1], k)
    BY <1>6, <2>1
  <2>3. Holds(upto[k - 1], k - 1)
    BY <2>1
  <2>4. Holds(upto[k], k)
    BY <1>a, <2>1, <2>2, <2>3
  <2> QED
    BY <2>1, <2>4 DEF k
<1>8. Holds(upto[N], N)
  <2>1. N \in 0..N
    BY <1>0
  <2> HIDE DEF I
  <2>2. N \in I
    BY <1>0, <1>6, <1>7, <2>1, Climb
  <2> QED
    BY <2>2 DEF I
<1> QED
  BY <1>d, <1>5, <1>8 DEF Holds, ps

(* What pack returns for the blocks of a document.                         *)
LEMMA ChunksFit ==
  ASSUME NEW doc, NEW blocks \in Seq(Blocks), \A k \in 1..Len(blocks) : BlockFits(doc, blocks[k])
  PROVE  AllFit(blocks, Pack(blocks)) /\ Counted(blocks, FlattenSeq(PartsOf(Pack(blocks))), Len(blocks))
<1> DEFINE chunks == Packed(blocks)
<1>1. /\ chunks \in Seq(Chunk) /\ \A c \in 1..Len(chunks) : ChunkFits(blocks, chunks[c])
      /\ Counted(blocks, FlattenSeq(PartsOf(chunks)), Len(blocks))
  BY PackedFits
<1>2. Pack(blocks) = Merged(chunks)
  BY DEF Pack
<1> HIDE DEF chunks
<1>3. AllFit(blocks, chunks)
  BY <1>1 DEF AllFit
<1> QED
  BY <1>1, <1>2, <1>3, MergedFits

-----------------------------------------------------------------------------
(* What a dry run reports.                                                 *)

(* What a report of a dry run holds: every line that is no heading, in     *)
(* blocks, and every block, in chunks that fit.                            *)
Faithful(report) ==
  /\ report.doc \in Seq(DocLine) /\ report.blocks \in Seq(Blocks)
  /\ \A k \in 1..Len(report.blocks) : BlockFits(report.doc, report.blocks[k])
  /\ Complete(report.doc, FlattenSeq(LinesOf(report.blocks)), Len(report.doc))
  /\ AllFit(report.blocks, report.chunks)
  /\ Counted(report.blocks, FlattenSeq(PartsOf(report.chunks)), Len(report.blocks))

(* A dry run reports faithfully.                                           *)
LEMMA ReportsAreFaithful ==
  ASSUME NEW doc \in Shapes, NEW blocks, blocks = ParseBlocks(doc)
  PROVE  Faithful([doc |-> doc, blocks |-> blocks, chunks |-> Pack(blocks)])
<1> DEFINE r == [doc |-> doc, blocks |-> blocks, chunks |-> Pack(blocks)]
<1>1. doc \in Seq(DocLine)
  BY IndexAssumption
<1>2. /\ blocks \in Seq(Blocks) /\ \A k \in 1..Len(blocks) : BlockFits(doc, blocks[k])
      /\ Complete(doc, FlattenSeq(LinesOf(blocks)), Len(doc))
  BY <1>1, BlocksFit
<1>3. AllFit(blocks, Pack(blocks)) /\ Counted(blocks, FlattenSeq(PartsOf(Pack(blocks))), Len(blocks))
  BY <1>2, ChunksFit
<1>4. r.doc = doc /\ r.blocks = blocks /\ r.chunks = Pack(blocks)
  OBVIOUS
<1> HIDE DEF r
<1>5. Faithful(r)
  BY <1>1, <1>2, <1>3, <1>4 DEF Faithful
<1> QED
  BY <1>5 DEF r

(* Before one, there is nothing to report.                                 *)
LEMMA NoReportIsFaithful == Faithful(NoReport)
<1>1. NoReport.doc = <<>> /\ NoReport.blocks = <<>> /\ NoReport.chunks = <<>>
  BY DEF NoReport
<1>2. /\ <<>> \in Seq(DocLine) /\ <<>> \in Seq(Blocks) /\ <<>> \in Seq(Chunk) /\ Len(<<>>) = 0
      /\ 1..0 = {} /\ 2..0 = {} /\ LinesOf(<<>>) = <<>> /\ PartsOf(<<>>) = <<>>
  BY SMTT(30) DEF LinesOf, PartsOf
<1>3. FlattenSeq(<<>>) = <<>>
  BY FlattenFacts
<1> QED
  BY <1>1, <1>2, <1>3 DEF Faithful, Complete, AllFit, Counted

(* What a reader of a report can rely on.                                  *)
LEMMA FaithfulCut == Faithful(cut) => CutIsFaithful
<1> DEFINE doc == cut.doc  blocks == cut.blocks  chunks == cut.chunks
           lines == FlattenSeq(LinesOf(blocks))  holds == FlattenSeq(PartsOf(chunks))
           K == Len(blocks)  N == Len(doc)
<1>1. SUFFICES ASSUME Faithful(cut) PROVE CutIsFaithful
  OBVIOUS
<1>2. /\ doc \in Seq(DocLine) /\ blocks \in Seq(Blocks) /\ chunks \in Seq(Chunk)
      /\ \A k \in 1..K : BlockFits(doc, blocks[k])
      /\ \A c \in 1..Len(chunks) : ChunkFits(blocks, chunks[c])
      /\ Complete(doc, lines, N) /\ Counted(blocks, holds, K)
  BY <1>1 DEF Faithful, AllFit
<1>3. lines \in Seq(Nat) /\ holds \in Seq(Nat)
  BY <1>2, LinesTaken, PartsTaken
<1>4. DOMAIN doc = 1..N /\ DOMAIN blocks = 1..K /\ DOMAIN chunks = 1..Len(chunks)
      /\ DOMAIN lines = 1..Len(lines) /\ DOMAIN holds = 1..Len(holds)
  BY <1>2, <1>3
<1>5. /\ lines = FlattenSeq([k \in DOMAIN cut.blocks |-> cut.blocks[k].lines])
      /\ holds = FlattenSeq([c \in DOMAIN cut.chunks |-> cut.chunks[c].parts])
  BY DEF LinesOf, PartsOf
<1> HIDE DEF lines, holds, N, K
<1>6. /\ \A m \in 2..Len(lines) : lines[m - 1] < lines[m]
      /\ \A n \in DOMAIN doc : n \in Range(lines) \/ doc[n].is = "heading"
  BY <1>2, <1>4 DEF Complete, Range
<1>7. ASSUME NEW k \in DOMAIN blocks, blocks[k].kind = "code"
      PROVE  /\ doc[blocks[k].lines[1]].is = "fence"
             /\ blocks[k].lines = [m \in DOMAIN blocks[k].lines |-> blocks[k].lines[1] + m - 1]
  <2> DEFINE body == blocks[k].lines
  <2>1. Fenced(doc, body) /\ blocks[k] \in Blocks
    BY <1>2, <1>4, <1>7 DEF BlockFits
  <2>2. body \in Seq(Nat)
    BY <2>1 DEF Blocks
  <2> HIDE DEF body
  <2>3. DOMAIN body = 1..Len(body) /\ body = [m \in 1..Len(body) |-> body[m]]
    BY <2>2
  <2>4. doc[body[1]].is = "fence" /\ \A m \in 1..Len(body) : body[m] = body[1] + m - 1
    BY <2>1 DEF Fenced
  <2>5. body = [m \in DOMAIN body |-> body[1] + m - 1]
    BY <2>3, <2>4
  <2> QED
    BY <2>4, <2>5 DEF body
<1>8. /\ Range(holds) = DOMAIN blocks
      /\ \A m \in 2..Len(holds) :
           holds[m - 1] <= holds[m] /\ (holds[m - 1] = holds[m] => blocks[holds[m]].kind = "prose")
  <2>1. Counted(blocks, holds, K)
    BY <1>2
  <2>2. Range(holds) = 1..K
    BY <1>4, <2>1 DEF Counted, Range
  <2> QED
    BY <1>4, <2>1, <2>2 DEF Counted
<1>9. ASSUME NEW c \in DOMAIN chunks
      PROVE  /\ \A k \in Range(chunks[c].parts) :
                  blocks[k].path = chunks[c].path /\ \E x \in chunks[c].text : x.block = k /\ ~x.again
             /\ \A x \in chunks[c].text :
                  /\ blocks[x.block].path = chunks[c].path
                  /\ IF x.again THEN x.len <= Overlap /\ \E k \in Range(chunks[c].parts) : x.block < k
                     ELSE /\ x.block \in Range(chunks[c].parts)
                          /\ blocks[x.block].kind = "code" => x.len = blocks[x.block].len
             /\ \/ Size(chunks[c]) <= ChunkMax + Overlap + Sep
                \/ Len(chunks[c].parts) = 1 /\ blocks[chunks[c].parts[1]].kind = "code"
  <2>1. ChunkFits(blocks, chunks[c]) /\ chunks[c] \in Chunk
    BY <1>2, <1>4
  <2> DEFINE chunk == chunks[c]  parts == chunk.parts  text == chunk.text
  <2>2. DOMAIN parts = 1..Len(parts) /\ Range(parts) = {parts[m] : m \in 1..Len(parts)}
    <3>1. DOMAIN parts = 1..Len(parts)
      BY <2>1 DEF Chunk
    <3> QED
      BY <3>1 DEF Range
  <2>3. /\ \A m \in 1..Len(parts) : blocks[parts[m]].path = chunk.path
        /\ Stands(blocks, chunk.path, parts, text) /\ Follows(parts, text)
        /\ \/ Size(chunk) <= ChunkMax + Overlap + Sep
           \/ Len(parts) = 1 /\ blocks[parts[1]].kind = "code"
    BY <2>1 DEF ChunkFits, Under
  <2> HIDE DEF chunk, parts, text
  <2>4. \A k \in Range(parts) :
          blocks[k].path = chunk.path /\ \E x \in text : x.block = k /\ ~x.again
    BY SMTT(30), <2>2, <2>3 DEF Stands
  <2>5. ASSUME NEW x \in text
        PROVE  /\ blocks[x.block].path = chunk.path
               /\ IF x.again THEN x.len <= Overlap /\ \E k \in Range(parts) : x.block < k
                  ELSE /\ x.block \in Range(parts)
                       /\ blocks[x.block].kind = "code" => x.len = blocks[x.block].len
    BY <2>2, <2>3 DEF Stands, Follows
  <2> QED
    BY <2>3, <2>4, <2>5 DEF chunk, parts, text
<1> QED
  BY <1>5, <1>6, <1>7, <1>8, <1>9 DEF CutIsFaithful

-----------------------------------------------------------------------------
LEMMA TutorStarts == Init => TutorInv
<1> SUFFICES ASSUME Init PROVE TutorInv
  OBVIOUS
<1>1. [at |-> "waiting", steps |-> 0, state |-> Empty] \in Progress
  BY EmptyState DEF Progress
<1>2. TutorTyped
  BY <1>1, EmptyState DEF Init, TutorInit, TutorTyped
<1>3. \A t \in Turns : turn[t].at = "waiting" /\ turn[t].state = Empty
  BY DEF Init, TutorInit
<1>4. ThreadInv
  BY <1>3, EmptyState, EmptyHistory DEF Init, TutorInit, ThreadInv, TurnFits, Nodes
<1> QED
  BY <1>2, <1>4, IndexStarts DEF Init, TutorInv

LEMMA TutorNext == TutorInv /\ [Next]_vars => TutorInv'
<1> SUFFICES ASSUME TutorInv, [Next]_vars PROVE TutorInv'
  OBVIOUS
<1>1. CASE UNCHANGED tutorVars /\ IndexInv'
  BY <1>1 DEF tutorVars, TutorInv, TutorTyped, ThreadInv
<1>2. CASE IndexStep /\ UNCHANGED tutorVars
  BY <1>1, <1>2, IndexStepKeeps DEF TutorInv
<1>3. CASE UNCHANGED vars
  BY <1>1, <1>3, IndexUntouched DEF vars
<1>4. ASSUME NEW t \in Turns, TurnStep(t) PROVE TutorInv'
  BY <1>4, ChatKeeps, ClassifyKeeps, RetrieveKeeps, GradeKeeps, RewriteKeeps, NoEvidenceKeeps,
     HintKeeps, GenerateKeeps, GuardKeeps, TurnEndsKeeps DEF TurnStep
<1> QED
  BY <1>2, <1>3, <1>4, CrashKeeps DEF Next

(* The inductive invariant: whatever the turns of a conversation have left *)
(* in its checkpoint, every node finds the state its turn needs, every     *)
(* history is guarded, and a marker stands for a whole index.              *)
THEOREM TutorInvariant == Spec => []TutorInv
  BY TutorStarts, TutorNext, PTL DEF Spec

(* A turn answered from the material cites exactly what a query about its  *)
(* own question found, all of it public (nodes.py's retrieve, generate and *)
(* guard), for any number of overlapping turns.                            *)
THEOREM EvidenceIsOwn == Spec => []EvidenceIsForThisTurn
<1>1. TutorInv => EvidenceIsForThisTurn
  BY DEF TutorInv, ThreadInv, TurnFits, Evidence, EvidenceIsForThisTurn
<1> QED
  BY <1>1, TutorInvariant, PTL

(* The history shown to the model holds every question once and after it   *)
(* at most the answer that passed the guard, never a blocked one.          *)
THEOREM HistoriesAreGuarded == Spec => []HistoryIsGuarded
<1>1. TutorInv => HistoryIsGuarded
  BY DEF TutorInv, ThreadInv, Guarded, Fit, HistoryIsGuarded
<1> QED
  BY <1>1, TutorInvariant, PTL

(* The bound on rewrites ends the loop before the recursion limit when the *)
(* limit leaves four nodes and one beside three per rewrite: with the code's *)
(* limit of 12, for up to two rewrites, which is the code's bound.         *)
THEOREM LoopsEndThemselves ==
  ASSUME 3 * MaxRetry + 4 < RecursionLimit
  PROVE  Spec => []LoopEndsItself
<1>1. TutorInv => LoopEndsItself
  <2> SUFFICES ASSUME TutorInv, NEW t \in Turns, turn[t].at \in Nodes
               PROVE  turn[t].steps < RecursionLimit
    BY DEF LoopEndsItself
  <2>1. /\ turn[t].state.retry \in 0..MaxRetry /\ turn[t].steps \in Nat
        /\ turn[t].steps <= Before(turn[t].at) + 3 * turn[t].state.retry
    BY NodeFinds DEF State
  <2>2. Before(turn[t].at) \in 0..4
    BY BeforeIs DEF Nodes
  <2> QED
    BY <2>1, <2>2, TutorAssumption
<1> QED
  BY <1>1, TutorInvariant, PTL

(* Whatever document a dry run is given, its chunks hold every line of it  *)
(* that is no heading, in order and once, prose cut into several pieces    *)
(* apart, under the headings it stood under; every block of code is given  *)
(* whole to one chunk, what a chunk repeats, half a block of code it may   *)
(* be, came before under the same headings and is no longer than the       *)
(* overlap, and nothing but code exceeds the limit by more than that       *)
(* (init_vectorstore.py's parse_blocks and pack).                          *)
THEOREM CutsAreFaithful == Spec => []CutIsFaithful
<1>1. Init => Faithful(cut)
  BY NoReportIsFaithful DEF Init, IndexInit
<1>2. Faithful(cut) /\ [Next]_vars => Faithful(cut)'
  <2> SUFFICES ASSUME Faithful(cut), [Next]_vars PROVE Faithful(cut')
    BY DEF Faithful, AllFit, BlockFits, ChunkFits, Under, Stands, Follows, Complete, Counted
  <2>1. CASE DryRun
    <3>1. PICK doc \in Shapes :
            cut' = [doc |-> doc, blocks |-> ParseBlocks(doc), chunks |-> Pack(ParseBlocks(doc))]
      BY <2>1 DEF DryRun
    <3> QED
      BY <3>1, ReportsAreFaithful
  <2>2. CASE ~DryRun
    <3>1. cut' = cut
      <4>1. CASE IndexStep
        BY <2>2, <4>1 DEF IndexStep, StartBuild, ClearStore, OpenStore, AddBatch, RetryBatch,
           FinishBuild, BuildDies
      <4>2. ASSUME NEW t \in Turns, TurnStep(t) PROVE cut' = cut
        BY <4>2 DEF TurnStep, Unprepared, Chat, Classify, Retrieve, Grade, Rewrite, NoEvidence, Hint,
           Generate, Guard, Fail, indexVars
      <4>3. CASE Crash
        BY <4>3 DEF Crash
      <4>4. CASE UNCHANGED vars
        BY <4>4 DEF vars, indexVars
      <4> QED
        BY <4>1, <4>2, <4>3, <4>4 DEF Next
    <3> QED
      BY <3>1
  <2> QED
    BY ZenonT(30), <2>1, <2>2
<1> QED
  BY <1>1, <1>2, FaithfulCut, PTL DEF Spec

(* The marker vouches for a whole index, whatever runs were killed or      *)
(* resumed before (init_vectorstore.py's main).                            *)
THEOREM MarkersVouch == Spec => []ReadyMeansWhole
<1>1. TutorInv => ReadyMeansWhole
  BY DEF TutorInv, IndexInv, BuildFits, ReadyMeansWhole
<1> QED
  BY <1>1, TutorInvariant, PTL

(* Steps, rewrites, the store and the server's handle keep to their types. *)
THEOREM TutorTypeCorrect == Spec => []TypeOK
<1>1. TutorInv => TypeOK
  BY DEF TutorInv, TutorTyped, Progress, State, IndexInv, IndexTyped, IdsOf, TypeOK
<1> QED
  BY <1>1, TutorInvariant, PTL
=============================================================================

---------------------------- MODULE RoadmapProofs ----------------------------
(***************************************************************************)
(* Theorems about a roadmap request, for any catalog, models, bounds and   *)
(* deadlines.                                                              *)
(*                                                                         *)
(* Whether feedback is written and whether there is another round are      *)
(* decided at two nodes, and the prompt is made at a third; between them   *)
(* lie the client's calls and repetitions.  The inductive invariant says   *)
(* for every node whose judgement is in the state and in the prompt, and   *)
(* how much time a call or a sleep has left.                               *)
(*                                                                         *)
(* What the loops over a selection compute is proved turn by turn, from    *)
(* the state after every turn (LoopRuns, Climb).                           *)
(***************************************************************************)
EXTENDS Roadmap, LoopProofs

Kinds == {"malformed", "range", "repeated", "budget", "order"}
Errors == {"none", "quota", "busy", "unreachable", "refused", "unusable", "budget"}

(* The graph's state and the client's; what the hours add up to and what   *)
(* the weeks look like is left open.                                       *)
Prompts == [budget : {Budget(request)}, weeks : {request.weeks}, hoursPerWeek : {request.hoursPerWeek},
            feedback : SUBSET Kinds]

Clients == [model : Nat, attempt : 0..CallAttempts, error : Errors,
            wait : 0..Timeout, parts : 0..MaxParts]

StateTyped ==
  /\ request \in Requests /\ node \in Nodes /\ clock \in Nat
  /\ state \in [attempts : 0..MaxAttempts, feedback : SUBSET Kinds, prompt : Prompts,
                selected : Selected, total : {state.total}, problems : SUBSET Kinds,
                packed : {state.packed}]
  /\ llm \in Clients

-----------------------------------------------------------------------------
(* Where an answer is awaited, or another is about to be asked for.        *)
Asking == {"attempt", "http", "backoff", "sleep", "raise"}

Wrong == Problems(state.selected, Budget(request))

(* A round ends with a judgement of its own selection; a round that        *)
(* follows another has that judgement in its prompt.                       *)
RoundFits ==
  /\ node = "accept" => state.attempts = 0
  /\ node \in Asking \cup {"generate"} => state.attempts < MaxAttempts
  /\ node \in Asking /\ state.attempts > 0 => state.prompt.feedback = Wrong /\ Wrong # {}
  /\ node = "generate" /\ state.attempts > 0 => state.feedback = Wrong /\ Wrong # {}
  /\ node \in {"route", "schedule", "deliver"} =>
       state.problems = Wrong /\ state.total = HoursOf(Pick(state.selected))
  /\ node = "route" /\ Wrong # {} /\ state.attempts < MaxAttempts => state.feedback = Wrong
  /\ node = "deliver" => state.packed = PackWeeks(Pick(state.selected), request.hoursPerWeek)

(* What the deadline has become with the parts of the last call.           *)
Limit == Deadline + llm.parts * llm.wait

(* What a call waits for next still ends by the limit, a sleep ends before *)
(* the deadline, and only an attempt that is not the last is slept after.  *)
ClockFits ==
  /\ node \in {"attempt", "http"} => llm.attempt \in 1..CallAttempts
  /\ node \in {"backoff", "sleep"} => llm.attempt \in 1..(CallAttempts - 1)
  /\ Timed => clock <= Limit
  /\ node = "http" /\ Timed => clock + llm.wait <= Limit
  /\ node = "sleep" /\ Timed => clock + Back < Deadline

RoadmapInv == StateTyped /\ RoundFits /\ ClockFits

-----------------------------------------------------------------------------
LEMMA WrongTyped == Wrong \subseteq Kinds
  BY DEF Wrong, Problems, Kinds

LEMMA Unchanged ==
  ASSUME UNCHANGED request
  PROVE  Prompts' = Prompts /\ (Timed' <=> Timed)
  BY DEF Prompts, Budget, Timed

LEMMA BackTyped == ASSUME llm.attempt \in 1..CallAttempts PROVE Back \in Nat
  BY PowersAssumption DEF Back

LEMMA Bounds == {CallAttempts, MaxAttempts, Timeout, Deadline} \subseteq Nat \ {0} /\ MaxParts \in Nat
  BY RoadmapAssumption

(* The limit is the deadline for a call whose answer comes in one part,    *)
(* and a wait later with each part more.                                   *)
LEMMA LimitTyped ==
  ASSUME llm \in Clients
  PROVE  /\ Limit \in Nat /\ Deadline <= Limit
         /\ llm.parts = 0 => Limit = Deadline
<1>1. llm.parts \in Nat /\ llm.wait \in Nat /\ Deadline \in Nat
  BY Bounds DEF Clients
<1>2. llm.parts * llm.wait \in Nat
  BY <1>1
<1>3. llm.parts = 0 => llm.parts * llm.wait = 0
  BY <1>1
<1> QED
  BY <1>1, <1>2, <1>3 DEF Limit

(* Where no call and no sleep begins or goes on, the time that has passed  *)
(* and the limit are all that counts.                                      *)
LEMMA ClockStays ==
  ASSUME RoadmapInv, UNCHANGED request, llm'.wait = llm.wait, llm'.parts = llm.parts,
         clock' \in Nat, Timed => clock' <= Limit, node' \notin {"http", "sleep"},
         node' = "attempt" => llm'.attempt \in 1..CallAttempts,
         node' = "backoff" => llm'.attempt \in 1..(CallAttempts - 1)
  PROVE  ClockFits'
<1>1. Limit' = Limit /\ (Timed' <=> Timed)
  BY Unchanged DEF Limit
<1> QED
  BY <1>1 DEF ClockFits

LEMMA OnePartMore ==
  ASSUME NEW p \in Nat, NEW w \in Nat
  PROVE  (p + 1) * w = p * w + w
  OBVIOUS

(* Another node, with nothing else changed that matters here.              *)
LEMMA StateKept ==
  ASSUME RoadmapInv, UNCHANGED <<request, state>>
  PROVE  /\ state' \in [attempts : 0..MaxAttempts, feedback : SUBSET Kinds, prompt : Prompts',
                        selected : Selected, total : {state'.total}, problems : SUBSET Kinds,
                        packed : {state'.packed}]
         /\ request' \in Requests /\ Wrong' = Wrong /\ (Timed' <=> Timed)
         /\ Pick(state.selected)' = Pick(state.selected)
  BY Unchanged DEF RoadmapInv, StateTyped, Wrong

LEMMA StartKeeps == ASSUME RoadmapInv, Accept \/ Refuse PROVE RoadmapInv'
<1>1. /\ UNCHANGED <<request, state, llm, clock>> /\ node = "accept" /\ node' \in {"generate", "done"}
  BY DEF Accept, Refuse, Goto
<1>2. StateTyped'
  BY <1>1, StateKept DEF RoadmapInv, StateTyped, Nodes
<1>3. RoundFits'
  BY <1>1, Bounds DEF RoadmapInv, StateTyped, RoundFits, Asking
<1>4. ClockFits'
  BY <1>1, ClockStays DEF RoadmapInv, StateTyped, ClockFits
<1> QED
  BY <1>2, <1>3, <1>4 DEF RoadmapInv

LEMMA GenerateKeeps == ASSUME RoadmapInv, Generate PROVE RoadmapInv'
<1>1. /\ node = "generate" /\ node' = "attempt" /\ UNCHANGED <<request, clock>>
      /\ state' = [state EXCEPT !.prompt = Prompt(state.feedback)]
      /\ llm' = [llm EXCEPT !.model = 1, !.attempt = 1, !.error = "none"]
  BY DEF Generate, Goto
<1>2. Prompt(state.feedback) \in Prompts /\ Prompt(state.feedback).feedback = state.feedback
  BY DEF Prompt, Prompts, RoadmapInv, StateTyped
<1>3. /\ llm' \in Clients /\ llm'.attempt = 1
      /\ llm'.wait = llm.wait /\ llm'.parts = llm.parts
  <2>1. 1 \in 0..CallAttempts /\ 1 \in Nat /\ "none" \in Errors
    BY Bounds DEF Errors
  <2> QED
    BY <1>1, <2>1 DEF RoadmapInv, StateTyped, Clients
<1>4. /\ state' \in [attempts : 0..MaxAttempts, feedback : SUBSET Kinds, prompt : Prompts,
                     selected : Selected, total : {state.total}, problems : SUBSET Kinds,
                     packed : {state.packed}]
      /\ state'.attempts = state.attempts /\ state'.selected = state.selected
      /\ state'.prompt = Prompt(state.feedback)
      /\ state'.total = state.total /\ state'.packed = state.packed
  BY <1>1, <1>2 DEF RoadmapInv, StateTyped
<1>5. StateTyped'
  BY <1>1, <1>3, <1>4, Unchanged DEF RoadmapInv, StateTyped, Nodes
<1>6. Wrong' = Wrong
  BY <1>1, <1>4 DEF Wrong
<1>7. RoundFits'
  BY <1>1, <1>2, <1>4, <1>6 DEF RoadmapInv, RoundFits, Asking
<1>8. ClockFits'
  BY <1>1, <1>3, Bounds, ClockStays DEF RoadmapInv, StateTyped, ClockFits
<1> QED
  BY <1>5, <1>7, <1>8 DEF RoadmapInv

LEMMA VerifyKeeps == ASSUME RoadmapInv, Verify PROVE RoadmapInv'
<1> DEFINE total == HoursOf(Pick(state.selected))
<1>1. PICK feedback \in SUBSET Kinds :
        /\ state' = [state EXCEPT !.total = total, !.problems = Wrong, !.feedback = feedback]
        /\ Wrong # {} /\ state.attempts < MaxAttempts => feedback = Wrong
  BY WrongTyped DEF Verify, Wrong, Feedback, RoadmapInv, StateTyped
<1>2. node = "verify" /\ node' = "route" /\ UNCHANGED <<request, clock, llm>>
  BY DEF Verify, Goto
<1> HIDE DEF total
<1>3. /\ state' \in [attempts : 0..MaxAttempts, feedback : SUBSET Kinds, prompt : Prompts,
                     selected : Selected, total : {total}, problems : SUBSET Kinds,
                     packed : {state.packed}]
      /\ state'.attempts = state.attempts /\ state'.selected = state.selected
      /\ state'.total = total /\ state'.problems = Wrong /\ state'.feedback = feedback
      /\ state'.packed = state.packed
  BY <1>1, WrongTyped DEF RoadmapInv, StateTyped
<1>4. StateTyped'
  BY <1>2, <1>3, Unchanged DEF RoadmapInv, StateTyped, Nodes
<1>5. Wrong' = Wrong
  BY <1>2, <1>3 DEF Wrong
<1>6. RoundFits'
  BY <1>1, <1>2, <1>3, <1>5 DEF RoundFits, Asking, total
<1>7. ClockFits'
  BY <1>2, ClockStays DEF RoadmapInv, StateTyped, ClockFits
<1> QED
  BY <1>4, <1>6, <1>7 DEF RoadmapInv

LEMMA RouteKeeps == ASSUME RoadmapInv, Route PROVE RoadmapInv'
<1>1. /\ node = "route" /\ UNCHANGED <<request, clock, state, llm>>
      /\ \/ node' = "schedule"
         \/ node' = "generate" /\ state.problems # {} /\ ~(state.attempts >= MaxAttempts)
  BY DEF Route, Goto
<1>2. StateTyped'
  BY <1>1, StateKept DEF RoadmapInv, StateTyped, Nodes
<1>3. RoundFits'
  BY <1>1, StateKept, Bounds DEF RoadmapInv, StateTyped, RoundFits, Asking
<1>4. ClockFits'
  BY <1>1, ClockStays DEF RoadmapInv, StateTyped, ClockFits
<1> QED
  BY <1>2, <1>3, <1>4 DEF RoadmapInv

LEMMA ScheduleKeeps == ASSUME RoadmapInv, Schedule PROVE RoadmapInv'
<1> DEFINE packed == PackWeeks(Pick(state.selected), request.hoursPerWeek)
<1>1. /\ node = "schedule" /\ node' = "deliver" /\ UNCHANGED <<request, clock, llm>>
      /\ state' = [state EXCEPT !.packed = packed]
  BY DEF Schedule, Goto
<1> HIDE DEF packed
<1>2. /\ state' \in [attempts : 0..MaxAttempts, feedback : SUBSET Kinds, prompt : Prompts,
                     selected : Selected, total : {state.total}, problems : SUBSET Kinds,
                     packed : {packed}]
      /\ state'.attempts = state.attempts /\ state'.selected = state.selected
      /\ state'.total = state.total /\ state'.problems = state.problems /\ state'.packed = packed
  BY <1>1 DEF RoadmapInv, StateTyped
<1>3. StateTyped'
  BY <1>1, <1>2, Unchanged DEF RoadmapInv, StateTyped, Nodes
<1>4. Wrong' = Wrong
  BY <1>1, <1>2 DEF Wrong
<1>5. RoundFits'
  BY <1>1, <1>2, <1>4 DEF RoadmapInv, RoundFits, Asking, packed
<1>6. ClockFits'
  BY <1>1, ClockStays DEF RoadmapInv, StateTyped, ClockFits
<1> QED
  BY <1>3, <1>5, <1>6 DEF RoadmapInv

LEMMA DeliverKeeps == ASSUME RoadmapInv, Deliver \/ DeliverFails PROVE RoadmapInv'
<1>1. node' = "done" /\ UNCHANGED <<request, clock, state, llm>>
  BY DEF Deliver, DeliverFails, Goto
<1>2. StateTyped' /\ RoundFits'
  BY <1>1, StateKept DEF RoadmapInv, StateTyped, Nodes, RoundFits, Asking
<1>3. ClockFits'
  BY <1>1, ClockStays DEF RoadmapInv, StateTyped, ClockFits
<1> QED
  BY <1>2, <1>3 DEF RoadmapInv

-----------------------------------------------------------------------------
(* The client.  Within a round neither the selection nor the prompt        *)
(* changes, whatever is repeated.                                          *)
LEMMA RoundGoesOn ==
  ASSUME RoadmapInv, UNCHANGED <<request, state>>, node \in Asking, node' \in Asking \cup {"done"}
  PROVE  RoundFits'
  BY StateKept DEF RoadmapInv, StateTyped, RoundFits, Asking

LEMMA StillTyped ==
  ASSUME RoadmapInv, UNCHANGED <<request, state>>, node' \in Nodes, clock' \in Nat,
         llm' \in Clients
  PROVE  StateTyped'
  BY StateKept DEF RoadmapInv, StateTyped

LEMMA RaiseKeeps ==
  ASSUME RoadmapInv, NEW error \in Errors, node \in {"attempt", "backoff", "raise"}, Raise(error),
         UNCHANGED <<request, clock, state>>
  PROVE  RoadmapInv'
<1>0. node \in Asking
  BY DEF Asking
<1>1. CASE node' = "attempt" /\ llm' = [llm EXCEPT !.model = @ + 1, !.attempt = 1, !.error = "none"]
  <2>1. "none" \in Errors /\ 1 \in 0..CallAttempts /\ 1 \in 1..CallAttempts
    BY Bounds DEF Errors
  <2>a. llm \in Clients /\ llm.model + 1 \in Nat
    BY DEF RoadmapInv, StateTyped, Clients
  <2>2. /\ llm' \in Clients
        /\ llm'.attempt = 1 /\ llm'.wait = llm.wait /\ llm'.parts = llm.parts
    <3>1. llm' \in Clients
      BY <1>1, <2>1, <2>a DEF Clients
    <3>2. llm'.attempt = 1 /\ llm'.wait = llm.wait /\ llm'.parts = llm.parts
      BY <1>1, <2>a DEF Clients
    <3> QED
      BY <3>1, <3>2
  <2>3. node' \in Asking /\ node' \in Nodes /\ clock' \in Nat
    BY <1>1 DEF Asking, Nodes, RoadmapInv, StateTyped
  <2>4. ClockFits'
    BY <1>1, <2>1, <2>2, ClockStays DEF RoadmapInv, StateTyped, ClockFits
  <2> QED
    BY <1>0, <2>2, <2>3, <2>4, StillTyped, RoundGoesOn DEF RoadmapInv
<1>2. CASE node' = "done" /\ llm' = [llm EXCEPT !.error = error]
  <2>1. llm' \in Clients /\ llm'.wait = llm.wait /\ llm'.parts = llm.parts
    BY <1>2 DEF RoadmapInv, StateTyped, Clients
  <2>2. node' \in Nodes /\ clock' \in Nat /\ ClockFits'
    BY <1>2, <2>1, ClockStays DEF Nodes, RoadmapInv, StateTyped, ClockFits
  <2> QED
    BY <1>0, <1>2, <2>1, <2>2, StillTyped, RoundGoesOn DEF RoadmapInv
<1> QED
  BY <1>1, <1>2 DEF Raise, EndWithError, Goto

LEMMA GiveUpKeeps == ASSUME RoadmapInv, GiveUp \/ RaiseLast PROVE RoadmapInv'
<1>1. PICK error \in Errors : Raise(error)
  BY DEF GiveUp, RaiseLast, RoadmapInv, StateTyped, Clients, Errors
<1> QED
  BY <1>1, RaiseKeeps DEF GiveUp, RaiseLast

LEMMA SendKeeps == ASSUME RoadmapInv, Send PROVE RoadmapInv'
<1>1. /\ node = "attempt" /\ node' = "http" /\ ~Late /\ UNCHANGED <<request, clock, state>>
      /\ llm' = [llm EXCEPT !.wait = CallWait, !.parts = 0]
  BY DEF Send, Goto
<1>2. clock \in Nat /\ Deadline \in Nat /\ Timeout \in Nat /\ MaxParts \in Nat
  BY Bounds DEF RoadmapInv, StateTyped
<1>3. Timed => clock < Deadline
  BY <1>1, <1>2 DEF Late
<1>4. CallWait \in 0..Timeout /\ (Timed => clock + CallWait <= Deadline)
  BY <1>2, <1>3 DEF CallWait
<1>5. /\ llm' \in Clients /\ llm'.attempt = llm.attempt
      /\ llm'.wait = CallWait /\ llm'.parts = 0
  <2> DEFINE wait == CallWait
  <2>1. /\ llm \in Clients /\ wait \in 0..Timeout /\ 0 \in 0..MaxParts
        /\ llm' = [llm EXCEPT !.wait = wait, !.parts = 0]
    BY <1>1, <1>2, <1>4 DEF RoadmapInv, StateTyped
  <2> HIDE DEF wait
  <2>2. /\ llm' \in Clients /\ llm'.attempt = llm.attempt
        /\ llm'.wait = wait /\ llm'.parts = 0
    BY <2>1 DEF Clients
  <2> QED
    BY <2>2 DEF wait
<1>6. StateTyped' /\ RoundFits'
  BY <1>1, <1>5, StillTyped, RoundGoesOn DEF RoadmapInv, StateTyped, Asking, Nodes
<1>7. Limit' = Deadline
  <2>1. 0 * CallWait = 0
    BY <1>2, <1>4
  <2> QED
    BY <1>2, <1>5, <2>1 DEF Limit
<1>8. llm'.attempt \in 1..CallAttempts /\ (Timed' <=> Timed)
  BY <1>1, <1>5, Unchanged DEF RoadmapInv, ClockFits
<1>9. ClockFits'
  BY <1>1, <1>2, <1>3, <1>4, <1>5, <1>7, <1>8 DEF ClockFits
<1> QED
  BY <1>6, <1>9 DEF RoadmapInv

(* A socket operation ends by the limit.                                   *)
LEMMA CallEnds ==
  ASSUME RoadmapInv, node = "http", \E d \in 0..llm.wait : Passes(d), UNCHANGED request
  PROVE  clock' \in Nat /\ (Timed => clock' <= Limit)
<1>1. PICK d \in 0..llm.wait : clock' = IF Timed THEN clock + d ELSE clock
  BY DEF Passes
<1>2. clock \in Nat /\ llm.wait \in Nat /\ Limit \in Nat /\ (Timed => clock + llm.wait <= Limit)
  BY LimitTyped, Bounds DEF RoadmapInv, StateTyped, ClockFits, Clients
<1> QED
  BY <1>1, <1>2

(* With each part more the limit moves by the wait the call was given.     *)
LEMMA ReceiveKeeps == ASSUME RoadmapInv, Receive PROVE RoadmapInv'
<1>1. /\ node = "http" /\ node' = node /\ UNCHANGED <<request, state>> /\ clock' \in Nat
      /\ Timed => clock' <= Limit
      /\ llm.parts < MaxParts /\ llm' = [llm EXCEPT !.parts = @ + 1]
  BY CallEnds DEF Receive
<1>2. llm \in Clients /\ llm.parts \in Nat /\ llm.wait \in Nat /\ MaxParts \in Nat
  BY Bounds DEF RoadmapInv, StateTyped, Clients
<1>3. /\ llm' \in Clients /\ llm'.attempt = llm.attempt
      /\ llm'.wait = llm.wait /\ llm'.parts = llm.parts + 1
  BY <1>1, <1>2 DEF Clients
<1>4. StateTyped' /\ RoundFits'
  BY <1>1, <1>3, StillTyped, RoundGoesOn DEF Asking, Nodes
<1>5. Limit \in Nat /\ Limit' = Limit + llm.wait
  <2>1. (llm.parts + 1) * llm.wait = llm.parts * llm.wait + llm.wait
    BY <1>2, OnePartMore
  <2>2. llm.parts * llm.wait \in Nat /\ Deadline \in Nat
    BY <1>2, Bounds
  <2>3. Limit' = Deadline + (llm.parts + 1) * llm.wait
    BY <1>3 DEF Limit
  <2> QED
    BY <1>2, <2>1, <2>2, <2>3 DEF Limit
<1>6. llm'.attempt \in 1..CallAttempts /\ (Timed' <=> Timed)
  BY <1>1, <1>3, Unchanged DEF RoadmapInv, ClockFits
<1>7. ClockFits'
  BY <1>1, <1>2, <1>3, <1>5, <1>6 DEF ClockFits
<1> QED
  BY <1>4, <1>7 DEF RoadmapInv

LEMMA AnsweredKeeps == ASSUME RoadmapInv, Answered PROVE RoadmapInv'
<1>1. PICK s \in Selected : state' = [state EXCEPT !.selected = s, !.attempts = @ + 1]
  BY DEF Answered
<1>2. /\ node = "http" /\ node' = "verify" /\ UNCHANGED <<request, llm>> /\ clock' \in Nat
      /\ Timed => clock' <= Limit
  BY CallEnds DEF Answered, Goto
<1>3. state.attempts + 1 \in 0..MaxAttempts
  BY <1>2, Bounds DEF RoadmapInv, StateTyped, RoundFits, Asking
<1>4. /\ state' \in [attempts : 0..MaxAttempts, feedback : SUBSET Kinds, prompt : Prompts,
                     selected : Selected, total : {state.total}, problems : SUBSET Kinds,
                     packed : {state.packed}]
      /\ state'.total = state.total /\ state'.packed = state.packed
  BY <1>1, <1>3 DEF RoadmapInv, StateTyped
<1>5. StateTyped'
  BY <1>2, <1>4, Unchanged DEF RoadmapInv, StateTyped, Nodes
<1>6. RoundFits'
  BY <1>2 DEF RoundFits, Asking
<1>7. ClockFits'
  BY <1>2, ClockStays
<1> QED
  BY <1>5, <1>6, <1>7 DEF RoadmapInv

LEMMA CallErrorKeeps ==
  ASSUME RoadmapInv, NEW error, TransientError(error) \/ FinalError(error)
  PROVE  RoadmapInv'
<1>1. /\ node = "http" /\ clock' \in Nat /\ UNCHANGED <<request, state>> /\ error \in Errors
      /\ Timed => clock' <= Limit
      /\ llm' = [llm EXCEPT !.error = error]
  BY CallEnds DEF TransientError, FinalError, Errors
<1>2. \/ node' = "raise"
      \/ node' = "backoff" /\ llm.attempt # CallAttempts
  BY DEF TransientError, FinalError, Goto
<1>3. /\ llm' \in Clients
      /\ llm'.attempt = llm.attempt /\ llm'.wait = llm.wait /\ llm'.parts = llm.parts
  BY <1>1 DEF RoadmapInv, StateTyped, Clients
<1>4. StateTyped' /\ RoundFits'
  BY <1>1, <1>2, <1>3, StillTyped, RoundGoesOn DEF Asking, Nodes
<1>5. llm'.attempt \in 1..CallAttempts
      /\ (llm.attempt # CallAttempts => llm'.attempt \in 1..(CallAttempts - 1))
  BY <1>1, <1>3, Bounds DEF RoadmapInv, ClockFits
<1>6. ClockFits'
  BY <1>1, <1>2, <1>3, <1>5, ClockStays
<1> QED
  BY <1>4, <1>6 DEF RoadmapInv

LEMMA UncaughtKeeps == ASSUME RoadmapInv, Uncaught PROVE RoadmapInv'
<1>1. /\ node = "http" /\ node' = "done" /\ clock' \in Nat /\ UNCHANGED <<request, state, llm>>
      /\ Timed => clock' <= Limit
  BY CallEnds DEF Uncaught, EndUncaught, Goto
<1>2. StateTyped' /\ RoundFits'
  BY <1>1, StillTyped, RoundGoesOn DEF Asking, Nodes, RoadmapInv, StateTyped
<1>3. ClockFits'
  BY <1>1, ClockStays
<1> QED
  BY <1>2, <1>3 DEF RoadmapInv

LEMMA BackoffKeeps == ASSUME RoadmapInv, Backoff PROVE RoadmapInv'
<1>1. node = "backoff" /\ UNCHANGED <<request, clock, state>> /\ llm.error \in Errors
  BY DEF Backoff, RoadmapInv, StateTyped, Clients
<1>2. CASE Timed /\ clock + Back >= Deadline
  BY <1>1, <1>2, RaiseKeeps DEF Backoff
<1>3. CASE ~(Timed /\ clock + Back >= Deadline)
  <2>1. node' = "sleep" /\ llm' = llm
    BY <1>3 DEF Backoff, Goto
  <2>2. StateTyped' /\ RoundFits'
    BY <1>1, <2>1, StillTyped, RoundGoesOn DEF Asking, Nodes, RoadmapInv, StateTyped
  <2>3. Back \in Nat /\ Back' = Back /\ clock \in Nat /\ Deadline \in Nat
    <3>1. llm.attempt \in 1..CallAttempts
      BY <1>1, Bounds DEF RoadmapInv, ClockFits
    <3> QED
      BY <2>1, <3>1, BackTyped, Bounds DEF Back, RoadmapInv, StateTyped
  <2>4. ClockFits'
    <3>1. Limit' = Limit /\ (Timed' <=> Timed)
      BY <1>1, <2>1, Unchanged DEF Limit
    <3> QED
      BY <1>1, <1>3, <2>1, <2>3, <3>1 DEF RoadmapInv, ClockFits
  <2> QED
    BY <2>2, <2>4 DEF RoadmapInv
<1> QED
  BY <1>2, <1>3

(* A sleep ends before the deadline.                                       *)
LEMMA SleepEnds ==
  ASSUME RoadmapInv, node = "sleep", Passes(Back), UNCHANGED request
  PROVE  clock' \in Nat /\ (Timed => clock' <= Limit)
<1>1. llm.attempt \in 1..CallAttempts
  BY Bounds DEF RoadmapInv, ClockFits
<1>2. Back \in Nat /\ clock \in Nat /\ Deadline \in Nat /\ Limit \in Nat /\ Deadline <= Limit
  BY <1>1, BackTyped, LimitTyped, Bounds DEF RoadmapInv, StateTyped
<1> QED
  BY <1>2 DEF Passes, RoadmapInv, ClockFits

LEMMA SleepKeeps == ASSUME RoadmapInv, Sleep PROVE RoadmapInv'
<1>1. /\ node = "sleep" /\ node' = "attempt" /\ clock' \in Nat /\ UNCHANGED <<request, state>>
      /\ Timed => clock' <= Limit
      /\ llm' = [llm EXCEPT !.attempt = @ + 1]
  BY SleepEnds DEF Sleep, Goto
<1>2. llm.attempt + 1 \in 1..CallAttempts /\ llm.attempt + 1 \in 0..CallAttempts
  BY <1>1, Bounds DEF RoadmapInv, ClockFits
<1>3. /\ llm' \in Clients
      /\ llm'.attempt = llm.attempt + 1 /\ llm'.wait = llm.wait /\ llm'.parts = llm.parts
  BY <1>1, <1>2 DEF RoadmapInv, StateTyped, Clients
<1>4. StateTyped' /\ RoundFits'
  BY <1>1, <1>3, StillTyped, RoundGoesOn DEF Asking, Nodes
<1>5. ClockFits'
  BY <1>1, <1>2, <1>3, ClockStays
<1> QED
  BY <1>4, <1>5 DEF RoadmapInv

LEMMA TickKeeps == ASSUME RoadmapInv, Tick PROVE RoadmapInv'
<1>1. /\ node \in {"generate", "attempt", "route", "backoff", "raise"} /\ clock' = clock + 1
      /\ UNCHANGED <<request, node, state, llm>> /\ Timed /\ clock < Deadline
  BY DEF Tick
<1>2. StateTyped'
  BY <1>1, StillTyped DEF RoadmapInv, StateTyped
<1>3. RoundFits'
  BY <1>1, StateKept DEF RoadmapInv, RoundFits, Asking
<1>4. ClockFits'
  <2>1. clock \in Nat /\ Deadline \in Nat /\ Limit \in Nat /\ Deadline <= Limit
    BY LimitTyped, Bounds DEF RoadmapInv, StateTyped
  <2> QED
    BY <1>1, <2>1, ClockStays DEF RoadmapInv, ClockFits
<1> QED
  BY <1>2, <1>3, <1>4 DEF RoadmapInv

-----------------------------------------------------------------------------
LEMMA RoadmapStarts == Init => RoadmapInv
<1> SUFFICES ASSUME Init PROVE RoadmapInv
  OBVIOUS
<1>1. /\ request \in Requests /\ node = "accept" /\ clock = 0 /\ llm = NewClient
      /\ state = [attempts |-> 0, feedback |-> {}, prompt |-> Prompt({}),
                  selected |-> <<>>, total |-> 0, problems |-> {}, packed |-> <<>>]
  BY DEF Init, NoFeedback
<1>2. Prompt({}) \in Prompts
  BY DEF Prompt, Prompts
<1>3. llm \in Clients /\ llm.parts = 0
  BY <1>1, Bounds DEF NewClient, Errors, Clients
<1>4. <<>> \in Selected
  <2>1. <<>> \in [1..0 -> Entries]
    OBVIOUS
  <2>2. 0 \in 0..MaxSelected
    BY RoadmapAssumption
  <2> QED
    BY <2>1, <2>2 DEF Selected
<1>5. StateTyped
  BY <1>1, <1>2, <1>3, <1>4, Bounds DEF StateTyped, Nodes
<1>6. ClockFits
  BY <1>1, <1>3, LimitTyped, Bounds DEF ClockFits
<1> QED
  BY <1>1, <1>5, <1>6, Bounds DEF RoadmapInv, RoundFits, Asking

LEMMA RoadmapNext == RoadmapInv /\ [Next]_vars => RoadmapInv'
<1> SUFFICES ASSUME RoadmapInv, [Next]_vars PROVE RoadmapInv'
  OBVIOUS
<1>1. CASE UNCHANGED vars
  <2>1. UNCHANGED <<request, node, clock, state, llm>>
    BY <1>1 DEF vars
  <2>2. StateTyped'
    BY <2>1, StillTyped DEF RoadmapInv, StateTyped
  <2>3. RoundFits'
    BY <2>1, StateKept DEF RoadmapInv, RoundFits
  <2>4. Back' = Back /\ (Timed' <=> Timed) /\ Limit' = Limit
    BY <2>1, Unchanged DEF Back, Limit
  <2>5. ClockFits'
    BY <2>1, <2>4 DEF RoadmapInv, ClockFits
  <2> QED
    BY <2>2, <2>3, <2>5 DEF RoadmapInv
<1>2. CASE Step
  BY <1>2, StartKeeps, GenerateKeeps, VerifyKeeps, RouteKeeps, ScheduleKeeps, DeliverKeeps,
     GiveUpKeeps, SendKeeps, ReceiveKeeps, AnsweredKeeps, CallErrorKeeps, UncaughtKeeps, BackoffKeeps, SleepKeeps
     DEF Step
<1> QED
  BY <1>1, <1>2, TickKeeps DEF Next, Done

(* The inductive invariant: whose judgement is in the state and in the     *)
(* prompt at every node, and how much time a call or a sleep has left.  A  *)
(* roadmap is delivered with the problems, the hours and the weeks of the  *)
(* very selection it shows (engine._result), after at most MaxAttempts     *)
(* selections.                                                             *)
THEOREM RoadmapInvariant == Spec => []RoadmapInv
  BY RoadmapStarts, RoadmapNext, PTL DEF Spec

(* A model that is asked again is told exactly what was wrong with the     *)
(* selection that is being replaced (check's and route's two decisions).   *)
THEOREM RetriesKnowWhy == Spec => []RetryKnowsWhy
<1>1. RoadmapInv => RetryKnowsWhy
  BY DEF RoadmapInv, RoundFits, Asking, Wrong, NoFeedback, RetryKnowsWhy
<1> QED
  BY <1>1, RoadmapInvariant, PTL

(* A served request is late only by the parts of one answer, however many  *)
(* calls, models and rounds there are: each part after the first adds at   *)
(* most the wait its call was given, and everything else ends by the       *)
(* deadline (llm.py's _call).                                              *)
THEOREM LatenessIsBounded == Spec => []LateOnlyByParts
<1>1. RoadmapInv => LateOnlyByParts
  BY DEF RoadmapInv, ClockFits, Limit, LateOnlyByParts
<1> QED
  BY <1>1, RoadmapInvariant, PTL

-----------------------------------------------------------------------------
(* The loops of verify.py, turn by turn.                                   *)
Indices == 0..(Len(Catalog) - 1)
Pairs   == [course : Indices, reason : Nat]

LEMMA CoursesTyped ==
  /\ Len(Catalog) \in Nat
  /\ \A i \in Indices : /\ InCatalog(i) /\ i \in Int
                        /\ CourseAt(i).hours \in Nat \ {0} /\ CourseAt(i).level \in 1..5
<1>1. Len(Catalog) \in Nat /\ DOMAIN Catalog = 1..Len(Catalog)
  BY CatalogAssumption
<1>2. ASSUME NEW i \in Indices
      PROVE  CourseAt(i).hours \in Nat \ {0} /\ CourseAt(i).level \in 1..5
  <2>1. i + 1 \in DOMAIN Catalog
    BY <1>1 DEF Indices
  <2> QED
    <3> DEFINE Courses == [hours : Nat \ {0}, level : 1..5,
                           track : {Catalog[k].track : k \in DOMAIN Catalog}]
    <3>1. Catalog[i + 1] \in Courses
      <4>1. Catalog \in Seq(Courses)
        BY CatalogAssumption
      <4> HIDE DEF Courses
      <4> QED
        BY <1>1, <2>1, <4>1
    <3> QED
      BY <3>1 DEF CourseAt
<1> QED
  BY <1>1, <1>2 DEF Indices, InCatalog

(* Every pair of pick is a course of the catalog; where every entry names  *)
(* a course there is a pair for each, in its place.                        *)
LEMMA PickFacts ==
  ASSUME NEW T, NEW s \in Seq(T)
  PROVE  /\ Pick(s) \in Seq(Pairs)
         /\ (\A k \in 1..Len(s) : InCatalog(s[k])) =>
              Pick(s) = [k \in 1..Len(s) |-> [course |-> s[k], reason |-> k]]
<1> DEFINE S == {i \in ToSet(s) : InCatalog(i)}
           p == Positions(s, S)
<1>1. /\ p \in Seq(Nat)
      /\ \A k \in 1..Len(p) : p[k] \in 1..Len(s) /\ s[p[k]] \in S
      /\ (\A k \in 1..Len(s) : s[k] \in S) => p = [k \in 1..Len(s) |-> k]
  <2> HIDE DEF S
  <2> QED
    BY PositionsFacts
<1>2. Pick(s) = [k \in DOMAIN p |-> [course |-> s[p[k]], reason |-> p[k]]]
  BY DEF Pick
<1>3. \A k \in 1..Len(s) : s[k] \in S <=> InCatalog(s[k])
  BY DEF ToSet
<1>4. \A i \in S : i \in Indices
  BY DEF InCatalog, Indices
<1> HIDE DEF S, p
<1>5. DOMAIN p = 1..Len(p) /\ Len(p) \in Nat /\ Len(s) \in Nat
  BY <1>1
<1>6. Pick(s) \in Seq(Pairs)
  <2>1. ASSUME NEW k \in 1..Len(p) PROVE [course |-> s[p[k]], reason |-> p[k]] \in Pairs
    <3>1. p[k] \in Nat /\ s[p[k]] \in Indices
      BY <1>1, <1>4
    <3> QED
      BY <3>1 DEF Pairs
  <2>2. Pick(s) \in [1..Len(p) -> Pairs]
    BY <1>2, <1>5, <2>1
  <2> QED
    BY <1>5, <2>2
<1>7. ASSUME \A k \in 1..Len(s) : InCatalog(s[k])
      PROVE  Pick(s) = [k \in 1..Len(s) |-> [course |-> s[k], reason |-> k]]
  <2>1. p = [k \in 1..Len(s) |-> k]
    BY <1>1, <1>3, <1>7
  <2> QED
    BY <1>2, <2>1
<1> QED
  BY <1>6, <1>7

LEMMA HoursTyped ==
  ASSUME NEW pairs \in Seq(Pairs)
  PROVE  /\ [k \in DOMAIN pairs |-> CourseAt(pairs[k].course).hours] \in Seq(Nat)
         /\ HoursOf(pairs) \in Nat
<1>1. Len(pairs) \in Nat /\ DOMAIN pairs = 1..Len(pairs)
  OBVIOUS
<1>2. \A k \in 1..Len(pairs) : CourseAt(pairs[k].course).hours \in Nat
  <2>1. \A k \in 1..Len(pairs) : pairs[k] \in Pairs
    OBVIOUS
  <2> QED
    BY <2>1, CoursesTyped DEF Pairs
<1>3. [k \in DOMAIN pairs |-> CourseAt(pairs[k].course).hours] \in [1..Len(pairs) -> Nat]
  BY <1>1, <1>2
<1>4. [k \in DOMAIN pairs |-> CourseAt(pairs[k].course).hours] \in Seq(Nat)
  BY <1>1, <1>3
<1> QED
  BY <1>4, TotalFacts DEF HoursOf

(* Looking at the course of the same track directly before is enough: where*)
(* no such pair falls, no two courses of a track fall, however far apart.  *)
LEMMA OrderedThroughout ==
  ASSUME NEW pairs \in Seq(Pairs)
  PROVE  LevelInverted(pairs) <=>
           \E j, k \in DOMAIN pairs :
             /\ j < k
             /\ CourseAt(pairs[j].course).track = CourseAt(pairs[k].course).track
             /\ CourseAt(pairs[j].course).level > CourseAt(pairs[k].course).level
<1> DEFINE Track(k) == CourseAt(pairs[k].course).track
           Level(k) == CourseAt(pairs[k].course).level
           Falls(j, k) == j < k /\ Track(j) = Track(k) /\ Level(j) > Level(k)
<1>1. DOMAIN pairs = 1..Len(pairs) /\ Len(pairs) \in Nat
  OBVIOUS
<1>2. \A k \in DOMAIN pairs : Level(k) \in Nat
  <2>1. \A k \in DOMAIN pairs : pairs[k].course \in Indices
    <3>1. \A k \in DOMAIN pairs : pairs[k] \in Pairs
      OBVIOUS
    <3> QED
      BY <3>1 DEF Pairs
  <2> QED
    BY <2>1, CoursesTyped
<1>3. LevelInverted(pairs) <=>
        \E k \in DOMAIN pairs, j \in DOMAIN pairs :
          Falls(j, k) /\ \A m \in (j + 1)..(k - 1) : Track(m) # Track(k)
  BY DEF LevelInverted
<1> HIDE DEF Track, Level
<1>4. ASSUME \E j, k \in DOMAIN pairs : Falls(j, k)
      PROVE  \E k \in DOMAIN pairs, j \in DOMAIN pairs :
               Falls(j, k) /\ \A m \in (j + 1)..(k - 1) : Track(m) # Track(k)
  <2> DEFINE D == {d \in Nat : \E j, k \in DOMAIN pairs : Falls(j, k) /\ d = k - j}
  <2>1. D # {} /\ D \subseteq Nat
    <3>1. PICK j \in DOMAIN pairs, k \in DOMAIN pairs : Falls(j, k)
      BY <1>4
    <3>2. k - j \in Nat
      BY <1>1, <3>1
    <3>3. k - j \in D
      BY <3>1, <3>2
    <3> QED
      BY <3>3
  <2>2. PICK d \in D : \A e \in D : d <= e
    <3> HIDE DEF D
    <3> QED
      BY <2>1, Least
  <2>3. PICK j \in DOMAIN pairs, k \in DOMAIN pairs : Falls(j, k) /\ d = k - j
    BY <2>2
  <2>4. ASSUME NEW m \in (j + 1)..(k - 1), Track(m) = Track(k) PROVE FALSE
    <3>1. m \in DOMAIN pairs /\ m \in Nat /\ j < m /\ m < k /\ j \in Nat /\ k \in Nat
      BY <1>1
    <3>2. Falls(j, m) \/ Falls(m, k)
      BY <1>2, <2>3, <2>4, <3>1
    <3>3. m - j \in D \/ k - m \in D
      BY <3>1, <3>2
    <3>4. m - j < d /\ k - m < d /\ d \in Nat /\ m - j \in Nat /\ k - m \in Nat
      BY SMTT(30), <2>3, <3>1
    <3> HIDE DEF D
    <3> QED
      BY <2>2, <3>3, <3>4
  <2> QED
    BY <2>3, <2>4
<1>5. LevelInverted(pairs) <=> \E j, k \in DOMAIN pairs : Falls(j, k)
  BY <1>3, <1>4
<1> QED
  BY <1>5 DEF Track, Level

(* The five checks of verify.check together find nothing wrong exactly     *)
(* when the selection can be followed as it stands.                        *)
LEMMA NothingWrongIsSound ==
  ASSUME NEW T, NEW s \in Seq(T), NEW b \in Nat
  PROVE  Problems(s, b) = {} <=> Sound(s, b)
<1> DEFINE wellFormed == Positions(s, Int)
           indices == [k \in DOMAIN wellFormed |-> s[wellFormed[k]]]
           pairs == Pick(s)
           AllInts == \A k \in 1..Len(s) : s[k] \in Int
           AllIn == \A k \in 1..Len(s) : InCatalog(s[k])
           MalformedBad == Len(indices) < Len(s)
           RangeBad == \E k \in DOMAIN indices : ~InCatalog(indices[k])
           RepeatedBad == \E j, k \in DOMAIN indices : j # k /\ indices[j] = indices[k]
           BudgetBad == HoursOf(pairs) > b
           OrderBad == LevelInverted(pairs)
<1>0. Len(s) \in Nat /\ DOMAIN s = 1..Len(s)
  OBVIOUS
<1>1. Problems(s, b) = {} <=> ~MalformedBad /\ ~RangeBad /\ ~RepeatedBad /\ ~BudgetBad /\ ~OrderBad
  <2>1. Problems(s, b) = {p \in {"malformed", "range", "repeated", "budget", "order"} :
          CASE p = "malformed" -> MalformedBad
            [] p = "range" -> RangeBad
            [] p = "repeated" -> RepeatedBad
            [] p = "budget" -> BudgetBad
            [] OTHER -> OrderBad}
    BY DEF Problems
  <2> HIDE DEF MalformedBad, RangeBad, RepeatedBad, BudgetBad, OrderBad
  <2>2. /\ "malformed" \in Problems(s, b) <=> MalformedBad
        /\ "range" \in Problems(s, b) <=> RangeBad
        /\ "repeated" \in Problems(s, b) <=> RepeatedBad
        /\ "budget" \in Problems(s, b) <=> BudgetBad
        /\ "order" \in Problems(s, b) <=> OrderBad
        /\ Problems(s, b) \subseteq {"malformed", "range", "repeated", "budget", "order"}
    BY <2>1
  <2> QED
    BY <2>2
<1>2. ~MalformedBad <=> AllInts
  <2>1. /\ wellFormed \in Seq(Nat) /\ Len(wellFormed) <= Len(s)
        /\ AllInts => wellFormed = [k \in 1..Len(s) |-> k]
        /\ ~AllInts => Len(wellFormed) < Len(s)
    BY PositionsFacts
  <2> HIDE DEF wellFormed, AllInts
  <2>2. Len(indices) = Len(wellFormed)
    BY <2>1
  <2>3. AllInts => Len(wellFormed) = Len(s)
    BY <1>0, <2>1
  <2> HIDE DEF indices
  <2> QED
    BY <1>0, <2>1, <2>2, <2>3
<1>3. AllInts => indices = s
  <2> HAVE AllInts
  <2>1. wellFormed = [k \in 1..Len(s) |-> k]
    BY PositionsFacts
  <2> HIDE DEF wellFormed
  <2>2. DOMAIN indices = 1..Len(s) /\ \A k \in 1..Len(s) : indices[k] = s[k]
    BY <1>0, <2>1
  <2>3. indices = [k \in 1..Len(s) |-> indices[k]] /\ s = [k \in 1..Len(s) |-> s[k]]
    BY <1>0, <2>2
  <2> QED
    BY <2>2, <2>3
<1>4. AllIn => AllInts
  BY CoursesTyped DEF InCatalog
<1>5. HoursOf(pairs) \in Nat /\ pairs \in Seq(Pairs)
  BY PickFacts, HoursTyped
<1>6. AllIn => pairs = [k \in 1..Len(s) |-> [course |-> s[k], reason |-> k]]
  BY PickFacts
<1>7. \A k \in 1..Len(s) : InCatalog(s[k]) => CourseAt(s[k]).level \in Nat
  <2>1. \A k \in 1..Len(s) : InCatalog(s[k]) => s[k] \in Indices
    BY DEF InCatalog, Indices
  <2> QED
    BY <2>1, CoursesTyped
<1> DEFINE Monotone == \A j, k \in DOMAIN s :
             /\ j < k
             /\ CourseAt(s[j]).track = CourseAt(s[k]).track
             => CourseAt(s[j]).level <= CourseAt(s[k]).level
<1>8. AllIn => (~OrderBad <=> Monotone)
  <2> HAVE AllIn
  <2>1. /\ DOMAIN pairs = 1..Len(s)
        /\ \A k \in 1..Len(s) : pairs[k].course = s[k]
    BY <1>6
  <2> HIDE DEF pairs
  <2>2. OrderBad <=> \E j, k \in 1..Len(s) :
             /\ j < k
             /\ CourseAt(s[j]).track = CourseAt(s[k]).track
             /\ CourseAt(s[j]).level > CourseAt(s[k]).level
    BY <1>5, <2>1, OrderedThroughout
  <2>3. \A k \in 1..Len(s) : CourseAt(s[k]).level \in Nat
    BY <1>7
  <2> HIDE DEF AllIn, OrderBad
  <2> QED
    BY <1>0, <2>2, <2>3
<1>9. ~BudgetBad <=> HoursOf(pairs) <= b
  <2> HIDE DEF pairs
  <2> QED
    BY <1>5
<1>10. AllInts => (~RangeBad <=> AllIn) /\ (~RepeatedBad <=> IsInjective(s))
  <2> HAVE AllInts
  <2>1. indices = s
    BY <1>3
  <2> HIDE DEF indices, AllInts
  <2> QED
    BY <1>0, <2>1 DEF IsInjective
<1>11. Sound(s, b) <=> AllIn /\ IsInjective(s) /\ HoursOf(pairs) <= b /\ Monotone
  BY <1>0 DEF Sound
<1> HIDE DEF MalformedBad, RangeBad, RepeatedBad, BudgetBad, OrderBad, AllInts, AllIn, Monotone
<1> QED
  BY <1>1, <1>2, <1>4, <1>8, <1>9, <1>10, <1>11

Slots == [course : Indices, hours : Nat \ {0}]

(* The hours of one week, and of one course: an element for each, naming   *)
(* the course heard.                                                       *)
HoursHeard(course, hours) == [h \in 1..hours |-> course]
SlotsHeard(week) == [s \in DOMAIN week |-> HoursHeard(week[s].course, week[s].hours)]
SlotHours(week) == [s \in DOMAIN week |-> week[s].hours]
HeardIn(week) == FlattenSeq(SlotsHeard(week))

LEMMA HoursHeardFacts ==
  ASSUME NEW c \in Indices, NEW a \in Nat, NEW b \in Nat
  PROVE  /\ HoursHeard(c, a) \in Seq(Indices)
         /\ HoursHeard(c, a) \o HoursHeard(c, b) = HoursHeard(c, a + b)
<1>1. \A n \in Nat : HoursHeard(c, n) \in [1..n -> Indices]
  BY DEF HoursHeard
<1>2. \A n \in Nat : HoursHeard(c, n) \in Seq(Indices) /\ Len(HoursHeard(c, n)) = n
  <2>1. ASSUME NEW n \in Nat PROVE HoursHeard(c, n) \in Seq(Indices) /\ Len(HoursHeard(c, n)) = n
    <3>1. HoursHeard(c, n) \in [1..n -> Indices]
      BY <1>1
    <3>2. HoursHeard(c, n) \in Seq(Indices)
      BY <3>1
    <3>3. DOMAIN HoursHeard(c, n) = 1..n
      BY <3>1
    <3> QED
      BY <3>2, <3>3
  <2> QED
    BY <2>1
<1> DEFINE x == HoursHeard(c, a)  y == HoursHeard(c, b)  z == HoursHeard(c, a + b)
<1>3. /\ x \in Seq(Indices) /\ Len(x) = a /\ y \in Seq(Indices) /\ Len(y) = b
      /\ z \in Seq(Indices) /\ Len(z) = a + b
      /\ \A h \in 1..a : x[h] = c
      /\ \A h \in 1..b : y[h] = c
      /\ \A h \in 1..(a + b) : z[h] = c
  <2>1. a + b \in Nat
    OBVIOUS
  <2>2. \A n \in Nat : \A h \in 1..n : HoursHeard(c, n)[h] = c
    BY DEF HoursHeard
  <2> QED
    BY <1>2, <2>1, <2>2
<1> HIDE DEF x, y, z
<1>4. x \o y \in Seq(Indices) /\ Len(x \o y) = a + b
  BY <1>3, ConcatProperties
<1>5. ASSUME NEW h \in 1..(a + b) PROVE (x \o y)[h] = z[h]
  <2>1. (x \o y)[h] = IF h <= Len(x) THEN x[h] ELSE y[h - Len(x)]
    BY <1>3, ConcatProperties
  <2> QED
    BY <1>3, <2>1
<1>6. x \o y = z
  BY <1>3, <1>4, <1>5, SeqEqual
<1> QED
  BY <1>3, <1>6 DEF x, y, z

LEMMA WeekTyped ==
  ASSUME NEW week \in Seq(Slots)
  PROVE  /\ SlotsHeard(week) \in Seq(Seq(Indices))
         /\ SlotHours(week) \in Seq(Nat)
         /\ HeardIn(week) \in Seq(Indices) /\ WeekHours(week) \in Nat
<1>1. Len(week) \in Nat /\ DOMAIN week = 1..Len(week) /\ \A s \in 1..Len(week) : week[s] \in Slots
  OBVIOUS
<1>2. \A s \in 1..Len(week) : /\ week[s].hours \in Nat
                              /\ HoursHeard(week[s].course, week[s].hours) \in Seq(Indices)
  BY <1>1, HoursHeardFacts DEF Slots
<1>3. SlotsHeard(week) \in [1..Len(week) -> Seq(Indices)]
  BY <1>1, <1>2 DEF SlotsHeard
<1>4. SlotHours(week) \in [1..Len(week) -> Nat]
  BY <1>1, <1>2 DEF SlotHours
<1>5. /\ SlotsHeard(week) \in Seq(Seq(Indices))
      /\ SlotHours(week) \in Seq(Nat)
  <2>1. SlotsHeard(week) \in Seq(Seq(Indices))
    BY <1>1, <1>3
  <2>2. SlotHours(week) \in Seq(Nat)
    BY <1>1, <1>4
  <2> QED
    BY <2>1, <2>2
<1> QED
  BY <1>5, FlattenFacts, TotalFacts DEF HeardIn, WeekHours, SlotHours

(* One slot more in a week adds its hours at the end.                      *)
LEMMA WeekAppend ==
  ASSUME NEW week \in Seq(Slots), NEW slot \in Slots
  PROVE  /\ HeardIn(Append(week, slot)) = HeardIn(week) \o HoursHeard(slot.course, slot.hours)
         /\ WeekHours(Append(week, slot)) = WeekHours(week) + slot.hours
<1> DEFINE L == Len(week)
           more == Append(week, slot)
           heard == SlotsHeard(week)
           hours == SlotHours(week)
           heard2 == SlotsHeard(more)
           hours2 == SlotHours(more)
           block == HoursHeard(slot.course, slot.hours)
<1>1. /\ L \in Nat /\ more \in Seq(Slots) /\ Len(more) = L + 1 /\ more[L + 1] = slot
      /\ \A s \in 1..L : more[s] = week[s]
      /\ DOMAIN week = 1..L /\ DOMAIN more = 1..(L + 1)
  BY AppendProperties
<1>2. slot.hours \in Nat /\ block \in Seq(Indices)
  BY HoursHeardFacts DEF Slots
<1>3. heard \in Seq(Seq(Indices)) /\ hours \in Seq(Nat) /\ Len(heard) = L /\ Len(hours) = L
  <2>1. DOMAIN heard = 1..L /\ DOMAIN hours = 1..L
    BY <1>1 DEF SlotsHeard, SlotHours
  <2>2. heard \in Seq(Seq(Indices)) /\ hours \in Seq(Nat)
    BY WeekTyped
  <2> HIDE DEF heard, hours
  <2> QED
    BY <1>1, <2>1, <2>2
<1>4. heard2 \in Seq(Seq(Indices)) /\ hours2 \in Seq(Nat)
  <2> HIDE DEF more
  <2> QED
    BY <1>1, WeekTyped
<1>5. /\ \A s \in 1..L : heard2[s] = heard[s] /\ hours2[s] = hours[s]
      /\ heard2[L + 1] = block /\ hours2[L + 1] = slot.hours
      /\ Len(heard2) = L + 1 /\ Len(hours2) = L + 1
  <2> HIDE DEF more, block
  <2>1. \A s \in 1..L : s \in 1..(L + 1)
    BY <1>1
  <2>2. L + 1 \in 1..(L + 1)
    BY <1>1
  <2>3. \A s \in 1..L : heard2[s] = heard[s] /\ hours2[s] = hours[s]
    BY <1>1, <2>1 DEF SlotsHeard, SlotHours
  <2>4. heard2[L + 1] = block /\ hours2[L + 1] = slot.hours
    BY <1>1, <2>2 DEF block, SlotsHeard, SlotHours
  <2>5. DOMAIN heard2 = 1..(L + 1) /\ DOMAIN hours2 = 1..(L + 1)
    BY <1>1 DEF SlotsHeard, SlotHours
  <2> HIDE DEF heard, heard2, hours, hours2
  <2> QED
    BY <1>1, <1>4, <2>3, <2>4, <2>5
<1> HIDE DEF heard, heard2, hours, hours2, block, more
<1>6. heard2 = Append(heard, block)
  <2>1. /\ Append(heard, block) \in Seq(Seq(Indices)) /\ Len(Append(heard, block)) = L + 1
        /\ \A s \in 1..L : Append(heard, block)[s] = heard[s]
        /\ Append(heard, block)[L + 1] = block
    BY <1>2, <1>3, AppendProperties
  <2>2. \A s \in 1..(L + 1) : heard2[s] = Append(heard, block)[s]
    BY <1>1, <1>5, <2>1
  <2> QED
    BY <1>4, <1>5, <2>1, <2>2, SeqEqual
<1>7. hours2 = Append(hours, slot.hours)
  <2>1. /\ Append(hours, slot.hours) \in Seq(Nat) /\ Len(Append(hours, slot.hours)) = L + 1
        /\ \A s \in 1..L : Append(hours, slot.hours)[s] = hours[s]
        /\ Append(hours, slot.hours)[L + 1] = slot.hours
    BY <1>2, <1>3, AppendProperties
  <2>2. \A s \in 1..(L + 1) : hours2[s] = Append(hours, slot.hours)[s]
    BY <1>1, <1>5, <2>1
  <2> QED
    BY <1>4, <1>5, <2>1, <2>2, SeqEqual
<1>8. FlattenSeq(heard2) = FlattenSeq(heard) \o block
  BY <1>2, <1>3, <1>6, FlattenAppend
<1>9. Total(hours2) = Total(hours) + slot.hours
  BY <1>2, <1>3, <1>7, TotalAppend
<1> QED
  BY <1>8, <1>9 DEF heard, heard2, hours, hours2, block, more, HeardIn, WeekHours, SlotHours

WeeksHeard(weeks) == [w \in DOMAIN weeks |-> HeardIn(weeks[w])]

LEMMA TimelineIsHeard == ASSUME NEW weeks PROVE Timeline(weeks) = FlattenSeq(WeeksHeard(weeks))
  BY DEF Timeline, WeeksHeard, HeardIn, SlotsHeard, HoursHeard

LEMMA WeeksTyped ==
  ASSUME NEW weeks \in Seq(Seq(Slots))
  PROVE  WeeksHeard(weeks) \in Seq(Seq(Indices)) /\ Timeline(weeks) \in Seq(Indices)
<1>1. /\ Len(weeks) \in Nat /\ DOMAIN weeks = 1..Len(weeks)
      /\ \A w \in 1..Len(weeks) : weeks[w] \in Seq(Slots)
  OBVIOUS
<1>2. \A w \in 1..Len(weeks) : HeardIn(weeks[w]) \in Seq(Indices)
  BY <1>1, WeekTyped
<1>3. WeeksHeard(weeks) \in [1..Len(weeks) -> Seq(Indices)]
  BY <1>1, <1>2 DEF WeeksHeard
<1>4. WeeksHeard(weeks) \in Seq(Seq(Indices))
  <2> DEFINE heard == WeeksHeard(weeks)  n == Len(weeks)  T == Seq(Indices)
  <2>1. heard \in [1..n -> T] /\ n \in Nat
    BY <1>1, <1>3
  <2> HIDE DEF heard, n, T
  <2>2. heard \in Seq(T)
    BY <2>1
  <2> QED
    BY <2>2 DEF heard, T
<1> QED
  BY <1>4, FlattenFacts, TimelineIsHeard

(* One week more is heard after the others.                                *)
LEMMA TimelineAppend ==
  ASSUME NEW weeks \in Seq(Seq(Slots)), NEW week \in Seq(Slots)
  PROVE  Timeline(Append(weeks, week)) = Timeline(weeks) \o HeardIn(week)
<1> DEFINE L == Len(weeks)
           more == Append(weeks, week)
           heard == WeeksHeard(weeks)
           heard2 == WeeksHeard(more)
           block == HeardIn(week)
<1>1. /\ L \in Nat /\ more \in Seq(Seq(Slots)) /\ Len(more) = L + 1 /\ more[L + 1] = week
      /\ \A w \in 1..L : more[w] = weeks[w]
      /\ DOMAIN weeks = 1..L /\ DOMAIN more = 1..(L + 1)
  BY AppendProperties
<1>2. block \in Seq(Indices)
  BY WeekTyped
<1>3. heard \in Seq(Seq(Indices)) /\ Len(heard) = L
  <2>1. DOMAIN heard = 1..L
    BY <1>1 DEF WeeksHeard
  <2>2. heard \in Seq(Seq(Indices))
    BY WeeksTyped
  <2> HIDE DEF heard
  <2> QED
    BY <1>1, <2>1, <2>2
<1>4. heard2 \in Seq(Seq(Indices))
  <2> HIDE DEF more
  <2> QED
    BY <1>1, WeeksTyped
<1>5. /\ \A w \in 1..L : heard2[w] = heard[w]
      /\ heard2[L + 1] = block /\ Len(heard2) = L + 1
  <2> HIDE DEF more
  <2>1. \A w \in 1..L : w \in 1..(L + 1)
    BY <1>1
  <2>2. L + 1 \in 1..(L + 1)
    BY <1>1
  <2>3. \A w \in 1..L : heard2[w] = heard[w]
    BY <1>1, <2>1 DEF WeeksHeard
  <2>4. heard2[L + 1] = block
    BY <1>1, <2>2 DEF WeeksHeard
  <2>5. DOMAIN heard2 = 1..(L + 1)
    BY <1>1 DEF WeeksHeard
  <2> HIDE DEF heard, heard2, block
  <2> QED
    BY <1>1, <1>4, <2>3, <2>4, <2>5
<1> HIDE DEF heard, heard2, block, more
<1>6. heard2 = Append(heard, block)
  <2>1. /\ Append(heard, block) \in Seq(Seq(Indices)) /\ Len(Append(heard, block)) = L + 1
        /\ \A w \in 1..L : Append(heard, block)[w] = heard[w]
        /\ Append(heard, block)[L + 1] = block
    BY <1>2, <1>3, AppendProperties
  <2>2. \A w \in 1..(L + 1) : heard2[w] = Append(heard, block)[w]
    BY <1>1, <1>5, <2>1
  <2> QED
    BY <1>4, <1>5, <2>1, <2>2, SeqEqual
<1>7. FlattenSeq(heard2) = FlattenSeq(heard) \o block
  BY <1>2, <1>3, <1>6, FlattenAppend
<1> QED
  BY <1>7, TimelineIsHeard DEF heard, heard2, block, more

-----------------------------------------------------------------------------
(* Packing.  The state of pack_weeks' loops: closed weeks are full, the    *)
(* open one is not, and what it holds is counted in used.                  *)
WeekStates == [weeks : Seq(Seq(Slots)), current : Seq(Slots), used : Nat,
               remaining : Nat, course : Indices]

Packs(hoursPerWeek) ==
  {st \in WeekStates :
     /\ st.used < hoursPerWeek
     /\ WeekHours(st.current) = st.used
     /\ st.current = <<>> <=> st.used = 0
     /\ \A w \in DOMAIN st.weeks : WeekHours(st.weeks[w]) = hoursPerWeek}

(* All hours laid out so far, in order, and their number.                  *)
Heard(st) == Timeline(st.weeks) \o HeardIn(st.current)
Laid(st, hoursPerWeek) == Len(st.weeks) * hoursPerWeek + st.used

(* A turn takes at least an hour of the course and hears it after all      *)
(* others; no hour is lost where a week is closed.                         *)
LEMMA TurnTakes ==
  ASSUME NEW hpw \in Nat \ {0}, NEW st \in Packs(hpw), st.remaining # 0
  PROVE  LET next == TakeHours(st, hpw)
         IN  /\ next \in Packs(hpw) /\ next.course = st.course
             /\ next.remaining < st.remaining
             /\ Heard(next) = Heard(st) \o HoursHeard(st.course, st.remaining - next.remaining)
             /\ Laid(next, hpw) + next.remaining = Laid(st, hpw) + st.remaining
<1> DEFINE take == IF st.remaining <= hpw - st.used THEN st.remaining ELSE hpw - st.used
           slot == [course |-> st.course, hours |-> take]
           next == TakeHours(st, hpw)
           week == Append(st.current, slot)
           block == HoursHeard(st.course, take)
<1>1. /\ st \in WeekStates /\ st.used < hpw /\ WeekHours(st.current) = st.used
      /\ \A w \in DOMAIN st.weeks : WeekHours(st.weeks[w]) = hpw
  BY DEF Packs
<1>2. /\ st.weeks \in Seq(Seq(Slots)) /\ st.current \in Seq(Slots) /\ st.used \in Nat
      /\ st.remaining \in Nat \ {0} /\ st.course \in Indices /\ hpw \in Nat
  BY <1>1 DEF WeekStates
<1>3. take \in Nat \ {0} /\ take <= st.remaining /\ st.used + take <= hpw
  BY <1>1, <1>2
<1>4. slot \in Slots /\ slot.course = st.course /\ slot.hours = take
  <2> HIDE DEF take
  <2> QED
    BY <1>2, <1>3 DEF Slots
<1>5. next = [st EXCEPT !.weeks     = IF st.used + take >= hpw THEN Append(st.weeks, week) ELSE st.weeks,
                        !.current   = IF st.used + take >= hpw THEN <<>> ELSE week,
                        !.used      = IF st.used + take >= hpw THEN 0 ELSE st.used + take,
                        !.remaining = st.remaining - take]
  BY <1>2 DEF TakeHours
<1> HIDE DEF take, slot, next
<1>6. /\ week \in Seq(Slots) /\ week # <<>>
      /\ HeardIn(week) = HeardIn(st.current) \o block /\ WeekHours(week) = st.used + take
  <2>1. /\ HeardIn(week) = HeardIn(st.current) \o HoursHeard(slot.course, slot.hours)
        /\ WeekHours(week) = WeekHours(st.current) + slot.hours
    BY <1>2, <1>4, WeekAppend
  <2>2. week \in Seq(Slots) /\ Len(week) = Len(st.current) + 1
    BY <1>2, <1>4, AppendProperties
  <2>3. week # <<>>
    <3>1. Len(st.current) \in Nat
      BY <1>2
    <3> HIDE DEF week
    <3> QED
      BY <2>2, <3>1
  <2> QED
    BY <1>1, <1>4, <2>1, <2>2, <2>3
<1>7. /\ Timeline(st.weeks) \in Seq(Indices) /\ HeardIn(st.current) \in Seq(Indices)
      /\ block \in Seq(Indices) /\ HeardIn(week) \in Seq(Indices)
  BY <1>2, <1>3, <1>6, WeeksTyped, WeekTyped, HoursHeardFacts
<1> HIDE DEF week, block
<1>8. Timeline(st.weeks) \o HeardIn(week) = Heard(st) \o block
  <2> DEFINE a == Timeline(st.weeks)  b == HeardIn(st.current)
  <2>1. a \in Seq(Indices) /\ b \in Seq(Indices) /\ block \in Seq(Indices)
    BY <1>7
  <2> HIDE DEF a, b
  <2>2. (a \o b) \o block = a \o (b \o block)
    <3>1. Regroups(Indices)
      BY Regrouped
    <3> QED
      BY <2>1, <3>1 DEF Regroups
  <2> QED
    BY <1>6, <2>2 DEF Heard, a, b
<1>9. st.remaining - take \in Nat /\ st.used + take \in Nat /\ take = st.remaining - (st.remaining - take)
  BY <1>2, <1>3
<1>10. CASE st.used + take >= hpw
  <2>1. next = [st EXCEPT !.weeks = Append(st.weeks, week), !.current = <<>>, !.used = 0,
                          !.remaining = st.remaining - take]
    BY <1>5, <1>10
  <2>2. /\ Append(st.weeks, week) \in Seq(Seq(Slots)) /\ <<>> \in Seq(Slots) /\ 0 \in Nat
        /\ Len(Append(st.weeks, week)) = Len(st.weeks) + 1
        /\ \A w \in 1..Len(st.weeks) : Append(st.weeks, week)[w] = st.weeks[w]
        /\ Append(st.weeks, week)[Len(st.weeks) + 1] = week
    BY <1>2, <1>6, AppendProperties
  <2>3. /\ next \in WeekStates /\ next.weeks = Append(st.weeks, week) /\ next.current = <<>>
        /\ next.used = 0 /\ next.remaining = st.remaining - take /\ next.course = st.course
    BY <1>1, <1>2, <1>9, <2>1, <2>2 DEF WeekStates
  <2>4. st.used + take = hpw
    BY <1>2, <1>3, <1>9, <1>10
  <2>5. \A w \in DOMAIN next.weeks : WeekHours(next.weeks[w]) = hpw
    <3>1. DOMAIN next.weeks = 1..(Len(st.weeks) + 1) /\ DOMAIN st.weeks = 1..Len(st.weeks)
          /\ Len(st.weeks) \in Nat
      BY <1>2, <2>2, <2>3
    <3> QED
      BY <1>1, <1>6, <2>2, <2>3, <2>4, <3>1
  <2>6. WeekHours(<<>>) = 0 /\ HeardIn(<<>>) = <<>>
    <3>1. SlotHours(<<>>) = <<>> /\ SlotsHeard(<<>>) = <<>>
      BY DEF SlotHours, SlotsHeard
    <3>2. WeekHours(<<>>) = Total(SlotHours(<<>>))
      BY DEF WeekHours, SlotHours
    <3> QED
      BY <3>1, <3>2, TotalFacts, FlattenFacts DEF HeardIn
  <2>7. next \in Packs(hpw)
    <3>1. next.used < hpw /\ WeekHours(next.current) = next.used
      BY <1>2, <2>3, <2>6
    <3>2. next.current = <<>> <=> next.used = 0
      BY <2>3
    <3> QED
      BY <2>3, <2>5, <3>1, <3>2 DEF Packs
  <2>8. Heard(next) = Heard(st) \o block
    <3>1. Timeline(Append(st.weeks, week)) = Timeline(st.weeks) \o HeardIn(week)
      BY <1>2, <1>6, TimelineAppend
    <3>2. Timeline(Append(st.weeks, week)) \in Seq(Indices)
      BY <2>2, WeeksTyped
    <3>3. Heard(next) = Timeline(Append(st.weeks, week)) \o <<>>
      BY <2>3, <2>6 DEF Heard
    <3>4. Timeline(Append(st.weeks, week)) \o <<>> = Timeline(Append(st.weeks, week))
      BY <3>2, ConcatEmptySeq
    <3> QED
      BY <1>8, <3>1, <3>3, <3>4
  <2>9. Laid(next, hpw) + next.remaining = Laid(st, hpw) + st.remaining
    <3> DEFINE L == Len(st.weeks)
    <3>1. L \in Nat /\ Len(next.weeks) = L + 1
      BY <1>2, <2>2, <2>3
    <3>2. Laid(next, hpw) = (L + 1) * hpw + 0 /\ Laid(st, hpw) = L * hpw + st.used
      BY <2>3, <3>1 DEF Laid
    <3> HIDE DEF L
    <3>3. (L + 1) * hpw = L * hpw + hpw /\ L * hpw \in Nat
      BY <1>2, <3>1
    <3> QED
      BY <1>2, <1>3, <2>3, <2>4, <3>2, <3>3
  <2>10. next.remaining < st.remaining /\ st.remaining - next.remaining = take
    BY <1>2, <1>3, <2>3
  <2> QED
    BY <2>3, <2>7, <2>8, <2>9, <2>10 DEF block, next
<1>11. CASE ~(st.used + take >= hpw)
  <2>1. next = [st EXCEPT !.weeks = st.weeks, !.current = week, !.used = st.used + take,
                          !.remaining = st.remaining - take]
    BY <1>5, <1>11
  <2>3. /\ next \in WeekStates /\ next.weeks = st.weeks /\ next.current = week
        /\ next.used = st.used + take /\ next.remaining = st.remaining - take
        /\ next.course = st.course
    BY <1>1, <1>2, <1>6, <1>9, <2>1 DEF WeekStates
  <2>4. st.used + take < hpw /\ st.used + take # 0
    BY <1>2, <1>3, <1>11
  <2>7. next \in Packs(hpw)
    BY <1>1, <1>6, <2>3, <2>4 DEF Packs
  <2>8. Heard(next) = Heard(st) \o block
    BY <1>8, <2>3 DEF Heard
  <2>9. Laid(next, hpw) + next.remaining = Laid(st, hpw) + st.remaining
    <3> DEFINE l == Len(st.weeks) * hpw
    <3>1. l \in Nat
      BY <1>2
    <3>2. Laid(next, hpw) = l + (st.used + take) /\ Laid(st, hpw) = l + st.used
      BY <2>3 DEF Laid
    <3> HIDE DEF l
    <3> QED
      BY <1>2, <1>3, <2>3, <3>1, <3>2
  <2>10. next.remaining < st.remaining /\ st.remaining - next.remaining = take
    BY <1>2, <1>3, <2>3
  <2> QED
    BY <2>3, <2>7, <2>8, <2>9, <2>10 DEF block, next
<1> QED
  BY <1>10, <1>11

LEMMA HeardTyped ==
  ASSUME NEW hpw, NEW st \in Packs(hpw)
  PROVE  /\ Heard(st) \in Seq(Indices) /\ Timeline(st.weeks) \in Seq(Indices)
         /\ HeardIn(st.current) \in Seq(Indices)
<1>1. st.weeks \in Seq(Seq(Slots)) /\ st.current \in Seq(Slots)
  BY DEF Packs, WeekStates
<1>2. Timeline(st.weeks) \in Seq(Indices) /\ HeardIn(st.current) \in Seq(Indices)
  BY <1>1, WeeksTyped, WeekTyped
<1> QED
  BY <1>2, ConcatProperties DEF Heard

(* A course is laid out whole, however many weeks it is cut over.          *)
LEMMA CourseLaidOut ==
  ASSUME NEW hpw \in Nat \ {0}, NEW st \in Packs(hpw), NEW c \in Indices
  PROVE  LET next == LayOut(st, c, hpw)
         IN  /\ next \in Packs(hpw)
             /\ Heard(next) = Heard(st) \o HoursHeard(c, CourseAt(c).hours)
             /\ Laid(next, hpw) = Laid(st, hpw) + CourseAt(c).hours
<1> DEFINE N == CourseAt(c).hours
           start == [st EXCEPT !.course = c, !.remaining = N]
           turn == [n \in 1..N |-> [p \in Packs(hpw) |-> TakeHours(p, hpw)]]
<1>0. N \in Nat \ {0}
  BY CoursesTyped
<1>1. /\ start \in Packs(hpw) /\ start.course = c /\ start.remaining = N
      /\ Heard(start) = Heard(st) /\ Laid(start, hpw) = Laid(st, hpw)
  <2> HIDE DEF N
  <2>1. st \in WeekStates
    BY DEF Packs
  <2>2. /\ start \in WeekStates /\ start.weeks = st.weeks /\ start.current = st.current
        /\ start.used = st.used /\ start.course = c /\ start.remaining = N
    BY <1>0, <2>1 DEF WeekStates
  <2> HIDE DEF start
  <2>3. start \in Packs(hpw)
    BY <2>2 DEF Packs
  <2> QED
    BY <2>2, <2>3 DEF Heard, Laid
<1>2. \A p \in Packs(hpw) : TakeHours(p, hpw) \in Packs(hpw)
  <2>1. ASSUME NEW p \in Packs(hpw) PROVE TakeHours(p, hpw) \in Packs(hpw)
    <3>1. CASE p.remaining = 0
      BY <3>1 DEF TakeHours
    <3>2. CASE p.remaining # 0
      BY <3>2, TurnTakes
    <3> QED
      BY <3>1, <3>2
  <2> QED
    BY <2>1
<1> HIDE DEF start
<1>3. turn \in [1..N -> [Packs(hpw) -> Packs(hpw)]]
  BY <1>2
<1>4. PICK g \in [0..N -> Packs(hpw)] : g[0] = start /\ \A n \in 1..N : g[n] = turn[n][g[n - 1]]
  <2>1. \E g \in [0..N -> Packs(hpw)] : Loop(g, start, N, turn)
    <3> DEFINE states == Packs(hpw)
    <3>1. start \in states /\ turn \in [1..N -> [states -> states]] /\ N \in Nat
      BY <1>0, <1>1, <1>3
    <3> HIDE DEF N, turn, states
    <3>2. \E g \in [0..N -> states] : Loop(g, start, N, turn)
      BY <3>1, LoopRuns
    <3> QED
      BY <3>2 DEF states
  <2> QED
    BY <2>1 DEF Loop
<1>5. g = [n \in 0..N |-> IF n = 0 THEN start ELSE TakeHours(g[n - 1], hpw)]
  <2>1. ASSUME NEW n \in 1..N PROVE turn[n][g[n - 1]] = TakeHours(g[n - 1], hpw)
    <3>1. n - 1 \in 0..N /\ g[n - 1] \in Packs(hpw)
      <4> HIDE DEF N, turn
      <4> QED
        BY <1>0
    <3> QED
      BY <3>1
  <2>2. ASSUME NEW n \in 0..N PROVE g[n] = IF n = 0 THEN start ELSE TakeHours(g[n - 1], hpw)
    <3>1. n = 0 \/ n \in 1..N
      BY <1>0
    <3> HIDE DEF turn, N
    <3> QED
      BY <1>4, <2>1, <3>1
  <2> HIDE DEF turn, N
  <2> QED
    BY <2>2
<1> DEFINE after[n \in 0..N] == IF n = 0 THEN start ELSE TakeHours(after[n - 1], hpw)
<1>6. after = [n \in 0..N |-> IF n = 0 THEN start ELSE TakeHours(after[n - 1], hpw)]
  BY <1>5
<1>7. LayOut(st, c, hpw) = after[N]
  BY DEF LayOut, start
<1> HIDE DEF after, N, turn
<1>8. after[0] = start
  BY <1>0, <1>6
<1>9. ASSUME NEW n \in 0..(N - 1) PROVE after[n + 1] = TakeHours(after[n], hpw)
  <2>1. n + 1 \in 0..N /\ n + 1 # 0 /\ (n + 1) - 1 = n
    BY <1>0
  <2> QED
    BY <1>6, <2>1
<1> DEFINE OnTheWay(n) ==
             /\ after[n] \in Packs(hpw) /\ after[n].course = c /\ after[n].remaining <= N
             /\ after[n].remaining = 0 \/ after[n].remaining + n <= N
             /\ Heard(after[n]) = Heard(st) \o HoursHeard(c, N - after[n].remaining)
             /\ Laid(after[n], hpw) + after[n].remaining = Laid(st, hpw) + N
           I == {n \in 0..N : OnTheWay(n)}
<1>a. \A p \in Packs(hpw) : p.remaining \in Nat /\ Laid(p, hpw) \in Nat
  <2>1. ASSUME NEW p \in Packs(hpw) PROVE p.remaining \in Nat /\ Laid(p, hpw) \in Nat
    <3>1. p.weeks \in Seq(Seq(Slots)) /\ p.remaining \in Nat /\ p.used \in Nat /\ hpw \in Nat
      BY DEF Packs, WeekStates
    <3>2. Len(p.weeks) \in Nat
      BY <3>1
    <3>3. \A a, b \in Nat : a * b \in Nat
      OBVIOUS
    <3> DEFINE l == Len(p.weeks) * hpw
    <3>4. l \in Nat
      BY <3>1, <3>2, <3>3
    <3>5. Laid(p, hpw) = l + p.used
      BY DEF Laid
    <3> HIDE DEF l
    <3> QED
      BY <3>1, <3>4, <3>5
  <2> QED
    BY <2>1
<1>10. 0 \in I
  <2>1. N - start.remaining = 0
    BY <1>0, <1>1
  <2>2. HoursHeard(c, 0) = <<>>
    BY DEF HoursHeard
  <2>3. Heard(st) \o <<>> = Heard(st)
    BY HeardTyped, ConcatEmptySeq
  <2>4. /\ start.remaining <= N /\ start.remaining + 0 <= N
        /\ Heard(start) = Heard(st) \o HoursHeard(c, N - start.remaining)
        /\ Laid(start, hpw) + start.remaining = Laid(st, hpw) + N
    BY <1>0, <1>1, <2>1, <2>2, <2>3
  <2> QED
    BY <1>0, <1>1, <1>8, <2>4
<1>11. ASSUME NEW n \in 0..(N - 1), n \in I PROVE n + 1 \in I
  <2> DEFINE this == after[n]  next == after[n + 1]
  <2>1. /\ OnTheWay(n) /\ next = TakeHours(this, hpw) /\ n + 1 \in 0..N /\ n \in Nat
    BY <1>0, <1>9, <1>11
  <2>2. this.remaining \in Nat /\ Laid(this, hpw) \in Nat
    BY <1>a, <2>1
  <2>3. CASE this.remaining = 0
    <3>1. next = this
      BY <2>1, <2>3 DEF TakeHours
    <3>2. OnTheWay(n + 1)
      BY <2>1, <2>3, <3>1
    <3> QED
      BY <2>1, <3>2
  <2>4. CASE this.remaining # 0
    <3> HIDE DEF this, next
    <3>1. /\ next \in Packs(hpw) /\ next.course = this.course
          /\ next.remaining < this.remaining
          /\ Heard(next) = Heard(this) \o HoursHeard(this.course, this.remaining - next.remaining)
          /\ Laid(next, hpw) + next.remaining = Laid(this, hpw) + this.remaining
      <4>1. this \in Packs(hpw)
        BY <2>1 DEF this
      <4> QED
        BY <2>1, <2>4, <4>1, TurnTakes
    <3>2. next.remaining \in Nat /\ Laid(next, hpw) \in Nat
      BY <1>a, <3>1
    <3>3. /\ this \in Packs(hpw) /\ this.course = c /\ this.remaining <= N
          /\ this.remaining + n <= N
          /\ Heard(this) = Heard(st) \o HoursHeard(c, N - this.remaining)
          /\ Laid(this, hpw) + this.remaining = Laid(st, hpw) + N
      BY <2>1, <2>4 DEF this
    <3>r. /\ next.remaining < this.remaining /\ this.remaining + n <= N
          /\ next.remaining \in Nat /\ this.remaining \in Nat /\ N \in Nat /\ n \in Nat
      BY <1>0, <2>1, <2>2, <3>1, <3>2, <3>3
    <3>4. next.remaining <= N /\ next.remaining + (n + 1) <= N
      BY <3>r
    <3>5. Heard(next) = Heard(st) \o HoursHeard(c, N - next.remaining)
      <4> DEFINE a == N - this.remaining  b == this.remaining - next.remaining
                 x == Heard(st)  y == HoursHeard(c, a)  z == HoursHeard(c, b)
      <4>1. a \in Nat /\ b \in Nat /\ a + b = N - next.remaining
        BY <3>r
      <4>2. Heard(next) = (x \o y) \o z
        BY <3>1, <3>3
      <4> HIDE DEF a, b
      <4>3. /\ x \in Seq(Indices) /\ y \in Seq(Indices) /\ z \in Seq(Indices)
            /\ y \o z = HoursHeard(c, a + b)
        BY <4>1, HeardTyped, HoursHeardFacts
      <4> HIDE DEF x, y, z
      <4>4. (x \o y) \o z = x \o (y \o z)
        <5>1. x \in Seq(Indices) /\ y \in Seq(Indices) /\ z \in Seq(Indices)
          BY <4>3
        <5> QED
          <6>1. Regroups(Indices)
            BY Regrouped
          <6> QED
            BY <5>1, <6>1 DEF Regroups
      <4> QED
        BY <4>1, <4>2, <4>3, <4>4 DEF x
    <3>6. OnTheWay(n + 1)
      BY <3>1, <3>3, <3>4, <3>5 DEF next
    <3> HIDE DEF OnTheWay
    <3> QED
      BY <2>1, <3>6
  <2> QED
    BY <2>3, <2>4
<1>12. OnTheWay(N)
  <2>1. N \in 0..N /\ N \in Nat
    BY <1>0
  <2>2. N \in I
    <3> HIDE DEF I
    <3> QED
      BY <1>10, <1>11, <2>1, Climb
  <2> QED
    BY <2>2
<1>13. after[N].remaining = 0 /\ N - after[N].remaining = N
  BY SMTT(30), <1>0, <1>12, <1>a
<1>14. Laid(st, hpw) \in Nat /\ Laid(after[N], hpw) \in Nat
  BY <1>12, <1>a
<1>15. /\ after[N] \in Packs(hpw) /\ Heard(after[N]) = Heard(st) \o HoursHeard(c, N)
       /\ Laid(after[N], hpw) = Laid(st, hpw) + N
  BY <1>0, <1>12, <1>13, <1>14
<1> QED
  BY <1>7, <1>15 DEF N

(* The hours the chosen courses have, in the chosen order.                 *)
CoursesHeard(pairs) ==
  [k \in DOMAIN pairs |-> HoursHeard(pairs[k].course, CourseAt(pairs[k].course).hours)]

LEMMA NoWeekPacks ==
  ASSUME NEW hpw \in Nat \ {0}
  PROVE  NoWeek \in Packs(hpw) /\ Heard(NoWeek) = <<>> /\ Laid(NoWeek, hpw) = 0
<1>1. 0 \in Indices
  BY CoursesTyped, CatalogAssumption DEF Indices
<1>2. /\ NoWeek \in WeekStates /\ NoWeek.weeks = <<>> /\ NoWeek.current = <<>> /\ NoWeek.used = 0
  <2>1. <<>> \in Seq(Seq(Slots)) /\ <<>> \in Seq(Slots) /\ 0 \in Nat
    OBVIOUS
  <2> QED
    BY <1>1, <2>1 DEF NoWeek, WeekStates
<1>3. WeekHours(<<>>) = 0 /\ HeardIn(<<>>) = <<>> /\ Timeline(<<>>) = <<>>
  <2>1. SlotHours(<<>>) = <<>> /\ SlotsHeard(<<>>) = <<>> /\ WeeksHeard(<<>>) = <<>>
    BY DEF SlotHours, SlotsHeard, WeeksHeard
  <2>2. WeekHours(<<>>) = Total(SlotHours(<<>>))
    BY DEF WeekHours, SlotHours
  <2> QED
    BY <2>1, <2>2, TotalFacts, FlattenFacts, TimelineIsHeard DEF HeardIn
<1>4. NoWeek \in Packs(hpw)
  <2>1. DOMAIN NoWeek.weeks = {} /\ 0 < hpw
    BY <1>2
  <2> QED
    BY <1>2, <1>3, <2>1 DEF Packs
<1>5. <<>> \o <<>> = <<>> /\ Len(<<>>) = 0
  OBVIOUS
<1>6. Laid(NoWeek, hpw) = 0 * hpw + 0
  BY <1>2, <1>5 DEF Laid
<1> QED
  BY <1>2, <1>3, <1>4, <1>5, <1>6 DEF Heard

(* What pack_weeks has laid out when its loops are done.                   *)
LEMMA CoursesLaidOut ==
  ASSUME NEW hpw \in Nat \ {0}, NEW pairs \in Seq(Pairs)
  PROVE  LET last == LaidOut(pairs, hpw)
         IN  /\ last \in Packs(hpw)
             /\ Heard(last) = FlattenSeq(CoursesHeard(pairs))
             /\ Laid(last, hpw) = HoursOf(pairs)
<1> DEFINE N == Len(pairs)
           turn == [n \in 1..N |-> [p \in Packs(hpw) |-> LayOut(p, pairs[n].course, hpw)]]
           hours == [k \in DOMAIN pairs |-> CourseAt(pairs[k].course).hours]
           heard == CoursesHeard(pairs)
<1>0. /\ N \in Nat /\ DOMAIN pairs = 1..N
      /\ \A n \in 1..N : pairs[n].course \in Indices
  <2>1. \A n \in 1..N : pairs[n] \in Pairs
    OBVIOUS
  <2> QED
    BY <2>1 DEF Pairs
<1>1. hours \in Seq(Nat) /\ Len(hours) = N /\ \A n \in 1..N : hours[n] = CourseAt(pairs[n].course).hours
  BY HoursTyped
<1>2. /\ heard \in Seq(Seq(Indices)) /\ Len(heard) = N
      /\ \A n \in 1..N : heard[n] = HoursHeard(pairs[n].course, CourseAt(pairs[n].course).hours)
  <2>1. /\ DOMAIN heard = 1..N
        /\ \A n \in 1..N : heard[n] = HoursHeard(pairs[n].course, CourseAt(pairs[n].course).hours)
    BY <1>0 DEF CoursesHeard
  <2>2. ASSUME NEW n \in 1..N PROVE heard[n] \in Seq(Indices)
    <3>1. pairs[n].course \in Indices /\ CourseAt(pairs[n].course).hours \in Nat
      BY <1>0, CoursesTyped
    <3> QED
      BY <2>1, <3>1, HoursHeardFacts
  <2>3. heard = [n \in 1..N |-> heard[n]]
    BY <2>1 DEF CoursesHeard
  <2> DEFINE T == Seq(Indices)
  <2> HIDE DEF heard, N, T
  <2>4. heard \in [1..N -> T]
    BY <2>2, <2>3 DEF T
  <2>5. heard \in Seq(T) /\ Len(heard) = N
    BY <1>0, <2>4
  <2> QED
    BY <2>1, <2>5 DEF T
<1> HIDE DEF hours, heard
<1>3. turn \in [1..N -> [Packs(hpw) -> Packs(hpw)]]
  <2>1. ASSUME NEW n \in 1..N, NEW p \in Packs(hpw) PROVE LayOut(p, pairs[n].course, hpw) \in Packs(hpw)
    <3>1. pairs[n].course \in Indices
      BY <1>0
    <3> QED
      BY <3>1, CourseLaidOut
  <2> HIDE DEF N
  <2> QED
    BY <2>1
<1>4. PICK g \in [0..N -> Packs(hpw)] : g[0] = NoWeek /\ \A n \in 1..N : g[n] = turn[n][g[n - 1]]
  <2>1. \E g \in [0..N -> Packs(hpw)] : Loop(g, NoWeek, N, turn)
    <3> DEFINE states == Packs(hpw)
    <3>1. NoWeek \in states /\ turn \in [1..N -> [states -> states]] /\ N \in Nat
      BY <1>0, <1>3, NoWeekPacks
    <3> HIDE DEF N, turn, states
    <3>2. \E g \in [0..N -> states] : Loop(g, NoWeek, N, turn)
      BY <3>1, LoopRuns
    <3> QED
      BY <3>2 DEF states
  <2> QED
    BY <2>1 DEF Loop
<1>5. g = [n \in 0..N |-> IF n = 0 THEN NoWeek ELSE LayOut(g[n - 1], pairs[n].course, hpw)]
  <2>1. ASSUME NEW n \in 1..N PROVE turn[n][g[n - 1]] = LayOut(g[n - 1], pairs[n].course, hpw)
    <3>1. n - 1 \in 0..N /\ g[n - 1] \in Packs(hpw)
      <4> HIDE DEF N, turn
      <4> QED
        BY <1>0
    <3> QED
      BY <3>1
  <2>2. ASSUME NEW n \in 0..N
        PROVE  g[n] = IF n = 0 THEN NoWeek ELSE LayOut(g[n - 1], pairs[n].course, hpw)
    <3>1. n = 0 \/ n \in 1..N
      BY <1>0
    <3> HIDE DEF turn, N
    <3> QED
      BY <1>4, <2>1, <3>1
  <2> HIDE DEF turn, N
  <2> QED
    BY <2>2
<1> DEFINE after[n \in 0..N] ==
             IF n = 0 THEN NoWeek ELSE LayOut(after[n - 1], pairs[n].course, hpw)
<1>6. after = [n \in 0..N |-> IF n = 0 THEN NoWeek ELSE LayOut(after[n - 1], pairs[n].course, hpw)]
  BY <1>5
<1>7. LaidOut(pairs, hpw) = after[N]
  BY DEF LaidOut
<1> HIDE DEF after, N, turn
<1>8. after[0] = NoWeek
  BY <1>0, <1>6
<1>9. ASSUME NEW n \in 0..(N - 1)
      PROVE  after[n + 1] = LayOut(after[n], pairs[n + 1].course, hpw)
  <2>1. n + 1 \in 0..N /\ n + 1 # 0 /\ (n + 1) - 1 = n
    BY <1>0
  <2> QED
    BY <1>6, <2>1
<1>10. PICK h \in [0..N -> Nat] : /\ Total(hours) = h[N] /\ h[0] = 0
                                  /\ \A n \in 1..N : h[n] = h[n - 1] + hours[n]
  <2>1. \E h \in [0..Len(hours) -> Nat] : /\ Total(hours) = h[Len(hours)] /\ h[0] = 0
                                          /\ \A n \in 1..Len(hours) : h[n] = h[n - 1] + hours[n]
    BY <1>1, TotalLoop
  <2> QED
    BY <1>1, <2>1
<1>11. PICK t \in [0..N -> Seq(Indices)] : /\ FlattenSeq(heard) = t[N] /\ t[0] = <<>>
                                           /\ \A n \in 1..N : t[n] = t[n - 1] \o heard[n]
  <2>1. \E t \in [0..Len(heard) -> Seq(Indices)] :
          /\ FlattenSeq(heard) = t[Len(heard)] /\ t[0] = <<>>
          /\ \A n \in 1..Len(heard) : t[n] = t[n - 1] \o heard[n]
    <3>1. heard \in Seq(Seq(Indices))
      BY <1>2
    <3> QED
      BY <3>1, FlattenLoop
  <2> QED
    BY <1>2, <2>1
<1> DEFINE OnTheWay(n) == /\ after[n] \in Packs(hpw) /\ Heard(after[n]) = t[n]
                          /\ Laid(after[n], hpw) = h[n]
           I == {n \in 0..N : OnTheWay(n)}
<1>12. 0 \in I
  <2>1. OnTheWay(0)
    BY <1>8, <1>10, <1>11, NoWeekPacks
  <2> QED
    BY <1>0, <2>1
<1>13. ASSUME NEW n \in 0..(N - 1), n \in I PROVE n + 1 \in I
  <2> DEFINE c == pairs[n + 1].course
  <2>1. n + 1 \in 0..N /\ n + 1 \in 1..N /\ (n + 1) - 1 = n
    BY <1>0
  <2>2. c \in Indices /\ OnTheWay(n) /\ after[n + 1] = LayOut(after[n], c, hpw)
    BY <1>0, <1>9, <1>13, <2>1
  <2>3. /\ h[n + 1] = h[n] + CourseAt(c).hours
        /\ t[n + 1] = t[n] \o HoursHeard(c, CourseAt(c).hours)
    BY <1>1, <1>2, <1>10, <1>11, <2>1
  <2> HIDE DEF c
  <2>4. /\ after[n + 1] \in Packs(hpw)
        /\ Heard(after[n + 1]) = Heard(after[n]) \o HoursHeard(c, CourseAt(c).hours)
        /\ Laid(after[n + 1], hpw) = Laid(after[n], hpw) + CourseAt(c).hours
    BY ZenonT(40), <2>2, CourseLaidOut
  <2>5. OnTheWay(n + 1)
    BY <2>2, <2>3, <2>4
  <2> HIDE DEF OnTheWay
  <2> QED
    BY <2>1, <2>5
<1>14. OnTheWay(N)
  <2>1. N \in 0..N
    BY <1>0
  <2>2. N \in I
    <3> HIDE DEF I
    <3> QED
      BY <1>0, <1>12, <1>13, <2>1, Climb
  <2> QED
    BY <2>2
<1>15. HoursOf(pairs) = Total(hours)
  BY DEF HoursOf, hours
<1> QED
  BY <1>7, <1>10, <1>11, <1>14, <1>15 DEF heard

(* A schedule holds every hour of every course once and in order, all its  *)
(* weeks but the last are full, and it has no more weeks than its hours    *)
(* fill.                                                                   *)
LEMMA PackedExactly ==
  ASSUME NEW hpw \in Nat \ {0}, NEW pairs \in Seq(Pairs)
  PROVE  /\ Exact(PackWeeks(pairs, hpw), pairs, hpw)
         /\ \A most \in Nat : HoursOf(pairs) <= most * hpw => Len(PackWeeks(pairs, hpw)) <= most
<1> DEFINE last == LaidOut(pairs, hpw)
           weeks == PackWeeks(pairs, hpw)
           L == Len(last.weeks)
<1>1. /\ last \in Packs(hpw) /\ Heard(last) = FlattenSeq(CoursesHeard(pairs))
      /\ Laid(last, hpw) = HoursOf(pairs)
  BY CoursesLaidOut
<1> HIDE DEF last
<1>2. /\ last.weeks \in Seq(Seq(Slots)) /\ last.current \in Seq(Slots) /\ last.used \in Nat
      /\ last.used < hpw /\ WeekHours(last.current) = last.used
      /\ last.current = <<>> <=> last.used = 0
      /\ \A w \in DOMAIN last.weeks : WeekHours(last.weeks[w]) = hpw
  BY <1>1 DEF Packs, WeekStates
<1>3. L \in Nat /\ DOMAIN last.weeks = 1..L
  BY <1>2
<1>4. weeks = IF last.current = <<>> THEN last.weeks ELSE Append(last.weeks, last.current)
  BY DEF PackWeeks, last
<1>5. HoursOf(pairs) = L * hpw + last.used
  BY <1>1 DEF Laid
<1>6. FlattenSeq(CoursesHeard(pairs)) =
        FlattenSeq([k \in DOMAIN pairs |->
                      [h \in 1..CourseAt(pairs[k].course).hours |-> pairs[k].course]])
  BY DEF CoursesHeard, HoursHeard
<1> HIDE DEF weeks, L
<1>7. CASE last.current = <<>>
  <2>1. weeks = last.weeks /\ last.used = 0
    BY <1>2, <1>4, <1>7
  <2>2. Timeline(weeks) = Heard(last)
    <3>1. HeardIn(<<>>) = <<>>
      <4>1. SlotsHeard(<<>>) = <<>>
        BY DEF SlotsHeard
      <4> QED
        BY <4>1, FlattenFacts DEF HeardIn
    <3>2. Timeline(weeks) \in Seq(Indices)
      BY <1>1, <2>1, HeardTyped
    <3>3. Timeline(weeks) \o <<>> = Timeline(weeks)
      BY <3>2, ConcatEmptySeq
    <3> QED
      BY <1>7, <2>1, <3>1, <3>3 DEF Heard
  <2>3. DOMAIN weeks = 1..L /\ Len(weeks) = L
    BY <1>3, <2>1 DEF L
  <2>4. \A w \in 1..L : WeekHours(weeks[w]) = hpw
    BY <1>2, <1>3, <2>1
  <2>5. hpw \in 1..hpw /\ \A w \in 1..(L - 1) : w \in 1..L
    BY <1>3
  <2>6. Exact(weeks, pairs, hpw)
    BY <1>1, <1>6, <2>2, <2>3, <2>4, <2>5 DEF Exact
  <2>7. ASSUME NEW most \in Nat, HoursOf(pairs) <= most * hpw PROVE L <= most
    <3>1. L * hpw <= most * hpw
      BY <1>3, <1>5, <2>1, <2>7
    <3>2. ASSUME most < L PROVE FALSE
      <4>1. most * hpw < L * hpw
        BY <1>3, <3>2
      <4> QED
        BY <1>3, <3>1, <4>1
    <3> QED
      BY <1>3, <3>2
  <2> QED
    BY <2>3, <2>6, <2>7 DEF weeks
<1>8. CASE last.current # <<>>
  <2>1. weeks = Append(last.weeks, last.current) /\ last.used # 0
    BY <1>2, <1>4, <1>8
  <2>2. Timeline(weeks) = Heard(last)
    BY <1>2, <2>1, TimelineAppend DEF Heard
  <2>3. /\ Len(weeks) = L + 1 /\ weeks[L + 1] = last.current
        /\ \A w \in 1..L : weeks[w] = last.weeks[w]
        /\ DOMAIN weeks = 1..(L + 1)
    <3>1. /\ Len(weeks) = L + 1 /\ weeks[L + 1] = last.current /\ weeks \in Seq(Seq(Slots))
          /\ \A w \in 1..L : weeks[w] = last.weeks[w]
      BY <1>2, <2>1, AppendProperties DEF L
    <3> QED
      BY <3>1
  <2>4. /\ \A w \in 1..L : WeekHours(weeks[w]) = hpw
        /\ WeekHours(weeks[L + 1]) = last.used
    BY <1>2, <1>3, <2>3
  <2>5. last.used \in 1..hpw /\ hpw \in 1..hpw
    BY <1>2, <2>1
  <2>6. \A w \in 1..(L + 1) : w \in 1..L \/ w = L + 1
    BY <1>3
  <2>7. \A w \in DOMAIN weeks : WeekHours(weeks[w]) \in 1..hpw
    BY <2>3, <2>4, <2>5, <2>6
  <2>8. Exact(weeks, pairs, hpw)
    <3>1. \A w \in 1..(Len(weeks) - 1) : w \in 1..L
      BY <1>3, <2>3
    <3> QED
      BY <1>1, <1>6, <2>2, <2>4, <2>7, <3>1 DEF Exact
  <2>9. ASSUME NEW most \in Nat, HoursOf(pairs) <= most * hpw PROVE L + 1 <= most
    <3>1. L * hpw + last.used <= most * hpw
      BY <1>5, <2>9
    <3>2. ASSUME most <= L PROVE FALSE
      <4>1. most * hpw <= L * hpw
        BY <1>3, <3>2
      <4>2. L * hpw \in Nat /\ most * hpw \in Nat
        BY <1>3
      <4> DEFINE x == L * hpw  y == most * hpw
      <4>3. x \in Nat /\ y \in Nat /\ y <= x /\ x + last.used <= y /\ last.used \in 1..hpw
        BY <2>5, <3>1, <4>1, <4>2
      <4> HIDE DEF x, y
      <4> QED
        BY <4>3
    <3> QED
      BY <1>3, <3>2
  <2> QED
    BY <2>3, <2>8, <2>9 DEF weeks
<1> QED
  BY <1>7, <1>8

-----------------------------------------------------------------------------
LEMMA SelectedIsSeq == Selected \subseteq Seq(Entries)
<1>1. MaxSelected \in Nat
  BY RoadmapAssumption
<1> QED
  BY <1>1 DEF Selected

LEMMA RequestTyped ==
  ASSUME NEW r \in Requests
  PROVE  r.weeks \in Nat /\ r.hoursPerWeek \in Nat \ {0} /\ Budget(r) \in Nat
<1>1. r.weeks \in Nat /\ r.hoursPerWeek \in Nat \ {0}
  BY RoadmapAssumption
<1> QED
  BY <1>1 DEF Budget

(* A roadmap is delivered without problems exactly when its selection can  *)
(* be followed as it stands, and the hours it states are those of the      *)
(* courses it shows (verify.check's loops against what they are for).      *)
THEOREM DeliveryIsJudged == Spec => []DeliveredAsJudged
<1>1. RoadmapInv => DeliveredAsJudged
  <2> SUFFICES ASSUME RoadmapInv, node = "deliver" PROVE DeliveredAsJudged
    BY DEF DeliveredAsJudged
  <2>1. /\ state.problems = Problems(state.selected, Budget(request))
        /\ state.total = HoursOf(Pick(state.selected))
    BY DEF RoadmapInv, RoundFits, Wrong
  <2>2. state.selected \in Seq(Entries)
    BY SelectedIsSeq DEF RoadmapInv, StateTyped
  <2>3. Budget(request) \in Nat
    BY RequestTyped DEF RoadmapInv, StateTyped
  <2>4. Problems(state.selected, Budget(request)) = {} <=> Sound(state.selected, Budget(request))
    BY <2>2, <2>3, NothingWrongIsSound
  <2> QED
    BY <2>1, <2>4 DEF DeliveredAsJudged
<1> QED
  BY <1>1, RoadmapInvariant, PTL

(* The weeks of a delivered roadmap hold every hour of every course shown,  *)
(* once and in order, all but the last are full, and where the selection   *)
(* had no problems they are no more than were asked for (schedule.py).     *)
THEOREM SchedulesAreExact == Spec => []ScheduleExact
<1>1. RoadmapInv => ScheduleExact
  <2> SUFFICES ASSUME RoadmapInv, node = "deliver" PROVE ScheduleExact
    BY DEF ScheduleExact
  <2> DEFINE hpw == request.hoursPerWeek  pairs == Pick(state.selected)
  <2>1. /\ state.problems = Problems(state.selected, Budget(request))
        /\ state.packed = PackWeeks(pairs, hpw)
    BY DEF RoadmapInv, RoundFits, Wrong
  <2>2. state.selected \in Seq(Entries) /\ request \in Requests
    BY SelectedIsSeq DEF RoadmapInv, StateTyped
  <2>3. pairs \in Seq(Pairs)
    BY <2>2, PickFacts
  <2>4. hpw \in Nat \ {0} /\ request.weeks \in Nat /\ Budget(request) \in Nat
    BY <2>2, RequestTyped
  <2> HIDE DEF hpw, pairs
  <2>5. /\ Exact(state.packed, pairs, hpw)
        /\ HoursOf(pairs) <= request.weeks * hpw => Len(state.packed) <= request.weeks
    BY <2>1, <2>3, <2>4, PackedExactly
  <2>6. state.problems = {} => HoursOf(pairs) <= request.weeks * hpw
    <3>1. state.problems = {} => Sound(state.selected, Budget(request))
      BY <2>1, <2>2, <2>4, NothingWrongIsSound
    <3> QED
      BY <3>1 DEF Sound, Budget, hpw, pairs
  <2> QED
    BY <2>5, <2>6 DEF ScheduleExact, hpw, pairs
<1> QED
  BY <1>1, RoadmapInvariant, PTL

-----------------------------------------------------------------------------
(* What RoadmapInv leaves open: the hours are a number, and the client     *)
(* never runs past its last model.                                         *)
TotalAndModel == state.total \in Nat /\ llm.model \in 1..Len(Models)

LEMMA RaiseKeepsModel ==
  ASSUME RoadmapInv, TotalAndModel, NEW error, Raise(error), UNCHANGED state
  PROVE  TotalAndModel'
<1>1. llm \in Clients /\ Len(Models) \in Nat
  BY RoadmapAssumption DEF RoadmapInv, StateTyped
<1>2. llm'.model = llm.model \/ (llm.model < Len(Models) /\ llm'.model = llm.model + 1)
  BY <1>1 DEF Raise, Clients
<1> QED
  BY <1>1, <1>2 DEF TotalAndModel

LEMMA TotalAndModelKept ==
  ASSUME RoadmapInv, TotalAndModel, [Next]_vars
  PROVE  TotalAndModel'
<1>1. /\ llm \in Clients
      /\ Len(Models) \in Nat \ {0}
      /\ state \in [attempts : 0..MaxAttempts, feedback : SUBSET Kinds, prompt : Prompts,
                    selected : Selected, total : {state.total}, problems : SUBSET Kinds,
                    packed : {state.packed}]
  BY RoadmapAssumption DEF RoadmapInv, StateTyped
<1>2. CASE Verify
  <2>1. HoursOf(Pick(state.selected)) \in Nat
    <3>1. state.selected \in Seq(Entries)
      BY SelectedIsSeq DEF RoadmapInv, StateTyped
    <3> QED
      BY <3>1, PickFacts, HoursTyped
  <2>2. state'.total = HoursOf(Pick(state.selected)) /\ UNCHANGED llm
    BY <1>1, <1>2 DEF Verify
  <2> QED
    BY <2>1, <2>2 DEF TotalAndModel
<1>3. CASE Generate
  <2>1. state'.total = state.total /\ llm'.model = 1
    BY <1>1, <1>3 DEF Generate
  <2> QED
    BY <1>1, <2>1 DEF TotalAndModel
<1>4. CASE Schedule
  <2>1. state'.total = state.total /\ UNCHANGED llm
    BY <1>1, <1>4 DEF Schedule
  <2> QED
    BY <2>1 DEF TotalAndModel
<1>5. CASE Answered
  <2>1. PICK s \in Selected : state' = [state EXCEPT !.selected = s, !.attempts = @ + 1]
    BY <1>5 DEF Answered
  <2>2. state'.total = state.total /\ UNCHANGED llm
    BY <1>1, <1>5, <2>1 DEF Answered
  <2> QED
    BY <2>2 DEF TotalAndModel
<1>6. CASE GiveUp \/ RaiseLast
  <2>1. UNCHANGED state /\ \E error : Raise(error)
    BY <1>6 DEF GiveUp, RaiseLast
  <2> QED
    BY <2>1, RaiseKeepsModel
<1>7. CASE Backoff
  <2>1. CASE Timed /\ clock + Back >= Deadline
    BY <1>7, <2>1, RaiseKeepsModel DEF Backoff
  <2>2. CASE ~(Timed /\ clock + Back >= Deadline)
    BY <1>7, <2>2 DEF Backoff, TotalAndModel
  <2> QED
    BY <2>1, <2>2
<1>8. CASE Send \/ Receive \/ Sleep \/ \E error \in {"quota", "busy", "unreachable", "refused", "unusable"} :
              TransientError(error) \/ FinalError(error)
  <2>1. UNCHANGED state /\ llm'.model = llm.model
    BY <1>1, <1>8 DEF Send, Receive, Sleep, TransientError, FinalError, Clients
  <2> QED
    BY <2>1 DEF TotalAndModel
<1>9. CASE Refuse \/ Accept \/ Route \/ Deliver \/ DeliverFails \/ Uncaught \/ Tick \/ UNCHANGED vars
  <2>1. UNCHANGED <<state, llm>>
    BY <1>9 DEF Refuse, Accept, Route, Deliver, DeliverFails, Uncaught, Tick, vars
  <2> QED
    BY <2>1 DEF TotalAndModel
<1> QED
  BY <1>2, <1>3, <1>4, <1>5, <1>6, <1>7, <1>8, <1>9 DEF Next, Step, Done

(* Type correctness of a request: at most MaxAttempts selections, hours    *)
(* that are a number, and a client that never looks for a model past its   *)
(* last and never counts past its attempts (Gemini.generate and _call).    *)
THEOREM RoadmapTypeCorrect == Spec => []TypeOK
<1>1. Init => TotalAndModel
  <2>1. Len(Models) \in Nat \ {0}
    BY RoadmapAssumption
  <2> QED
    BY <2>1 DEF Init, NewClient, TotalAndModel
<1>2. RoadmapInv /\ TotalAndModel /\ [Next]_vars => TotalAndModel'
  BY TotalAndModelKept
<1>3. RoadmapInv /\ TotalAndModel => TypeOK
  <2>1. DOMAIN Models = 1..Len(Models)
    BY RoadmapAssumption
  <2> QED
    BY <2>1 DEF RoadmapInv, StateTyped, Clients, TotalAndModel, TypeOK
<1> QED
  BY <1>1, <1>2, <1>3, RoadmapInvariant, PTL DEF Spec
=============================================================================

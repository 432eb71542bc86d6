------------------------------- MODULE Roadmap -------------------------------
(***************************************************************************)
(* One request for a study roadmap, from the endpoint or the command line  *)
(* through the graph generate -> verify -> (generate | schedule), down to  *)
(* the single HTTP calls to the language model, their retries, and the     *)
(* change of model when a quota is used up.                                *)
(*                                                                         *)
(* Requests share nothing but the catalog and the metrics counters: each   *)
(* has its own graph state and its own client, so one request is modelled. *)
(* Time passes in whole units.  The timeout a call is given holds for each *)
(* of its socket operations (connecting, each read of the answer or of an  *)
(* error's body), so a call whose answer comes in parts may take longer; a *)
(* sleep takes exactly its length; Tick lets time pass between them.       *)
(***************************************************************************)
EXTENDS Selection, FiniteSets

CONSTANTS
  Models,         \* the models to call, in the order they are tried
  CallAttempts,   \* calls to one model before its error counts (Gemini.max_attempts)
  MaxAttempts,    \* selections asked for at most (ROADMAP_MAX_ATTEMPTS)
  Timeout,        \* what one socket operation of a call may take (Gemini.timeout)
  Deadline,       \* what a served request may take (ROADMAP_DEADLINE_SECONDS)
  Requests,       \* requests as records [via, weeks, hoursPerWeek]
  MaxSelected,    \* bound: entries in a selection
  MaxParts,       \* bound: socket operations of a call beyond the first
  NoModel

ASSUME RoadmapAssumption ==
  /\ Models \in Seq({Models[m] : m \in DOMAIN Models}) /\ Len(Models) > 0
  /\ NoModel \notin {Models[m] : m \in DOMAIN Models}
  /\ {CallAttempts, MaxAttempts, Timeout, Deadline} \subseteq Nat \ {0}
  /\ {MaxSelected, MaxParts} \subseteq Nat
  /\ Requests \subseteq [via : {"build", "stream", "cli"}, weeks : Nat \ {0}, hoursPerWeek : Nat \ {0}]

(* No assumption about the engine: what the provers know of powers. *)
ASSUME PowersAssumption == \A n \in 1..CallAttempts : 2 ^ n \in Nat

VARIABLES
  request,     \* the request being served
  node,        \* where the graph, and inside generate the client, has got to
  clock,       \* time since the request was accepted
  state,       \* the graph's state
  llm,         \* the client's state
  events,      \* what the stream has carried
  outcome      \* how the request ended, what was delivered, what was counted

vars == <<request, node, clock, state, llm, events, outcome>>

Entries == (-1..Len(Catalog)) \cup {Malformed}
Selected == UNION {[1..n -> Entries] : n \in 0..MaxSelected}

Budget(r) == r.weeks * r.hoursPerWeek

(* The command line sets no deadline. *)
Timed == request.via # "cli"
Late  == Timed /\ clock >= Deadline

NoFeedback == {}
Nothing    == [status |-> 0, counted |-> "none", model |-> NoModel]

(* The client starts with its first model.  wait is the timeout of its last
   call, parts how many socket operations of that call ended before its last. *)
NewClient == [model |-> 1, attempt |-> 0, error |-> "none", wait |-> 0, parts |-> 0]

(* The catalog, the goal and the level are the same in every prompt of a
   request; the feedback is not. *)
Prompt(feedback) ==
  [budget |-> Budget(request), weeks |-> request.weeks, hoursPerWeek |-> request.hoursPerWeek,
   feedback |-> feedback]

Init ==
  /\ request \in Requests
  /\ node = "accept"
  /\ clock = 0
  /\ state = [attempts |-> 0, feedback |-> NoFeedback, prompt |-> Prompt(NoFeedback),
              selected |-> <<>>, total |-> 0, problems |-> {}, packed |-> <<>>]
  /\ llm = NewClient
  /\ events = <<>>
  /\ outcome = Nothing

Goto(n) == node' = n

Emit(event) == events' = IF request.via = "stream" THEN Append(events, event) ELSE events

-----------------------------------------------------------------------------
(* The endpoints and the command line.                                     *)

(* The command line prints the result or the error and tells it by its exit
   code. *)
ExitCode(end) == CASE end = "clean" -> 0 [] end = "problems" -> 2 [] OTHER -> 1

(* The client cannot be built without an API key; then nothing has been
   streamed yet and the status code still says so. *)
Refuse ==
  /\ node = "accept"
  /\ outcome' = IF request.via = "cli" THEN [Nothing EXCEPT !.status = ExitCode("error")]
                ELSE [Nothing EXCEPT !.status = 503, !.counted = "unavailable"]
  /\ Goto("done")
  /\ UNCHANGED <<request, clock, state, llm, events>>

Accept ==
  /\ node = "accept"
  /\ Goto("generate")
  /\ Emit([kind |-> "start"])
  /\ UNCHANGED <<request, clock, state, llm, outcome>>

(* An LLMError ends the request: with a status where none was sent yet, in
   the stream as its last event. *)
EndWithError(error) ==
  /\ outcome' =
       [status  |-> CASE request.via = "cli" -> ExitCode("error")
                      [] request.via = "stream" -> 200
                      [] request.via = "build" -> IF error = "quota" THEN 429 ELSE 502,
        counted |-> IF request.via = "cli" THEN "none"
                    ELSE IF error = "quota" THEN "quota" ELSE "model_error",
        model   |-> Models[llm.model]]
  /\ Emit([kind |-> "error"])
  /\ Goto("done")

(* Any other exception is caught by nobody: the framework answers 500, the
   stream breaks off, and no request is counted. *)
EndUncaught ==
  /\ outcome' = [Nothing EXCEPT !.status = CASE request.via = "stream" -> 200
                                             [] request.via = "build" -> 500
                                             [] OTHER -> ExitCode("error")]
  /\ Goto("done")
  /\ UNCHANGED events

(* The result is delivered with its problems, and counted. *)
Deliver ==
  /\ node = "deliver"
  /\ outcome' = [status  |-> IF request.via # "cli" THEN 200
                             ELSE ExitCode(IF state.problems = {} THEN "clean" ELSE "problems"),
                 counted |-> IF request.via = "cli" THEN "none" ELSE "ok",
                 model   |-> Models[llm.model]]
  /\ Emit([kind |-> "result"])
  /\ Goto("done")
  /\ UNCHANGED <<request, clock, state, llm>>

(* The model's texts are looked at only when the response is put together:
   one that is no text ends a request that was already counted. *)
DeliverFails ==
  /\ node = "deliver" /\ Timed
  /\ outcome' = [status |-> IF request.via = "stream" THEN 200 ELSE 500, counted |-> "ok",
                 model |-> Models[llm.model]]
  /\ Goto("done")
  /\ UNCHANGED <<request, clock, state, llm, events>>

-----------------------------------------------------------------------------
(* The graph's nodes.                                                      *)

(* generate: the prompt carries the catalog, the request and the feedback
   on the selection before; the client starts over with its first model. *)
Generate ==
  /\ node = "generate"
  /\ state' = [state EXCEPT !.prompt = Prompt(state.feedback)]
  /\ llm' = [llm EXCEPT !.model = 1, !.attempt = 1, !.error = "none"]
  /\ Goto("attempt")
  /\ UNCHANGED <<request, clock, events, outcome>>

(* What is wrong with a selection is told in the next prompt. *)
Feedback(problems) == problems

(* Variant: the round before the last already writes no feedback. *)
Verify_OneShort ==
  /\ node = "verify"
  /\ LET pairs    == Pick(state.selected)
         problems == Problems(state.selected, Budget(request))
         again    == problems # {} /\ state.attempts + 1 < MaxAttempts
     IN  /\ state' = [state EXCEPT !.total = HoursOf(pairs), !.problems = problems,
                                   !.feedback = IF again THEN Feedback(problems) ELSE @]
         /\ Emit([kind |-> "verify", ok |-> problems = {}])
  /\ Goto("route")
  /\ UNCHANGED <<request, clock, llm, outcome>>

Verify ==
  /\ node = "verify"
  /\ LET pairs    == Pick(state.selected)
         problems == Problems(state.selected, Budget(request))
         again    == problems # {} /\ state.attempts < MaxAttempts
     IN  /\ state' = [state EXCEPT !.total = HoursOf(pairs), !.problems = problems,
                                   !.feedback = IF again THEN Feedback(problems) ELSE @]
         /\ Emit([kind |-> "verify", ok |-> problems = {}])
  /\ Goto("route")
  /\ UNCHANGED <<request, clock, llm, outcome>>

(* The attempts are used up, or the time is: what there is goes out. *)
Route ==
  /\ node = "route"
  /\ Goto(IF state.problems = {} \/ state.attempts >= MaxAttempts \/ Late
          THEN "schedule" ELSE "generate")
  /\ UNCHANGED <<request, clock, state, llm, events, outcome>>

Schedule ==
  /\ node = "schedule"
  /\ state' = [state EXCEPT !.packed = PackWeeks(Pick(state.selected), request.hoursPerWeek)]
  /\ Emit([kind |-> "schedule"])
  /\ Goto("deliver")
  /\ UNCHANGED <<request, clock, llm, outcome>>

-----------------------------------------------------------------------------
(* The client: Gemini.generate around Gemini._call.                        *)

(* An error that leaves _call.  Only a used-up quota is worth another
   model, and only while there is time and a model left. *)
Raise(error) ==
  IF error = "quota" /\ ~Late /\ llm.model < Len(Models)
  THEN /\ llm' = [llm EXCEPT !.model = @ + 1, !.attempt = 1, !.error = "none"]
       /\ Goto("attempt")
       /\ UNCHANGED <<events, outcome>>
  ELSE /\ EndWithError(error)
       /\ llm' = [llm EXCEPT !.error = error]

(* No time is left for this attempt. *)
GiveUp ==
  /\ node = "attempt"
  /\ Late
  /\ Raise(IF llm.error = "none" THEN "budget" ELSE llm.error)
  /\ UNCHANGED <<request, clock, state>>

(* Variant: the deadline is looked at before a call but does not shorten it. *)
CallWait_Full == Timeout

(* A call is given at most its timeout and at most what is left. *)
CallWait == IF Timed /\ Deadline - clock < Timeout THEN Deadline - clock ELSE Timeout

Send ==
  /\ node = "attempt"
  /\ ~Late
  /\ llm' = [llm EXCEPT !.wait = CallWait, !.parts = 0]
  /\ Goto("http")
  /\ UNCHANGED <<request, clock, state, events, outcome>>

(* Time matters only to a request that has a deadline. *)
Passes(d) == clock' = IF Timed THEN clock + d ELSE clock

(* One socket operation succeeds and another has to follow; it may wait as
   long again. *)
Receive ==
  /\ node = "http" /\ Timed
  /\ llm.parts < MaxParts
  /\ \E d \in 0..llm.wait : Passes(d)
  /\ llm' = [llm EXCEPT !.parts = @ + 1]
  /\ UNCHANGED <<request, node, state, events, outcome>>

(* The model answers in JSON: the node returns and counts the attempt. *)
Answered ==
  /\ node = "http"
  /\ \E d \in 0..llm.wait : Passes(d)
  /\ \E s \in Selected :
       state' = [state EXCEPT !.selected = s, !.attempts = @ + 1]
  /\ Emit([kind |-> "generate", attempt |-> state.attempts + 1])
  /\ Goto("verify")
  /\ UNCHANGED <<request, llm, outcome>>

(* A status that may go away (429, 5xx) and an unreachable host are tried
   again; the last attempt's error is raised. *)
TransientError(error) ==
  /\ node = "http"
  /\ error \in {"quota", "busy", "unreachable"}
  /\ \E d \in 0..llm.wait : Passes(d)
  /\ IF llm.attempt = CallAttempts
     THEN node' = "raise" ELSE node' = "backoff"
  /\ llm' = [llm EXCEPT !.error = error]
  /\ UNCHANGED <<request, state, events, outcome>>

(* Any other status, an empty or truncated answer and one that is no JSON
   are raised at once. *)
FinalError(error) ==
  /\ node = "http"
  /\ error \in {"refused", "unusable"}
  /\ \E d \in 0..llm.wait : Passes(d)
  /\ llm' = [llm EXCEPT !.error = error]
  /\ Goto("raise")
  /\ UNCHANGED <<request, state, events, outcome>>

RaiseLast ==
  /\ node = "raise"
  /\ Raise(llm.error)
  /\ UNCHANGED <<request, clock, state>>

(* Neither HTTPError nor URLError: no answer within the timeout once the
   request was sent, a body that is cut short or is no JSON, a payload of
   another shape. *)
Uncaught ==
  /\ node = "http"
  /\ \E d \in 0..llm.wait : Passes(d)
  /\ EndUncaught
  /\ UNCHANGED <<request, state, llm>>

Back == 2 ^ llm.attempt

(* There is no point in sleeping past the deadline. *)
Backoff ==
  /\ node = "backoff"
  /\ IF Timed /\ clock + Back >= Deadline
     THEN Raise(llm.error)
     ELSE /\ Goto("sleep")
          /\ UNCHANGED <<llm, events, outcome>>
  /\ UNCHANGED <<request, clock, state>>

Sleep ==
  /\ node = "sleep"
  /\ Passes(Back)
  /\ llm' = [llm EXCEPT !.attempt = @ + 1]
  /\ Goto("attempt")
  /\ UNCHANGED <<request, state, events, outcome>>

(* The program's own work takes time too, before any of its decisions. *)
Tick ==
  /\ node \in {"generate", "attempt", "route", "backoff", "raise"}
  /\ Timed /\ clock < Deadline
  /\ clock' = clock + 1
  /\ UNCHANGED <<request, node, state, llm, events, outcome>>

Step ==
  \/ Refuse \/ Accept \/ Generate \/ Verify \/ Route \/ Schedule \/ Deliver \/ DeliverFails
  \/ GiveUp \/ Send \/ Receive \/ Answered \/ RaiseLast \/ Uncaught \/ Backoff \/ Sleep
  \/ \E error \in {"quota", "busy", "unreachable"} : TransientError(error)
  \/ \E error \in {"refused", "unusable"} : FinalError(error)

(* The request is over; nothing follows. *)
Done == node = "done" /\ UNCHANGED vars

Next == Step \/ Tick \/ Done

Spec == Init /\ [][Next]_vars

-----------------------------------------------------------------------------
Nodes == {"accept", "generate", "attempt", "http", "backoff", "sleep", "raise",
          "verify", "route", "schedule", "deliver", "done"}

TypeOK ==
  /\ request \in Requests
  /\ node \in Nodes
  /\ clock \in Nat
  /\ state.attempts \in 0..MaxAttempts
  /\ state.selected \in Selected
  /\ state.total \in Nat
  /\ llm.model \in DOMAIN Models
  /\ llm.attempt \in 0..CallAttempts
  /\ llm.wait \in 0..Timeout /\ llm.parts \in 0..MaxParts

(* A roadmap is delivered without problems exactly when its selection can be
   followed as it stands, and the hours it states are those of the courses it
   shows.  verify.check looks at entries, at indices and at neighbours within
   a track, each in its own loop, and the result is assembled from the raw
   selection again (engine._result); what they add up to is stated here
   without any of those loops. *)
DeliveredAsJudged ==
  node = "deliver" =>
    /\ state.problems = {} <=> Sound(state.selected, Budget(request))
    /\ state.total = HoursOf(Pick(state.selected))

(* The weeks of a delivered roadmap hold every hour of every course shown,
   once and in order, and all weeks but the last are full (schedule.py: the
   number of weeks falls out as total hours by weekly hours, so a selection
   within its budget needs no check of its weeks). *)
ScheduleExact ==
  node = "deliver" =>
    /\ Exact(state.packed, Pick(state.selected), request.hoursPerWeek)
    /\ state.problems = {} => Len(state.packed) <= request.weeks

(* A served request is late only by what the answer to one call takes that
   comes in parts: all calls, sleeps, changes of model and regenerations
   before end by the deadline, each part after the first adds at most the
   wait that call was given, and once the deadline has passed nothing is
   begun.  (service/app.py:63 calls the deadline the whole time a request may
   use; that holds for calls whose answer comes in one part only.) *)
LateOnlyByParts == Timed => clock <= Deadline + llm.parts * llm.wait

(* A model that is asked again is told exactly what was wrong with the
   selection that is being replaced: whether feedback is written (check) and
   whether there is another round (route) are two decisions. *)
RetryKnowsWhy ==
  node \in {"attempt", "http"} /\ state.attempts > 0 =>
    /\ state.prompt.feedback = Problems(state.selected, Budget(request))
    /\ state.prompt.feedback # NoFeedback

(* "result 나 error 가 오면 끝이다" (service/app.py:201): a stream that has
   ended carried a result or an error last. *)
StreamEndsWithResultOrError ==
  node = "done" /\ events # <<>> => events[Len(events)].kind \in {"result", "error"}
=============================================================================

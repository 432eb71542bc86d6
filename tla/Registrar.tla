------------------------------ MODULE Registrar ------------------------------
(***************************************************************************)
(* How one instance of the chatbot keeps itself listed in Consul: the      *)
(* first attempt at start-up, the loop that registers again and checks     *)
(* that the entry is still there, and the deregistration at shut-down;     *)
(* with the health endpoint the agent probes, and the agent.               *)
(*                                                                         *)
(* A request to the agent is carried out at one moment and answered at a   *)
(* later one, or given up in between (after 5 s, or when the process stops *)
(* or dies); the agent may still carry out a request that was given up.    *)
(* Sleeps (2 to 30 s) only delay a step that is always possible then, so   *)
(* their lengths are left out.                                             *)
(***************************************************************************)
EXTENDS Naturals

CONSTANTS
  Faults,      \* what may go wrong: a subset of FaultKinds
  MaxFaults    \* bound: how often

FaultKinds == {"crash", "agentStops", "lostAnswer", "badDocs"}

ASSUME RegistrarAssumption == Faults \subseteq FaultKinds /\ MaxFaults \in Nat

VARIABLES
  proc,        \* the process: down, booting, serving or stopping
  ready,       \* app.state.ready: the regulations are loaded
  registered,  \* _registered: what the instance believes
  call,        \* the request it is waiting for, and the agent's answer
  agent,       \* the agent: whether it runs, the entry, requests given up
  owed,        \* whether an entry may be left behind (history)
  faults       \* how many faults there have been

registrarVars == <<proc, ready, registered, call, agent, owed, faults>>

Ops     == {"register", "verify", "deregister"}
NoCall  == [op |-> "none", answer |-> "none"]
Call(op) == [op |-> op, answer |-> "none"]
Waiting == call.answer = "none" /\ call.op # "none"

RegistrarInit ==
  /\ proc = "down" /\ ready = FALSE /\ registered = FALSE /\ call = NoCall
  /\ agent = [up |-> TRUE, entry |-> "none", late |-> {}]
  /\ owed = FALSE /\ faults = 0

Fault(kind) == kind \in Faults /\ faults < MaxFaults /\ faults' = faults + 1

(* The request given up, if the agent has not carried it out yet and it
   would change something. *)
GivenUp == IF Waiting THEN {call.op} \ {"verify"} ELSE {}

-----------------------------------------------------------------------------
(* The process.                                                            *)

(* Start-up: the regulations are loaded or not, and the first attempt to
   register is under way before the first request is served. *)
Boot ==
  /\ proc = "down"
  /\ \/ ready' = TRUE /\ UNCHANGED faults
     \/ ready' = FALSE /\ Fault("badDocs")
  /\ proc' = "booting"
  /\ registered' = FALSE
  /\ call' = Call("register")
  /\ UNCHANGED <<agent, owed>>

Served == IF proc = "booting" THEN "serving" ELSE proc

(* Variant: the loop is over once the instance is registered. *)
NextCall_UntilRegistered == IF registered THEN {} ELSE {Call("register")}

(* The loop wakes up: it checks the entry it believes in, or tries again. *)
NextCall == {Call(IF registered THEN "verify" ELSE "register")}

Wake ==
  /\ proc = "serving" /\ call = NoCall
  /\ call' \in NextCall
  /\ UNCHANGED <<proc, ready, registered, agent, owed, faults>>

(* The answer arrives.  Only a clear "not there" makes the loop register
   again. *)
ReadAnswer ==
  /\ call.answer # "none"
  /\ registered' = CASE call.op = "register"   -> TRUE
                     [] call.op = "verify"     -> registered /\ call.answer # "absent"
                     [] call.op = "deregister" -> FALSE
  /\ proc' = IF call.op = "deregister" THEN "down" ELSE Served
  /\ ready' = (ready /\ call.op # "deregister")
  /\ owed' = (owed /\ ~(agent.entry = "none" /\ agent.late = {}))
  /\ call' = NoCall
  /\ UNCHANGED <<agent, faults>>

(* Variant: a check that failed counts as a missing entry. *)
BelievedAfterFailure_Doubts == registered /\ call.op = "register"

(* What a request that failed leaves: a failed check proves nothing, and a
   failed deregistration is only logged. *)
BelievedAfterFailure == registered /\ call.op # "deregister"

(* The request fails: the agent is not running, or the time is up before the
   agent has answered or before its answer has come through. *)
CallFails ==
  /\ call.op # "none"
  /\ \/ Waiting /\ ~agent.up /\ UNCHANGED <<agent, faults>>
     \/ Fault("lostAnswer") /\ agent' = [agent EXCEPT !.late = @ \cup GivenUp]
  /\ registered' = BelievedAfterFailure
  /\ proc' = IF call.op = "deregister" THEN "down" ELSE Served
  /\ ready' = (ready /\ call.op # "deregister")
  /\ owed' = (owed \/ call.op \in {"register", "deregister"})
  /\ call' = NoCall

(* Orderly shut-down: the loop is cancelled first, wherever it waits, and
   only an instance that believes it is registered deregisters. *)
Stop ==
  /\ proc = "serving"
  /\ agent' = [agent EXCEPT !.late = @ \cup GivenUp]
  /\ owed' = (owed \/ call.op = "register")
  /\ IF registered
     THEN proc' = "stopping" /\ call' = Call("deregister") /\ UNCHANGED ready
     ELSE proc' = "down" /\ call' = NoCall /\ ready' = FALSE
  /\ UNCHANGED <<registered, faults>>

Crash ==
  /\ proc # "down" /\ Fault("crash")
  /\ proc' = "down" /\ ready' = FALSE /\ registered' = FALSE /\ call' = NoCall
  /\ agent' = [agent EXCEPT !.late = @ \cup GivenUp]
  /\ owed' = TRUE

(* The health endpoint answers 200 only to a listed, ready instance. *)
Healthy == proc = "serving" /\ ready /\ registered

-----------------------------------------------------------------------------
(* The agent.  An entry is fresh until its first probe; registering again
   may keep the status of the entry or start it anew. *)

Entries(op) ==
  CASE op = "register"   -> {"fresh"} \cup ({agent.entry} \ {"none"})
    [] op = "verify"     -> {agent.entry}
    [] op = "deregister" -> {"none"}

CarryOut ==
  /\ agent.up /\ Waiting
  /\ \E entry \in Entries(call.op) : agent' = [agent EXCEPT !.entry = entry]
  /\ call' = [call EXCEPT !.answer =
                IF call.op = "verify" /\ agent.entry = "none" THEN "absent" ELSE "ok"]
  /\ UNCHANGED <<proc, ready, registered, owed, faults>>

CarryOutLate ==
  /\ agent.up
  /\ \E op \in agent.late : \E entry \in Entries(op) :
       agent' = [agent EXCEPT !.entry = entry, !.late = @ \ {op}]
  /\ UNCHANGED <<proc, ready, registered, call, owed, faults>>

(* The check of an entry, every 10 s. *)
Probe ==
  /\ agent.up /\ agent.entry # "none"
  /\ agent' = [agent EXCEPT !.entry = IF Healthy THEN "passing" ELSE "critical"]
  /\ UNCHANGED <<proc, ready, registered, call, owed, faults>>

(* DeregisterCriticalServiceAfter: an entry critical for a minute goes, far
   longer than the 5 s in which the answer to a registration that has been
   carried out arrives or is given up. *)
Reap ==
  /\ agent.up /\ agent.entry = "critical"
  /\ ~(call.op = "register" /\ call.answer = "ok")
  /\ agent' = [agent EXCEPT !.entry = "none"]
  /\ UNCHANGED <<proc, ready, registered, call, owed, faults>>

(* The agent stops and comes back, with its entries or without them. *)
AgentStops ==
  /\ agent.up /\ Fault("agentStops")
  /\ \E entry \in {agent.entry, "none"} :
       agent' = [up |-> FALSE, entry |-> entry, late |-> {}]
  /\ UNCHANGED <<proc, ready, registered, call, owed>>

AgentReturns ==
  /\ ~agent.up
  /\ agent' = [agent EXCEPT !.up = TRUE]
  /\ UNCHANGED <<proc, ready, registered, call, owed, faults>>

-----------------------------------------------------------------------------
InstanceStep == Boot \/ Wake \/ ReadAnswer \/ CallFails
AgentStep == CarryOut \/ CarryOutLate \/ Probe \/ Reap \/ AgentStops \/ AgentReturns

(* The loop is always scheduled again, a request is answered or times out,
   and a running agent serves requests and probes its entries.  An entry is
   probed several times before it may be removed and before the loop looks
   at it (10 s against 60 s and 30 s), so a healthy instance cannot be missed
   for ever: that is the strong fairness. *)
RegistrarFairness ==
  /\ WF_registrarVars(Wake)
  /\ WF_registrarVars(ReadAnswer)
  /\ WF_registrarVars(CallFails /\ Waiting /\ ~agent.up)
  /\ WF_registrarVars(CarryOut)
  /\ WF_registrarVars(CarryOutLate)
  /\ SF_registrarVars(Probe /\ Healthy)

RegistrarTypeOK ==
  /\ proc \in {"down", "booting", "serving", "stopping"}
  /\ ready \in BOOLEAN /\ registered \in BOOLEAN /\ owed \in BOOLEAN
  /\ call \in [op : Ops \cup {"none"}, answer : {"none", "ok", "absent"}]
  /\ agent \in [up : BOOLEAN, entry : {"none", "fresh", "passing", "critical"},
                late : SUBSET {"register", "deregister"}]
  /\ faults \in 0..MaxFaults

(* An orderly shut-down leaves no entry behind (the gateway would go on
   routing to it), unless a request to register was given up, the process
   had died before, or a deregistration failed: a doubtful check of the entry
   is no excuse, nor is an entry the agent had lost in between. *)
LeftoverHasCause == proc = "down" /\ agent.entry # "none" => owed

(* An instance that goes on serving with its regulations loaded, next to an
   agent that goes on running, is listed as passing from some time on,
   whatever happened to its registration before. *)
ListedInTheEnd ==
  <>[](proc = "serving" /\ ready /\ agent.up) => <>[](agent.entry = "passing")
=============================================================================

------------------------------- MODULE Chatbot -------------------------------
(***************************************************************************)
(* One instance of the chatbot: its registration and the question it is    *)
(* answering.  The server stops only when no answer is under way; a crash  *)
(* cuts the answer off.                                                    *)
(***************************************************************************)
EXTENDS Registrar, Answering

CONSTANT HasKey   \* an API key was given (app.state.provider)

vars == <<registrarVars, answeringVars>>

Init == RegistrarInit /\ AnsweringInit

(* chat: too long a question, an instance that cannot answer, or a stream. *)
Chat ==
  /\ proc = "serving"
  /\ \/ Refuse("413")
     \/ ~(ready /\ HasKey) /\ Refuse("503")
     \/ ready /\ HasKey /\ Ask

CutOff == IF phase = "idle" THEN UNCHANGED answeringVars ELSE End("cut")

Next ==
  \/ (InstanceStep \/ AgentStep) /\ UNCHANGED answeringVars
  \/ phase = "idle" /\ Stop /\ UNCHANGED answeringVars
  \/ Crash /\ CutOff
  \/ Chat /\ UNCHANGED registrarVars
  \/ AnsweringStep /\ UNCHANGED registrarVars

Spec == Init /\ [][Next]_vars /\ RegistrarFairness
=============================================================================

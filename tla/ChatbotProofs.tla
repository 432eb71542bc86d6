---------------------------- MODULE ChatbotProofs ----------------------------
(***************************************************************************)
(* Theorems about one instance of the chatbot, for any number of faults,   *)
(* any texts of the model cut into pieces anywhere, any number of attempts *)
(* and repetitions; and about the scripts that evaluate its answers, for   *)
(* any regulations, edits, items, answers and number of stored runs.       *)
(*                                                                         *)
(* The instance's two halves share no variable, only the process: a crash  *)
(* cuts an answer off.  Each has an inductive invariant of its own, and so *)
(* has the evaluation.                                                     *)
(***************************************************************************)
EXTENDS Chatbot, Evaluation, LoopProofs

(* What the process and its request say of each other: a check is made of  *)
(* an entry believed in, and a process that is down waits for nothing.     *)
CallFits ==
  /\ proc = "down" => call = NoCall
  /\ call.op = "verify" => registered
  /\ call.op = "deregister" <=> proc = "stopping"
  /\ call.answer = "absent" => call.op = "verify"
  /\ call.op = "none" => call.answer = "none"

(* As long as nothing is owed, no registration is under way that nobody    *)
(* waits for, and an entry there is one that the instance believes in, is  *)
(* about to learn of, or is taking away.                                   *)
EntryKnown ==
  ~owed =>
    /\ "register" \notin agent.late
    /\ agent.entry # "none" =>
         \/ registered /\ proc \in {"booting", "serving"} /\ call.answer # "absent"
         \/ call.op = "register" /\ call.answer = "ok"
         \/ call.op = "deregister" /\ Waiting

RegistrarInv == RegistrarTypeOK /\ CallFits /\ EntryKnown

ClientShape == client = [meta |-> client.meta, body |-> client.body, end |-> client.end]

(* The first n tokens of the text were checked, as a complete header or as *)
(* the whole text; what came with the header was shown, and every token    *)
(* since, in its place.                                                    *)
ShownFrom(n) ==
  LET checked == SubSeq(text, 1, n)
  IN /\ HeaderComplete(checked) \/ n = Len(text)
     /\ client.meta.cited = SplitAnswer(checked).cited
     /\ client.meta.warned <=> Unknown(checked) # {}
     /\ client.body = SplitAnswer(checked).body \o SubSeq(text, n + 1, pos)

(* What the client has been told belongs to the text that is arriving.     *)
HeaderOfThisText ==
  /\ client.meta.sent =>
       /\ phase # "buffering"
       /\ \E n \in 0..pos : ShownFrom(n)
       /\ client.meta.warned => attempt = MaxAttempts
  /\ ~client.meta.sent => client.meta = NoMeta /\ client.body = <<>>

(* Which phase may be when.                                                *)
PhaseFits ==
  /\ phase # "idle" => attempt # 0 /\ client.end = "none"
  /\ phase \in {"streaming", "over"} => client.meta.sent
  /\ phase = "streaming" => pos # 0
  /\ phase = "over" => pos = Len(text)
  /\ client.end = "done" => client.meta.sent /\ pos = Len(text)

AnsweringInv == AnsweringTypeOK /\ ClientShape /\ HeaderOfThisText /\ PhaseFits

-----------------------------------------------------------------------------
(* The registration.                                                       *)

LEMMA RegistrarStarts == RegistrarInit => RegistrarInv
<1> SUFFICES ASSUME RegistrarInit PROVE RegistrarInv
  OBVIOUS
<1>1. RegistrarTypeOK
  <2>1. PICK up \in BOOLEAN : agent = [up |-> up, entry |-> "none", late |-> {}]
    BY DEF RegistrarInit
  <2>2. agent \in [up : BOOLEAN, entry : {"none", "fresh", "passing", "critical"},
                   late : SUBSET {"register", "deregister"}]
    BY <2>1
  <2>3. faults \in 0..MaxFaults
    BY RegistrarAssumption DEF RegistrarInit
  <2>4. call \in [op : Ops \cup {"none"}, answer : {"none", "ok", "absent"}]
    BY DEF RegistrarInit, NoCall
  <2> QED
    BY <2>2, <2>3, <2>4 DEF RegistrarInit, RegistrarTypeOK
<1>2. CallFits
  BY DEF RegistrarInit, CallFits, NoCall
<1>3. EntryKnown
  BY DEF RegistrarInit, EntryKnown
<1> QED
  BY <1>1, <1>2, <1>3 DEF RegistrarInv

LEMMA FaultCounts ==
  ASSUME faults \in 0..MaxFaults, NEW kind, Fault(kind)
  PROVE  faults' \in 0..MaxFaults
  BY RegistrarAssumption DEF Fault

LEMMA BootKeeps == ASSUME RegistrarInv, Boot PROVE RegistrarInv'
<1>1. faults' \in 0..MaxFaults
  BY FaultCounts DEF Boot, RegistrarInv, RegistrarTypeOK
<1>2. RegistrarTypeOK'
  BY <1>1 DEF Boot, RegistrarInv, RegistrarTypeOK, Call, Ops
<1>3. CallFits'
  BY DEF Boot, CallFits, Call
<1>4. EntryKnown'
  BY DEF Boot, RegistrarInv, CallFits, EntryKnown, NoCall
<1> QED
  BY <1>2, <1>3, <1>4 DEF RegistrarInv

LEMMA WakeKeeps == ASSUME RegistrarInv, Wake PROVE RegistrarInv'
  BY DEF Wake, NextCall, RegistrarInv, RegistrarTypeOK, CallFits, EntryKnown, NoCall, Call, Ops,
         Waiting

LEMMA ReadAnswerKeeps == ASSUME RegistrarInv, ReadAnswer PROVE RegistrarInv'
  BY DEF ReadAnswer, Served, RegistrarInv, RegistrarTypeOK, CallFits, EntryKnown, NoCall, Ops, Waiting

(* A request given up, when the process goes on or not.                    *)
LEMMA LateTyped ==
  ASSUME RegistrarInv, agent' \in {agent, [agent EXCEPT !.late = @ \cup GivenUp]}
  PROVE  /\ agent' \in [up : BOOLEAN, entry : {"none", "fresh", "passing", "critical"},
                        late : SUBSET {"register", "deregister"}]
         /\ agent'.entry = agent.entry
         /\ "register" \in agent'.late => "register" \in agent.late \/ call.op = "register"
  BY DEF RegistrarInv, RegistrarTypeOK, GivenUp, Ops, CallFits, Waiting

LEMMA CallFailsKeeps == ASSUME RegistrarInv, CallFails PROVE RegistrarInv'
<1>1. faults' \in 0..MaxFaults /\ agent' \in {agent, [agent EXCEPT !.late = @ \cup GivenUp]}
  BY FaultCounts DEF CallFails, RegistrarInv, RegistrarTypeOK
<1>2. RegistrarTypeOK'
  BY <1>1, LateTyped DEF CallFails, Served, BelievedAfterFailure, RegistrarInv, RegistrarTypeOK,
     NoCall
<1>3. CallFits'
  BY DEF CallFails, Served, RegistrarInv, RegistrarTypeOK, CallFits, NoCall
<1>4. EntryKnown'
  <2>1. SUFFICES ASSUME ~owed' PROVE EntryKnown'
    BY DEF EntryKnown
  <2>2. ~owed /\ call.op = "verify"
    BY <2>1 DEF CallFails, RegistrarInv, RegistrarTypeOK, Ops
  <2>3. proc' \in {"booting", "serving"} \/ ~registered
    BY <2>2 DEF CallFails, Served, RegistrarInv, RegistrarTypeOK, CallFits, NoCall
  <2>4. registered' = registered
    BY <2>2 DEF CallFails, BelievedAfterFailure, RegistrarInv, RegistrarTypeOK
  <2> QED
    BY <1>1, <2>2, <2>3, <2>4, LateTyped DEF CallFails, RegistrarInv, CallFits, EntryKnown, NoCall
<1> QED
  BY <1>2, <1>3, <1>4 DEF RegistrarInv

LEMMA StopKeeps == ASSUME RegistrarInv, Stop PROVE RegistrarInv'
<1>1. /\ agent' \in {agent, [agent EXCEPT !.late = @ \cup GivenUp]} /\ proc = "serving"
      /\ owed' \in BOOLEAN /\ (owed' <=> owed \/ call.op = "register")
      /\ UNCHANGED <<registered, faults>>
  BY DEF Stop, RegistrarInv, RegistrarTypeOK
<1>2. CASE registered
  <2>1. proc' = "stopping" /\ call' = Call("deregister") /\ UNCHANGED ready
    BY <1>2 DEF Stop
  <2>2. RegistrarTypeOK'
    BY <1>1, <2>1, LateTyped DEF RegistrarInv, RegistrarTypeOK, Call, Ops
  <2> QED
    BY <1>1, <2>1, <2>2, LateTyped DEF RegistrarInv, CallFits, EntryKnown, NoCall, Call, Waiting
<1>3. CASE ~registered
  <2>1. proc' = "down" /\ call' = NoCall /\ ready' = FALSE
    BY <1>3 DEF Stop
  <2>2. RegistrarTypeOK'
    BY <1>1, <2>1, LateTyped DEF RegistrarInv, RegistrarTypeOK, NoCall
  <2> QED
    BY <1>1, <1>3, <2>1, <2>2, LateTyped DEF RegistrarInv, CallFits, EntryKnown, NoCall
<1> QED
  BY <1>2, <1>3

LEMMA CrashKeeps == ASSUME RegistrarInv, Crash PROVE RegistrarInv'
<1>1. faults' \in 0..MaxFaults /\ agent' = [agent EXCEPT !.late = @ \cup GivenUp]
  BY FaultCounts DEF Crash, RegistrarInv, RegistrarTypeOK
<1>2. RegistrarTypeOK'
  BY <1>1, LateTyped DEF Crash, RegistrarInv, RegistrarTypeOK, NoCall
<1> QED
  BY <1>2 DEF Crash, RegistrarInv, CallFits, EntryKnown, NoCall

LEMMA AgentKeeps == ASSUME RegistrarInv, AgentStep PROVE RegistrarInv'
<1>1. CASE CarryOut
  BY <1>1 DEF CarryOut, Entries, RegistrarInv, RegistrarTypeOK, CallFits, EntryKnown, NoCall, Ops,
              Waiting
<1>2. CASE CarryOutLate
  <2>0. PICK op \in agent.late :
          \E entry \in Entries(op) : agent' = [agent EXCEPT !.entry = entry, !.late = @ \ {op}]
    BY <1>2 DEF CarryOutLate
  <2>1. PICK entry \in Entries(op) : agent' = [agent EXCEPT !.entry = entry, !.late = @ \ {op}]
    BY <2>0
  <2>2. op \in {"register", "deregister"} /\ (~owed => op = "deregister")
    BY <2>0 DEF RegistrarInv, RegistrarTypeOK, EntryKnown
  <2>3. /\ agent.entry \in {"none", "fresh", "passing", "critical"}
        /\ entry \in {"none", "fresh", "passing", "critical"}
        /\ op = "deregister" => entry = "none"
    BY <2>1, <2>2 DEF Entries, RegistrarInv, RegistrarTypeOK
  <2>4. /\ agent' \in [up : BOOLEAN, entry : {"none", "fresh", "passing", "critical"},
                       late : SUBSET {"register", "deregister"}]
        /\ agent'.entry = entry /\ agent'.late \subseteq agent.late
    BY <2>1, <2>3 DEF RegistrarInv, RegistrarTypeOK
  <2>5. UNCHANGED <<proc, ready, registered, call, owed, faults>>
    BY <1>2 DEF CarryOutLate
  <2>6. RegistrarTypeOK'
    BY <2>4, <2>5 DEF RegistrarInv, RegistrarTypeOK
  <2>7. CallFits'
    BY <2>5 DEF RegistrarInv, CallFits
  <2>8. EntryKnown'
    BY <2>2, <2>3, <2>4, <2>5 DEF RegistrarInv, EntryKnown
  <2> QED
    BY <2>6, <2>7, <2>8 DEF RegistrarInv
<1>3. CASE Probe \/ Reap
  BY <1>3 DEF Probe, Reap, RegistrarInv, RegistrarTypeOK, CallFits, EntryKnown, Waiting
<1>4. CASE AgentStops
  <2>1. PICK entry \in {agent.entry, "none"} : agent' = [up |-> FALSE, entry |-> entry, late |-> {}]
    BY <1>4 DEF AgentStops
  <2>2. /\ agent' \in [up : BOOLEAN, entry : {"none", "fresh", "passing", "critical"},
                       late : SUBSET {"register", "deregister"}]
        /\ agent'.entry \in {agent.entry, "none"} /\ agent'.late = {}
    BY <2>1 DEF RegistrarInv, RegistrarTypeOK
  <2>3. faults' \in 0..MaxFaults /\ UNCHANGED <<proc, ready, registered, call, owed>>
    BY <1>4, FaultCounts DEF AgentStops, RegistrarInv, RegistrarTypeOK
  <2> QED
    BY <2>2, <2>3 DEF RegistrarInv, RegistrarTypeOK, CallFits, EntryKnown, Waiting
<1>5. CASE AgentReturns
  <2>1. PICK up \in BOOLEAN : agent' = [agent EXCEPT !.up = up]
    BY <1>5 DEF AgentReturns
  <2> QED
    BY <1>5, <2>1 DEF AgentReturns, RegistrarInv, RegistrarTypeOK, CallFits, EntryKnown, Waiting
<1> QED
  BY <1>1, <1>2, <1>3, <1>4, <1>5 DEF AgentStep

-----------------------------------------------------------------------------
(* Reading a text: where its first word, its first line and its header end.*)

(* Where the first word and the first line end.                            *)
LEMMA FirstWordIs ==
  ASSUME NEW t \in Seq(STRING)
  PROVE  /\ FirstWord(t) = 0 => \A i \in 1..Len(t) : t[i] = "nl"
         /\ FirstWord(t) # 0 => /\ FirstWord(t) \in 1..Len(t) /\ t[FirstWord(t)] # "nl"
                                /\ \A i \in 1..Len(t) : i < FirstWord(t) => t[i] = "nl"
<1> DEFINE I == {i \in 1..Len(t) : t[i] # "nl"}
<1>1. FirstWord(t) = IF I # {} THEN Min(I) ELSE 0
  BY DEF FirstWord, SelectInSeq
<1>2. I \subseteq Nat
  OBVIOUS
<1>3. I # {} => Min(I) \in I /\ \A j \in I : Min(I) <= j
  <2> HIDE DEF I
  <2> QED
    BY <1>2, LeastNumber
<1>4. CASE I = {}
  BY <1>1, <1>4
<1>5. CASE I # {}
  <2>1. FirstWord(t) \in I /\ \A j \in I : FirstWord(t) <= j
    BY <1>1, <1>3, <1>5
  <2>2. ASSUME NEW i \in 1..Len(t), i < FirstWord(t) PROVE t[i] = "nl"
    BY <2>1, <2>2
  <2> QED
    BY <2>1, <2>2
<1> QED
  BY <1>4, <1>5

LEMMA LineEndIs ==
  ASSUME NEW t \in Seq(STRING)
  PROVE  /\ LineEnd(t) = 0 => \A i \in 1..Len(t) : t[i] # "nl"
         /\ LineEnd(t) # 0 => /\ LineEnd(t) \in 1..Len(t) /\ t[LineEnd(t)] = "nl"
                              /\ \A i \in 1..Len(t) : i < LineEnd(t) => t[i] # "nl"
<1> DEFINE I == {i \in 1..Len(t) : t[i] = "nl"}
<1>1. LineEnd(t) = IF I # {} THEN Min(I) ELSE 0
  BY DEF LineEnd, SelectInSeq
<1>2. I \subseteq Nat
  OBVIOUS
<1>3. I # {} => Min(I) \in I /\ \A j \in I : Min(I) <= j
  <2> HIDE DEF I
  <2> QED
    BY <1>2, LeastNumber
<1>4. CASE I = {}
  BY <1>1, <1>4
<1>5. CASE I # {}
  <2>1. LineEnd(t) \in I /\ \A j \in I : LineEnd(t) <= j
    BY <1>1, <1>3, <1>5
  <2>2. ASSUME NEW i \in 1..Len(t), i < LineEnd(t) PROVE t[i] # "nl"
    BY <2>1, <2>2
  <2> QED
    BY <2>1, <2>2
<1> QED
  BY <1>4, <1>5

(* A line that has ended stays what it is, whatever follows.               *)
LEMMA LineStays ==
  ASSUME NEW t \in Seq(STRING), NEW n \in 0..Len(t), LineEnd(SubSeq(t, 1, n)) # 0
  PROVE  /\ FirstLine(SubSeq(t, 1, n)) = FirstLine(t)
         /\ LineEnd(t) = LineEnd(SubSeq(t, 1, n)) /\ LineEnd(t) \in 1..n
<1> DEFINE p == SubSeq(t, 1, n)
           e == LineEnd(p)
<1>1. p \in Seq(STRING) /\ Len(p) = n /\ \A i \in 1..n : p[i] = t[i]
  BY SubSeqProperties
<1>2. e \in 1..n /\ p[e] = "nl" /\ \A i \in 1..n : i < e => p[i] # "nl"
  BY <1>1, LineEndIs
<1>3. LineEnd(t) = e
  <2> HIDE DEF p, e
  <2>1. e \in 1..Len(t) /\ t[e] = "nl" /\ \A i \in 1..Len(t) : i < e => t[i] # "nl"
    BY <1>1, <1>2
  <2>2. LineEnd(t) # 0
    BY <2>1, LineEndIs
  <2>3. LineEnd(t) \in 1..Len(t) /\ ~(e < LineEnd(t)) /\ ~(LineEnd(t) < e)
    BY <2>1, <2>2, LineEndIs
  <2> QED
    BY <2>1, <2>3
<1>4. SubSeq(p, 1, e - 1) = SubSeq(t, 1, e - 1)
  <2>1. /\ SubSeq(p, 1, e - 1) \in Seq(STRING) /\ SubSeq(t, 1, e - 1) \in Seq(STRING)
        /\ Len(SubSeq(p, 1, e - 1)) = e - 1 /\ Len(SubSeq(t, 1, e - 1)) = e - 1
        /\ \A i \in 1..(e - 1) : SubSeq(p, 1, e - 1)[i] = p[i] /\ SubSeq(t, 1, e - 1)[i] = t[i]
    BY <1>1, <1>2
  <2>2. \A i \in 1..(e - 1) : p[i] = t[i]
    BY <1>1, <1>2
  <2> HIDE DEF p, e
  <2> QED
    BY <1>2, <2>1, <2>2, SeqEqual
<1> QED
  BY <1>2, <1>3, <1>4 DEF FirstLine

(* So does the first line after empty ones: the header that is judged when *)
(* it is complete is the header of the whole text.                         *)
LEMMA HeaderStays ==
  ASSUME NEW t \in Seq(STRING), NEW n \in 0..Len(t), HeaderComplete(SubSeq(t, 1, n))
  PROVE  /\ FirstLine(LStrip(SubSeq(t, 1, n))) = FirstLine(LStrip(t))
         /\ \E f \in 1..n :
              /\ LStrip(t) = SubSeq(t, f, Len(t))
              /\ LStrip(SubSeq(t, 1, n)) = SubSeq(LStrip(t), 1, n - f + 1)
              /\ LineEnd(LStrip(SubSeq(t, 1, n))) = LineEnd(LStrip(t))
              /\ LineEnd(LStrip(t)) \in 1..(n - f + 1)
<1> DEFINE p == SubSeq(t, 1, n)
           f == FirstWord(p)
           s == LStrip(t)
<1>1. p \in Seq(STRING) /\ Len(p) = n /\ \A i \in 1..n : p[i] = t[i]
  BY SubSeqProperties
<1>2. FirstWord(<<>>) = 0
  <2>1. <<>> \in Seq(STRING) /\ 1..Len(<<>>) = {}
    OBVIOUS
  <2>2. FirstWord(<<>>) # 0 => FirstWord(<<>>) \in 1..Len(<<>>)
    BY <2>1, FirstWordIs
  <2> QED
    BY <2>1, <2>2
<1>3. LineEnd(<<>>) = 0
  <2>1. <<>> \in Seq(STRING) /\ 1..Len(<<>>) = {}
    OBVIOUS
  <2>2. LineEnd(<<>>) # 0 => LineEnd(<<>>) \in 1..Len(<<>>)
    BY <2>1, LineEndIs
  <2> QED
    BY <2>1, <2>2
<1>4. LineEnd(LStrip(p)) # 0
  BY <1>2 DEF HeaderComplete, OtherLines
<1>5. f # 0 /\ LStrip(p) = SubSeq(p, f, n)
  BY <1>1, <1>3, <1>4 DEF LStrip
<1>6. f \in 1..n /\ p[f] # "nl" /\ \A i \in 1..n : i < f => p[i] = "nl"
  BY <1>1, <1>5, FirstWordIs
<1>7. FirstWord(t) = f
  <2> HIDE DEF p, f
  <2>1. f \in 1..Len(t) /\ t[f] # "nl" /\ \A i \in 1..Len(t) : i < f => t[i] = "nl"
    BY <1>1, <1>6
  <2>2. FirstWord(t) # 0
    BY <2>1, FirstWordIs
  <2>3. FirstWord(t) \in 1..Len(t) /\ ~(f < FirstWord(t)) /\ ~(FirstWord(t) < f)
    BY <2>1, <2>2, FirstWordIs
  <2> QED
    BY <2>1, <2>3
<1>8. s = SubSeq(t, f, Len(t))
  BY <1>5, <1>7 DEF LStrip
<1>9. s \in Seq(STRING) /\ Len(s) = Len(t) - f + 1 /\ \A i \in 1..Len(s) : s[i] = t[f + i - 1]
  BY <1>6, <1>8
<1>10. LStrip(p) = SubSeq(s, 1, n - f + 1)
  <2>1. /\ SubSeq(p, f, n) \in Seq(STRING) /\ Len(SubSeq(p, f, n)) = n - f + 1
        /\ \A i \in 1..(n - f + 1) : SubSeq(p, f, n)[i] = p[f + i - 1]
    <3> HIDE DEF p, f
    <3>1. f \in Int /\ n \in Int /\ f <= n /\ \A i \in f..n : p[i] \in STRING
      BY <1>1, <1>6
    <3> QED
      BY <3>1, SubSeqProperties
  <2> HIDE DEF p, f, s
  <2>2. /\ SubSeq(s, 1, n - f + 1) \in Seq(STRING) /\ Len(SubSeq(s, 1, n - f + 1)) = n - f + 1
        /\ \A i \in 1..(n - f + 1) : SubSeq(s, 1, n - f + 1)[i] = s[i]
    BY <1>6, <1>9
  <2>3. \A i \in 1..(n - f + 1) : p[f + i - 1] = s[i]
    BY SMTT(30), <1>1, <1>6, <1>9
  <2> QED
    BY <1>5, <1>6, <2>1, <2>2, <2>3, SeqEqual
<1>11. n - f + 1 \in 0..Len(s)
  BY <1>6, <1>9
<1>12. /\ FirstLine(LStrip(p)) = FirstLine(s) /\ LineEnd(s) = LineEnd(LStrip(p))
       /\ LineEnd(s) \in 1..(n - f + 1)
  <2> DEFINE k == n - f + 1
  <2>1. s \in Seq(STRING) /\ k \in 0..Len(s) /\ LineEnd(SubSeq(s, 1, k)) # 0
    BY <1>4, <1>9, <1>10, <1>11
  <2> HIDE DEF s, k
  <2>2. /\ FirstLine(SubSeq(s, 1, k)) = FirstLine(s)
        /\ LineEnd(s) = LineEnd(SubSeq(s, 1, k)) /\ LineEnd(s) \in 1..k
    BY <2>1, LineStays
  <2> QED
    BY <1>10, <2>2 DEF k
<1> QED
  BY <1>6, <1>8, <1>10, <1>12

LEMMA CitationsStay ==
  ASSUME NEW t \in Seq(STRING), NEW n \in 0..Len(t), HeaderComplete(SubSeq(t, 1, n))
  PROVE  SplitAnswer(SubSeq(t, 1, n)).cited = SplitAnswer(t).cited
  BY HeaderStays DEF SplitAnswer

(* After the last word of a text there are only line ends.                 *)
LEMMA LastWordIs ==
  ASSUME NEW t \in Seq(STRING)
  PROVE  /\ LastWord(t) \in 0..Len(t)
         /\ \A i \in 1..Len(t) : LastWord(t) < i => t[i] = "nl"
<1> DEFINE I == {i \in 1..Len(t) : t[i] # "nl"}
           J == {Len(t) - i : i \in I}
<1>1. LastWord(t) = IF I # {} THEN Max(I) ELSE 0
  BY DEF LastWord, SelectLastInSeq
<1>2. ASSUME I # {} PROVE Max(I) \in I /\ \A k \in I : Max(I) >= k
  <2>1. J \subseteq Nat /\ J # {}
    BY <1>2
  <2> HIDE DEF J
  <2>2. Min(J) \in J /\ \A j \in J : Min(J) <= j
    BY <2>1, LeastNumber
  <2> USE DEF J
  <2>3. PICK i \in I : Min(J) = Len(t) - i
    BY <2>2
  <2>4. \A k \in I : Len(t) - i <= Len(t) - k
    BY <2>2, <2>3
  <2>5. \A k \in I : i >= k
    BY <2>4
  <2> HIDE DEF I
  <2> QED
    BY <2>5 DEF Max
<1>3. CASE I = {}
  BY <1>1, <1>3
<1>4. CASE I # {}
  <2>1. LastWord(t) \in I /\ \A k \in I : LastWord(t) >= k
    BY <1>1, <1>2, <1>4
  <2> QED
    BY <2>1
<1> QED
  BY <1>3, <1>4

(* What is stripped of a text, or cut off it, is a text.                   *)
LEMMA LStripTyped == ASSUME NEW t \in Seq(STRING) PROVE LStrip(t) \in Seq(STRING)
<1>1. CASE FirstWord(t) = 0
  BY <1>1 DEF LStrip
<1>2. CASE FirstWord(t) # 0
  <2>1. FirstWord(t) \in Nat \ {0} /\ Len(t) \in 0..Len(t)
    BY <1>2, FirstWordIs
  <2> QED
    BY <1>2, <2>1, PartTyped DEF LStrip
<1> QED
  BY <1>1, <1>2

LEMMA StripTyped == ASSUME NEW t \in Seq(STRING) PROVE Strip(t) \in Seq(STRING)
  BY LStripTyped, LastWordIs, PartTyped DEF Strip

LEMMA OtherLinesTyped == ASSUME NEW t \in Seq(STRING) PROVE OtherLines(t) \in Seq(STRING)
<1>1. CASE LineEnd(t) = 0
  BY <1>1 DEF OtherLines
<1>2. CASE LineEnd(t) # 0
  <2>1. LineEnd(t) + 1 \in Nat \ {0} /\ Len(t) \in 0..Len(t)
    BY <1>2, LineEndIs
  <2> QED
    BY <1>2, <2>1, PartTyped DEF OtherLines
<1> QED
  BY <1>1, <1>2

LEMMA BodyTyped == ASSUME NEW t \in Seq(STRING) PROVE SplitAnswer(t).body \in Seq(STRING)
<1> DEFINE rest == LStrip(OtherLines(LStrip(t)))
<1>1. Strip(t) \in Seq(STRING)
  BY StripTyped
<1>2. rest \in Seq(STRING)
  BY LStripTyped, OtherLinesTyped
<1> HIDE DEF rest
<1>3. WithoutSeparator(rest) \in Seq(STRING)
  BY <1>2, OtherLinesTyped DEF WithoutSeparator
<1>4. Strip(WithoutSeparator(rest)) \in Seq(STRING)
  BY <1>3, StripTyped
<1> QED
  BY <1>1, <1>4 DEF SplitAnswer, rest

(* When the header is announced nothing has followed it yet.              *)
LEMMA NothingAdded ==
  ASSUME NEW s \in Seq(STRING), NEW t, NEW n \in Nat
  PROVE  s \o SubSeq(t, n + 1, n) = s
<1>1. SubSeq(t, n + 1, n) = <<>>
  BY SubSeqEmpty
<1> QED
  BY <1>1, ConcatEmptySeq

LEMMA BeginningTyped ==
  ASSUME NEW t \in Seq(STRING), NEW n \in 0..Len(t)
  PROVE  SubSeq(t, 1, n) \in Seq(STRING)
  BY PartTyped

-----------------------------------------------------------------------------
(* The words of a text: a loop over its tokens.                            *)
Marks == {"nl", "--", "-"}

LEMMA WordsTyped == ASSUME NEW s \in Seq(STRING) PROVE Words(s) \in Seq(STRING)
  BY WithoutTyped DEF Words

(* Marks alone are no words.                                               *)
LEMMA NoWords ==
  ASSUME NEW s \in Seq(STRING), \A i \in 1..Len(s) : s[i] \in Marks
  PROVE  Words(s) = <<>>
  BY NothingLeft DEF Words, Marks

(* The words of two texts in a row are the words of the one and then those *)
(* of the other.                                                           *)
LEMMA WordsOfBoth ==
  ASSUME NEW a \in Seq(STRING), NEW b \in Seq(STRING)
  PROVE  Words(a \o b) = Words(a) \o Words(b)
  BY WithoutOfBoth DEF Words

(* A text cut in two keeps its words.                                      *)
LEMMA CutWords ==
  ASSUME NEW t \in Seq(STRING), NEW m \in 0..Len(t)
  PROVE  /\ SubSeq(t, 1, m) \in Seq(STRING) /\ SubSeq(t, m + 1, Len(t)) \in Seq(STRING)
         /\ Words(t) = Words(SubSeq(t, 1, m)) \o Words(SubSeq(t, m + 1, Len(t)))
  BY CutInTwo, WithoutCut DEF Words

(* Marks cut off at the front, or at the back, take no word away.          *)
LEMMA MarksInFront ==
  ASSUME NEW t \in Seq(STRING), NEW m \in 0..Len(t), \A i \in 1..m : t[i] \in Marks
  PROVE  Words(SubSeq(t, m + 1, Len(t))) = Words(t)
  BY WithoutInFront DEF Words, Marks

LEMMA MarksBehind ==
  ASSUME NEW t \in Seq(STRING), NEW m \in 0..Len(t), \A i \in 1..Len(t) : m < i => t[i] \in Marks
  PROVE  Words(SubSeq(t, 1, m)) = Words(t)
  BY WithoutBehind DEF Words, Marks

(* Stripping a text takes no word away, nor does the separator line.       *)
LEMMA LStripWords == ASSUME NEW t \in Seq(STRING) PROVE Words(LStrip(t)) = Words(t)
<1>1. CASE FirstWord(t) = 0
  <2>1. \A i \in 1..Len(t) : t[i] \in Marks
    BY <1>1, FirstWordIs DEF Marks
  <2>2. Words(t) = <<>>
    BY <2>1, NoWords
  <2>3. Words(<<>>) = <<>>
    <3>1. <<>> \in Seq(STRING) /\ Len(<<>>) = 0
      OBVIOUS
    <3>2. \A i \in 1..0 : <<>>[i] \in Marks
      OBVIOUS
    <3> QED
      BY <3>1, <3>2, NoWords
  <2> QED
    BY <1>1, <2>2, <2>3 DEF LStrip
<1>2. CASE FirstWord(t) # 0
  <2> DEFINE f == FirstWord(t)
  <2>1. f \in 1..Len(t) /\ \A i \in 1..Len(t) : i < f => t[i] = "nl"
    BY <1>2, FirstWordIs
  <2>2. LStrip(t) = SubSeq(t, f, Len(t))
    BY <1>2 DEF LStrip
  <2> HIDE DEF f
  <2> DEFINE m == f - 1
  <2>3. m \in 0..Len(t) /\ m + 1 = f /\ \A i \in 1..m : t[i] \in Marks
    BY <2>1 DEF Marks
  <2> HIDE DEF m
  <2>4. Words(SubSeq(t, m + 1, Len(t))) = Words(t)
    BY <2>3, MarksInFront
  <2> QED
    BY <2>2, <2>3, <2>4
<1> QED
  BY <1>1, <1>2

LEMMA StripWords == ASSUME NEW t \in Seq(STRING) PROVE Words(Strip(t)) = Words(t)
<1> DEFINE s == LStrip(t)  m == LastWord(s)
<1>1. s \in Seq(STRING) /\ Words(s) = Words(t) /\ Strip(t) = SubSeq(s, 1, m)
  BY LStripTyped, LStripWords DEF Strip
<1> HIDE DEF s
<1>2. m \in 0..Len(s) /\ \A i \in 1..Len(s) : m < i => s[i] \in Marks
  BY <1>1, LastWordIs DEF Marks
<1> HIDE DEF m
<1>3. Words(SubSeq(s, 1, m)) = Words(s)
  BY <1>1, <1>2, MarksBehind
<1> QED
  BY <1>1, <1>3

LEMMA SeparatorWords ==
  ASSUME NEW t \in Seq(STRING) PROVE Words(WithoutSeparator(t)) = Words(t)
<1> SUFFICES ASSUME FirstLine(t) = Separator PROVE Words(OtherLines(t)) = Words(t)
  BY DEF WithoutSeparator
<1>1. Len(FirstLine(t)) = 2 /\ \A i \in 1..2 : FirstLine(t)[i] \in Marks
  BY DEF Separator, Marks
<1>2. CASE LineEnd(t) = 0
  <2>1. FirstLine(t) = t /\ OtherLines(t) = <<>>
    BY <1>2 DEF FirstLine, OtherLines
  <2>2. Words(t) = <<>>
    BY <1>1, <2>1, NoWords
  <2>3. <<>> \in Seq(STRING) /\ \A i \in 1..Len(<<>>) : <<>>[i] \in Marks
    OBVIOUS
  <2> QED
    BY <2>1, <2>2, <2>3, NoWords
<1>3. CASE LineEnd(t) # 0
  <2> DEFINE e == LineEnd(t)
  <2>1. e \in 1..Len(t) /\ t[e] = "nl" /\ e \in Nat /\ Len(t) \in Nat
    BY <1>3, LineEndIs
  <2>2. FirstLine(t) = SubSeq(t, 1, e - 1) /\ OtherLines(t) = SubSeq(t, e + 1, Len(t))
    BY <1>3 DEF FirstLine, OtherLines
  <2> HIDE DEF e
  <2>3. \A i \in 1..(e - 1) : SubSeq(t, 1, e - 1)[i] = t[i]
    BY <2>1, SubSeqProperties
  <2>4. e - 1 = 2
    <3>1. Len(SubSeq(t, 1, e - 1)) = e - 1
      BY <2>1, SubSeqProperties
    <3> QED
      BY <1>1, <2>2, <3>1
  <2>5. \A i \in 1..e : t[i] \in Marks
    <3>1. ASSUME NEW i \in 1..e PROVE t[i] \in Marks
      <4>1. CASE i = e
        BY <2>1, <4>1 DEF Marks
      <4>2. CASE i # e
        <5>1. i \in 1..(e - 1) /\ i \in 1..2
          BY <2>1, <2>4, <4>2
        <5> QED
          BY <1>1, <2>2, <2>3, <5>1
      <4> QED
        BY <4>1, <4>2
    <3> QED
      BY <3>1
  <2> QED
    BY <2>1, <2>2, <2>5, MarksInFront
<1> QED
  BY <1>2, <1>3

(* split_answer takes the first line for the header.                       *)
HasHeader(t) == ~(FirstLine(LStrip(t)) = <<>> \/ FirstLine(LStrip(t))[1] # "basis")

(* Nothing that is cut off a body holds a word of it.                      *)
LEMMA BodyWords ==
  ASSUME NEW t \in Seq(STRING)
  PROVE  /\ HasHeader(t) => Words(SplitAnswer(t).body) = Words(OtherLines(LStrip(t)))
         /\ ~HasHeader(t) => Words(SplitAnswer(t).body) = Words(t)
<1>1. Words(Strip(t)) = Words(t)
  BY StripWords
<1> DEFINE lines == OtherLines(LStrip(t))
           rest  == LStrip(lines)
           body  == WithoutSeparator(rest)
<1>2. lines \in Seq(STRING)
  BY LStripTyped, OtherLinesTyped
<1> HIDE DEF lines
<1>3. rest \in Seq(STRING) /\ Words(rest) = Words(lines)
  BY <1>2, LStripTyped, LStripWords
<1> HIDE DEF rest
<1>4. body \in Seq(STRING) /\ Words(body) = Words(rest)
  <2>1. body \in Seq(STRING)
    BY <1>3, OtherLinesTyped DEF WithoutSeparator
  <2> QED
    BY <1>3, <2>1, SeparatorWords
<1> HIDE DEF body
<1>5. Words(Strip(body)) = Words(lines)
  BY <1>3, <1>4, StripWords
<1> QED
  BY <1>1, <1>5 DEF HasHeader, SplitAnswer, lines, rest, body

(* The lines below a complete header go on where they were cut.            *)
LEMMA LinesGoOn ==
  ASSUME NEW t \in Seq(STRING), NEW n \in 0..Len(t), HeaderComplete(SubSeq(t, 1, n))
  PROVE  Words(OtherLines(LStrip(t)))
           = Words(OtherLines(LStrip(SubSeq(t, 1, n)))) \o Words(SubSeq(t, n + 1, Len(t)))
<1> DEFINE p == SubSeq(t, 1, n)
           s == LStrip(t)
           e == LineEnd(s)
<1>0. n \in Nat /\ Len(t) \in Nat /\ n <= Len(t)
  OBVIOUS
<1>1. PICK f \in 1..n : /\ s = SubSeq(t, f, Len(t))
                        /\ LStrip(p) = SubSeq(s, 1, n - f + 1)
                        /\ LineEnd(LStrip(p)) = e /\ e \in 1..(n - f + 1)
  BY HeaderStays
<1> DEFINE k == n - f + 1
<1>2. s \in Seq(STRING) /\ Len(s) = Len(t) - f + 1
  <2>1. s \in Seq(STRING)
    BY LStripTyped
  <2>2. f \in Int /\ Len(t) \in Int /\ f <= Len(t) /\ \A i \in f..Len(t) : t[i] \in STRING
    BY <1>0
  <2>3. Len(SubSeq(t, f, Len(t))) = Len(t) - f + 1
    BY <2>2, SubSeqProperties
  <2> HIDE DEF s
  <2> QED
    BY <1>1, <2>1, <2>3
<1>3. /\ OtherLines(s) = SubSeq(s, e + 1, Len(s))
      /\ OtherLines(LStrip(p)) = SubSeq(LStrip(p), e + 1, Len(LStrip(p)))
  <2>1. e # 0
    BY <1>0, <1>1
  <2>2. LineEnd(s) # 0 /\ LineEnd(LStrip(p)) # 0 /\ LineEnd(LStrip(p)) = LineEnd(s)
    BY <1>1, <2>1
  <2> HIDE DEF s, p
  <2> QED
    BY <2>2 DEF OtherLines
<1> HIDE DEF p, s, e
<1>5. k \in 1..Len(s) /\ e \in 1..k /\ k \in Nat /\ e \in Nat /\ Len(s) \in Nat
  BY <1>0, <1>1, <1>2
<1> HIDE DEF k
<1>6. Len(SubSeq(s, 1, k)) = k
  BY <1>2, <1>5, SubSeqProperties
<1>7. SubSeq(SubSeq(s, 1, k), e + 1, k) = SubSeq(s, e + 1, k)
  <2>1. CASE e = k
    <3>1. k < e + 1 /\ e + 1 \in Int /\ k \in Int
      BY <1>5, <2>1
    <3>2. SubSeq(SubSeq(s, 1, k), e + 1, k) = <<>>
      BY <3>1, SubSeqEmpty
    <3>3. SubSeq(s, e + 1, k) = <<>>
      BY <3>1, SubSeqEmpty
    <3> QED
      BY <3>2, <3>3
  <2>2. CASE e # k
    <3>1. /\ 1 \in 1..Len(s) /\ k \in 1..Len(s) /\ e + 1 \in 1..(k - 1 + 1) /\ k \in 1..(k - 1 + 1)
          /\ 1 + (e + 1) - 1 = e + 1 /\ 1 + k - 1 = k
      BY <1>5, <2>2
    <3> DEFINE a == e + 1
    <3>2. a \in 1..(k - 1 + 1)
      BY <3>1
    <3> HIDE DEF a
    <3>3. SubSeq(SubSeq(s, 1, k), a, k) = SubSeq(s, 1 + a - 1, 1 + k - 1)
      BY <1>2, <3>1, <3>2, SubSeqOfSubSeq
    <3> QED
      BY <3>1, <3>3 DEF a
  <2> QED
    BY <2>1, <2>2
<1>8. SubSeq(s, k + 1, Len(s)) = SubSeq(t, n + 1, Len(t))
  <2>1. CASE n = Len(t)
    <3>1. Len(s) < k + 1 /\ Len(t) < n + 1 /\ k + 1 \in Int /\ Len(s) \in Int /\ n + 1 \in Int /\ Len(t) \in Int
      BY <1>0, <1>1, <1>2, <1>5, <2>1 DEF k
    <3>2. SubSeq(s, k + 1, Len(s)) = <<>>
      BY <3>1, SubSeqEmpty
    <3>3. SubSeq(t, n + 1, Len(t)) = <<>>
      BY <3>1, SubSeqEmpty
    <3> QED
      BY <3>2, <3>3
  <2>2. CASE n # Len(t)
    <3>1. /\ f \in 1..Len(t) /\ Len(t) \in 1..Len(t)
          /\ k + 1 \in 1..(Len(t) - f + 1) /\ Len(s) \in 1..(Len(t) - f + 1)
          /\ f + (k + 1) - 1 = n + 1 /\ f + Len(s) - 1 = Len(t)
      BY <1>0, <1>1, <1>2, <1>5, <2>2 DEF k
    <3> DEFINE a == k + 1  b == Len(s)
    <3> HIDE DEF a, b
    <3>2. f \in 1..Len(t) /\ Len(t) \in 1..Len(t) /\ a \in 1..(Len(t) - f + 1) /\ b \in 1..(Len(t) - f + 1)
      BY <3>1 DEF a, b
    <3>3. SubSeq(SubSeq(t, f, Len(t)), a, b) = SubSeq(t, f + a - 1, f + b - 1)
      BY <3>2, SubSeqOfSubSeq
    <3> QED
      BY <1>1, <3>1, <3>3 DEF a, b
  <2> QED
    BY <2>1, <2>2
<1> DEFINE x == SubSeq(s, e + 1, k)  y == SubSeq(s, k + 1, Len(s))
<1>9. x \o y = SubSeq(s, e + 1, Len(s))
  <2> DEFINE a == e + 1
  <2>1. a \in 1..(Len(s) + 1) /\ k \in (a - 1)..Len(s) /\ Len(s) \in k..Len(s)
    BY <1>5
  <2> HIDE DEF a
  <2>2. SubSeq(s, a, k) \o SubSeq(s, k + 1, Len(s)) = SubSeq(s, a, Len(s))
    BY <1>2, <2>1, ConcatAdjacentSubSeq
  <2> QED
    BY <2>2 DEF a
<1>10. x \in Seq(STRING) /\ y \in Seq(STRING)
  <2>1. /\ e + 1 \in Nat \ {0} /\ k \in 0..Len(s) /\ k + 1 \in Nat \ {0} /\ Len(s) \in 0..Len(s)
    BY <1>5
  <2> QED
    BY <1>2, <2>1, PartTyped
<1>11. LStrip(p) = SubSeq(s, 1, k)
  BY <1>1 DEF k
<1>12. OtherLines(LStrip(p)) = x /\ OtherLines(s) = x \o y /\ y = SubSeq(t, n + 1, Len(t))
  BY <1>3, <1>6, <1>7, <1>8, <1>9, <1>11
<1> HIDE DEF x, y
<1>13. Words(x \o y) = Words(x) \o Words(y)
  BY <1>10, WordsOfBoth
<1> QED
  BY <1>12, <1>13 DEF p, s

(* The words of a text's body are those that came with its complete        *)
(* header, and then those of the tokens since.                             *)
LEMMA BodyGoesOn ==
  ASSUME NEW t \in Seq(STRING), NEW n \in 0..Len(t), HeaderComplete(SubSeq(t, 1, n))
  PROVE  Words(SplitAnswer(t).body)
           = Words(SplitAnswer(SubSeq(t, 1, n)).body) \o Words(SubSeq(t, n + 1, Len(t)))
<1>1. SubSeq(t, 1, n) \in Seq(STRING)
  BY BeginningTyped
<1>2. FirstLine(LStrip(SubSeq(t, 1, n))) = FirstLine(LStrip(t))
  BY HeaderStays
<1> DEFINE p == SubSeq(t, 1, n)
<1>3. HasHeader(p) <=> HasHeader(t)
  BY <1>2 DEF HasHeader
<1>4. CASE HasHeader(t)
  <2>1. Words(SplitAnswer(t).body) = Words(OtherLines(LStrip(t)))
    BY <1>4, BodyWords
  <2>2. Words(SplitAnswer(p).body) = Words(OtherLines(LStrip(p)))
    <3> HIDE DEF p
    <3>1. p \in Seq(STRING)
      BY <1>1 DEF p
    <3> QED
      BY <1>3, <1>4, <3>1, BodyWords
  <2> QED
    BY <2>1, <2>2, LinesGoOn
<1>5. CASE ~HasHeader(t)
  <2>1. Words(SplitAnswer(t).body) = Words(t)
    BY <1>5, BodyWords
  <2>2. Words(SplitAnswer(p).body) = Words(p)
    <3> HIDE DEF p
    <3>1. p \in Seq(STRING)
      BY <1>1 DEF p
    <3> QED
      BY <1>3, <1>5, <3>1, BodyWords
  <2> QED
    BY <2>1, <2>2, CutWords
<1> QED
  BY <1>4, <1>5

(* What has been shown of a text, the body that came with its header and   *)
(* every token since, holds the first words of its body, and all of them   *)
(* when the text is over.                                                  *)
LEMMA ShownWords ==
  ASSUME NEW t \in Seq(STRING), NEW n \in 0..Len(t), NEW m \in n..Len(t),
         HeaderComplete(SubSeq(t, 1, n)) \/ n = Len(t)
  PROVE  /\ IsPrefix(Words(SplitAnswer(SubSeq(t, 1, n)).body \o SubSeq(t, n + 1, m)),
                     Words(SplitAnswer(t).body))
         /\ m = Len(t) => Words(SplitAnswer(SubSeq(t, 1, n)).body \o SubSeq(t, n + 1, m))
                            = Words(SplitAnswer(t).body)
<1> DEFINE b == SplitAnswer(SubSeq(t, 1, n)).body
           x == SubSeq(t, n + 1, m)
           y == SubSeq(t, m + 1, Len(t))
           w == Words(SplitAnswer(t).body)
<1>0. n \in Nat /\ m \in Nat /\ Len(t) \in Nat /\ n <= m /\ m <= Len(t)
  OBVIOUS
<1>1. b \in Seq(STRING) /\ x \in Seq(STRING) /\ y \in Seq(STRING)
  <2>1. /\ n + 1 \in Nat \ {0} /\ m \in 0..Len(t) /\ m + 1 \in Nat \ {0} /\ Len(t) \in 0..Len(t)
    BY <1>0
  <2>2. SubSeq(t, 1, n) \in Seq(STRING)
    BY BeginningTyped
  <2>3. b \in Seq(STRING)
    BY <2>2, BodyTyped
  <2> QED
    BY <2>1, <2>3, PartTyped
<1>2. w = Words(b) \o Words(SubSeq(t, n + 1, Len(t)))
  <2>1. CASE HeaderComplete(SubSeq(t, 1, n))
    BY <2>1, BodyGoesOn
  <2>2. CASE n = Len(t)
    <3>1. SubSeq(t, 1, n) = t
      BY <2>2, SubSeqFull
    <3>2. SubSeq(t, n + 1, Len(t)) = <<>>
      BY <1>0, <2>2, SubSeqEmpty
    <3>3. Words(<<>>) = <<>>
      <4>1. <<>> \in Seq(STRING) /\ \A i \in 1..Len(<<>>) : <<>>[i] \in Marks
        OBVIOUS
      <4> QED
        BY <4>1, NoWords
    <3>4. Words(b) \in Seq(STRING)
      BY <1>1, WordsTyped
    <3> QED
      BY <3>1, <3>2, <3>3, <3>4, ConcatEmptySeq
  <2> QED
    BY <2>1, <2>2
<1>3. SubSeq(t, n + 1, Len(t)) = x \o y
  <2> DEFINE a == n + 1
  <2>1. a \in 1..(Len(t) + 1) /\ m \in (a - 1)..Len(t) /\ Len(t) \in m..Len(t)
    BY <1>0
  <2> HIDE DEF a, b
  <2>2. SubSeq(t, a, m) \o SubSeq(t, m + 1, Len(t)) = SubSeq(t, a, Len(t))
    BY <2>1, ConcatAdjacentSubSeq
  <2> QED
    BY <2>2 DEF a
<1>4. m = Len(t) => y = <<>>
  BY <1>0, SubSeqEmpty
<1> HIDE DEF b, x, y, w
<1>5. Words(x \o y) = Words(x) \o Words(y) /\ Words(b \o x) = Words(b) \o Words(x)
  BY <1>1, WordsOfBoth
<1> DEFINE B == Words(b)  X == Words(x)  Y == Words(y)
<1>6. B \in Seq(STRING) /\ X \in Seq(STRING) /\ Y \in Seq(STRING)
  BY <1>1, WordsTyped
<1>7. w = B \o (X \o Y) /\ Words(b \o x) = B \o X
  BY <1>2, <1>3, <1>5
<1>8. m = Len(t) => Y = <<>>
  <2>1. <<>> \in Seq(STRING) /\ \A i \in 1..Len(<<>>) : <<>>[i] \in Marks
    OBVIOUS
  <2>2. Words(<<>>) = <<>>
    BY <2>1, NoWords
  <2> QED
    BY <1>4, <2>2
<1> HIDE DEF B, X, Y
<1>9. w = (B \o X) \o Y
  <2>1. (B \o X) \o Y = B \o (X \o Y)
    <3>1. Regroups(STRING)
      BY Regrouped
    <3> QED
      BY <1>6, <3>1 DEF Regroups
  <2> QED
    BY <1>7, <2>1
<1> DEFINE C == B \o X
<1>10. C \in Seq(STRING)
  BY <1>6, ConcatProperties
<1> HIDE DEF C
<1>11. IsPrefix(C, C \o Y)
  <2>1. Len(C \o Y) = Len(C) + Len(Y) /\ Len(C) \in Nat /\ Len(Y) \in Nat
    BY <1>6, <1>10, ConcatProperties
  <2>2. CASE Len(C) = 0
    <3>1. SubSeq(C, 1, Len(C)) = SubSeq(C \o Y, 1, Len(C))
      <4>1. SubSeq(C, 1, 0) = <<>>
        BY SubSeqEmpty
      <4>2. SubSeq(C \o Y, 1, 0) = <<>>
        BY SubSeqEmpty
      <4> QED
        BY <2>2, <4>1, <4>2
    <3> QED
      BY <2>1, <3>1 DEF IsPrefix
  <2>3. CASE Len(C) # 0
    <3>1. 1 \in 1..Len(C) /\ Len(C) \in 1..Len(C)
      BY <2>1, <2>3
    <3>2. SubSeq(C \o Y, 1, Len(C)) = SubSeq(C, 1, Len(C))
      BY <1>6, <1>10, <3>1, SubSeqOfConcat1
    <3> QED
      BY <2>1, <3>2 DEF IsPrefix
  <2> QED
    BY <2>2, <2>3
<1>12. m = Len(t) => C \o Y = C
  BY <1>8, <1>10, ConcatEmptySeq
<1> QED
  BY <1>7, <1>9, <1>11, <1>12 DEF C, b, x, w

-----------------------------------------------------------------------------
(* The answer.                                                             *)

LEMMA CitesIds == \A t : SplitAnswer(t).cited \subseteq Ids
  BY DEF SplitAnswer

LEMMA TextTyped ==
  ASSUME AnsweringTypeOK
  PROVE  text \in Seq(STRING) /\ Len(text) \in Nat /\ pos \in Nat /\ pos <= Len(text)
<1>1. text \in Seq(STRING)
  BY AnsweringAssumption, EmptySeq DEF AnsweringTypeOK
<1> QED
  BY <1>1, LenProperties DEF AnsweringTypeOK

LEMMA BeginningHasLength ==
  ASSUME AnsweringTypeOK, NEW n \in 0..Len(text)
  PROVE  Len(SubSeq(text, 1, n)) = n
<1>1. text \in Seq(STRING) /\ Len(text) \in Nat
  BY TextTyped
<1> QED
  BY <1>1

LEMMA AnsweringStarts == AnsweringInit => AnsweringInv
  BY AnsweringAssumption DEF AnsweringInit, AnsweringInv, AnsweringTypeOK, ClientShape,
     HeaderOfThisText, PhaseFits, Silent, NoMeta

(* The stream ends, however.                                               *)
LEMMA EndKeeps ==
  ASSUME AnsweringInv, NEW how \in {"done", "error", "cut"}, End(how), phase # "idle",
         how = "done" => client.meta.sent /\ pos = Len(text)
  PROVE  AnsweringInv'
<1>1. /\ client'.meta = client.meta /\ client'.body = client.body /\ client'.end = how
      /\ client' = [meta |-> client.meta, body |-> client.body, end |-> how]
  BY DEF End, AnsweringInv, ClientShape
<1>2. phase' = "idle" /\ UNCHANGED <<attempt, tries, text, pos>>
  BY DEF End
<1>3. AnsweringTypeOK'
  BY <1>1, <1>2 DEF AnsweringInv, AnsweringTypeOK
<1>4. HeaderOfThisText'
  BY <1>1, <1>2 DEF AnsweringInv, HeaderOfThisText, ShownFrom
<1>5. PhaseFits' /\ ClientShape'
  BY <1>1, <1>2 DEF AnsweringInv, PhaseFits, ClientShape
<1> QED
  BY <1>3, <1>4, <1>5 DEF AnsweringInv

(* Another answer is asked for, and nothing of the last one was shown.     *)
LEMMA CallKeeps ==
  ASSUME AnsweringInv, CallModel, UNCHANGED <<phase, client>>, phase = "buffering",
         attempt' \in 1..MaxAttempts, tries' \in 0..Retries
  PROVE  AnsweringInv'
<1>1. ~client.meta.sent
  BY DEF AnsweringInv, HeaderOfThisText
<1>2. text' \in Texts /\ pos' = 0 /\ Len(text') \in Nat
  BY AnsweringAssumption, LenProperties DEF CallModel
<1>3. AnsweringTypeOK'
  BY <1>2, AnsweringAssumption DEF AnsweringInv, AnsweringTypeOK
<1>4. HeaderOfThisText' /\ PhaseFits' /\ ClientShape'
  BY <1>1, <1>2 DEF AnsweringInv, AnsweringTypeOK, HeaderOfThisText, PhaseFits, ClientShape
<1> QED
  BY <1>3, <1>4 DEF AnsweringInv

LEMMA JudgeKeeps ==
  ASSUME AnsweringInv, phase = "buffering", NEW n \in 0..Len(text), NEW next,
         \/ next = "streaming" /\ n # 0 /\ HeaderComplete(SubSeq(text, 1, n))
         \/ next = "over" /\ n = Len(text),
         Judge(SubSeq(text, 1, n), next)
  PROVE  AnsweringInv'
<1> DEFINE held == SubSeq(text, 1, n)
<1>t. /\ Len(held) = n /\ attempt \in 0..MaxAttempts /\ attempt # 0 /\ tries \in 0..Retries
      /\ MaxAttempts \in Nat /\ Retries \in Nat
  BY BeginningHasLength, AnsweringAssumption DEF AnsweringInv, AnsweringTypeOK, PhaseFits
<1>1. CASE Unknown(held) # {} /\ attempt < MaxAttempts
  <2>1. attempt' = attempt + 1 /\ tries' = 0 /\ CallModel /\ UNCHANGED <<phase, client>>
    BY <1>1 DEF Judge
  <2> HIDE DEF held
  <2> QED
    BY <1>t, <1>1, <2>1, CallKeeps
<1>2. CASE ~(Unknown(held) # {} /\ attempt < MaxAttempts)
  <2>1. PICK warned \in BOOLEAN : warned <=> Unknown(held) # {}
    OBVIOUS
  <2> DEFINE meta == [cited |-> SplitAnswer(held).cited, warned |-> Unknown(held) # {}, sent |-> TRUE]
  <2>2. /\ phase' = next /\ pos' = n /\ UNCHANGED <<attempt, tries, text>>
        /\ client' = [client EXCEPT !.meta = meta, !.body = SplitAnswer(held).body]
    BY <1>t, <1>2 DEF Judge
  <2>3. /\ meta \in [cited : SUBSET Ids, warned : BOOLEAN, sent : BOOLEAN]
        /\ meta.cited = SplitAnswer(held).cited /\ (meta.warned <=> Unknown(held) # {})
        /\ meta.sent
    <3>1. PICK sent \in BOOLEAN : sent = TRUE
      OBVIOUS
    <3>2. meta = [cited |-> SplitAnswer(held).cited, warned |-> warned, sent |-> sent]
      BY <2>1, <3>1
    <3> QED
      BY <2>1, <3>1, <3>2, CitesIds
  <2>4. /\ client' = [meta |-> meta, body |-> SplitAnswer(held).body, end |-> client.end]
        /\ client'.meta = meta /\ client'.end = client.end
    <3> HIDE DEF meta
    <3> QED
      BY <2>2 DEF AnsweringInv, ClientShape
  <2> HIDE DEF meta
  <2>5. AnsweringTypeOK'
    BY <1>t, <2>2, <2>3, <2>4 DEF AnsweringInv, AnsweringTypeOK
  <2>6. HeaderOfThisText'
    <3>1. client'.body = SplitAnswer(held).body
      BY <2>4
    <3>2. SplitAnswer(held).body \o SubSeq(text, n + 1, n) = SplitAnswer(held).body
      <4>1. held \in Seq(STRING) /\ n \in Nat
        BY BeginningTyped, TextTyped DEF AnsweringInv
      <4> HIDE DEF held
      <4>2. SplitAnswer(held).body \in Seq(STRING)
        BY <4>1, BodyTyped
      <4> QED
        BY <4>1, <4>2, NothingAdded
    <3>3. ShownFrom(n)'
      BY <1>t, <2>2, <2>3, <2>4, <3>1, <3>2 DEF ShownFrom
    <3>4. n \in 0..pos'
      BY <1>t, <2>2
    <3> QED
      BY <1>t, <1>2, <2>2, <2>3, <2>4, <3>3, <3>4 DEF AnsweringInv, HeaderOfThisText
  <2>7. PhaseFits' /\ ClientShape'
    BY <1>t, <2>2, <2>3, <2>4 DEF AnsweringInv, PhaseFits, ClientShape
  <2> QED
    BY <2>5, <2>6, <2>7 DEF AnsweringInv
<1> QED
  BY <1>1, <1>2

(* A piece arrives: it is passed on, completes the header, or is kept.     *)
LEMMA PieceKeeps == ASSUME AnsweringInv, Piece PROVE AnsweringInv'
<1>t. /\ text \in Seq(STRING) /\ Len(text) \in Nat /\ pos \in Nat
      /\ phase \in {"buffering", "streaming", "over"} /\ pos < Len(text)
  BY TextTyped DEF AnsweringInv, AnsweringTypeOK, Piece
<1>0. phase = "buffering" \/ phase = "streaming"
  BY <1>t DEF AnsweringInv, PhaseFits
<1> DEFINE now(n) == SubSeq(text, 1, pos + n)
           Passed(n) == /\ client' = [client EXCEPT !.body = @ \o SubSeq(text, pos + 1, pos + n)]
                        /\ pos' = pos + n
                        /\ UNCHANGED <<phase, attempt, tries, text>>
           Kept(n) == pos' = pos + n /\ UNCHANGED <<phase, attempt, tries, text, client>>
<1>1. PICK n \in 1..MaxPiece :
        /\ pos + n <= Len(text)
        /\ \/ phase = "streaming" /\ Passed(n)
           \/ phase = "buffering" /\ HeaderComplete(now(n)) /\ Judge(now(n), "streaming")
           \/ phase = "buffering" /\ Kept(n)
  BY <1>0, <1>t DEF Piece
<1>2. n \in Nat /\ n # 0 /\ pos + n \in 0..Len(text) /\ pos + n # 0 /\ pos + n \in Nat
      /\ pos <= pos + n
  BY <1>t, <1>1, AnsweringAssumption
<1>3. CASE phase = "buffering" /\ HeaderComplete(now(n)) /\ Judge(now(n), "streaming")
  BY <1>2, <1>3, JudgeKeeps
<1>4. CASE phase = "streaming" /\ Passed(n)
  <2>1. /\ client' = [meta |-> client.meta, body |-> client'.body, end |-> client.end]
        /\ client'.meta = client.meta /\ client'.end = client.end
    BY <1>4 DEF AnsweringInv, ClientShape
  <2>2. AnsweringTypeOK'
    BY <1>2, <1>4, <2>1 DEF AnsweringInv, AnsweringTypeOK
  <2>3. client.meta.sent /\ client.end = "none"
    BY <1>4 DEF AnsweringInv, PhaseFits
  <2>4. HeaderOfThisText'
    <3>1. PICK m \in 0..pos : ShownFrom(m)
      BY <2>3 DEF AnsweringInv, HeaderOfThisText
    <3>2. m \in 0..pos' /\ m \in Nat
      BY <1>t, <1>2, <1>4, <3>1
    <3>3. client'.body = client.body \o SubSeq(text, pos + 1, pos + n)
      BY <1>4 DEF AnsweringInv, ClientShape
    <3>4. client'.body = SplitAnswer(SubSeq(text, 1, m)).body \o SubSeq(text, m + 1, pos + n)
      <4>1. client.body = SplitAnswer(SubSeq(text, 1, m)).body \o SubSeq(text, m + 1, pos)
        BY <3>1 DEF ShownFrom
      <4>2. SplitAnswer(SubSeq(text, 1, m)).body \in Seq(STRING)
        <5>1. m \in 0..Len(text)
          BY <1>t, <3>1
        <5>2. SubSeq(text, 1, m) \in Seq(STRING)
          BY <1>t, <5>1, BeginningTyped
        <5> QED
          BY <5>2, BodyTyped
      <4>3. m \in Nat /\ m <= pos /\ pos + n <= Len(text)
        BY <1>t, <1>2, <3>1, <3>2
      <4> DEFINE body  == SplitAnswer(SubSeq(text, 1, m)).body
                 since == SubSeq(text, m + 1, pos)
                 piece == SubSeq(text, pos + 1, pos + n)
      <4>4. since \o piece = SubSeq(text, m + 1, pos + n)
        <5>1. /\ m + 1 \in 1..(Len(text) + 1) /\ pos \in (m + 1 - 1)..Len(text)
              /\ pos + n \in pos..Len(text)
          BY <1>t, <1>2, <4>3
        <5> QED
          BY <1>t, <5>1, ConcatAdjacentSubSeq
      <4>5. body \in Seq(STRING) /\ since \in Seq(STRING) /\ piece \in Seq(STRING)
        <5>1. /\ m + 1 \in Nat \ {0} /\ pos \in 0..Len(text)
              /\ pos + 1 \in Nat \ {0} /\ pos + n \in 0..Len(text)
          BY <1>t, <1>2, <4>3
        <5> QED
          BY <1>t, <4>2, <5>1, PartTyped
      <4> HIDE DEF body, since, piece
      <4>6. (body \o since) \o piece = body \o (since \o piece)
        <5>1. Regroups(STRING)
          BY Regrouped
        <5> QED
          BY <4>5, <5>1 DEF Regroups
      <4> QED
        BY <3>3, <4>1, <4>4, <4>6 DEF body, since, piece
    <3>5. ShownFrom(m)'
      BY <1>4, <2>1, <3>1, <3>4 DEF ShownFrom
    <3> QED
      BY <1>4, <2>1, <2>3, <3>2, <3>5 DEF AnsweringInv, HeaderOfThisText
  <2>5. PhaseFits' /\ ClientShape'
    BY <1>2, <1>4, <2>1, <2>3 DEF AnsweringInv, PhaseFits, ClientShape
  <2> QED
    BY <2>2, <2>4, <2>5 DEF AnsweringInv
<1>5. CASE phase = "buffering" /\ Kept(n)
  <2>1. ~client.meta.sent /\ client.end = "none"
    BY <1>5 DEF AnsweringInv, HeaderOfThisText, PhaseFits
  <2>2. AnsweringTypeOK'
    BY <1>2, <1>5 DEF AnsweringInv, AnsweringTypeOK
  <2> QED
    BY <1>5, <2>1, <2>2 DEF AnsweringInv, HeaderOfThisText, PhaseFits, ClientShape
<1> QED
  BY <1>1, <1>3, <1>4, <1>5

LEMMA EndOfTextKeeps == ASSUME AnsweringInv, EndOfText PROVE AnsweringInv'
<1>t. text \in Seq(STRING) /\ Len(text) \in Nat /\ phase # "idle" /\ pos = Len(text)
  BY SMTT(30), TextTyped DEF AnsweringInv, EndOfText
<1>1. CASE phase = "buffering"
  <2>1. Judge(text, "over") /\ SubSeq(text, 1, Len(text)) = text /\ Len(text) \in 0..Len(text)
    BY <1>t, <1>1 DEF EndOfText
  <2> QED
    BY <1>1, <2>1, JudgeKeeps
<1>2. CASE phase # "buffering"
  <2>1. End("done") /\ client.meta.sent
    BY <1>t, <1>2 DEF EndOfText, AnsweringInv, AnsweringTypeOK, PhaseFits
  <2> QED
    BY <1>t, <2>1, EndKeeps
<1> QED
  BY <1>1, <1>2

(* A rate-limited call is repeated only while nothing of it has arrived,   *)
(* so nothing of it has been shown.                                        *)
LEMMA RateLimitedKeeps == ASSUME AnsweringInv, RateLimited PROVE AnsweringInv'
<1>t. /\ phase \in {"buffering", "streaming"} /\ tries \in 0..Retries /\ Retries \in Nat
      /\ attempt \in 0..MaxAttempts /\ attempt # 0 /\ MaxAttempts \in Nat
  BY AnsweringAssumption DEF RateLimited, Calling, AnsweringInv, AnsweringTypeOK, PhaseFits
<1>1. CASE Repeatable
  <2>1. phase = "buffering"
    BY <1>t, <1>1 DEF Repeatable, AnsweringInv, PhaseFits
  <2>2. tries' \in 0..Retries /\ attempt' \in 1..MaxAttempts
    BY <1>t, <1>1 DEF RateLimited, Repeatable
  <2> QED
    BY <1>1, <2>1, <2>2, CallKeeps DEF RateLimited
<1>2. CASE ~Repeatable
  BY <1>t, <1>2, EndKeeps DEF RateLimited
<1> QED
  BY <1>1, <1>2

LEMMA AskKeeps == ASSUME AnsweringInv, Ask PROVE AnsweringInv'
<1>1. client' = Silent /\ phase' = "buffering" /\ attempt' = 1 /\ tries' = 0 /\ pos' = 0
      /\ text' \in Texts /\ Len(text') \in Nat
  BY AnsweringAssumption, LenProperties DEF Ask, CallModel
<1> QED
  BY <1>1, AnsweringAssumption DEF AnsweringInv, AnsweringTypeOK, ClientShape, HeaderOfThisText,
     PhaseFits, Silent, NoMeta

LEMMA RefuseKeeps ==
  ASSUME AnsweringInv, NEW status \in {"413", "503"}, Refuse(status)
  PROVE  AnsweringInv'
<1>1. /\ client' = [meta |-> NoMeta, body |-> <<>>, end |-> status]
      /\ phase = "idle" /\ UNCHANGED <<phase, attempt, tries, text, pos>>
  BY DEF Refuse, Silent
<1> QED
  BY <1>1 DEF AnsweringInv, AnsweringTypeOK, ClientShape, HeaderOfThisText, PhaseFits, NoMeta

LEMMA AnsweringStepKeeps == ASSUME AnsweringInv, AnsweringStep PROVE AnsweringInv'
<1>1. CASE ModelFails \/ Disconnects
  BY <1>1, EndKeeps DEF ModelFails, Disconnects, Calling
<1>2. CASE NextQuestion
  <2>1. AnsweringInit'
    BY <1>2 DEF NextQuestion, AnsweringInit
  <2>2. (AnsweringInit => AnsweringInv)'
    BY AnsweringStarts, PTL
  <2> QED
    BY <2>1, <2>2
<1> QED
  BY <1>1, <1>2, PieceKeeps, EndOfTextKeeps, RateLimitedKeeps DEF AnsweringStep

-----------------------------------------------------------------------------
(* The two together.                                                       *)

LEMMA RegistrarNext == RegistrarInv /\ [Next]_vars => RegistrarInv'
<1> SUFFICES ASSUME RegistrarInv, [Next]_vars PROVE RegistrarInv'
  OBVIOUS
<1>1. CASE UNCHANGED registrarVars
  BY <1>1 DEF registrarVars, RegistrarInv, RegistrarTypeOK, CallFits, EntryKnown, Waiting
<1> QED
  BY <1>1, BootKeeps, WakeKeeps, ReadAnswerKeeps, CallFailsKeeps, StopKeeps, CrashKeeps, AgentKeeps
     DEF Next, vars, InstanceStep

LEMMA AnsweringNext == AnsweringInv /\ [Next]_vars => AnsweringInv'
<1> SUFFICES ASSUME AnsweringInv, [Next]_vars PROVE AnsweringInv'
  OBVIOUS
<1>1. CASE UNCHANGED answeringVars
  BY <1>1 DEF answeringVars, AnsweringInv, AnsweringTypeOK, ClientShape, HeaderOfThisText, ShownFrom,
     PhaseFits
<1>2. CASE CutOff
  BY <1>1, <1>2, EndKeeps DEF CutOff
<1>3. CASE Chat
  BY <1>3, AskKeeps, RefuseKeeps DEF Chat
<1> QED
  BY <1>1, <1>2, <1>3, AnsweringStepKeeps DEF Next, vars

(* The registration's inductive invariant: what the process believes, what *)
(* it waits for and what the agent lists always fit together.              *)
THEOREM RegistrarInvariant == Spec => []RegistrarInv
<1>1. Init => RegistrarInv
  BY RegistrarStarts DEF Init
<1> QED
  BY <1>1, RegistrarNext, PTL DEF Spec

(* After an orderly shut-down the agent lists an entry of this instance    *)
(* only if a registration was given up, a deregistration failed or the     *)
(* process had died before (main.py's lifespan, ConsulRegistrar.stop).     *)
THEOREM LeftoversHaveACause == Spec => []LeftoverHasCause
<1>1. RegistrarInv => LeftoverHasCause
  BY DEF RegistrarInv, RegistrarTypeOK, CallFits, EntryKnown, NoCall, LeftoverHasCause, Waiting
<1> QED
  BY <1>1, RegistrarInvariant, PTL

(* The answer's inductive invariant: what the client has been told is the  *)
(* checked header of the text that is arriving; before that nothing of any *)
(* answer was shown, and a finished answer has arrived to its end.         *)
THEOREM AnsweringInvariant == Spec => []AnsweringInv
<1>1. Init => AnsweringInv
  BY AnsweringStarts DEF Init
<1> QED
  BY <1>1, AnsweringNext, PTL DEF Spec

(* A citation that exists in no regulation reaches the client only with a  *)
(* warning and after the last attempt allowed (chat.py's guard).           *)
THEOREM GhostsAreFlagged == Spec => []GhostIsFlagged
<1>1. AnsweringInv => GhostIsFlagged
  <2> SUFFICES ASSUME AnsweringInv, client.meta.cited \ Known # {}
               PROVE  client.meta.warned /\ attempt = MaxAttempts
    BY DEF GhostIsFlagged
  <2>1. client.meta.sent
    BY DEF AnsweringInv, HeaderOfThisText, NoMeta
  <2>2. PICK n \in 0..pos : /\ client.meta.cited = SplitAnswer(SubSeq(text, 1, n)).cited
                            /\ client.meta.warned <=> Unknown(SubSeq(text, 1, n)) # {}
    BY <2>1 DEF AnsweringInv, HeaderOfThisText, ShownFrom
  <2>3. client.meta.warned
    BY <2>2 DEF Unknown
  <2> QED
    BY <2>1, <2>3 DEF AnsweringInv, HeaderOfThisText
<1> QED
  BY <1>1, AnsweringInvariant, PTL

(* The citations shown are those of the whole text: however the pieces     *)
(* were cut, what is announced when the header is complete is not          *)
(* contradicted by what comes later (prompt.py's header_complete).         *)
THEOREM CitationsAreOfTheText == Spec => []CitedAsInTheText
<1>1. AnsweringInv => CitedAsInTheText
  <2> SUFFICES ASSUME AnsweringInv, client.meta.sent
               PROVE  client.meta.cited = SplitAnswer(text).cited
    BY DEF CitedAsInTheText
  <2>1. PICK n \in 0..pos : /\ HeaderComplete(SubSeq(text, 1, n)) \/ n = Len(text)
                            /\ client.meta.cited = SplitAnswer(SubSeq(text, 1, n)).cited
    BY DEF AnsweringInv, HeaderOfThisText, ShownFrom
  <2>2. text \in Seq(STRING) /\ n \in 0..Len(text)
    BY TextTyped DEF AnsweringInv
  <2>3. CASE HeaderComplete(SubSeq(text, 1, n))
    BY <2>1, <2>2, <2>3, CitationsStay
  <2>4. CASE n = Len(text)
    <3>1. SubSeq(text, 1, n) = text
      BY <2>2, <2>4
    <3> QED
      BY <2>1, <3>1
  <2> QED
    BY <2>1, <2>3, <2>4
<1> QED
  BY <1>1, AnsweringInvariant, PTL

(* Everything a client is shown of an answer comes from one call to the    *)
(* model: its citations are those of that text, no word of its body is     *)
(* lost, repeated or moved wherever the pieces were cut, and a finished    *)
(* answer is whole (Answering.ShownIsOneAnswer).                           *)
THEOREM ShownAnswersAreOne == Spec => []ShownIsOneAnswer
<1>1. AnsweringInv => ShownIsOneAnswer
  <2> SUFFICES ASSUME AnsweringInv PROVE ShownIsOneAnswer
    OBVIOUS
  <2>t. text \in Seq(STRING) /\ Len(text) \in Nat /\ pos \in Nat /\ pos <= Len(text)
    BY TextTyped DEF AnsweringInv
  <2>1. ~client.meta.sent => client.body = <<>>
    BY DEF AnsweringInv, HeaderOfThisText
  <2>2. client.end = "done" => client.meta.sent /\ pos = Len(text)
    BY DEF AnsweringInv, PhaseFits
  <2>3. ASSUME client.meta.sent
        PROVE  /\ client.meta.cited = SplitAnswer(text).cited
               /\ IsPrefix(Words(client.body), Words(SplitAnswer(text).body))
               /\ pos = Len(text) => Words(client.body) = Words(SplitAnswer(text).body)
    <3>1. PICK n \in 0..pos : ShownFrom(n)
      BY <2>3 DEF AnsweringInv, HeaderOfThisText
    <3>2. n \in 0..Len(text) /\ pos \in n..Len(text)
      BY <2>t, <3>1
    <3>3. /\ HeaderComplete(SubSeq(text, 1, n)) \/ n = Len(text)
          /\ client.meta.cited = SplitAnswer(SubSeq(text, 1, n)).cited
          /\ client.body = SplitAnswer(SubSeq(text, 1, n)).body \o SubSeq(text, n + 1, pos)
      BY <3>1 DEF ShownFrom
    <3>4. SplitAnswer(SubSeq(text, 1, n)).cited = SplitAnswer(text).cited
      <4>1. CASE HeaderComplete(SubSeq(text, 1, n))
        BY <2>t, <3>2, <4>1, CitationsStay
      <4>2. CASE n = Len(text)
        <5>1. SubSeq(text, 1, n) = text
          BY <2>t, <4>2, SubSeqFull
        <5> QED
          BY <5>1
      <4> QED
        BY <3>3, <4>1, <4>2
    <3> QED
      BY <2>t, <3>2, <3>3, <3>4, ShownWords
  <2> QED
    BY <2>1, <2>2, <2>3 DEF ShownIsOneAnswer, CitedAsInTheText
<1> QED
  BY <1>1, AnsweringInvariant, PTL

(* Both halves keep to their types, every counter to its bound.            *)
THEOREM ChatbotTypeCorrect == Spec => [](RegistrarTypeOK /\ AnsweringTypeOK)
  BY RegistrarInvariant, AnsweringInvariant, PTL DEF RegistrarInv, AnsweringInv

-----------------------------------------------------------------------------
(* Cutting the regulations: the loops of regulations.py over the lines of  *)
(* one file, T.                                                            *)

(* What a chunk is made of is as long as the lines and the line ends.      *)
Sizes(lines) == [i \in DOMAIN lines |-> lines[i].size]

(* The sizes of some lines are numbers.                                    *)
LEMMA SizesTyped ==
  ASSUME NEW T, T \subseteq Line, NEW x \in Seq(T)
  PROVE  Sizes(x) \in Seq(Nat) /\ Len(Sizes(x)) = Len(x) /\ Total(Sizes(x)) \in Nat
<1>1. Len(x) \in Nat /\ DOMAIN x = 1..Len(x)
  OBVIOUS
<1>2. ASSUME NEW i \in 1..Len(x) PROVE x[i].size \in Nat
  <2>1. x[i] \in Line
    OBVIOUS
  <2> QED
    BY <2>1 DEF Line
<1>3. Sizes(x) \in [1..Len(x) -> Nat]
  BY <1>1, <1>2 DEF Sizes
<1>4. Sizes(x) \in Seq(Nat) /\ Len(Sizes(x)) = Len(x)
  BY <1>1, <1>3
<1> QED
  BY <1>4, TotalFacts

(* Lines have a number of characters, no line has none.                    *)
LEMMA CharsFacts ==
  ASSUME NEW T, T \subseteq Line, NEW x \in Seq(T)
  PROVE  /\ Chars(x) \in Nat
         /\ x # <<>> => Chars(x) = Total(Sizes(x)) + Len(x) - 1 /\ Len(x) \in Nat \ {0}
<1>1. x # <<>> => Len(x) \in Nat \ {0}
  OBVIOUS
<1>2. Total(Sizes(x)) \in Nat
  BY SizesTyped
<1>3. Chars(x) = IF x = <<>> THEN 0 ELSE Total(Sizes(x)) + Len(x) - 1
  BY DEF Chars, Sizes
<1> QED
  BY <1>1, <1>2, <1>3

(* Sizes and characters of two runs of lines put together.                 *)
LEMMA SizesOfBoth ==
  ASSUME NEW T, T \subseteq Line, NEW x \in Seq(T), NEW y \in Seq(T)
  PROVE  Total(Sizes(x \o y)) = Total(Sizes(x)) + Total(Sizes(y))
<1> DEFINE a == Sizes(x)  b == Sizes(y)  z == x \o y  K == Len(x)  N == Len(y)
<1>1. /\ z \in Seq(T) /\ Len(z) = K + N /\ K \in Nat /\ N \in Nat
      /\ \A i \in 1..(K + N) : z[i] = IF i <= K THEN x[i] ELSE y[i - K]
  BY ConcatProperties
<1>2. a \in Seq(Nat) /\ Len(a) = K /\ b \in Seq(Nat) /\ Len(b) = N
  BY SizesTyped
<1>3. \A i \in 1..K : a[i] = x[i].size
  BY DEF Sizes
<1>4. \A i \in 1..N : b[i] = y[i].size
  BY DEF Sizes
<1> HIDE DEF z
<1>5. Sizes(z) \in Seq(Nat) /\ Len(Sizes(z)) = K + N
  BY <1>1, SizesTyped
<1>6. \A i \in 1..(K + N) : Sizes(z)[i] = z[i].size
  <2>1. DOMAIN z = 1..(K + N)
    BY <1>1
  <2> QED
    BY <2>1 DEF Sizes
<1> HIDE DEF a, b, K, N
<1>7. /\ a \o b \in Seq(Nat) /\ Len(a \o b) = K + N
      /\ \A i \in 1..(K + N) : (a \o b)[i] = IF i <= K THEN a[i] ELSE b[i - K]
  BY <1>2, ConcatProperties
<1>8. ASSUME NEW i \in 1..(K + N) PROVE Sizes(z)[i] = (a \o b)[i]
  <2>1. CASE i <= K
    <3>1. i \in 1..K
      BY <1>1, <2>1
    <3> QED
      BY <1>1, <1>3, <1>6, <1>7, <2>1, <3>1
  <2>2. CASE ~(i <= K)
    <3>1. i - K \in 1..N
      BY <1>1, <2>2
    <3> QED
      BY <1>1, <1>4, <1>6, <1>7, <2>2, <3>1
  <2> QED
    BY <2>1, <2>2
<1>9. Sizes(z) = a \o b
  BY <1>5, <1>7, <1>8, SeqEqual
<1>10. Total(a \o b) = Total(a) + Total(b)
  BY <1>2, TotalOfBoth
<1> QED
  BY <1>9, <1>10 DEF a, b, z

(* Two texts in a row are as long as both and the line end between them.   *)
LEMMA CharsOfBoth ==
  ASSUME NEW T, T \subseteq Line, NEW x \in Seq(T), NEW y \in Seq(T), x # <<>>, y # <<>>
  PROVE  x \o y # <<>> /\ Chars(x \o y) = Chars(x) + Chars(y) + 1
<1> DEFINE z == x \o y
<1>1. z \in Seq(T) /\ Len(z) = Len(x) + Len(y)
  BY ConcatProperties
<1>2. /\ Chars(x) = Total(Sizes(x)) + Len(x) - 1 /\ Len(x) \in Nat \ {0}
      /\ Chars(y) = Total(Sizes(y)) + Len(y) - 1 /\ Len(y) \in Nat \ {0}
  BY CharsFacts
<1>3. Total(Sizes(z)) = Total(Sizes(x)) + Total(Sizes(y))
  BY SizesOfBoth
<1>4. Total(Sizes(x)) \in Nat /\ Total(Sizes(y)) \in Nat
  BY SizesTyped
<1> HIDE DEF z
<1>5. z # <<>>
  BY <1>1, <1>2
<1>6. Chars(z) = Total(Sizes(z)) + Len(z) - 1
  BY <1>1, <1>5, CharsFacts
<1> QED
  BY <1>1, <1>2, <1>3, <1>4, <1>5, <1>6 DEF z

(* A part of a text is not longer than the text.                           *)
LEMMA PartIsNoLonger ==
  ASSUME NEW T, T \subseteq Line, NEW x \in Seq(T), NEW m \in 0..Len(x)
  PROVE  Chars(SubSeq(x, 1, m)) <= Chars(x) /\ Chars(SubSeq(x, m + 1, Len(x))) <= Chars(x)
<1> DEFINE a == SubSeq(x, 1, m)  b == SubSeq(x, m + 1, Len(x))
<1>1. a \in Seq(T) /\ b \in Seq(T) /\ a \o b = x
  BY CutInTwo
<1> HIDE DEF a, b
<1>2. ASSUME a = <<>> \/ b = <<>> PROVE Chars(a) <= Chars(x) /\ Chars(b) <= Chars(x)
  <2>1. a = <<>> => b = x
    BY <1>1, ConcatEmptySeq
  <2>2. b = <<>> => a = x
    BY <1>1, ConcatEmptySeq
  <2>3. Chars(x) \in Nat /\ Chars(<<>>) = 0
    BY CharsFacts DEF Chars
  <2> QED
    BY <1>2, <2>1, <2>2, <2>3
<1>3. ASSUME a # <<>>, b # <<>> PROVE Chars(a) <= Chars(x) /\ Chars(b) <= Chars(x)
  <2>1. Chars(a \o b) = Chars(a) + Chars(b) + 1
    BY <1>1, <1>3, CharsOfBoth
  <2>2. Chars(a) \in Nat /\ Chars(b) \in Nat
    BY <1>1, CharsFacts
  <2> QED
    BY <1>1, <2>1, <2>2
<1> QED
  BY <1>2, <1>3 DEF a, b

-----------------------------------------------------------------------------
(* Stripping cuts blank lines off at both ends.                            *)
LEMMA StripCuts ==
  ASSUME NEW T, T \subseteq Line, NEW x \in Seq(T)
  PROVE  \E n \in 0..Len(x) : \E m \in 0..n :
           /\ StripLines(x) = SubSeq(x, m + 1, n)
           /\ \A i \in 1..Len(x) : i <= m \/ n < i => IsBlank(x[i])
<1> DEFINE N == Len(x)
           I == {i \in 1..N : ~IsBlank(x[i])}
           first == IF I # {} THEN Min(I) ELSE 0
           last == IF I # {} THEN Max(I) ELSE 0
<1>0. N \in Nat
  OBVIOUS
<1>1. StripLines(x) = IF first = 0 THEN <<>> ELSE SubSeq(x, first, last)
  BY DEF StripLines, SelectInSeq, SelectLastInSeq
<1>2. I \subseteq Nat /\ I \subseteq 0..N /\ I \subseteq 1..N
  BY <1>0
<1>3. ASSUME NEW i \in 1..N, i \notin I PROVE IsBlank(x[i])
  BY <1>3
<1> HIDE DEF I, N
<1>4. CASE I = {}
  <2>1. StripLines(x) = <<>> /\ SubSeq(x, N + 1, N) = <<>>
    <3>1. N + 1 \in Int /\ N \in Int /\ N < N + 1
      BY <1>0
    <3> QED
      BY <1>1, <1>4, <3>1, SubSeqEmpty
  <2>2. N \in 0..N
    BY <1>0
  <2>3. \A i \in 1..N : IsBlank(x[i])
    BY <1>3, <1>4
  <2> QED
    BY <2>1, <2>2, <2>3 DEF N
<1>5. CASE I # {}
  <2>1. Min(I) \in I /\ \A i \in I : Min(I) <= i
    BY <1>2, <1>5, LeastNumber
  <2>2. Max(I) \in I /\ \A i \in I : i <= Max(I)
    BY <1>0, <1>2, <1>5, GreatestNumber
  <2> DEFINE n == Max(I)  k == Min(I)
  <2>3. n \in 1..N /\ k \in 1..N /\ k <= n /\ \A i \in I : k <= i /\ i <= n
    BY <1>2, <2>1, <2>2
  <2>4. StripLines(x) = SubSeq(x, k, n)
    <3>1. Min(I) # 0
      BY <1>0, <2>3
    <3> QED
      BY <1>1, <1>5, <3>1
  <2> HIDE DEF n, k
  <2>5. k - 1 \in 0..n /\ n \in 0..N /\ (k - 1) + 1 = k
    BY <1>0, <2>3
  <2>6. ASSUME NEW i \in 1..N, i <= k - 1 \/ n < i PROVE IsBlank(x[i])
    <3>1. i \notin I
      BY <1>0, <2>3, <2>6
    <3> QED
      BY <1>3, <3>1
  <2> QED
    BY <2>4, <2>5, <2>6 DEF N
<1> QED
  BY <1>4, <1>5

(* A block begins with any line and goes on without one that begins a      *)
(* clause.                                                                 *)
Block(x) == x # <<>> /\ \A i \in 2..Len(x) : ~x[i].clause

(* Stripped, lines say the same, are no longer and begin no clause more.   *)
LEMMA StripFacts ==
  ASSUME NEW T, T \subseteq Line, NEW x \in Seq(T), NEW S, \A l \in T : IsBlank(l) => l \in S
  PROVE  /\ StripLines(x) \in Seq(T)
         /\ Without(StripLines(x), S) = Without(x, S)
         /\ Chars(StripLines(x)) <= Chars(x)
         /\ Block(x) => StripLines(x) = <<>> \/ Block(StripLines(x))
<1> DEFINE N == Len(x)
<1>0. N \in Nat /\ \A i \in 1..N : x[i] \in T
  OBVIOUS
<1>1. PICK n \in 0..N : \E m \in 0..n :
        /\ StripLines(x) = SubSeq(x, m + 1, n)
        /\ \A i \in 1..N : i <= m \/ n < i => IsBlank(x[i])
  BY StripCuts
<1>2. PICK m \in 0..n :
        /\ StripLines(x) = SubSeq(x, m + 1, n)
        /\ \A i \in 1..N : i <= m \/ n < i => IsBlank(x[i])
  BY <1>1
<1> DEFINE a == SubSeq(x, 1, n)  b == SubSeq(x, m + 1, n)
<1>3. /\ b \in Seq(T) /\ Len(b) = n - m
      /\ \A i \in 1..(n - m) : m + i \in 1..n /\ b[i] = x[m + i]
  BY PartFacts
<1>4. a \in Seq(T) /\ Len(a) = n /\ \A i \in 1..n : a[i] = x[i]
  <2>1. 0 \in 0..n /\ n - 0 = n /\ 0 + 1 = 1
    BY <1>0
  <2>2. /\ SubSeq(x, 0 + 1, n) \in Seq(T) /\ Len(SubSeq(x, 0 + 1, n)) = n - 0
        /\ \A i \in 1..(n - 0) : 0 + i \in 1..n /\ SubSeq(x, 0 + 1, n)[i] = x[0 + i]
    BY <2>1, PartFacts
  <2>3. \A i \in 1..n : 0 + i = i
    BY <1>0
  <2> HIDE DEF N
  <2> QED
    BY <2>1, <2>2, <2>3
<1> HIDE DEF a
<1>5. SubSeq(a, m + 1, n) = b
  <2>1. /\ SubSeq(a, m + 1, n) \in Seq(T) /\ Len(SubSeq(a, m + 1, n)) = n - m
        /\ \A i \in 1..(n - m) : m + i \in 1..n /\ SubSeq(a, m + 1, n)[i] = a[m + i]
    <3>1. n \in 0..Len(a)
      BY <1>0, <1>4
    <3> QED
      BY <1>4, <3>1, PartFacts
  <2> DEFINE c == SubSeq(a, m + 1, n)
  <2> HIDE DEF b, c, N
  <2>2. \A i \in 1..(n - m) : c[i] = b[i]
    BY <1>3, <1>4, <2>1 DEF c
  <2>3. c \in Seq(T) /\ Len(c) = Len(b)
    BY <1>3, <2>1 DEF c
  <2>4. c = b
    BY <1>3, <2>2, <2>3, SeqEqual
  <2> QED
    BY <2>4 DEF c
<1>6. StripLines(x) = b
  BY <1>2
<1> HIDE DEF b
<1>7. ASSUME NEW i \in 1..N, i <= m \/ n < i PROVE x[i] \in S
  BY <1>0, <1>2, <1>7
<1>8. Without(b, S) = Without(x, S)
  <2>1. Without(a, S) = Without(x, S)
    <3>1. \A i \in 1..Len(x) : n < i => x[i] \in S
      BY <1>7
    <3> QED
      BY <3>1, WithoutBehind DEF a
  <2>2. \A i \in 1..m : a[i] \in S
    <3>1. ASSUME NEW i \in 1..m PROVE a[i] \in S
      <4>1. i \in 1..n /\ i \in 1..N /\ i <= m
        BY <1>0
      <4> QED
        BY <1>4, <1>7, <4>1
    <3> QED
      BY <3>1
  <2>3. m \in 0..Len(a)
    BY <1>4
  <2>4. Without(SubSeq(a, m + 1, Len(a)), S) = Without(a, S)
    BY <1>4, <2>2, <2>3, WithoutInFront
  <2> QED
    BY <1>4, <1>5, <2>1, <2>4
<1>9. Chars(b) <= Chars(x)
  <2>1. Chars(a) <= Chars(x)
    BY PartIsNoLonger DEF a
  <2>2. m \in 0..Len(a)
    BY <1>4
  <2>3. Chars(SubSeq(a, m + 1, Len(a))) <= Chars(a)
    BY <1>4, <2>2, PartIsNoLonger
  <2>4. Chars(b) \in Nat /\ Chars(a) \in Nat /\ Chars(x) \in Nat
    BY <1>3, <1>4, CharsFacts
  <2>5. SubSeq(a, m + 1, Len(a)) = b
    BY <1>4, <1>5
  <2>6. Chars(b) <= Chars(a)
    BY <2>3, <2>5
  <2> QED
    BY <2>1, <2>4, <2>6
<1>10. ASSUME Block(x), b # <<>> PROVE Block(b)
  <2>1. ASSUME NEW i \in 2..Len(b) PROVE ~b[i].clause
    <3>1. i \in 1..(n - m) /\ m + i \in 2..N /\ b[i] = x[m + i]
      BY <1>0, <1>3
    <3> QED
      BY <1>10, <3>1 DEF Block
  <2> QED
    BY <1>10, <2>1 DEF Block
<1> QED
  BY <1>3, <1>6, <1>8, <1>9, <1>10

-----------------------------------------------------------------------------
(* Cutting a text into clauses, line by line.                              *)
LEMMA LineAdded ==
  ASSUME NEW T, NEW parts \in Seq(Seq(T)), NEW line \in T
  PROVE  /\ AddLine(parts, line) \in Seq(Seq(T)) /\ AddLine(parts, line) # <<>>
         /\ FlattenSeq(AddLine(parts, line)) = FlattenSeq(parts) \o <<line>>
         /\ Len(AddLine(parts, line)) =
              IF parts = <<>> \/ line.clause THEN Len(parts) + 1 ELSE Len(parts)
         /\ (\A p \in 1..Len(parts) : Block(parts[p]))
              => \A p \in 1..Len(AddLine(parts, line)) : Block(AddLine(parts, line)[p])
<1>0. <<line>> \in Seq(T) /\ Len(<<line>>) = 1 /\ Len(parts) \in Nat
  BY OneItem
<1>1. CASE parts = <<>> \/ line.clause
  <2> DEFINE more == Append(parts, <<line>>)
  <2>1. AddLine(parts, line) = more
    BY <1>1 DEF AddLine
  <2>2. /\ more \in Seq(Seq(T)) /\ Len(more) = Len(parts) + 1 /\ more[Len(parts) + 1] = <<line>>
        /\ \A p \in 1..Len(parts) : more[p] = parts[p]
    BY <1>0, AppendProperties
  <2>3. FlattenSeq(more) = FlattenSeq(parts) \o <<line>>
    BY <1>0, FlattenAppend
  <2>4. Block(<<line>>)
    BY <1>0 DEF Block
  <2> HIDE DEF more
  <2>5. more # <<>>
    BY <1>0, <2>2
  <2>6. ASSUME \A p \in 1..Len(parts) : Block(parts[p]), NEW p \in 1..Len(more)
        PROVE  Block(more[p])
    <3>1. p \in 1..Len(parts) \/ p = Len(parts) + 1
      BY <1>0, <2>2
    <3> QED
      BY <2>2, <2>4, <2>6, <3>1
  <2> QED
    BY <1>1, <2>1, <2>2, <2>3, <2>5, <2>6
<1>2. CASE ~(parts = <<>> \/ line.clause)
  <2> DEFINE front == Front(parts)  last == Last(parts)  longer == Append(last, line)
             more == Append(front, longer)
  <2>1. AddLine(parts, line) = more
    BY <1>2 DEF AddLine
  <2>2. /\ Len(parts) \in Nat \ {0} /\ front \in Seq(Seq(T)) /\ Len(front) = Len(parts) - 1
        /\ \A p \in 1..(Len(parts) - 1) : front[p] = parts[p]
        /\ last = parts[Len(parts)] /\ last \in Seq(T)
    BY <1>2, FrontAndLast
  <2>3. longer = last \o <<line>>
    BY <2>2, AppendIsConcat
  <2>4. more \in Seq(Seq(T)) /\ FlattenSeq(more) = FlattenSeq(parts) \o <<line>>
    <3>1. /\ Append(Front(parts), Last(parts) \o <<line>>) \in Seq(Seq(T))
          /\ FlattenSeq(Append(Front(parts), Last(parts) \o <<line>>)) = FlattenSeq(parts) \o <<line>>
      BY <1>0, <1>2, FlattenMore
    <3>2. more = Append(Front(parts), Last(parts) \o <<line>>)
      BY <2>3
    <3> HIDE DEF more
    <3> QED
      BY <3>1, <3>2
  <2> HIDE DEF front, last
  <2>5. /\ longer \in Seq(T) /\ Len(longer) = Len(last) + 1 /\ longer[Len(last) + 1] = line
        /\ (\A i \in 1..Len(last) : longer[i] = last[i]) /\ Len(last) \in Nat
    BY <2>2, AppendProperties
  <2> HIDE DEF longer
  <2>6. /\ Len(more) = Len(parts) /\ more[Len(parts)] = longer
        /\ \A p \in 1..(Len(parts) - 1) : more[p] = parts[p]
    <3>1. /\ Len(more) = Len(front) + 1 /\ more[Len(front) + 1] = longer
          /\ \A p \in 1..Len(front) : more[p] = front[p]
      BY <2>2, <2>5, AppendProperties
    <3>2. Len(front) + 1 = Len(parts)
      BY <2>2
    <3> HIDE DEF more
    <3> QED
      BY <2>2, <3>1, <3>2
  <2> HIDE DEF more
  <2>7. more # <<>>
    BY <2>2, <2>6
  <2>8. ASSUME \A p \in 1..Len(parts) : Block(parts[p]), NEW p \in 1..Len(more)
        PROVE  Block(more[p])
    <3>1. CASE p # Len(parts)
      <4>1. p \in 1..(Len(parts) - 1) /\ p \in 1..Len(parts)
        BY <2>2, <2>6, <3>1
      <4> QED
        BY <2>6, <2>8, <4>1
    <3>2. CASE p = Len(parts)
      <4>1. Len(parts) \in 1..Len(parts)
        BY <2>2
      <4>2. Block(last)
        BY <2>2, <2>8, <4>1
      <4>3. ASSUME NEW i \in 2..Len(longer) PROVE ~longer[i].clause
        <5>1. i \in 2..Len(last) \/ i = Len(last) + 1
          BY <2>5
        <5>2. i \in 2..Len(last) => i \in 1..Len(last)
          BY <2>5
        <5> QED
          BY <1>2, <2>5, <4>2, <5>1, <5>2 DEF Block
      <4>4. longer # <<>>
        BY <2>5
      <4>5. Block(longer)
        BY <4>3, <4>4 DEF Block
      <4> QED
        BY <2>6, <3>2, <4>5
    <3> QED
      BY <3>1, <3>2
  <2> QED
    BY <1>2, <2>1, <2>4, <2>6, <2>7, <2>8
<1> QED
  BY <1>1, <1>2

(* f gives the clauses after every line.                                   *)
Cutting(f, x) == f[0] = <<>> /\ \A n \in 1..Len(x) : f[n] = AddLine(f[n - 1], x[n])

(* The loop that cuts at clauses, turn by turn.                            *)
LEMMA ClausesLoop ==
  ASSUME NEW T, NEW x \in Seq(T)
  PROVE  \E f \in [0..Len(x) -> Seq(Seq(T))] : Clauses(x) = f[Len(x)] /\ Cutting(f, x)
<1> DEFINE N == Len(x)
           turn == [n \in 1..N |-> [p \in Seq(Seq(T)) |-> AddLine(p, x[n])]]
<1>0. N \in Nat /\ <<>> \in Seq(Seq(T)) /\ \A n \in 1..N : x[n] \in T
  OBVIOUS
<1>1. turn \in [1..N -> [Seq(Seq(T)) -> Seq(Seq(T))]]
  <2>1. ASSUME NEW n \in 1..N, NEW p \in Seq(Seq(T)) PROVE AddLine(p, x[n]) \in Seq(Seq(T))
    BY <1>0, LineAdded
  <2> QED
    BY <2>1
<1>2. PICK g \in [0..N -> Seq(Seq(T))] : g[0] = <<>> /\ \A n \in 1..N : g[n] = turn[n][g[n - 1]]
  <2> DEFINE states == Seq(Seq(T))  start == <<>>
  <2>1. N \in Nat /\ start \in states /\ turn \in [1..N -> [states -> states]]
    BY <1>0, <1>1
  <2> HIDE DEF N, turn, states, start
  <2>2. \E g \in [0..N -> states] : Loop(g, start, N, turn)
    BY <2>1, LoopRuns
  <2> QED
    BY <2>2 DEF Loop, states, start
<1>3. ASSUME NEW n \in 1..N PROVE g[n] = AddLine(g[n - 1], x[n])
  <2>1. n - 1 \in 0..N /\ g[n - 1] \in Seq(Seq(T))
    <3> HIDE DEF N, turn
    <3> QED
      BY <1>0
  <2> QED
    BY <1>2, <2>1
<1> HIDE DEF turn
<1>4. g = [n \in 0..N |-> IF n = 0 THEN <<>> ELSE AddLine(g[n - 1], x[n])]
  <2>1. ASSUME NEW n \in 0..N PROVE g[n] = IF n = 0 THEN <<>> ELSE AddLine(g[n - 1], x[n])
    <3>1. n = 0 \/ n \in 1..N
      BY <1>0
    <3> HIDE DEF N
    <3> QED
      BY <1>2, <1>3, <3>1
  <2> HIDE DEF N
  <2> QED
    BY <2>1
<1> DEFINE upto[n \in 0..N] == IF n = 0 THEN <<>> ELSE AddLine(upto[n - 1], x[n])
<1>5. upto = [n \in 0..N |-> IF n = 0 THEN <<>> ELSE AddLine(upto[n - 1], x[n])]
  BY <1>4
<1>6. Clauses(x) = upto[N]
  BY DEF Clauses
<1> HIDE DEF upto, N
<1>7. upto[0] = <<>>
  BY <1>0, <1>5
<1>8. ASSUME NEW n \in 1..N PROVE upto[n] = AddLine(upto[n - 1], x[n])
  <2>1. n \in 0..N /\ n # 0
    BY <1>0
  <2> QED
    BY <1>5, <2>1
<1> DEFINE I == {n \in 0..N : upto[n] = g[n]}
<1>9. 0 \in I
  BY <1>0, <1>2, <1>7
<1>10. ASSUME NEW n \in 0..(N - 1), n \in I PROVE n + 1 \in I
  <2>1. n + 1 \in 0..N /\ n + 1 \in 1..N /\ (n + 1) - 1 = n
    BY <1>0
  <2> QED
    BY <1>3, <1>8, <1>10, <2>1
<1>11. \A n \in 0..N : n \in I
  <2> HIDE DEF I
  <2> QED
    BY <1>0, <1>9, <1>10, Climb
<1>12. Clauses(x) = g[N]
  <2>1. N \in 0..N
    BY <1>0
  <2> QED
    BY <1>6, <1>11, <2>1
<1>13. Cutting(g, x)
  BY <1>2, <1>3 DEF Cutting, N
<1> QED
  BY <1>12, <1>13 DEF N

(* Clauses are blocks and together the text; and a block is one clause.    *)
LEMMA ClausesFacts ==
  ASSUME NEW T, NEW x \in Seq(T)
  PROVE  /\ Clauses(x) \in Seq(Seq(T)) /\ FlattenSeq(Clauses(x)) = x
         /\ \A p \in 1..Len(Clauses(x)) : Block(Clauses(x)[p])
         /\ Block(x) => Len(Clauses(x)) = 1
<1> DEFINE N == Len(x)
<1>0. N \in Nat /\ \A n \in 1..N : x[n] \in T
  OBVIOUS
<1>1. PICK f \in [0..N -> Seq(Seq(T))] : Clauses(x) = f[N] /\ Cutting(f, x)
  BY ClausesLoop
<1>2. f[0] = <<>> /\ \A n \in 1..N : f[n] = AddLine(f[n - 1], x[n])
  BY <1>1 DEF Cutting
<1>3. SubSeq(x, 1, N) = x /\ \A n \in 0..(N - 1) : SubSeq(x, 1, n + 1) = SubSeq(x, 1, n) \o <<x[n + 1]>>
  <2>1. SubSeq(x, 1, N) = x
    BY SubSeqFull
  <2>2. ASSUME NEW n \in 0..(N - 1) PROVE SubSeq(x, 1, n + 1) = SubSeq(x, 1, n) \o <<x[n + 1]>>
    <3>1. 1 \in 1..(n + 1)
      BY <1>0
    <3> QED
      BY <3>1, PartGrows
  <2> QED
    BY <2>1, <2>2
<1> HIDE DEF N
<1> DEFINE I == {n \in 0..N : /\ FlattenSeq(f[n]) = SubSeq(x, 1, n)
                              /\ \A p \in 1..Len(f[n]) : Block(f[n][p])
                              /\ n > 0 => f[n] # <<>>
                              /\ n > 0 /\ Block(x) => Len(f[n]) = 1}
<1>4. 0 \in I
  <2>1. FlattenSeq(<<>>) = <<>> /\ SubSeq(x, 1, 0) = <<>> /\ Len(<<>>) = 0
    BY FlattenFacts, SubSeqEmpty
  <2> QED
    BY <1>0, <1>2, <2>1
<1>5. ASSUME NEW n \in 0..(N - 1), n \in I PROVE n + 1 \in I
  <2>1. n + 1 \in 0..N /\ n + 1 \in 1..N /\ (n + 1) - 1 = n /\ n \in 0..N /\ n \in Nat
    BY <1>0
  <2> DEFINE parts == f[n]  line == x[n + 1]  more == AddLine(parts, line)
  <2>2. f[n + 1] = more /\ parts \in Seq(Seq(T)) /\ line \in T
    BY <1>0, <1>2, <2>1
  <2>3. /\ FlattenSeq(parts) = SubSeq(x, 1, n)
        /\ \A p \in 1..Len(parts) : Block(parts[p])
        /\ n > 0 => parts # <<>>
        /\ n > 0 /\ Block(x) => Len(parts) = 1
    BY <1>5
  <2> HIDE DEF parts, line
  <2>4. /\ more \in Seq(Seq(T)) /\ more # <<>>
        /\ FlattenSeq(more) = FlattenSeq(parts) \o <<line>>
        /\ Len(more) = IF parts = <<>> \/ line.clause THEN Len(parts) + 1 ELSE Len(parts)
        /\ \A p \in 1..Len(more) : Block(more[p])
    BY <2>2, <2>3, LineAdded
  <2> HIDE DEF more
  <2>5. FlattenSeq(more) = SubSeq(x, 1, n + 1)
    BY <1>3, <2>3, <2>4 DEF line
  <2>6. ASSUME Block(x) PROVE Len(more) = 1
    <3>1. CASE n = 0
      <4>1. parts = <<>>
        BY <1>2, <3>1 DEF parts
      <4> QED
        BY <2>4, <4>1
    <3>2. CASE n # 0
      <4>1. ~line.clause
        <5>1. n + 1 \in 2..Len(x)
          BY <2>1, <3>2 DEF N
        <5> QED
          BY <2>6, <5>1 DEF Block, line
      <4>2. n > 0
        BY <2>1, <3>2
      <4> QED
        BY <2>3, <2>4, <2>6, <4>1, <4>2
    <3> QED
      BY <3>1, <3>2
  <2> QED
    BY <2>1, <2>2, <2>4, <2>5, <2>6
<1>6. N \in I
  <2>1. N \in 0..N
    BY <1>0
  <2> HIDE DEF I
  <2> QED
    BY <1>0, <1>4, <1>5, <2>1, Climb
<1>7. f[N] \in Seq(Seq(T))
  BY <1>0
<1>8. Block(x) => N > 0
  BY <1>0 DEF Block, N
<1> QED
  BY <1>1, <1>3, <1>6, <1>7, <1>8

-----------------------------------------------------------------------------
(* Putting clauses together.                                               *)
Fine(x) == x # <<>> /\ (Chars(x) <= MaxChars + 1 \/ Block(x))

(* A clause packed loses no line, and a piece grows beyond one clause only *)
(* as far as it fits.                                                      *)
LEMMA ClausePacked ==
  ASSUME NEW T, T \subseteq Line, NEW pieces \in Seq(Seq(T)), NEW part \in Seq(T)
  PROVE  /\ PackClause(pieces, part) \in Seq(Seq(T))
         /\ FlattenSeq(PackClause(pieces, part)) = FlattenSeq(pieces) \o part
         /\ Block(part) /\ (\A p \in 1..Len(pieces) : Fine(pieces[p]))
              => \A p \in 1..Len(PackClause(pieces, part)) : Fine(PackClause(pieces, part)[p])
<1>0. Len(pieces) \in Nat /\ MaxChars \in Nat
  BY RegulationsAssumption
<1>1. CASE pieces = <<>> \/ Chars(Last(pieces)) + Chars(part) > MaxChars
  <2> DEFINE more == Append(pieces, part)
  <2>1. PackClause(pieces, part) = more
    BY <1>1 DEF PackClause
  <2>2. /\ more \in Seq(Seq(T)) /\ Len(more) = Len(pieces) + 1 /\ more[Len(pieces) + 1] = part
        /\ \A p \in 1..Len(pieces) : more[p] = pieces[p]
    BY AppendProperties
  <2>3. FlattenSeq(more) = FlattenSeq(pieces) \o part
    BY FlattenAppend
  <2> HIDE DEF more
  <2>4. ASSUME Block(part), \A p \in 1..Len(pieces) : Fine(pieces[p]), NEW p \in 1..Len(more)
        PROVE  Fine(more[p])
    <3>1. p \in 1..Len(pieces) \/ p = Len(pieces) + 1
      BY <1>0, <2>2
    <3>2. Fine(part)
      BY <2>4 DEF Fine, Block
    <3> QED
      BY <2>2, <2>4, <3>1, <3>2
  <2> QED
    BY <2>1, <2>2, <2>3, <2>4
<1>2. CASE ~(pieces = <<>> \/ Chars(Last(pieces)) + Chars(part) > MaxChars)
  <2> DEFINE front == Front(pieces)  last == Last(pieces)  longer == last \o part
             more == Append(front, longer)
  <2>1. PackClause(pieces, part) = more
    BY <1>2 DEF PackClause
  <2>2. /\ Len(pieces) \in Nat \ {0} /\ front \in Seq(Seq(T)) /\ Len(front) = Len(pieces) - 1
        /\ \A p \in 1..(Len(pieces) - 1) : front[p] = pieces[p]
        /\ last = pieces[Len(pieces)] /\ last \in Seq(T)
    BY <1>2, FrontAndLast
  <2>3. more \in Seq(Seq(T)) /\ FlattenSeq(more) = FlattenSeq(pieces) \o part
    BY <1>2, FlattenMore
  <2>4. ~(Chars(last) + Chars(part) > MaxChars)
    BY <1>2
  <2> HIDE DEF front, last
  <2>5. longer \in Seq(T)
    BY <2>2, ConcatProperties
  <2>6. /\ Len(more) = Len(pieces) /\ more[Len(pieces)] = longer
        /\ \A p \in 1..(Len(pieces) - 1) : more[p] = pieces[p]
    <3> HIDE DEF longer
    <3>1. /\ Len(more) = Len(front) + 1 /\ more[Len(front) + 1] = longer
          /\ \A p \in 1..Len(front) : more[p] = front[p]
      BY <2>2, <2>5, AppendProperties
    <3>2. Len(front) + 1 = Len(pieces)
      BY <2>2
    <3> HIDE DEF more
    <3> QED
      BY <2>2, <3>1, <3>2
  <2> HIDE DEF more
  <2>7. ASSUME Block(part), \A p \in 1..Len(pieces) : Fine(pieces[p]), NEW p \in 1..Len(more)
        PROVE  Fine(more[p])
    <3>1. CASE p # Len(pieces)
      <4>1. p \in 1..(Len(pieces) - 1) /\ p \in 1..Len(pieces)
        BY <2>2, <2>6, <3>1
      <4> QED
        BY <2>6, <2>7, <4>1
    <3>2. CASE p = Len(pieces)
      <4>1. Len(pieces) \in 1..Len(pieces)
        BY <2>2
      <4>2. last # <<>> /\ part # <<>>
        BY <2>2, <2>7, <4>1 DEF Fine, Block
      <4>3. longer # <<>> /\ Chars(longer) = Chars(last) + Chars(part) + 1
        BY <2>2, <4>2, CharsOfBoth
      <4>4. Chars(last) \in Nat /\ Chars(part) \in Nat
        BY <2>2, CharsFacts
      <4>5. Chars(longer) <= MaxChars + 1
        BY <1>0, <2>4, <4>3, <4>4
      <4> QED
        BY <2>6, <3>2, <4>3, <4>5 DEF Fine
    <3> QED
      BY <3>1, <3>2
  <2> QED
    BY <2>1, <2>3, <2>7
<1> QED
  BY <1>1, <1>2

(* f gives the pieces after every clause.                                  *)
Packing(f, parts) == f[0] = <<>> /\ \A n \in 1..Len(parts) : f[n] = PackClause(f[n - 1], parts[n])

(* The loop that packs clauses, turn by turn.                              *)
LEMMA PackedLoop ==
  ASSUME NEW T, T \subseteq Line, NEW x \in Seq(Seq(T))
  PROVE  \E f \in [0..Len(x) -> Seq(Seq(T))] : Packed(x) = f[Len(x)] /\ Packing(f, x)
<1> DEFINE N == Len(x)
           turn == [n \in 1..N |-> [p \in Seq(Seq(T)) |-> PackClause(p, x[n])]]
<1>0. N \in Nat /\ <<>> \in Seq(Seq(T)) /\ \A n \in 1..N : x[n] \in Seq(T)
  OBVIOUS
<1>1. turn \in [1..N -> [Seq(Seq(T)) -> Seq(Seq(T))]]
  <2>1. ASSUME NEW n \in 1..N, NEW p \in Seq(Seq(T)) PROVE PackClause(p, x[n]) \in Seq(Seq(T))
    BY <1>0, ClausePacked
  <2> QED
    BY <2>1
<1>2. PICK g \in [0..N -> Seq(Seq(T))] : g[0] = <<>> /\ \A n \in 1..N : g[n] = turn[n][g[n - 1]]
  <2> DEFINE states == Seq(Seq(T))  start == <<>>
  <2>1. N \in Nat /\ start \in states /\ turn \in [1..N -> [states -> states]]
    BY <1>0, <1>1
  <2> HIDE DEF N, turn, states, start
  <2>2. \E g \in [0..N -> states] : Loop(g, start, N, turn)
    BY <2>1, LoopRuns
  <2> QED
    BY <2>2 DEF Loop, states, start
<1>3. ASSUME NEW n \in 1..N PROVE g[n] = PackClause(g[n - 1], x[n])
  <2>1. n - 1 \in 0..N /\ g[n - 1] \in Seq(Seq(T))
    <3> HIDE DEF N, turn
    <3> QED
      BY <1>0
  <2> QED
    BY <1>2, <2>1
<1> HIDE DEF turn
<1>4. g = [n \in 0..N |-> IF n = 0 THEN <<>> ELSE PackClause(g[n - 1], x[n])]
  <2>1. ASSUME NEW n \in 0..N PROVE g[n] = IF n = 0 THEN <<>> ELSE PackClause(g[n - 1], x[n])
    <3>1. n = 0 \/ n \in 1..N
      BY <1>0
    <3> HIDE DEF N
    <3> QED
      BY <1>2, <1>3, <3>1
  <2> HIDE DEF N
  <2> QED
    BY <2>1
<1> DEFINE upto[n \in 0..N] == IF n = 0 THEN <<>> ELSE PackClause(upto[n - 1], x[n])
<1>5. upto = [n \in 0..N |-> IF n = 0 THEN <<>> ELSE PackClause(upto[n - 1], x[n])]
  BY <1>4
<1>6. Packed(x) = upto[N]
  BY DEF Packed
<1> HIDE DEF upto, N
<1>7. upto[0] = <<>>
  BY <1>0, <1>5
<1>8. ASSUME NEW n \in 1..N PROVE upto[n] = PackClause(upto[n - 1], x[n])
  <2>1. n \in 0..N /\ n # 0
    BY <1>0
  <2> QED
    BY <1>5, <2>1
<1> DEFINE I == {n \in 0..N : upto[n] = g[n]}
<1>9. 0 \in I
  BY <1>0, <1>2, <1>7
<1>10. ASSUME NEW n \in 0..(N - 1), n \in I PROVE n + 1 \in I
  <2>1. n + 1 \in 0..N /\ n + 1 \in 1..N /\ (n + 1) - 1 = n
    BY <1>0
  <2> QED
    BY <1>3, <1>8, <1>10, <2>1
<1>11. \A n \in 0..N : n \in I
  <2> HIDE DEF I
  <2> QED
    BY <1>0, <1>9, <1>10, Climb
<1>12. Packed(x) = g[N]
  <2>1. N \in 0..N
    BY <1>0
  <2> QED
    BY <1>6, <1>11, <2>1
<1>13. Packing(g, x)
  BY <1>2, <1>3 DEF Packing, N
<1> QED
  BY <1>12, <1>13 DEF N

(* Nothing is lost of them, and what is put together fits.                 *)
LEMMA PackedFacts ==
  ASSUME NEW T, T \subseteq Line, NEW x \in Seq(Seq(T)), \A p \in 1..Len(x) : Block(x[p])
  PROVE  /\ Packed(x) \in Seq(Seq(T)) /\ FlattenSeq(Packed(x)) = FlattenSeq(x)
         /\ \A p \in 1..Len(Packed(x)) : Fine(Packed(x)[p])
<1> DEFINE N == Len(x)
<1>0. N \in Nat /\ \A n \in 1..N : x[n] \in Seq(T) /\ Block(x[n])
  OBVIOUS
<1>1. PICK f \in [0..N -> Seq(Seq(T))] : Packed(x) = f[N] /\ Packing(f, x)
  BY PackedLoop
<1>2. f[0] = <<>> /\ \A n \in 1..N : f[n] = PackClause(f[n - 1], x[n])
  BY <1>1 DEF Packing
<1>3. PICK g \in [0..N -> Seq(T)] :
        FlattenSeq(x) = g[N] /\ g[0] = <<>> /\ \A n \in 1..N : g[n] = g[n - 1] \o x[n]
  BY FlattenLoop
<1> HIDE DEF N
<1> DEFINE I == {n \in 0..N : FlattenSeq(f[n]) = g[n] /\ \A p \in 1..Len(f[n]) : Fine(f[n][p])}
<1>4. 0 \in I
  <2>1. FlattenSeq(<<>>) = <<>> /\ Len(<<>>) = 0
    BY FlattenFacts
  <2> QED
    BY <1>0, <1>2, <1>3, <2>1
<1>5. ASSUME NEW n \in 0..(N - 1), n \in I PROVE n + 1 \in I
  <2>1. n + 1 \in 0..N /\ n + 1 \in 1..N /\ (n + 1) - 1 = n /\ n \in 0..N
    BY <1>0
  <2> DEFINE pieces == f[n]  part == x[n + 1]  more == PackClause(pieces, part)
  <2>2. f[n + 1] = more /\ pieces \in Seq(Seq(T)) /\ part \in Seq(T) /\ Block(part)
    BY <1>0, <1>2, <2>1
  <2>3. FlattenSeq(pieces) = g[n] /\ \A p \in 1..Len(pieces) : Fine(pieces[p])
    BY <1>5
  <2>4. g[n + 1] = g[n] \o part
    BY <1>3, <2>1
  <2> HIDE DEF pieces, part
  <2>5. /\ FlattenSeq(more) = FlattenSeq(pieces) \o part
        /\ \A p \in 1..Len(more) : Fine(more[p])
    BY <2>2, <2>3, ClausePacked
  <2> HIDE DEF more
  <2> QED
    BY <2>1, <2>2, <2>3, <2>4, <2>5
<1>6. N \in I
  <2>1. N \in 0..N
    BY <1>0
  <2> HIDE DEF I
  <2> QED
    BY <1>0, <1>4, <1>5, <2>1, Climb
<1>7. f[N] \in Seq(Seq(T))
  BY <1>0
<1> QED
  BY <1>1, <1>3, <1>6, <1>7

(* A chunk cut up loses blank lines only, and its pieces fit or are single *)
(* clauses.                                                                *)
Whole(x) == Chars(x) <= MaxChars + 1 \/ Len(Clauses(x)) = 1

(* A section split says what it said, in pieces that are whole.            *)
LEMMA SplitFacts ==
  ASSUME NEW T, T \subseteq Line, NEW x \in Seq(T), NEW S, \A l \in T : IsBlank(l) => l \in S
  PROVE  /\ SplitLongChunk(x) \in Seq(Seq(T))
         /\ Without(FlattenSeq(SplitLongChunk(x)), S) = Without(x, S)
         /\ \A p \in 1..Len(SplitLongChunk(x)) : Whole(SplitLongChunk(x)[p])
<1>0. MaxChars \in Nat /\ Chars(x) \in Nat
  BY RegulationsAssumption, CharsFacts
<1>1. CASE Chars(x) <= MaxChars
  <2> DEFINE one == <<x>>
  <2>1. SplitLongChunk(x) = one
    BY <1>1 DEF SplitLongChunk
  <2>2. one \in Seq(Seq(T)) /\ Len(one) = 1 /\ one[1] = x
    BY OneItem
  <2>3. FlattenSeq(one) = x
    <3>1. <<>> \in Seq(Seq(T)) /\ FlattenSeq(<<>>) = <<>> /\ one = Append(<<>>, x)
      BY FlattenFacts
    <3>2. FlattenSeq(Append(<<>>, x)) = FlattenSeq(<<>>) \o x
      BY <3>1, FlattenAppend
    <3>3. <<>> \o x = x
      BY ConcatEmptySeq
    <3> QED
      BY <3>1, <3>2, <3>3
  <2>4. Whole(x)
    BY <1>0, <1>1 DEF Whole
  <2> HIDE DEF one
  <2> QED
    BY <2>1, <2>2, <2>3, <2>4
<1>2. CASE ~(Chars(x) <= MaxChars)
  <2> DEFINE parts == Clauses(x)  pieces == Packed(parts)  N == Len(pieces)
             stripped == [p \in DOMAIN pieces |-> StripLines(pieces[p])]
  <2>1. SplitLongChunk(x) = stripped
    BY <1>2 DEF SplitLongChunk
  <2>2. parts \in Seq(Seq(T)) /\ FlattenSeq(parts) = x /\ \A p \in 1..Len(parts) : Block(parts[p])
    BY ClausesFacts
  <2> HIDE DEF parts
  <2>3. pieces \in Seq(Seq(T)) /\ FlattenSeq(pieces) = x /\ \A p \in 1..N : Fine(pieces[p])
    BY <2>2, PackedFacts
  <2> HIDE DEF pieces
  <2>4. N \in Nat /\ DOMAIN pieces = 1..N /\ \A p \in 1..N : pieces[p] \in Seq(T)
    BY <2>3
  <2>5. ASSUME NEW p \in 1..N
        PROVE  /\ StripLines(pieces[p]) \in Seq(T)
               /\ Without(StripLines(pieces[p]), S) = Without(pieces[p], S)
               /\ Whole(StripLines(pieces[p]))
    <3> DEFINE y == pieces[p]  z == StripLines(y)
    <3>1. y \in Seq(T) /\ Fine(y)
      BY <2>3, <2>4
    <3> HIDE DEF y
    <3>2. /\ z \in Seq(T) /\ Without(z, S) = Without(y, S) /\ Chars(z) <= Chars(y)
          /\ Block(y) => z = <<>> \/ Block(z)
      BY <3>1, StripFacts
    <3> HIDE DEF z
    <3>3. Chars(z) \in Nat /\ Chars(y) \in Nat /\ Chars(<<>>) = 0
      BY <3>1, <3>2, CharsFacts DEF Chars
    <3>4. CASE Chars(y) <= MaxChars + 1
      <4>1. Chars(z) <= MaxChars + 1
        BY <1>0, <3>2, <3>3, <3>4
      <4> QED
        BY <3>2, <4>1 DEF Whole, y, z
    <3>5. CASE Block(y)
      <4>1. CASE z = <<>>
        <5>1. Chars(z) <= MaxChars + 1
          BY <1>0, <3>3, <4>1
        <5> QED
          BY <3>2, <5>1 DEF Whole, y, z
      <4>2. CASE Block(z)
        <5>1. Len(Clauses(z)) = 1
          BY <3>2, <4>2, ClausesFacts
        <5> QED
          BY <3>2, <5>1 DEF Whole, y, z
      <4> QED
        BY <3>2, <3>5, <4>1, <4>2
    <3> QED
      BY <3>1, <3>4, <3>5 DEF Fine
  <2> HIDE DEF N
  <2>6. stripped \in [1..N -> Seq(T)] /\ \A p \in 1..N : stripped[p] = StripLines(pieces[p])
    BY <2>4, <2>5
  <2> HIDE DEF stripped
  <2>7. stripped \in Seq(Seq(T)) /\ Len(stripped) = N
    BY <2>4, <2>6
  <2>8. Without(FlattenSeq(stripped), S) = Without(FlattenSeq(pieces), S)
    <3>1. \A p \in 1..Len(stripped) : Without(stripped[p], S) = Without(pieces[p], S)
      BY <2>5, <2>6, <2>7
    <3>2. Len(stripped) = Len(pieces)
      BY <2>7 DEF N
    <3> QED
      BY <2>3, <2>7, <3>1, <3>2, FlattenAlike
  <2> QED
    BY <2>1, <2>3, <2>5, <2>6, <2>7, <2>8
<1> QED
  BY <1>1, <1>2

-----------------------------------------------------------------------------
(* The scanner's state, over the lines T of the document id and the words  *)
(* W of its headings.                                                      *)
ChunksOf(id, T, W) == [id : {id} \X Nat, path : Seq(W), body : Seq(T)]
ScansOf(id, T, W) == [id : {id}, crumb : Seq(W), headed : BOOLEAN, open : Seq(T),
                      chunks : Seq(ChunksOf(id, T, W))]

Bodies(chunks) == [c \in DOMAIN chunks |-> chunks[c].body]

Said(chunks) == FlattenSeq(Bodies(chunks))

Numbered(id, chunks) ==
  \A c \in 1..Len(chunks) : chunks[c].id = <<id, c>> /\ Whole(chunks[c].body)

(* The bodies of some chunks, and all they say.                            *)
LEMMA BodiesTyped ==
  ASSUME NEW id, NEW T, NEW W, NEW chunks \in Seq(ChunksOf(id, T, W))
  PROVE  /\ Bodies(chunks) \in Seq(Seq(T)) /\ Len(Bodies(chunks)) = Len(chunks)
         /\ \A c \in 1..Len(chunks) : Bodies(chunks)[c] = chunks[c].body
         /\ Said(chunks) \in Seq(T)
<1>1. Len(chunks) \in Nat /\ DOMAIN chunks = 1..Len(chunks)
  OBVIOUS
<1>2. ASSUME NEW c \in 1..Len(chunks) PROVE chunks[c].body \in Seq(T)
  <2>1. chunks[c] \in ChunksOf(id, T, W)
    OBVIOUS
  <2> QED
    BY <2>1 DEF ChunksOf
<1>3. Bodies(chunks) \in [1..Len(chunks) -> Seq(T)]
  BY <1>1, <1>2 DEF Bodies
<1>4. \A c \in 1..Len(chunks) : Bodies(chunks)[c] = chunks[c].body
  BY <1>1 DEF Bodies
<1>5. Bodies(chunks) \in Seq(Seq(T)) /\ Len(Bodies(chunks)) = Len(chunks)
  BY <1>1, <1>3
<1>6. Said(chunks) \in Seq(T)
  BY <1>5, FlattenFacts DEF Said
<1> QED
  BY <1>4, <1>5, <1>6

(* Chunks put behind others say what both say.                             *)
LEMMA SaidOfBoth ==
  ASSUME NEW id, NEW T, NEW W, NEW c \in Seq(ChunksOf(id, T, W)), NEW d \in Seq(ChunksOf(id, T, W))
  PROVE  Said(c \o d) = Said(c) \o Said(d)
<1> DEFINE e == c \o d  a == Bodies(c)  b == Bodies(d)  K == Len(c)  N == Len(d)
<1>1. /\ e \in Seq(ChunksOf(id, T, W)) /\ Len(e) = K + N /\ K \in Nat /\ N \in Nat
      /\ \A i \in 1..(K + N) : e[i] = IF i <= K THEN c[i] ELSE d[i - K]
  BY ConcatProperties
<1>2. /\ a \in Seq(Seq(T)) /\ Len(a) = K /\ \A i \in 1..K : a[i] = c[i].body
      /\ b \in Seq(Seq(T)) /\ Len(b) = N /\ \A i \in 1..N : b[i] = d[i].body
  BY BodiesTyped
<1> HIDE DEF e
<1>3. /\ Bodies(e) \in Seq(Seq(T)) /\ Len(Bodies(e)) = K + N
      /\ \A i \in 1..(K + N) : Bodies(e)[i] = e[i].body
  BY <1>1, BodiesTyped
<1> HIDE DEF a, b, K, N
<1>4. /\ a \o b \in Seq(Seq(T)) /\ Len(a \o b) = K + N
      /\ \A i \in 1..(K + N) : (a \o b)[i] = IF i <= K THEN a[i] ELSE b[i - K]
  BY <1>2, ConcatProperties
<1>5. ASSUME NEW i \in 1..(K + N) PROVE Bodies(e)[i] = (a \o b)[i]
  <2>1. CASE i <= K
    <3>1. i \in 1..K
      BY <1>1, <2>1
    <3> QED
      BY ZenonT(40), <1>1, <1>2, <1>3, <1>4, <2>1, <3>1
  <2>2. CASE ~(i <= K)
    <3>1. i - K \in 1..N
      BY <1>1, <2>2
    <3> QED
      BY <1>1, <1>2, <1>3, <1>4, <2>2, <3>1
  <2> QED
    BY <2>1, <2>2
<1>6. Bodies(e) = a \o b
  BY <1>3, <1>4, <1>5, SeqEqual
<1>7. FlattenSeq(a \o b) = FlattenSeq(a) \o FlattenSeq(b)
  BY <1>2, FlattenOfBoth
<1> QED
  BY <1>6, <1>7 DEF Said, a, b, e

(* What a section is stored as.                                            *)
Stored(scan, pieces) ==
  [p \in DOMAIN pieces |->
     [id |-> <<scan.id, Len(scan.chunks) + p>>, path |-> scan.crumb, body |-> pieces[p]]]

Pieces(scan) == IF ~scan.headed \/ StripLines(scan.open) = <<>>
                THEN <<>> ELSE SplitLongChunk(StripLines(scan.open))

(* Storing a section appends its pieces as chunks.                         *)
LEMMA FlushIs ==
  ASSUME NEW scan
  PROVE  Flush(scan) = [scan EXCEPT !.chunks = @ \o Stored(scan, Pieces(scan))]
  BY DEF Flush, Stored, Pieces

(* Two texts say the same, blank lines and headings (S) left out.          *)
Alike(x, y, S) == Without(x, S) = Without(y, S)

(* A section stored says what the section said, and chunks stay numbered   *)
(* and whole.                                                              *)
LEMMA PiecesFacts ==
  ASSUME NEW id, NEW T, T \subseteq Line, NEW W, NEW scan \in ScansOf(id, T, W),
         NEW S, \A l \in T : IsBlank(l) => l \in S
  PROVE  /\ Pieces(scan) \in Seq(Seq(T))
         /\ \A p \in 1..Len(Pieces(scan)) : Whole(Pieces(scan)[p])
         /\ scan.headed => Alike(FlattenSeq(Pieces(scan)), scan.open, S)
         /\ ~scan.headed => Pieces(scan) = <<>>
<1> DEFINE x == scan.open  y == StripLines(x)
<1>1. x \in Seq(T)
  BY DEF ScansOf
<1> HIDE DEF x
<1>2. y \in Seq(T) /\ Without(y, S) = Without(x, S)
  BY <1>1, StripFacts
<1> HIDE DEF y
<1>3. CASE ~scan.headed \/ y = <<>>
  <2>1. Pieces(scan) = <<>>
    BY <1>3 DEF Pieces, x, y
  <2>2. <<>> \in Seq(Seq(T)) /\ Len(<<>>) = 0 /\ FlattenSeq(<<>>) = <<>>
    BY FlattenFacts
  <2> QED
    BY <1>2, <1>3, <2>1, <2>2 DEF x, Alike
<1>4. CASE ~(~scan.headed \/ y = <<>>)
  <2>1. Pieces(scan) = SplitLongChunk(y)
    BY <1>4 DEF Pieces, x, y
  <2>2. /\ SplitLongChunk(y) \in Seq(Seq(T))
        /\ Without(FlattenSeq(SplitLongChunk(y)), S) = Without(y, S)
        /\ \A p \in 1..Len(SplitLongChunk(y)) : Whole(SplitLongChunk(y)[p])
    BY <1>2, SplitFacts
  <2> QED
    BY <1>2, <1>4, <2>1, <2>2 DEF x, Alike
<1> QED
  BY <1>3, <1>4

(* The pieces stored say what they said, numbered on.                      *)
LEMMA StoredFacts ==
  ASSUME NEW id, NEW T, NEW W, NEW scan \in ScansOf(id, T, W), NEW pieces \in Seq(Seq(T)),
         \A p \in 1..Len(pieces) : Whole(pieces[p]), Numbered(id, scan.chunks)
  PROVE  /\ Stored(scan, pieces) \in Seq(ChunksOf(id, T, W))
         /\ Said(Stored(scan, pieces)) = FlattenSeq(pieces)
         /\ Numbered(id, scan.chunks \o Stored(scan, pieces))
<1> DEFINE N == Len(pieces)  K == Len(scan.chunks)  new == Stored(scan, pieces)
<1>1. /\ N \in Nat /\ DOMAIN pieces = 1..N /\ \A p \in 1..N : pieces[p] \in Seq(T)
  OBVIOUS
<1>2. scan.id = id /\ scan.crumb \in Seq(W) /\ scan.chunks \in Seq(ChunksOf(id, T, W))
  BY DEF ScansOf
<1>3. K \in Nat
  BY <1>2
<1> HIDE DEF N, K
<1>4. new = [p \in 1..N |-> [id |-> <<id, K + p>>, path |-> scan.crumb, body |-> pieces[p]]]
  BY <1>1, <1>2 DEF Stored, K
<1>5. ASSUME NEW p \in 1..N
      PROVE  /\ [id |-> <<id, K + p>>, path |-> scan.crumb, body |-> pieces[p]] \in ChunksOf(id, T, W)
             /\ new[p].id = <<id, K + p>> /\ new[p].body = pieces[p]
  <2>1. <<id, K + p>> \in {id} \X Nat
    BY <1>3
  <2>2. new[p] = [id |-> <<id, K + p>>, path |-> scan.crumb, body |-> pieces[p]]
    BY <1>4
  <2> QED
    BY <1>1, <1>2, <2>1, <2>2 DEF ChunksOf
<1>6. new \in [1..N -> ChunksOf(id, T, W)]
  BY <1>4, <1>5
<1>7. new \in Seq(ChunksOf(id, T, W)) /\ Len(new) = N
  BY <1>1, <1>6
<1> HIDE DEF new
<1>8. Said(new) = FlattenSeq(pieces)
  <2>1. /\ Bodies(new) \in Seq(Seq(T)) /\ Len(Bodies(new)) = N
        /\ \A p \in 1..N : Bodies(new)[p] = new[p].body
    BY <1>7, BodiesTyped
  <2>2. \A p \in 1..N : Bodies(new)[p] = pieces[p]
    BY <1>5, <2>1
  <2>3. Bodies(new) = pieces
    <3>1. Len(Bodies(new)) = Len(pieces) /\ \A p \in 1..Len(Bodies(new)) : Bodies(new)[p] = pieces[p]
      BY <2>1, <2>2 DEF N
    <3> QED
      BY <2>1, <3>1, SeqEqual
  <2> QED
    BY <2>3 DEF Said
<1>9. Numbered(id, scan.chunks \o new)
  <2> DEFINE old == scan.chunks  all == old \o new
  <2>1. /\ Len(all) = K + N
        /\ \A c \in 1..(K + N) : all[c] = IF c <= K THEN old[c] ELSE new[c - K]
    BY <1>2, <1>7, ConcatProperties DEF K
  <2>2. \A c \in 1..K : old[c].id = <<id, c>> /\ Whole(old[c].body)
    BY DEF Numbered, K
  <2> HIDE DEF old, all
  <2>3. ASSUME NEW c \in 1..(K + N) PROVE all[c].id = <<id, c>> /\ Whole(all[c].body)
    <3>1. CASE c <= K
      <4>1. c \in 1..K
        BY <1>3, <3>1
      <4> QED
        BY <2>1, <2>2, <3>1, <4>1
    <3>2. CASE ~(c <= K)
      <4>1. c - K \in 1..N /\ K + (c - K) = c
        BY <1>1, <1>3, <3>2
      <4>2. all[c] = new[c - K]
        BY <2>1, <3>2
      <4>3. new[c - K].id = <<id, K + (c - K)>> /\ new[c - K].body = pieces[c - K]
        BY <1>5, <4>1
      <4>4. Whole(pieces[c - K])
        BY <4>1 DEF N
      <4> QED
        BY <4>1, <4>2, <4>3, <4>4
    <3> QED
      BY <3>1, <3>2
  <2>4. Numbered(id, all)
    BY <2>1, <2>3 DEF Numbered
  <2> QED
    BY <2>4 DEF old, all
<1> QED
  BY <1>7, <1>8, <1>9 DEF new

(* Storing a section keeps the chunks numbered and whole, and they say what*)
(* they said with the section; above the first heading nothing is stored.  *)
LEMMA FlushFacts ==
  ASSUME NEW id, NEW T, T \subseteq Line, NEW W, NEW scan \in ScansOf(id, T, W),
         NEW S, \A l \in T : IsBlank(l) => l \in S, Numbered(id, scan.chunks)
  PROVE  /\ Flush(scan) \in ScansOf(id, T, W) /\ Numbered(id, Flush(scan).chunks)
         /\ Flush(scan).headed = scan.headed
         /\ scan.headed => Alike(Said(Flush(scan).chunks), Said(scan.chunks) \o scan.open, S)
         /\ ~scan.headed => Flush(scan).chunks = scan.chunks
<1> DEFINE old == scan.chunks  pieces == Pieces(scan)  new == Stored(scan, pieces)
<1>1. old \in Seq(ChunksOf(id, T, W)) /\ scan.open \in Seq(T)
  BY DEF ScansOf
<1>2. /\ pieces \in Seq(Seq(T)) /\ \A p \in 1..Len(pieces) : Whole(pieces[p])
      /\ scan.headed => Alike(FlattenSeq(pieces), scan.open, S)
      /\ ~scan.headed => pieces = <<>>
  <2> HIDE DEF old, new
  <2>1. pieces \in Seq(Seq(T))
    BY PiecesFacts
  <2>2. \A p \in 1..Len(pieces) : Whole(pieces[p])
    BY PiecesFacts
  <2>3. scan.headed => Alike(FlattenSeq(pieces), scan.open, S)
    BY PiecesFacts
  <2>4. ~scan.headed => pieces = <<>>
    BY PiecesFacts
  <2> QED
    BY <2>1, <2>2, <2>3, <2>4
<1> HIDE DEF pieces
<1>3. /\ new \in Seq(ChunksOf(id, T, W)) /\ Said(new) = FlattenSeq(pieces)
      /\ Numbered(id, scan.chunks \o new)
  BY <1>2, StoredFacts
<1>4. Flush(scan) = [scan EXCEPT !.chunks = @ \o new]
  BY FlushIs DEF pieces
<1>5. ~scan.headed => new = <<>>
  <2>1. pieces = <<>> => new = <<>>
    BY DEF Stored
  <2> QED
    BY <1>2, <2>1
<1> HIDE DEF new
<1>6. old \o new \in Seq(ChunksOf(id, T, W))
  BY <1>1, <1>3, ConcatProperties
<1>7. Flush(scan) \in ScansOf(id, T, W) /\ Flush(scan).chunks = old \o new /\ Flush(scan).headed = scan.headed
  BY <1>4, <1>6 DEF ScansOf
<1>8. ~scan.headed => old \o new = old
  BY <1>1, <1>5, ConcatEmptySeq
<1>9. ASSUME scan.headed PROVE Alike(Said(old \o new), Said(old) \o scan.open, S)
  <2> DEFINE a == Said(old)  b == Said(new)  x == scan.open
  <2>1. Said(old \o new) = a \o b
    <3> HIDE DEF old
    <3>1. old \in Seq(ChunksOf(id, T, W)) /\ new \in Seq(ChunksOf(id, T, W))
      BY <1>1, <1>3
    <3> QED
      BY <3>1, SaidOfBoth
  <2>2. a \in Seq(T) /\ b \in Seq(T) /\ x \in Seq(T)
    BY <1>1, <1>3, BodiesTyped
  <2>3. Without(b, S) = Without(x, S)
    BY <1>2, <1>3, <1>9 DEF Alike
  <2> HIDE DEF a, b, x
  <2>4. \A u \in Seq(T), v \in Seq(T) : Without(u \o v, S) = Without(u, S) \o Without(v, S)
    BY WithoutOfBoth
  <2>5. Without(a \o b, S) = Without(a, S) \o Without(b, S) /\ Without(a \o x, S) = Without(a, S) \o Without(x, S)
    BY <2>2, <2>4
  <2> QED
    BY <2>1, <2>3, <2>5 DEF a, x, Alike
<1> QED
  BY <1>3, <1>7, <1>8, <1>9

-----------------------------------------------------------------------------
(* What a line does to the scanner.                                        *)
Moved(scan, line, next) ==
  /\ line.level > 0 => next.headed /\ next.open = <<>> /\ next.chunks = Flush(scan).chunks
  /\ ~(line.level > 0) /\ scan.headed =>
       next.headed /\ next.open = Append(scan.open, line) /\ next.chunks = scan.chunks
  /\ ~(line.level > 0) /\ ~scan.headed => next = scan

(* The scanner's steps: a heading stores the section before it, any other  *)
(* line below a heading is added, and lines above the first are dropped.   *)
LEMMA LineScanned ==
  ASSUME NEW id, NEW T, T \subseteq Line, NEW W, \A l \in T : l.word \in W,
         NEW scan \in ScansOf(id, T, W), NEW S, \A l \in T : IsBlank(l) => l \in S,
         Numbered(id, scan.chunks), NEW line \in T
  PROVE  /\ ScanLine(scan, line) \in ScansOf(id, T, W) /\ Numbered(id, ScanLine(scan, line).chunks)
         /\ Moved(scan, line, ScanLine(scan, line))
<1> DEFINE next == ScanLine(scan, line)
<1>1. line.level \in Nat /\ line.word \in W
  <2>1. line \in Line
    OBVIOUS
  <2> QED
    BY <2>1 DEF Line
<1>2. CASE line.level > 0
  <2> DEFINE done == Flush(scan)  m == Min({Len(done.crumb), line.level - 1})
             kept == Append(SubSeq(done.crumb, 1, m), line.word)
  <2>1. done \in ScansOf(id, T, W) /\ Numbered(id, done.chunks)
    BY FlushFacts
  <2> HIDE DEF done
  <2>2. done.crumb \in Seq(W) /\ <<>> \in Seq(T)
    BY <2>1 DEF ScansOf
  <2>3. m \in 0..Len(done.crumb)
    <3> DEFINE I == {Len(done.crumb), line.level - 1}
    <3>1. Len(done.crumb) \in Nat /\ line.level - 1 \in Nat
      BY <1>1, <1>2, <2>2
    <3>2. I \subseteq Nat /\ I # {} /\ Len(done.crumb) \in I
      BY <3>1
    <3> HIDE DEF I
    <3>3. Min(I) \in I /\ \A j \in I : Min(I) <= j
      BY <3>2, LeastNumber
    <3>4. Min(I) \in Nat /\ Min(I) <= Len(done.crumb)
      BY <3>2, <3>3
    <3> QED
      BY <3>1, <3>4 DEF I
  <2> HIDE DEF m
  <2>4. kept \in Seq(W)
    <3>1. SubSeq(done.crumb, 1, m) \in Seq(W)
      BY <2>2, <2>3, PartTyped
    <3> QED
      BY <1>1, <3>1, AppendProperties
  <2> HIDE DEF kept
  <2>5. PICK yes \in BOOLEAN : yes = TRUE
    OBVIOUS
  <2>6. next = [done EXCEPT !.crumb = kept, !.headed = yes, !.open = <<>>]
    BY <1>2, <2>5 DEF ScanLine, done, kept, m
  <2> HIDE DEF next
  <2>7. /\ next \in ScansOf(id, T, W) /\ next.headed = yes /\ next.open = <<>>
        /\ next.chunks = done.chunks
    BY <2>1, <2>2, <2>4, <2>6 DEF ScansOf
  <2> QED
    BY <1>2, <2>1, <2>5, <2>7 DEF next, done, Moved
<1>3. CASE ~(line.level > 0) /\ scan.headed
  <2>1. line.level = 0
    BY <1>1, <1>3
  <2> DEFINE more == Append(scan.open, line)
  <2>2. next = [scan EXCEPT !.open = more]
    BY <1>3, <2>1 DEF ScanLine
  <2>3. more \in Seq(T)
    <3>1. scan.open \in Seq(T)
      BY DEF ScansOf
    <3> QED
      BY <3>1, AppendProperties
  <2> HIDE DEF next, more
  <2>4. /\ next \in ScansOf(id, T, W) /\ next.headed = scan.headed /\ next.open = more
        /\ next.chunks = scan.chunks
    BY <2>2, <2>3 DEF ScansOf
  <2> QED
    BY <1>3, <2>4 DEF next, more, Moved
<1>4. CASE ~(line.level > 0) /\ ~scan.headed
  <2>1. next = scan
    BY <1>4 DEF ScanLine
  <2> QED
    BY <1>4, <2>1 DEF Moved
<1> QED
  BY <1>2, <1>3, <1>4

(* The lines, the words and what says nothing in a regulation.             *)
LinesOf(file) == ToSet(file.lines)
WordsOf(file) == {file.id} \cup {l.word : l \in LinesOf(file)}
SilentLines(file) == {l \in LinesOf(file) : l.level > 0 \/ IsBlank(l)}
Scans(file) == {scan \in ScansOf(file.id, LinesOf(file), WordsOf(file)) : Numbered(file.id, scan.chunks)}

(* A regulation's lines are lines of its own.                              *)
LEMMA LinesTyped ==
  ASSUME NEW file \in Regulation
  PROVE  /\ file.lines \in Seq(LinesOf(file)) /\ LinesOf(file) \subseteq Line
         /\ \A l \in LinesOf(file) : l.word \in WordsOf(file) /\ l.level \in Nat
         /\ \A l \in LinesOf(file) : IsBlank(l) => l \in SilentLines(file)
<1>1. file.lines \in Seq(Line)
  BY DEF Regulation
<1> DEFINE x == file.lines
<1>2. x \in Seq(Line) /\ DOMAIN x = 1..Len(x) /\ Len(x) \in Nat
  BY <1>1
<1>3. ToSet(x) \subseteq Line /\ \A i \in 1..Len(x) : x[i] \in ToSet(x)
  BY <1>2 DEF ToSet
<1>4. x \in Seq(ToSet(x))
  BY <1>2, <1>3
<1>5. \A l \in Line : l.level \in Nat
  BY DEF Line
<1> QED
  BY <1>3, <1>4, <1>5 DEF LinesOf, WordsOf, SilentLines

(* The scanner starts and stays among its states.                          *)
LEMMA NewScanFits == ASSUME NEW file \in Regulation PROVE NewScan(file) \in Scans(file)
<1> DEFINE id == file.id  T == LinesOf(file)  W == WordsOf(file)
<1>1. <<id>> \in Seq(W)
  <2>1. id \in W
    BY DEF WordsOf
  <2> HIDE DEF id, W
  <2> QED
    BY <2>1, OneItem
<1>2. <<>> \in Seq(T) /\ <<>> \in Seq(ChunksOf(id, T, W)) /\ Len(<<>>) = 0
  OBVIOUS
<1>3. PICK no \in BOOLEAN : no = FALSE
  OBVIOUS
<1> DEFINE new == [id |-> id, crumb |-> <<id>>, headed |-> no, open |-> <<>>, chunks |-> <<>>]
<1>4. NewScan(file) = new
  BY <1>3 DEF NewScan
<1> HIDE DEF T, W, id
<1>5. new \in ScansOf(id, T, W) /\ new.chunks = <<>>
  BY <1>1, <1>2 DEF ScansOf
<1> HIDE DEF new
<1>6. Numbered(id, new.chunks)
  BY <1>2, <1>5 DEF Numbered
<1> QED
  BY <1>4, <1>5, <1>6 DEF Scans, id, T, W

LEMMA ScanLineFits ==
  ASSUME NEW file \in Regulation, NEW scan \in Scans(file), NEW line \in LinesOf(file)
  PROVE  ScanLine(scan, line) \in Scans(file)
<1> DEFINE id == file.id  T == LinesOf(file)  W == WordsOf(file)  S == SilentLines(file)
<1>1. scan \in ScansOf(id, T, W) /\ Numbered(id, scan.chunks)
  BY DEF Scans
<1>2. T \subseteq Line /\ (\A l \in T : l.word \in W) /\ \A l \in T : IsBlank(l) => l \in S
  BY LinesTyped
<1>3. line \in T
  OBVIOUS
<1> HIDE DEF id, T, W, S
<1>4. ScanLine(scan, line) \in ScansOf(id, T, W) /\ Numbered(id, ScanLine(scan, line).chunks)
  BY <1>1, <1>2, <1>3, LineScanned
<1> QED
  BY <1>4 DEF Scans, id, T, W

(* f gives the scanner's state after every line.                           *)
Scanning(f, file) ==
  f[0] = NewScan(file) /\ \A n \in 1..Len(file.lines) : f[n] = ScanLine(f[n - 1], file.lines[n])

(* The scanner's loop, turn by turn.                                       *)
LEMMA ScanLoop ==
  ASSUME NEW file \in Regulation
  PROVE  \E f \in [0..Len(file.lines) -> Scans(file)] :
           Scanned(file) = f[Len(file.lines)] /\ Scanning(f, file)
<1> DEFINE x == file.lines  start == NewScan(file)  states == Scans(file)  N == Len(x)
           turn == [n \in 1..N |-> [p \in states |-> ScanLine(p, x[n])]]
<1>0. N \in Nat /\ start \in states /\ \A n \in 1..N : x[n] \in LinesOf(file)
  BY LinesTyped, NewScanFits
<1> HIDE DEF x, N, start
<1>1. turn \in [1..N -> [states -> states]]
  <2>1. ASSUME NEW n \in 1..N, NEW p \in states PROVE ScanLine(p, x[n]) \in states
    BY <1>0, ScanLineFits
  <2> HIDE DEF states
  <2> QED
    BY <2>1
<1> HIDE DEF states
<1>2. PICK g \in [0..N -> states] : g[0] = start /\ \A n \in 1..N : g[n] = turn[n][g[n - 1]]
  <2> HIDE DEF turn
  <2>2. \E g \in [0..N -> states] : Loop(g, start, N, turn)
    BY <1>0, <1>1, LoopRuns
  <2> QED
    BY <2>2 DEF Loop
<1>3. ASSUME NEW n \in 1..N PROVE g[n] = ScanLine(g[n - 1], x[n])
  <2>1. n - 1 \in 0..N /\ g[n - 1] \in states
    <3> HIDE DEF turn
    <3> QED
      BY <1>0
  <2> QED
    BY <1>2, <2>1
<1> HIDE DEF turn
<1>4. g = [n \in 0..N |-> IF n = 0 THEN start ELSE ScanLine(g[n - 1], x[n])]
  <2>1. ASSUME NEW n \in 0..N PROVE g[n] = IF n = 0 THEN start ELSE ScanLine(g[n - 1], x[n])
    <3>1. n = 0 \/ n \in 1..N
      BY <1>0
    <3> QED
      BY <1>2, <1>3, <3>1
  <2> QED
    BY <2>1
<1> DEFINE upto[n \in 0..N] == IF n = 0 THEN start ELSE ScanLine(upto[n - 1], x[n])
<1>5. upto = [n \in 0..N |-> IF n = 0 THEN start ELSE ScanLine(upto[n - 1], x[n])]
  BY <1>4
<1>6. Scanned(file) = upto[N]
  BY DEF Scanned, x, N, start
<1> HIDE DEF upto
<1>7. upto[0] = start
  BY <1>0, <1>5
<1>8. ASSUME NEW n \in 1..N PROVE upto[n] = ScanLine(upto[n - 1], x[n])
  <2>1. n \in 0..N /\ n # 0
    BY <1>0
  <2> QED
    BY <1>5, <2>1
<1> DEFINE I == {n \in 0..N : upto[n] = g[n]}
<1>9. 0 \in I
  BY <1>0, <1>2, <1>7
<1>10. ASSUME NEW n \in 0..(N - 1), n \in I PROVE n + 1 \in I
  <2>1. n + 1 \in 0..N /\ n + 1 \in 1..N /\ (n + 1) - 1 = n
    BY <1>0
  <2> QED
    BY <1>3, <1>8, <1>10, <2>1
<1>11. \A n \in 0..N : n \in I
  <2> HIDE DEF I
  <2> QED
    BY <1>0, <1>9, <1>10, Climb
<1>12. Scanned(file) = g[N]
  <2>1. N \in 0..N
    BY <1>0
  <2> QED
    BY <1>6, <1>11, <2>1
<1>13. Scanning(g, file)
  BY <1>2, <1>3 DEF Scanning, N, x, start
<1> QED
  BY <1>12, <1>13 DEF N, x, states

(* A line added to both of two texts that say the same, or a line that     *)
(* says nothing added to one of them.                                      *)
LEMMA AlikeGrows ==
  ASSUME NEW T, NEW a \in Seq(T), NEW b \in Seq(T), NEW e \in T, NEW S, Alike(a, b, S)
  PROVE  Alike(a \o <<e>>, b \o <<e>>, S) /\ (e \in S => Alike(a, b \o <<e>>, S))
<1>1. <<e>> \in Seq(T) /\ Len(<<e>>) = 1 /\ <<e>>[1] = e
  BY OneItem
<1>0. \A u, v \in Seq(T) : Without(u \o v, S) = Without(u, S) \o Without(v, S)
  BY SMTT(30), WithoutOfBoth
<1>2. Without(a \o <<e>>, S) = Without(a, S) \o Without(<<e>>, S)
  BY <1>0, <1>1
<1>3. Without(b \o <<e>>, S) = Without(b, S) \o Without(<<e>>, S)
  BY <1>0, <1>1
<1>4. ASSUME e \in S PROVE Without(<<e>>, S) = <<>>
  <2>1. \A i \in 1..Len(<<e>>) : <<e>>[i] \in S
    BY <1>1, <1>4
  <2> QED
    BY <1>1, <2>1, NothingLeft
<1>5. Without(b, S) \o <<>> = Without(b, S)
  <2>1. Without(b, S) \in Seq(T)
    BY WithoutTyped
  <2> QED
    BY <2>1
<1> QED
  BY <1>2, <1>3, <1>4, <1>5 DEF Alike

(* No heading is among the first n lines of x.                             *)
Headless(x, n) == \A i \in 1..n : ~(x[i].level > 0)

(* What the scanner holds after n lines of x: nothing above the first      *)
(* heading, and from it on all that was said.                              *)
FromHeading(x, k, n, said, S) ==
  k \in 1..n /\ x[k].level > 0 /\ Headless(x, k - 1) /\ Alike(said, SubSeq(x, k, n), S)

Holding(scan, x, n, S) ==
  \/ ~scan.headed /\ scan.chunks = <<>> /\ Headless(x, n)
  \/ scan.headed /\ \E k \in 1..n : FromHeading(x, k, n, Said(scan.chunks) \o scan.open, S)

(* One more line: k stays where it is.                                     *)
LEMMA HeadingStays ==
  ASSUME NEW T, NEW x \in Seq(T), NEW n \in 0..(Len(x) - 1), NEW k \in 1..n, NEW S,
         NEW said \in Seq(T), FromHeading(x, k, n, said, S)
  PROVE  /\ FromHeading(x, k, n + 1, said \o <<x[n + 1]>>, S)
         /\ x[n + 1] \in S => FromHeading(x, k, n + 1, said, S)
<1> DEFINE part == SubSeq(x, k, n)  e == x[n + 1]
<1>1. Len(x) \in Nat /\ k \in 1..(n + 1) /\ k \in Nat \ {0} /\ n \in 0..Len(x) /\ n + 1 \in 1..Len(x)
  OBVIOUS
<1>2. part \in Seq(T) /\ e \in T
  BY <1>1, PartTyped
<1>3. SubSeq(x, k, n + 1) = part \o <<e>>
  BY <1>1, PartGrows
<1>4. Alike(said, part, S)
  BY DEF FromHeading
<1> HIDE DEF part, e
<1>5. Alike(said \o <<e>>, part \o <<e>>, S) /\ (e \in S => Alike(said, part \o <<e>>, S))
  BY <1>2, <1>4, AlikeGrows
<1>6. x[k].level > 0 /\ Headless(x, k - 1)
  BY DEF FromHeading
<1>7. /\ Alike(said \o <<e>>, SubSeq(x, k, n + 1), S)
      /\ e \in S => Alike(said, SubSeq(x, k, n + 1), S)
  BY <1>3, <1>5
<1>8. FromHeading(x, k, n + 1, said \o <<e>>, S)
  BY <1>1, <1>6, <1>7 DEF FromHeading
<1>9. e \in S => FromHeading(x, k, n + 1, said, S)
  BY <1>1, <1>6, <1>7 DEF FromHeading
<1> QED
  BY <1>8, <1>9 DEF e

(* The first heading: nothing was said above it.                           *)
LEMMA HeadingFound ==
  ASSUME NEW T, NEW x \in Seq(T), NEW n \in 0..(Len(x) - 1), NEW S,
         Headless(x, n), x[n + 1].level > 0, x[n + 1] \in S
  PROVE  FromHeading(x, n + 1, n + 1, <<>>, S)
<1> DEFINE m == n + 1
<1>1. Len(x) \in Nat /\ m \in 1..Len(x) /\ m - 1 = n /\ m \in 1..m /\ n \in 0..Len(x) /\ n \in 0..m
      /\ m \in 0..Len(x) /\ m - n = 1 /\ 1 \in 1..(m - n) /\ n + 1 = m
  OBVIOUS
<1> DEFINE part == SubSeq(x, m, m)
<1>2. part \in Seq(T) /\ Len(part) = 1 /\ part[1] = x[m]
  <2> HIDE DEF m
  <2>1. SubSeq(x, n + 1, m) \in Seq(T) /\ Len(SubSeq(x, n + 1, m)) = m - n
        /\ \A i \in 1..(m - n) : SubSeq(x, n + 1, m)[i] = x[n + i]
    BY <1>1, PartFacts
  <2>2. SubSeq(x, n + 1, m)[1] = x[n + 1]
    BY <1>1, <2>1
  <2>3. SubSeq(x, n + 1, m) = part
    BY <1>1
  <2> QED
    BY <1>1, <2>1, <2>2, <2>3
<1> HIDE DEF part
<1>3. Without(part, S) = <<>>
  <2>1. \A i \in 1..Len(part) : part[i] \in S
    BY <1>2
  <2> QED
    BY <1>2, <2>1, NothingLeft
<1>4. Without(<<>>, S) = <<>>
  <2>1. <<>> \in Seq(T) /\ \A i \in 1..Len(<<>>) : <<>>[i] \in S
    OBVIOUS
  <2> QED
    BY <2>1, NothingLeft
<1>5. Alike(<<>>, part, S)
  BY <1>3, <1>4 DEF Alike
<1> HIDE DEF m
<1>6. x[m].level > 0 /\ Headless(x, m - 1)
  BY <1>1 DEF m
<1>7. FromHeading(x, m, m, <<>>, S)
  BY <1>1, <1>5, <1>6 DEF FromHeading, part
<1> QED
  BY <1>7 DEF m

(* One more line is scanned.                                               *)
LEMMA ScanHolds ==
  ASSUME NEW file \in Regulation, NEW scan \in Scans(file), NEW n \in 0..(Len(file.lines) - 1),
         Holding(scan, file.lines, n, SilentLines(file))
  PROVE  Holding(ScanLine(scan, file.lines[n + 1]), file.lines, n + 1, SilentLines(file))
<1> DEFINE id == file.id  x == file.lines  T == LinesOf(file)  W == WordsOf(file)  S == SilentLines(file)
           line == x[n + 1]  next == ScanLine(scan, line)  said == Said(scan.chunks) \o scan.open
<1>1. /\ x \in Seq(T) /\ T \subseteq Line /\ (\A l \in T : l.word \in W)
      /\ \A l \in T : IsBlank(l) => l \in S
  BY LinesTyped
<1>2. scan \in ScansOf(id, T, W) /\ Numbered(id, scan.chunks)
  BY DEF Scans
<1>3. line \in T
  <2>1. n + 1 \in 1..Len(x)
    BY <1>1
  <2> HIDE DEF x, T
  <2> QED
    BY <1>1, <2>1
<1>4. line.level > 0 => line \in S
  BY <1>3 DEF SilentLines
<1>5. Holding(scan, x, n, S)
  OBVIOUS
<1>6. n + 1 \in 1..(n + 1) /\ n \in Nat /\ n \in 0..(Len(x) - 1) /\ 1..n \subseteq 1..(n + 1)
  OBVIOUS
<1> SUFFICES Holding(next, x, n + 1, S)
  OBVIOUS
<1> HIDE DEF id, x, T, W, S, line, next
<1>7. Moved(scan, line, next)
  BY <1>1, <1>2, <1>3, LineScanned DEF next
<1>8. /\ scan.headed => Alike(Said(Flush(scan).chunks), said, S)
      /\ ~scan.headed => Flush(scan).chunks = scan.chunks
      /\ Flush(scan) \in ScansOf(id, T, W)
  BY <1>1, <1>2, FlushFacts
<1>9. Said(scan.chunks) \in Seq(T) /\ scan.open \in Seq(T) /\ said \in Seq(T)
  <2>1. scan.chunks \in Seq(ChunksOf(id, T, W)) /\ scan.open \in Seq(T)
    BY <1>2 DEF ScansOf
  <2>2. Said(scan.chunks) \in Seq(T)
    BY <2>1, BodiesTyped
  <2> QED
    BY <2>1, <2>2
<1>10. Said(Flush(scan).chunks) \in Seq(T)
  <2>1. Flush(scan).chunks \in Seq(ChunksOf(id, T, W))
    BY <1>8 DEF ScansOf
  <2> QED
    BY <2>1, BodiesTyped
<1> HIDE DEF said
<1>11. CASE line.level > 0 /\ ~scan.headed
  <2>1. next.headed /\ next.open = <<>> /\ next.chunks = <<>> /\ Headless(x, n)
    BY <1>5, <1>7, <1>8, <1>11 DEF Holding, Moved
  <2>2. FromHeading(x, n + 1, n + 1, <<>>, S)
    <3>1. x[n + 1].level > 0 /\ x[n + 1] \in S /\ n \in 0..(Len(x) - 1) /\ Headless(x, n) /\ x \in Seq(T)
      BY <1>1, <1>4, <1>6, <1>11, <2>1 DEF line
    <3> QED
      BY <3>1, HeadingFound
  <2>3. Said(next.chunks) \o next.open = <<>>
    <3>1. Said(<<>>) = <<>>
      BY FlattenFacts DEF Said, Bodies
    <3> QED
      BY <2>1, <3>1
  <2>4. FromHeading(x, n + 1, n + 1, Said(next.chunks) \o next.open, S)
    BY <2>2, <2>3
  <2> QED
    BY Zenon, <1>6, <2>1, <2>4 DEF Holding
<1>12. CASE line.level > 0 /\ scan.headed
  <2>1. PICK k \in 1..n : FromHeading(x, k, n, said, S)
    BY <1>5, <1>12 DEF Holding, said
  <2>2. FromHeading(x, k, n + 1, said, S)
    BY <1>1, <1>4, <1>6, <1>9, <1>12, <2>1, HeadingStays DEF line
  <2>3. Alike(Said(Flush(scan).chunks), said, S) /\ next.headed
    BY <1>7, <1>8, <1>12 DEF Moved
  <2>4. FromHeading(x, k, n + 1, Said(Flush(scan).chunks), S)
    BY <2>2, <2>3 DEF FromHeading, Alike
  <2>5. Said(next.chunks) \o next.open = Said(Flush(scan).chunks)
    <3>1. next.open = <<>> /\ next.chunks = Flush(scan).chunks
      BY <1>7, <1>12 DEF Moved
    <3> QED
      BY <1>10, <3>1
  <2>6. FromHeading(x, k, n + 1, Said(next.chunks) \o next.open, S) /\ k \in 1..(n + 1)
    BY <1>6, <2>4, <2>5
  <2> QED
    BY Zenon, <2>3, <2>6 DEF Holding
<1>13. CASE ~(line.level > 0) /\ scan.headed
  <2>1. PICK k \in 1..n : FromHeading(x, k, n, said, S)
    BY <1>5, <1>13 DEF Holding, said
  <2>2. FromHeading(x, k, n + 1, said \o <<line>>, S)
    BY <1>1, <1>6, <1>9, <2>1, HeadingStays DEF line
  <2>3. next.headed /\ next.open = Append(scan.open, line) /\ next.chunks = scan.chunks
    BY <1>7, <1>13 DEF Moved
  <2>4. Said(next.chunks) \o next.open = said \o <<line>>
    <3>1. <<line>> \in Seq(T)
      BY <1>3, OneItem
    <3>2. Append(scan.open, line) = scan.open \o <<line>>
      BY <1>3, <1>9, AppendIsConcat
    <3>3. Regroups(T)
      BY Regrouped
    <3>4. Said(scan.chunks) \o (scan.open \o <<line>>) = (Said(scan.chunks) \o scan.open) \o <<line>>
      BY <1>9, <3>1, <3>3 DEF Regroups
    <3> QED
      BY <2>3, <3>2, <3>4 DEF said
  <2>5. FromHeading(x, k, n + 1, Said(next.chunks) \o next.open, S) /\ k \in 1..(n + 1)
    BY <1>6, <2>2, <2>4
  <2> QED
    BY Zenon, <2>3, <2>5 DEF Holding
<1>14. CASE ~(line.level > 0) /\ ~scan.headed
  <2>1. next = scan /\ scan.chunks = <<>> /\ Headless(x, n)
    BY <1>5, <1>7, <1>14 DEF Holding, Moved
  <2>2. Headless(x, n + 1)
    <3>1. \A i \in 1..(n + 1) : i \in 1..n \/ i = n + 1
      BY <1>6
    <3> QED
      BY <1>14, <2>1, <3>1 DEF Headless, line
  <2> QED
    BY Zenon, <1>14, <2>1, <2>2 DEF Holding
<1> QED
  BY <1>11, <1>12, <1>13, <1>14

(* At the end of the file.                                                 *)
LEMMA ScannedHolds ==
  ASSUME NEW file \in Regulation
  PROVE  Scanned(file) \in Scans(file) /\ Holding(Scanned(file), file.lines, Len(file.lines), SilentLines(file))
<1> DEFINE x == file.lines  N == Len(x)  S == SilentLines(file)
<1>1. PICK f \in [0..N -> Scans(file)] : Scanned(file) = f[N] /\ Scanning(f, file)
  BY ScanLoop
<1>2. N \in Nat
  BY LinesTyped
<1> DEFINE I == {n \in 0..N : Holding(f[n], x, n, S)}
<1>3. 0 \in I
  <2>1. f[0] = NewScan(file)
    BY <1>1 DEF Scanning
  <2>2. ~NewScan(file).headed /\ NewScan(file).chunks = <<>>
    BY DEF NewScan
  <2>3. Headless(x, 0)
    BY DEF Headless
  <2>4. Holding(f[0], x, 0, S)
    BY <2>1, <2>2, <2>3 DEF Holding
  <2> QED
    BY <1>2, <2>4
<1>4. ASSUME NEW n \in 0..(N - 1), n \in I PROVE n + 1 \in I
  <2>1. n \in 0..N /\ n + 1 \in 1..N /\ n + 1 \in 0..N /\ (n + 1) - 1 = n
    BY <1>2
  <2>2. f[n] \in Scans(file) /\ Holding(f[n], x, n, S)
    BY <1>4, <2>1
  <2>3. Holding(ScanLine(f[n], x[n + 1]), x, n + 1, S)
    BY <2>2, ScanHolds
  <2>4. f[n + 1] = ScanLine(f[n], x[n + 1])
    BY <1>1, <2>1 DEF Scanning
  <2> QED
    BY <2>1, <2>3, <2>4
<1>5. \A n \in 0..N : n \in I
  <2> HIDE DEF I, N
  <2> QED
    BY <1>2, <1>3, <1>4, Climb
<1>6. N \in 0..N
  BY <1>2
<1>7. f[N] \in Scans(file) /\ Holding(f[N], x, N, S)
  BY <1>5, <1>6
<1> QED
  BY <1>1, <1>7

(* A regulation is cut whole.                                              *)
LEMMA CutWholeHolds ==
  ASSUME NEW file \in Regulation
  PROVE  CutWhole(file)
<1> DEFINE id == file.id  x == file.lines  T == LinesOf(file)  W == WordsOf(file)  S == SilentLines(file)
           N == Len(x)  scan == Scanned(file)  chunks == Flush(scan).chunks
           first == SelectInSeq(x, LAMBDA l : l.level > 0)
           below == IF first = 0 THEN <<>> ELSE SubSeq(x, first, N)
<1>1. /\ x \in Seq(T) /\ T \subseteq Line /\ (\A l \in T : l.word \in W)
      /\ (\A l \in T : IsBlank(l) => l \in S) /\ N \in Nat
  BY LinesTyped
<1>2. scan \in Scans(file) /\ Holding(scan, x, N, S)
  BY ScannedHolds
<1>3. scan \in ScansOf(id, T, W) /\ Numbered(id, scan.chunks)
  BY <1>2 DEF Scans
<1> HIDE DEF id, T, W, S, scan, x, N, first, below
<1>4. /\ Flush(scan) \in ScansOf(id, T, W) /\ Numbered(id, chunks)
      /\ scan.headed => Alike(Said(chunks), Said(scan.chunks) \o scan.open, S)
      /\ ~scan.headed => chunks = scan.chunks
  <2> HIDE DEF chunks
  <2>1. Flush(scan) \in ScansOf(id, T, W) /\ Numbered(id, Flush(scan).chunks)
    BY <1>1, <1>3, FlushFacts
  <2>2. scan.headed => Alike(Said(Flush(scan).chunks), Said(scan.chunks) \o scan.open, S)
    BY <1>1, <1>3, FlushFacts
  <2>3. ASSUME ~scan.headed PROVE Flush(scan).chunks = scan.chunks
    <3>1. \A s \in ScansOf(id, T, W) : Numbered(id, s.chunks) /\ ~s.headed => Flush(s).chunks = s.chunks
      BY <1>1, FlushFacts
    <3> QED
      BY <1>3, <2>3, <3>1
  <2> QED
    BY <2>1, <2>2, <2>3 DEF chunks
<1>5. chunks \in Seq(ChunksOf(id, T, W))
  BY <1>4 DEF ScansOf
<1> HIDE DEF chunks
<1>6. Alike(Said(chunks), below, S)
  <2> DEFINE I == {i \in 1..N : x[i].level > 0}
  <2>1. first = IF I # {} THEN Min(I) ELSE 0
    BY DEF SelectInSeq, first, N
  <2>2. CASE ~scan.headed
    <3>1. chunks = <<>> /\ Headless(x, N)
      BY <1>2, <1>4, <2>2 DEF Holding
    <3>2. I = {}
      BY <3>1 DEF Headless
    <3>3. below = <<>>
      BY <2>1, <3>2 DEF below
    <3>4. Said(chunks) = <<>>
      BY <3>1, FlattenFacts DEF Said, Bodies
    <3> QED
      BY <3>3, <3>4 DEF Alike
  <2>3. CASE scan.headed
    <3>1. PICK k \in 1..N : FromHeading(x, k, N, Said(scan.chunks) \o scan.open, S)
      BY <1>2, <2>3 DEF Holding
    <3>2. x[k].level > 0 /\ Headless(x, k - 1) /\ Alike(Said(scan.chunks) \o scan.open, SubSeq(x, k, N), S)
      BY <3>1 DEF FromHeading
    <3>3. I \subseteq Nat /\ I # {} /\ k \in I
      BY <1>1, <3>2
    <3>4. Min(I) = k
      <4>1. Min(I) \in I /\ Min(I) <= k
        <5> HIDE DEF I
        <5> QED
          BY <3>3, LeastNumber
      <4>2. \A i \in I : i \in 1..N /\ ~(i \in 1..(k - 1))
        BY <3>2 DEF Headless
      <4> QED
        BY <1>1, <4>1, <4>2
    <3>5. first = k /\ k # 0
      BY <1>1, <2>1, <3>3, <3>4
    <3>6. below = SubSeq(x, k, N)
      BY <3>5 DEF below
    <3> QED
      BY <1>4, <2>3, <3>2, <3>6 DEF Alike
  <2> QED
    BY <2>2, <2>3
<1>7. DOMAIN chunks = 1..Len(chunks)
  BY <1>5
<1>8. /\ Without(Said(chunks), S) = Without(below, S)
      /\ \A c \in DOMAIN chunks :
           chunks[c].id = <<id, c>> /\ (Chars(chunks[c].body) <= MaxChars + 1 \/ Len(Clauses(chunks[c].body)) = 1)
  BY <1>4, <1>6, <1>7 DEF Alike, Numbered, Whole
<1>9. Said(chunks) = FlattenSeq([c \in DOMAIN chunks |-> chunks[c].body])
  BY DEF Said, Bodies
<1>10. chunks = ChunkDocument(file)
  BY DEF chunks, scan, ChunkDocument
<1>11. S = {l \in ToSet(x) : l.level > 0 \/ IsBlank(l)}
  BY DEF S, SilentLines, LinesOf, x
<1> QED
  BY <1>8, <1>9, <1>10, <1>11 DEF CutWhole, below, first, x, N, id

-----------------------------------------------------------------------------
(* The evaluation of the model's answers, a script beside the service.     *)

(* Sequences of anything. *)
IsSequence(s) == Len(s) \in Nat /\ DOMAIN s = 1..Len(s) /\ s = [i \in 1..Len(s) |-> s[i]]

(* What a stored result says the item was.                                 *)
AskedItem(result) == [type |-> result.type, keys |-> result.truth]

(* Each answer was scored against the keys stored with it and these ids,   *)
(* and names this prompt text.                                             *)
ScoredWith(results, context, ids) ==
  \A i \in DOMAIN results :
    results[i] = Result(AskedItem(results[i]), results[i].answer, context, ids)

(* The run under way.                                                      *)
EvalFits ==
  eval # NoEval =>
    /\ eval = [items |-> eval.items, ids |-> eval.ids, context |-> eval.context,
               results |-> eval.results]
    /\ IsSequence(eval.results) /\ ScoredWith(eval.results, eval.context, eval.ids)

(* A rescored run keeps its original's prompt text and answers.            *)
KeepsAnswers(run, old) ==
  /\ run.context = old.context /\ DOMAIN run.items = DOMAIN old.items
  /\ \A i \in DOMAIN run.items : run.items[i].answer = old.items[i].answer

(* The runs that are stored.                                               *)
RunsFit ==
  /\ IsSequence(runs)
  /\ \A r \in DOMAIN runs :
       /\ ScoredWith(runs[r].items, runs[r].context, runs[r].ids)
       /\ runs[r].rescored # 0 =>
            runs[r].rescored \in 1..(r - 1) /\ KeepsAnswers(runs[r], runs[runs[r].rescored])

EvaluationInv == EvalFits /\ RunsFit

LEMMA AppendedSequence ==
  ASSUME NEW s, NEW e, IsSequence(s)
  PROVE  /\ IsSequence(Append(s, e))
         /\ DOMAIN Append(s, e) = DOMAIN s \cup {Len(s) + 1}
         /\ Append(s, e)[Len(s) + 1] = e
         /\ \A i \in DOMAIN s : i # Len(s) + 1 /\ Append(s, e)[i] = s[i]
<1> DEFINE S == {s[i] : i \in DOMAIN s} \cup {e}
           t == Append(s, e)
<1>1. s \in Seq(S)
  <2>1. s \in [1..Len(s) -> S]
    BY DEF IsSequence
  <2> QED
    BY <2>1 DEF IsSequence
<1>2. e \in S
  OBVIOUS
<1> HIDE DEF S
<1>3. t \in Seq(S) /\ Len(t) = Len(s) + 1
  BY <1>1, <1>2
<1>4. IsSequence(t)
  <2> HIDE DEF t
  <2>1. Len(t) \in Nat /\ DOMAIN t = 1..Len(t) /\ t \in [1..Len(t) -> S]
    BY <1>3, ElementOfSeq, LenProperties
  <2> QED
    BY <2>1 DEF IsSequence
<1>5. t[Len(s) + 1] = e /\ \A i \in 1..Len(s) : t[i] = s[i]
  BY <1>1, <1>2
<1> QED
  BY <1>3, <1>4, <1>5 DEF IsSequence

LEMMA EmptySequence == IsSequence(<<>>)
  BY DEF IsSequence

(* A result names its answer and the prompt text it was given, and says    *)
(* enough of the item to be scored again.                                  *)
LEMMA ResultFields ==
  ASSUME NEW item, NEW answer, NEW context, NEW ids
  PROVE  /\ Result(item, answer, context, ids).answer = answer
         /\ Result(item, answer, context, ids).from = context
         /\ Result(item, answer, context, ids) =
              Result(AskedItem(Result(item, answer, context, ids)), answer, context, ids)
  BY DEF Result, AskedItem, Passes

LEMMA StartEvalKeeps == ASSUME EvaluationInv, StartEval PROVE EvaluationInv'
<1>1. PICK limit \in DOMAIN items :
        eval' = [items |-> SubSeq(items, 1, limit), ids |-> ChunkIds,
                 context |-> contextFile, results |-> <<>>]
  BY DEF StartEval
<1>2. EvalFits'
  BY <1>1, EmptySequence DEF EvalFits, ScoredWith
<1>3. RunsFit'
  BY DEF StartEval, EvaluationInv, RunsFit
<1> QED
  BY <1>2, <1>3 DEF EvaluationInv

LEMMA AskItemKeeps == ASSUME EvaluationInv, AskItem PROVE EvaluationInv'
<1>1. PICK answer \in Answers \cup {NoAnswer} :
        eval' = [eval EXCEPT !.results =
                   Append(@, Result(eval.items[Len(@) + 1], answer, eval.context, eval.ids))]
  BY DEF AskItem
<1> DEFINE old == eval.results
           new == Result(eval.items[Len(old) + 1], answer, eval.context, eval.ids)
<1>2. /\ eval = [items |-> eval.items, ids |-> eval.ids, context |-> eval.context,
                  results |-> old]
      /\ IsSequence(old) /\ ScoredWith(old, eval.context, eval.ids)
  BY DEF AskItem, EvaluationInv, EvalFits
<1>3. eval' = [items |-> eval.items, ids |-> eval.ids, context |-> eval.context,
               results |-> Append(old, new)]
  BY <1>1, <1>2
<1>4. new = Result(AskedItem(new), new.answer, eval.context, eval.ids)
  BY ResultFields
<1>5. ScoredWith(Append(old, new), eval.context, eval.ids)
  <2> SUFFICES ASSUME NEW i \in DOMAIN Append(old, new)
               PROVE  Append(old, new)[i] =
                        Result(AskedItem(Append(old, new)[i]), Append(old, new)[i].answer,
                               eval.context, eval.ids)
    BY DEF ScoredWith
  <2> HIDE DEF old
  <2>1. CASE i = Len(old) + 1
    <3>1. Append(old, new)[i] = new
      BY <1>2, <2>1, AppendedSequence
    <3> HIDE DEF new
    <3> QED
      BY <3>1, <1>4
  <2>2. CASE i # Len(old) + 1
    <3>1. i \in DOMAIN old /\ Append(old, new)[i] = old[i]
      BY <1>2, <2>2, AppendedSequence
    <3> QED
      BY <1>2, <3>1 DEF ScoredWith
  <2> QED
    BY <2>1, <2>2
<1>6. EvalFits'
  <2>1. IsSequence(Append(old, new))
    BY <1>2, AppendedSequence
  <2> HIDE DEF old, new
  <2>2. eval'.items = eval.items /\ eval'.ids = eval.ids /\ eval'.context = eval.context
        /\ eval'.results = Append(old, new)
    BY <1>3
  <2> QED
    BY <1>3, <1>5, <2>1, <2>2 DEF EvalFits, ScoredWith, IsSequence
<1>7. RunsFit'
  BY DEF AskItem, EvaluationInv, RunsFit
<1> QED
  BY <1>6, <1>7 DEF EvaluationInv

(* A run that is stored is stored behind the others, which stay as they    *)
(* are.                                                                    *)
LEMMA StoredRunFits ==
  ASSUME NEW run, EvaluationInv, runs' = Append(runs, run),
         ScoredWith(run.items, run.context, run.ids),
         run.rescored # 0 => run.rescored \in DOMAIN runs /\ KeepsAnswers(run, runs[run.rescored])
  PROVE  RunsFit'
<1>1. IsSequence(runs)
  BY DEF EvaluationInv, RunsFit
<1>2. /\ IsSequence(runs') /\ DOMAIN runs' = DOMAIN runs \cup {Len(runs) + 1}
      /\ runs'[Len(runs) + 1] = run
      /\ \A r \in DOMAIN runs : runs'[r] = runs[r]
  BY <1>1, AppendedSequence
<1>3. ASSUME NEW r \in DOMAIN runs'
      PROVE  /\ ScoredWith(runs'[r].items, runs'[r].context, runs'[r].ids)
             /\ runs'[r].rescored # 0 =>
                  /\ runs'[r].rescored \in 1..(r - 1)
                  /\ KeepsAnswers(runs'[r], runs'[runs'[r].rescored])
  <2>1. CASE r = Len(runs) + 1
    <3>1. run.rescored # 0 => run.rescored \in 1..(r - 1) /\ runs'[run.rescored] = runs[run.rescored]
      BY <1>1, <1>2, <2>1 DEF IsSequence
    <3> QED
      BY <1>2, <2>1, <3>1
  <2>2. CASE r \in DOMAIN runs
    <3>1. runs'[r] = runs[r] /\ r \in 1..Len(runs) /\ Len(runs) \in Nat
      BY <1>1, <1>2, <2>2 DEF IsSequence
    <3>2. /\ ScoredWith(runs[r].items, runs[r].context, runs[r].ids)
          /\ runs[r].rescored # 0 =>
               runs[r].rescored \in 1..(r - 1) /\ KeepsAnswers(runs[r], runs[runs[r].rescored])
      BY <2>2 DEF EvaluationInv, RunsFit
    <3>3. \A o \in 1..(r - 1) : o \in DOMAIN runs /\ runs'[o] = runs[o]
      BY <1>1, <1>2, <3>1 DEF IsSequence
    <3> QED
      BY <3>1, <3>2, <3>3
  <2> QED
    BY <1>2, <1>3, <2>1, <2>2
<1> QED
  BY <1>2, <1>3 DEF RunsFit, ScoredWith, KeepsAnswers, IsSequence

LEMMA SaveKeeps == ASSUME EvaluationInv, Save PROVE EvaluationInv'
<1> DEFINE run == [context |-> eval.context, ids |-> eval.ids, items |-> eval.results, rescored |-> 0]
<1>1. runs' = Append(runs, run) /\ eval' = NoEval
  BY DEF Save
<1>2. ScoredWith(run.items, run.context, run.ids) /\ run.rescored = 0
  BY DEF Save, EvaluationInv, EvalFits
<1> HIDE DEF run
<1>3. RunsFit'
  BY <1>1, <1>2, StoredRunFits
<1> QED
  BY <1>1, <1>3 DEF EvaluationInv, EvalFits

LEMMA RescoreKeeps == ASSUME EvaluationInv, Rescore PROVE EvaluationInv'
<1>1. PICK r \in DOMAIN runs :
        runs' = Append(runs,
          [context |-> RescoredContext(runs[r]), ids |-> ChunkIds, rescored |-> r,
           items |-> [i \in DOMAIN runs[r].items |->
             LET old == runs[r].items[i]
             IN Result(items[i], old.answer, old.from, RescoreIds)]])
  BY DEF Rescore
<1> DEFINE old == runs[r]
           results == [i \in DOMAIN old.items |->
                         Result(items[i], old.items[i].answer, old.items[i].from, ChunkIds)]
           run == [context |-> old.context, ids |-> ChunkIds, rescored |-> r, items |-> results]
<1>2. runs' = Append(runs, run)
  BY <1>1 DEF RescoredContext, RescoreIds
<1>3. ScoredWith(old.items, old.context, old.ids)
  BY DEF EvaluationInv, RunsFit
<1>4. ASSUME NEW i \in DOMAIN old.items
      PROVE  /\ results[i] = Result(AskedItem(results[i]), results[i].answer, old.context, ChunkIds)
             /\ results[i].answer = old.items[i].answer
  <2>1. old.items[i].from = old.context
    BY <1>3, <1>4, ResultFields DEF ScoredWith
  <2>2. results[i] = Result(items[i], old.items[i].answer, old.context, ChunkIds)
    BY <1>4, <2>1
  <2> HIDE DEF results, old
  <2> QED
    BY <2>2, ResultFields
<1>5. DOMAIN results = DOMAIN old.items
  OBVIOUS
<1> HIDE DEF results
<1>6. ScoredWith(results, old.context, ChunkIds)
  BY <1>4, <1>5 DEF ScoredWith
<1>7. run.items = results /\ run.context = old.context /\ run.ids = ChunkIds /\ run.rescored = r
  OBVIOUS
<1> HIDE DEF run, old
<1>8. KeepsAnswers(run, old)
  BY <1>4, <1>5, <1>7 DEF KeepsAnswers
<1>9. RunsFit'
  BY <1>2, <1>6, <1>7, <1>8, StoredRunFits DEF old
<1> QED
  BY <1>9 DEF Rescore, EvaluationInv, EvalFits

LEMMA EvaluationKeeps == EvaluationInv /\ [EvaluationNext]_evaluationVars => EvaluationInv'
<1> SUFFICES ASSUME EvaluationInv, [EvaluationNext]_evaluationVars PROVE EvaluationInv'
  OBVIOUS
<1>1. CASE UNCHANGED <<eval, runs>>
  BY <1>1 DEF EvaluationInv, EvalFits, RunsFit
<1>2. CASE Abort
  BY <1>2 DEF Abort, EvaluationInv, EvalFits, RunsFit
<1> QED
  BY <1>1, <1>2, StartEvalKeeps, AskItemKeeps, SaveKeeps, RescoreKeeps
     DEF EvaluationNext, evaluationVars, EditDocs, EditItem, BuildIndex, BuildContext

(* The evaluation's inductive invariant: every result, of the run under    *)
(* way and of the stored ones, is what scoring its answer against the keys *)
(* stored with it and the ids of the run's index gives, whatever became of *)
(* the items since; a rescored run keeps an earlier run's answers          *)
(* (run_eval.py's main and rescore).                                       *)
THEOREM EvaluationInvariant == EvaluationSpec => []EvaluationInv
<1>1. EvaluationInit => EvaluationInv
  BY EmptySequence DEF EvaluationInit, EvaluationInv, EvalFits, RunsFit
<1> QED
  BY <1>1, EvaluationKeeps, PTL DEF EvaluationSpec

(* Whatever is edited and rebuilt while a run is under way, and however    *)
(* often a run is scored again, it names the prompt text all its answers   *)
(* were made from.                                                         *)
THEOREM ProvenanceHolds == EvaluationSpec => []ProvenanceIsTrue
<1>1. EvaluationInv => ProvenanceIsTrue
  <2> SUFFICES ASSUME EvaluationInv, NEW r \in DOMAIN runs, NEW i \in DOMAIN runs[r].items
               PROVE  runs[r].items[i].from = runs[r].context
    BY DEF ProvenanceIsTrue
  <2>1. runs[r].items[i] = Result(AskedItem(runs[r].items[i]), runs[r].items[i].answer,
                                  runs[r].context, runs[r].ids)
    BY DEF EvaluationInv, RunsFit, ScoredWith
  <2> QED
    BY <2>1, ResultFields
<1> QED
  BY <1>1, EvaluationInvariant, PTL

(* The verdict on an answer depends on the index only through the ids the  *)
(* answer mentions.                                                        *)
LEMMA VerdictNeedsMentioned ==
  ASSUME NEW item, NEW answer, NEW ids, NEW others, NEW context,
         \A c \in Mentioned(answer) : c \in ids <=> c \in others
  PROVE  Result(item, answer, context, ids).pass = Result(item, answer, context, others).pass
<1>1. CASE answer = NoAnswer
  BY <1>1 DEF Result
<1>2. CASE answer # NoAnswer
  <2>1. (answer.cited \cup answer.refs \subseteq ids)
          = (answer.cited \cup answer.refs \subseteq others)
    BY <1>2 DEF Mentioned
  <2>2. Passes(item, answer, ids) = Passes(item, answer, others)
    BY <2>1 DEF Passes
  <2> QED
    BY <2>2 DEF Result
<1> QED
  BY <1>1, <1>2

(* A verdict that rescoring changed is owed to the item, which was edited, *)
(* or to an id the answer mentions that the index gained or lost: with     *)
(* neither, run and rescored run agree (run_eval.py's rescore).            *)
THEOREM RescoringCompares == EvaluationSpec => []RescoringIsComparable
<1>1. EvaluationInv => RescoringIsComparable
  <2> SUFFICES ASSUME EvaluationInv, NEW r \in DOMAIN runs, runs[r].rescored # 0,
                      NEW i \in Changed(runs[r], runs[runs[r].rescored]),
                      runs[r].items[i].type = runs[runs[r].rescored].items[i].type,
                      runs[r].items[i].truth = runs[runs[r].rescored].items[i].truth,
                      \A c \in Mentioned(runs[r].items[i].answer) :
                        c \in runs[r].ids <=> c \in runs[runs[r].rescored].ids
               PROVE  FALSE
    BY DEF RescoringIsComparable
  <2> DEFINE run == runs[r]
             old == runs[runs[r].rescored]
             answer == run.items[i].answer
             item == AskedItem(run.items[i])
  <2>1. runs[r].rescored \in DOMAIN runs /\ KeepsAnswers(run, old)
    BY DEF EvaluationInv, RunsFit, IsSequence
  <2>2. i \in DOMAIN run.items /\ run.items[i].pass # old.items[i].pass
    BY DEF Changed
  <2>3. /\ run.items[i] = Result(AskedItem(run.items[i]), run.items[i].answer, run.context, run.ids)
        /\ old.items[i] = Result(AskedItem(old.items[i]), old.items[i].answer, old.context, old.ids)
    BY <2>1, <2>2 DEF EvaluationInv, RunsFit, ScoredWith, KeepsAnswers
  <2>4. run.items[i].answer = old.items[i].answer /\ run.context = old.context
    BY <2>1, <2>2 DEF KeepsAnswers
  <2>5. AskedItem(old.items[i]) = item
    BY DEF AskedItem
  <2>6. Result(item, answer, run.context, run.ids).pass
          = Result(item, answer, run.context, old.ids).pass
    BY VerdictNeedsMentioned
  <2> HIDE DEF run, old
  <2>7. run.items[i].pass = old.items[i].pass
    BY <2>3, <2>4, <2>5, <2>6
  <2> QED
    BY <2>2, <2>7
<1> QED
  BY <1>1, EvaluationInvariant, PTL

(* What the check of the keys accepts can be scored: with index and prompt *)
(* text of today's regulations, the answer that brings up an item's keys   *)
(* passes (check_eval_keys.py's rules imply score_item's).                 *)
THEOREM CheckedKeysCanBeScored == EvaluationSpec => []CheckedItemsCanPass
<1>1. CheckedItemsCanPass
  <2> SUFFICES ASSUME chunksFile = ChunkAll(docs), KeysPass
               PROVE  /\ Len(chunksFile) = Cardinality(ChunkIds)
                      /\ \A i \in DOMAIN items :
                           Passes(items[i], [cited |-> items[i].keys, refs |-> {},
                                             denies |-> items[i].keys = {}], ChunkIds)
    BY DEF CheckedItemsCanPass
  <2>1. Len(chunksFile) = Cardinality(ChunkIds)
    BY DEF KeysPass, DuplicateIds, ChunkIds
  <2>2. ASSUME NEW i \in DOMAIN items
        PROVE  Passes(items[i], [cited |-> items[i].keys, refs |-> {}, denies |-> items[i].keys = {}],
                      ChunkIds)
    <3> DEFINE item == items[i]
    <3>1. ~KeyError(item)
      BY DEF KeysPass
    <3>2. CASE item.type = "unanswerable"
      <4>1. item.keys = {}
        BY <3>1, <3>2 DEF KeyError
      <4> QED
        BY <3>2, <4>1 DEF Passes
    <3>3. CASE item.type # "unanswerable"
      <4>1. item.keys # {} /\ item.keys \subseteq ChunkIds
        BY <3>1, <3>3 DEF KeyError, ChunkIds
      <4> QED
        BY <3>3, <4>1 DEF Passes
    <3> QED
      BY <3>2, <3>3
  <2> QED
    BY <2>1, <2>2
<1> QED
  BY <1>1, PTL

(* The regulations are sequences of lines, however they are edited.        *)
RegulationsTyped == docs \in [ToSet(Files) -> Regulation]

LEMMA EditKeeps == ASSUME RegulationsTyped, EditDocs PROVE RegulationsTyped'
<1> DEFINE D == ToSet(Files)
<1>1. docs \in [D -> Regulation] /\ DOMAIN docs = D
  BY DEF RegulationsTyped
<1>2. ASSUME NEW f \in D, NEW new \in Seq(Line), docs' = [docs EXCEPT ![f].lines = new]
      PROVE  RegulationsTyped'
  <2>1. docs[f] \in Regulation
    BY <1>1
  <2>2. [docs[f] EXCEPT !.lines = new] \in Regulation
    BY <2>1 DEF Regulation
  <2>3. docs' = [docs EXCEPT ![f] = [docs[f] EXCEPT !.lines = new]]
    BY <1>1, <1>2
  <2> HIDE DEF D
  <2>4. docs' \in [D -> Regulation]
    BY <1>1, <2>2, <2>3
  <2> QED
    BY <2>4 DEF RegulationsTyped, D
<1>3. ASSUME NEW f \in D PROVE docs[f].lines \in Seq(Line) /\ Len(docs[f].lines) \in Nat
  <2>1. docs[f] \in Regulation
    BY <1>1
  <2>2. docs[f].lines \in Seq(Line)
    BY <2>1 DEF Regulation
  <2> QED
    BY <2>2
<1>4. ASSUME NEW f \in D, NEW m \in 0..Len(docs[f].lines), NEW n \in 0..Len(docs[f].lines)
      PROVE  /\ SubSeq(docs[f].lines, 1, m) \in Seq(Line)
             /\ SubSeq(docs[f].lines, n + 1, Len(docs[f].lines)) \in Seq(Line)
  <2>1. docs[f].lines \in Seq(Line)
    BY <1>3
  <2> QED
    BY <2>1, CutInTwo
<1>5. ASSUME NEW f \in D, NEW i \in 0..Len(docs[f].lines), NEW part \in NewParts,
             docs' = [docs EXCEPT ![f].lines = SubSeq(@, 1, i) \o part \o SubSeq(@, i + 1, Len(@))]
      PROVE  RegulationsTyped'
  <2> DEFINE l == docs[f].lines  new == SubSeq(l, 1, i) \o part \o SubSeq(l, i + 1, Len(l))
  <2>1. part \in Seq(Line)
    BY EvaluationAssumption
  <2>2. SubSeq(l, 1, i) \in Seq(Line) /\ SubSeq(l, i + 1, Len(l)) \in Seq(Line)
    BY <1>4
  <2>3. new \in Seq(Line)
    BY <2>1, <2>2
  <2>4. docs' = [docs EXCEPT ![f].lines = new]
    BY <1>5
  <2> HIDE DEF new
  <2> QED
    BY <1>2, <2>3, <2>4
<1>6. ASSUME NEW f \in D, NEW i \in DOMAIN docs[f].lines,
             docs' = [docs EXCEPT ![f].lines = RemoveAt(@, i)]
      PROVE  RegulationsTyped'
  <2> DEFINE l == docs[f].lines  m == i - 1  new == SubSeq(l, 1, m) \o SubSeq(l, i + 1, Len(l))
  <2>1. l \in Seq(Line) /\ DOMAIN l = 1..Len(l) /\ Len(l) \in Nat
    BY <1>3
  <2>2. m \in 0..Len(l) /\ i \in 0..Len(l)
    BY <2>1
  <2>3. SubSeq(l, 1, m) \in Seq(Line) /\ SubSeq(l, i + 1, Len(l)) \in Seq(Line)
    <3> HIDE DEF m
    <3> QED
      BY <1>4, <2>2
  <2>4. new \in Seq(Line)
    BY <2>3
  <2>5. docs' = [docs EXCEPT ![f].lines = new]
    BY <1>6 DEF RemoveAt
  <2> HIDE DEF new
  <2> QED
    BY <1>2, <2>4, <2>5
<1> QED
  BY <1>1, <1>5, <1>6 DEF EditDocs

LEMMA RegulationsStay == RegulationsTyped /\ [EvaluationNext]_evaluationVars => RegulationsTyped'
<1> SUFFICES ASSUME RegulationsTyped, [EvaluationNext]_evaluationVars PROVE RegulationsTyped'
  OBVIOUS
<1>1. CASE EditDocs
  BY <1>1, EditKeeps
<1>2. CASE UNCHANGED docs
  BY <1>2 DEF RegulationsTyped
<1>3. EditDocs \/ UNCHANGED docs
  BY DEF EvaluationNext, evaluationVars, EditItem, BuildIndex, BuildContext, StartEval, AskItem, Abort,
     Save, Rescore
<1> QED
  BY <1>1, <1>2, <1>3

(* However the regulations are edited, cutting them loses no line that     *)
(* says anything and doubles none, the chunks are numbered from 1 without  *)
(* a gap, and none is longer than the limit by more than one line end      *)
(* unless it is a single clause (regulations.py's chunk_document).         *)
THEOREM CutsHold == EvaluationSpec => []CutsAreWhole
<1>1. EvaluationInit => RegulationsTyped
  BY EvaluationAssumption DEF EvaluationInit, RegulationsTyped
<1>2. RegulationsTyped => CutsAreWhole
  <2> SUFFICES ASSUME RegulationsTyped, NEW f \in DOMAIN docs PROVE CutWhole(docs[f])
    BY DEF CutsAreWhole
  <2>1. docs[f] \in Regulation
    BY DEF RegulationsTyped
  <2> QED
    BY <2>1, CutWholeHolds
<1> QED
  BY <1>1, <1>2, RegulationsStay, PTL DEF EvaluationSpec
=============================================================================

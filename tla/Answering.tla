------------------------------ MODULE Answering ------------------------------
(***************************************************************************)
(* One question to the chatbot: the model's answer arrives in pieces cut   *)
(* anywhere, the header naming the regulations it rests on is held back    *)
(* until it can be checked, an answer that names a regulation that does    *)
(* not exist is asked for once more, and a rate-limited call is repeated.  *)
(*                                                                         *)
(* A text is a sequence of tokens: the words "basis" and "ref" that start  *)
(* the two lists of the header, chunk ids, line ends, the two halves of    *)
(* the separator, and words.  Commas, the slash and blanks are left out.   *)
(***************************************************************************)
EXTENDS Loops, Naturals, Sequences, SequencesExt

CONSTANTS
  Ids,         \* chunk ids the model may name
  Known,       \* chunk ids of the regulations (regs.chunk_ids)
  Texts,       \* texts the model may answer
  MaxPiece,    \* bound: tokens in a piece
  Retries,     \* repetitions of a rate-limited call (retry_max_attempts)
  MaxAttempts  \* answers asked for at most (1 + guard_regenerate_attempts, or 1)

ASSUME AnsweringAssumption ==
  /\ Known \subseteq Ids /\ Texts \subseteq Seq(STRING)
  /\ Retries \in Nat /\ {MaxPiece, MaxAttempts} \subseteq Nat \ {0}

VARIABLES
  phase,       \* idle, buffering, streaming, or over: the text ended in the buffer
  attempt,     \* which answer this is
  tries,       \* repetitions of the current call
  text, pos,   \* what the model answers, and how much of it has arrived
  client       \* what the client has been sent

answeringVars == <<phase, attempt, tries, text, pos, client>>

NoMeta == [cited |-> {}, warned |-> FALSE, sent |-> FALSE]
Silent == [meta |-> NoMeta, body |-> <<>>, end |-> "none"]

-----------------------------------------------------------------------------
(* prompt.py: reading an answer.                                           *)

Separator == <<"--", "-">>

(* The place of the first token other than a line end, and of the last one;
   0 when there is none. *)
FirstWord(t) == SelectInSeq(t, LAMBDA k : k # "nl")
LastWord(t)  == SelectLastInSeq(t, LAMBDA k : k # "nl")

LStrip(t) == IF FirstWord(t) = 0 THEN <<>> ELSE SubSeq(t, FirstWord(t), Len(t))
Strip(t)  == SubSeq(LStrip(t), 1, LastWord(LStrip(t)))

LineEnd(t)    == SelectInSeq(t, LAMBDA k : k = "nl")
FirstLine(t)  == IF LineEnd(t) = 0 THEN t ELSE SubSeq(t, 1, LineEnd(t) - 1)
OtherLines(t) == IF LineEnd(t) = 0 THEN <<>> ELSE SubSeq(t, LineEnd(t) + 1, Len(t))

(* header_complete: whatever the first line that is not blank after the first
   one is, the separator or the body, there is nothing more to wait for. *)
HeaderComplete(t) == FirstWord(OtherLines(LStrip(t))) # 0

(* The separator goes only when it is a line of its own. *)
WithoutSeparator(t) == IF FirstLine(t) = Separator THEN OtherLines(t) ELSE t

(* split_answer: both lists of the header, and the body. *)
SplitAnswer(t) ==
  LET head == FirstLine(LStrip(t))
  IN IF head = <<>> \/ head[1] # "basis"
     THEN [cited |-> {}, body |-> Strip(t)]
     ELSE [cited |-> ToSet(head) \cap Ids,
           body  |-> Strip(WithoutSeparator(LStrip(OtherLines(LStrip(t)))))]

(* Variant: only the basis is checked, not the references. *)
Unknown_BasisOnly(t) ==
  LET head == FirstLine(LStrip(t))
      ref  == SelectInSeq(head, LAMBDA k : k = "ref")
  IN SplitAnswer(IF ref = 0 THEN t ELSE SubSeq(head, 1, ref - 1)).cited \ Known

Unknown(t) == SplitAnswer(t).cited \ Known

-----------------------------------------------------------------------------
AnsweringInit ==
  /\ phase = "idle" /\ attempt = 0 /\ tries = 0 /\ text = <<>> /\ pos = 0
  /\ client = Silent

(* A call to the model: it may answer anything. *)
CallModel == text' \in Texts /\ pos' = 0

(* The question is turned away before the stream starts, or asked. *)
Refuse(status) ==
  /\ phase = "idle" /\ client = Silent
  /\ client' = [client EXCEPT !.end = status]
  /\ UNCHANGED <<phase, attempt, tries, text, pos>>

Ask ==
  /\ phase = "idle" /\ client = Silent
  /\ phase' = "buffering" /\ attempt' = 1 /\ tries' = 0 /\ CallModel
  /\ UNCHANGED client

Arrived == SubSeq(text, 1, pos)

(* What has been held back is checked: the answer is dropped unseen and
   another one asked for, or it is announced, with a warning when it names
   something unknown, and what came with the header is passed on. *)
Judge(buffered, next) ==
  IF Unknown(buffered) # {} /\ attempt < MaxAttempts
  THEN /\ attempt' = attempt + 1 /\ tries' = 0 /\ CallModel
       /\ UNCHANGED <<phase, client>>
  ELSE /\ phase' = next
       /\ client' = [client EXCEPT
            !.meta = [cited  |-> SplitAnswer(buffered).cited,
                      warned |-> Unknown(buffered) # {}, sent |-> TRUE],
            !.body = SplitAnswer(buffered).body]
       /\ pos' = Len(buffered)
       /\ UNCHANGED <<attempt, tries, text>>

Piece ==
  /\ phase # "idle" /\ pos < Len(text)
  /\ \E n \in 1..MaxPiece :
       /\ pos + n <= Len(text)
       /\ LET now == SubSeq(text, 1, pos + n)
          IN CASE phase = "streaming" ->
                    /\ client' = [client EXCEPT !.body = @ \o SubSeq(text, pos + 1, pos + n)]
                    /\ pos' = pos + n
                    /\ UNCHANGED <<phase, attempt, tries, text>>
               [] phase = "buffering" /\ HeaderComplete(now) -> Judge(now, "streaming")
               [] OTHER -> pos' = pos + n /\ UNCHANGED <<phase, attempt, tries, text, client>>

End(how) ==
  /\ client' = [client EXCEPT !.end = how]
  /\ phase' = "idle"
  /\ UNCHANGED <<attempt, tries, text, pos>>

(* The model's text is over: an answer that never got past its header is
   judged as it is. *)
EndOfText ==
  /\ phase # "idle" /\ pos = Len(text)
  /\ IF phase = "buffering" THEN Judge(text, "over") ELSE End("done")

(* Variant: the pieces that have arrived are not considered. *)
Repeatable_AlsoAfterPieces == tries < Retries

(* A rate-limited call may be repeated as long as nothing of it arrived. *)
Repeatable == pos = 0 /\ tries < Retries

(* The call to the model is under way. *)
Calling == phase \in {"buffering", "streaming"}

RateLimited ==
  /\ Calling
  /\ IF Repeatable
     THEN tries' = tries + 1 /\ CallModel /\ UNCHANGED <<phase, attempt, client>>
     ELSE End("error")

(* The model refuses or fails: an error event.  A connection that breaks or
   times out is none of the errors the provider knows: the stream just ends. *)
ModelFails  == Calling /\ End("error")
Disconnects == Calling /\ End("cut")

(* The client has read its answer; the next question starts afresh. *)
NextQuestion ==
  /\ phase = "idle" /\ client # Silent
  /\ client' = Silent /\ attempt' = 0 /\ tries' = 0 /\ text' = <<>> /\ pos' = 0
  /\ UNCHANGED phase

AnsweringStep == Piece \/ EndOfText \/ RateLimited \/ ModelFails \/ Disconnects \/ NextQuestion

-----------------------------------------------------------------------------
AnsweringTypeOK ==
  /\ phase \in {"idle", "buffering", "streaming", "over"}
  /\ attempt \in 0..MaxAttempts /\ tries \in 0..Retries
  /\ text \in Texts \cup {<<>>} /\ pos \in 0..Len(text)
  /\ client.meta \in [cited : SUBSET Ids, warned : BOOLEAN, sent : BOOLEAN]
  /\ client.end \in {"none", "done", "error", "cut", "413", "503"}

(* A text without its line ends and separators. *)
Words(t) == Without(t, {"nl", "--", "-"})

(* The citations a client is shown are those of the whole text, though they
   are announced when it has only begun to arrive. *)
CitedAsInTheText == client.meta.sent => client.meta.cited = SplitAnswer(text).cited

(* Everything a client is shown of an answer comes from one call to the
   model, however often the provider or the guard called it again: the
   citations are those of that text, no word of its body is lost, repeated
   or moved, wherever the pieces were cut, and a finished answer is whole.
   Line ends and blanks around the separator are not claimed: prompt.py:96
   strips them from a text and not from the pieces of one. *)
ShownIsOneAnswer ==
  LET whole == SplitAnswer(text)
  IN /\ CitedAsInTheText
     /\ client.meta.sent => IsPrefix(Words(client.body), Words(whole.body))
     /\ client.end = "done" => client.meta.sent /\ Words(client.body) = Words(whole.body)
     /\ ~client.meta.sent => client.body = <<>>

(* A citation that exists in no regulation reaches the client only with a
   warning and after every attempt to get a better answer; an error before
   that shows nothing of it. *)
GhostIsFlagged ==
  client.meta.cited \ Known # {} => client.meta.warned /\ attempt = MaxAttempts
=============================================================================

------------------------------ MODULE MCChatbot ------------------------------
(* One instance and one question after the other.  k1 is a chunk of the     *)
(* regulations, g1 is none.                                                 *)
EXTENDS Chatbot

(* As asked for; naming a ghost as a reference only; with blank lines;
   without a header; and nothing at all. *)
MCTexts == { <<"basis", "k1", "nl", "--", "-", "nl", "w1", "w2">>,
             <<"basis", "k1", "ref", "g1", "nl", "--", "-", "nl", "w1">>,
             <<"nl", "basis", "g1", "nl", "nl", "w1", "nl", "w2">>,
             <<"w1", "nl", "w2">>,
             <<>> }
=============================================================================

------------------------------- MODULE Repair -------------------------------
(***************************************************************************)
(* How the agent mends the tool calls of a conversation before each call   *)
(* of the language model (_repair_conversation and the helpers of the loop *)
(* in src/src/agent/agent.py), and what the model's API accepts.           *)
(*                                                                         *)
(* A message is abstracted to its name, its role, the tool calls it makes, *)
(* the tool calls it answers and whether it holds anything else.           *)
(***************************************************************************)
EXTENDS Naturals, Sequences, FiniteSets, SequencesExt

CONSTANT Inserted     \* the name of a message that stands in no store

Message(name, role, uses, results, text) ==
  [name |-> name, role |-> role, uses |-> uses, results |-> results, text |-> text]

IsResult(m) == m.role = "user" /\ m.results # {}
IsEmpty(m) == m.uses = {} /\ m.results = {} /\ ~m.text

(* Assistant messages with no content blocks are dropped. *)
DropEmpty(c) ==
  FlattenSeq([i \in DOMAIN c |->
    IF c[i].role = "assistant" /\ IsEmpty(c[i]) THEN << >> ELSE <<c[i]>>])

(* The calls of message i that the message after it does not answer. *)
Missing(c, i) ==
  IF c[i].role # "assistant" THEN {}
  ELSE c[i].uses \ (IF i < Len(c) /\ c[i + 1].role = "user" THEN c[i + 1].results ELSE {})

(* The missing answers go into the results that follow the calls, if       *)
(* there are any, and into a message of their own otherwise.               *)
Patched(c, i) ==
  IF i > 1 /\ IsResult(c[i]) THEN [c[i] EXCEPT !.results = @ \cup Missing(c, i - 1)] ELSE c[i]

(* Mutant: only a call that ends the conversation is answered. *)
NeedsMessageAtEnd(c, i) == Missing(c, i) # {} /\ i = Len(c)

NeedsMessage(c, i) == Missing(c, i) # {} /\ ~(i < Len(c) /\ IsResult(c[i + 1]))

AnswerAll(c) ==
  FlattenSeq([i \in DOMAIN c |->
    IF NeedsMessage(c, i)
    THEN <<Patched(c, i), Message(Inserted, "user", {}, Missing(c, i), FALSE)>>
    ELSE <<Patched(c, i)>>])

(* The second pass: a result whose call is nowhere becomes a text. *)
AllUses(c) == UNION {c[i].uses : i \in {j \in DOMAIN c : c[j].role = "assistant"}}

(* Mutant: no second pass. *)
NeutraliseNothing(c) == c

Neutralise(c) ==
  [i \in DOMAIN c |->
    IF IsResult(c[i]) /\ ~(c[i].results \subseteq AllUses(c))
    THEN [c[i] EXCEPT !.results = @ \cap AllUses(c), !.text = TRUE]
    ELSE c[i]]

Repair(c) == Neutralise(AnswerAll(DropEmpty(c)))

-----------------------------------------------------------------------------
(* What the API rejects is named in the comments of the code: a tool call  *)
(* without a result in the next message, a result without its call in the  *)
(* message before, and a message with no content.                          *)

EveryUseAnswered(c) ==
  \A i \in DOMAIN c : c[i].uses # {} => i < Len(c) /\ c[i].uses \subseteq c[i + 1].results

EveryResultCalledFor(c) ==
  \A i \in DOMAIN c : c[i].results # {} => i > 1 /\ c[i].results \subseteq c[i - 1].uses

NothingEmpty(c) == \A i \in DOMAIN c : ~IsEmpty(c[i])

Acceptable(c) == EveryUseAnswered(c) /\ EveryResultCalledFor(c) /\ NothingEmpty(c)

=============================================================================

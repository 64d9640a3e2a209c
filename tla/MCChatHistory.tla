--------------------------- MODULE MCChatHistory ----------------------------
(***************************************************************************)
(* An instance of ChatHistory for TLC: two turns, each from the web or     *)
(* from Signal, on a session whose history ends in an answer or in a tool  *)
(* call that was cut off, or was compacted before.                         *)
(***************************************************************************)
EXTENDS ChatHistory

CONSTANTS Old, a, b

Fresh(rows) == [rows |-> rows, upTo |-> 0, sums |-> {}]

Answered == <<User(Old), Use(Old, 1), Result(Old, 1), Reply(Old)>>
CutOff == <<User(Old), Reply(Old), Use(Old, 1)>>
Compacted ==
  [rows |-> Answered, upTo |-> 1, sums |-> {[upTo |-> 1, covers |-> {User(Old)}]}]

Histories == {Fresh(Answered), Fresh(CutOff), Compacted}
SomeWeb == {{a}, {a, b}, {}}

=============================================================================

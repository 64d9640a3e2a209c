---------------------------- MODULE MCSessionTurns ----------------------------
(* Instances of SessionTurns for TLC: where the messages come from.          *)
EXTENDS SessionTurns, TLC

CONSTANTS t1, t2, t3

All(s) == [t \in Turns |-> s]

(* Three web requests, or three Signal messages, or two Discord messages.    *)
Separate == {All("web"), All("signal"), [All("discord") EXCEPT ![t3] = "none"]}

(* A third Discord message.                                                  *)
ThreeDiscord == {All("discord")}

TurnSymmetry == Permutations(Turns)
=============================================================================

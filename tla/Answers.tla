------------------------------- MODULE Answers -------------------------------
(***************************************************************************)
(* What the bridge between a script and the tools promises, without pipes, *)
(* lines or processes: a call asks once, and a call that returns takes one *)
(* answer to a request somebody made, an answer nobody has taken before.   *)
(* While a script awaits each call before the next, that answer can only   *)
(* be its own (Own); with several calls in flight the promise stops there. *)
(***************************************************************************)
CONSTANTS Calls, None

VARIABLES
    asked,          \* the calls whose request was written
    got             \* for each call the call whose answer it took, or None

answersVars == <<asked, got>>

Taken == {got[c] : c \in Calls} \ {None}

Init == asked = {} /\ got = [c \in Calls |-> None]

Ask(c) ==
    /\ c \notin asked
    /\ asked' = asked \cup {c}
    /\ UNCHANGED got

Take(c) ==
    /\ c \in asked /\ got[c] = None
    /\ \E r \in asked \ Taken : got' = [got EXCEPT ![c] = r]
    /\ UNCHANGED asked

Next == \E c \in Calls : Ask(c) \/ Take(c)

Spec == Init /\ [][Next]_answersVars

\* Every call that returned has the answer to its own request.
Own == \A c \in Calls : got[c] \in {c, None}
=============================================================================

------------------------------ MODULE Chronicle ------------------------------
(***************************************************************************)
(* What the store of the chats promises of one session, without turns that *)
(* overlap, transactions, pages or restarts: rows are only added, one at a *)
(* time and at the end; what a turn has to say is added once and in its    *)
(* order, whatever of it is missing; and a summary is made of exactly the  *)
(* rows up to the new checkpoint, which is further than the last.          *)
(***************************************************************************)
EXTENDS Naturals, Sequences

CONSTANTS
  Sayings,   \* [turn, place, row]: what a turn may say, by its place in the turn
  Pasts      \* what may be in the store at the start

VARIABLES rows, upTo, sums

chronicleVars == <<rows, upTo, sums>>

In(r) == \E i \in DOMAIN rows : rows[i] = r
FirstRows(n) == {rows[i] : i \in 1..n}

Init == \E p \in Pasts : rows = p.rows /\ upTo = p.upTo /\ sums = p.sums

Say ==
  \E s \in Sayings :
    /\ \A p \in Sayings : p.turn = s.turn /\ p.place >= s.place => ~In(p.row)
    /\ rows' = Append(rows, s.row)
    /\ UNCHANGED <<upTo, sums>>

Summarize ==
  \E n \in (upTo + 1)..Len(rows) :
    /\ upTo' = n
    /\ sums' = sums \cup {[upTo |-> n, covers |-> FirstRows(n)]}
    /\ UNCHANGED rows

Next == Say \/ Summarize

Spec == Init /\ [][Next]_chronicleVars
=============================================================================

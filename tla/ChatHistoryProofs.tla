------------------------- MODULE ChatHistoryProofs --------------------------
(***************************************************************************)
(* Proofs about ChatHistory for any turns, histories, page size and        *)
(* bounds.                                                                 *)
(*                                                                         *)
(* First: a summary stands for exactly the rows up to its checkpoint, a    *)
(* committed checkpoint has its summary and never moves back.              *)
(* NothingForgotten is not inductive: the set a summary covers is taken    *)
(* from what a turn loaded, page by page, while other turns wrote.  The    *)
(* invariant says that the messages a turn has loaded are the committed    *)
(* rows with consecutive ids, except the last one, which may have been     *)
(* read from a transaction still open; and _maybe_compact keeps the last.  *)
(*                                                                         *)
(* Then the repair of a conversation (Repair): each pass, and the whole,   *)
(* answers every call, empties nothing and keeps what was there (Mends).   *)
(* With the types this gives that every call is answered (TypedInv).  That *)
(* every result follows its call needs that a call is made once and        *)
(* answered next if anywhere, of the store and of each conversation, while *)
(* turns do not overlap (SerialInv).                                       *)
(*                                                                         *)
(* Last: nothing a session has is left out of what is sent.  ContextInv    *)
(* says at each step of a turn which rows its conversation stands for and  *)
(* which of its own it has committed, while no turns overlap and no write  *)
(* fails.                                                                  *)
(***************************************************************************)
EXTENDS ChatHistory, TLAPS, SequenceTheorems, FiniteSetTheorems, WellFoundedInduction

(* What may be in chat_messages. *)
Rows == (UNION {Range(p.rows) : p \in Pasts})
        \cup {User(t) : t \in Turns} \cup {Reply(t) : t \in Turns}
        \cup {Use(t, r) : t \in Turns, r \in Nat} \cup {Result(t, r) : t \in Turns, r \in Nat}

Session == [rows : Seq(Rows), upTo : Nat, sums : SUBSET [upTo : Nat, covers : SUBSET Rows]]

(* The committed rows are a prefix of those the connection shows, which    *)
(* are at most one more.                                                   *)
Extends(r, q) == Len(r) <= Len(q) /\ \A i \in 1..Len(r) : q[i] = r[i]

StoreOK ==
  /\ db \in Session /\ disk \in Session
  /\ Extends(disk.rows, db.rows) /\ Len(db.rows) <= Len(disk.rows) + 1
  /\ db.upTo <= Len(disk.rows) /\ disk.upTo <= db.upTo
  /\ \A s \in db.sums : s.upTo \in 1..Len(disk.rows) /\ s.covers = RowsUpTo(disk, s.upTo)
  /\ disk.sums \subseteq db.sums
  /\ CheckpointHasSummary
  /\ writer = None => db = disk

WriterOK ==
  /\ writer \in Turns \cup {None, Abandoned}
  /\ \A t \in Turns :
       /\ writer = t => pc[t] \in Saving \cup {"summary", "commit"}
       /\ writer = t /\ pc[t] \in Saving => db.upTo = disk.upTo
       /\ pc[t] \in {"summary", "commit"} => writer = t
       /\ pc[t] = "summary" => db.upTo = LastId(t)
       /\ pc[t] = "commit" => \E s \in db.sums : s.upTo = db.upTo

(* Conversation c with ids s: after a summary (h = 1) or none (h = 0),     *)
(* which stands for rows 1..b, come rows b+1, b+2 and so on ...            *)
Loaded(r, c, s, k, b, h) ==
  /\ c \in Seq(Rows \cup {SummaryMessage}) /\ s \in Seq(Int) /\ Len(s) = Len(c)
  /\ h \in {0, 1} /\ b \in 0..Len(r) /\ k = {r[i] : i \in 1..b}
  /\ \A j \in 1..Len(s) : s[j] = IF j <= h THEN -1 ELSE b + j - h

(* ... as they are committed, up to message n.                             *)
Settled(r, c, b, h, n) ==
  \A j \in 1..n : j > h => b + j - h <= Len(r) /\ c[j] = r[b + j - h]

Empty(t) == conv[t] = << >> /\ ids[t] = << >> /\ known[t] = {}

HasLoaded == {"saveUser", "compact", "summarize", "checkpoint", "summary", "commit"}

TurnOK(t) ==
  /\ \/ pc[t] \in {"new", "readCheckpoint", "readSummary"}
     \/ pc[t] = "saveUser" /\ t \notin Web
     => Empty(t)
  /\ pc[t] = "readPage" => \E b \in Nat, h \in {0, 1} :
       /\ Loaded(disk.rows, conv[t], ids[t], known[t], b, h)
       /\ Settled(disk.rows, conv[t], b, h, Len(conv[t]))
       /\ h <= Len(conv[t]) /\ seen[t] = b + Len(conv[t]) - h
  /\ pc[t] \in HasLoaded => \E b \in Nat, h \in {0, 1} :
       /\ Loaded(disk.rows, conv[t], ids[t], known[t], b, h)
       /\ Settled(disk.rows, conv[t], b, h, Len(conv[t]) - 1)
  /\ pc[t] \in {"summarize", "checkpoint", "summary", "commit"} =>
       split[t] \in 1..(Len(conv[t]) - 1)
  /\ pc[t] \in {"checkpoint", "summary", "commit"} => LastId(t) >= 0

Shape ==
  /\ pc \in [Turns -> Running \cup {"new", "done"}]
  /\ DOMAIN conv = Turns /\ DOMAIN ids = Turns /\ DOMAIN known = Turns
  /\ DOMAIN seen = Turns /\ DOMAIN split = Turns
  /\ rounds \in [Turns -> Nat]

IInv == Shape /\ StoreOK /\ WriterOK /\ \A t \in Turns : TurnOK(t)

-----------------------------------------------------------------------------
(* Lemmas about what is loaded. *)

(* What was loaded stays so when rows are added. *)
LEMMA LoadedStays ==
  ASSUME NEW r \in Seq(Rows), NEW q \in Seq(Rows), Extends(r, q),
         NEW c, NEW s, NEW k, NEW b \in Nat, NEW h \in {0, 1}, NEW n \in Int
  PROVE  /\ Loaded(r, c, s, k, b, h) => Loaded(q, c, s, k, b, h)
         /\ Settled(r, c, b, h, n) => Settled(q, c, b, h, n)
<1>1. Len(r) \in Nat /\ Len(q) \in Nat OBVIOUS
<1>2. ASSUME b \in 0..Len(r) PROVE {r[i] : i \in 1..b} = {q[i] : i \in 1..b}
  BY <1>1, <1>2 DEF Extends
<1>3. Loaded(r, c, s, k, b, h) => Loaded(q, c, s, k, b, h)
  <2> SUFFICES ASSUME Loaded(r, c, s, k, b, h) PROVE Loaded(q, c, s, k, b, h) OBVIOUS
  <2>1. b \in 0..Len(r) /\ b \in 0..Len(q) BY <1>1 DEF Loaded, Extends
  <2>2. k = {q[i] : i \in 1..b} BY <1>2, <2>1 DEF Loaded
  <2> QED BY <2>1, <2>2 DEF Loaded
<1>4. Settled(r, c, b, h, n) => Settled(q, c, b, h, n)
  <2> SUFFICES ASSUME Settled(r, c, b, h, n), NEW j \in 1..n, j > h
               PROVE  b + j - h <= Len(q) /\ c[j] = q[b + j - h]
    BY DEF Settled
  <2>1. b + j - h <= Len(r) /\ c[j] = r[b + j - h] BY DEF Settled
  <2>2. b + j - h \in 1..Len(r) BY <1>1, <2>1
  <2> QED BY <1>1, <2>1, <2>2 DEF Extends
<1> QED BY <1>3, <1>4

(* What is summarized of a loaded conversation, the last message excluded, *)
(* is the rows up to the id of the last message summarized.                *)
LEMMA CoveredIsPrefix ==
  ASSUME IInv, NEW t \in Turns, pc[t] \in {"checkpoint", "summary", "commit"}
  PROVE  /\ LastId(t) \in 1..Len(disk.rows)
         /\ Covered(t) = RowsUpTo(disk, LastId(t))
<1>1. PICK b \in Nat, h \in {0, 1} :
        /\ Loaded(disk.rows, conv[t], ids[t], known[t], b, h)
        /\ Settled(disk.rows, conv[t], b, h, Len(conv[t]) - 1)
  BY DEF IInv, TurnOK, HasLoaded
<1>2. split[t] \in 1..(Len(conv[t]) - 1) /\ LastId(t) >= 0 BY DEF IInv, TurnOK
<1>3. Len(conv[t]) \in Nat /\ Len(ids[t]) = Len(conv[t]) /\ Len(disk.rows) \in Nat
  BY <1>1 DEF Loaded, IInv, StoreOK, Session
<1>4. \A j \in 1..split[t] : ids[t][j] = IF j <= h THEN -1 ELSE b + j - h
  <2>1. \A j \in 1..Len(ids[t]) : ids[t][j] = IF j <= h THEN -1 ELSE b + j - h
    BY <1>1 DEF Loaded
  <2>2. 1..split[t] \subseteq 1..Len(ids[t]) BY <1>2, <1>3
  <2> QED BY <2>1, <2>2
<1>5. LastId(t) = b + split[t] - h /\ split[t] > h
  BY <1>2, <1>4 DEF LastId
<1>6. \A j \in 1..split[t] : j > h => b + j - h <= Len(disk.rows) /\ conv[t][j] = disk.rows[b + j - h]
  BY <1>1, <1>2, <1>3 DEF Settled
<1>7. LastId(t) \in 1..Len(disk.rows)
  <2>1. split[t] \in Int /\ split[t] \in 1..split[t] BY <1>2, <1>3
  <2>2. b + split[t] - h <= Len(disk.rows) BY <2>1, <1>5, <1>6
  <2>3. b + split[t] - h \in Int /\ b + split[t] - h >= 1 BY <2>1, <1>5
  <2> QED BY <2>2, <2>3, <1>3, <1>5
<1>8. known[t] = {disk.rows[i] : i \in 1..b} BY <1>1 DEF Loaded
<1>9. Covered(t) \subseteq RowsUpTo(disk, LastId(t))
  <2> SUFFICES ASSUME NEW m \in Covered(t) PROVE m \in RowsUpTo(disk, LastId(t)) OBVIOUS
  <2>1. CASE m \in known[t] BY <2>1, <1>8, <1>5, <1>2 DEF RowsUpTo
  <2>2. CASE m \notin known[t]
    <3>1. PICK j \in 1..split[t] : ids[t][j] # -1 /\ m = conv[t][j] BY <2>2 DEF Covered
    <3>2. j > h BY <3>1, <1>4
    <3>3. m = disk.rows[b + j - h] BY <3>1, <3>2, <1>6
    <3>4. b + j - h \in 1..LastId(t) BY <3>1, <3>2, <1>2, <1>5
    <3> QED BY <3>3, <3>4 DEF RowsUpTo
  <2> QED BY <2>1, <2>2
<1>10. RowsUpTo(disk, LastId(t)) \subseteq Covered(t)
  <2> SUFFICES ASSUME NEW i \in 1..LastId(t) PROVE disk.rows[i] \in Covered(t) BY DEF RowsUpTo
  <2>1. CASE i <= b BY <2>1, <1>8 DEF Covered
  <2>2. CASE i > b
    <3> DEFINE j == i - b + h
    <3>1. j \in 1..split[t] /\ j > h /\ b + j - h = i BY <2>2, <1>2, <1>5
    <3>2. ids[t][j] # -1 BY <3>1, <1>4
    <3>3. conv[t][j] = disk.rows[i] BY <3>1, <1>6
    <3> QED BY <3>1, <3>2, <3>3 DEF Covered
  <2> QED BY <2>1, <2>2, <1>7
<1> QED BY <1>7, <1>9, <1>10

-----------------------------------------------------------------------------
(* Lemmas about steps: a step is one turn's, and leaves the others alone.  *)

Others(t) ==
  \A u \in Turns \ {t} :
    /\ pc'[u] = pc[u] /\ conv'[u] = conv[u] /\ ids'[u] = ids[u] /\ known'[u] = known[u]
    /\ seen'[u] = seen[u] /\ split'[u] = split[u]

(* Where nothing is said of what a turn holds. *)
Free == {"call", "tools", "saveUse", "saveResult", "saveReply", "saveCut", "done"}

LEMMA FreeTurn ==
  ASSUME NEW t \in Turns, pc'[t] \in Free
  PROVE  TurnOK(t)' /\ pc'[t] \notin {"summary", "commit"}
BY DEF Free, TurnOK, HasLoaded

(* A turn that stays as it is stays sound while committed rows are added. *)
LEMMA TurnStays ==
  ASSUME IInv, NEW u \in Turns, Web' = Web, disk' \in Session, Extends(disk.rows, disk'.rows),
         conv'[u] = conv[u], ids'[u] = ids[u], known'[u] = known[u],
         seen'[u] = seen[u], split'[u] = split[u], pc'[u] = pc[u]
  PROVE  TurnOK(u)'
<1>1. disk.rows \in Seq(Rows) /\ disk'.rows \in Seq(Rows) BY DEF IInv, StoreOK, Session
<1>2. TurnOK(u) BY DEF IInv
<1>3. pc'[u] = "readPage" => \E b \in Nat, h \in {0, 1} :
        /\ Loaded(disk'.rows, conv'[u], ids'[u], known'[u], b, h)
        /\ Settled(disk'.rows, conv'[u], b, h, Len(conv'[u]))
        /\ h <= Len(conv'[u]) /\ seen'[u] = b + Len(conv'[u]) - h
  <2> SUFFICES ASSUME pc[u] = "readPage"
               PROVE  \E b \in Nat, h \in {0, 1} :
        /\ Loaded(disk'.rows, conv[u], ids[u], known[u], b, h)
        /\ Settled(disk'.rows, conv[u], b, h, Len(conv[u]))
        /\ h <= Len(conv[u]) /\ seen[u] = b + Len(conv[u]) - h
    OBVIOUS
  <2>1. PICK b \in Nat, h \in {0, 1} :
        /\ Loaded(disk.rows, conv[u], ids[u], known[u], b, h)
        /\ Settled(disk.rows, conv[u], b, h, Len(conv[u]))
        /\ h <= Len(conv[u]) /\ seen[u] = b + Len(conv[u]) - h
    BY <1>2 DEF TurnOK
  <2>2. Len(conv[u]) \in Int BY <2>1 DEF Loaded
  <2>3. Loaded(disk'.rows, conv[u], ids[u], known[u], b, h)
        /\ Settled(disk'.rows, conv[u], b, h, Len(conv[u]))
    BY <1>1, <2>1, <2>2, LoadedStays
  <2> QED BY <2>1, <2>3
<1>4. pc'[u] \in HasLoaded => \E b \in Nat, h \in {0, 1} :
        /\ Loaded(disk'.rows, conv'[u], ids'[u], known'[u], b, h)
        /\ Settled(disk'.rows, conv'[u], b, h, Len(conv'[u]) - 1)
  <2> SUFFICES ASSUME pc[u] \in HasLoaded
               PROVE  \E b \in Nat, h \in {0, 1} :
        /\ Loaded(disk'.rows, conv[u], ids[u], known[u], b, h)
        /\ Settled(disk'.rows, conv[u], b, h, Len(conv[u]) - 1)
    OBVIOUS
  <2>1. PICK b \in Nat, h \in {0, 1} :
        /\ Loaded(disk.rows, conv[u], ids[u], known[u], b, h)
        /\ Settled(disk.rows, conv[u], b, h, Len(conv[u]) - 1)
    BY <1>2 DEF TurnOK
  <2>2. Len(conv[u]) - 1 \in Int BY <2>1 DEF Loaded
  <2>3. Loaded(disk'.rows, conv[u], ids[u], known[u], b, h)
        /\ Settled(disk'.rows, conv[u], b, h, Len(conv[u]) - 1)
    BY <1>1, <2>1, <2>2, LoadedStays
  <2> QED BY <2>3
<1>5. LastId(u)' = LastId(u) BY DEF LastId
<1>6. Empty(u)' = Empty(u) BY DEF Empty
<1> QED BY <1>2, <1>3, <1>4, <1>5, <1>6 DEF TurnOK

LEMMA OthersStay ==
  ASSUME IInv, NEW t \in Turns, Others(t), Web' = Web,
         disk' \in Session, Extends(disk.rows, disk'.rows)
  PROVE  \A u \in Turns \ {t} : TurnOK(u)'
BY TurnStays DEF Others

LEMMA ExtendsItself == ASSUME IInv, disk' = disk PROVE disk' \in Session /\ Extends(disk.rows, disk'.rows)
BY DEF IInv, StoreOK, Session, Extends

(* When a turn ends or starts to talk to the model. *)
LEMMA LeaveShape ==
  ASSUME Shape, NEW t \in Turns, Leave(t)
  PROVE  Shape' /\ Others(t) /\ pc'[t] = "done" /\ rounds' \in [Turns -> Nat]
BY DEF Shape, Others, Leave, Goto

LEMMA FirstCallShape ==
  ASSUME Shape, NEW t \in Turns, NEW c, FirstCall(t, c), rounds' = rounds,
         DOMAIN known' = Turns, \A u \in Turns \ {t} : known'[u] = known[u]
  PROVE  Shape' /\ Others(t) /\ pc'[t] = "call"
<1>1. /\ pc' = [pc EXCEPT ![t] = "call"]
      /\ DOMAIN conv' = Turns /\ DOMAIN ids' = Turns /\ DOMAIN seen' = Turns /\ DOMAIN split' = Turns
      /\ \A u \in Turns \ {t} : conv'[u] = conv[u] /\ ids'[u] = ids[u]
                                /\ seen'[u] = seen[u] /\ split'[u] = split[u]
  BY DEF FirstCall, Goto, Shape
<1>2. pc' \in [Turns -> Running \cup {"new", "done"}] BY <1>1 DEF Shape, Running
<1> QED BY <1>1, <1>2 DEF Shape, Others

LEMMA FinishShape ==
  ASSUME Shape, NEW t \in Turns, FinishCompaction(t)
  PROVE  Shape' /\ Others(t) /\ pc'[t] = "call"
<1>1. DOMAIN known' = Turns /\ \A u \in Turns \ {t} : known'[u] = known[u]
  BY DEF FinishCompaction, Shape
<1> QED BY <1>1, FirstCallShape DEF FinishCompaction

(* A step that writes nothing. *)
LEMMA ReadStep ==
  ASSUME IInv, NEW t \in Turns, UNCHANGED store, Shape', Others(t), TurnOK(t)',
         pc[t] \notin Saving \cup {"summary", "commit"} \/ writer # t,
         pc'[t] \notin {"summary", "commit"}
  PROVE  IInv'
<1>1. UNCHANGED <<db, disk, writer, Web>> BY DEF store
<1>2. StoreOK' BY <1>1 DEF IInv, StoreOK, Session, CheckpointHasSummary, RowsUpTo, Extends
<1>3. writer # t BY DEF IInv, WriterOK
<1>4. \A u \in Turns \ {t} : pc'[u] = pc[u] /\ LastId(u)' = LastId(u) BY DEF Others, LastId
<1>5. WriterOK'
  <2>1. /\ writer' = writer /\ db' = db /\ disk' = disk BY <1>1
  <2>2. ASSUME NEW u \in Turns, u # t PROVE
       /\ writer' = u => pc'[u] \in Saving \cup {"summary", "commit"}
       /\ writer' = u /\ pc'[u] \in Saving => db'.upTo = disk'.upTo
       /\ pc'[u] \in {"summary", "commit"} => writer' = u
       /\ pc'[u] = "summary" => db'.upTo = LastId(u)'
       /\ pc'[u] = "commit" => \E s \in db'.sums : s.upTo = db'.upTo
    BY <1>4, <2>1, <2>2 DEF IInv, WriterOK
  <2> QED BY <1>3, <2>1, <2>2 DEF IInv, WriterOK
<1>6. \A u \in Turns \ {t} : TurnOK(u)'
  BY <1>1, OthersStay, ExtendsItself
<1> QED BY <1>2, <1>5, <1>6 DEF IInv

-----------------------------------------------------------------------------
(* Loading. *)

LEMMA StartKeeps == ASSUME IInv, NEW t \in Turns, Start(t) PROVE IInv'
<1>1. UNCHANGED <<store, conv, ids, known, seen, split, rounds>> BY DEF Start, loading
<1>2. pc[t] = "new" /\ Empty(t) BY DEF Start, IInv, TurnOK
<1>3. pc' = [pc EXCEPT ![t] = IF t \in Web THEN "readCheckpoint" ELSE "saveUser"]
  BY DEF Start, Goto
<1>4. Shape' BY <1>1, <1>3 DEF IInv, Shape, Running, Writing, Saving
<1>5. Others(t) BY <1>1, <1>3 DEF IInv, Shape, Others
<1>6. pc'[t] = (IF t \in Web THEN "readCheckpoint" ELSE "saveUser") BY <1>3 DEF IInv, Shape
<1>7. Empty(t)' BY <1>1, <1>2 DEF Empty
<1>8. TurnOK(t)'
  <2>1. Loaded(disk'.rows, conv'[t], ids'[t], known'[t], 0, 0)
        /\ Settled(disk'.rows, conv'[t], 0, 0, Len(conv'[t]) - 1)
    <3>1. disk'.rows \in Seq(Rows) BY <1>1 DEF store, IInv, StoreOK, Session
    <3> QED BY <1>7, <3>1 DEF Empty, Loaded, Settled
  <2> QED BY <1>6, <1>7, <2>1 DEF TurnOK, HasLoaded
<1> QED BY <1>1, <1>2, <1>4, <1>5, <1>6, <1>8, ReadStep DEF Saving

LEMMA ReadCheckpointKeeps == ASSUME IInv, NEW t \in Turns, ReadCheckpoint(t) PROVE IInv'
<1>1. /\ UNCHANGED <<store, conv, ids, known, split, rounds>>
      /\ pc[t] = "readCheckpoint" /\ seen' = [seen EXCEPT ![t] = db.upTo]
      /\ pc' = [pc EXCEPT ![t] = IF db.upTo = 0 THEN "readPage" ELSE "readSummary"]
  BY DEF ReadCheckpoint, Goto
<1>2. Empty(t)' BY <1>1 DEF IInv, TurnOK, Empty
<1>3. Shape' BY <1>1 DEF IInv, Shape, Running, Writing, Saving
<1>4. Others(t) BY <1>1 DEF IInv, Shape, Others
<1>5. /\ pc'[t] = (IF db.upTo = 0 THEN "readPage" ELSE "readSummary")
      /\ seen'[t] = db.upTo
  BY <1>1 DEF IInv, Shape
<1>6. Loaded(disk'.rows, conv'[t], ids'[t], known'[t], 0, 0)
      /\ Settled(disk'.rows, conv'[t], 0, 0, Len(conv'[t]))
  <2>1. disk'.rows \in Seq(Rows) BY <1>1 DEF store, IInv, StoreOK, Session
  <2> QED BY <1>2, <2>1 DEF Empty, Loaded, Settled
<1>7. TurnOK(t)' BY <1>2, <1>5, <1>6 DEF TurnOK, HasLoaded, Empty
<1> QED BY <1>1, <1>3, <1>4, <1>5, <1>7, ReadStep DEF Saving

LEMMA ReadSummaryKeeps == ASSUME IInv, NEW t \in Turns, ReadSummary(t) PROVE IInv'
<1>1. /\ UNCHANGED <<store, split, rounds>>
      /\ pc[t] = "readSummary" /\ pc' = [pc EXCEPT ![t] = "readPage"]
  BY DEF ReadSummary, Goto
<1>2. Empty(t) BY <1>1 DEF IInv, TurnOK
<1>3. /\ DOMAIN conv' = Turns /\ DOMAIN ids' = Turns /\ DOMAIN known' = Turns /\ DOMAIN seen' = Turns
      /\ \A u \in Turns \ {t} : /\ conv'[u] = conv[u] /\ ids'[u] = ids[u]
                                /\ known'[u] = known[u] /\ seen'[u] = seen[u]
  BY DEF ReadSummary, IInv, Shape
<1>4. pc' \in [Turns -> Running \cup {"new", "done"}] BY <1>1 DEF IInv, Shape, Running
<1>5. Shape' BY <1>1, <1>3, <1>4 DEF IInv, Shape
<1>6. Others(t) /\ pc'[t] = "readPage" BY <1>1, <1>3 DEF IInv, Shape, Others
<1>7. disk' = disk /\ disk.rows \in Seq(Rows) BY <1>1 DEF store, IInv, StoreOK, Session
<1>8. \E b \in Nat, h \in {0, 1} :
        /\ Loaded(disk'.rows, conv'[t], ids'[t], known'[t], b, h)
        /\ Settled(disk'.rows, conv'[t], b, h, Len(conv'[t]))
        /\ h <= Len(conv'[t]) /\ seen'[t] = b + Len(conv'[t]) - h
  <2>1. CASE \A s \in db.sums : s.upTo # seen[t]
    <3>1. conv'[t] = << >> /\ ids'[t] = << >> /\ known'[t] = {} /\ seen'[t] = 0
      BY <1>2, <2>1 DEF ReadSummary, Empty, IInv, Shape
    <3>2. Loaded(disk'.rows, conv'[t], ids'[t], known'[t], 0, 0)
          /\ Settled(disk'.rows, conv'[t], 0, 0, Len(conv'[t]))
      BY <1>7, <3>1 DEF Loaded, Settled
    <3> QED BY <3>1, <3>2
  <2>2. CASE ~(\A s \in db.sums : s.upTo # seen[t])
    <3>1. PICK s \in db.sums :
            /\ s.upTo = seen[t]
            /\ conv' = [conv EXCEPT ![t] = <<SummaryMessage>>]
            /\ ids' = [ids EXCEPT ![t] = <<-1>>]
            /\ known' = [known EXCEPT ![t] = s.covers] /\ seen' = seen
      BY <2>2 DEF ReadSummary
    <3>2. conv'[t] = <<SummaryMessage>> /\ ids'[t] = <<-1>> /\ known'[t] = s.covers
          /\ seen'[t] = s.upTo
      BY <3>1 DEF IInv, Shape
    <3>3. s.upTo \in 1..Len(disk.rows) /\ s.covers = RowsUpTo(disk, s.upTo)
      BY DEF IInv, StoreOK
    <3>4. Loaded(disk'.rows, conv'[t], ids'[t], known'[t], s.upTo, 1)
      BY <1>7, <3>2, <3>3 DEF Loaded, RowsUpTo
    <3>5. Settled(disk'.rows, conv'[t], s.upTo, 1, Len(conv'[t]))
      BY <3>2 DEF Settled
    <3>6. 1 <= Len(conv'[t]) /\ seen'[t] = s.upTo + Len(conv'[t]) - 1 /\ s.upTo \in Nat
      BY <3>2, <3>3
    <3> QED BY <3>4, <3>5, <3>6
  <2> QED BY <2>1, <2>2
<1>9. TurnOK(t)' BY <1>6, <1>8 DEF TurnOK, HasLoaded
<1> QED BY <1>1, <1>5, <1>6, <1>9, ReadStep DEF Saving

(* A page adds the rows after those that were loaded. *)
LEMMA PageLoaded ==
  ASSUME IInv, NEW t \in Turns, pc[t] = "readPage"
  PROVE  \E b \in Nat, h \in {0, 1} :
           /\ h <= Len(WithPage(t)) /\ PageEnd(t) = b + Len(WithPage(t)) - h
           /\ Loaded(disk.rows, WithPage(t), WithPageIds(t), known[t], b, h)
           /\ Settled(disk.rows, WithPage(t), b, h, Len(WithPage(t)) - 1)
           /\ More(t) => Settled(disk.rows, WithPage(t), b, h, Len(WithPage(t)))
<1>1. PICK b \in Nat, h \in {0, 1} :
        /\ Loaded(disk.rows, conv[t], ids[t], known[t], b, h)
        /\ Settled(disk.rows, conv[t], b, h, Len(conv[t]))
        /\ h <= Len(conv[t]) /\ seen[t] = b + Len(conv[t]) - h
  BY DEF IInv, TurnOK
<1> DEFINE c == conv[t]  s == ids[t]  q == db.rows  r == disk.rows
           e == PageEnd(t)  n == e - seen[t]
<1>2. /\ c \in Seq(Rows \cup {SummaryMessage}) /\ s \in Seq(Int) /\ Len(s) = Len(c)
      /\ q \in Seq(Rows) /\ r \in Seq(Rows)
  BY <1>1 DEF Loaded, IInv, StoreOK, Session
<1>3. Len(c) \in Nat /\ Len(q) \in Nat /\ Len(r) \in Nat /\ seen[t] \in Nat BY <1>1, <1>2
<1>4. Len(r) <= Len(q) /\ Len(q) <= Len(r) + 1 /\ \A i \in 1..Len(r) : q[i] = r[i]
  BY DEF IInv, StoreOK, Extends
<1>5. seen[t] <= Len(r)
  <2>1. CASE Len(c) = h BY <2>1, <1>1, <1>3 DEF Loaded
  <2>2. CASE Len(c) > h BY <2>2, <1>1, <1>3 DEF Settled
  <2> QED BY <1>1, <1>3, <2>1, <2>2
<1>6. /\ e \in Nat /\ seen[t] <= e /\ e <= Len(q)
      /\ More(t) => e < Len(q)
  BY <1>3, <1>4, <1>5, HistoryAssumption DEF PageEnd, More
<1>7. n \in Nat BY <1>3, <1>6
<1> DEFINE pg == SubSeq(q, seen[t] + 1, e)  pi == [i \in 1..n |-> seen[t] + i]
<1>8. pg \in Seq(Rows) /\ Len(pg) = n /\ \A i \in 1..n : pg[i] = q[seen[t] + i]
  <2> HIDE DEF q, e, n, pg
  <2> DEFINE m == seen[t] + 1
  <2>1. m \in Int /\ e \in Int /\ n = e - seen[t] BY <1>3, <1>6 DEF n
  <2>2. \A i \in m..e : q[i] \in Rows BY <1>2, <1>3, <1>6, ElementOfSeq
  <2> HIDE DEF m
  <2>3. /\ SubSeq(q, m, e) \in Seq(Rows)
        /\ Len(SubSeq(q, m, e)) = IF m <= e THEN e - m + 1 ELSE 0
        /\ \A i \in 1..(e - m + 1) : SubSeq(q, m, e)[i] = q[m + i - 1]
    BY <2>1, <2>2, SubSeqProperties
  <2>4. e - m + 1 = n /\ (m <= e \/ n = 0) BY <1>3, <1>6, <2>1 DEF m
  <2>5. \A i \in 1..n : m + i - 1 = seen[t] + i BY <1>3, <2>1 DEF m
  <2> QED BY <2>1, <2>3, <2>4, <2>5 DEF pg, m
<1>9. pi \in Seq(Int) /\ Len(pi) = n /\ \A i \in 1..n : pi[i] = seen[t] + i
  <2>1. pi \in [1..n -> Int] BY <1>3, <1>7
  <2> QED BY <1>7, <2>1
<1>10. /\ WithPage(t) = c \o pg /\ WithPageIds(t) = s \o pi BY DEF WithPage, WithPageIds
<1> DEFINE d == c \o pg  z == s \o pi
<1> HIDE DEF e, n, pg, pi, c, s, q, r
<1>11. /\ d \in Seq(Rows \cup {SummaryMessage}) /\ Len(d) = Len(c) + n
       /\ \A j \in 1..Len(d) : d[j] = IF j <= Len(c) THEN c[j] ELSE pg[j - Len(c)]
  <2> DEFINE M == Rows \cup {SummaryMessage}
  <2>1. c \in Seq(M) /\ pg \in Seq(M) /\ Len(pg) = n BY <1>2, <1>8
  <2> HIDE DEF M
  <2>2. /\ c \o pg \in Seq(M) /\ Len(c \o pg) = Len(c) + Len(pg)
        /\ \A j \in 1..(Len(c) + Len(pg)) :
             (c \o pg)[j] = IF j <= Len(c) THEN c[j] ELSE pg[j - Len(c)]
    BY <2>1, ConcatProperties
  <2> QED BY <2>1, <2>2 DEF M
<1>12. /\ z \in Seq(Int) /\ Len(z) = Len(s) + n
       /\ \A j \in 1..Len(z) : z[j] = IF j <= Len(s) THEN s[j] ELSE pi[j - Len(s)]
  <2>1. s \in Seq(Int) /\ pi \in Seq(Int) /\ Len(pi) = n BY <1>2, <1>9
  <2>2. /\ s \o pi \in Seq(Int) /\ Len(s \o pi) = Len(s) + Len(pi)
        /\ \A j \in 1..(Len(s) + Len(pi)) :
             (s \o pi)[j] = IF j <= Len(s) THEN s[j] ELSE pi[j - Len(s)]
    BY <2>1, ConcatProperties
  <2> QED BY <2>1, <2>2
<1> HIDE DEF d, z
<1>13. /\ seen[t] = b + Len(c) - h /\ h <= Len(c)
       /\ Len(c) \in Int /\ Len(d) \in Int /\ Len(s) = Len(c) /\ Len(z) = Len(d)
  BY <1>1, <1>2, <1>3, <1>7, <1>11, <1>12 DEF c
<1>14. Loaded(r, d, z, known[t], b, h)
  <2>1. \A j \in 1..Len(s) : s[j] = IF j <= h THEN -1 ELSE b + j - h
    BY <1>1 DEF Loaded, s
  <2>2. \A j \in 1..Len(z) : z[j] = IF j <= h THEN -1 ELSE b + j - h
    <3> SUFFICES ASSUME NEW j \in 1..Len(z) PROVE z[j] = IF j <= h THEN -1 ELSE b + j - h OBVIOUS
    <3>1. CASE j <= Len(s) BY <3>1, <1>2, <1>3, <1>12, <2>1 DEF c
    <3>2. CASE j > Len(s)
      <4>1. j - Len(s) \in 1..n BY <3>2, <1>7, <1>12, <1>13
      <4>2. z[j] = pi[j - Len(s)] BY <3>2, <1>12, <1>13
      <4>3. z[j] = seen[t] + (j - Len(s)) BY <4>1, <4>2, <1>9
      <4>4. j \in Int BY <1>13
      <4> QED BY <3>2, <4>3, <4>4, <1>13
    <3> QED BY <3>1, <3>2, <1>2, <1>3 DEF c
  <2>3. b \in 0..Len(r) /\ known[t] = {r[i] : i \in 1..b} BY <1>1 DEF Loaded, r
  <2> QED BY <1>2, <1>11, <1>12, <2>2, <2>3 DEF Loaded
<1>15. ASSUME NEW j \in 1..Len(d), j > h, b + j - h <= Len(r) PROVE d[j] = r[b + j - h]
  <2>1. CASE j <= Len(c)
    <3>1. c[j] = r[b + j - h] BY <1>1, <2>1, <1>15, <1>3 DEF Settled, c, r
    <3> QED BY <3>1, <2>1, <1>11, <1>15
  <2>2. CASE j > Len(c)
    <3>1. j - Len(c) \in 1..n BY <2>2, <1>3, <1>7, <1>11, <1>15 DEF c
    <3>2. d[j] = q[seen[t] + (j - Len(c))]
      <4>1. d[j] = pg[j - Len(c)] BY <2>2, <1>11, <1>13
      <4> QED BY <3>1, <4>1, <1>8
    <3>3. seen[t] + (j - Len(c)) = b + j - h
      <4>1. j \in Int /\ h \in Int /\ b \in Int /\ Len(c) \in Int BY <1>13
      <4>2. seen[t] = b + Len(c) - h BY <1>13
      <4> HIDE DEF c
      <4> QED BY <4>1, <4>2
    <3>4. b + j - h \in 1..Len(r) BY <1>15, <1>3 DEF r
    <3> QED BY <3>2, <3>3, <3>4, <1>4 DEF q, r
  <2> QED BY <2>1, <2>2, <1>3, <1>15 DEF c
<1>16. e = b + Len(d) - h /\ h <= Len(d)
  BY <1>11, <1>13, <1>3, <1>7, <1>6 DEF n, c
<1>19. Len(q) \in Nat /\ Len(r) \in Nat BY <1>3 DEF q, r
<1>17. Settled(r, d, b, h, Len(d) - 1)
  <2>1. \A j \in 1..(Len(d) - 1) : b + j - h <= Len(r)
    <3> HIDE DEF q
    <3>1. b + Len(d) - h <= Len(r) + 1 BY <1>4, <1>6, <1>13, <1>16, <1>19
    <3> QED BY <1>13, <1>19, <3>1
  <2>2. \A j \in 1..(Len(d) - 1) : j \in 1..Len(d) BY <1>11, <1>3, <1>7 DEF c
  <2> QED BY <1>15, <2>1, <2>2 DEF Settled
<1>18. More(t) => Settled(r, d, b, h, Len(d))
  <2> SUFFICES ASSUME More(t) PROVE Settled(r, d, b, h, Len(d)) OBVIOUS
  <2>1. \A j \in 1..Len(d) : b + j - h <= Len(r)
    <3> HIDE DEF q
    <3>1. b + Len(d) - h <= Len(r) BY <1>4, <1>6, <1>13, <1>16, <1>19
    <3> QED BY <1>13, <1>19, <3>1
  <2> QED BY <1>15, <2>1 DEF Settled
<1> QED BY <1>10, <1>14, <1>16, <1>17, <1>18 DEF d, z, r, e

LEMMA ReadPageKeeps == ASSUME IInv, NEW t \in Turns, ReadPage(t) PROVE IInv'
<1>1. /\ UNCHANGED <<store, pc, known, split, rounds>> /\ pc[t] = "readPage" /\ More(t)
      /\ conv' = [conv EXCEPT ![t] = WithPage(t)] /\ ids' = [ids EXCEPT ![t] = WithPageIds(t)]
      /\ seen' = [seen EXCEPT ![t] = PageEnd(t)]
  BY DEF ReadPage
<1>2. /\ conv'[t] = WithPage(t) /\ ids'[t] = WithPageIds(t) /\ seen'[t] = PageEnd(t)
      /\ known'[t] = known[t] /\ pc'[t] = "readPage" /\ disk' = disk
  BY <1>1 DEF IInv, Shape, store
<1>3. Shape' /\ Others(t) BY <1>1 DEF IInv, Shape, Others
<1>4. TurnOK(t)'
  <2>1. PICK b \in Nat, h \in {0, 1} :
           /\ h <= Len(WithPage(t)) /\ PageEnd(t) = b + Len(WithPage(t)) - h
           /\ Loaded(disk.rows, WithPage(t), WithPageIds(t), known[t], b, h)
           /\ Settled(disk.rows, WithPage(t), b, h, Len(WithPage(t)))
    BY <1>1, PageLoaded
  <2>2. /\ Loaded(disk'.rows, conv'[t], ids'[t], known'[t], b, h)
        /\ Settled(disk'.rows, conv'[t], b, h, Len(conv'[t]))
        /\ h <= Len(conv'[t]) /\ seen'[t] = b + Len(conv'[t]) - h
    BY <1>2, <2>1
  <2> QED BY <1>2, <2>2 DEF TurnOK, HasLoaded
<1> QED BY <1>1, <1>2, <1>3, <1>4, ReadStep DEF Saving

(* The dropped tail is a suffix. *)
LEMMA LoadedPrefix ==
  ASSUME NEW r, NEW c, NEW s, NEW k, NEW b \in Nat, NEW h \in {0, 1}, NEW n \in 0..Len(c),
         Loaded(r, c, s, k, b, h), Settled(r, c, b, h, Len(c) - 1)
  PROVE  /\ Loaded(r, SubSeq(c, 1, n), SubSeq(s, 1, n), k, b, h)
         /\ Settled(r, SubSeq(c, 1, n), b, h, Len(SubSeq(c, 1, n)) - 1)
<1>1. /\ c \in Seq(Rows \cup {SummaryMessage}) /\ s \in Seq(Int) /\ Len(s) = Len(c) BY DEF Loaded
<1>2. n \in Nat /\ n <= Len(c) /\ Len(c) \in Nat BY <1>1
<1>3. /\ SubSeq(c, 1, n) \in Seq(Rows \cup {SummaryMessage}) /\ Len(SubSeq(c, 1, n)) = n
      /\ \A j \in 1..n : SubSeq(c, 1, n)[j] = c[j]
  BY <1>1, <1>2
<1>4. /\ SubSeq(s, 1, n) \in Seq(Int) /\ Len(SubSeq(s, 1, n)) = n
      /\ \A j \in 1..n : SubSeq(s, 1, n)[j] = s[j]
  BY <1>1, <1>2
<1>5. \A j \in 1..n : j \in 1..Len(s) BY <1>1, <1>2
<1>6. \A j \in 1..(n - 1) : j \in 1..(Len(c) - 1) /\ j \in 1..n BY <1>2
<1>7. Loaded(r, SubSeq(c, 1, n), SubSeq(s, 1, n), k, b, h)
  BY <1>3, <1>4, <1>5 DEF Loaded
<1>8. Settled(r, SubSeq(c, 1, n), b, h, n - 1) BY <1>3, <1>6 DEF Settled
<1> QED BY <1>3, <1>7, <1>8

LEMMA ReadLastPageKeeps == ASSUME IInv, NEW t \in Turns, ReadLastPage(t) PROVE IInv'
<1> DEFINE c == WithPage(t)
           n == Len(c) - (IF t \notin Web /\ c # << >> /\ c[Len(c)].role = "user" THEN 1 ELSE 0)
<1>1. /\ UNCHANGED <<store, known, seen, split, rounds>> /\ pc[t] = "readPage"
      /\ conv' = [conv EXCEPT ![t] = SubSeq(c, 1, n)]
      /\ ids' = [ids EXCEPT ![t] = SubSeq(WithPageIds(t), 1, n)]
      /\ pc' = [pc EXCEPT ![t] = IF t \in Web THEN "saveUser" ELSE "compact"]
  BY DEF ReadLastPage, Goto
<1>2. PICK b \in Nat, h \in {0, 1} :
           /\ Loaded(disk.rows, c, WithPageIds(t), known[t], b, h)
           /\ Settled(disk.rows, c, b, h, Len(c) - 1)
  BY <1>1, PageLoaded
<1>3. n \in 0..Len(c)
  <2>1. c \in Seq(Rows \cup {SummaryMessage}) BY <1>2 DEF Loaded
  <2> HIDE DEF c
  <2>2. Len(c) \in Nat /\ (c # << >> => Len(c) > 0) BY <2>1, EmptySeq
  <2> QED BY <2>2
<1> HIDE DEF c, n
<1>4. /\ Loaded(disk.rows, SubSeq(c, 1, n), SubSeq(WithPageIds(t), 1, n), known[t], b, h)
      /\ Settled(disk.rows, SubSeq(c, 1, n), b, h, Len(SubSeq(c, 1, n)) - 1)
  BY <1>2, <1>3, LoadedPrefix
<1>5. /\ conv'[t] = SubSeq(c, 1, n) /\ ids'[t] = SubSeq(WithPageIds(t), 1, n)
      /\ known'[t] = known[t] /\ disk' = disk /\ Web' = Web
      /\ pc'[t] = IF t \in Web THEN "saveUser" ELSE "compact"
  BY <1>1 DEF IInv, Shape, store
<1>6. pc' \in [Turns -> Running \cup {"new", "done"}]
  BY <1>1 DEF IInv, Shape, Running, Writing, Saving
<1>7. Shape' /\ Others(t) BY <1>1, <1>6 DEF IInv, Shape, Others
<1>8. TurnOK(t)'
  <2>1. Loaded(disk'.rows, conv'[t], ids'[t], known'[t], b, h)
        /\ Settled(disk'.rows, conv'[t], b, h, Len(conv'[t]) - 1)
    BY <1>4, <1>5
  <2> QED BY <1>5, <2>1 DEF TurnOK, HasLoaded
<1> QED BY <1>1, <1>5, <1>7, <1>8, ReadStep DEF Saving

LEMMA LoadFailsKeeps == ASSUME IInv, NEW t \in Turns, LoadFails(t) PROVE IInv'
<1>1. UNCHANGED store /\ pc[t] \in {"readCheckpoint", "readSummary", "readPage"} BY DEF LoadFails
<1>2. CASE t \in Web
  <2>1. /\ conv' = [conv EXCEPT ![t] = << >>] /\ ids' = [ids EXCEPT ![t] = << >>]
        /\ known' = [known EXCEPT ![t] = {}] /\ seen' = [seen EXCEPT ![t] = 0]
        /\ pc' = [pc EXCEPT ![t] = "saveUser"] /\ UNCHANGED <<split, rounds>>
    BY <1>2 DEF LoadFails, Goto
  <2>2. pc' \in [Turns -> Running \cup {"new", "done"}]
    BY <2>1 DEF IInv, Shape, Running, Writing, Saving
  <2>3. Shape' /\ Others(t) BY <2>1, <2>2 DEF IInv, Shape, Others
  <2>4. Empty(t)' /\ pc'[t] = "saveUser" BY <2>1 DEF IInv, Shape, Empty
  <2>5. Loaded(disk'.rows, conv'[t], ids'[t], known'[t], 0, 0)
        /\ Settled(disk'.rows, conv'[t], 0, 0, Len(conv'[t]) - 1)
    <3>1. disk'.rows \in Seq(Rows) BY <1>1 DEF store, IInv, StoreOK, Session
    <3> QED BY <2>4, <3>1 DEF Empty, Loaded, Settled
  <2>6. TurnOK(t)' BY <2>4, <2>5 DEF TurnOK, HasLoaded
  <2> QED BY <1>1, <2>3, <2>4, <2>6, ReadStep DEF Saving
<1>3. CASE t \notin Web
  <2>1. Shape' /\ Others(t) /\ pc'[t] = "done" BY <1>3, LeaveShape DEF LoadFails, IInv
  <2>2. TurnOK(t)' BY <2>1, FreeTurn DEF Free
  <2> QED BY <1>1, <2>1, <2>2, ReadStep DEF Saving
<1> QED BY <1>2, <1>3

-----------------------------------------------------------------------------
(* Compaction. *)

LEMMA SkipCompactionKeeps == ASSUME IInv, NEW t \in Turns, SkipCompaction(t) PROVE IInv'
<1>1. /\ UNCHANGED <<store, known, rounds>> /\ pc[t] = "compact" /\ FirstCall(t, conv[t])
  BY DEF SkipCompaction
<1>2. DOMAIN known' = Turns BY <1>1 DEF IInv, Shape
<1>3. Shape' /\ Others(t) /\ pc'[t] = "call" BY <1>1, <1>2, FirstCallShape DEF IInv
<1>4. TurnOK(t)' BY <1>3, FreeTurn DEF Free
<1> QED BY <1>1, <1>3, <1>4, ReadStep DEF Saving

LEMMA StartCompactionKeeps == ASSUME IInv, NEW t \in Turns, StartCompaction(t) PROVE IInv'
<1>1. /\ UNCHANGED <<store, conv, ids, known, seen, rounds>> /\ pc[t] = "compact"
      /\ pc' = [pc EXCEPT ![t] = "summarize"]
  BY DEF StartCompaction, Goto, loading
<1>2. PICK n \in 1..(Len(conv[t]) - 1) : \E k \in 1..n : split' = [split EXCEPT ![t] = k]
  BY DEF StartCompaction
<1>10. PICK k \in 1..n : split' = [split EXCEPT ![t] = k] BY <1>2
<1>3. PICK b \in Nat, h \in {0, 1} :
        /\ Loaded(disk.rows, conv[t], ids[t], known[t], b, h)
        /\ Settled(disk.rows, conv[t], b, h, Len(conv[t]) - 1)
  BY <1>1 DEF IInv, TurnOK, HasLoaded
<1>4. Len(conv[t]) \in Nat BY <1>3 DEF Loaded
<1>5. k \in 1..(Len(conv[t]) - 1) BY <1>4
<1>6. pc' \in [Turns -> Running \cup {"new", "done"}] BY <1>1 DEF IInv, Shape, Running
<1>7. Shape' /\ Others(t) BY <1>1, <1>10, <1>6 DEF IInv, Shape, Others
<1>8. pc'[t] = "summarize" /\ split'[t] = k BY <1>1, <1>10 DEF IInv, Shape
<1>9. TurnOK(t)'
  <2>1. Loaded(disk'.rows, conv'[t], ids'[t], known'[t], b, h)
        /\ Settled(disk'.rows, conv'[t], b, h, Len(conv'[t]) - 1)
    BY <1>1, <1>3 DEF store
  <2>2. split'[t] \in 1..(Len(conv'[t]) - 1) BY <1>1, <1>5, <1>8
  <2> QED BY <1>8, <2>1, <2>2 DEF TurnOK, HasLoaded
<1> QED BY <1>1, <1>7, <1>8, <1>9, ReadStep DEF Saving

LEMMA SummaryFailsKeeps == ASSUME IInv, NEW t \in Turns, SummaryFails(t) PROVE IInv'
<1>1. /\ UNCHANGED <<store, known, rounds>> /\ pc[t] = "summarize" /\ FirstCall(t, conv[t])
  BY DEF SummaryFails
<1>2. DOMAIN known' = Turns BY <1>1 DEF IInv, Shape
<1>3. Shape' /\ Others(t) /\ pc'[t] = "call" BY <1>1, <1>2, FirstCallShape DEF IInv
<1>4. TurnOK(t)' BY <1>3, FreeTurn DEF Free
<1> QED BY <1>1, <1>3, <1>4, ReadStep DEF Saving

LEMMA SummaryArrivesKeeps == ASSUME IInv, NEW t \in Turns, SummaryArrives(t) PROVE IInv'
<1>1. UNCHANGED store /\ pc[t] = "summarize" BY DEF SummaryArrives
<1>2. CASE LastId(t) >= 0
  <2>1. /\ pc' = [pc EXCEPT ![t] = "checkpoint"]
        /\ UNCHANGED <<conv, ids, known, seen, split, rounds>>
    BY <1>2 DEF SummaryArrives, Goto, loading
  <2>2. pc' \in [Turns -> Running \cup {"new", "done"}]
    BY <2>1 DEF IInv, Shape, Running, Writing
  <2>3. Shape' /\ Others(t) BY <2>1, <2>2 DEF IInv, Shape, Others
  <2>4. pc'[t] = "checkpoint" BY <2>1 DEF IInv, Shape
  <2>5. LastId(t)' >= 0 BY <1>2, <2>1 DEF LastId
  <2>6. TurnOK(t)' BY <1>1, <2>1, <2>4, <2>5 DEF IInv, TurnOK, HasLoaded, store
  <2> QED BY <1>1, <2>3, <2>4, <2>6, ReadStep DEF Saving
<1>3. CASE ~(LastId(t) >= 0)
  <2>1. Shape' /\ Others(t) /\ pc'[t] = "call" BY <1>3, FinishShape DEF SummaryArrives, IInv
  <2>2. TurnOK(t)' BY <2>1, FreeTurn DEF Free
  <2> QED BY <1>1, <2>1, <2>2, ReadStep DEF Saving
<1> QED BY <1>2, <1>3

LEMMA KeepCheckpointKeeps == ASSUME IInv, NEW t \in Turns, KeepCheckpoint(t) PROVE IInv'
<1>1. UNCHANGED store /\ pc[t] = "checkpoint" /\ FinishCompaction(t) BY DEF KeepCheckpoint
<1>2. Shape' /\ Others(t) /\ pc'[t] = "call" BY <1>1, FinishShape DEF IInv
<1>3. TurnOK(t)' BY <1>2, FreeTurn DEF Free
<1> QED BY <1>1, <1>2, <1>3, ReadStep DEF Saving

-----------------------------------------------------------------------------
(* The agent's loop. *)

(* A step of a turn that talks to the model and writes nothing. *)
LEMMA LoopStep ==
  ASSUME IInv, NEW t \in Turns, UNCHANGED <<store, loading, split>>,
         NEW m, Says(t, m), pc[t] \in {"call", "tools"},
         NEW p \in {"saveUse", "saveResult", "saveReply", "saveCut"}, Goto(t, p),
         rounds' \in [Turns -> Nat]
  PROVE  IInv'
<1>1. pc' = [pc EXCEPT ![t] = p] BY DEF Goto
<1>2. DOMAIN conv' = Turns /\ \A u \in Turns \ {t} : conv'[u] = conv[u]
  BY DEF Says, IInv, Shape
<1>3. UNCHANGED <<ids, known, seen, split>> BY DEF loading
<1>4. pc' \in [Turns -> Running \cup {"new", "done"}]
  BY <1>1 DEF IInv, Shape, Running, Writing, Saving
<1>5. Shape' /\ Others(t) BY <1>1, <1>2, <1>3, <1>4 DEF IInv, Shape, Others
<1>6. pc'[t] = p BY <1>1 DEF IInv, Shape
<1>7. TurnOK(t)' BY <1>6, FreeTurn DEF Free
<1> QED BY <1>5, <1>6, <1>7, ReadStep DEF Saving

LEMMA AgentKeeps ==
  ASSUME IInv, NEW t \in Turns,
         AgentCallsTools(t) \/ ToolsReturn(t) \/ AgentStopsMidCall(t) \/ AgentReplies(t)
         \/ AgentGivesNothing(t)
  PROVE  IInv'
<1>1. CASE AgentCallsTools(t)
  <2>1. rounds' \in [Turns -> Nat] BY <1>1 DEF AgentCallsTools, IInv, Shape
  <2> QED BY <1>1, <2>1, LoopStep DEF AgentCallsTools
<1>2. CASE ToolsReturn(t)
  <2>1. rounds' \in [Turns -> Nat] BY <1>2 DEF ToolsReturn, IInv, Shape
  <2> QED BY <1>2, <2>1, LoopStep DEF ToolsReturn
<1>3. CASE AgentStopsMidCall(t)
  <2>1. rounds' \in [Turns -> Nat] BY <1>3 DEF AgentStopsMidCall, IInv, Shape
  <2> QED BY <1>3, <2>1, LoopStep DEF AgentStopsMidCall
<1>4. CASE AgentReplies(t)
  <2>1. rounds' \in [Turns -> Nat] BY <1>4 DEF AgentReplies, IInv, Shape
  <2> QED BY <1>4, <2>1, LoopStep DEF AgentReplies
<1>5. CASE AgentGivesNothing(t)
  <2>1. UNCHANGED store /\ pc[t] = "call" /\ Leave(t) BY <1>5 DEF AgentGivesNothing
  <2>2. Shape' /\ Others(t) /\ pc'[t] = "done" BY <2>1, LeaveShape DEF IInv
  <2>3. TurnOK(t)' BY <2>2, FreeTurn DEF Free
  <2> QED BY <2>1, <2>2, <2>3, ReadStep DEF Saving
<1> QED BY <1>1, <1>2, <1>3, <1>4, <1>5

-----------------------------------------------------------------------------
(* The store. *)

(* Where a turn goes after a write. *)
LEMMA ProceedShape ==
  ASSUME IInv, NEW t \in Turns, Proceed(t), Web' = Web,
         disk' \in Session, Extends(disk.rows, disk'.rows)
  PROVE  Shape' /\ Others(t) /\ TurnOK(t)' /\ pc'[t] \notin {"summary", "commit"}
<1>0. Shape BY DEF IInv
<1>1. CASE pc[t] = "saveUser" /\ pc' = [pc EXCEPT ![t] = IF t \in Web THEN "compact" ELSE "readCheckpoint"]
           /\ UNCHANGED <<conv, loading, split, rounds>>
  <2>1. UNCHANGED <<conv, ids, known, seen, split, rounds>> BY <1>1 DEF loading
  <2>2. pc' \in [Turns -> Running \cup {"new", "done"}]
    BY <1>1 DEF IInv, Shape, Running, Writing, Saving
  <2>3. Shape' /\ Others(t) BY <1>1, <2>1, <2>2 DEF IInv, Shape, Others
  <2>4. pc'[t] = IF t \in Web THEN "compact" ELSE "readCheckpoint" BY <1>1 DEF IInv, Shape
  <2>5. t \notin Web => Empty(t)' BY <1>1, <2>1 DEF IInv, TurnOK, Empty
  <2>6. PICK b \in Nat, h \in {0, 1} :
          /\ Loaded(disk.rows, conv[t], ids[t], known[t], b, h)
          /\ Settled(disk.rows, conv[t], b, h, Len(conv[t]) - 1)
    BY <1>1 DEF IInv, TurnOK, HasLoaded
  <2>7. Len(conv[t]) - 1 \in Int BY <2>6 DEF Loaded
  <2>8. disk.rows \in Seq(Rows) /\ disk'.rows \in Seq(Rows) BY DEF IInv, StoreOK, Session
  <2>9. Loaded(disk'.rows, conv[t], ids[t], known[t], b, h)
        /\ Settled(disk'.rows, conv[t], b, h, Len(conv[t]) - 1)
    BY <2>6, <2>7, <2>8, LoadedStays
  <2>10. Loaded(disk'.rows, conv'[t], ids'[t], known'[t], b, h)
        /\ Settled(disk'.rows, conv'[t], b, h, Len(conv'[t]) - 1)
    BY <2>1, <2>9
  <2>11. TurnOK(t)' BY <2>4, <2>5, <2>10 DEF TurnOK, HasLoaded
  <2> QED BY <2>3, <2>4, <2>11
<1>2. CASE pc[t] = "saveUse" /\ Goto(t, "tools") /\ UNCHANGED <<conv, loading, split, rounds>>
  <2>1. UNCHANGED <<conv, ids, known, seen, split, rounds>> BY <1>2 DEF loading
  <2>2. pc' = [pc EXCEPT ![t] = "tools"] BY <1>2 DEF Goto
  <2>3. pc' \in [Turns -> Running \cup {"new", "done"}] BY <2>2 DEF IInv, Shape, Running
  <2>4. Shape' /\ Others(t) BY <2>1, <2>2, <2>3 DEF IInv, Shape, Others
  <2>5. pc'[t] = "tools" BY <2>2 DEF IInv, Shape
  <2> QED BY <2>4, <2>5, FreeTurn DEF Free
<1>3. CASE NextCall(t)
  <2>1. UNCHANGED <<ids, known, seen, split, rounds>> BY <1>3 DEF loading, NextCall
  <2>2. pc' = [pc EXCEPT ![t] = "call"] BY <1>3 DEF Goto, NextCall
  <2>3. pc' \in [Turns -> Running \cup {"new", "done"}] BY <2>2 DEF IInv, Shape, Running
  <2>4. DOMAIN conv' = Turns /\ \A u \in Turns \ {t} : conv'[u] = conv[u]
    BY <1>3 DEF NextCall, IInv, Shape
  <2>5. Shape' /\ Others(t) BY <2>1, <2>2, <2>3, <2>4 DEF IInv, Shape, Others
  <2>6. pc'[t] = "call" BY <2>2 DEF IInv, Shape
  <2> QED BY <2>5, <2>6, FreeTurn DEF Free
<1>4. CASE Leave(t)
  <2>1. Shape' /\ Others(t) /\ pc'[t] = "done" BY <1>4, <1>0, LeaveShape
  <2> QED BY <2>1, FreeTurn DEF Free
<1>5. CASE FinishCompaction(t)
  <2>1. Shape' /\ Others(t) /\ pc'[t] = "call" BY <1>5, <1>0, FinishShape
  <2> QED BY <2>1, FreeTurn DEF Free
<1> QED BY <1>1, <1>2, <1>3, <1>4, <1>5 DEF Proceed, Goto

(* When a turn has closed its transaction, or left it open, nobody is in   *)
(* the middle of one.                                                      *)
LEMMA NobodyWrites ==
  ASSUME IInv, NEW t \in Turns, Others(t), writer \notin Turns \ {t},
         writer' \in {None, Abandoned}, pc'[t] \notin {"summary", "commit"}
  PROVE  WriterOK'
<1>1. \A u \in Turns \ {t} : pc'[u] = pc[u] BY DEF Others
<1>2. \A u \in Turns \ {t} : pc[u] \notin {"summary", "commit"} BY DEF IInv, WriterOK
<1>3. \A u \in Turns : writer' # u BY HistoryAssumption
<1>4. \A u \in Turns : pc'[u] \notin {"summary", "commit"} BY <1>1, <1>2
<1> QED BY <1>3, <1>4 DEF WriterOK

LEMMA CommitStore ==
  ASSUME IInv, NEW t \in Turns, pc[t] \in Saving \cup {"commit"}, writer = t,
         disk' = db, db' = db, writer' = None
  PROVE  StoreOK' /\ disk' \in Session /\ Extends(disk.rows, disk'.rows)
<1>1. /\ db \in Session /\ disk \in Session
      /\ Extends(disk.rows, db.rows) /\ Len(db.rows) <= Len(disk.rows) + 1
      /\ db.upTo <= Len(disk.rows) /\ disk.upTo <= db.upTo
      /\ \A s \in db.sums : s.upTo \in 1..Len(disk.rows) /\ s.covers = RowsUpTo(disk, s.upTo)
      /\ disk.sums \subseteq db.sums /\ CheckpointHasSummary
  BY DEF IInv, StoreOK
<1>2. db.upTo # 0 => \E s \in db.sums : s.upTo = db.upTo
  <2>1. CASE pc[t] \in Saving
    <3>1. db.upTo = disk.upTo BY <2>1 DEF IInv, WriterOK
    <3> QED BY <1>1, <3>1 DEF CheckpointHasSummary
  <2>2. CASE pc[t] = "commit" BY <2>2 DEF IInv, WriterOK
  <2> QED BY <2>1, <2>2
<1>3. Len(db.rows) \in Nat /\ Len(disk.rows) \in Nat /\ db.upTo \in Nat BY <1>1 DEF Session
<1>4. ASSUME NEW s \in db.sums
      PROVE  s.upTo \in 1..Len(db.rows) /\ s.covers = RowsUpTo(db, s.upTo)
  <2>1. s.upTo \in 1..Len(disk.rows) /\ s.covers = RowsUpTo(disk, s.upTo) BY <1>1
  <2>2. \A i \in 1..s.upTo : db.rows[i] = disk.rows[i] BY <1>1, <1>3, <2>1 DEF Extends
  <2>3. RowsUpTo(db, s.upTo) = RowsUpTo(disk, s.upTo) BY <2>2 DEF RowsUpTo
  <2> QED BY <1>1, <1>3, <2>1, <2>3 DEF Extends
<1>5. Extends(db.rows, db.rows) BY <1>3 DEF Extends
<1>6. CheckpointHasSummary' BY <1>2 DEF CheckpointHasSummary
<1>7. db.upTo <= Len(db.rows) BY <1>1, <1>3 DEF Extends
<1> QED BY <1>1, <1>3, <1>4, <1>5, <1>6, <1>7 DEF StoreOK

LEMMA RollbackStore ==
  ASSUME IInv, disk' = disk, db' = disk
  PROVE  StoreOK' /\ disk' \in Session /\ Extends(disk.rows, disk'.rows)
<1>1. Len(disk.rows) \in Nat /\ disk \in Session BY DEF IInv, StoreOK, Session
<1>2. Extends(disk.rows, disk.rows) BY <1>1 DEF Extends
<1>3. CheckpointHasSummary' BY DEF IInv, StoreOK, CheckpointHasSummary
<1>4. disk.upTo <= Len(disk.rows) /\ disk.upTo <= disk.upTo
  BY <1>1 DEF IInv, StoreOK, Session
<1>5. \A s \in disk.sums : s.upTo \in 1..Len(disk.rows) /\ s.covers = RowsUpTo(disk, s.upTo)
  BY DEF IInv, StoreOK
<1> QED BY <1>1, <1>2, <1>3, <1>4, <1>5 DEF StoreOK, RowsUpTo

LEMMA CommitKeeps == ASSUME IInv, NEW t \in Turns, Commit(t) PROVE IInv'
<1>1. /\ pc[t] \in Saving \cup {"commit"} /\ writer = t /\ disk' = db /\ writer' = None
      /\ Proceed(t) /\ db' = db /\ Web' = Web
  BY DEF Commit
<1>2. StoreOK' /\ disk' \in Session /\ Extends(disk.rows, disk'.rows) BY <1>1, CommitStore
<1>3. Shape' /\ Others(t) /\ TurnOK(t)' /\ pc'[t] \notin {"summary", "commit"}
  BY <1>1, <1>2, ProceedShape
<1>4. WriterOK' BY <1>1, <1>3, NobodyWrites
<1>5. \A u \in Turns \ {t} : TurnOK(u)' BY <1>1, <1>2, <1>3, OthersStay
<1> QED BY <1>2, <1>3, <1>4, <1>5 DEF IInv

LEMMA GiveUpKeeps ==
  ASSUME IInv, NEW t \in Turns, GiveUpWrite(t), writer \notin Turns \ {t}
  PROVE  IInv'
<1>1. db' = disk /\ disk' = disk /\ writer' = None /\ Web' = Web BY DEF GiveUpWrite
<1>2. StoreOK' /\ disk' \in Session /\ Extends(disk.rows, disk'.rows) BY <1>1, RollbackStore
<1>3. Shape' /\ Others(t) /\ TurnOK(t)' /\ pc'[t] \notin {"summary", "commit"}
  <2>1. CASE Leave(t)
    <3>1. Shape' /\ Others(t) /\ pc'[t] = "done" BY <2>1, LeaveShape DEF IInv
    <3> QED BY <3>1, FreeTurn DEF Free
  <2>2. CASE Proceed(t) BY <2>2, <1>1, <1>2, ProceedShape
  <2> QED BY <2>1, <2>2 DEF GiveUpWrite
<1>4. WriterOK' BY <1>1, <1>3, NobodyWrites
<1>5. \A u \in Turns \ {t} : TurnOK(u)' BY <1>1, <1>2, <1>3, OthersStay
<1> QED BY <1>2, <1>3, <1>4, <1>5 DEF IInv

LEMMA WriteFailsKeeps == ASSUME IInv, NEW t \in Turns, WriteFails(t) PROVE IInv'
<1>1. GiveUpWrite(t) /\ writer \in {None, t} BY DEF WriteFails
<1>2. writer \notin Turns \ {t} BY <1>1, HistoryAssumption
<1> QED BY <1>1, <1>2, GiveUpKeeps

LEMMA NestedBeginKeeps == ASSUME IInv, NEW t \in Turns, NestedBegin(t) PROVE IInv'
<1>1. GiveUpWrite(t) /\ writer = Abandoned BY DEF NestedBegin
<1>2. writer \notin Turns \ {t} BY <1>1, HistoryAssumption
<1> QED BY <1>1, <1>2, GiveUpKeeps

LEMMA RowIsRow == ASSUME IInv, NEW t \in Turns, pc[t] \in Saving PROVE Row(t) \in Rows
<1>1. rounds[t] \in Nat BY DEF IInv, Shape
<1>2. CASE pc[t] = "saveUser" BY <1>2 DEF Row, Rows
<1>3. CASE pc[t] \in {"saveUse", "saveCut"}
  <2>1. Row(t) = Use(t, rounds[t]) BY <1>3 DEF Row
  <2> QED BY <1>1, <2>1 DEF Rows
<1>4. CASE pc[t] = "saveResult"
  <2>1. Row(t) = Result(t, rounds[t]) BY <1>4 DEF Row
  <2> QED BY <1>1, <2>1 DEF Rows
<1>5. CASE pc[t] = "saveReply" BY <1>5 DEF Row, Rows
<1> QED BY <1>2, <1>3, <1>4, <1>5 DEF Saving

LEMMA InsertMessageKeeps == ASSUME IInv, NEW t \in Turns, InsertMessage(t) PROVE IInv'
<1>1. /\ pc[t] \in Saving /\ writer = None /\ writer' = t
      /\ db' = [db EXCEPT !.rows = Append(@, Row(t))]
      /\ UNCHANGED <<Web, disk, pc, conv, ids, known, seen, split, rounds>>
  BY DEF InsertMessage, loading
<1>2. db = disk /\ db \in Session BY <1>1 DEF IInv, StoreOK
<1>3. Row(t) \in Rows /\ db.rows \in Seq(Rows) BY <1>1, <1>2, RowIsRow DEF Session
<1>4. /\ Append(db.rows, Row(t)) \in Seq(Rows) /\ Len(Append(db.rows, Row(t))) = Len(db.rows) + 1
      /\ \A i \in 1..Len(db.rows) : Append(db.rows, Row(t))[i] = db.rows[i]
  BY <1>3, AppendProperties
<1>5. /\ db'.rows = Append(db.rows, Row(t)) /\ db'.upTo = db.upTo /\ db'.sums = db.sums
      /\ db' \in Session
  BY <1>1, <1>2, <1>4 DEF Session
<1>6. StoreOK'
  <2>1. Len(disk.rows) \in Nat BY <1>2 DEF Session
  <2>2. Extends(disk'.rows, db'.rows) /\ Len(db'.rows) <= Len(disk'.rows) + 1
    BY <1>1, <1>2, <1>4, <1>5, <2>1 DEF Extends
  <2>3. writer' # None BY <1>1, HistoryAssumption
  <2>4. CheckpointHasSummary' BY <1>1 DEF IInv, StoreOK, CheckpointHasSummary
  <2>5. \A s \in db'.sums : s.upTo \in 1..Len(disk'.rows) /\ s.covers = RowsUpTo(disk', s.upTo)
    BY <1>1, <1>5 DEF IInv, StoreOK, RowsUpTo
  <2> QED BY <1>1, <1>5, <2>2, <2>3, <2>4, <2>5 DEF IInv, StoreOK
<1>7. WriterOK'
  <2>1. \A u \in Turns : pc[u] \notin {"summary", "commit"}
    BY <1>1, HistoryAssumption DEF IInv, WriterOK
  <2>2. db'.upTo = disk'.upTo BY <1>1, <1>2, <1>5
  <2> QED BY <1>1, <2>1, <2>2 DEF WriterOK
<1>8. Shape' /\ Others(t) BY <1>1 DEF IInv, Shape, Others
<1>9. \A u \in Turns : TurnOK(u)' BY <1>1, TurnStays, ExtendsItself
<1> QED BY <1>6, <1>7, <1>8, <1>9 DEF IInv

LEMMA AdvanceCheckpointKeeps == ASSUME IInv, NEW t \in Turns, AdvanceCheckpoint(t) PROVE IInv'
<1>1. /\ pc[t] = "checkpoint" /\ writer = None /\ writer' = t /\ db.upTo < LastId(t)
      /\ db' = [db EXCEPT !.upTo = LastId(t)] /\ pc' = [pc EXCEPT ![t] = "summary"]
      /\ UNCHANGED <<Web, disk, conv, ids, known, seen, split, rounds>>
  BY DEF AdvanceCheckpoint, Goto, loading
<1>2. db = disk /\ db \in Session BY <1>1 DEF IInv, StoreOK
<1>3. LastId(t) \in 1..Len(disk.rows) BY <1>1, CoveredIsPrefix
<1>4. Len(disk.rows) \in Nat /\ db.upTo \in Nat /\ LastId(t) \in Nat BY <1>2, <1>3 DEF Session
<1>5. db'.rows = db.rows /\ db'.upTo = LastId(t) /\ db'.sums = db.sums /\ db' \in Session
  BY <1>1, <1>2, <1>4 DEF Session
<1>6. StoreOK'
  <2>1. Extends(disk'.rows, db'.rows) /\ Len(db'.rows) <= Len(disk'.rows) + 1
    BY <1>1, <1>2, <1>5, <1>4 DEF Extends
  <2>2. db'.upTo <= Len(disk'.rows) /\ disk'.upTo <= db'.upTo BY <1>1, <1>2, <1>3, <1>4, <1>5
  <2>3. writer' # None BY <1>1, HistoryAssumption
  <2>4. CheckpointHasSummary' BY <1>1 DEF IInv, StoreOK, CheckpointHasSummary
  <2>5. \A s \in db'.sums : s.upTo \in 1..Len(disk'.rows) /\ s.covers = RowsUpTo(disk', s.upTo)
    BY <1>1, <1>5 DEF IInv, StoreOK, RowsUpTo
  <2> QED BY <1>1, <1>5, <2>1, <2>2, <2>3, <2>4, <2>5 DEF IInv, StoreOK
<1>7. Shape' /\ Others(t) /\ pc'[t] = "summary"
  <2>1. pc' \in [Turns -> Running \cup {"new", "done"}] BY <1>1 DEF IInv, Shape, Running, Writing
  <2> QED BY <1>1, <2>1 DEF IInv, Shape, Others
<1>8. LastId(t)' = LastId(t) BY <1>1 DEF LastId
<1>9. WriterOK'
  <2>1. \A u \in Turns \ {t} : pc'[u] = pc[u] /\ pc[u] \notin {"summary", "commit"}
    BY <1>1, <1>7, HistoryAssumption DEF IInv, WriterOK, Others
  <2> QED BY <1>1, <1>5, <1>7, <1>8, <2>1 DEF WriterOK, Saving
<1>10. TurnOK(t)' BY <1>1, <1>7, <1>8 DEF IInv, TurnOK, HasLoaded
<1>11. \A u \in Turns \ {t} : TurnOK(u)' BY <1>1, <1>7, OthersStay, ExtendsItself
<1> QED BY <1>6, <1>7, <1>9, <1>10, <1>11 DEF IInv

LEMMA InsertSummaryKeeps == ASSUME IInv, NEW t \in Turns, InsertSummary(t) PROVE IInv'
<1> DEFINE new == [upTo |-> LastId(t), covers |-> Covered(t)]
<1>1. /\ pc[t] = "summary" /\ db' = [db EXCEPT !.sums = @ \cup {new}]
      /\ pc' = [pc EXCEPT ![t] = "commit"]
      /\ UNCHANGED <<Web, disk, writer, conv, ids, known, seen, split, rounds>>
  BY DEF InsertSummary, Goto, loading
<1>2. writer = t /\ db.upTo = LastId(t) BY <1>1 DEF IInv, WriterOK
<1>3. LastId(t) \in 1..Len(disk.rows) /\ Covered(t) = RowsUpTo(disk, LastId(t))
  BY <1>1, CoveredIsPrefix
<1>4. db \in Session /\ disk \in Session BY DEF IInv, StoreOK
<1>5. new \in [upTo : Nat, covers : SUBSET Rows]
  <2>1. disk.rows \in Seq(Rows) BY <1>4 DEF Session
  <2>2. \A i \in 1..LastId(t) : disk.rows[i] \in Rows BY <1>3, <2>1
  <2>3. Covered(t) \in SUBSET Rows BY <1>3, <2>2 DEF RowsUpTo
  <2> QED BY <1>3, <2>3
<1>6. new.upTo = LastId(t) /\ new.covers = Covered(t) OBVIOUS
<1> HIDE DEF new
<1>7. db'.rows = db.rows /\ db'.upTo = db.upTo /\ db'.sums = db.sums \cup {new} /\ db' \in Session
  BY <1>1, <1>4, <1>5 DEF Session
<1>8. StoreOK'
  <2>1. \A s \in db'.sums : s.upTo \in 1..Len(disk'.rows) /\ s.covers = RowsUpTo(disk', s.upTo)
    BY <1>1, <1>3, <1>6, <1>7 DEF IInv, StoreOK, RowsUpTo
  <2>2. CheckpointHasSummary' BY <1>1 DEF IInv, StoreOK, CheckpointHasSummary
  <2>3. writer' # None BY <1>1, <1>2, HistoryAssumption
  <2>4. Extends(disk'.rows, db'.rows) /\ Len(db'.rows) <= Len(disk'.rows) + 1
    BY <1>1, <1>7 DEF IInv, StoreOK
  <2>5. db'.upTo <= Len(disk'.rows) /\ disk'.upTo <= db'.upTo /\ disk'.sums \subseteq db'.sums
    BY <1>1, <1>7 DEF IInv, StoreOK
  <2> QED BY <1>1, <1>4, <1>7, <2>1, <2>2, <2>3, <2>4, <2>5 DEF StoreOK
<1>9. Shape' /\ Others(t) /\ pc'[t] = "commit"
  <2>1. pc' \in [Turns -> Running \cup {"new", "done"}] BY <1>1 DEF IInv, Shape, Running, Writing
  <2> QED BY <1>1, <2>1 DEF IInv, Shape, Others
<1>10. WriterOK'
  <2>1. \A u \in Turns \ {t} : pc'[u] = pc[u] /\ pc[u] \notin {"summary", "commit"}
    BY <1>2, <1>9 DEF IInv, WriterOK, Others
  <2>2. \E s \in db'.sums : s.upTo = db'.upTo BY <1>2, <1>6, <1>7
  <2>3. writer' = t BY <1>1, <1>2
  <2> QED BY <1>9, <2>1, <2>2, <2>3 DEF WriterOK, Saving
<1>11. LastId(t)' = LastId(t) BY <1>1 DEF LastId
<1>12. TurnOK(t)' BY <1>1, <1>9, <1>11 DEF IInv, TurnOK, HasLoaded
<1>13. \A u \in Turns \ {t} : TurnOK(u)' BY <1>1, <1>9, OthersStay, ExtendsItself
<1> QED BY <1>8, <1>9, <1>10, <1>12, <1>13 DEF IInv

-----------------------------------------------------------------------------
(* Disconnections and restarts. *)

LEMMA DisconnectKeeps == ASSUME IInv, NEW t \in Turns, Disconnect(t) PROVE IInv'
<1>1. Leave(t) BY DEF Disconnect
<1>2. Shape' /\ Others(t) /\ pc'[t] = "done" BY <1>1, LeaveShape DEF IInv
<1>3. TurnOK(t)' /\ pc'[t] \notin {"summary", "commit"} BY <1>2, FreeTurn DEF Free
<1>4. CASE LeavesOpen(t)
  <2>1. db' = db /\ disk' = disk /\ Web' = Web /\ writer' = Abandoned /\ writer \in {t, None}
    BY <1>4 DEF LeavesOpen
  <2>2. writer' # None /\ writer \notin Turns \ {t} BY <2>1, HistoryAssumption
  <2>3. StoreOK' BY <2>1, <2>2 DEF IInv, StoreOK, CheckpointHasSummary, RowsUpTo
  <2>4. WriterOK' BY <1>2, <1>3, <2>1, <2>2, NobodyWrites
  <2>5. \A u \in Turns \ {t} : TurnOK(u)' BY <1>2, <2>1, OthersStay, ExtendsItself
  <2> QED BY <1>2, <1>3, <2>3, <2>4, <2>5 DEF IInv
<1>5. CASE CommitsLast(t)
  <2>1. /\ pc[t] \in Saving \cup {"commit"} /\ writer = t
        /\ db' = db /\ disk' = db /\ Web' = Web /\ writer' = None
    BY <1>5 DEF CommitsLast
  <2>2. StoreOK' /\ disk' \in Session /\ Extends(disk.rows, disk'.rows) BY <2>1, CommitStore
  <2>3. WriterOK' BY <1>2, <1>3, <2>1, NobodyWrites
  <2>4. \A u \in Turns \ {t} : TurnOK(u)' BY <1>2, <2>1, <2>2, OthersStay
  <2> QED BY <1>2, <1>3, <2>2, <2>3, <2>4 DEF IInv
<1>6. CASE writer # t /\ UNCHANGED store
  BY <1>2, <1>3, <1>6, ReadStep
<1> QED BY <1>4, <1>5, <1>6 DEF Disconnect

LEMMA CrashKeeps == ASSUME IInv, Crash PROVE IInv'
<1>1. /\ db' = disk /\ disk' = disk /\ writer' = None /\ Web' = Web
      /\ pc' = [t \in Turns |-> IF pc[t] = "new" THEN "new" ELSE "done"]
      /\ conv' = [t \in Turns |-> << >>] /\ ids' = [t \in Turns |-> << >>]
      /\ known' = [t \in Turns |-> {}] /\ seen' = [t \in Turns |-> 0]
      /\ split' = [t \in Turns |-> 0] /\ rounds' = [t \in Turns |-> 0]
  BY DEF Crash, store
<1>2. Shape' BY <1>1 DEF Shape
<1>3. StoreOK' BY <1>1, RollbackStore
<1>4. WriterOK' BY <1>1, HistoryAssumption DEF WriterOK
<1>5. ASSUME NEW u \in Turns PROVE TurnOK(u)'
  <2>1. Empty(u)' /\ pc'[u] \in {"new", "done"} BY <1>1 DEF Empty
  <2> QED BY <2>1 DEF TurnOK, HasLoaded
<1> QED BY <1>2, <1>3, <1>4, <1>5 DEF IInv

-----------------------------------------------------------------------------
(* The invariant. *)

LEMMA InitHolds == ASSUME Init PROVE IInv
<1>1. /\ disk \in Pasts /\ db = disk /\ writer = None
      /\ pc = [t \in Turns |-> "new"]
      /\ conv = [t \in Turns |-> << >>] /\ ids = [t \in Turns |-> << >>]
      /\ known = [t \in Turns |-> {}] /\ seen = [t \in Turns |-> 0]
      /\ split = [t \in Turns |-> 0] /\ rounds = [t \in Turns |-> 0]
  BY DEF Init
<1>2. Faithful(disk) BY <1>1, HistoryAssumption
<1>3. /\ disk = [rows |-> disk.rows, upTo |-> disk.upTo, sums |-> disk.sums]
      /\ disk.rows \in Seq(Range(disk.rows)) /\ disk.upTo \in 0..Len(disk.rows)
      /\ disk.sums \in SUBSET [upTo : 1..Len(disk.rows), covers : SUBSET Range(disk.rows)]
  BY <1>2 DEF Faithful
<1>4. Range(disk.rows) \subseteq Rows BY <1>1 DEF Rows
<1>5. disk.rows \in Seq(Rows)
  <2> DEFINE R == Range(disk.rows)
  <2>1. disk.rows \in Seq(R) /\ R \subseteq Rows BY <1>3, <1>4
  <2> HIDE DEF R
  <2> QED BY <2>1
<1>6. Len(disk.rows) \in Nat BY <1>5
<1>7. disk \in Session
  <2>1. disk.upTo \in Nat BY <1>3, <1>6
  <2>2. disk.sums \subseteq [upTo : Nat, covers : SUBSET Rows] BY <1>3, <1>4, <1>6
  <2>3. [rows |-> disk.rows, upTo |-> disk.upTo, sums |-> disk.sums] \in Session
    BY <1>5, <2>1, <2>2 DEF Session
  <2> QED BY <1>3, <2>3
<1>8. StoreOK
  <2>1. Extends(disk.rows, db.rows) /\ Len(db.rows) <= Len(disk.rows) + 1
    BY <1>1, <1>6 DEF Extends
  <2>2. db.upTo <= Len(disk.rows) /\ disk.upTo <= db.upTo BY <1>1, <1>3, <1>6
  <2>3. \A s \in db.sums : s.upTo \in 1..Len(disk.rows) /\ s.covers = RowsUpTo(disk, s.upTo)
    BY <1>1, <1>2, <1>3 DEF Faithful
  <2>4. CheckpointHasSummary BY <1>2 DEF Faithful, CheckpointHasSummary
  <2> QED BY <1>1, <1>7, <2>1, <2>2, <2>3, <2>4 DEF StoreOK
<1>9. Shape BY <1>1 DEF Shape
<1>10. WriterOK BY <1>1, HistoryAssumption DEF WriterOK
<1>11. ASSUME NEW u \in Turns PROVE TurnOK(u)
  <2>1. Empty(u) /\ pc[u] = "new" BY <1>1 DEF Empty
  <2> QED BY <2>1 DEF TurnOK, HasLoaded
<1> QED BY <1>8, <1>9, <1>10, <1>11 DEF IInv

LEMMA StutterKeeps == ASSUME IInv, UNCHANGED vars PROVE IInv'
<1>1. UNCHANGED <<Web, db, disk, writer, pc, conv, ids, known, seen, split, rounds>> BY DEF vars
<1>2. Shape' BY <1>1 DEF IInv, Shape
<1>3. StoreOK' BY <1>1 DEF IInv, StoreOK, CheckpointHasSummary, RowsUpTo
<1>4. WriterOK'
  <2>1. \A u \in Turns : LastId(u)' = LastId(u) BY <1>1 DEF LastId
  <2> QED BY <1>1, <2>1 DEF IInv, WriterOK
<1>5. \A u \in Turns : TurnOK(u)' BY <1>1, TurnStays, ExtendsItself
<1> QED BY <1>2, <1>3, <1>4, <1>5 DEF IInv

LEMMA StepKeeps == ASSUME IInv, [Next]_vars PROVE IInv'
<1>1. CASE UNCHANGED vars BY <1>1, StutterKeeps
<1>2. CASE Crash BY <1>2, CrashKeeps
<1>3. ASSUME NEW t \in Turns,
             \/ Start(t) \/ ReadCheckpoint(t) \/ ReadSummary(t) \/ ReadPage(t)
             \/ ReadLastPage(t) \/ LoadFails(t)
      PROVE  IInv'
  BY <1>3, StartKeeps, ReadCheckpointKeeps, ReadSummaryKeeps, ReadPageKeeps, ReadLastPageKeeps,
     LoadFailsKeeps
<1>4. ASSUME NEW t \in Turns,
             \/ SkipCompaction(t) \/ StartCompaction(t) \/ SummaryFails(t) \/ SummaryArrives(t)
             \/ KeepCheckpoint(t)
      PROVE  IInv'
  BY <1>4, SkipCompactionKeeps, StartCompactionKeeps, SummaryFailsKeeps, SummaryArrivesKeeps,
     KeepCheckpointKeeps
<1>5. ASSUME NEW t \in Turns,
             \/ AdvanceCheckpoint(t) \/ InsertSummary(t) \/ InsertMessage(t) \/ Commit(t)
             \/ WriteFails(t) \/ NestedBegin(t) \/ Disconnect(t)
      PROVE  IInv'
  BY <1>5, AdvanceCheckpointKeeps, InsertSummaryKeeps, InsertMessageKeeps, CommitKeeps,
     WriteFailsKeeps, NestedBeginKeeps, DisconnectKeeps
<1>6. ASSUME NEW t \in Turns,
             \/ AgentCallsTools(t) \/ ToolsReturn(t) \/ AgentStopsMidCall(t)
             \/ AgentReplies(t) \/ AgentGivesNothing(t)
      PROVE  IInv'
  BY <1>6, AgentKeeps
<1> QED BY <1>1, <1>2, <1>3, <1>4, <1>5, <1>6 DEF Next

LEMMA AlwaysIInv == Spec => []IInv
<1>1. Init => IInv BY InitHolds
<1>2. IInv /\ [Next]_vars => IInv' BY StepKeeps
<1> QED BY <1>1, <1>2, PTL DEF Spec

LEMMA IInvImplies == ASSUME IInv PROVE NothingForgotten /\ CheckpointHasSummary
<1>1. Len(disk.rows) \in Nat /\ Len(db.rows) \in Nat /\ Extends(disk.rows, db.rows)
  BY DEF IInv, StoreOK, Session
<1>2. ASSUME NEW s \in db.sums
      PROVE  /\ s.upTo <= Len(disk.rows) /\ s.covers = RowsUpTo(disk, s.upTo)
             /\ s.upTo <= Len(db.rows) /\ s.covers = RowsUpTo(db, s.upTo)
  <2>1. s.upTo \in 1..Len(disk.rows) /\ s.covers = RowsUpTo(disk, s.upTo) BY DEF IInv, StoreOK
  <2>2. \A i \in 1..s.upTo : db.rows[i] = disk.rows[i] BY <1>1, <2>1 DEF Extends
  <2> QED BY <1>1, <2>1, <2>2 DEF RowsUpTo, Extends
<1>3. disk.sums \subseteq db.sums /\ CheckpointHasSummary BY DEF IInv, StoreOK
<1> QED BY <1>2, <1>3 DEF NothingForgotten

(* Whatever overlaps, fails, is cancelled or crashes, a summary stands for *)
(* exactly the rows up to its checkpoint: no message of the history is     *)
(* passed over by a load that starts there (on_compact, chat.py:105-114).  *)
THEOREM NothingIsForgotten == Spec => []NothingForgotten
<1>1. IInv => NothingForgotten BY IInvImplies
<1> QED BY <1>1, AlwaysIInv, PTL

(* The column and the summary it names are committed together              *)
(* (set_compaction_checkpoint, store.py:681-717).                          *)
THEOREM CheckpointAlwaysHasSummary == Spec => []CheckpointHasSummary
<1>1. IInv => CheckpointHasSummary BY IInvImplies
<1> QED BY <1>1, AlwaysIInv, PTL

LEMMA CheckpointStep == ASSUME IInv, [Next]_vars PROVE disk'.upTo >= disk.upTo
<1>1. disk.upTo \in Nat /\ db.upTo \in Nat /\ disk.upTo <= db.upTo
  BY DEF IInv, StoreOK, Session
<1>2. disk' = disk \/ disk' = db
  <2>1. CASE UNCHANGED vars BY <2>1 DEF vars
  <2>2. CASE Crash BY <2>2 DEF Crash
  <2>3. ASSUME NEW t \in Turns,
               \/ Start(t) \/ ReadCheckpoint(t) \/ ReadSummary(t) \/ ReadPage(t)
               \/ ReadLastPage(t) \/ LoadFails(t) \/ SkipCompaction(t) \/ StartCompaction(t)
               \/ SummaryFails(t) \/ SummaryArrives(t) \/ KeepCheckpoint(t)
        PROVE  disk' = disk
    BY <2>3 DEF Start, ReadCheckpoint, ReadSummary, ReadPage, ReadLastPage, LoadFails,
       SkipCompaction, StartCompaction, SummaryFails, SummaryArrives, KeepCheckpoint, store
  <2>4. ASSUME NEW t \in Turns,
               \/ AgentCallsTools(t) \/ ToolsReturn(t) \/ AgentStopsMidCall(t)
               \/ AgentReplies(t) \/ AgentGivesNothing(t)
        PROVE  disk' = disk
    BY <2>4 DEF AgentCallsTools, ToolsReturn, AgentStopsMidCall, AgentReplies,
       AgentGivesNothing, store
  <2>5. ASSUME NEW t \in Turns,
               \/ AdvanceCheckpoint(t) \/ InsertSummary(t) \/ InsertMessage(t)
               \/ WriteFails(t) \/ NestedBegin(t)
        PROVE  disk' = disk
    BY <2>5 DEF AdvanceCheckpoint, InsertSummary, InsertMessage, WriteFails, NestedBegin,
       GiveUpWrite
  <2>6. ASSUME NEW t \in Turns, Commit(t) PROVE disk' = db BY <2>6 DEF Commit
  <2>7. ASSUME NEW t \in Turns, Disconnect(t) PROVE disk' = disk \/ disk' = db
    BY <2>7 DEF Disconnect, LeavesOpen, CommitsLast, store
  <2> QED BY <2>1, <2>2, <2>3, <2>4, <2>5, <2>6, <2>7 DEF Next
<1> QED BY <1>1, <1>2

(* The write of a turn that summarized less, and arrives later, does not   *)
(* take the checkpoint back (store.py:691-695).                            *)
THEOREM CheckpointOnlyAdvances == Spec => CheckpointAdvances
<1>1. IInv /\ [Next]_vars => [disk'.upTo >= disk.upTo]_vars BY CheckpointStep
<1> QED BY <1>1, AlwaysIInv, PTL DEF Spec, CheckpointAdvances

-----------------------------------------------------------------------------
(* Repair mends every conversation.  What it does to a sequence of any length *)
(* follows from where FlattenSeq puts the parts, by the least counterexample. *)

LEMMA LeastElement ==
  ASSUME NEW S \in SUBSET Nat, S # {}
  PROVE  \E m \in S : \A n \in S : m <= n
  <1>. DEFINE T == {0..m : m \in S}  R == StrictSubsetOrdering(Nat)
  <1>1. \A m \in S : 0..m \in FiniteSubsetsOf(Nat)
    <2>. SUFFICES ASSUME NEW m \in S PROVE IsFiniteSet(0..m) /\ 0..m \subseteq Nat
      BY DEF FiniteSubsetsOf
    <2>. QED BY FS_Interval
  <1>2. T \subseteq FiniteSubsetsOf(Nat) /\ T # {}
    BY <1>1
  <1>3. IsWellFoundedOn(R, FiniteSubsetsOf(Nat))
    BY FS_StrictSubsetOrderingWellFounded
  <1>. HIDE DEF T
  <1>4. PICK x \in T : \A y \in T : ~ (<<y, x>> \in R)
    BY <1>2, <1>3, WFMin
  <1>5. PICK m \in S : x = 0..m
    BY DEF T
  <1>6. ASSUME NEW n \in S, n < m PROVE FALSE
    <2>1. 0..n \in T /\ ~ (<<0..n, 0..m>> \in R)
      BY <1>4, <1>5 DEF T
    <2>2. 0..n \in SUBSET Nat /\ 0..m \in SUBSET Nat /\ 0..n \subseteq 0..m
      BY <1>6
    <2>3. m \in 0..m /\ m \notin 0..n
      BY <1>6
    <2>. QED BY <2>1, <2>2, <2>3 DEF StrictSubsetOrdering
  <1>. QED BY <1>6

LEMMA Concatenated ==
  ASSUME NEW S, NEW a \in Seq(S), NEW b \in Seq(S), NEW n \in Nat, Len(a) = n
  PROVE  /\ a \o b \in Seq(S) /\ Len(a \o b) = n + Len(b) /\ Len(b) \in Nat
         /\ \A p \in 1..n : (a \o b)[p] = a[p]
         /\ \A q \in 1..Len(b) : (a \o b)[n + q] = b[q]
  <1>1. a \o b \in Seq(S) /\ Len(a \o b) = n + Len(b) /\ Len(b) \in Nat
    OBVIOUS
  <1>2. \A p \in 1..n : (a \o b)[p] = a[p]
    OBVIOUS
  <1>3. ASSUME NEW q \in 1..Len(b) PROVE (a \o b)[n + q] = b[q]
    <2>1. n + q \in 1..(n + Len(b)) /\ ~(n + q <= n) /\ n + q - n = q
      OBVIOUS
    <2>. QED BY <2>1
  <1>. QED BY <1>1, <1>2, <1>3

LEMMA Rising ==
  ASSUME NEW n \in Nat, NEW at \in [0..n -> Int], \A i \in 1..n : at[i - 1] <= at[i]
  PROVE  \A i, j \in 0..n : i <= j => at[i] <= at[j]
  <1>. SUFFICES ASSUME NEW i \in 0..n, NEW k \in 0..n, i <= k, ~(at[i] <= at[k]) PROVE FALSE
    OBVIOUS
  <1>. DEFINE B == {j \in 0..n : i <= j /\ ~(at[i] <= at[j])}
  <1>1. B \subseteq 0..n /\ 0..n \subseteq Nat /\ k \in B
    OBVIOUS
  <1>2. PICK m \in B : \A j \in B : m <= j
    <2>. HIDE DEF B
    <2>. QED BY <1>1, LeastElement
  <1>3. m \in 0..n /\ i <= m /\ ~(at[i] <= at[m]) /\ at[i] \in Int /\ at[m] \in Int
    OBVIOUS
  <1>4. m # i
    BY <1>3
  <1>5. m - 1 \in 0..n /\ m \in 1..n /\ i <= m - 1 /\ ~(m <= m - 1)
    BY <1>3, <1>4
  <1>6. m - 1 \notin B
    BY <1>2, <1>5
  <1>7. at[i] <= at[m - 1] /\ at[m - 1] <= at[m] /\ at[m - 1] \in Int
    BY <1>5, <1>6
  <1>. QED BY <1>3, <1>7

(* The sequences ss up to each of them, one after the other.                  *)
Joined(ss, n, g) == \A i \in 1..n : g[i] = IF i = 1 THEN ss[1] ELSE g[i - 1] \o ss[i]

LEMMA Joins ==
  ASSUME NEW S, NEW ss \in Seq(Seq(S)), NEW n \in 1..Len(ss)
  PROVE  \E g \in [1..n -> Seq(S)] : Joined(ss, n, g)
  <1>. DEFINE B == {k \in 1..Len(ss) : ~ \E g \in [1..k -> Seq(S)] : Joined(ss, k, g)}
  <1>. SUFFICES ASSUME B # {} PROVE FALSE
    OBVIOUS
  <1>1. B \subseteq 1..Len(ss) /\ 1..Len(ss) \subseteq Nat
    OBVIOUS
  <1>2. PICK m \in B : \A k \in B : m <= k
    <2>. HIDE DEF B
    <2>. QED BY <1>1, LeastElement
  <1>3. m \in 1..Len(ss) /\ ~ \E g \in [1..m -> Seq(S)] : Joined(ss, m, g)
    OBVIOUS
  <1>4. ss[1] \in Seq(S) /\ ss[m] \in Seq(S)
    BY <1>3
  <1>5. CASE m = 1
    <2>. DEFINE g == [i \in 1..1 |-> ss[1]]
    <2>1. g \in [1..1 -> Seq(S)] /\ Joined(ss, 1, g)
      BY <1>4 DEF Joined
    <2>. QED BY <2>1, <1>3, <1>5
  <1>6. CASE m # 1
    <2>. DEFINE k == m - 1
    <2>1. k \in 1..Len(ss) /\ ~(m <= k) /\ k \in Nat /\ m = k + 1 /\ k \in 1..k
      BY <1>3, <1>6
    <2>2. k \notin B
      BY <2>1, <1>2
    <2>3. PICK g \in [1..k -> Seq(S)] : Joined(ss, k, g)
      BY <2>1, <2>2
    <2>. DEFINE h == [i \in 1..m |-> IF i = m THEN g[k] \o ss[m] ELSE g[i]]
    <2>. HIDE DEF k
    <2>4. h \in [1..m -> Seq(S)]
      <3>1. g[k] \o ss[m] \in Seq(S)
        BY <2>1, <1>4
      <3>2. \A i \in 1..m : i = m \/ i \in 1..k
        BY <2>1
      <3>. QED BY <3>1, <3>2
    <2>5. Joined(ss, m, h)
      <3>. SUFFICES ASSUME NEW i \in 1..m PROVE h[i] = IF i = 1 THEN ss[1] ELSE h[i - 1] \o ss[i]
        BY DEF Joined
      <3>1. CASE i = m
        <4>1. i # 1 /\ i - 1 = k /\ k \in 1..m /\ k # m
          BY <3>1, <2>1, <1>6
        <4>. QED BY <4>1, <3>1
      <3>2. CASE i # m
        <4>1. i \in 1..k /\ (i # 1 => i - 1 \in 1..m /\ i - 1 # m)
          BY <3>2, <2>1
        <4>2. g[i] = IF i = 1 THEN ss[1] ELSE g[i - 1] \o ss[i]
          BY <4>1, <2>3 DEF Joined
        <4>3. h[i] = g[i] /\ (i # 1 => h[i - 1] = g[i - 1])
          BY <4>1, <3>2
        <4>. QED BY <4>2, <4>3
      <3>. QED BY <3>1, <3>2
    <2>. QED BY <2>4, <2>5, <1>3
  <1>. QED BY <1>5, <1>6

(* Sequences one after the other: where each begins, and what is at a place.  *)
Places(ss, f, at) ==
  /\ at \in [0..Len(ss) -> Nat] /\ at[0] = 0 /\ Len(f) = at[Len(ss)]
  /\ \A i \in 1..Len(ss) :
       /\ at[i] = at[i - 1] + Len(ss[i])
       /\ \A q \in 1..Len(ss[i]) : at[i - 1] + q \in 1..Len(f) /\ f[at[i - 1] + q] = ss[i][q]
  /\ \A p \in 1..Len(f) : \E i \in 1..Len(ss) : \E q \in 1..Len(ss[i]) : p = at[i - 1] + q

LEMMA JoinedPlaces ==
  ASSUME NEW S, NEW ss \in Seq(Seq(S)), Len(ss) # 0,
         NEW g \in [1..Len(ss) -> Seq(S)], Joined(ss, Len(ss), g)
  PROVE  \E at : Places(ss, g[Len(ss)], at)
  <1>. DEFINE n == Len(ss)   at == [i \in 0..n |-> IF i = 0 THEN 0 ELSE Len(g[i])]
  <1>1. n \in Nat /\ n \in 1..n /\ n \in 0..n
    OBVIOUS
  <1>2. \A i \in 1..n : g[i] \in Seq(S) /\ Len(g[i]) \in Nat /\ ss[i] \in Seq(S) /\ Len(ss[i]) \in Nat
    <2>1. \A i \in 1..n : g[i] \in Seq(S)
      OBVIOUS
    <2>2. \A i \in 1..n : ss[i] \in Seq(S)
      OBVIOUS
    <2>3. \A a \in Seq(S) : Len(a) \in Nat
      OBVIOUS
    <2>. QED BY <2>1, <2>2, <2>3
  <1>j. \A i \in 1..n : g[i] = IF i = 1 THEN ss[1] ELSE g[i - 1] \o ss[i]
    BY DEF Joined
  <1>3. at \in [0..n -> Nat] /\ at[0] = 0 /\ \A i \in 1..n : at[i] = Len(g[i])
    BY <1>2
  <1>4. \A i \in 1..n : i - 1 \in 0..n /\ (i # 1 => i - 1 \in 1..n) /\ i \in 0..n
    BY <1>1
  <1>. HIDE DEF n, at
  <1>5. ASSUME NEW i \in 1..n
        PROVE  /\ at[i] = at[i - 1] + Len(ss[i])
               /\ \A p \in 1..at[i - 1] : g[i][p] = g[i - 1][p]
               /\ \A q \in 1..Len(ss[i]) : g[i][at[i - 1] + q] = ss[i][q]
    <2>1. CASE i = 1
      <3>1. g[i] = ss[i] /\ at[i - 1] = 0
        <4>1. i - 1 = 0
          BY <2>1
        <4>. QED BY <2>1, <4>1, <1>3, <1>j
      <3>2. 1..at[i - 1] = {} /\ \A q \in 1..Len(ss[i]) : at[i - 1] + q = q
        BY <3>1
      <3>. QED BY <3>1, <3>2, <1>2, <1>3
    <2>2. CASE i # 1
      <3>1. g[i] = g[i - 1] \o ss[i]
        BY <2>2, <1>j
      <3>2. i - 1 \in 1..n /\ g[i - 1] \in Seq(S) /\ Len(g[i - 1]) = at[i - 1] /\ at[i - 1] \in Nat
        BY <2>2, <1>2, <1>3, <1>4
      <3>3. ss[i] \in Seq(S)
        BY <1>2
      <3>. DEFINE a == g[i - 1]   b == ss[i]   l == at[i - 1]
      <3>4. a \in Seq(S) /\ b \in Seq(S) /\ l \in Nat /\ Len(a) = l
        BY <3>2, <3>3
      <3>5. g[i] = a \o b /\ at[i] = Len(g[i])
        BY <3>1, <1>3
      <3>. HIDE DEF a, b, l
      <3>6. /\ Len(a \o b) = l + Len(b)
            /\ \A p \in 1..l : (a \o b)[p] = a[p]
            /\ \A q \in 1..Len(b) : (a \o b)[l + q] = b[q]
        <4>1. ASSUME NEW x \in Seq(S), NEW y \in Seq(S)
              PROVE  /\ Len(x \o y) = Len(x) + Len(y)
                     /\ \A p \in 1..Len(x) : (x \o y)[p] = x[p]
                     /\ \A q \in 1..Len(y) : (x \o y)[Len(x) + q] = y[q]
          <5>1. Len(x) \in Nat OBVIOUS
          <5> QED BY <5>1, Concatenated
        <4> QED BY <3>4, <4>1
      <3>7. /\ at[i] = l + Len(b)
            /\ \A p \in 1..l : g[i][p] = a[p]
            /\ \A q \in 1..Len(b) : g[i][l + q] = b[q]
        BY <3>5, <3>6
      <3>. QED BY <3>7 DEF a, b, l
    <2>. QED BY <2>1, <2>2
  <1>6. \A i, j \in 0..n : i <= j => at[i] <= at[j]
    <2>1. \A i \in 1..n : at[i - 1] <= at[i]
      <3>1. \A i \in 1..n : at[i - 1] \in Nat
        BY <1>3, <1>4
      <3>2. \A i \in 1..n : at[i] = at[i - 1] + Len(ss[i]) /\ Len(ss[i]) \in Nat
        BY <1>2, <1>5
      <3>3. \A x, y \in Nat : x <= x + y
        OBVIOUS
      <3>. QED BY <3>1, <3>2, <3>3
    <2>2. at \in [0..n -> Int]
      BY <1>3
    <2>. QED BY <1>1, <2>1, <2>2, Rising
  <1>7. \A i \in 1..n : \A q \in 1..Len(ss[i]) : \A j \in i..n : at[i - 1] + q \in 1..at[j]
    <2>. SUFFICES ASSUME NEW i \in 1..n, NEW q \in 1..Len(ss[i]), NEW j \in i..n
                  PROVE at[i - 1] + q \in 1..at[j]
      OBVIOUS
    <2>1. j \in 0..n /\ i \in 0..n /\ i - 1 \in 0..n /\ i <= j
      BY <1>1
    <2>2. at[i] <= at[j] /\ at[i] = at[i - 1] + Len(ss[i])
      BY <2>1, <1>5, <1>6
    <2>3. at[i] \in Nat /\ at[j] \in Nat /\ at[i - 1] \in Nat /\ Len(ss[i]) \in Nat
      BY <2>1, <1>2, <1>3
    <2>4. q \in Nat /\ q >= 1 /\ q <= Len(ss[i])
      BY <2>3
    <2>. DEFINE u == at[i - 1]  v == at[i]  w == at[j]  l == Len(ss[i])
    <2>5. u \in Nat /\ v \in Nat /\ w \in Nat /\ l \in Nat /\ v <= w /\ v = u + l /\ q <= l
      BY <2>2, <2>3, <2>4
    <2>. HIDE DEF u, v, w, l
    <2>6. u + q \in 1..w
      BY <2>4, <2>5
    <2>. QED BY <2>6 DEF u, w
  <1>8. \A i \in 1..n : \A q \in 1..Len(ss[i]) : g[n][at[i - 1] + q] = ss[i][q]
    <2>. SUFFICES ASSUME NEW i \in 1..n, NEW q \in 1..Len(ss[i]), g[n][at[i - 1] + q] # ss[i][q]
                  PROVE  FALSE
      OBVIOUS
    <2>. DEFINE B == {j \in i..n : g[j][at[i - 1] + q] # ss[i][q]}
    <2>1. B \subseteq i..n /\ i..n \subseteq Nat /\ n \in B
      BY <1>1
    <2>2. PICK m \in B : \A j \in B : m <= j
      <3>. HIDE DEF B
      <3>. QED BY <2>1, LeastElement
    <2>3. m \in i..n /\ g[m][at[i - 1] + q] # ss[i][q]
      OBVIOUS
    <2>4. m # i
      BY <2>3, <1>5
    <2>5. m - 1 \in i..n /\ m \in 1..n /\ ~(m <= m - 1)
      BY <2>3, <2>4, <1>1
    <2>6. m - 1 \notin B
      BY <2>2, <2>5
    <2>7. g[m - 1][at[i - 1] + q] = ss[i][q]
      BY <2>5, <2>6
    <2>8. at[i - 1] + q \in 1..at[m - 1]
      BY <2>5, <1>7
    <2>. QED BY <2>3, <2>5, <2>7, <2>8, <1>5
  <1>9. ASSUME NEW p \in 1..at[n]
        PROVE  \E i \in 1..n : \E q \in 1..Len(ss[i]) : p = at[i - 1] + q
    <2>. DEFINE B == {i \in 1..n : p <= at[i]}
    <2>1. B \subseteq 1..n /\ 1..n \subseteq Nat /\ n \in B
      BY <1>1
    <2>2. PICK m \in B : \A j \in B : m <= j
      <3>. HIDE DEF B
      <3>. QED BY <2>1, LeastElement
    <2>3. m \in 1..n /\ p <= at[m]
      OBVIOUS
    <2>4. at[m - 1] < p /\ at[m - 1] \in Nat
      <3>1. CASE m = 1
        BY <3>1, <1>3
      <3>2. CASE m # 1
        <4>1. m - 1 \in 1..n /\ ~(m <= m - 1)
          BY <3>2, <2>3, <1>4
        <4>2. ~(p <= at[m - 1]) /\ at[m - 1] \in Nat
          BY <4>1, <2>2, <1>2, <1>3
        <4>. QED BY <4>2
      <3>. QED BY <3>1, <3>2
    <2>5. at[m] = at[m - 1] + Len(ss[m]) /\ Len(ss[m]) \in Nat
      BY <2>3, <1>2, <1>5
    <2>6. p - at[m - 1] \in 1..Len(ss[m]) /\ p = at[m - 1] + (p - at[m - 1])
      BY <2>3, <2>4, <2>5
    <2>. QED BY <2>3, <2>6
  <1>10. \A i \in 1..n : n \in i..n
    BY <1>1
  <1>11. Len(g[n]) = at[n]
    BY <1>1, <1>3
  <1>12. Places(ss, g[n], at)
    <2>1. \A i \in 1..n : at[i] = at[i - 1] + Len(ss[i])
      BY <1>5
    <2>2. \A i \in 1..n : \A q \in 1..Len(ss[i]) : at[i - 1] + q \in 1..Len(g[n])
      BY <1>7, <1>10, <1>11
    <2>3. \A p \in 1..Len(g[n]) : \E i \in 1..n : \E q \in 1..Len(ss[i]) : p = at[i - 1] + q
      BY <1>9, <1>11
    <2>4. \A i \in 1..n : /\ at[i] = at[i - 1] + Len(ss[i])
                          /\ \A q \in 1..Len(ss[i]) : at[i - 1] + q \in 1..Len(g[n])
                                                     /\ g[n][at[i - 1] + q] = ss[i][q]
      BY <2>1, <2>2, <1>8
    <2>5. at \in [0..n -> Nat] /\ at[0] = 0 /\ Len(g[n]) = at[n]
      BY <1>3, <1>11
    <2>. QED BY <2>3, <2>4, <2>5 DEF Places, n
  <1>. QED BY <1>12 DEF n

LEMMA Flattened ==
  ASSUME NEW S, NEW ss \in Seq(Seq(S))
  PROVE  FlattenSeq(ss) \in Seq(S) /\ \E at : Places(ss, FlattenSeq(ss), at)
  <1>1. CASE Len(ss) = 0
    <2>1. FlattenSeq(ss) = <<>> /\ ss = <<>>
      BY <1>1 DEF FlattenSeq
    <2>2. Places(ss, <<>>, [i \in 0..0 |-> 0])
      BY <2>1 DEF Places
    <2>. QED BY <2>1, <2>2
  <1>2. CASE Len(ss) # 0
    <2>. DEFINE n == Len(ss)
    <2>1. n \in 1..n /\ n \in Nat /\ n \in 1..Len(ss)
      BY <1>2
    <2>2. PICK g \in [1..n -> Seq(S)] : Joined(ss, n, g)
      BY <2>1, Joins
    <2>. DEFINE e(f) == [i \in 1..n |-> IF i = 1 THEN ss[i] ELSE f[i - 1] \o ss[i]]
                f == CHOOSE f : f = e(f)
    <2>3. g = e(g)
      BY <2>2 DEF Joined
    <2>4. f = e(f)
      BY <2>3
    <2>5. FlattenSeq(ss) = f[n]
      BY <1>2 DEF FlattenSeq
    <2>. HIDE DEF f
    <2>6. \A i \in 1..n : f[i] = IF i = 1 THEN ss[1] ELSE f[i - 1] \o ss[i]
      BY <2>4
    <2>7. \A i \in 1..n : f[i] = g[i]
      <3>. DEFINE B == {i \in 1..n : f[i] # g[i]}
      <3>. SUFFICES ASSUME B # {} PROVE FALSE
        OBVIOUS
      <3>1. B \subseteq 1..n /\ 1..n \subseteq Nat
        BY <2>1
      <3>2. PICK m \in B : \A k \in B : m <= k
        <4>. HIDE DEF B
        <4>. QED BY <3>1, LeastElement
      <3>3. m \in 1..n /\ f[m] # g[m]
        OBVIOUS
      <3>4. /\ f[m] = IF m = 1 THEN ss[1] ELSE f[m - 1] \o ss[m]
            /\ g[m] = IF m = 1 THEN ss[1] ELSE g[m - 1] \o ss[m]
        BY <3>3, <2>2, <2>6 DEF Joined
      <3>5. m # 1
        BY <3>3, <3>4
      <3>6. m - 1 \in 1..n /\ ~(m <= m - 1)
        BY <3>3, <3>5, <2>1
      <3>7. m - 1 \notin B
        BY <3>2, <3>6
      <3>8. f[m - 1] = g[m - 1]
        BY <3>6, <3>7
      <3>. QED BY <3>3, <3>4, <3>5, <3>8
    <2>8. FlattenSeq(ss) = g[n] /\ g[n] \in Seq(S)
      BY <2>1, <2>5, <2>7
    <2>9. \E at : Places(ss, g[n], at)
      BY <1>2, <2>2, JoinedPlaces
    <2>. QED BY <2>8, <2>9
  <1>. QED BY <1>1, <1>2

(* Messages as they are made: the operator's have something in them and no    *)
(* calls, the model's have no answers.                                        *)
Made(N, I) ==
  {m \in [name : N, role : {"user", "assistant"}, uses : SUBSET I, results : SUBSET I, text : BOOLEAN] :
     /\ m.role = "user" => m.uses = {} /\ ~IsEmpty(m)
     /\ m.role = "assistant" => m.results = {}
     /\ IsFiniteSet(m.uses) /\ IsFiniteSet(m.results)}

(* A call is made once, and answered by the next message if anywhere.         *)
Paired(c) ==
  \A i, j \in DOMAIN c :
    /\ c[i].uses \cap c[j].uses # {} => i = j
    /\ c[j].uses \cap c[i].results # {} => i = j + 1

Ids(c) == UNION {c[i].uses \cup c[i].results : i \in DOMAIN c}
Once(c) == \A i, j \in DOMAIN c : c[i].name = c[j].name /\ c[i].name # Inserted => i = j

(* What every pass of the repair keeps.                                       *)
Mends(c, d) ==
  /\ Paired(c) => Paired(d)
  /\ Ids(d) \subseteq Ids(c) /\ AllUses(d) = AllUses(c)
  /\ Once(c) => Once(d)
  /\ \A p \in DOMAIN d : d[p].name = Inserted \/ \E i \in DOMAIN c : c[i].name = d[p].name
  /\ \A i \in DOMAIN c : ~IsEmpty(c[i]) => \E p \in DOMAIN d :
       /\ d[p].name = c[i].name /\ ~IsEmpty(d[p])
       /\ c[i].uses \subseteq d[p].uses /\ c[i].results \cap AllUses(c) \subseteq d[p].results

LEMMA MadeFields ==
  ASSUME NEW N, NEW I, NEW m \in Made(N, I)
  PROVE  /\ m.name \in N /\ m.role \in {"user", "assistant"} /\ m.text \in BOOLEAN
         /\ m.uses \in SUBSET I /\ m.results \in SUBSET I
         /\ m.uses # {} => m.role = "assistant"
         /\ m.results # {} => m.role = "user" /\ IsResult(m)
         /\ m.role = "user" => ~IsEmpty(m)
         /\ IsFiniteSet(m.uses) /\ IsFiniteSet(m.results)
  BY DEF Made, IsResult

LEMMA UsesOf ==
  ASSUME NEW N, NEW I, NEW c \in Seq(Made(N, I))
  PROVE  \A x : x \in AllUses(c) <=> \E i \in 1..Len(c) : x \in c[i].uses
  <1>1. DOMAIN c = 1..Len(c) /\ \A i \in 1..Len(c) : c[i] \in Made(N, I)
    OBVIOUS
  <1>2. \A i \in 1..Len(c) : c[i].uses # {} => c[i].role = "assistant"
    BY <1>1, MadeFields
  <1>. QED BY <1>1, <1>2 DEF AllUses

LEMMA MendsOnward ==
  ASSUME NEW c, NEW d, NEW e, Mends(c, d), Mends(d, e)
  PROVE  Mends(c, e)
  <1>1. \A p \in DOMAIN e : e[p].name = Inserted \/ \E i \in DOMAIN c : c[i].name = e[p].name
    BY DEF Mends
  <1>2. ASSUME NEW i \in DOMAIN c, ~IsEmpty(c[i])
        PROVE  \E p \in DOMAIN e :
                 /\ e[p].name = c[i].name /\ ~IsEmpty(e[p])
                 /\ c[i].uses \subseteq e[p].uses /\ c[i].results \cap AllUses(c) \subseteq e[p].results
    <2>1. PICK q \in DOMAIN d :
            /\ d[q].name = c[i].name /\ ~IsEmpty(d[q])
            /\ c[i].uses \subseteq d[q].uses /\ c[i].results \cap AllUses(c) \subseteq d[q].results
      BY <1>2 DEF Mends
    <2>2. PICK p \in DOMAIN e :
            /\ e[p].name = d[q].name /\ ~IsEmpty(e[p])
            /\ d[q].uses \subseteq e[p].uses /\ d[q].results \cap AllUses(d) \subseteq e[p].results
      BY <2>1 DEF Mends
    <2>3. AllUses(d) = AllUses(c)
      BY DEF Mends
    <2>. QED BY <2>1, <2>2, <2>3
  <1>3. /\ Paired(c) => Paired(e)
        /\ Ids(e) \subseteq Ids(c) /\ AllUses(e) = AllUses(c)
        /\ Once(c) => Once(e)
    BY DEF Mends
  <1>. QED BY <1>1, <1>2, <1>3 DEF Mends

-----------------------------------------------------------------------------
(* The first pass drops empty messages.                                       *)

LEMMA Dropped ==
  ASSUME NEW N, NEW I, NEW c \in Seq(Made(N, I))
  PROVE  /\ DropEmpty(c) \in Seq(Made(N, I))
         /\ \A p \in DOMAIN DropEmpty(c) : ~IsEmpty(DropEmpty(c)[p])
         /\ Mends(c, DropEmpty(c))
  <1>. DEFINE G == Made(N, I)   n == Len(c)   d == DropEmpty(c)
              Gone(i) == c[i].role = "assistant" /\ IsEmpty(c[i])
              ss == [i \in DOMAIN c |-> IF Gone(i) THEN << >> ELSE <<c[i]>>]
  <1>1. n \in Nat /\ DOMAIN c = 1..n /\ \A i \in 1..n : c[i] \in G
    OBVIOUS
  <1>2. ss \in Seq(Seq(G)) /\ Len(ss) = n
    <2>1. \A i \in 1..n : (IF Gone(i) THEN << >> ELSE <<c[i]>>) \in Seq(G)
      <3>1. \A x \in G : <<x>> \in Seq(G)
        OBVIOUS
      <3>. QED BY <1>1, <3>1
    <2>2. ss \in [1..n -> Seq(G)]
      BY <1>1, <2>1
    <2>. QED BY <1>1, <2>2
  <1>3. \A i \in 1..n : /\ Gone(i) => Len(ss[i]) = 0
                        /\ ~Gone(i) => Len(ss[i]) = 1 /\ ss[i][1] = c[i]
    <2>1. \A i \in 1..n : (Gone(i) => ss[i] = << >>) /\ (~Gone(i) => ss[i] = <<c[i]>>)
      BY <1>1
    <2>2. Len(<< >>) = 0 /\ \A x : Len(<<x>>) = 1 /\ <<x>>[1] = x
      OBVIOUS
    <2>. HIDE DEF ss, Gone
    <2>. QED BY <2>1, <2>2
  <1>4. d = FlattenSeq(ss)
    BY DEF DropEmpty
  <1>. HIDE DEF ss, d
  <1>5. d \in Seq(G) /\ \E at : Places(ss, d, at)
    BY <1>2, <1>4, Flattened
  <1>6. PICK at : Places(ss, d, at)
    BY <1>5
  <1>7. at \in [0..n -> Nat] /\ DOMAIN d = 1..Len(d)
    BY <1>2, <1>5, <1>6 DEF Places
  <1>8. \A i \in 1..n : ~Gone(i) =>
          /\ at[i] = at[i - 1] + 1 /\ at[i] \in 1..Len(d) /\ d[at[i]] = c[i]
    <2>. SUFFICES ASSUME NEW i \in 1..n, ~Gone(i)
                  PROVE  at[i] = at[i - 1] + 1 /\ at[i] \in 1..Len(d) /\ d[at[i]] = c[i]
      OBVIOUS
    <2>1. Len(ss[i]) = 1 /\ 1 \in 1..Len(ss[i]) /\ ss[i][1] = c[i]
      <3>1. Len(ss[i]) = 1 /\ ss[i][1] = c[i]
        BY <1>3
      <3>. QED BY <3>1
    <2>2. /\ at[i] = at[i - 1] + Len(ss[i])
          /\ \A q \in 1..Len(ss[i]) : at[i - 1] + q \in 1..Len(d) /\ d[at[i - 1] + q] = ss[i][q]
      BY <1>2, <1>6 DEF Places
    <2>. QED BY <2>1, <2>2
  <1>9. \A p \in 1..Len(d) : \E i \in 1..n : ~Gone(i) /\ p = at[i] /\ d[p] = c[i]
    <2>. SUFFICES ASSUME NEW p \in 1..Len(d) PROVE \E i \in 1..n : ~Gone(i) /\ p = at[i] /\ d[p] = c[i]
      OBVIOUS
    <2>1. PICK i \in 1..n : \E q \in 1..Len(ss[i]) : p = at[i - 1] + q
      BY <1>2, <1>6 DEF Places
    <2>2. ~Gone(i)
      <3>. HIDE DEF Gone
      <3>1. Gone(i) => Len(ss[i]) = 0
        BY <1>3, <2>1
      <3>. QED BY <2>1, <3>1
    <2>3. Len(ss[i]) = 1
      BY <1>3, <2>2
    <2>4. p = at[i - 1] + 1
      BY <2>1, <2>3
    <2>. QED BY <2>2, <2>4, <1>8
  <1>10. \A i \in 1..n : Gone(i) <=> IsEmpty(c[i])
    BY <1>1, MadeFields
  <1>. HIDE DEF Gone
  <1>11. \A p \in 1..Len(d) : ~IsEmpty(d[p])
    BY <1>9, <1>10
  <1>12. Paired(c) => Paired(d)
    <2>. SUFFICES ASSUME Paired(c), NEW p \in 1..Len(d), NEW q \in 1..Len(d)
                  PROVE  /\ d[p].uses \cap d[q].uses # {} => p = q
                         /\ d[q].uses \cap d[p].results # {} => p = q + 1
      BY <1>7 DEF Paired
    <2>1. PICK i \in 1..n : ~Gone(i) /\ p = at[i] /\ d[p] = c[i]
      BY <1>9
    <2>2. PICK j \in 1..n : ~Gone(j) /\ q = at[j] /\ d[q] = c[j]
      BY <1>9
    <2>3. d[p].uses \cap d[q].uses # {} => p = q
      BY <2>1, <2>2, <1>1 DEF Paired
    <2>4. d[q].uses \cap d[p].results # {} => p = q + 1
      <3>. SUFFICES ASSUME d[q].uses \cap d[p].results # {} PROVE p = q + 1
        OBVIOUS
      <3>1. i = j + 1
        BY <2>1, <2>2, <1>1 DEF Paired
      <3>2. i - 1 = j
        BY <3>1
      <3>3. at[i] = at[i - 1] + 1
        BY <2>1, <1>8
      <3>. QED BY <3>2, <3>3, <2>1, <2>2
    <2>. QED BY <2>3, <2>4
  <1>13. Ids(d) \subseteq Ids(c)
    BY <1>1, <1>7, <1>9 DEF Ids
  <1>14. AllUses(d) = AllUses(c)
    <2>1. \A x : x \in AllUses(d) <=> \E i \in 1..Len(d) : x \in d[i].uses
      BY <1>5, UsesOf
    <2>2. \A x : x \in AllUses(c) <=> \E i \in 1..n : x \in c[i].uses
      BY UsesOf
    <2>3. \A i \in 1..n : c[i].uses # {} => ~Gone(i)
      BY <1>10 DEF IsEmpty
    <2>4. \A x : x \in AllUses(d) => x \in AllUses(c)
      BY <2>1, <2>2, <1>9
    <2>5. \A x : x \in AllUses(c) => x \in AllUses(d)
      <3>. SUFFICES ASSUME NEW x, NEW i \in 1..n, x \in c[i].uses PROVE \E p \in 1..Len(d) : x \in d[p].uses
        BY <2>1, <2>2
      <3>. QED BY <2>3, <1>8
    <2>. QED BY <2>4, <2>5
  <1>15. Once(c) => Once(d)
    <2>. SUFFICES ASSUME Once(c), NEW p \in 1..Len(d), NEW q \in 1..Len(d),
                         d[p].name = d[q].name, d[p].name # Inserted
                  PROVE  p = q
      BY <1>7 DEF Once
    <2>1. PICK i \in 1..n : p = at[i] /\ d[p] = c[i]
      BY <1>9
    <2>2. PICK j \in 1..n : q = at[j] /\ d[q] = c[j]
      BY <1>9
    <2>. QED BY <2>1, <2>2, <1>1 DEF Once
  <1>16. \A p \in 1..Len(d) : \E i \in 1..n : c[i].name = d[p].name
    BY <1>9
  <1>17. \A i \in 1..n : ~IsEmpty(c[i]) => at[i] \in 1..Len(d) /\ d[at[i]] = c[i]
    BY <1>8, <1>10
  <1>18. Mends(c, d)
    BY <1>1, <1>7, <1>12, <1>13, <1>14, <1>15, <1>16, <1>17 DEF Mends
  <1>. QED BY <1>5, <1>7, <1>11, <1>18 DEF d

-----------------------------------------------------------------------------
(* The next one answers every call in the message after it.                   *)

LEMMA PatchedFields ==
  ASSUME NEW N, NEW I, NEW c \in Seq(Made(N, I)), NEW i \in 1..Len(c), ~IsEmpty(c[i])
  PROVE  /\ Patched(c, i) \in Made(N, I) /\ ~IsEmpty(Patched(c, i))
         /\ Patched(c, i).name = c[i].name /\ Patched(c, i).uses = c[i].uses
         /\ c[i].results \subseteq Patched(c, i).results
         /\ \A x \in Patched(c, i).results \ c[i].results : i > 1 /\ IsResult(c[i]) /\ x \in Missing(c, i - 1)
         /\ i > 1 /\ IsResult(c[i]) => Missing(c, i - 1) \subseteq Patched(c, i).results
  <1>1. c[i] \in Made(N, I)
    OBVIOUS
  <1>2. CASE ~(i > 1 /\ IsResult(c[i]))
    BY <1>1, <1>2 DEF Patched
  <1>3. CASE i > 1 /\ IsResult(c[i])
    <2>. DEFINE j == i - 1   W == Missing(c, j)   r == c[i].results \cup W   m == [c[i] EXCEPT !.results = r]
    <2>1. j \in 1..Len(c) /\ c[j] \in Made(N, I)
      BY <1>3
    <2>2. W \subseteq c[j].uses
      BY DEF Missing
    <2>3. W \subseteq I /\ IsFiniteSet(W)
      BY <2>1, <2>2, MadeFields, FS_Subset
    <2>4. /\ c[i] \in [name : N, role : {"user", "assistant"}, uses : SUBSET I, results : SUBSET I, text : BOOLEAN]
          /\ c[i].role = "user" /\ c[i].uses = {} /\ c[i].results # {}
          /\ IsFiniteSet(c[i].uses) /\ IsFiniteSet(c[i].results)
      BY <1>1, <1>3 DEF Made, IsResult
    <2>5. r \in SUBSET I /\ IsFiniteSet(r) /\ r # {}
      BY <2>3, <2>4, FS_Union
    <2>6. Patched(c, i) = m
      BY <1>3 DEF Patched
    <2>. HIDE DEF r
    <2>7. /\ m \in [name : N, role : {"user", "assistant"}, uses : SUBSET I, results : SUBSET I, text : BOOLEAN]
          /\ m.name = c[i].name /\ m.role = "user" /\ m.uses = c[i].uses /\ m.results = r
      BY <2>4, <2>5
    <2>8. m \in Made(N, I) /\ ~IsEmpty(m)
      BY <2>4, <2>5, <2>7 DEF Made, IsEmpty
    <2>9. c[i].results \subseteq r /\ W \subseteq r /\ \A x \in r \ c[i].results : x \in W
      BY DEF r
    <2>. QED BY <1>3, <2>6, <2>7, <2>8, <2>9
  <1>. QED BY <1>2, <1>3

LEMMA MissingFields ==
  ASSUME NEW N, NEW I, NEW c \in Seq(Made(N, I)), NEW i \in 1..Len(c)
  PROVE  /\ Missing(c, i) \subseteq c[i].uses /\ Missing(c, i) \subseteq I /\ IsFiniteSet(Missing(c, i))
         /\ i < Len(c) /\ IsResult(c[i + 1]) => ~NeedsMessage(c, i) /\ c[i].uses \ Missing(c, i) \subseteq c[i + 1].results
         /\ NeedsMessage(c, i) => Missing(c, i) # {} /\ Missing(c, i) = c[i].uses
         /\ ~NeedsMessage(c, i) /\ c[i].uses # {} => i < Len(c) /\ IsResult(c[i + 1])
         /\ \A x \in Missing(c, i) : i < Len(c) => x \notin c[i + 1].results
  <1>1. c[i] \in Made(N, I) /\ Len(c) \in Nat
    OBVIOUS
  <1>2. Missing(c, i) \subseteq c[i].uses
    BY DEF Missing
  <1>3. Missing(c, i) \subseteq I /\ IsFiniteSet(Missing(c, i))
    BY <1>1, <1>2, MadeFields, FS_Subset
  <1>4. c[i].uses # {} => c[i].role = "assistant"
    BY <1>1, MadeFields
  <1>5. i < Len(c) => i + 1 \in 1..Len(c) /\ c[i + 1] \in Made(N, I)
    BY <1>1
  <1>6. i < Len(c) => (c[i + 1].results # {} => c[i + 1].role = "user" /\ IsResult(c[i + 1]))
    BY <1>5, MadeFields
  <1>7. i < Len(c) /\ IsResult(c[i + 1]) => ~NeedsMessage(c, i) /\ c[i].uses \ Missing(c, i) \subseteq c[i + 1].results
    BY <1>4 DEF NeedsMessage, Missing
  <1>8. NeedsMessage(c, i) => Missing(c, i) # {} /\ Missing(c, i) = c[i].uses
    BY <1>4, <1>6 DEF NeedsMessage, Missing
  <1>9. ~NeedsMessage(c, i) /\ c[i].uses # {} => i < Len(c) /\ IsResult(c[i + 1])
    BY <1>4, <1>6 DEF NeedsMessage, Missing
  <1>10. \A x \in Missing(c, i) : i < Len(c) => x \notin c[i + 1].results
    BY <1>6 DEF Missing
  <1>. QED BY <1>2, <1>3, <1>7, <1>8, <1>9, <1>10

LEMMA Answered ==
  ASSUME NEW N, NEW I, Inserted \in N, NEW c \in Seq(Made(N, I)),
         \A i \in DOMAIN c : ~IsEmpty(c[i])
  PROVE  /\ AnswerAll(c) \in Seq(Made(N, I))
         /\ \A p \in DOMAIN AnswerAll(c) : ~IsEmpty(AnswerAll(c)[p])
         /\ EveryUseAnswered(AnswerAll(c))
         /\ Mends(c, AnswerAll(c))
  <1>. DEFINE G == Made(N, I)   n == Len(c)   d == AnswerAll(c)
              New(i) == Message(Inserted, "user", {}, Missing(c, i), FALSE)
              ss == [i \in DOMAIN c |->
                       IF NeedsMessage(c, i) THEN <<Patched(c, i), New(i)>> ELSE <<Patched(c, i)>>]
  <1>1. n \in Nat /\ DOMAIN c = 1..n /\ \A i \in 1..n : c[i] \in G /\ ~IsEmpty(c[i])
    OBVIOUS
  <1>p. \A i \in 1..n :
          /\ Patched(c, i) \in G /\ ~IsEmpty(Patched(c, i))
          /\ Patched(c, i).name = c[i].name /\ Patched(c, i).uses = c[i].uses
          /\ c[i].results \subseteq Patched(c, i).results
          /\ \A x \in Patched(c, i).results \ c[i].results : i > 1 /\ IsResult(c[i]) /\ x \in Missing(c, i - 1)
          /\ i > 1 /\ IsResult(c[i]) => Missing(c, i - 1) \subseteq Patched(c, i).results
    BY <1>1, PatchedFields
  <1>m. \A i \in 1..n :
          /\ Missing(c, i) \subseteq c[i].uses /\ Missing(c, i) \subseteq I /\ IsFiniteSet(Missing(c, i))
          /\ i < n /\ IsResult(c[i + 1]) => ~NeedsMessage(c, i) /\ c[i].uses \ Missing(c, i) \subseteq c[i + 1].results
          /\ NeedsMessage(c, i) => Missing(c, i) # {} /\ Missing(c, i) = c[i].uses
          /\ ~NeedsMessage(c, i) /\ c[i].uses # {} => i < n /\ IsResult(c[i + 1])
          /\ \A x \in Missing(c, i) : i < n => x \notin c[i + 1].results
    BY MissingFields
  <1>w. \A i \in 1..n : NeedsMessage(c, i) =>
          /\ New(i) \in G /\ ~IsEmpty(New(i)) /\ New(i).name = Inserted
          /\ New(i).uses = {} /\ New(i).results = c[i].uses
    <2>. SUFFICES ASSUME NEW W \in SUBSET I, IsFiniteSet(W), W # {}
                  PROVE  LET m == Message(Inserted, "user", {}, W, FALSE)
                         IN  m \in G /\ ~IsEmpty(m) /\ m.name = Inserted /\ m.uses = {} /\ m.results = W
      BY <1>m
    <2>. QED BY FS_EmptySet DEF Made, Message, IsEmpty
  <1>2. ss \in Seq(Seq(G)) /\ Len(ss) = n
    <2>1. \A i \in 1..n : ss[i] \in Seq(G)
      <3>1. \A x, y \in G : <<x>> \in Seq(G) /\ <<x, y>> \in Seq(G)
        OBVIOUS
      <3>2. \A i \in 1..n : ss[i] = IF NeedsMessage(c, i) THEN <<Patched(c, i), New(i)>> ELSE <<Patched(c, i)>>
        BY <1>1
      <3>. HIDE DEF ss, New, G
      <3>. QED BY <1>p, <1>w, <3>1, <3>2
    <2>2. ss \in [1..n -> Seq(G)]
      BY <1>1, <2>1
    <2>3. n \in Nat
      OBVIOUS
    <2>. HIDE DEF ss, G, n
    <2>. QED BY <2>2, <2>3
  <1>3. \A i \in 1..n : /\ NeedsMessage(c, i) => Len(ss[i]) = 2 /\ ss[i][1] = Patched(c, i) /\ ss[i][2] = New(i)
                        /\ ~NeedsMessage(c, i) => Len(ss[i]) = 1 /\ ss[i][1] = Patched(c, i)
    <2>1. \A i \in 1..n : ss[i] = IF NeedsMessage(c, i) THEN <<Patched(c, i), New(i)>> ELSE <<Patched(c, i)>>
      BY <1>1
    <2>2. \A x, y : /\ Len(<<x, y>>) = 2 /\ <<x, y>>[1] = x /\ <<x, y>>[2] = y
                    /\ Len(<<x>>) = 1 /\ <<x>>[1] = x
      OBVIOUS
    <2>. HIDE DEF ss, New
    <2>3. ASSUME NEW i \in 1..n, NeedsMessage(c, i)
          PROVE  Len(ss[i]) = 2 /\ ss[i][1] = Patched(c, i) /\ ss[i][2] = New(i)
      <3>1. ss[i] = <<Patched(c, i), New(i)>>
        BY <2>1, <2>3
      <3>. QED BY <3>1, <2>2
    <2>4. ASSUME NEW i \in 1..n, ~NeedsMessage(c, i)
          PROVE  Len(ss[i]) = 1 /\ ss[i][1] = Patched(c, i)
      <3>1. ss[i] = <<Patched(c, i)>>
        BY <2>1, <2>4
      <3>. QED BY <3>1, <2>2
    <2>. QED BY <2>3, <2>4
  <1>4. d = FlattenSeq(ss)
    BY DEF AnswerAll
  <1>. HIDE DEF ss, d, New
  <1>5. d \in Seq(G) /\ \E at : Places(ss, d, at)
    BY <1>2, <1>4, Flattened
  <1>6. PICK at : Places(ss, d, at)
    BY <1>5
  <1>7. at \in [0..n -> Nat] /\ DOMAIN d = 1..Len(d) /\ Len(d) \in Nat
    BY <1>2, <1>5, <1>6 DEF Places
  <1>. DEFINE pos == [i \in 1..n |-> at[i - 1] + 1]
  <1>8. \A i \in 1..n :
          /\ pos[i] \in 1..Len(d) /\ d[pos[i]] = Patched(c, i)
          /\ NeedsMessage(c, i) => pos[i] + 1 \in 1..Len(d) /\ d[pos[i] + 1] = New(i)
          /\ ~NeedsMessage(c, i) => at[i] = pos[i]
    <2>. SUFFICES ASSUME NEW i \in 1..n
                  PROVE  /\ pos[i] \in 1..Len(d) /\ d[pos[i]] = Patched(c, i)
                         /\ NeedsMessage(c, i) => pos[i] + 1 \in 1..Len(d) /\ d[pos[i] + 1] = New(i)
                         /\ ~NeedsMessage(c, i) => at[i] = pos[i]
      OBVIOUS
    <2>1. /\ at[i] = at[i - 1] + Len(ss[i]) /\ at[i - 1] \in Nat
          /\ \A q \in 1..Len(ss[i]) : at[i - 1] + q \in 1..Len(d) /\ d[at[i - 1] + q] = ss[i][q]
      <3>1. i - 1 \in 0..n
        BY <1>1
      <3>. QED BY <3>1, <1>2, <1>6, <1>7 DEF Places
    <2>2. at[i - 1] + 2 = pos[i] + 1 /\ pos[i] = at[i - 1] + 1
      BY <2>1
    <2>. HIDE DEF pos
    <2>i. i \in 1..n
      OBVIOUS
    <2>3. CASE NeedsMessage(c, i)
      <3>1. Len(ss[i]) = 2 /\ ss[i][1] = Patched(c, i) /\ ss[i][2] = New(i)
        BY <2>3, <1>3
      <3>2. 1 \in 1..2 /\ 2 \in 1..2
        OBVIOUS
      <3>. QED BY <2>1, <2>2, <2>3, <3>1, <3>2
    <2>4. CASE ~NeedsMessage(c, i)
      <3>1. Len(ss[i]) = 1 /\ ss[i][1] = Patched(c, i)
        BY <2>4, <1>3
      <3>2. at[i - 1] + 1 \in 1..Len(d) /\ d[at[i - 1] + 1] = ss[i][1]
        BY <2>1, <3>1
      <3>3. at[i] = at[i - 1] + 1
        BY <2>1, <3>1
      <3>. QED BY <2>2, <2>4, <3>1, <3>2, <3>3
    <2>. QED BY <2>3, <2>4
  <1>9. \A p \in 1..Len(d) : \E i \in 1..n :
          \/ p = pos[i] /\ d[p] = Patched(c, i)
          \/ NeedsMessage(c, i) /\ p = pos[i] + 1 /\ d[p] = New(i)
    <2>. SUFFICES ASSUME NEW p \in 1..Len(d)
                  PROVE  \E i \in 1..n : p = pos[i] \/ (NeedsMessage(c, i) /\ p = pos[i] + 1)
      <3>. HIDE DEF pos
      <3>. QED BY <1>8
    <2>0. Len(ss) = n /\ \E i \in 1..Len(ss) : \E q \in 1..Len(ss[i]) : p = at[i - 1] + q
      <3>. HIDE DEF pos
      <3>1. \A r \in 1..Len(d) : \E i \in 1..Len(ss) : \E q \in 1..Len(ss[i]) : r = at[i - 1] + q
        BY <1>6, Zenon DEF Places
      <3>2. Len(ss) = n
        BY <1>2
      <3>. QED BY <3>1, <3>2
    <2>1. PICK i \in 1..n : \E q \in 1..Len(ss[i]) : p = at[i - 1] + q
      BY <2>0
    <2>2. PICK q \in 1..Len(ss[i]) : p = at[i - 1] + q
      BY <2>1
    <2>3. /\ NeedsMessage(c, i) => Len(ss[i]) = 2
          /\ ~NeedsMessage(c, i) => Len(ss[i]) = 1
      <3>. HIDE DEF pos
      <3>. QED BY <1>3, <2>1
    <2>4. at[i - 1] \in Nat
      <3>1. i - 1 \in 0..n
        BY <1>1
      <3>. QED BY <3>1, <1>7
    <2>5. q = 1 \/ (NeedsMessage(c, i) /\ q = 2)
      <3>1. CASE NeedsMessage(c, i)
        <4>1. q \in 1..2
          BY <2>2, <2>3, <3>1
        <4>. QED BY <4>1, <3>1
      <3>2. CASE ~NeedsMessage(c, i)
        <4>1. q \in 1..1
          BY <2>2, <2>3, <3>2
        <4>. QED BY <4>1
      <3>. QED BY <3>1, <3>2
    <2>. QED BY <2>2, <2>4, <2>5
  <1>10. \A i \in 1..n : i < n /\ IsResult(c[i + 1]) => i + 1 \in 1..n /\ pos[i + 1] = pos[i] + 1
    <2>. SUFFICES ASSUME NEW i \in 1..n, i < n, IsResult(c[i + 1])
                  PROVE  i + 1 \in 1..n /\ pos[i + 1] = pos[i] + 1
      OBVIOUS
    <2>1. i + 1 \in 1..n /\ i + 1 - 1 = i
      BY <1>1
    <2>2. ~NeedsMessage(c, i)
      BY <1>m
    <2>3. at[i] = pos[i]
      BY <2>2, <1>8
    <2>. QED BY <2>1, <2>3
  <1>. HIDE DEF pos
  <1>11. \A p \in 1..Len(d) : \A x \in d[p].uses : \E i \in 1..n : p = pos[i] /\ d[p].uses = c[i].uses /\ x \in c[i].uses
    BY <1>9, <1>p, <1>w
  <1>12. \A p \in 1..Len(d) : \A x \in d[p].results : \E i \in 1..n :
           \/ p = pos[i] /\ x \in c[i].results
           \/ p = pos[i] + 1 /\ x \in c[i].uses
    <2>. SUFFICES ASSUME NEW p \in 1..Len(d), NEW x \in d[p].results
                  PROVE  \E i \in 1..n : \/ p = pos[i] /\ x \in c[i].results
                                         \/ p = pos[i] + 1 /\ x \in c[i].uses
      OBVIOUS
    <2>1. PICK i \in 1..n : \/ p = pos[i] /\ d[p] = Patched(c, i)
                            \/ NeedsMessage(c, i) /\ p = pos[i] + 1 /\ d[p] = New(i)
      BY <1>9
    <2>2. CASE NeedsMessage(c, i) /\ p = pos[i] + 1 /\ d[p] = New(i)
      BY <2>2, <1>w
    <2>3. CASE p = pos[i] /\ d[p] = Patched(c, i) /\ x \notin c[i].results
      <3>1. i > 1 /\ IsResult(c[i]) /\ x \in Missing(c, i - 1)
        BY <2>3, <1>p
      <3>2. i - 1 \in 1..n /\ i - 1 < n /\ i - 1 + 1 = i
        BY <3>1, <1>1
      <3>3. pos[i] = pos[i - 1] + 1
        BY <3>1, <3>2, <1>10
      <3>4. x \in c[i - 1].uses
        BY <3>1, <3>2, <1>m
      <3>. QED BY <2>3, <3>2, <3>3, <3>4
    <2>. QED BY <2>1, <2>2, <2>3
  <1>13. \A p \in 1..Len(d) : ~IsEmpty(d[p])
    BY <1>9, <1>p, <1>w
  <1>14. EveryUseAnswered(d)
    <2>. SUFFICES ASSUME NEW p \in 1..Len(d), d[p].uses # {}
                  PROVE  p < Len(d) /\ d[p].uses \subseteq d[p + 1].results
      BY <1>7 DEF EveryUseAnswered
    <2>1. PICK i \in 1..n : p = pos[i] /\ d[p].uses = c[i].uses
      BY <1>11
    <2>. SUFFICES p + 1 \in 1..Len(d) /\ c[i].uses \subseteq d[p + 1].results
      BY <2>1, <1>7
    <2>2. CASE NeedsMessage(c, i)
      BY <2>1, <2>2, <1>8, <1>w
    <2>3. CASE ~NeedsMessage(c, i)
      <3>1. i < n /\ IsResult(c[i + 1])
        BY <2>1, <2>3, <1>m
      <3>2. i + 1 \in 1..n /\ pos[i + 1] = p + 1 /\ i + 1 > 1 /\ i + 1 - 1 = i
        BY <2>1, <3>1, <1>1, <1>10
      <3>3. p + 1 \in 1..Len(d) /\ d[p + 1] = Patched(c, i + 1)
        BY <3>2, <1>8
      <3>4. c[i].uses \ Missing(c, i) \subseteq c[i + 1].results
        BY <3>1, <1>m
      <3>5. c[i + 1].results \subseteq Patched(c, i + 1).results /\ Missing(c, i) \subseteq Patched(c, i + 1).results
        BY <3>1, <3>2, <1>p
      <3>. QED BY <3>3, <3>4, <3>5
    <2>. QED BY <2>2, <2>3
  <1>15. Paired(c) => Paired(d)
    <2>. SUFFICES ASSUME Paired(c), NEW p \in 1..Len(d), NEW q \in 1..Len(d)
                  PROVE  /\ d[p].uses \cap d[q].uses # {} => p = q
                         /\ d[q].uses \cap d[p].results # {} => p = q + 1
      BY <1>7 DEF Paired
    <2>1. \A i, j \in 1..n : \A x : /\ x \in c[i].uses /\ x \in c[j].uses => i = j
                                    /\ x \in c[j].uses /\ x \in c[i].results => i = j + 1
      BY <1>1 DEF Paired
    <2>2. ASSUME NEW x, x \in d[p].uses, x \in d[q].uses PROVE p = q
      <3>1. PICK i \in 1..n : p = pos[i] /\ x \in c[i].uses
        BY <2>2, <1>11
      <3>2. PICK j \in 1..n : q = pos[j] /\ x \in c[j].uses
        BY <2>2, <1>11
      <3>. QED BY <3>1, <3>2, <2>1
    <2>3. ASSUME NEW x, x \in d[q].uses, x \in d[p].results PROVE p = q + 1
      <3>1. PICK j \in 1..n : q = pos[j] /\ x \in c[j].uses
        BY <2>3, <1>11
      <3>2. PICK i \in 1..n : \/ p = pos[i] /\ x \in c[i].results
                              \/ p = pos[i] + 1 /\ x \in c[i].uses
        BY <2>3, <1>12
      <3>3. CASE p = pos[i] + 1 /\ x \in c[i].uses
        BY <3>1, <3>3, <2>1
      <3>4. CASE p = pos[i] /\ x \in c[i].results
        <4>1. i = j + 1
          BY <3>1, <3>4, <2>1
        <4>2. IsResult(c[i])
          BY <3>4, <1>1, MadeFields
        <4>3. j < n
          BY <4>1, <1>1
        <4>. QED BY <3>1, <3>4, <4>1, <4>2, <4>3, <1>10
      <3>. QED BY <3>2, <3>3, <3>4
    <2>. QED BY <2>2, <2>3
  <1>16. Ids(d) \subseteq Ids(c)
    <2>1. \A x : x \in Ids(c) <=> \E i \in 1..n : x \in c[i].uses \cup c[i].results
      BY <1>1 DEF Ids
    <2>2. \A x : x \in Ids(d) <=> \E p \in 1..Len(d) : x \in d[p].uses \cup d[p].results
      BY <1>7 DEF Ids
    <2>. QED BY <2>1, <2>2, <1>11, <1>12
  <1>17. AllUses(d) = AllUses(c)
    <2>1. \A x : x \in AllUses(d) <=> \E i \in 1..Len(d) : x \in d[i].uses
      BY <1>5, UsesOf
    <2>2. \A x : x \in AllUses(c) <=> \E i \in 1..n : x \in c[i].uses
      BY UsesOf
    <2>3. \A x : x \in AllUses(d) => x \in AllUses(c)
      BY <2>1, <2>2, <1>11
    <2>4. \A x : x \in AllUses(c) => x \in AllUses(d)
      BY <2>1, <2>2, <1>8, <1>p
    <2>. QED BY <2>3, <2>4
  <1>18. Once(c) => Once(d)
    <2>. SUFFICES ASSUME Once(c), NEW p \in 1..Len(d), NEW q \in 1..Len(d),
                         d[p].name = d[q].name, d[p].name # Inserted
                  PROVE  p = q
      BY <1>7 DEF Once
    <2>1. PICK i \in 1..n : p = pos[i] /\ d[p].name = c[i].name
      BY <1>9, <1>p, <1>w
    <2>2. PICK j \in 1..n : q = pos[j] /\ d[q].name = c[j].name
      BY <1>9, <1>p, <1>w
    <2>. QED BY <2>1, <2>2, <1>1 DEF Once
  <1>19. \A p \in 1..Len(d) : d[p].name = Inserted \/ \E i \in 1..n : c[i].name = d[p].name
    BY <1>9, <1>p, <1>w
  <1>20. \A i \in 1..n : /\ pos[i] \in 1..Len(d) /\ d[pos[i]].name = c[i].name /\ ~IsEmpty(d[pos[i]])
                         /\ c[i].uses \subseteq d[pos[i]].uses /\ c[i].results \subseteq d[pos[i]].results
    BY <1>8, <1>p
  <1>21. \A i \in 1..n : \E p \in 1..Len(d) :
           /\ d[p].name = c[i].name /\ ~IsEmpty(d[p])
           /\ c[i].uses \subseteq d[p].uses /\ c[i].results \cap AllUses(c) \subseteq d[p].results
    BY <1>20
  <1>22. Mends(c, d)
    BY <1>1, <1>7, <1>15, <1>16, <1>17, <1>18, <1>19, <1>21 DEF Mends
  <1>. QED BY <1>5, <1>7, <1>13, <1>14, <1>22 DEF d

-----------------------------------------------------------------------------
(* The last one keeps of each message the answers to calls that are there.    *)

LEMMA Neutralised ==
  ASSUME NEW N, NEW I, NEW c \in Seq(Made(N, I)),
         \A i \in DOMAIN c : ~IsEmpty(c[i]), EveryUseAnswered(c)
  PROVE  /\ Neutralise(c) \in Seq(Made(N, I))
         /\ \A p \in DOMAIN Neutralise(c) : ~IsEmpty(Neutralise(c)[p])
         /\ EveryUseAnswered(Neutralise(c))
         /\ Paired(c) => EveryResultCalledFor(Neutralise(c))
         /\ Mends(c, Neutralise(c))
  <1>. DEFINE G == Made(N, I)   n == Len(c)   U == AllUses(c)   d == Neutralise(c)
  <1>1. n \in Nat /\ DOMAIN c = 1..n /\ \A i \in 1..n : c[i] \in G /\ ~IsEmpty(c[i])
    OBVIOUS
  <1>2. \A x : x \in U <=> \E i \in 1..n : x \in c[i].uses
    BY UsesOf
  <1>3. DOMAIN d = 1..n /\ \A i \in 1..n :
          d[i] = IF IsResult(c[i]) /\ ~(c[i].results \subseteq U)
                 THEN [c[i] EXCEPT !.results = c[i].results \cap U, !.text = TRUE] ELSE c[i]
    BY <1>1 DEF Neutralise
  <1>. HIDE DEF U, d
  <1>4. ASSUME NEW i \in 1..n
        PROVE  /\ d[i] \in G /\ ~IsEmpty(d[i]) /\ d[i].name = c[i].name /\ d[i].uses = c[i].uses
               /\ d[i].results = c[i].results \cap U
    <2>1. c[i] \in G /\ ~IsEmpty(c[i])
      BY <1>1
    <2>2. CASE IsResult(c[i]) /\ ~(c[i].results \subseteq U)
      <3>. DEFINE r == c[i].results \cap U   m == [c[i] EXCEPT !.results = r, !.text = TRUE]
      <3>1. d[i] = m
        BY <1>3, <2>2
      <3>2. /\ c[i] \in [name : N, role : {"user", "assistant"}, uses : SUBSET I, results : SUBSET I, text : BOOLEAN]
            /\ c[i].role = "user" /\ c[i].uses = {} /\ IsFiniteSet(c[i].uses) /\ IsFiniteSet(c[i].results)
        BY <2>1, <2>2 DEF Made, IsResult
      <3>3. r \in SUBSET I /\ IsFiniteSet(r)
        BY <3>2, FS_Subset
      <3>. HIDE DEF r
      <3>4. /\ m \in [name : N, role : {"user", "assistant"}, uses : SUBSET I, results : SUBSET I, text : BOOLEAN]
            /\ m.name = c[i].name /\ m.role = "user" /\ m.uses = c[i].uses /\ m.results = r /\ m.text
        BY <3>2, <3>3
      <3>5. m \in G /\ ~IsEmpty(m)
        BY <3>2, <3>3, <3>4 DEF Made, IsEmpty
      <3>. QED BY <3>1, <3>4, <3>5 DEF r
    <2>3. CASE ~(IsResult(c[i]) /\ ~(c[i].results \subseteq U))
      <3>1. d[i] = c[i]
        BY <1>3, <2>3
      <3>2. c[i].results # {} => IsResult(c[i])
        BY <2>1, MadeFields
      <3>3. c[i].results \subseteq U
        BY <2>3, <3>2
      <3>. QED BY <2>1, <3>1, <3>3
    <2>. QED BY <2>2, <2>3
  <1>5. d = [i \in 1..n |-> d[i]]
    BY <1>1 DEF d, Neutralise
  <1>6. d \in Seq(G) /\ Len(d) = n
    <2>1. d \in [1..n -> G]
      BY <1>4, <1>5
    <2>. HIDE DEF G, n
    <2>. QED BY <1>1, <2>1
  <1>7. \A i \in 1..n : ~IsEmpty(d[i])
    BY <1>4
  <1>8. EveryUseAnswered(d)
    <2>. SUFFICES ASSUME NEW i \in 1..n, d[i].uses # {} PROVE i < n /\ d[i].uses \subseteq d[i + 1].results
      BY <1>3, <1>6 DEF EveryUseAnswered
    <2>1. c[i].uses # {} /\ d[i].uses = c[i].uses
      BY <1>4
    <2>2. i < n /\ c[i].uses \subseteq c[i + 1].results
      BY <2>1, <1>1 DEF EveryUseAnswered
    <2>3. i + 1 \in 1..n
      BY <2>2, <1>1
    <2>4. d[i + 1].results = c[i + 1].results \cap U
      BY <2>3, <1>4
    <2>. QED BY <2>1, <2>2, <2>4, <1>2
  <1>9. ASSUME Paired(c) PROVE EveryResultCalledFor(d)
    <2>. SUFFICES ASSUME NEW i \in 1..n, NEW x \in d[i].results PROVE i > 1 /\ x \in d[i - 1].uses
      BY <1>3 DEF EveryResultCalledFor
    <2>1. x \in c[i].results /\ x \in U
      BY <1>4
    <2>2. PICK j \in 1..n : x \in c[j].uses
      BY <2>1, <1>2
    <2>3. i = j + 1
      BY <2>1, <2>2, <1>1, <1>9 DEF Paired
    <2>4. i > 1 /\ i - 1 = j
      BY <2>2, <2>3
    <2>. QED BY <2>2, <2>4, <1>4
  <1>10. Paired(c) => Paired(d)
    <2>. SUFFICES ASSUME Paired(c), NEW p \in 1..n, NEW q \in 1..n
                  PROVE  /\ d[p].uses \cap d[q].uses # {} => p = q
                         /\ d[q].uses \cap d[p].results # {} => p = q + 1
      BY <1>3 DEF Paired
    <2>1. d[p].uses = c[p].uses /\ d[q].uses = c[q].uses /\ d[p].results \subseteq c[p].results
      BY <1>4
    <2>2. /\ c[p].uses \cap c[q].uses # {} => p = q
          /\ c[q].uses \cap c[p].results # {} => p = q + 1
      BY <1>1 DEF Paired
    <2>. QED BY <2>1, <2>2
  <1>11. Ids(d) \subseteq Ids(c)
    <2>1. \A x : x \in Ids(c) <=> \E i \in 1..n : x \in c[i].uses \cup c[i].results
      BY <1>1 DEF Ids
    <2>2. \A x : x \in Ids(d) <=> \E i \in 1..n : x \in d[i].uses \cup d[i].results
      BY <1>3 DEF Ids
    <2>. QED BY <2>1, <2>2, <1>4
  <1>12. AllUses(d) = U
    <2>1. \A x : x \in AllUses(d) <=> \E i \in 1..Len(d) : x \in d[i].uses
      BY <1>6, UsesOf
    <2>2. \A i \in 1..n : d[i].uses = c[i].uses
      BY <1>4
    <2>3. \A x : x \in AllUses(d) <=> x \in U
      BY <2>1, <2>2, <1>2, <1>6
    <2>. QED BY <2>3
  <1>13. Once(c) => Once(d)
    <2>1. \A i \in 1..n : d[i].name = c[i].name
      BY <1>4
    <2>. QED BY <2>1, <1>1, <1>3 DEF Once
  <1>14. \A p \in 1..n : \E i \in 1..n : c[i].name = d[p].name
    BY <1>4
  <1>15. \A i \in 1..n : \E p \in 1..n :
           /\ d[p].name = c[i].name /\ ~IsEmpty(d[p])
           /\ c[i].uses \subseteq d[p].uses /\ c[i].results \cap U \subseteq d[p].results
    BY <1>4
  <1>16. Mends(c, d)
    BY <1>1, <1>3, <1>10, <1>11, <1>12, <1>13, <1>14, <1>15 DEF Mends, U
  <1>. QED BY <1>3, <1>6, <1>7, <1>8, <1>9, <1>16 DEF d

LEMMA Repaired ==
  ASSUME NEW N, NEW I, Inserted \in N, NEW c \in Seq(Made(N, I))
  PROVE  /\ Repair(c) \in Seq(Made(N, I))
         /\ NothingEmpty(Repair(c)) /\ EveryUseAnswered(Repair(c))
         /\ Paired(c) => EveryResultCalledFor(Repair(c))
         /\ Mends(c, Repair(c))
  <1>. DEFINE d == DropEmpty(c)   e == AnswerAll(d)   f == Neutralise(e)
  <1>1. d \in Seq(Made(N, I)) /\ (\A p \in DOMAIN d : ~IsEmpty(d[p])) /\ Mends(c, d)
    BY Dropped
  <1>. HIDE DEF d
  <1>2. /\ e \in Seq(Made(N, I)) /\ (\A p \in DOMAIN e : ~IsEmpty(e[p]))
        /\ EveryUseAnswered(e) /\ Mends(d, e)
    BY <1>1, Answered
  <1>. HIDE DEF e
  <1>3. /\ f \in Seq(Made(N, I)) /\ (\A p \in DOMAIN f : ~IsEmpty(f[p])) /\ EveryUseAnswered(f)
        /\ Paired(e) => EveryResultCalledFor(f)
        /\ Mends(e, f)
    BY <1>2, Neutralised
  <1>. HIDE DEF f
  <1>4. Mends(c, e)
    BY <1>1, <1>2, MendsOnward
  <1>5. Mends(c, f)
    BY <1>3, <1>4, MendsOnward
  <1>6. Paired(c) => Paired(e)
    BY <1>4 DEF Mends
  <1>7. NothingEmpty(f)
    BY <1>3 DEF NothingEmpty
  <1>8. Repair(c) = f
    BY DEF Repair, f, e, d
  <1>. QED BY <1>3, <1>5, <1>6, <1>7, <1>8

-----------------------------------------------------------------------------
(* Types, and the answers to the calls of what is sent to the model.          *)

Past == UNION {Range(p.rows) : p \in Pasts}
Calls == (Turns \X Nat) \cup UNION {m.uses \cup m.results : m \in Past}
Messages == Made(Names, Calls)
Tables == [rows : Seq(Messages), upTo : Nat, sums : SUBSET [upTo : Nat, covers : SUBSET Messages]]

Typed ==
  /\ db \in Tables /\ disk \in Tables
  /\ conv \in [Turns -> Seq(Messages)] /\ ids \in [Turns -> Seq(Nat \cup {-1})]
  /\ known \in [Turns -> SUBSET Messages]
  /\ seen \in [Turns -> Nat] /\ split \in [Turns -> Nat] /\ rounds \in [Turns -> 0..MaxRounds]
  /\ overlapped \in BOOLEAN /\ failed \in BOOLEAN
  /\ errors \in 0..MaxErrors /\ crashes \in 0..MaxCrashes

Sent(t) == pc[t] = "call" => EveryUseAnswered(conv[t]) /\ NothingEmpty(conv[t])

TypedInv == Typed /\ \A t \in Turns : Sent(t)

LEMMA OwnMessages ==
  /\ Inserted \in Names
  /\ SystemNote \in Messages /\ SummaryMessage \in Messages
  /\ \A t \in Turns : User(t) \in Messages /\ Reply(t) \in Messages
  /\ \A t \in Turns : \A r \in 0..MaxRounds : Use(t, r) \in Messages /\ Result(t, r) \in Messages
<1>1. Inserted \in Names BY DEF Names
<1>2. \A n \in Names : \A b \in BOOLEAN :
        /\ \A W \in SUBSET Calls : IsFiniteSet(W) /\ (W # {} \/ b) =>
             Message(n, "user", {}, W, b) \in Messages
        /\ \A W \in SUBSET Calls : IsFiniteSet(W) => Message(n, "assistant", W, {}, b) \in Messages
  BY FS_EmptySet DEF Messages, Made, Message, IsEmpty
<1>3. ASSUME NEW t \in Turns, NEW r \in 0..MaxRounds
      PROVE  /\ <<t, "user", 0>> \in Names /\ <<t, "reply", 0>> \in Names
             /\ <<t, "use", r>> \in Names /\ <<t, "result", r>> \in Names
             /\ {<<t, r>>} \in SUBSET Calls /\ IsFiniteSet({<<t, r>>})
  <2>1. MaxRounds \in Nat /\ 0 \in 0..MaxRounds /\ r \in Nat BY HistoryAssumption
  <2>2. IsFiniteSet({<<t, r>>}) BY FS_Singleton
  <2>3. <<t, r>> \in Turns \X Nat BY <2>1
  <2> QED BY <2>1, <2>2, <2>3 DEF Names, Calls
<1>4. ASSUME NEW t \in Turns, NEW r \in 0..MaxRounds
      PROVE  /\ User(t) \in Messages /\ Reply(t) \in Messages
             /\ Use(t, r) \in Messages /\ Result(t, r) \in Messages
  <2>1. {} \in SUBSET Calls /\ IsFiniteSet({}) BY FS_EmptySet
  <2>2. {<<t, r>>} # {} OBVIOUS
  <2> QED BY <1>2, <1>3, <2>1, <2>2 DEF User, Reply, Use, Result
<1>5. SystemNote \in Messages /\ SummaryMessage \in Messages
  <2>1. {} \in SUBSET Calls /\ IsFiniteSet({}) BY FS_EmptySet
  <2> QED BY <1>1, <1>2, <2>1 DEF SystemNote, SummaryMessage
<1>6. 0 \in 0..MaxRounds BY HistoryAssumption
<1> QED BY <1>1, <1>4, <1>5, <1>6

LEMMA PastMessages == \A p \in Pasts : Range(p.rows) \subseteq Messages
<1> SUFFICES ASSUME NEW p \in Pasts, NEW m \in Range(p.rows) PROVE m \in Messages OBVIOUS
<1>1. m \in Past BY DEF Past
<1>2. m.name \in Names BY DEF Names
<1>3. m.uses \in SUBSET Calls /\ m.results \in SUBSET Calls BY <1>1 DEF Calls
<1>4. /\ m = Message(m.name, m.role, m.uses, m.results, m.text) /\ m.text \in BOOLEAN
      /\ IsFiniteSet(m.uses) /\ IsFiniteSet(m.results) /\ ~IsEmpty(m)
      /\ \/ m.role = "user" /\ m.uses = {}
         \/ m.role = "assistant" /\ m.results = {}
  BY PastsAssumption
<1>5. m \in [name : Names, role : {"user", "assistant"}, uses : SUBSET Calls,
             results : SUBSET Calls, text : BOOLEAN]
  BY <1>2, <1>3, <1>4 DEF Message
<1> QED BY <1>4, <1>5 DEF Messages, Made

LEMMA TypedAtFirst == ASSUME Init PROVE TypedInv
<1>1. /\ disk \in Pasts /\ db = disk /\ pc = [t \in Turns |-> "new"]
      /\ conv = [t \in Turns |-> << >>] /\ ids = [t \in Turns |-> << >>]
      /\ known = [t \in Turns |-> {}] /\ seen = [t \in Turns |-> 0]
      /\ split = [t \in Turns |-> 0] /\ rounds = [t \in Turns |-> 0]
      /\ overlapped = FALSE /\ failed = FALSE /\ errors = 0 /\ crashes = 0
  BY DEF Init
<1>2. Faithful(disk) /\ Range(disk.rows) \subseteq Messages
  BY <1>1, HistoryAssumption, PastMessages
<1>3. disk \in Tables
  <2> DEFINE R == Range(disk.rows)
  <2>1. /\ disk = [rows |-> disk.rows, upTo |-> disk.upTo, sums |-> disk.sums]
        /\ disk.rows \in Seq(R) /\ disk.upTo \in 0..Len(disk.rows)
        /\ disk.sums \in SUBSET [upTo : 1..Len(disk.rows), covers : SUBSET R]
    BY <1>2 DEF Faithful
  <2>2. R \subseteq Messages BY <1>2
  <2> HIDE DEF R
  <2>3. disk.rows \in Seq(Messages) BY <2>1, <2>2
  <2>4. Len(disk.rows) \in Nat BY <2>3
  <2>5. disk.upTo \in Nat BY <2>1, <2>4
  <2>6. disk.sums \subseteq [upTo : Nat, covers : SUBSET Messages] BY <2>1, <2>2, <2>4
  <2> QED BY <2>1, <2>3, <2>5, <2>6 DEF Tables
<1>4. 0 \in 0..MaxRounds /\ 0 \in 0..MaxErrors /\ 0 \in 0..MaxCrashes BY HistoryAssumption
<1>5. Typed
  <2>1. << >> \in Seq(Messages) /\ << >> \in Seq(Nat \cup {-1}) OBVIOUS
  <2>2. conv \in [Turns -> Seq(Messages)] BY <1>1, <2>1
  <2>3. ids \in [Turns -> Seq(Nat \cup {-1})] BY <1>1, <2>1
  <2>4. known \in [Turns -> SUBSET Messages] BY <1>1
  <2>5. seen \in [Turns -> Nat] /\ split \in [Turns -> Nat] /\ rounds \in [Turns -> 0..MaxRounds]
    BY <1>1, <1>4
  <2> QED BY <1>1, <1>3, <1>4, <2>2, <2>3, <2>4, <2>5 DEF Typed
<1>6. \A t \in Turns : Sent(t) BY <1>1 DEF Sent
<1> QED BY <1>5, <1>6 DEF TypedInv

(* Every step but a crash is one turn's. *)
Acts(t) ==
  \/ Start(t) \/ ReadCheckpoint(t) \/ ReadSummary(t) \/ ReadPage(t) \/ ReadLastPage(t)
  \/ LoadFails(t) \/ SkipCompaction(t) \/ StartCompaction(t) \/ SummaryFails(t)
  \/ SummaryArrives(t) \/ AdvanceCheckpoint(t) \/ KeepCheckpoint(t) \/ InsertSummary(t)
  \/ InsertMessage(t) \/ Commit(t) \/ WriteFails(t) \/ NestedBegin(t) \/ AgentCallsTools(t)
  \/ ToolsReturn(t) \/ AgentStopsMidCall(t) \/ AgentReplies(t) \/ AgentGivesNothing(t)
  \/ Disconnect(t)

LEMMA Steps == ASSUME Next PROVE Crash \/ \E t \in Turns : Acts(t)
BY DEF Next, Acts

LEMMA ProceedOthers ==
  ASSUME Shape, NEW t \in Turns, Proceed(t)
  PROVE  Others(t) /\ \A u \in Turns \ {t} : rounds'[u] = rounds[u]
<1>1. CASE Leave(t) BY <1>1 DEF Leave, Goto, Shape, Others
<1>2. CASE FinishCompaction(t) BY <1>2, FinishShape DEF FinishCompaction
<1>3. CASE NextCall(t) BY <1>3 DEF NextCall, Goto, loading, Shape, Others
<1>4. CASE UNCHANGED <<conv, loading, split, rounds>> /\ \E p \in {"compact", "readCheckpoint", "tools"} : Goto(t, p)
  BY <1>4 DEF Goto, loading, Shape, Others
<1> QED BY <1>1, <1>2, <1>3, <1>4 DEF Proceed

LEMMA OneActs ==
  ASSUME Shape, NEW t \in Turns, Acts(t)
  PROVE  Others(t) /\ \A u \in Turns \ {t} : rounds'[u] = rounds[u]
<1>1. CASE Start(t) \/ ReadCheckpoint(t) \/ ReadSummary(t) \/ ReadPage(t) \/ StartCompaction(t)
           \/ AdvanceCheckpoint(t) \/ InsertSummary(t) \/ InsertMessage(t)
  BY <1>1 DEF Start, ReadCheckpoint, ReadSummary, ReadPage, StartCompaction, AdvanceCheckpoint,
     InsertSummary, InsertMessage, Goto, loading, Shape, Others
<1>2. CASE ReadLastPage(t)
  <2> DEFINE c == WithPage(t)
             n == Len(c) - (IF t \notin Web /\ c # << >> /\ c[Len(c)].role = "user" THEN 1 ELSE 0)
  <2>1. /\ UNCHANGED <<store, known, seen, split, rounds>>
        /\ conv' = [conv EXCEPT ![t] = SubSeq(c, 1, n)]
        /\ ids' = [ids EXCEPT ![t] = SubSeq(WithPageIds(t), 1, n)]
        /\ pc' = [pc EXCEPT ![t] = IF t \in Web THEN "saveUser" ELSE "compact"]
    BY <1>2 DEF ReadLastPage, Goto
  <2> HIDE DEF c, n
  <2> QED BY <2>1 DEF Shape, Others
<1>3. CASE LoadFails(t)
  BY <1>3 DEF LoadFails, Leave, Goto, Shape, Others
<1>4. CASE SkipCompaction(t) \/ SummaryFails(t)
  BY <1>4 DEF SkipCompaction, SummaryFails, FirstCall, Goto, Shape, Others
<1>5. ASSUME FinishCompaction(t) PROVE Others(t) /\ \A u \in Turns \ {t} : rounds'[u] = rounds[u]
  BY <1>5, FinishShape DEF FinishCompaction
<1>6. CASE SummaryArrives(t)
  <2>1. CASE FinishCompaction(t) BY <2>1, <1>5
  <2>2. CASE Goto(t, "checkpoint") /\ UNCHANGED <<conv, loading, split, rounds>>
    BY <2>2 DEF Goto, loading, Shape, Others
  <2> QED BY <1>6, <2>1, <2>2 DEF SummaryArrives
<1>7. CASE KeepCheckpoint(t) BY <1>7, <1>5 DEF KeepCheckpoint
<1>8. CASE Commit(t) BY <1>8, ProceedOthers DEF Commit
<1>9. ASSUME Leave(t) PROVE Others(t) /\ \A u \in Turns \ {t} : rounds'[u] = rounds[u]
  BY <1>9 DEF Leave, Goto, Shape, Others
<1>10. CASE WriteFails(t) \/ NestedBegin(t)
  BY <1>9, <1>10, ProceedOthers DEF WriteFails, NestedBegin, GiveUpWrite
<1>11. CASE AgentCallsTools(t) \/ ToolsReturn(t) \/ AgentStopsMidCall(t) \/ AgentReplies(t)
  BY <1>11 DEF AgentCallsTools, ToolsReturn, AgentStopsMidCall, AgentReplies, Says, Goto,
     loading, Shape, Others
<1>12. CASE AgentGivesNothing(t) \/ Disconnect(t) BY <1>9, <1>12 DEF AgentGivesNothing, Disconnect
<1> QED BY <1>1, <1>2, <1>3, <1>4, <1>6, <1>7, <1>8, <1>10, <1>11, <1>12 DEF Acts

(* What the turns hold. *)
Held ==
  /\ conv \in [Turns -> Seq(Messages)] /\ ids \in [Turns -> Seq(Nat \cup {-1})]
  /\ known \in [Turns -> SUBSET Messages]
  /\ seen \in [Turns -> Nat] /\ split \in [Turns -> Nat] /\ rounds \in [Turns -> 0..MaxRounds]

LEMMA OneSends ==
  ASSUME TypedInv, NEW t \in Turns, Others(t), Sent(t)'
  PROVE  \A u \in Turns : Sent(u)'
BY DEF TypedInv, Sent, Others

LEMMA RowTyped == ASSUME Typed, NEW t \in Turns, pc[t] \in Saving PROVE Row(t) \in Messages
<1>1. rounds[t] \in 0..MaxRounds BY DEF Typed
<1>2. CASE pc[t] = "saveUser" BY <1>2, OwnMessages DEF Row
<1>3. CASE pc[t] \in {"saveUse", "saveCut"}
  <2>1. Row(t) = Use(t, rounds[t]) BY <1>3 DEF Row
  <2> QED BY <1>1, <2>1, OwnMessages
<1>4. CASE pc[t] = "saveResult"
  <2>1. Row(t) = Result(t, rounds[t]) BY <1>4 DEF Row
  <2> QED BY <1>1, <2>1, OwnMessages
<1>5. CASE pc[t] = "saveReply"
  <2>1. Row(t) = Reply(t) BY <1>5 DEF Row
  <2> QED BY <2>1, OwnMessages
<1> QED BY <1>2, <1>3, <1>4, <1>5 DEF Saving

LEMMA SendsRepaired ==
  ASSUME NEW c \in Seq(Messages)
  PROVE  Repair(c) \in Seq(Messages) /\ EveryUseAnswered(Repair(c)) /\ NothingEmpty(Repair(c))
BY OwnMessages, Repaired DEF Messages

LEMMA LeaveTyped ==
  ASSUME Shape, Held, NEW t \in Turns, Leave(t)
  PROVE  Held' /\ Sent(t)'
<1>1. 0 \in 0..MaxRounds BY HistoryAssumption
<1>2. << >> \in Seq(Messages) /\ << >> \in Seq(Nat \cup {-1}) OBVIOUS
<1>3. conv' \in [Turns -> Seq(Messages)] /\ ids' \in [Turns -> Seq(Nat \cup {-1})]
  BY <1>2 DEF Leave, Held
<1>4. known' \in [Turns -> SUBSET Messages] BY DEF Leave, Held
<1>5. seen' \in [Turns -> Nat] /\ split' \in [Turns -> Nat] /\ rounds' \in [Turns -> 0..MaxRounds]
  BY <1>1 DEF Leave, Held
<1>6. pc'[t] = "done" BY DEF Leave, Goto, Shape
<1> QED BY <1>3, <1>4, <1>5, <1>6 DEF Held, Sent

LEMMA FirstCallTyped ==
  ASSUME Shape, Held, NEW t \in Turns, NEW c \in Seq(Messages), FirstCall(t, c),
         known' \in [Turns -> SUBSET Messages], rounds' = rounds
  PROVE  Held' /\ Sent(t)'
<1> DEFINE d == Append(c, User(t))
<1>1. d \in Seq(Messages) BY OwnMessages
<1>2. conv' = [conv EXCEPT ![t] = Repair(d)] BY DEF FirstCall
<1>3. Repair(d) \in Seq(Messages) /\ EveryUseAnswered(Repair(d)) /\ NothingEmpty(Repair(d))
  BY <1>1, SendsRepaired
<1> HIDE DEF d
<1>4. conv' \in [Turns -> Seq(Messages)] /\ conv'[t] = Repair(d) BY <1>2, <1>3 DEF Held
<1>5. ids' \in [Turns -> Seq(Nat \cup {-1})] BY DEF FirstCall, Held
<1>6. seen' \in [Turns -> Nat] /\ split' \in [Turns -> Nat] BY DEF FirstCall, Held
<1> QED BY <1>3, <1>4, <1>5, <1>6 DEF Held, Sent

LEMMA FinishTyped ==
  ASSUME IInv, Held, NEW t \in Turns, FinishCompaction(t),
         pc[t] \in {"summarize", "checkpoint", "summary", "commit"}
  PROVE  Held' /\ Sent(t)' /\ Covered(t) \subseteq Messages
<1>1. split[t] \in 1..(Len(conv[t]) - 1) BY DEF IInv, TurnOK
<1>2. conv[t] \in Seq(Messages) /\ Len(conv[t]) \in Nat BY DEF Held
<1>3. Covered(t) \subseteq Messages
  <2>1. \A k \in 1..split[t] : conv[t][k] \in Messages BY <1>1, <1>2
  <2> QED BY <2>1 DEF Covered, Held
<1>4. known' \in [Turns -> SUBSET Messages] /\ rounds' = rounds
  BY <1>3 DEF FinishCompaction, Held
<1> DEFINE c == <<SummaryMessage>> \o SubSeq(conv[t], split[t] + 1, Len(conv[t]))
<1>5. c \in Seq(Messages)
  <2>1. SubSeq(conv[t], split[t] + 1, Len(conv[t])) \in Seq(Messages) BY <1>1, <1>2
  <2>2. <<SummaryMessage>> \in Seq(Messages) BY OwnMessages
  <2> QED BY <2>1, <2>2
<1>6. FirstCall(t, c) /\ Shape BY DEF FinishCompaction, IInv
<1> HIDE DEF c
<1> QED BY <1>3, <1>4, <1>5, <1>6, FirstCallTyped

LEMMA ProceedTyped ==
  ASSUME IInv, Held, NEW t \in Turns, Proceed(t)
  PROVE  Held' /\ Sent(t)'
<1>1. CASE Leave(t) BY <1>1, LeaveTyped DEF IInv
<1>2. CASE pc[t] \in {"checkpoint", "summary", "commit"} /\ FinishCompaction(t) BY <1>2, FinishTyped
<1>3. CASE NextCall(t)
  <2> DEFINE c == IF rounds[t] = MaxRounds THEN Append(conv[t], SystemNote) ELSE conv[t]
  <2>1. conv' = [conv EXCEPT ![t] = Repair(c)] /\ UNCHANGED <<ids, known, seen, split, rounds>>
    BY <1>3 DEF NextCall, loading, Held
  <2>2. c \in Seq(Messages) BY OwnMessages DEF Held
  <2>3. Repair(c) \in Seq(Messages) /\ EveryUseAnswered(Repair(c)) /\ NothingEmpty(Repair(c))
    BY <2>2, SendsRepaired
  <2> HIDE DEF c
  <2> QED BY <2>1, <2>3 DEF Held, Sent
<1>4. CASE UNCHANGED <<conv, loading, split, rounds>> /\ \E p \in {"compact", "readCheckpoint", "tools"} : Goto(t, p)
  BY <1>4 DEF Goto, loading, IInv, Shape, Held, Sent
<1> QED BY <1>1, <1>2, <1>3, <1>4 DEF Proceed

LEMMA HeldStays ==
  ASSUME IInv, TypedInv, NEW t \in Turns, Acts(t)
  PROVE  Held' /\ Sent(t)'
<1>1. Held /\ Shape /\ Sent(t) /\ db \in Tables BY DEF IInv, TypedInv, Typed, Held
<1>2. CASE Start(t) \/ ReadCheckpoint(t) \/ AdvanceCheckpoint(t) \/ InsertSummary(t)
  <2>1. UNCHANGED <<conv, ids, known, split, rounds>> /\ (seen' = seen \/ seen' = [seen EXCEPT ![t] = db.upTo])
    BY <1>2 DEF Start, ReadCheckpoint, AdvanceCheckpoint, InsertSummary, loading
  <2>2. db.upTo \in Nat BY <1>1 DEF Tables
  <2>3. Held' BY <1>1, <2>1, <2>2 DEF Held
  <2>4. pc'[t] # "call"
    BY <1>1, <1>2 DEF Start, ReadCheckpoint, AdvanceCheckpoint, InsertSummary, Goto, Shape
  <2> QED BY <2>3, <2>4 DEF Sent
<1>3. CASE InsertMessage(t)
  <2>1. UNCHANGED <<pc, conv, ids, known, seen, split, rounds>> /\ pc[t] # "call"
    BY <1>3 DEF InsertMessage, loading, Saving
  <2> QED BY <1>1, <2>1 DEF Held, Sent
<1>4. CASE StartCompaction(t)
  <2>1. UNCHANGED <<conv, ids, known, seen, rounds>> /\ pc' = [pc EXCEPT ![t] = "summarize"]
    BY <1>4 DEF StartCompaction, Goto, loading
  <2>2. PICK n \in 1..(Len(conv[t]) - 1) : \E k \in 1..n : split' = [split EXCEPT ![t] = k]
    BY <1>4 DEF StartCompaction
  <2>3. split' \in [Turns -> Nat]
    <3>1. Len(conv[t]) \in Nat BY <1>1 DEF Held
    <3> QED BY <1>1, <2>2, <3>1 DEF Held
  <2>4. pc'[t] # "call" BY <1>1, <2>1 DEF Shape
  <2> QED BY <1>1, <2>1, <2>3, <2>4 DEF Held, Sent
<1>5. CASE ReadSummary(t)
  <2>1. UNCHANGED <<split, rounds>> /\ pc' = [pc EXCEPT ![t] = "readPage"]
    BY <1>5 DEF ReadSummary, Goto
  <2>2. \/ \E s \in db.sums :
             /\ conv' = [conv EXCEPT ![t] = <<SummaryMessage>>] /\ ids' = [ids EXCEPT ![t] = <<-1>>]
             /\ known' = [known EXCEPT ![t] = s.covers] /\ seen' = seen
        \/ seen' = [seen EXCEPT ![t] = 0] /\ UNCHANGED <<conv, ids, known>>
    BY <1>5 DEF ReadSummary
  <2>3. <<SummaryMessage>> \in Seq(Messages) /\ <<-1>> \in Seq(Nat \cup {-1}) BY OwnMessages
  <2>4. \A s \in db.sums : s.covers \in SUBSET Messages BY <1>1 DEF Tables
  <2>5. conv' \in [Turns -> Seq(Messages)] BY <1>1, <2>2, <2>3 DEF Held
  <2>6. ids' \in [Turns -> Seq(Nat \cup {-1})] BY <1>1, <2>2, <2>3 DEF Held
  <2>7. known' \in [Turns -> SUBSET Messages] BY <1>1, <2>2, <2>4 DEF Held
  <2>8. seen' \in [Turns -> Nat] BY <1>1, <2>2 DEF Held
  <2>9. pc'[t] # "call" BY <1>1, <2>1 DEF Shape
  <2> QED BY <1>1, <2>1, <2>5, <2>6, <2>7, <2>8, <2>9 DEF Held, Sent
<1>p. ASSUME pc[t] = "readPage"
      PROVE  /\ WithPage(t) \in Seq(Messages) /\ WithPageIds(t) \in Seq(Nat \cup {-1})
             /\ PageEnd(t) \in Nat /\ Len(WithPageIds(t)) = Len(WithPage(t))
  <2>1. /\ conv[t] \in Seq(Messages) /\ ids[t] \in Seq(Nat \cup {-1}) /\ seen[t] \in Nat
        /\ db.rows \in Seq(Messages)
    BY <1>1 DEF Held, Tables
  <2>2. PageEnd(t) \in Nat /\ PageEnd(t) <= Len(db.rows) /\ Len(db.rows) \in Nat
    BY <2>1, HistoryAssumption DEF PageEnd, More
  <2>3. SubSeq(db.rows, seen[t] + 1, PageEnd(t)) \in Seq(Messages)
    <3> DEFINE q == db.rows  m == seen[t] + 1  e == PageEnd(t)
    <3>1. q \in Seq(Messages) /\ m \in 1..(seen[t] + 1) /\ e \in Nat /\ e <= Len(q) BY <2>1, <2>2
    <3>2. \A i \in m..e : q[i] \in Messages BY <2>1, <2>2
    <3>3. m \in Int /\ e \in Int BY <2>1, <2>2
    <3> HIDE DEF q, m, e
    <3>4. SubSeq(q, m, e) \in Seq(Messages) BY <3>2, <3>3, SubSeqProperties
    <3> QED BY <3>4 DEF q, m, e
  <2>4. [i \in 1..(PageEnd(t) - seen[t]) |-> seen[t] + i] \in Seq(Nat \cup {-1})
    <3> DEFINE n == PageEnd(t) - seen[t]  f == [i \in 1..n |-> seen[t] + i]
    <3>1. \A i \in 1..n : seen[t] + i \in Nat \cup {-1} BY <2>1, <2>2
    <3>2. n \in Int BY <2>1, <2>2
    <3> HIDE DEF n
    <3>3. CASE n < 0
      <4>1. 1..n = 1..0 BY <3>2, <3>3
      <4>2. f \in [1..0 -> Nat \cup {-1}] BY <3>1, <4>1
      <4>3. f \in Seq(Nat \cup {-1})
        <5> HIDE DEF f
        <5> QED BY <4>2
      <4> QED BY <4>3 DEF n
    <3>4. CASE n >= 0
      <4>1. n \in Nat BY <3>2, <3>4
      <4>2. f \in [1..n -> Nat \cup {-1}] BY <3>1
      <4>3. f \in Seq(Nat \cup {-1})
        <5> HIDE DEF f
        <5> QED BY <4>1, <4>2
      <4> QED BY <4>3 DEF n
    <3> QED BY <3>2, <3>3, <3>4
  <2>5. PICK b \in Nat, h \in {0, 1} : Loaded(disk.rows, WithPage(t), WithPageIds(t), known[t], b, h)
    BY <1>p, PageLoaded
  <2>6. \A S : \A x, y \in Seq(S) : x \o y \in Seq(S) OBVIOUS
  <2>7. WithPage(t) \in Seq(Messages) BY <2>1, <2>3, <2>6 DEF WithPage
  <2>8. WithPageIds(t) \in Seq(Nat \cup {-1}) BY <2>1, <2>4, <2>6 DEF WithPageIds
  <2> QED BY <2>2, <2>5, <2>7, <2>8 DEF Loaded
<1>6. CASE ReadPage(t)
  <2>1. /\ UNCHANGED <<pc, known, split, rounds>> /\ pc[t] = "readPage"
        /\ conv' = [conv EXCEPT ![t] = WithPage(t)] /\ ids' = [ids EXCEPT ![t] = WithPageIds(t)]
        /\ seen' = [seen EXCEPT ![t] = PageEnd(t)]
    BY <1>6 DEF ReadPage
  <2>2. conv' \in [Turns -> Seq(Messages)] BY <1>1, <1>p, <2>1 DEF Held
  <2>3. ids' \in [Turns -> Seq(Nat \cup {-1})] BY <1>1, <1>p, <2>1 DEF Held
  <2>4. seen' \in [Turns -> Nat] BY <1>1, <1>p, <2>1 DEF Held
  <2> QED BY <1>1, <2>1, <2>2, <2>3, <2>4 DEF Held, Sent
<1>7. CASE ReadLastPage(t)
  <2> DEFINE c == WithPage(t)  z == WithPageIds(t)
             n == Len(c) - (IF t \notin Web /\ c # << >> /\ c[Len(c)].role = "user" THEN 1 ELSE 0)
  <2>1. /\ UNCHANGED <<known, seen, split, rounds>> /\ pc[t] = "readPage"
        /\ conv' = [conv EXCEPT ![t] = SubSeq(c, 1, n)] /\ ids' = [ids EXCEPT ![t] = SubSeq(z, 1, n)]
        /\ pc' = [pc EXCEPT ![t] = IF t \in Web THEN "saveUser" ELSE "compact"]
    BY <1>7 DEF ReadLastPage, Goto
  <2>2. c \in Seq(Messages) /\ z \in Seq(Nat \cup {-1}) /\ Len(z) = Len(c) BY <1>p, <2>1
  <2>3. n \in 0..Len(c)
    <3> HIDE DEF c
    <3>1. Len(c) \in Nat /\ (c # << >> => Len(c) > 0) BY <2>2, EmptySeq
    <3> QED BY <3>1
  <2> HIDE DEF c, z, n
  <2>4. SubSeq(c, 1, n) \in Seq(Messages) /\ SubSeq(z, 1, n) \in Seq(Nat \cup {-1})
    BY <2>2, <2>3
  <2>5. conv' \in [Turns -> Seq(Messages)] BY <1>1, <2>1, <2>4 DEF Held
  <2>6. ids' \in [Turns -> Seq(Nat \cup {-1})] BY <1>1, <2>1, <2>4 DEF Held
  <2>7. pc'[t] # "call" BY <1>1, <2>1 DEF Shape
  <2> QED BY <1>1, <2>1, <2>5, <2>6, <2>7 DEF Held, Sent
<1>8. CASE LoadFails(t)
  <2>1. CASE t \notin Web BY <1>1, <1>8, <2>1, LeaveTyped DEF LoadFails
  <2>2. CASE t \in Web
    <3>1. /\ conv' = [conv EXCEPT ![t] = << >>] /\ ids' = [ids EXCEPT ![t] = << >>]
          /\ known' = [known EXCEPT ![t] = {}] /\ seen' = [seen EXCEPT ![t] = 0]
          /\ pc' = [pc EXCEPT ![t] = "saveUser"] /\ UNCHANGED <<split, rounds>>
      BY <1>8, <2>2 DEF LoadFails, Goto
    <3>2. << >> \in Seq(Messages) /\ << >> \in Seq(Nat \cup {-1}) OBVIOUS
    <3>3. conv' \in [Turns -> Seq(Messages)] BY <1>1, <3>1, <3>2 DEF Held
    <3>4. ids' \in [Turns -> Seq(Nat \cup {-1})] BY <1>1, <3>1, <3>2 DEF Held
    <3>5. pc'[t] # "call" BY <1>1, <3>1 DEF Shape
    <3> QED BY <1>1, <3>1, <3>3, <3>4, <3>5 DEF Held, Sent
  <2> QED BY <2>1, <2>2
<1>9. CASE SkipCompaction(t) \/ SummaryFails(t)
  <2>1. FirstCall(t, conv[t]) /\ UNCHANGED <<known, rounds>> /\ conv[t] \in Seq(Messages)
    BY <1>1, <1>9 DEF SkipCompaction, SummaryFails, Held
  <2>2. known' \in [Turns -> SUBSET Messages] BY <1>1, <2>1 DEF Held
  <2> QED BY <1>1, <2>1, <2>2, FirstCallTyped
<1>10. CASE SummaryArrives(t)
  <2>1. CASE pc[t] = "summarize" /\ FinishCompaction(t) BY <1>1, <2>1, FinishTyped
  <2>2. CASE Goto(t, "checkpoint") /\ UNCHANGED <<conv, loading, split, rounds>>
    BY <1>1, <2>2 DEF Goto, loading, Shape, Held, Sent
  <2> QED BY <1>10, <2>1, <2>2 DEF SummaryArrives
<1>11. CASE KeepCheckpoint(t) BY <1>1, <1>11, FinishTyped DEF KeepCheckpoint
<1>12. CASE Commit(t) BY <1>1, <1>12, ProceedTyped DEF Commit
<1>13. CASE WriteFails(t) \/ NestedBegin(t)
  BY <1>1, <1>13, ProceedTyped, LeaveTyped DEF WriteFails, NestedBegin, GiveUpWrite
<1>14. CASE AgentCallsTools(t) \/ ToolsReturn(t) \/ AgentStopsMidCall(t) \/ AgentReplies(t)
  <2>1. PICK m \in Messages : conv' = [conv EXCEPT ![t] = Append(conv[t], m)]
    <3>1. rounds[t] \in 0..MaxRounds /\ MaxRounds \in Nat BY <1>1, HistoryAssumption DEF Held
    <3>2. CASE AgentCallsTools(t) \/ AgentStopsMidCall(t)
      <4>1. rounds[t] + 1 \in 0..MaxRounds BY <3>1, <3>2 DEF AgentCallsTools, AgentStopsMidCall
      <4>2. Use(t, rounds[t] + 1) \in Messages BY <4>1, OwnMessages
      <4> QED BY <3>2, <4>2 DEF AgentCallsTools, AgentStopsMidCall, Says
    <3>3. CASE ToolsReturn(t)
      <4>1. Result(t, rounds[t]) \in Messages BY <3>1, OwnMessages
      <4> QED BY <3>3, <4>1 DEF ToolsReturn, Says
    <3>4. CASE AgentReplies(t)
      <4>1. Reply(t) \in Messages BY OwnMessages
      <4> QED BY <3>4, <4>1 DEF AgentReplies, Says
    <3> QED BY <1>14, <3>2, <3>3, <3>4
  <2>2. conv[t] \in Seq(Messages) BY <1>1 DEF Held
  <2>3. Append(conv[t], m) \in Seq(Messages) BY <2>1, <2>2
  <2>4. conv' \in [Turns -> Seq(Messages)] BY <1>1, <2>1, <2>3 DEF Held
  <2>5. rounds' \in [Turns -> 0..MaxRounds]
    <3>1. rounds[t] \in 0..MaxRounds /\ MaxRounds \in Nat BY <1>1, HistoryAssumption DEF Held
    <3>2. \/ rounds' = rounds
          \/ rounds' = [rounds EXCEPT ![t] = rounds[t] + 1] /\ rounds[t] + 1 \in 0..MaxRounds
      BY <1>14, <3>1 DEF AgentCallsTools, ToolsReturn, AgentStopsMidCall, AgentReplies
    <3> QED BY <1>1, <3>2 DEF Held
  <2>6. UNCHANGED <<ids, known, seen, split>>
    BY <1>14 DEF AgentCallsTools, ToolsReturn, AgentStopsMidCall, AgentReplies, loading
  <2>7. pc'[t] # "call"
    BY <1>1, <1>14 DEF AgentCallsTools, ToolsReturn, AgentStopsMidCall, AgentReplies, Goto, Shape
  <2> QED BY <1>1, <2>4, <2>5, <2>6, <2>7 DEF Held, Sent
<1>15. CASE AgentGivesNothing(t) \/ Disconnect(t)
  BY <1>1, <1>15, LeaveTyped DEF AgentGivesNothing, Disconnect
<1> QED BY <1>2, <1>3, <1>4, <1>5, <1>6, <1>7, <1>8, <1>9, <1>10, <1>11, <1>12, <1>13, <1>14, <1>15
        DEF Acts

LEMMA TablesStay ==
  ASSUME IInv, TypedInv, NEW t \in Turns, Acts(t)
  PROVE  db' \in Tables /\ disk' \in Tables
<1>1. db \in Tables /\ disk \in Tables /\ Held BY DEF TypedInv, Typed, Held
<1>2. CASE InsertMessage(t)
  <2>1. db' = [db EXCEPT !.rows = Append(db.rows, Row(t))] /\ disk' = disk /\ pc[t] \in Saving
    BY <1>2 DEF InsertMessage
  <2>2. Row(t) \in Messages BY <2>1, RowTyped DEF TypedInv
  <2>3. Append(db.rows, Row(t)) \in Seq(Messages) BY <1>1, <2>2 DEF Tables
  <2> QED BY <1>1, <2>1, <2>3 DEF Tables
<1>3. CASE AdvanceCheckpoint(t)
  <2>1. db' = [db EXCEPT !.upTo = LastId(t)] /\ disk' = disk /\ pc[t] = "checkpoint"
    BY <1>3 DEF AdvanceCheckpoint
  <2>2. LastId(t) \in 1..Len(disk.rows) BY <2>1, CoveredIsPrefix
  <2>3. Len(disk.rows) \in Nat BY <1>1 DEF Tables
  <2>4. LastId(t) \in Nat BY <2>2, <2>3
  <2> QED BY <1>1, <2>1, <2>4 DEF Tables
<1>4. CASE InsertSummary(t)
  <2> DEFINE x == [upTo |-> LastId(t), covers |-> Covered(t)]
  <2>1. db' = [db EXCEPT !.sums = db.sums \cup {x}] /\ disk' = disk /\ pc[t] = "summary"
    BY <1>4 DEF InsertSummary
  <2>2. LastId(t) \in 1..Len(disk.rows) /\ Covered(t) = RowsUpTo(disk, LastId(t))
    BY <2>1, CoveredIsPrefix
  <2>3. disk.rows \in Seq(Messages) /\ Len(disk.rows) \in Nat BY <1>1 DEF Tables
  <2>4. LastId(t) \in Nat /\ \A i \in 1..LastId(t) : disk.rows[i] \in Messages BY <2>2, <2>3
  <2>5. Covered(t) \subseteq Messages BY <2>2, <2>4 DEF RowsUpTo
  <2>6. x \in [upTo : Nat, covers : SUBSET Messages] BY <2>4, <2>5
  <2> HIDE DEF x
  <2> QED BY <1>1, <2>1, <2>6 DEF Tables
<1>5. CASE ~(InsertMessage(t) \/ AdvanceCheckpoint(t) \/ InsertSummary(t))
  <2>1. db' \in {db, disk} /\ disk' \in {db, disk}
    <3>1. CASE UNCHANGED store BY <3>1 DEF store
    <3>2. CASE Commit(t) BY <3>2 DEF Commit
    <3>3. CASE WriteFails(t) \/ NestedBegin(t) BY <3>3 DEF WriteFails, NestedBegin, GiveUpWrite
    <3>4. CASE Disconnect(t) BY <3>4 DEF Disconnect, LeavesOpen, CommitsLast, store
    <3>5. CASE \/ Start(t) \/ ReadCheckpoint(t) \/ ReadSummary(t) \/ ReadPage(t) \/ ReadLastPage(t)
               \/ LoadFails(t) \/ SkipCompaction(t) \/ StartCompaction(t) \/ SummaryFails(t)
               \/ SummaryArrives(t) \/ KeepCheckpoint(t) \/ AgentCallsTools(t) \/ ToolsReturn(t)
               \/ AgentStopsMidCall(t) \/ AgentReplies(t) \/ AgentGivesNothing(t)
      <4>1. UNCHANGED store
        BY <3>5 DEF Start, ReadCheckpoint, ReadSummary, ReadPage, ReadLastPage, LoadFails,
           SkipCompaction, StartCompaction, SummaryFails, SummaryArrives, KeepCheckpoint,
           AgentCallsTools, ToolsReturn, AgentStopsMidCall, AgentReplies, AgentGivesNothing
      <4> QED BY <4>1 DEF store
    <3> QED BY <1>5, <3>2, <3>3, <3>4, <3>5 DEF Acts
  <2> QED BY <1>1, <2>1
<1> QED BY <1>2, <1>3, <1>4, <1>5

LEMMA CountersStay ==
  ASSUME TypedInv, NEW t \in Turns, Acts(t)
  PROVE  /\ overlapped' \in BOOLEAN /\ failed' \in BOOLEAN
         /\ errors' \in 0..MaxErrors /\ crashes' \in 0..MaxCrashes
<1>1. /\ overlapped \in BOOLEAN /\ failed \in BOOLEAN
      /\ errors \in 0..MaxErrors /\ crashes \in 0..MaxCrashes
  BY DEF TypedInv, Typed
<1>2. CASE Start(t)
  <2>1. UNCHANGED <<failed, errors, crashes>> BY <1>2 DEF Start, limits
  <2>2. overlapped' = (overlapped \/ \E u \in Turns : pc[u] \in Running) BY <1>2 DEF Start
  <2> QED BY <1>1, <2>1, <2>2
<1>3. CASE LoadFails(t) \/ WriteFails(t) \/ NestedBegin(t)
  <2>1. overlapped' = overlapped /\ crashes' = crashes /\ failed' = TRUE
    BY <1>3 DEF LoadFails, WriteFails, NestedBegin, GiveUpWrite
  <2>2. errors' = errors \/ (errors < MaxErrors /\ errors' = errors + 1)
    BY <1>3 DEF LoadFails, WriteFails, NestedBegin
  <2>3. errors' \in 0..MaxErrors BY <1>1, <2>2, HistoryAssumption
  <2> QED BY <1>1, <2>1, <2>3
<1>4. CASE ~(Start(t) \/ LoadFails(t) \/ WriteFails(t) \/ NestedBegin(t))
  <2>1. UNCHANGED <<overlapped, failed, errors, crashes>>
    BY <1>4 DEF Acts, ReadCheckpoint, ReadSummary, ReadPage, ReadLastPage, SkipCompaction,
       StartCompaction, SummaryFails, SummaryArrives, AdvanceCheckpoint, KeepCheckpoint,
       InsertSummary, InsertMessage, Commit, AgentCallsTools, ToolsReturn, AgentStopsMidCall,
       AgentReplies, AgentGivesNothing, Disconnect, flags, limits
  <2> QED BY <1>1, <2>1
<1> QED BY <1>2, <1>3, <1>4

LEMMA TypedStays == ASSUME IInv, TypedInv, [Next]_vars PROVE TypedInv'
<1>1. CASE UNCHANGED vars BY <1>1 DEF vars, TypedInv, Typed, Sent
<1>2. CASE Crash
  <2>1. /\ db' = disk /\ disk' = disk /\ overlapped' = overlapped /\ failed' = failed
        /\ errors' = errors /\ crashes < MaxCrashes /\ crashes' = crashes + 1
        /\ pc' = [t \in Turns |-> IF pc[t] = "new" THEN "new" ELSE "done"]
        /\ conv' = [t \in Turns |-> << >>] /\ ids' = [t \in Turns |-> << >>]
        /\ known' = [t \in Turns |-> {}] /\ seen' = [t \in Turns |-> 0]
        /\ split' = [t \in Turns |-> 0] /\ rounds' = [t \in Turns |-> 0]
    BY <1>2 DEF Crash, flags
  <2>2. << >> \in Seq(Messages) /\ << >> \in Seq(Nat \cup {-1}) /\ 0 \in 0..MaxRounds
    BY HistoryAssumption
  <2>3. conv' \in [Turns -> Seq(Messages)] BY <2>1, <2>2
  <2>4. ids' \in [Turns -> Seq(Nat \cup {-1})] BY <2>1, <2>2
  <2>5. known' \in [Turns -> SUBSET Messages] BY <2>1
  <2>6. seen' \in [Turns -> Nat] /\ split' \in [Turns -> Nat] /\ rounds' \in [Turns -> 0..MaxRounds]
    BY <2>1, <2>2
  <2>7. crashes' \in 0..MaxCrashes BY <2>1, HistoryAssumption DEF TypedInv, Typed
  <2>8. \A t \in Turns : Sent(t)' BY <2>1 DEF Sent
  <2>9. Typed' BY <2>1, <2>3, <2>4, <2>5, <2>6, <2>7 DEF TypedInv, Typed
  <2> QED BY <2>8, <2>9 DEF TypedInv
<1>3. ASSUME NEW t \in Turns, Acts(t) PROVE TypedInv'
  <2>1. Others(t) BY <1>3, OneActs DEF IInv
  <2>2. Held' /\ Sent(t)' BY <1>3, HeldStays
  <2>3. db' \in Tables /\ disk' \in Tables BY <1>3, TablesStay
  <2>4. /\ overlapped' \in BOOLEAN /\ failed' \in BOOLEAN
        /\ errors' \in 0..MaxErrors /\ crashes' \in 0..MaxCrashes
    BY <1>3, CountersStay
  <2>5. \A u \in Turns : Sent(u)' BY <2>1, <2>2, OneSends
  <2>6. Typed' BY <2>2, <2>3, <2>4 DEF Held, Typed
  <2> QED BY <2>5, <2>6 DEF TypedInv
<1> QED BY <1>1, <1>2, <1>3, Steps

LEMMA AlwaysTyped == Spec => []TypedInv
<1>1. Init => TypedInv BY TypedAtFirst
<1>2. IInv /\ TypedInv /\ [Next]_vars => TypedInv' BY TypedStays
<1> QED BY <1>1, <1>2, AlwaysIInv, PTL DEF Spec

LEMMA MessagesOK == \A m \in Messages : MessageOK(m)
BY DEF Messages, Made, MessageOK

LEMMA TypedImplies == ASSUME IInv, TypedInv PROVE TypeOK
<1>1. /\ db \in Tables /\ disk \in Tables /\ Held /\ WriterOK /\ Shape
      /\ overlapped \in BOOLEAN /\ failed \in BOOLEAN
      /\ errors \in 0..MaxErrors /\ crashes \in 0..MaxCrashes
  BY DEF IInv, TypedInv, Typed, Held
<1>2. ASSUME NEW d \in {db, disk}
      PROVE  /\ \A i \in DOMAIN d.rows : MessageOK(d.rows[i])
             /\ d.upTo \in 0..Len(d.rows)
             /\ \A s \in d.sums : s.upTo \in 1..Len(d.rows) /\ \A m \in s.covers : MessageOK(m)
  <2>1. d \in Tables /\ Len(d.rows) \in Nat BY <1>1 DEF Tables
  <2>2. \A i \in DOMAIN d.rows : d.rows[i] \in Messages BY <2>1 DEF Tables
  <2>3. Len(disk.rows) <= Len(db.rows) /\ Len(disk.rows) \in Nat /\ Len(db.rows) \in Nat
    BY <1>1 DEF IInv, StoreOK, Extends, Tables
  <2>4. d.upTo \in 0..Len(d.rows)
    <3>1. db.upTo <= Len(disk.rows) /\ disk.upTo <= db.upTo /\ db.upTo \in Nat /\ disk.upTo \in Nat
      BY <1>1 DEF IInv, StoreOK, Tables
    <3> QED BY <2>3, <3>1
  <2>5. ASSUME NEW s \in d.sums PROVE s.upTo \in 1..Len(d.rows) /\ s.covers \subseteq Messages
    <3>1. s \in db.sums BY DEF IInv, StoreOK
    <3>2. s.upTo \in 1..Len(disk.rows) BY <3>1 DEF IInv, StoreOK
    <3>3. s.covers \subseteq Messages BY <2>1 DEF Tables
    <3> QED BY <2>3, <3>2, <3>3
  <2> QED BY <2>2, <2>4, <2>5, MessagesOK
<1>3. ASSUME NEW t \in Turns
      PROVE  /\ \A i \in DOMAIN conv[t] : MessageOK(conv[t][i])
             /\ ids[t] \in Seq(Nat \cup {-1})
             /\ \A m \in known[t] : MessageOK(m)
  <2>1. conv[t] \in Seq(Messages) /\ ids[t] \in Seq(Nat \cup {-1}) /\ known[t] \subseteq Messages
    BY <1>1 DEF Held
  <2>2. \A i \in DOMAIN conv[t] : conv[t][i] \in Messages BY <2>1
  <2> QED BY <2>1, <2>2, MessagesOK
<1>4. /\ writer \in Turns \cup {None, Abandoned} /\ pc \in [Turns -> Running \cup {"new", "done"}]
      /\ seen \in [Turns -> Nat] /\ split \in [Turns -> Nat] /\ rounds \in [Turns -> 0..MaxRounds]
  BY <1>1 DEF WriterOK, Shape, Held
<1> QED BY <1>1, <1>2, <1>3, <1>4 DEF TypeOK

(* The checkpoint is a row's id, or 0, and a turn's list of rows has no    *)
(* other ids than theirs and -1 (load_session_with_ids).                   *)
THEOREM TypesAreRight == Spec => []TypeOK
<1>1. IInv /\ TypedInv => TypeOK BY TypedImplies
<1> QED BY <1>1, AlwaysIInv, AlwaysTyped, PTL

(* However turns overlap, whatever was cut off, lost or summarized, every  *)
(* tool call sent to the model is answered by the message after it         *)
(* (_repair_conversation, agent.py:757-874).                               *)
THEOREM EveryCallIsAnswered == Spec => []UsesAnswered
<1>1. TypedInv => UsesAnswered BY DEF TypedInv, Sent, UsesAnswered
<1> QED BY <1>1, AlwaysTyped, PTL

-----------------------------------------------------------------------------
(* Conversations of turns that do not overlap: every call is made once and    *)
(* answered, if at all, by the next message, in the store and in what is sent. *)

Below(c, t, n) == \A k \in Nat : <<t, k>> \in Ids(c) => k <= n
LastUse(c, x) == \A i \in DOMAIN c : x \in c[i].uses => i = Len(c)

(* The rows of q after b, behind a summary (h = 1) or none (h = 0). *)
Segment(c, q, b, h) ==
  \A j \in 1..Len(c) : IF j <= h THEN c[j] = SummaryMessage
                                 ELSE b + j - h <= Len(q) /\ c[j] = q[b + j - h]

LEMMA IdsOf ==
  ASSUME NEW c \in Seq(Messages)
  PROVE  \A x : x \in Ids(c) <=> \E i \in 1..Len(c) : x \in c[i].uses \/ x \in c[i].results
BY DEF Ids

LEMMA PairedOf ==
  ASSUME NEW c \in Seq(Messages)
  PROVE  Paired(c) <=> \A i, j \in 1..Len(c) : \A x \in c[j].uses :
                         (x \in c[i].uses => i = j) /\ (x \in c[i].results => i = j + 1)
<1>1. DOMAIN c = 1..Len(c) OBVIOUS
<1> QED BY <1>1 DEF Paired

LEMMA SummaryHasNone == SummaryMessage.uses = {} /\ SummaryMessage.results = {}
BY DEF SummaryMessage, Message

LEMMA SegmentPaired ==
  ASSUME NEW q \in Seq(Messages), NEW c \in Seq(Messages), NEW b \in Nat, NEW h \in {0, 1},
         Segment(c, q, b, h)
  PROVE  (Paired(q) => Paired(c)) /\ Ids(c) \subseteq Ids(q)
<1>1. Len(c) \in Nat /\ Len(q) \in Nat OBVIOUS
<1>2. \A j \in 1..Len(c) :
        \/ c[j].uses = {} /\ c[j].results = {}
        \/ b + j - h \in 1..Len(q) /\ c[j] = q[b + j - h]
  <2> SUFFICES ASSUME NEW j \in 1..Len(c)
               PROVE  \/ c[j].uses = {} /\ c[j].results = {}
                      \/ b + j - h \in 1..Len(q) /\ c[j] = q[b + j - h]
    OBVIOUS
  <2>1. CASE j <= h BY <2>1, SummaryHasNone DEF Segment
  <2>2. CASE ~(j <= h)
    <3>1. b + j - h <= Len(q) /\ c[j] = q[b + j - h] BY <2>2 DEF Segment
    <3>2. b + j - h >= 1 /\ b + j - h \in Int BY <1>1, <2>2
    <3> QED BY <1>1, <3>1, <3>2
  <2> QED BY <2>1, <2>2
<1>3. Ids(c) \subseteq Ids(q)
  <2> SUFFICES ASSUME NEW x \in Ids(c) PROVE x \in Ids(q) OBVIOUS
  <2>1. PICK j \in 1..Len(c) : x \in c[j].uses \/ x \in c[j].results BY IdsOf
  <2>2. b + j - h \in 1..Len(q) /\ c[j] = q[b + j - h] BY <1>2, <2>1
  <2> QED BY <2>1, <2>2, IdsOf
<1>4. ASSUME Paired(q) PROVE Paired(c)
  <2> SUFFICES ASSUME NEW i \in 1..Len(c), NEW j \in 1..Len(c), NEW x \in c[j].uses
               PROVE  (x \in c[i].uses => i = j) /\ (x \in c[i].results => i = j + 1)
    BY PairedOf
  <2> SUFFICES ASSUME x \in c[i].uses \/ x \in c[i].results
               PROVE  (x \in c[i].uses => i = j) /\ (x \in c[i].results => i = j + 1)
    OBVIOUS
  <2> DEFINE v == b + i - h  w == b + j - h
  <2>1. v \in 1..Len(q) /\ c[i] = q[v] BY <1>2
  <2>2. w \in 1..Len(q) /\ c[j] = q[w] BY <1>2
  <2>3. (v = w => i = j) /\ (v = w + 1 => i = j + 1) BY <1>1
  <2> HIDE DEF v, w
  <2>4. (x \in q[v].uses => v = w) /\ (x \in q[v].results => v = w + 1)
    BY <1>4, <2>1, <2>2, PairedOf
  <2> QED BY <2>1, <2>2, <2>3, <2>4
<1> QED BY <1>3, <1>4

LEMMA PrefixPaired ==
  ASSUME NEW r \in Seq(Messages), NEW q \in Seq(Messages), Extends(r, q)
  PROVE  (Paired(q) => Paired(r)) /\ Ids(r) \subseteq Ids(q)
<1>1. Segment(r, q, 0, 0) /\ 0 \in Nat /\ 0 \in {0, 1}
  <2>1. \A j \in 1..Len(r) : ~(j <= 0) /\ 0 + j - 0 = j /\ j <= Len(q) /\ q[j] = r[j]
    BY DEF Extends
  <2> QED BY <2>1 DEF Segment
<1> QED BY <1>1, SegmentPaired

LEMMA Added ==
  ASSUME NEW c \in Seq(Messages), NEW m \in Messages
  PROVE  /\ Append(c, m) \in Seq(Messages) /\ Len(Append(c, m)) = Len(c) + 1
         /\ \A i \in 1..Len(c) : Append(c, m)[i] = c[i]
         /\ Append(c, m)[Len(c) + 1] = m
         /\ \A x : x \in Ids(Append(c, m)) <=> x \in Ids(c) \/ x \in m.uses \/ x \in m.results
<1> DEFINE d == Append(c, m)
<1>1. /\ d \in Seq(Messages) /\ Len(d) = Len(c) + 1 /\ Len(c) \in Nat
      /\ \A i \in 1..Len(c) : d[i] = c[i]
      /\ d[Len(c) + 1] = m
  BY AppendProperties
<1>2. \A i \in 1..(Len(c) + 1) : i \in 1..Len(c) \/ i = Len(c) + 1 BY <1>1
<1>3. \A i \in 1..Len(c) : i \in 1..(Len(c) + 1) BY <1>1
<1>4. Len(c) + 1 \in 1..(Len(c) + 1) BY <1>1
<1> HIDE DEF d
<1>5. \A x : x \in Ids(d) <=> x \in Ids(c) \/ x \in m.uses \/ x \in m.results
  <2>1. \A x : x \in Ids(d) <=> \E i \in 1..Len(d) : x \in d[i].uses \/ x \in d[i].results
    BY <1>1, IdsOf
  <2>2. \A x : x \in Ids(c) <=> \E i \in 1..Len(c) : x \in c[i].uses \/ x \in c[i].results
    BY IdsOf
  <2> QED BY <1>1, <1>2, <1>3, <1>4, <2>1, <2>2
<1> QED BY <1>1, <1>5 DEF d

(* A message whose calls are new, and whose answers are to the last one's. *)
LEMMA AddedPaired ==
  ASSUME NEW c \in Seq(Messages), NEW m \in Messages, Paired(c),
         m.uses \cap Ids(c) = {}, m.uses \cap m.results = {},
         \A x \in m.results : LastUse(c, x)
  PROVE  Paired(Append(c, m))
<1> DEFINE d == Append(c, m)  n == Len(c)
<1>1. /\ d \in Seq(Messages) /\ Len(d) = n + 1 /\ n \in Nat
      /\ \A i \in 1..n : d[i] = c[i]
      /\ d[n + 1] = m
  BY Added
<1>2. DOMAIN c = 1..n OBVIOUS
<1>3. \A x : x \in Ids(c) <=> \E i \in 1..n : x \in c[i].uses \/ x \in c[i].results
  BY IdsOf
<1> HIDE DEF d, n
<1>4. \A i \in 1..Len(d) : i \in 1..n \/ i = n + 1 BY <1>1
<1> SUFFICES ASSUME NEW i \in 1..Len(d), NEW j \in 1..Len(d), NEW x \in d[j].uses
             PROVE  (x \in d[i].uses => i = j) /\ (x \in d[i].results => i = j + 1)
  BY <1>1, PairedOf DEF d
<1>5. CASE i \in 1..n /\ j \in 1..n BY <1>1, <1>5, PairedOf DEF n
<1>6. CASE i = n + 1 /\ j \in 1..n
  <2>1. d[i] = m /\ d[j] = c[j] BY <1>1, <1>6
  <2>2. x \notin m.uses BY <1>3, <1>6, <2>1
  <2>3. x \in m.results => j = n BY <1>2, <1>6, <2>1 DEF LastUse, n
  <2> QED BY <1>6, <2>1, <2>2, <2>3
<1>7. CASE i \in 1..n /\ j = n + 1
  <2>1. d[i] = c[i] /\ d[j] = m BY <1>1, <1>7
  <2> QED BY <1>3, <1>7, <2>1
<1>8. CASE i = n + 1 /\ j = n + 1 BY <1>1, <1>8
<1> QED BY <1>4, <1>5, <1>6, <1>7, <1>8

(* What is kept of a conversation behind its summary. *)
LEMMA TailSegment ==
  ASSUME NEW c \in Seq(Messages), NEW k \in 0..Len(c)
  PROVE  LET d == <<SummaryMessage>> \o SubSeq(c, k + 1, Len(c))
         IN  d \in Seq(Messages) /\ Segment(d, c, k, 1) /\ Len(d) = Len(c) - k + 1
<1> DEFINE e == SubSeq(c, k + 1, Len(c))  s == <<SummaryMessage>>  d == s \o e
<1>1. Len(c) \in Nat /\ k \in Nat /\ k <= Len(c) OBVIOUS
<1>2. e \in Seq(Messages) /\ Len(e) = Len(c) - k /\ \A i \in 1..(Len(c) - k) : e[i] = c[k + i]
  <2> DEFINE m == k + 1  l == Len(c)
  <2>1. m \in Int /\ l \in Int /\ l - m + 1 = l - k BY <1>1
  <2>2. \A i \in m..l : c[i] \in Messages BY <1>1
  <2>3. \A i \in 1..(l - k) : m + i - 1 = k + i BY <1>1
  <2>4. m <= l \/ l - k = 0 BY <1>1
  <2> HIDE DEF m, l
  <2>5. /\ SubSeq(c, m, l) \in Seq(Messages)
        /\ Len(SubSeq(c, m, l)) = IF m <= l THEN l - m + 1 ELSE 0
        /\ \A i \in 1..(l - m + 1) : SubSeq(c, m, l)[i] = c[m + i - 1]
    BY <2>1, <2>2, SubSeqProperties
  <2>6. SubSeq(c, m, l) = e BY DEF m, l
  <2> HIDE DEF e
  <2>7. e \in Seq(Messages) /\ Len(e) = l - k /\ \A i \in 1..(l - k) : e[i] = c[k + i]
    BY <2>1, <2>3, <2>4, <2>5, <2>6
  <2> QED BY <2>7 DEF l
<1>3. s \in Seq(Messages) /\ Len(s) = 1 /\ s[1] = SummaryMessage BY OwnMessages
<1> HIDE DEF e, s
<1>4. /\ d \in Seq(Messages) /\ Len(d) = 1 + Len(e)
      /\ \A p \in 1..1 : d[p] = s[p]
      /\ \A q \in 1..Len(e) : d[1 + q] = e[q]
  <2> DEFINE l == 1
  <2>1. l \in Nat /\ Len(s) = l BY <1>3
  <2> HIDE DEF l
  <2>2. /\ s \o e \in Seq(Messages) /\ Len(s \o e) = l + Len(e)
        /\ \A p \in 1..l : (s \o e)[p] = s[p]
        /\ \A q \in 1..Len(e) : (s \o e)[l + q] = e[q]
    <3>1. s \in Seq(Messages) /\ e \in Seq(Messages) BY <1>2, <1>3
    <3>2. ASSUME NEW a \in Seq(Messages), NEW b \in Seq(Messages)
          PROVE  /\ a \o b \in Seq(Messages) /\ Len(a \o b) = Len(a) + Len(b)
                 /\ \A p \in 1..Len(a) : (a \o b)[p] = a[p]
                 /\ \A q \in 1..Len(b) : (a \o b)[Len(a) + q] = b[q]
      <4>1. Len(a) \in Nat OBVIOUS
      <4> QED BY <4>1, Concatenated
    <3> QED BY <2>1, <3>1, <3>2
  <2>3. l = 1 BY DEF l
  <2>4. d = s \o e OBVIOUS
  <2> HIDE DEF d
  <2> QED BY <2>2, <2>3, <2>4
<1> HIDE DEF d
<1>5. Segment(d, c, k, 1)
  <2> SUFFICES ASSUME NEW j \in 1..Len(d)
               PROVE  IF j <= 1 THEN d[j] = SummaryMessage
                                ELSE k + j - 1 <= Len(c) /\ c[k + j - 1] = d[j]
    BY DEF Segment
  <2>1. CASE j <= 1
    <3>1. j = 1 /\ 1 \in 1..1 BY <2>1
    <3> QED BY <1>3, <1>4, <3>1
  <2>2. CASE ~(j <= 1)
    <3> DEFINE i == j - 1
    <3>1. i \in 1..(Len(c) - k) /\ j = 1 + i /\ k + j - 1 = k + i /\ k + i <= Len(c)
      BY <1>1, <1>2, <1>4, <2>2
    <3> HIDE DEF i
    <3>2. d[1 + i] = e[i] /\ e[i] = c[k + i] BY <1>2, <1>4, <3>1
    <3> QED BY <2>2, <3>1, <3>2
  <2> QED BY <2>1, <2>2
<1>6. Len(d) = Len(c) - k + 1 BY <1>1, <1>2, <1>4
<1> QED BY <1>4, <1>5, <1>6 DEF d, s, e

(* The ids of such rows. *)
Numbered(s, n, b, h) == Len(s) = n /\ \A j \in 1..n : s[j] = IF j <= h THEN -1 ELSE b + j - h

(* A turn that reads has the rows up to where it is. *)
Reading(t) ==
  \E b \in Nat, h \in {0, 1} :
    /\ h <= Len(conv[t]) /\ seen[t] = b + Len(conv[t]) - h /\ seen[t] <= Len(db.rows)
    /\ Segment(conv[t], db.rows, b, h) /\ Numbered(ids[t], Len(conv[t]), b, h)
    /\ known[t] = {db.rows[i] : i \in 1..b} /\ b \in {0, db.upTo}

Serial(t) ==
  /\ Paired(conv[t])
  /\ pc[t] = "new" => rounds[t] = 0
  /\ pc[t] # "done" => Below(db.rows, t, rounds[t]) /\ Below(conv[t], t, rounds[t])
  /\ pc[t] \in {"saveUse", "saveCut"} => Below(disk.rows, t, rounds[t] - 1)
  /\ pc[t] \in {"saveUse", "tools"} => LastUse(conv[t], <<t, rounds[t]>>)
  /\ pc[t] \in {"tools", "saveResult"} => LastUse(disk.rows, <<t, rounds[t]>>)
  /\ pc[t] = "readSummary" => seen[t] = db.upTo
  /\ pc[t] = "readPage" => Reading(t)
  /\ pc[t] = "call" => EveryResultCalledFor(conv[t])

Alone == \A t, u \in Turns : pc[t] \in Running /\ pc[u] \in Running => t = u
Written(t) == writer = t /\ pc[t] \in Saving => db.rows = Append(disk.rows, Row(t))

SerialInv ==
  /\ \A t \in Turns : Written(t)
  /\ overlapped \/ (Alone /\ Paired(db.rows) /\ \A t \in Turns : Serial(t))

LEMMA SerialAtFirst == ASSUME Init, TypedInv PROVE SerialInv
<1>1. /\ disk \in Pasts /\ db = disk /\ writer = None /\ pc = [t \in Turns |-> "new"]
      /\ conv = [t \in Turns |-> << >>] /\ rounds = [t \in Turns |-> 0]
  BY DEF Init
<1>2. db.rows \in Seq(Messages) BY DEF TypedInv, Typed, Tables
<1>3. Paired(db.rows)
  <2> SUFFICES ASSUME NEW i \in 1..Len(db.rows), NEW j \in 1..Len(db.rows), NEW x \in db.rows[j].uses
               PROVE  (x \in db.rows[i].uses => i = j) /\ (x \in db.rows[i].results => i = j + 1)
    BY <1>2, PairedOf
  <2>1. DOMAIN db.rows = 1..Len(db.rows) BY <1>2
  <2>2. \A k \in 1..Len(db.rows) : x \in db.rows[k].uses => k = j
    BY <1>1, <2>1, PastsAssumption
  <2>3. x \in db.rows[i].results => i > 1 /\ x \in db.rows[i - 1].uses
    BY <1>1, <2>1, PastsAssumption DEF EveryResultCalledFor
  <2>4. i > 1 => i - 1 \in 1..Len(db.rows) BY <1>2
  <2> QED BY <2>2, <2>3, <2>4
<1>4. \A t \in Turns : Below(db.rows, t, 0)
  <2> SUFFICES ASSUME NEW t \in Turns, NEW k \in Nat, <<t, k>> \in Ids(db.rows) PROVE FALSE
    BY DEF Below
  <2>1. PICK i \in 1..Len(db.rows) : <<t, k>> \in db.rows[i].uses \cup db.rows[i].results
    BY <1>2, IdsOf
  <2>2. db.rows[i] \in Range(db.rows) BY <1>2 DEF Range
  <2> QED BY <1>1, <2>1, <2>2, PastsAssumption
<1>5. ASSUME NEW t \in Turns PROVE Serial(t) /\ Written(t)
  <2>1. conv[t] = << >> /\ pc[t] = "new" /\ rounds[t] = 0 BY <1>1
  <2>2. Paired(conv[t]) /\ Below(conv[t], t, 0) BY <2>1 DEF Paired, Below, Ids
  <2> QED BY <1>4, <2>1, <2>2 DEF Serial, Written, Saving
<1>6. Alone BY <1>1 DEF Alone, Running, Writing, Saving
<1> QED BY <1>3, <1>5, <1>6 DEF SerialInv

(* Who acts runs or starts to. *)
LEMMA ActsRunning ==
  ASSUME Shape, NEW t \in Turns, Acts(t)
  PROVE  Start(t) \/ (pc[t] \in Running /\ overlapped' = overlapped)
BY DEF Acts, ReadCheckpoint, ReadSummary, ReadPage, ReadLastPage, LoadFails, SkipCompaction,
   StartCompaction, SummaryFails, SummaryArrives, AdvanceCheckpoint, KeepCheckpoint, InsertSummary,
   InsertMessage, Commit, WriteFails, NestedBegin, GiveUpWrite, AgentCallsTools, ToolsReturn,
   AgentStopsMidCall, AgentReplies, AgentGivesNothing, Disconnect, flags, Running, Writing, Saving

LEMMA ActsAlone ==
  ASSUME IInv, SerialInv, NEW t \in Turns, Acts(t), ~overlapped', overlapped \in BOOLEAN
  PROVE  /\ ~overlapped /\ Alone' /\ Paired(db.rows) /\ Serial(t)
         /\ \A u \in Turns \ {t} : pc[u] \in {"new", "done"} /\ Serial(u)
<1>1. Shape /\ Others(t) BY OneActs DEF IInv
<1>2. CASE Start(t)
  <2>1. ~overlapped /\ \A u \in Turns : pc[u] \notin Running BY <1>2 DEF Start
  <2>2. \A u \in Turns : pc[u] \in {"new", "done"} BY <1>1, <2>1 DEF Shape
  <2>3. Alone' BY <1>1, <2>1 DEF Alone, Others
  <2> QED BY <2>1, <2>2, <2>3 DEF SerialInv
<1>3. CASE pc[t] \in Running /\ overlapped' = overlapped
  <2>1. ~overlapped BY <1>3
  <2>2. Alone BY <2>1 DEF SerialInv
  <2>3. \A u \in Turns \ {t} : pc[u] \notin Running BY <1>3, <2>2 DEF Alone
  <2>4. \A u \in Turns \ {t} : pc[u] \in {"new", "done"} BY <1>1, <2>3 DEF Shape
  <2>5. Alone' BY <1>1, <2>3 DEF Alone, Others
  <2> QED BY <2>1, <2>4, <2>5 DEF SerialInv
<1> QED BY <1>1, <1>2, <1>3, ActsRunning

(* How the rows change. *)
LEMMA RowsChange ==
  ASSUME IInv, SerialInv, NEW t \in Turns, Acts(t)
  PROVE  \/ InsertMessage(t)
         \/ db'.rows = db.rows /\ disk'.rows = disk.rows
         \/ writer = t /\ pc[t] \in Saving /\ db' = db /\ disk' = db /\ db.rows = Append(disk.rows, Row(t))
         \/ writer = t /\ pc[t] \notin Saving /\ db' = db /\ disk' = db
         \/ db' = disk /\ disk' = disk
<1>1. CASE AdvanceCheckpoint(t) \/ InsertSummary(t)
  <2>1. db \in Session BY DEF IInv, StoreOK
  <2>2. db'.rows = db.rows /\ disk' = disk
    <3>1. CASE AdvanceCheckpoint(t)
      <4>1. db' = [db EXCEPT !.upTo = LastId(t)] /\ disk' = disk BY <3>1 DEF AdvanceCheckpoint
      <4> QED BY <2>1, <4>1 DEF Session
    <3>2. CASE InsertSummary(t)
      <4> DEFINE x == [upTo |-> LastId(t), covers |-> Covered(t)]
      <4>1. db' = [db EXCEPT !.sums = @ \cup {x}] /\ disk' = disk BY <3>2 DEF InsertSummary
      <4> HIDE DEF x
      <4> QED BY <2>1, <4>1 DEF Session
    <3> QED BY <1>1, <3>1, <3>2
  <2> QED BY <2>2
<1>2. CASE \/ Start(t) \/ ReadCheckpoint(t) \/ ReadSummary(t) \/ ReadPage(t) \/ ReadLastPage(t)
           \/ LoadFails(t) \/ SkipCompaction(t) \/ StartCompaction(t) \/ SummaryFails(t)
           \/ SummaryArrives(t) \/ KeepCheckpoint(t) \/ AgentCallsTools(t) \/ ToolsReturn(t)
           \/ AgentStopsMidCall(t) \/ AgentReplies(t) \/ AgentGivesNothing(t)
  <2>1. UNCHANGED store
    BY <1>2 DEF Start, ReadCheckpoint, ReadSummary, ReadPage, ReadLastPage, LoadFails,
       SkipCompaction, StartCompaction, SummaryFails, SummaryArrives, KeepCheckpoint,
       AgentCallsTools, ToolsReturn, AgentStopsMidCall, AgentReplies, AgentGivesNothing
  <2> QED BY <2>1 DEF store
<1>3. CASE Commit(t)
  <2>1. writer = t /\ db' = db /\ disk' = db BY <1>3 DEF Commit
  <2> QED BY <2>1 DEF SerialInv, Written
<1>4. CASE WriteFails(t) \/ NestedBegin(t) BY <1>4 DEF WriteFails, NestedBegin, GiveUpWrite
<1>5. CASE Disconnect(t)
  <2>1. \/ writer = t /\ db' = db /\ disk' = db
        \/ db' = db /\ disk' = disk
    BY <1>5 DEF Disconnect, LeavesOpen, CommitsLast, store
  <2> QED BY <2>1 DEF SerialInv, Written
<1> QED BY <1>1, <1>2, <1>3, <1>4, <1>5 DEF Acts

LEMMA RowIds ==
  ASSUME NEW t \in Turns, pc[t] \in Saving
  PROVE  /\ Row(t).uses = IF pc[t] \in {"saveUse", "saveCut"} THEN {<<t, rounds[t]>>} ELSE {}
         /\ Row(t).results = IF pc[t] = "saveResult" THEN {<<t, rounds[t]>>} ELSE {}
<1>1. CASE pc[t] = "saveUser" BY <1>1 DEF Row, User, Message
<1>2. CASE pc[t] \in {"saveUse", "saveCut"}
  <2>1. Row(t) = Use(t, rounds[t]) BY <1>2 DEF Row
  <2> QED BY <1>2, <2>1 DEF Use, Message
<1>3. CASE pc[t] = "saveResult"
  <2>1. Row(t) = Result(t, rounds[t]) BY <1>3 DEF Row
  <2> QED BY <1>3, <2>1 DEF Result, Message
<1>4. CASE pc[t] = "saveReply"
  <2>1. Row(t) = Reply(t) BY <1>4 DEF Row
  <2> QED BY <1>4, <2>1 DEF Reply, Message
<1> QED BY <1>1, <1>2, <1>3, <1>4 DEF Saving

LEMMA StoredRows ==
  ASSUME IInv, TypedInv
  PROVE  /\ db.rows \in Seq(Messages) /\ disk.rows \in Seq(Messages)
         /\ Extends(disk.rows, db.rows)
         /\ (Paired(db.rows) => Paired(disk.rows)) /\ Ids(disk.rows) \subseteq Ids(db.rows)
<1>1. db.rows \in Seq(Messages) /\ disk.rows \in Seq(Messages) BY DEF TypedInv, Typed, Tables
<1>2. Extends(disk.rows, db.rows) BY DEF IInv, StoreOK
<1> QED BY <1>1, <1>2, PrefixPaired

LEMMA InsertRow ==
  ASSUME IInv, TypedInv, NEW t \in Turns, InsertMessage(t)
  PROVE  /\ db = disk /\ disk' = disk /\ Row(t) \in Messages
         /\ db'.rows = Append(disk.rows, Row(t)) /\ pc[t] \in Saving /\ writer' = t
<1>1. /\ pc[t] \in Saving /\ writer = None /\ writer' = t
      /\ db' = [db EXCEPT !.rows = Append(db.rows, Row(t))] /\ disk' = disk
  BY DEF InsertMessage
<1>2. db = disk /\ db \in Session BY <1>1 DEF IInv, StoreOK
<1>3. db'.rows = Append(db.rows, Row(t)) BY <1>1, <1>2 DEF Session
<1>4. Row(t) \in Messages BY <1>1, RowTyped DEF TypedInv
<1> QED BY <1>1, <1>2, <1>3, <1>4

LEMMA SerialRows ==
  ASSUME IInv, TypedInv, SerialInv, NEW t \in Turns, Acts(t), Paired(db.rows), Serial(t)
  PROVE  /\ Paired(db'.rows)
         /\ \A x \in Ids(db'.rows) : x \in Ids(db.rows) \/ x = <<t, rounds[t]>>
<1>1. CASE InsertMessage(t)
  <2>1. /\ db = disk /\ Row(t) \in Messages /\ db'.rows = Append(db.rows, Row(t)) /\ pc[t] \in Saving
    BY <1>1, InsertRow
  <2>2. /\ Row(t).uses = IF pc[t] \in {"saveUse", "saveCut"} THEN {<<t, rounds[t]>>} ELSE {}
        /\ Row(t).results = IF pc[t] = "saveResult" THEN {<<t, rounds[t]>>} ELSE {}
    BY <2>1, RowIds
  <2>3. db.rows \in Seq(Messages) BY StoredRows
  <2>4. Row(t).uses \cap Ids(db.rows) = {}
    <3> SUFFICES ASSUME pc[t] \in {"saveUse", "saveCut"}, <<t, rounds[t]>> \in Ids(db.rows)
                 PROVE  FALSE
      BY <2>2
    <3>1. Below(disk.rows, t, rounds[t] - 1) BY DEF Serial
    <3>2. rounds[t] \in Nat BY DEF IInv, Shape
    <3>3. rounds[t] <= rounds[t] - 1 BY <2>1, <3>1, <3>2 DEF Below
    <3> QED BY <3>2, <3>3
  <2>5. Row(t).uses \cap Row(t).results = {} BY <2>2
  <2>6. \A x \in Row(t).results : LastUse(db.rows, x) BY <2>1, <2>2 DEF Serial
  <2>7. Paired(Append(db.rows, Row(t))) BY <2>1, <2>3, <2>4, <2>5, <2>6, AddedPaired
  <2>8. \A x : x \in Ids(Append(db.rows, Row(t))) <=> x \in Ids(db.rows) \/ x \in Row(t).uses \/ x \in Row(t).results
    BY <2>1, <2>3, Added
  <2> QED BY <2>1, <2>2, <2>7, <2>8
<1>2. CASE db'.rows = db.rows \/ db' = db BY <1>2
<1>3. CASE db' = disk BY <1>3, StoredRows
<1> QED BY <1>1, <1>2, <1>3, RowsChange

LEMMA OthersSerial ==
  ASSUME IInv, TypedInv, SerialInv, NEW t \in Turns, Acts(t), Paired(db.rows), Serial(t),
         NEW u \in Turns \ {t}, pc[u] \in {"new", "done"}, Serial(u)
  PROVE  Serial(u)'
<1>1. Others(t) /\ rounds'[u] = rounds[u] BY OneActs DEF IInv
<1>2. pc'[u] = pc[u] /\ conv'[u] = conv[u] /\ rounds'[u] = rounds[u] BY <1>1 DEF Others
<1>3. \A x \in Ids(db'.rows) : x \in Ids(db.rows) \/ x = <<t, rounds[t]>> BY SerialRows
<1>4. \A k : <<u, k>> # <<t, rounds[t]>> OBVIOUS
<1>5. \A k : <<u, k>> \in Ids(db'.rows) => <<u, k>> \in Ids(db.rows) BY <1>3, <1>4
<1>6. pc[u] # "done" => Below(db'.rows, u, rounds[u]) BY <1>5 DEF Serial, Below
<1>7. Paired(conv[u]) /\ (pc[u] = "new" => rounds[u] = 0) /\ (pc[u] # "done" => Below(conv[u], u, rounds[u]))
  BY DEF Serial
<1> QED BY <1>2, <1>6, <1>7 DEF Serial

LEMMA RowsStayBelow ==
  ASSUME IInv, TypedInv, SerialInv, NEW t \in Turns, Acts(t), Paired(db.rows), Serial(t), pc[t] # "done"
  PROVE  Below(db'.rows, t, rounds[t])
<1>1. \A x \in Ids(db'.rows) : x \in Ids(db.rows) \/ x = <<t, rounds[t]>> BY SerialRows
<1>2. Below(db.rows, t, rounds[t]) /\ rounds[t] \in Nat BY DEF Serial, IInv, Shape
<1>3. \A k : <<t, k>> = <<t, rounds[t]>> => k = rounds[t] OBVIOUS
<1> QED BY <1>1, <1>2, <1>3 DEF Below

(* A step opens a transaction, writes into its own, ends the open one or   *)
(* leaves the store as it is.                                              *)
LEMMA TransactionMoves ==
  ASSUME IInv, NEW t \in Turns, Acts(t)
  PROVE  \/ InsertMessage(t) \/ AdvanceCheckpoint(t) \/ InsertSummary(t)
         \/ writer' \notin Turns
         \/ UNCHANGED <<writer, db, disk>> /\ writer # t
<1>1. CASE \/ Start(t) \/ ReadCheckpoint(t) \/ ReadSummary(t) \/ ReadPage(t) \/ ReadLastPage(t)
           \/ LoadFails(t) \/ SkipCompaction(t) \/ StartCompaction(t) \/ SummaryFails(t)
           \/ SummaryArrives(t) \/ KeepCheckpoint(t) \/ AgentCallsTools(t) \/ ToolsReturn(t)
           \/ AgentStopsMidCall(t) \/ AgentReplies(t) \/ AgentGivesNothing(t)
  <2>1. writer # t
    BY <1>1 DEF Start, ReadCheckpoint, ReadSummary, ReadPage, ReadLastPage, LoadFails,
       SkipCompaction, StartCompaction, SummaryFails, SummaryArrives, KeepCheckpoint,
       AgentCallsTools, ToolsReturn, AgentStopsMidCall, AgentReplies, AgentGivesNothing,
       Saving, IInv, WriterOK
  <2>2. UNCHANGED store
    BY <1>1 DEF Start, ReadCheckpoint, ReadSummary, ReadPage, ReadLastPage, LoadFails,
       SkipCompaction, StartCompaction, SummaryFails, SummaryArrives, KeepCheckpoint,
       AgentCallsTools, ToolsReturn, AgentStopsMidCall, AgentReplies, AgentGivesNothing
  <2> QED BY <2>1, <2>2 DEF store
<1>2. CASE Commit(t) \/ WriteFails(t) \/ NestedBegin(t)
  <2>1. writer' = None BY <1>2 DEF Commit, WriteFails, NestedBegin, GiveUpWrite
  <2> QED BY <2>1, HistoryAssumption
<1>3. CASE Disconnect(t)
  <2>1. writer' \in {None, Abandoned} \/ (UNCHANGED store /\ writer # t)
    BY <1>3 DEF Disconnect, LeavesOpen, CommitsLast
  <2> QED BY <2>1, HistoryAssumption DEF store
<1> QED BY <1>1, <1>2, <1>3 DEF Acts

LEMMA WriterMoves ==
  ASSUME IInv, NEW t \in Turns, Acts(t)
  PROVE  \/ InsertMessage(t)
         \/ writer' = t /\ pc'[t] \notin Saving
         \/ writer' \notin Turns
         \/ UNCHANGED <<writer, db, disk>> /\ writer # t
<1>1. CASE AdvanceCheckpoint(t) \/ InsertSummary(t)
  <2>1. pc'[t] \in {"summary", "commit"}
    BY <1>1 DEF AdvanceCheckpoint, InsertSummary, Goto, IInv, Shape
  <2>2. writer' = t
    <3>1. CASE AdvanceCheckpoint(t) BY <3>1 DEF AdvanceCheckpoint
    <3>2. CASE InsertSummary(t)
      <4>1. writer' = writer /\ pc[t] = "summary" BY <3>2 DEF InsertSummary
      <4> QED BY <4>1 DEF IInv, WriterOK
    <3> QED BY <1>1, <3>1, <3>2
  <2> QED BY <2>1, <2>2 DEF Saving
<1> QED BY <1>1, TransactionMoves

LEMMA WrittenStays ==
  ASSUME IInv, TypedInv, SerialInv, NEW t \in Turns, Acts(t)
  PROVE  \A u \in Turns : Written(u)'
<1> SUFFICES ASSUME NEW u \in Turns, writer' = u, pc'[u] \in Saving
             PROVE  db'.rows = Append(disk'.rows, Row(u)')
  BY DEF Written
<1>1. CASE InsertMessage(t)
  <2>1. /\ db'.rows = Append(disk.rows, Row(t)) /\ disk' = disk /\ u = t
        /\ pc' = pc /\ rounds' = rounds
    BY <1>1, InsertRow DEF InsertMessage
  <2>2. Row(t)' = Row(t) BY <2>1 DEF Row
  <2> QED BY <2>1, <2>2
<1>2. CASE writer' = t /\ pc'[t] \notin Saving BY <1>2
<1>3. CASE writer' \notin Turns BY <1>3
<1>4. CASE UNCHANGED <<writer, db, disk>> /\ writer # t
  <2>1. u # t BY <1>4
  <2>2. pc'[u] = pc[u] /\ rounds'[u] = rounds[u] BY <2>1, OneActs DEF IInv, Others
  <2>3. Row(u)' = Row(u) BY <2>2 DEF Row
  <2>4. Written(u) BY DEF SerialInv
  <2> QED BY <1>4, <2>2, <2>3, <2>4 DEF Written
<1> QED BY <1>1, <1>2, <1>3, <1>4, WriterMoves

LEMMA OwnIds ==
  ASSUME NEW t
  PROVE  /\ User(t).uses = {} /\ User(t).results = {}
         /\ Reply(t).uses = {} /\ Reply(t).results = {}
         /\ SystemNote.uses = {} /\ SystemNote.results = {}
         /\ \A r : Use(t, r).uses = {<<t, r>>} /\ Use(t, r).results = {}
         /\ \A r : Result(t, r).uses = {} /\ Result(t, r).results = {<<t, r>>}
BY DEF User, Reply, SystemNote, Use, Result, Message

(* A message with neither calls nor answers. *)
LEMMA PlainAdded ==
  ASSUME NEW c \in Seq(Messages), NEW m \in Messages, m.uses = {}, m.results = {}
  PROVE  /\ Append(c, m) \in Seq(Messages) /\ Ids(Append(c, m)) = Ids(c)
         /\ Paired(c) => Paired(Append(c, m))
<1>1. \A x : x \in Ids(Append(c, m)) <=> x \in Ids(c) BY Added
<1>2. Paired(c) => Paired(Append(c, m)) BY AddedPaired
<1> QED BY <1>1, <1>2, Added

LEMMA LeftSerial ==
  ASSUME Shape, Held, NEW t \in Turns, Leave(t)
  PROVE  Serial(t)'
<1>1. pc'[t] = "done" /\ conv'[t] = << >> BY DEF Leave, Goto, Shape, Held
<1>2. Paired(<< >>) BY DEF Paired
<1> QED BY <1>1, <1>2 DEF Serial

(* What the model is sent is mended first. *)
LEMMA CallSerial ==
  ASSUME NEW t \in Turns, NEW c \in Seq(Messages), Paired(c), Below(c, t, rounds'[t]),
         Below(db'.rows, t, rounds'[t]), conv'[t] = Repair(c), pc'[t] = "call"
  PROVE  Serial(t)'
<1>1. EveryResultCalledFor(Repair(c)) /\ Mends(c, Repair(c)) BY OwnMessages, Repaired DEF Messages
<1>2. Paired(Repair(c)) /\ Ids(Repair(c)) \subseteq Ids(c) BY <1>1 DEF Mends
<1>3. Below(Repair(c), t, rounds'[t]) BY <1>2 DEF Below
<1> QED BY <1>1, <1>2, <1>3 DEF Serial

LEMMA FirstCallSerial ==
  ASSUME Shape, Held, NEW t \in Turns, NEW c \in Seq(Messages), Paired(c), Below(c, t, rounds[t]),
         Below(db'.rows, t, rounds[t]), FirstCall(t, c), rounds' = rounds
  PROVE  Serial(t)'
<1>1. Append(c, User(t)) \in Seq(Messages) /\ Ids(Append(c, User(t))) = Ids(c) /\ Paired(Append(c, User(t)))
  BY OwnMessages, OwnIds, PlainAdded
<1>2. Below(Append(c, User(t)), t, rounds[t]) BY <1>1 DEF Below
<1>3. conv'[t] = Repair(Append(c, User(t))) /\ pc'[t] = "call" BY DEF FirstCall, Goto, Shape, Held
<1> QED BY <1>1, <1>2, <1>3, CallSerial

LEMMA FinishSerial ==
  ASSUME IInv, Held, NEW t \in Turns, Serial(t), FinishCompaction(t), Below(db'.rows, t, rounds[t]),
         pc[t] \in {"summarize", "checkpoint", "summary", "commit"}
  PROVE  Serial(t)'
<1>1. split[t] \in 1..(Len(conv[t]) - 1) BY DEF IInv, TurnOK
<1>2. conv[t] \in Seq(Messages) /\ Len(conv[t]) \in Nat BY DEF Held
<1>3. split[t] \in 0..Len(conv[t]) /\ split[t] \in Nat /\ 1 \in {0, 1} BY <1>1, <1>2
<1> DEFINE c == <<SummaryMessage>> \o SubSeq(conv[t], split[t] + 1, Len(conv[t]))
<1>4. c \in Seq(Messages) /\ Segment(c, conv[t], split[t], 1) BY <1>2, <1>3, TailSegment
<1>5. FirstCall(t, c) /\ rounds' = rounds BY DEF FinishCompaction
<1> HIDE DEF c
<1>6. Paired(conv[t]) /\ Below(conv[t], t, rounds[t]) BY DEF Serial
<1>7. Paired(c) /\ Ids(c) \subseteq Ids(conv[t])
  <2> DEFINE q == conv[t]  k == split[t]  h == 1
  <2>1. q \in Seq(Messages) /\ k \in Nat /\ h \in {0, 1} /\ Segment(c, q, k, h) BY <1>2, <1>3, <1>4
  <2> HIDE DEF q, k, h
  <2>2. (Paired(q) => Paired(c)) /\ Ids(c) \subseteq Ids(q) BY <1>4, <2>1, SegmentPaired
  <2> QED BY <1>6, <2>2 DEF q
<1>8. Below(c, t, rounds[t]) BY <1>6, <1>7 DEF Below
<1> QED BY <1>4, <1>5, <1>7, <1>8, FirstCallSerial DEF IInv

LEMMA NextCallSerial ==
  ASSUME IInv, Held, NEW t \in Turns, Serial(t), NextCall(t), Below(db'.rows, t, rounds[t]),
         pc[t] = "saveResult"
  PROVE  Serial(t)'
<1> DEFINE c == IF rounds[t] = MaxRounds THEN Append(conv[t], SystemNote) ELSE conv[t]
<1>1. conv'[t] = Repair(c) /\ rounds' = rounds /\ pc'[t] = "call"
  BY DEF NextCall, Goto, loading, Held, IInv, Shape
<1>2. conv[t] \in Seq(Messages) /\ Paired(conv[t]) /\ Below(conv[t], t, rounds[t]) BY DEF Held, Serial
<1>3. /\ Append(conv[t], SystemNote) \in Seq(Messages) /\ Paired(Append(conv[t], SystemNote))
      /\ Ids(Append(conv[t], SystemNote)) = Ids(conv[t])
  BY <1>2, OwnMessages, OwnIds, PlainAdded
<1>4. c \in Seq(Messages) /\ Paired(c) /\ Below(c, t, rounds[t]) BY <1>2, <1>3 DEF Below
<1> HIDE DEF c
<1> QED BY <1>1, <1>4, CallSerial

(* A turn on whose messages nothing depends yet. *)
LEMMA QuietSerial ==
  ASSUME NEW t \in Turns, Serial(t), pc[t] # "done", Below(db'.rows, t, rounds[t]),
         conv'[t] = conv[t], rounds'[t] = rounds[t],
         pc'[t] \in {"saveUser", "readCheckpoint", "compact", "summarize", "checkpoint", "summary", "commit"}
  PROVE  Serial(t)'
BY DEF Serial

(* The row of a call is the last one there is. *)
LEMMA CallIsLast ==
  ASSUME IInv, TypedInv, SerialInv, NEW t \in Turns, Serial(t), pc[t] = "saveUse"
  PROVE  /\ LastUse(disk.rows, <<t, rounds[t]>>)
         /\ writer = t => LastUse(db.rows, <<t, rounds[t]>>)
<1>1. rounds[t] \in Nat /\ Below(disk.rows, t, rounds[t] - 1) BY DEF Serial, IInv, Shape
<1>2. <<t, rounds[t]>> \notin Ids(disk.rows) BY <1>1 DEF Below
<1>3. \A i \in DOMAIN disk.rows : <<t, rounds[t]>> \notin disk.rows[i].uses BY <1>2 DEF Ids
<1>4. ASSUME writer = t PROVE LastUse(db.rows, <<t, rounds[t]>>)
  <2>1. Row(t) \in Messages /\ disk.rows \in Seq(Messages)
    BY RowTyped, StoredRows DEF TypedInv, Saving
  <2>2. db.rows = Append(disk.rows, Row(t)) BY <1>4 DEF SerialInv, Written, Saving
  <2> DEFINE n == Len(disk.rows)
  <2>3. /\ Len(db.rows) = n + 1 /\ n \in Nat /\ DOMAIN db.rows = 1..(n + 1) /\ DOMAIN disk.rows = 1..n
        /\ \A i \in 1..n : db.rows[i] = disk.rows[i]
    BY <2>1, <2>2, Added
  <2> HIDE DEF n
  <2>4. \A i \in 1..(n + 1) : i \in 1..n \/ i = n + 1 BY <2>3
  <2> QED BY <1>3, <2>3, <2>4 DEF LastUse
<1> QED BY <1>3, <1>4 DEF LastUse

LEMMA ProceedSerial ==
  ASSUME IInv, TypedInv, SerialInv, NEW t \in Turns, Serial(t), Proceed(t),
         Below(db'.rows, t, rounds[t]), disk' = disk \/ (writer = t /\ disk' = db)
  PROVE  Serial(t)'
<1>1. Held /\ Shape BY DEF TypedInv, Typed, Held, IInv
<1>2. CASE Leave(t) BY <1>1, <1>2, LeftSerial
<1>3. CASE pc[t] \in {"checkpoint", "summary", "commit"} /\ FinishCompaction(t)
  BY <1>1, <1>3, FinishSerial
<1>4. CASE pc[t] = "saveResult" /\ NextCall(t) BY <1>1, <1>4, NextCallSerial
<1>5. CASE pc[t] = "saveUser" /\ UNCHANGED <<conv, rounds>> /\ \E p \in {"compact", "readCheckpoint"} : Goto(t, p)
  <2>1. pc'[t] \in {"compact", "readCheckpoint"} BY <1>1, <1>5 DEF Goto, Shape
  <2> QED BY <1>5, <2>1, QuietSerial
<1>6. CASE pc[t] = "saveUse" /\ UNCHANGED <<conv, rounds>> /\ Goto(t, "tools")
  <2>1. pc'[t] = "tools" /\ conv'[t] = conv[t] /\ rounds'[t] = rounds[t]
    BY <1>1, <1>6 DEF Goto, Shape
  <2>2. LastUse(disk'.rows, <<t, rounds[t]>>) BY <1>6, CallIsLast
  <2>3. Paired(conv[t]) /\ Below(conv[t], t, rounds[t]) /\ LastUse(conv[t], <<t, rounds[t]>>)
    BY <1>6 DEF Serial
  <2> QED BY <2>1, <2>2, <2>3 DEF Serial
<1> QED BY <1>2, <1>3, <1>4, <1>5, <1>6 DEF Proceed, Leave

-----------------------------------------------------------------------------
(* What a turn loads is a segment of the rows. *)

LEMMA SegmentPrefix ==
  ASSUME NEW q \in Seq(Messages), NEW c \in Seq(Messages), NEW b \in Nat, NEW h \in {0, 1},
         Segment(c, q, b, h), NEW n \in 0..Len(c)
  PROVE  /\ SubSeq(c, 1, n) \in Seq(Messages) /\ Len(SubSeq(c, 1, n)) = n
         /\ \A j \in 1..n : SubSeq(c, 1, n)[j] = c[j]
         /\ Segment(SubSeq(c, 1, n), q, b, h)
<1>1. n \in Nat /\ n <= Len(c) /\ Len(c) \in Nat OBVIOUS
<1>2. /\ SubSeq(c, 1, n) \in Seq(Messages) /\ Len(SubSeq(c, 1, n)) = n
      /\ \A j \in 1..n : SubSeq(c, 1, n)[j] = c[j]
  BY <1>1
<1>3. \A j \in 1..n : j \in 1..Len(c) BY <1>1
<1> QED BY <1>2, <1>3 DEF Segment

Upto(c, b, h, s) == h <= Len(c) /\ s = b + Len(c) - h
Onward(p, q, s) == s + Len(p) <= Len(q) /\ \A i \in 1..Len(p) : p[i] = q[s + i]

LEMMA SegmentLonger ==
  ASSUME NEW q \in Seq(Messages), NEW c \in Seq(Messages), NEW p \in Seq(Messages),
         NEW b \in Nat, NEW h \in {0, 1}, NEW s \in Nat,
         Segment(c, q, b, h), Upto(c, b, h, s), Onward(p, q, s)
  PROVE  c \o p \in Seq(Messages) /\ Len(c \o p) = Len(c) + Len(p) /\ Segment(c \o p, q, b, h)
<1> DEFINE l == Len(c)  m == Len(p)  d == c \o p
<1>1. /\ l \in Nat /\ m \in Nat /\ Len(q) \in Nat
      /\ h <= l /\ s = b + l - h /\ s + m <= Len(q) /\ \A i \in 1..m : p[i] = q[s + i]
  BY DEF Upto, Onward
<1>2. d \in Seq(Messages) /\ Len(d) = l + m
      /\ \A j \in 1..(l + m) : d[j] = IF j <= l THEN c[j] ELSE p[j - l]
  BY ConcatProperties
<1> HIDE DEF d
<1>3. ASSUME NEW j \in 1..(l + m)
      PROVE  IF j <= h THEN d[j] = SummaryMessage ELSE b + j - h <= Len(q) /\ d[j] = q[b + j - h]
  <2>1. CASE j <= l
    <3>1. j \in 1..Len(c) /\ d[j] = c[j] BY <1>1, <1>2, <2>1
    <3> QED BY <3>1 DEF Segment
  <2>2. CASE ~(j <= l)
    <3>1. j - l \in 1..m /\ d[j] = p[j - l] BY <1>1, <1>2, <2>2
    <3>2. p[j - l] = q[s + (j - l)] BY <1>1, <3>1
    <3>3. s + (j - l) = b + j - h /\ b + j - h <= Len(q) /\ ~(j <= h) BY <1>1, <1>3, <2>2
    <3> QED BY <3>1, <3>2, <3>3
  <2> QED BY <2>1, <2>2
<1>4. Segment(d, q, b, h) BY <1>2, <1>3 DEF Segment
<1> QED BY <1>2, <1>4 DEF d

LEMMA NumberedLonger ==
  ASSUME NEW z \in Seq(Int), NEW b \in Nat, NEW h \in {0, 1}, NEW l \in Nat, NEW s, NEW k \in Nat,
         Numbered(z, l, b, h), h <= l, s = b + l - h
  PROVE  Numbered(z \o [i \in 1..k |-> s + i], l + k, b, h)
<1> DEFINE p == [i \in 1..k |-> s + i]  d == z \o p
<1>1. Len(z) = l /\ (\A j \in 1..l : z[j] = IF j <= h THEN -1 ELSE b + j - h) /\ s \in Int
  BY DEF Numbered
<1>2. p \in Seq(Int) /\ Len(p) = k /\ \A i \in 1..k : p[i] = s + i
  <2>1. p \in [1..k -> Int] BY <1>1
  <2> QED BY <2>1
<1> HIDE DEF p
<1>3. Len(d) = l + k /\ \A j \in 1..(l + k) : d[j] = IF j <= l THEN z[j] ELSE p[j - l]
  <2>1. z \in Seq(Int) /\ p \in Seq(Int) BY <1>2
  <2>2. /\ Len(z \o p) = Len(z) + Len(p)
        /\ \A j \in 1..(Len(z) + Len(p)) : (z \o p)[j] = IF j <= Len(z) THEN z[j] ELSE p[j - Len(z)]
    BY <2>1, ConcatProperties, Zenon
  <2> QED BY <1>1, <1>2, <2>2
<1> HIDE DEF d
<1>4. ASSUME NEW j \in 1..(l + k) PROVE d[j] = IF j <= h THEN -1 ELSE b + j - h
  <2>1. CASE j <= l BY <1>1, <1>3, <2>1
  <2>2. CASE ~(j <= l)
    <3>1. j - l \in 1..k BY <2>2
    <3>2. d[j] = p[j - l] /\ p[j - l] = s + (j - l) BY <1>2, <1>3, <2>2, <3>1
    <3> QED BY <2>2, <3>2
  <2> QED BY <2>1, <2>2
<1> QED BY <1>3, <1>4 DEF Numbered, d, p

LEMMA PageSegment ==
  ASSUME IInv, TypedInv, NEW t \in Turns, Reading(t)
  PROVE  \E b \in Nat, h \in {0, 1} :
           /\ h <= Len(WithPage(t)) /\ PageEnd(t) = b + Len(WithPage(t)) - h
           /\ PageEnd(t) \in Nat /\ PageEnd(t) <= Len(db.rows)
           /\ WithPage(t) \in Seq(Messages)
           /\ Segment(WithPage(t), db.rows, b, h) /\ Numbered(WithPageIds(t), Len(WithPage(t)), b, h)
           /\ known[t] = {db.rows[i] : i \in 1..b} /\ b \in {0, db.upTo}
<1>1. PICK b \in Nat, h \in {0, 1} :
        /\ h <= Len(conv[t]) /\ seen[t] = b + Len(conv[t]) - h /\ seen[t] <= Len(db.rows)
        /\ Segment(conv[t], db.rows, b, h) /\ Numbered(ids[t], Len(conv[t]), b, h)
        /\ known[t] = {db.rows[i] : i \in 1..b} /\ b \in {0, db.upTo}
  BY DEF Reading
<1> DEFINE c == conv[t]  q == db.rows  e == PageEnd(t)  s == seen[t]  p == SubSeq(q, s + 1, e)
<1>2. c \in Seq(Messages) /\ q \in Seq(Messages) /\ s \in Nat BY StoredRows DEF TypedInv, Typed
<1>3. Len(c) \in Nat /\ Len(q) \in Nat BY <1>2
<1>4. e \in Nat /\ s <= e /\ e <= Len(q) BY <1>1, <1>2, <1>3, HistoryAssumption DEF PageEnd, More
<1>5. p \in Seq(Messages) /\ Len(p) = e - s /\ \A i \in 1..Len(p) : p[i] = q[s + i]
  <2> DEFINE m == s + 1
  <2>1. m \in Int /\ e \in Int /\ s \in Int /\ e - m + 1 = e - s /\ (m <= e \/ e - s = 0)
    BY <1>2, <1>4
  <2>2. \A i \in m..e : q[i] \in Messages BY <1>2, <1>3, <1>4, ElementOfSeq
  <2>3. \A i \in 1..(e - s) : m + i - 1 = s + i BY <1>2, <1>4
  <2> HIDE DEF m, q, e, s
  <2>4. /\ SubSeq(q, m, e) \in Seq(Messages)
        /\ Len(SubSeq(q, m, e)) = IF m <= e THEN e - m + 1 ELSE 0
        /\ \A i \in 1..(e - m + 1) : SubSeq(q, m, e)[i] = q[m + i - 1]
    BY <2>1, <2>2, SubSeqProperties
  <2>5. SubSeq(q, m, e) = p BY DEF m, p
  <2> HIDE DEF p
  <2> QED BY <2>1, <2>3, <2>4, <2>5
<1>6. s = b + Len(c) - h /\ h <= Len(c) /\ Segment(c, q, b, h) BY <1>1
<1>7. WithPage(t) = c \o p BY DEF WithPage
<1> HIDE DEF c, q, e, s, p
<1>8. c \in Seq(Messages) /\ q \in Seq(Messages) /\ p \in Seq(Messages) /\ s \in Nat
      /\ b \in Nat /\ h \in {0, 1}
  BY <1>1, <1>2, <1>5
<1>9. Segment(c, q, b, h) /\ Upto(c, b, h, s) /\ Onward(p, q, s)
  BY <1>2, <1>3, <1>4, <1>5, <1>6 DEF Upto, Onward
<1> DEFINE d == c \o p
<1>10. d \in Seq(Messages) /\ Len(d) = Len(c) + Len(p) /\ Segment(d, q, b, h)
  BY <1>8, <1>9, SegmentLonger
<1> HIDE DEF d
<1>11. h <= Len(d) /\ e = b + Len(d) - h
  <2> DEFINE l == Len(c)  k == Len(p)
  <2>1. l \in Nat /\ k = e - s /\ s = b + l - h /\ h <= l /\ Len(d) = l + k BY <1>3, <1>5, <1>6, <1>10
  <2> HIDE DEF l, k
  <2> QED BY <1>2, <1>4, <2>1
<1>12. Numbered(WithPageIds(t), Len(d), b, h)
  <2> DEFINE l == Len(c)  k == e - s  z == ids[t]
  <2>0. l \in Nat /\ h <= l /\ s = b + l - h BY <1>3, <1>6
  <2>5. k \in Nat /\ k = Len(p) BY <1>2, <1>4, <1>5
  <2>6. Len(d) = l + k BY <1>10, <2>5
  <2>1. l \in Nat /\ k \in Nat /\ h <= l /\ s = b + l - h /\ Len(d) = l + k
    BY <2>0, <2>5, <2>6
  <2>2. z \in Seq(Int) /\ Numbered(z, l, b, h)
    BY <1>1 DEF TypedInv, Typed, c
  <2>3. WithPageIds(t) = z \o [i \in 1..k |-> s + i] BY DEF WithPageIds, e, s
  <2> HIDE DEF l, k, z
  <2>4. Numbered(z \o [i \in 1..k |-> s + i], l + k, b, h) BY <1>8, <2>1, <2>2, NumberedLonger
  <2> QED BY <2>1, <2>3, <2>4
<1> QED BY <1>1, <1>4, <1>7, <1>10, <1>11, <1>12 DEF d, e, q

LEMMA ReadingSerial ==
  ASSUME IInv, TypedInv, SerialInv, NEW t \in Turns, Paired(db.rows), Serial(t),
         ReadCheckpoint(t) \/ ReadSummary(t) \/ ReadPage(t) \/ ReadLastPage(t)
  PROVE  Serial(t)'
<1>1. /\ db' = db /\ rounds' = rounds /\ Held /\ Shape /\ db.rows \in Seq(Messages)
      /\ pc[t] # "done" /\ Below(db.rows, t, rounds[t])
  BY StoredRows DEF ReadCheckpoint, ReadSummary, ReadPage, ReadLastPage, store, TypedInv, Typed,
     Held, IInv, Serial
<1>2. ASSUME Paired(conv'[t]), Ids(conv'[t]) \subseteq Ids(db.rows),
             pc'[t] \in {"readSummary", "readPage", "saveUser", "compact"},
             pc'[t] = "readSummary" => seen'[t] = db.upTo,
             pc'[t] = "readPage" => Reading(t)'
      PROVE  Serial(t)'
  <2>1. Below(conv'[t], t, rounds[t]) BY <1>1, <1>2 DEF Below
  <2> QED BY <1>1, <1>2, <2>1 DEF Serial
<1>3. Paired(<< >>) /\ Ids(<< >>) = {} BY DEF Paired, Ids
<1>4. Segment(<< >>, db.rows, 0, 0) BY DEF Segment
<1>5. ASSUME conv'[t] = << >>, ids'[t] = << >>, known'[t] = {}, seen'[t] = 0 PROVE Reading(t)'
  <2>1. Len(db.rows) \in Nat /\ 0 \in Nat /\ 0 \in {0, 1} /\ 0 \in {0, db.upTo} BY <1>1
  <2>2. {db.rows[i] : i \in 1..0} = {} OBVIOUS
  <2>3. 0 <= Len(conv'[t]) /\ seen'[t] = 0 + Len(conv'[t]) - 0 /\ seen'[t] <= Len(db.rows)
    BY <1>5, <2>1
  <2>5. Numbered(ids'[t], Len(conv'[t]), 0, 0) BY <1>5 DEF Numbered
  <2>4. \E b \in Nat, h \in {0, 1} :
          /\ h <= Len(conv'[t]) /\ seen'[t] = b + Len(conv'[t]) - h /\ seen'[t] <= Len(db.rows)
          /\ Segment(conv'[t], db.rows, b, h) /\ Numbered(ids'[t], Len(conv'[t]), b, h)
          /\ known'[t] = {db.rows[i] : i \in 1..b} /\ b \in {0, db.upTo}
    BY <1>4, <1>5, <2>1, <2>2, <2>3, <2>5, Zenon
  <2> QED BY <1>1, <2>4 DEF Reading
<1>6. CASE ReadCheckpoint(t)
  <2>1. /\ seen'[t] = db.upTo /\ conv'[t] = << >> /\ ids'[t] = << >> /\ known'[t] = {}
        /\ pc'[t] = IF db.upTo = 0 THEN "readPage" ELSE "readSummary"
    BY <1>1, <1>6 DEF ReadCheckpoint, Goto, Shape, IInv, TurnOK, Empty
  <2> QED BY <1>2, <1>3, <1>5, <2>1
<1>7. CASE ReadSummary(t)
  <2>1. pc[t] = "readSummary" /\ pc'[t] = "readPage" /\ Empty(t) /\ seen[t] = db.upTo
    BY <1>1, <1>7 DEF ReadSummary, Goto, Shape, IInv, TurnOK, Serial
  <2>2. CASE \A s \in db.sums : s.upTo # seen[t]
    <3>1. conv'[t] = << >> /\ ids'[t] = << >> /\ known'[t] = {} /\ seen'[t] = 0
      BY <1>1, <1>7, <2>1, <2>2 DEF ReadSummary, Empty, Shape
    <3> QED BY <1>2, <1>3, <1>5, <2>1, <3>1
  <2>3. CASE ~(\A s \in db.sums : s.upTo # seen[t])
    <3>1. PICK s \in db.sums :
            /\ s.upTo = seen[t] /\ conv' = [conv EXCEPT ![t] = <<SummaryMessage>>]
            /\ ids' = [ids EXCEPT ![t] = <<-1>>]
            /\ known' = [known EXCEPT ![t] = s.covers] /\ seen' = seen
      BY <1>7, <2>3 DEF ReadSummary
    <3>2. conv'[t] = <<SummaryMessage>> /\ ids'[t] = <<-1>> /\ known'[t] = s.covers /\ seen'[t] = s.upTo
      BY <1>1, <3>1 DEF Shape
    <3>3. /\ s.upTo \in 1..Len(disk.rows) /\ s.covers = RowsUpTo(disk, s.upTo)
          /\ disk.rows \in Seq(Messages) /\ Extends(disk.rows, db.rows)
      BY <3>1, StoredRows DEF IInv, StoreOK
    <3>4. s.upTo \in Nat /\ s.upTo <= Len(db.rows) /\ Len(disk.rows) \in Nat /\ Len(db.rows) \in Nat
      BY <1>1, <3>3 DEF Extends
    <3>5. s.covers = {db.rows[i] : i \in 1..s.upTo}
      <4>1. \A i \in 1..s.upTo : db.rows[i] = disk.rows[i] BY <3>3, <3>4 DEF Extends
      <4> QED BY <3>3, <4>1 DEF RowsUpTo
    <3>6. Segment(<<SummaryMessage>>, db.rows, s.upTo, 1) BY DEF Segment
    <3>7. Reading(t)'
      <4>1. 1 <= Len(conv'[t]) /\ seen'[t] = s.upTo + Len(conv'[t]) - 1 BY <3>2, <3>4
      <4>2. Numbered(ids'[t], Len(conv'[t]), s.upTo, 1) BY <3>2 DEF Numbered
      <4>3. \E b \in Nat, h \in {0, 1} :
              /\ h <= Len(conv'[t]) /\ seen'[t] = b + Len(conv'[t]) - h /\ seen'[t] <= Len(db.rows)
              /\ Segment(conv'[t], db.rows, b, h) /\ Numbered(ids'[t], Len(conv'[t]), b, h)
              /\ known'[t] = {db.rows[i] : i \in 1..b} /\ b \in {0, db.upTo}
        <5>1. s.upTo \in Nat /\ s.upTo \in {0, db.upTo} /\ 1 \in {0, 1} /\ seen'[t] <= Len(db.rows)
          BY <2>1, <3>1, <3>2, <3>4
        <5>2. Segment(conv'[t], db.rows, s.upTo, 1) /\ known'[t] = {db.rows[i] : i \in 1..s.upTo}
          BY <3>2, <3>5, <3>6
        <5> QED BY <4>1, <4>2, <5>1, <5>2, Zenon
      <4> QED BY <1>1, <4>3 DEF Reading
    <3>8. Paired(<<SummaryMessage>>) /\ Ids(<<SummaryMessage>>) = {}
      BY SummaryHasNone DEF Paired, Ids
    <3> QED BY <1>2, <2>1, <3>2, <3>7, <3>8
  <2> QED BY <2>2, <2>3
<1>8. CASE ReadPage(t) \/ ReadLastPage(t)
  <2>1. pc[t] = "readPage" BY <1>8 DEF ReadPage, ReadLastPage
  <2>2. Reading(t) BY <2>1 DEF Serial
  <2> DEFINE c == WithPage(t)  e == PageEnd(t)
  <2>3. PICK b \in Nat, h \in {0, 1} :
           /\ h <= Len(c) /\ e = b + Len(c) - h /\ e \in Nat /\ e <= Len(db.rows)
           /\ c \in Seq(Messages) /\ Segment(c, db.rows, b, h)
           /\ Numbered(WithPageIds(t), Len(c), b, h)
           /\ known[t] = {db.rows[i] : i \in 1..b} /\ b \in {0, db.upTo}
    BY <2>2, PageSegment
  <2>4. CASE ReadPage(t)
    <3>1. /\ conv'[t] = c /\ seen'[t] = e /\ known'[t] = known[t] /\ pc'[t] = "readPage"
          /\ ids'[t] = WithPageIds(t)
      BY <1>1, <2>1, <2>4 DEF ReadPage, Shape
    <3> HIDE DEF c, e
    <3>2. Paired(c) /\ Ids(c) \subseteq Ids(db.rows) BY <1>1, <2>3, SegmentPaired
    <3>3. Reading(t)'
      <4>1. db'.rows = db.rows /\ db'.upTo = db.upTo BY <1>1
      <4>2. /\ h <= Len(conv'[t]) /\ seen'[t] = b + Len(conv'[t]) - h /\ seen'[t] <= Len(db'.rows)
            /\ Segment(conv'[t], db'.rows, b, h) /\ Numbered(ids'[t], Len(conv'[t]), b, h)
            /\ known'[t] = {db'.rows[i] : i \in 1..b} /\ b \in {0, db'.upTo}
        BY <2>3, <3>1, <4>1
      <4> QED BY <2>3, <4>2 DEF Reading
    <3> QED BY <1>2, <3>1, <3>2, <3>3
  <2>5. CASE ReadLastPage(t)
    <3> DEFINE n == Len(c) - (IF t \notin Web /\ c # << >> /\ c[Len(c)].role = "user" THEN 1 ELSE 0)
    <3>1. conv'[t] = SubSeq(c, 1, n) /\ pc'[t] \in {"saveUser", "compact"}
      BY <1>1, <2>5 DEF ReadLastPage, Goto, Shape
    <3>2. n \in 0..Len(c)
      <4> HIDE DEF c
      <4>1. Len(c) \in Nat /\ (c # << >> => Len(c) > 0) BY <2>3, EmptySeq
      <4> QED BY <4>1
    <3> HIDE DEF c, e, n
    <3> DEFINE d == SubSeq(c, 1, n)
    <3>3. d \in Seq(Messages) /\ Segment(d, db.rows, b, h)
      BY <1>1, <2>3, <3>2, SegmentPrefix
    <3> HIDE DEF d
    <3>4. Paired(d) /\ Ids(d) \subseteq Ids(db.rows) BY <1>1, <2>3, <3>3, SegmentPaired
    <3> QED BY <1>2, <3>1, <3>4 DEF d
  <2> QED BY <1>8, <2>4, <2>5
<1> QED BY <1>6, <1>7, <1>8

LEMMA AgentSerial ==
  ASSUME IInv, TypedInv, NEW t \in Turns, Serial(t),
         AgentCallsTools(t) \/ AgentStopsMidCall(t) \/ ToolsReturn(t) \/ AgentReplies(t)
  PROVE  Serial(t)'
<1>1. /\ db' = db /\ disk' = disk /\ Held /\ Shape /\ pc[t] \in {"call", "tools"}
      /\ conv[t] \in Seq(Messages) /\ rounds[t] \in 0..MaxRounds
  BY DEF AgentCallsTools, AgentStopsMidCall, ToolsReturn, AgentReplies, store, TypedInv, Typed,
     Held, IInv
<1> DEFINE c == conv[t]  r == rounds[t]
<1>2. /\ Paired(c) /\ Below(c, t, r) /\ Below(db.rows, t, r) /\ r \in Nat
      /\ Ids(disk.rows) \subseteq Ids(db.rows)
  BY <1>1, StoredRows, HistoryAssumption DEF Serial
<1> HIDE DEF c, r
<1>3. CASE AgentCallsTools(t) \/ AgentStopsMidCall(t)
  <2> DEFINE m == Use(t, r + 1)  x == <<t, r + 1>>
  <2>1. /\ conv'[t] = Append(c, m) /\ rounds'[t] = r + 1 /\ pc'[t] \in {"saveUse", "saveCut"}
        /\ r < MaxRounds
    BY <1>1, <1>3 DEF AgentCallsTools, AgentStopsMidCall, Says, Goto, Held, Shape, c, r
  <2>2. m \in Messages /\ m.uses = {x} /\ m.results = {}
    <3>1. r + 1 \in 0..MaxRounds BY <1>2, <2>1, HistoryAssumption
    <3> QED BY <3>1, OwnMessages, OwnIds
  <2>3. x \notin Ids(c) BY <1>2 DEF Below
  <2>4. \A k \in Nat : <<t, k>> = x => k <= r + 1 BY <1>2
  <2>5. \A k \in Nat : k <= r => k <= r + 1 BY <1>2
  <2> HIDE DEF m, x
  <2>6. c \in Seq(Messages) BY <1>1 DEF c
  <2>7. /\ Len(Append(c, m)) = Len(c) + 1 /\ Append(c, m) \in Seq(Messages)
        /\ \A i \in 1..Len(c) : Append(c, m)[i] = c[i]
        /\ \A y : y \in Ids(Append(c, m)) <=> y \in Ids(c) \/ y \in m.uses \/ y \in m.results
    BY <2>2, <2>6, Added
  <2>8. Paired(Append(c, m)) BY <1>2, <2>2, <2>3, <2>6, AddedPaired
  <2>9. Below(Append(c, m), t, r + 1) BY <1>2, <2>2, <2>4, <2>5, <2>7 DEF Below
  <2>10. LastUse(Append(c, m), x)
    <3>1. \A i \in 1..Len(c) : x \notin c[i].uses BY <2>3, <2>6, IdsOf
    <3>2. Len(c) \in Nat BY <2>6
    <3>3. \A i \in 1..(Len(c) + 1) : i \in 1..Len(c) \/ i = Len(c) + 1 BY <3>2
    <3>4. DOMAIN Append(c, m) = 1..(Len(c) + 1) BY <2>7
    <3> QED BY <2>7, <3>1, <3>3, <3>4 DEF LastUse
  <2>11. Below(db.rows, t, r + 1) /\ Below(disk.rows, t, (r + 1) - 1)
    <3>1. Below(disk.rows, t, r) BY <1>2 DEF Below
    <3>2. (r + 1) - 1 = r BY <1>2
    <3> QED BY <1>2, <2>5, <3>1, <3>2 DEF Below
  <2> QED BY <1>1, <2>1, <2>8, <2>9, <2>10, <2>11 DEF Serial, x
<1>4. CASE ToolsReturn(t)
  <2> DEFINE m == Result(t, r)  x == <<t, r>>
  <2>1. conv'[t] = Append(c, m) /\ rounds'[t] = r /\ pc'[t] = "saveResult" /\ pc[t] = "tools"
    BY <1>1, <1>4 DEF ToolsReturn, Says, Goto, Held, Shape, c, r
  <2>2. m \in Messages /\ m.uses = {} /\ m.results = {x}
    BY <1>1, OwnMessages, OwnIds DEF r
  <2>3. LastUse(c, x) /\ LastUse(disk.rows, x) BY <2>1 DEF Serial, c, r
  <2>4. \A k \in Nat : <<t, k>> = x => k <= r BY <1>2
  <2> HIDE DEF m, x
  <2>5. c \in Seq(Messages) BY <1>1 DEF c
  <2>6. Paired(Append(c, m)) BY <1>2, <2>2, <2>3, <2>5, AddedPaired
  <2>7. Below(Append(c, m), t, r)
    <3>1. \A y : y \in Ids(Append(c, m)) <=> y \in Ids(c) \/ y \in m.uses \/ y \in m.results
      BY <2>2, <2>5, Added
    <3> QED BY <1>2, <2>2, <2>4, <3>1 DEF Below
  <2> QED BY <1>1, <1>2, <2>1, <2>3, <2>6, <2>7 DEF Serial, x
<1>5. CASE AgentReplies(t)
  <2>1. conv'[t] = Append(c, Reply(t)) /\ rounds'[t] = r /\ pc'[t] = "saveReply"
    BY <1>1, <1>5 DEF AgentReplies, Says, Goto, Held, Shape, c, r
  <2>2. Ids(Append(c, Reply(t))) = Ids(c) /\ Paired(Append(c, Reply(t)))
    BY <1>1, <1>2, OwnMessages, OwnIds, PlainAdded DEF c
  <2>3. Below(Append(c, Reply(t)), t, r) BY <1>2, <2>2 DEF Below
  <2> QED BY <1>1, <1>2, <2>1, <2>2, <2>3 DEF Serial
<1> QED BY <1>3, <1>4, <1>5

LEMMA ActorSerial ==
  ASSUME IInv, TypedInv, SerialInv, NEW t \in Turns, Acts(t), Paired(db.rows), Serial(t)
  PROVE  Serial(t)'
<1>1. Held /\ Shape /\ conv[t] \in Seq(Messages) BY DEF TypedInv, Typed, Held, IInv
<1>2. ASSUME Leave(t) PROVE Serial(t)' BY <1>1, <1>2, LeftSerial
<1>3. ASSUME pc[t] # "done"
      PROVE  Below(db'.rows, t, rounds[t]) /\ Below(conv[t], t, rounds[t]) /\ Paired(conv[t])
  BY <1>3, RowsStayBelow DEF Serial
<1>4. CASE Start(t)
  <2>1. /\ pc[t] = "new" /\ conv'[t] = conv[t] /\ rounds'[t] = rounds[t]
        /\ pc'[t] \in {"readCheckpoint", "saveUser"}
    BY <1>1, <1>4 DEF Start, Goto, Shape
  <2> QED BY <1>3, <2>1, QuietSerial
<1>5. CASE ReadCheckpoint(t) \/ ReadSummary(t) \/ ReadPage(t) \/ ReadLastPage(t) BY <1>5, ReadingSerial
<1>6. CASE LoadFails(t)
  <2>1. CASE t \in Web
    <3>1. /\ pc[t] # "done" /\ conv'[t] = << >> /\ rounds'[t] = rounds[t] /\ pc'[t] = "saveUser"
      BY <1>1, <1>6, <2>1 DEF LoadFails, Goto, Shape
    <3>2. Paired(<< >>) /\ Below(<< >>, t, rounds[t]) BY DEF Paired, Below, Ids
    <3> QED BY <1>3, <3>1, <3>2 DEF Serial
  <2>2. CASE t \notin Web BY <1>2, <1>6, <2>2 DEF LoadFails
  <2> QED BY <2>1, <2>2
<1>7. CASE SkipCompaction(t) \/ SummaryFails(t)
  <2>1. FirstCall(t, conv[t]) /\ rounds' = rounds /\ pc[t] # "done"
    BY <1>7 DEF SkipCompaction, SummaryFails
  <2> QED BY <1>1, <1>3, <2>1, FirstCallSerial
<1>8. CASE StartCompaction(t) \/ AdvanceCheckpoint(t) \/ InsertSummary(t)
  <2>1. /\ pc[t] # "done" /\ conv'[t] = conv[t] /\ rounds'[t] = rounds[t]
        /\ pc'[t] \in {"summarize", "summary", "commit"}
    BY <1>1, <1>8 DEF StartCompaction, AdvanceCheckpoint, InsertSummary, Goto, Shape
  <2> QED BY <1>3, <2>1, QuietSerial
<1>9. CASE SummaryArrives(t) \/ KeepCheckpoint(t)
  <2>1. pc[t] \in {"summarize", "checkpoint"} BY <1>9 DEF SummaryArrives, KeepCheckpoint
  <2>2. CASE FinishCompaction(t) BY <1>1, <1>3, <2>1, <2>2, FinishSerial
  <2>3. CASE Goto(t, "checkpoint") /\ UNCHANGED <<conv, rounds>>
    <3>1. pc'[t] = "checkpoint" BY <1>1, <2>3 DEF Goto, Shape
    <3> QED BY <1>3, <2>1, <2>3, <3>1, QuietSerial
  <2> QED BY <1>9, <2>2, <2>3 DEF SummaryArrives, KeepCheckpoint
<1>10. CASE InsertMessage(t)
  <2>1. pc[t] \in Saving /\ pc' = pc /\ conv' = conv /\ rounds' = rounds /\ disk' = disk
    BY <1>10 DEF InsertMessage
  <2>2. pc[t] \notin {"new", "done", "readSummary", "readPage", "call"} BY <2>1 DEF Saving
  <2> QED BY <1>3, <2>1, <2>2 DEF Serial
<1>11. CASE Commit(t)
  <2>1. pc[t] # "done" /\ writer = t /\ disk' = db /\ Proceed(t) BY <1>11 DEF Commit, Saving
  <2> QED BY <1>3, <2>1, ProceedSerial
<1>12. CASE WriteFails(t) \/ NestedBegin(t)
  <2>1. pc[t] # "done" /\ disk' = disk /\ (Leave(t) \/ Proceed(t))
    BY <1>12 DEF WriteFails, NestedBegin, GiveUpWrite, Writing, Saving
  <2> QED BY <1>2, <1>3, <2>1, ProceedSerial
<1>13. CASE AgentCallsTools(t) \/ ToolsReturn(t) \/ AgentStopsMidCall(t) \/ AgentReplies(t)
  BY <1>13, AgentSerial
<1>14. CASE AgentGivesNothing(t) \/ Disconnect(t) BY <1>2, <1>14 DEF AgentGivesNothing, Disconnect
<1> QED BY <1>4, <1>5, <1>6, <1>7, <1>8, <1>9, <1>10, <1>11, <1>12, <1>13, <1>14 DEF Acts

LEMMA CrashSerial == ASSUME IInv, TypedInv, SerialInv, Crash PROVE SerialInv'
<1>1. /\ db' = disk /\ disk' = disk /\ writer' = None /\ overlapped' = overlapped
      /\ pc' = [t \in Turns |-> IF pc[t] = "new" THEN "new" ELSE "done"]
      /\ conv' = [t \in Turns |-> << >>] /\ rounds' = [t \in Turns |-> 0]
  BY DEF Crash, flags
<1>2. \A t \in Turns : Written(t)' BY <1>1, HistoryAssumption DEF Written
<1>3. Alone' BY <1>1 DEF Alone, Running, Writing, Saving
<1>4. ASSUME ~overlapped PROVE Paired(disk.rows) /\ \A t \in Turns : Serial(t)'
  <2>1. Paired(db.rows) /\ \A t \in Turns : Serial(t) BY <1>4 DEF SerialInv
  <2>2. Paired(disk.rows) /\ Ids(disk.rows) \subseteq Ids(db.rows) BY <2>1, StoredRows
  <2>3. Paired(<< >>) /\ Ids(<< >>) = {} BY DEF Paired, Ids
  <2>4. ASSUME NEW t \in Turns PROVE Serial(t)'
    <3>1. conv'[t] = << >> /\ rounds'[t] = 0 /\ pc'[t] \in {"new", "done"} /\ (pc'[t] = "new" => pc[t] = "new")
      BY <1>1
    <3>2. pc[t] = "new" => Below(db.rows, t, 0) BY <2>1 DEF Serial
    <3>3. pc'[t] = "new" => Below(disk.rows, t, 0) BY <2>2, <3>1, <3>2 DEF Below
    <3>4. Below(<< >>, t, 0) BY <2>3 DEF Below
    <3> QED BY <1>1, <2>3, <3>1, <3>3, <3>4 DEF Serial
  <2> QED BY <2>2, <2>4
<1> QED BY <1>1, <1>2, <1>3, <1>4 DEF SerialInv

LEMMA SerialStays == ASSUME IInv, TypedInv, SerialInv, [Next]_vars PROVE SerialInv'
<1>1. CASE UNCHANGED vars
  <2>1. UNCHANGED <<Web, db, disk, writer, pc, conv, ids, known, seen, rounds, overlapped>> BY <1>1 DEF vars
  <2>2. \A t \in Turns : (Written(t)' <=> Written(t)) /\ (Serial(t)' <=> Serial(t))
    BY <2>1 DEF Written, Row, Serial, Reading
  <2>3. Alone' <=> Alone BY <2>1 DEF Alone
  <2> QED BY <2>1, <2>2, <2>3 DEF SerialInv
<1>2. CASE Crash BY <1>2, CrashSerial
<1>3. ASSUME NEW t \in Turns, Acts(t) PROVE SerialInv'
  <2>1. \A u \in Turns : Written(u)' BY <1>3, WrittenStays
  <2>2. ASSUME ~overlapped'
        PROVE  Alone' /\ Paired(db'.rows) /\ \A u \in Turns : Serial(u)'
    <3>1. overlapped \in BOOLEAN BY DEF TypedInv, Typed
    <3>2. /\ ~overlapped /\ Alone' /\ Paired(db.rows) /\ Serial(t)
          /\ \A u \in Turns \ {t} : pc[u] \in {"new", "done"} /\ Serial(u)
      BY <1>3, <2>2, <3>1, ActsAlone
    <3>3. Paired(db'.rows) BY <1>3, <3>2, SerialRows
    <3>4. Serial(t)' BY <1>3, <3>2, ActorSerial
    <3>5. \A u \in Turns \ {t} : Serial(u)' BY <1>3, <3>2, OthersSerial
    <3> QED BY <3>2, <3>3, <3>4, <3>5
  <2> QED BY <2>1, <2>2 DEF SerialInv
<1> QED BY <1>1, <1>2, <1>3, Steps

LEMMA AlwaysSerial == Spec => []SerialInv
<1>1. Init /\ TypedInv => SerialInv BY SerialAtFirst
<1>2. IInv /\ TypedInv /\ SerialInv /\ [Next]_vars => SerialInv' BY SerialStays
<1> QED BY <1>1, <1>2, AlwaysIInv, AlwaysTyped, PTL DEF Spec

(* While turns do not overlap, what is sent to the model is acceptable to  *)
(* its API, whatever failed, was cut off, compacted or lost in a crash     *)
(* before (_repair_conversation, agent.py:757-874).                        *)
THEOREM CallsAreWellFormed == Spec => []WellFormedCalls
<1>1. ASSUME TypedInv, SerialInv PROVE WellFormedCalls
  <2> SUFFICES ASSUME NEW t \in Turns, pc[t] = "call", ~overlapped PROVE Acceptable(conv[t])
    BY DEF WellFormedCalls
  <2>1. EveryUseAnswered(conv[t]) /\ NothingEmpty(conv[t]) BY <1>1 DEF TypedInv, Sent
  <2>2. EveryResultCalledFor(conv[t]) BY <1>1 DEF SerialInv, Serial
  <2> QED BY <2>1, <2>2 DEF Acceptable
<1> QED BY <1>1, AlwaysTyped, AlwaysSerial, PTL

-----------------------------------------------------------------------------
(* Turns that do not overlap, and writes that do not fail: what is sent is    *)
(* the whole session.                                                         *)

Kinds == {"user", "use", "result", "reply"}
In(c, n) == \E i \in DOMAIN c : c[i].name = n
Found(c, m) ==
  m.results \subseteq AllUses(c) /\ \E p \in DOMAIN c : Intact(c, p, m) /\ ~IsEmpty(c[p])

(* No result is first after the checkpoint. *)
Clean(d) == d.upTo < Len(d.rows) => ~IsResult(d.rows[d.upTo + 1])

(* The rows are different, and each result follows its call. *)
Orderly(q) ==
  /\ \A i, j \in DOMAIN q : q[i].name = q[j].name => i = j
  /\ \A i \in DOMAIN q : q[i].name # Inserted /\ ~IsEmpty(q[i])
  /\ EveryResultCalledFor(q)

Reads == {"readCheckpoint", "readSummary", "readPage"}
Compacting == {"compact", "summarize", "checkpoint", "summary", "commit"}
Loop == {"call", "saveUse", "tools", "saveResult"}

(* The operator's message is a row. *)
Begun(t) == pc[t] \in Compacting \cup Loop \/ (pc[t] \in Reads /\ t \notin Web)

(* Which rows of its own a turn may have committed. *)
Stored(t, k, j) ==
  \/ k = "user" /\ pc[t] \notin {"new", "saveUser"} /\ (t \in Web => pc[t] \notin Reads)
  \/ k = "use" /\ j <= rounds[t] - (IF pc[t] \in {"saveUse", "saveCut"} THEN 1 ELSE 0)
  \/ k = "result" /\ j <= rounds[t] - (IF pc[t] \in {"saveUse", "tools", "saveResult"} THEN 1 ELSE 0)

OwnRows(t) ==
  pc[t] # "done" => \A k \in Kinds, j \in Nat : In(disk.rows, <<t, k, j>>) => Stored(t, k, j)

(* Which messages of its own are in what it tells the model. *)
Told(t, k, j) ==
  \/ k = "user"
  \/ k = "use" /\ j <= rounds[t]
  \/ k = "result" /\ j <= rounds[t] - (IF pc[t] \in {"saveUse", "tools"} THEN 1 ELSE 0)

FirstRows(q, b) == {q[i] : i \in 1..b}
Cut(c, k) == <<SummaryMessage>> \o SubSeq(c, k + 1, Len(c))

(* The messages c are the rows of q after the first b, up to row n, behind *)
(* a summary (h = 1) or none, and K are those b rows.                      *)
Follow(c, K, q, n, b, h) ==
  /\ h <= Len(c) /\ n = b + Len(c) - h /\ n <= Len(q)
  /\ Segment(c, q, b, h)
  /\ K = FirstRows(q, b)
  /\ b < Len(q) => ~IsResult(q[b + 1])

Follows(c, K, q, n) == \E b \in Nat, h \in {0, 1} : Follow(c, K, q, n, b, h)

(* So does what is loaded, and each message has the id of its row. *)
Fetched(c, z, K, q, n) ==
  \E b \in Nat, h \in {0, 1} : Follow(c, K, q, n, b, h) /\ Numbered(z, Len(c), b, h)

(* Every row of q is among the messages c or, if it is in K, behind the    *)
(* summary; K are committed rows.                                          *)
Shows(c, K, q, l) ==
  \E b \in 0..l :
    /\ K = FirstRows(q, b)
    /\ \A i \in 1..Len(q) : IF i <= b THEN ~In(c, q[i].name) ELSE Found(c, q[i])

Kept(t) ==
  /\ Once(conv[t])
  /\ \A k \in Kinds, j \in Nat : In(conv[t], <<t, k, j>>) => Told(t, k, j)
  /\ Shows(conv[t], known[t], db.rows, Len(disk.rows))

Whole(t) ==
  /\ OwnRows(t)
  /\ Begun(t) => db.upTo < Len(disk.rows)
  /\ pc[t] \in Reads /\ t \notin Web => db.rows[Len(db.rows)] = User(t)
  /\ pc[t] = "saveUser" /\ t \in Web =>
       Fetched(conv[t], ids[t], known[t], db.rows, Len(db.rows) - (IF writer = t THEN 1 ELSE 0))
  /\ pc[t] \in Compacting =>
       db.rows[Len(db.rows)] = User(t) /\ Fetched(conv[t], ids[t], known[t], db.rows, Len(db.rows) - 1)
  /\ pc[t] \in Compacting \ {"compact"} => ~IsResult(conv[t][split[t] + 1])
  /\ pc[t] \in Loop => Kept(t)
  /\ pc[t] \in {"saveUse", "saveResult"} => Found(conv[t], Row(t))
  /\ pc[t] \in {"saveUse", "tools"} => <<t, rounds[t]>> \in AllUses(conv[t])
  /\ pc[t] \in {"tools", "saveResult"} => <<t, rounds[t]>> \in disk.rows[Len(disk.rows)].uses

ContextInv ==
  \/ overlapped \/ failed
  \/ Clean(db) /\ Clean(disk) /\ Orderly(db.rows) /\ \A t \in Turns : Whole(t)

-----------------------------------------------------------------------------
(* Names, and what is found of a message after others are added or mended.    *)

LEMMA MessageFields ==
  ASSUME NEW m \in Messages
  PROVE  /\ m.name \in Names /\ m.role \in {"user", "assistant"} /\ m.text \in BOOLEAN
         /\ m.uses # {} => m.role = "assistant"
         /\ m.results # {} => IsResult(m)
         /\ IsResult(m) => m.results # {}
BY MadeFields DEF Messages, IsResult

LEMMA OwnNames ==
  ASSUME NEW t
  PROVE  /\ User(t).name = <<t, "user", 0>> /\ ~IsEmpty(User(t)) /\ User(t).role = "user"
         /\ Reply(t).name = <<t, "reply", 0>> /\ ~IsEmpty(Reply(t))
         /\ SystemNote.name = Inserted /\ SummaryMessage.name = Inserted
         /\ \A r : Use(t, r).name = <<t, "use", r>> /\ ~IsEmpty(Use(t, r))
         /\ \A r : Result(t, r).name = <<t, "result", r>> /\ ~IsEmpty(Result(t, r))
BY DEF User, Reply, SystemNote, SummaryMessage, Use, Result, Message, IsEmpty

LEMMA UsesAre ==
  ASSUME NEW c \in Seq(Messages)
  PROVE  \A x : x \in AllUses(c) <=> \E i \in 1..Len(c) : x \in c[i].uses
BY UsesOf DEF Messages

LEMMA MendedStays ==
  ASSUME NEW c \in Seq(Messages)
  PROVE  /\ Once(c) => Once(Repair(c))
         /\ \A n : n # Inserted /\ ~In(c, n) => ~In(Repair(c), n)
         /\ \A m : Found(c, m) => Found(Repair(c), m)
         /\ AllUses(Repair(c)) = AllUses(c)
<1> DEFINE d == Repair(c)
<1>1. Mends(c, d) BY OwnMessages, Repaired DEF Messages
<1> HIDE DEF d
<1>2. ASSUME NEW n, n # Inserted, ~In(c, n) PROVE ~In(d, n) BY <1>1, <1>2 DEF Mends, In
<1>3. ASSUME NEW m, Found(c, m) PROVE Found(d, m)
  <2>1. PICK p \in DOMAIN c : Intact(c, p, m) /\ ~IsEmpty(c[p]) BY <1>3 DEF Found
  <2>2. PICK q \in DOMAIN d :
          /\ d[q].name = c[p].name /\ ~IsEmpty(d[q])
          /\ c[p].uses \subseteq d[q].uses /\ c[p].results \cap AllUses(c) \subseteq d[q].results
    BY <1>1, <2>1 DEF Mends
  <2>3. m.results \subseteq AllUses(c) /\ AllUses(d) = AllUses(c) BY <1>1, <1>3 DEF Found, Mends
  <2>4. Intact(d, q, m) BY <2>1, <2>2, <2>3 DEF Intact
  <2> QED BY <2>2, <2>3, <2>4 DEF Found
<1> QED BY <1>1, <1>2, <1>3 DEF Mends, d

LEMMA AddedStays ==
  ASSUME NEW c \in Seq(Messages), NEW m \in Messages
  PROVE  /\ Once(c) /\ (m.name = Inserted \/ ~In(c, m.name)) => Once(Append(c, m))
         /\ \A n : In(Append(c, m), n) <=> In(c, n) \/ n = m.name
         /\ \A x : Found(c, x) => Found(Append(c, m), x)
         /\ \A x : x \in AllUses(Append(c, m)) <=> x \in AllUses(c) \/ x \in m.uses
         /\ ~IsEmpty(m) /\ m.results \subseteq AllUses(c) => Found(Append(c, m), m)
<1> DEFINE d == Append(c, m)  n == Len(c)
<1>1. /\ d \in Seq(Messages) /\ Len(d) = n + 1 /\ n \in Nat
      /\ \A i \in 1..n : d[i] = c[i]
      /\ d[n + 1] = m
  BY Added
<1>2. DOMAIN c = 1..n /\ DOMAIN d = 1..(n + 1) BY <1>1
<1>3. /\ \A i \in 1..(n + 1) : i \in 1..n \/ i = n + 1
      /\ \A i \in 1..n : i \in 1..(n + 1)
      /\ n + 1 \in 1..(n + 1) /\ n + 1 \notin 1..n
  BY <1>1
<1> DEFINE l == n + 1
<1> HIDE DEF d, l
<1>4. /\ DOMAIN d = 1..l /\ d[l] = m /\ (\A i \in 1..n : d[i] = c[i]) /\ DOMAIN c = 1..n
      /\ \A i \in 1..l : i \in 1..n \/ i = l
      /\ \A i \in 1..n : i \in 1..l
      /\ l \in 1..l /\ l \notin 1..n
  BY <1>1, <1>2, <1>3 DEF l
<1>5. ASSUME Once(c), m.name = Inserted \/ ~In(c, m.name) PROVE Once(d)
  BY <1>4, <1>5 DEF Once, In
<1>6. \A x : In(d, x) <=> In(c, x) \/ x = m.name BY <1>4 DEF In
<1>7. \A x : x \in AllUses(d) <=> x \in AllUses(c) \/ x \in m.uses
  <2>1. \A x : x \in AllUses(d) <=> \E i \in 1..l : x \in d[i].uses BY <1>1, UsesAre DEF l
  <2>2. \A x : x \in AllUses(c) <=> \E i \in 1..n : x \in c[i].uses BY UsesAre
  <2> QED BY <1>4, <2>1, <2>2
<1>8. ASSUME NEW x, Found(c, x) PROVE Found(d, x)
  <2>1. PICK p \in DOMAIN c : Intact(c, p, x) /\ ~IsEmpty(c[p]) BY <1>8 DEF Found
  <2>2. p \in DOMAIN d /\ d[p] = c[p] BY <1>4, <2>1
  <2>3. Intact(d, p, x) /\ ~IsEmpty(d[p]) BY <2>1, <2>2 DEF Intact
  <2>4. x.results \subseteq AllUses(d) BY <1>7, <1>8 DEF Found
  <2> QED BY <2>2, <2>3, <2>4 DEF Found
<1>9. ASSUME ~IsEmpty(m), m.results \subseteq AllUses(c) PROVE Found(d, m)
  <2>1. Intact(d, l, m) /\ ~IsEmpty(d[l]) BY <1>4, <1>9 DEF Intact
  <2> QED BY <1>4, <1>7, <1>9, <2>1 DEF Found
<1> QED BY <1>5, <1>6, <1>7, <1>8, <1>9 DEF d

LEMMA OrderlyGrows ==
  ASSUME NEW q \in Seq(Messages), Orderly(q), NEW m \in Messages,
         ~In(q, m.name), m.name # Inserted, ~IsEmpty(m),
         m.results # {} => Len(q) > 0 /\ m.results \subseteq q[Len(q)].uses
  PROVE  Orderly(Append(q, m))
<1> DEFINE d == Append(q, m)  n == Len(q)
<1>1. /\ d \in Seq(Messages) /\ Len(d) = n + 1 /\ n \in Nat
      /\ \A i \in 1..n : d[i] = q[i]
      /\ d[n + 1] = m
  BY Added
<1>2. DOMAIN q = 1..n /\ DOMAIN d = 1..(n + 1) BY <1>1
<1> HIDE DEF d, n
<1>3. \A i \in 1..(n + 1) : i \in 1..n \/ i = n + 1 BY <1>1
<1>4. \A i, j \in DOMAIN d : d[i].name = d[j].name => i = j
  <2> SUFFICES ASSUME NEW i \in 1..(n + 1), NEW j \in 1..(n + 1), d[i].name = d[j].name PROVE i = j
    BY <1>2
  <2>1. \A k \in 1..n : d[k] = q[k] /\ d[k].name # m.name BY <1>1, <1>2 DEF In
  <2>2. \A k, l \in 1..n : q[k].name = q[l].name => k = l BY <1>2 DEF Orderly
  <2>3. (i \in 1..n /\ j \in 1..n) \/ (i = n + 1 /\ j = n + 1) BY <1>1, <1>3, <2>1
  <2> QED BY <2>1, <2>2, <2>3
<1>5. \A i \in DOMAIN d : d[i].name # Inserted /\ ~IsEmpty(d[i]) BY <1>1, <1>2, <1>3 DEF Orderly
<1>6. EveryResultCalledFor(d)
  <2> SUFFICES ASSUME NEW i \in 1..(n + 1), d[i].results # {}
               PROVE  i > 1 /\ d[i].results \subseteq d[i - 1].uses
    BY <1>2 DEF EveryResultCalledFor
  <2>1. CASE i \in 1..n
    <3>1. i > 1 /\ d[i].results \subseteq q[i - 1].uses
      BY <1>1, <1>2, <2>1 DEF Orderly, EveryResultCalledFor
    <3>2. i - 1 \in 1..n BY <1>1, <2>1, <3>1
    <3> QED BY <1>1, <3>1, <3>2
  <2>2. CASE i = n + 1
    <3>1. n > 0 /\ m.results \subseteq q[n].uses BY <1>1, <2>2 DEF n
    <3>2. n \in 1..n /\ i - 1 = n /\ i > 1 BY <1>1, <2>2, <3>1
    <3> QED BY <1>1, <2>2, <3>1, <3>2
  <2> QED BY <1>3, <2>1, <2>2
<1> QED BY <1>4, <1>5, <1>6 DEF Orderly, d

LEMMA OrderlyPrefix ==
  ASSUME NEW r \in Seq(Messages), NEW q \in Seq(Messages), Extends(r, q), Orderly(q)
  PROVE  Orderly(r)
<1>1. DOMAIN r = 1..Len(r) /\ DOMAIN q = 1..Len(q) /\ Len(r) \in Nat /\ Len(q) \in Nat OBVIOUS
<1>2. \A i \in 1..Len(r) : i \in 1..Len(q) /\ r[i] = q[i] BY <1>1 DEF Extends
<1>3. EveryResultCalledFor(r)
  <2> SUFFICES ASSUME NEW i \in 1..Len(r), r[i].results # {}
               PROVE  i > 1 /\ r[i].results \subseteq r[i - 1].uses
    BY <1>1 DEF EveryResultCalledFor
  <2>1. i > 1 /\ r[i].results \subseteq q[i - 1].uses
    BY <1>1, <1>2 DEF Orderly, EveryResultCalledFor
  <2>2. i - 1 \in 1..Len(r) BY <1>1, <2>1
  <2> QED BY <1>2, <2>1, <2>2
<1> QED BY <1>1, <1>2, <1>3 DEF Orderly

(* What is loaded to its end holds every row that is not summarized.          *)
LEMMA LoadedWhole ==
  ASSUME NEW q \in Seq(Messages), Orderly(q), NEW c \in Seq(Messages), NEW b \in Nat, NEW h \in {0, 1},
         h <= Len(c), Segment(c, q, b, h), Len(q) = b + Len(c) - h,
         b < Len(q) => ~IsResult(q[b + 1])
  PROVE  /\ Once(c)
         /\ \A i \in DOMAIN c : c[i].name = Inserted \/ In(q, c[i].name)
         /\ \A i \in 1..Len(q) : IF i <= b THEN ~In(c, q[i].name) ELSE Found(c, q[i])
<1> DEFINE n == Len(c)  l == Len(q)
<1>1. n \in Nat /\ l \in Nat /\ h <= n /\ l = b + n - h /\ DOMAIN c = 1..n /\ DOMAIN q = 1..l
  OBVIOUS
<1>2. \A j \in 1..n : j <= h => c[j] = SummaryMessage BY DEF Segment
<1>3. \A j \in 1..n : ~(j <= h) => b + j - h \in 1..l /\ c[j] = q[b + j - h]
  <2> SUFFICES ASSUME NEW j \in 1..n, ~(j <= h) PROVE b + j - h \in 1..l /\ c[j] = q[b + j - h]
    OBVIOUS
  <2>1. b + j - h <= l /\ c[j] = q[b + j - h] BY DEF Segment
  <2> QED BY <1>1, <2>1
<1>4. \A i, j \in 1..l : q[i].name = q[j].name => i = j BY <1>1 DEF Orderly
<1>5. \A i \in 1..l : q[i].name # Inserted /\ ~IsEmpty(q[i]) BY <1>1 DEF Orderly
<1>6. SummaryMessage.name = Inserted BY OwnNames
<1> HIDE DEF n, l
<1>7. Once(c)
  <2> SUFFICES ASSUME NEW i \in 1..n, NEW j \in 1..n, c[i].name = c[j].name, c[i].name # Inserted
               PROVE  i = j
    BY <1>1 DEF Once
  <2>1. ~(i <= h) /\ ~(j <= h) BY <1>2, <1>6
  <2>2. b + i - h \in 1..l /\ c[i] = q[b + i - h] BY <1>3, <2>1
  <2>3. b + j - h \in 1..l /\ c[j] = q[b + j - h] BY <1>3, <2>1
  <2>4. b + i - h = b + j - h BY <1>4, <2>2, <2>3
  <2> QED BY <2>4
<1>8. \A i \in DOMAIN c : c[i].name = Inserted \/ In(q, c[i].name)
  <2> SUFFICES ASSUME NEW i \in 1..n PROVE c[i].name = Inserted \/ In(q, c[i].name) BY <1>1
  <2>1. CASE i <= h BY <1>2, <1>6, <2>1
  <2>2. CASE ~(i <= h) BY <1>1, <1>3, <2>2 DEF In
  <2> QED BY <2>1, <2>2
<1>9. ASSUME NEW i \in 1..l, i <= b PROVE ~In(c, q[i].name)
  <2> SUFFICES ASSUME NEW j \in 1..n, c[j].name = q[i].name PROVE FALSE BY <1>1 DEF In
  <2>1. ~(j <= h) BY <1>2, <1>5, <1>6
  <2>2. b + j - h \in 1..l /\ c[j] = q[b + j - h] BY <1>3, <2>1
  <2>3. b + j - h = i BY <1>4, <2>2
  <2> QED BY <1>9, <2>1, <2>3
<1>10. \A i \in 1..l : ~(i <= b) => i - b + h \in 1..n /\ c[i - b + h] = q[i]
  <2> SUFFICES ASSUME NEW i \in 1..l, ~(i <= b) PROVE i - b + h \in 1..n /\ c[i - b + h] = q[i]
    OBVIOUS
  <2> DEFINE j == i - b + h
  <2>1. j \in 1..n /\ ~(j <= h) /\ b + j - h = i BY <1>1
  <2> HIDE DEF j
  <2>2. c[j] = q[i] BY <1>3, <2>1
  <2> QED BY <2>1, <2>2 DEF j
<1>11. ASSUME NEW i \in 1..l, ~(i <= b) PROVE Found(c, q[i])
  <2>1. PICK p \in 1..n : c[p] = q[i] BY <1>10, <1>11
  <2>2. Intact(c, p, q[i]) /\ ~IsEmpty(c[p]) BY <1>5, <2>1 DEF Intact
  <2>3. q[i].results \subseteq AllUses(c)
    <3> SUFFICES ASSUME NEW x \in q[i].results PROVE x \in AllUses(c) OBVIOUS
    <3>1. i > 1 /\ x \in q[i - 1].uses BY <1>1 DEF Orderly, EveryResultCalledFor
    <3>2. IsResult(q[i]) BY <1>1, MessageFields
    <3>3. i # b + 1 BY <1>1, <3>2 DEF l
    <3>4. i - 1 \in 1..l /\ ~(i - 1 <= b) BY <1>1, <1>11, <3>1, <3>3
    <3> DEFINE k == i - 1
    <3>5. k \in 1..l /\ ~(k <= b) /\ x \in q[k].uses BY <3>1, <3>4
    <3> HIDE DEF k
    <3>6. PICK r \in 1..n : c[r] = q[k] BY <1>10, <3>5
    <3> QED BY <3>5, <3>6, UsesAre DEF n
  <2> QED BY <1>1, <2>1, <2>2, <2>3 DEF Found
<1> QED BY <1>7, <1>8, <1>9, <1>11 DEF l

LEMMA SegmentAppend ==
  ASSUME NEW q \in Seq(Messages), NEW c \in Seq(Messages), NEW b \in Nat, NEW h \in {0, 1},
         h <= Len(c), Segment(c, q, b, h), b + Len(c) - h = Len(q) - 1
  PROVE  /\ Segment(Append(c, q[Len(q)]), q, b, h)
         /\ Len(q) = b + Len(Append(c, q[Len(q)])) - h /\ h <= Len(Append(c, q[Len(q)]))
<1> DEFINE n == Len(c)  l == Len(q)  m == q[Len(q)]  d == Append(c, m)
<1>1. n \in Nat /\ l \in Nat /\ h <= n /\ b + n - h = l - 1 OBVIOUS
<1>2. l \in 1..l /\ b + (n + 1) - h = l BY <1>1
<1>3. m \in Messages BY <1>2
<1> HIDE DEF m
<1>4. Len(d) = n + 1 /\ (\A i \in 1..n : d[i] = c[i]) /\ d[n + 1] = m BY <1>3, Added
<1> HIDE DEF d
<1>5. ASSUME NEW j \in 1..(n + 1)
      PROVE  IF j <= h THEN d[j] = SummaryMessage ELSE b + j - h <= l /\ d[j] = q[b + j - h]
  <2>1. CASE j \in 1..n
    <3>1. d[j] = c[j] BY <1>4, <2>1
    <3> QED BY <2>1, <3>1 DEF Segment
  <2>2. CASE j = n + 1
    <3>1. ~(j <= h) /\ b + j - h = l BY <1>1, <2>2
    <3> QED BY <1>1, <1>4, <2>2, <3>1 DEF m
  <2>3. j \in 1..n \/ j = n + 1 BY <1>1
  <2> QED BY <2>1, <2>2, <2>3
<1>6. Segment(d, q, b, h) BY <1>4, <1>5 DEF Segment
<1>7. l = b + Len(d) - h /\ h <= Len(d) BY <1>1, <1>2, <1>4
<1> QED BY <1>6, <1>7 DEF d, m

LEMMA RowNamed ==
  ASSUME IInv, NEW t \in Turns, pc[t] \in Saving
  PROVE  /\ ~IsEmpty(Row(t)) /\ (IsResult(Row(t)) => pc[t] = "saveResult")
         /\ pc[t] = "saveUser" => Row(t).name = <<t, "user", 0>>
         /\ pc[t] \in {"saveUse", "saveCut"} => Row(t).name = <<t, "use", rounds[t]>>
         /\ pc[t] = "saveResult" => Row(t).name = <<t, "result", rounds[t]>>
         /\ pc[t] = "saveReply" => Row(t).name = <<t, "reply", 0>>
         /\ \E k \in Kinds, j \in Nat : Row(t).name = <<t, k, j>>
<1>1. rounds[t] \in Nat /\ 0 \in Nat BY DEF IInv, Shape
<1>2. \A m, k, j : k \in Kinds /\ j \in Nat /\ m.name = <<t, k, j>> =>
        \E kk \in Kinds, jj \in Nat : m.name = <<t, kk, jj>>
  OBVIOUS
<1>3. "user" \in Kinds /\ "use" \in Kinds /\ "result" \in Kinds /\ "reply" \in Kinds BY DEF Kinds
<1>4. CASE pc[t] = "saveUser"
  <2>1. Row(t) = User(t) BY <1>4 DEF Row
  <2>2. ~IsEmpty(User(t)) /\ ~IsResult(User(t)) /\ User(t).name = <<t, "user", 0>>
    BY OwnNames, OwnIds DEF IsResult
  <2> QED BY <1>1, <1>2, <1>3, <1>4, <2>1, <2>2
<1>5. CASE pc[t] \in {"saveUse", "saveCut"}
  <2>1. Row(t) = Use(t, rounds[t]) BY <1>5 DEF Row
  <2>2. /\ ~IsEmpty(Use(t, rounds[t])) /\ ~IsResult(Use(t, rounds[t]))
        /\ Use(t, rounds[t]).name = <<t, "use", rounds[t]>>
    BY OwnNames, OwnIds DEF IsResult
  <2> QED BY <1>1, <1>2, <1>3, <1>5, <2>1, <2>2
<1>6. CASE pc[t] = "saveResult"
  <2>1. Row(t) = Result(t, rounds[t]) BY <1>6 DEF Row
  <2>2. ~IsEmpty(Result(t, rounds[t])) /\ Result(t, rounds[t]).name = <<t, "result", rounds[t]>>
    BY OwnNames
  <2> QED BY <1>1, <1>2, <1>3, <1>6, <2>1, <2>2
<1>7. CASE pc[t] = "saveReply"
  <2>1. Row(t) = Reply(t) BY <1>7 DEF Row
  <2>2. ~IsEmpty(Reply(t)) /\ ~IsResult(Reply(t)) /\ Reply(t).name = <<t, "reply", 0>>
    BY OwnNames, OwnIds DEF IsResult
  <2> QED BY <1>1, <1>2, <1>3, <1>7, <2>1, <2>2
<1> QED BY <1>4, <1>5, <1>6, <1>7 DEF Saving

(* What becomes of the tables when no write fails. *)
LEMMA StoreChange ==
  ASSUME IInv, NEW t \in Turns, Acts(t), ~failed'
  PROVE  /\ failed' = failed
         /\ \/ InsertMessage(t) \/ AdvanceCheckpoint(t)
            \/ /\ db'.rows = db.rows /\ db'.upTo = db.upTo
               /\ disk' = disk \/ (db' = db /\ disk' = db /\ writer = t /\ (Commit(t) \/ Disconnect(t)))
<1>1. CASE InsertMessage(t) \/ AdvanceCheckpoint(t)
  BY <1>1 DEF InsertMessage, AdvanceCheckpoint, flags
<1>2. CASE InsertSummary(t)
  <2> DEFINE x == [upTo |-> LastId(t), covers |-> Covered(t)]
  <2>1. db' = [db EXCEPT !.sums = @ \cup {x}] /\ disk' = disk /\ failed' = failed
    BY <1>2 DEF InsertSummary, flags
  <2>2. db \in Session BY DEF IInv, StoreOK
  <2> HIDE DEF x
  <2> QED BY <2>1, <2>2 DEF Session
<1>3. CASE \/ Start(t) \/ ReadCheckpoint(t) \/ ReadSummary(t) \/ ReadPage(t) \/ ReadLastPage(t)
           \/ SkipCompaction(t) \/ StartCompaction(t) \/ SummaryFails(t)
           \/ SummaryArrives(t) \/ KeepCheckpoint(t) \/ AgentCallsTools(t) \/ ToolsReturn(t)
           \/ AgentStopsMidCall(t) \/ AgentReplies(t) \/ AgentGivesNothing(t)
  <2>1. UNCHANGED store /\ failed' = failed
    BY <1>3 DEF Start, ReadCheckpoint, ReadSummary, ReadPage, ReadLastPage,
       SkipCompaction, StartCompaction, SummaryFails, SummaryArrives, KeepCheckpoint,
       AgentCallsTools, ToolsReturn, AgentStopsMidCall, AgentReplies, AgentGivesNothing, flags
  <2> QED BY <2>1 DEF store
<1>4. CASE LoadFails(t) \/ WriteFails(t) \/ NestedBegin(t)
  BY <1>4 DEF LoadFails, WriteFails, NestedBegin, GiveUpWrite
<1>5. CASE Commit(t) BY <1>5 DEF Commit, flags
<1>6. CASE Disconnect(t)
  BY <1>6 DEF Disconnect, LeavesOpen, CommitsLast, store, flags
<1> QED BY <1>1, <1>2, <1>3, <1>4, <1>5, <1>6 DEF Acts

-----------------------------------------------------------------------------
(* Compaction: what the summary stands for and what is kept behind it.        *)

LEMMA CutSegment ==
  \A q, c \in Seq(Messages) : \A b \in Nat, h \in {0, 1}, k \in 1..Len(c) :
     Segment(c, q, b, h) =>
       /\ Cut(c, k) \in Seq(Messages) /\ Segment(Cut(c, k), q, b + k - h, 1)
       /\ Len(Cut(c, k)) = Len(c) - k + 1
<1> SUFFICES ASSUME NEW q \in Seq(Messages), NEW c \in Seq(Messages), NEW b \in Nat,
                    NEW h \in {0, 1}, NEW k \in 1..Len(c), Segment(c, q, b, h)
             PROVE  /\ Cut(c, k) \in Seq(Messages) /\ Segment(Cut(c, k), q, b + k - h, 1)
                    /\ Len(Cut(c, k)) = Len(c) - k + 1
  OBVIOUS
<1> DEFINE d == Cut(c, k)
<1>1. Len(c) \in Nat /\ k \in Nat /\ k >= 1 /\ k <= Len(c) /\ k \in 0..Len(c) OBVIOUS
<1>2. d \in Seq(Messages) /\ Segment(d, c, k, 1) /\ Len(d) = Len(c) - k + 1 BY <1>1, TailSegment DEF Cut
<1> HIDE DEF d
<1>3. ASSUME NEW j \in 1..Len(d)
      PROVE  IF j <= 1 THEN d[j] = SummaryMessage
                       ELSE b + k - h + j - 1 <= Len(q) /\ d[j] = q[b + k - h + j - 1]
  <2>1. CASE j <= 1 BY <1>2, <2>1 DEF Segment
  <2>2. CASE ~(j <= 1)
    <3> DEFINE i == k + j - 1
    <3>1. i <= Len(c) /\ d[j] = c[i] BY <1>2, <2>2 DEF Segment
    <3>2. i \in 1..Len(c) /\ ~(i <= h) /\ b + i - h = b + k - h + j - 1 BY <1>1, <2>2, <3>1
    <3> HIDE DEF i
    <3>3. b + i - h <= Len(q) /\ c[i] = q[b + i - h] BY <3>2 DEF Segment
    <3> QED BY <2>2, <3>1, <3>2, <3>3
  <2> QED BY <2>1, <2>2
<1> QED BY <1>2, <1>3 DEF Segment, d

LEMMA CoveredRows ==
  ASSUME NEW t \in Turns, NEW q \in Seq(Messages), NEW b \in Nat, NEW h \in {0, 1},
         conv[t] \in Seq(Messages), Segment(conv[t], q, b, h), Numbered(ids[t], Len(conv[t]), b, h),
         known[t] = FirstRows(q, b), split[t] \in 1..Len(conv[t])
  PROVE  Covered(t) = FirstRows(q, b + split[t] - h)
<1> DEFINE k == split[t]  c == conv[t]
<1>1. Len(c) \in Nat /\ k \in 1..Len(c) /\ k \in Nat /\ b + k - h \in Nat /\ b <= b + k - h OBVIOUS
<1>2. \A j \in 1..k : j \in 1..Len(c) BY <1>1
<1>3. \A j \in 1..k : ids[t][j] # -1 <=> j > h
  <2>1. \A j \in 1..Len(c) : ids[t][j] = IF j <= h THEN -1 ELSE b + j - h BY DEF Numbered
  <2> SUFFICES ASSUME NEW j \in 1..k PROVE ids[t][j] # -1 <=> j > h OBVIOUS
  <2>2. ids[t][j] = IF j <= h THEN -1 ELSE b + j - h BY <1>2, <2>1
  <2>3. j \in Nat /\ (j <= h \/ b + j - h >= 0) BY <1>1
  <2> QED BY <2>2, <2>3
<1>4. \A j \in 1..k : j > h => b + j - h \in 1..(b + k - h) /\ c[j] = q[b + j - h]
  <2> SUFFICES ASSUME NEW j \in 1..k, j > h PROVE b + j - h \in 1..(b + k - h) /\ c[j] = q[b + j - h]
    OBVIOUS
  <2>1. j \in 1..Len(c) /\ ~(j <= h) BY <1>2
  <2>2. c[j] = q[b + j - h] BY <2>1 DEF Segment
  <2> QED BY <1>1, <2>2
<1>5. \A i \in 1..(b + k - h) : i \in 1..b \/ (i - b + h \in 1..k /\ i - b + h > h /\ b + (i - b + h) - h = i)
  BY <1>1
<1>6. Covered(t) = known[t] \cup {c[j] : j \in {i \in 1..k : ids[t][i] # -1}} BY DEF Covered
<1> HIDE DEF c, k
<1>7. \A m \in Covered(t) : m \in {q[i] : i \in 1..(b + k - h)}
  <2> SUFFICES ASSUME NEW m \in Covered(t) PROVE m \in {q[i] : i \in 1..(b + k - h)} OBVIOUS
  <2>1. CASE m \in known[t]
    <3>1. PICK i \in 1..b : m = q[i] BY <2>1 DEF FirstRows
    <3>2. i \in 1..(b + k - h) BY <1>1
    <3> QED BY <3>1, <3>2
  <2>2. CASE \E j \in 1..k : ids[t][j] # -1 /\ m = c[j] BY <1>3, <1>4, <2>2
  <2> QED BY <1>6, <2>1, <2>2
<1>8. \A i \in 1..(b + k - h) : q[i] \in Covered(t)
  <2> SUFFICES ASSUME NEW i \in 1..(b + k - h) PROVE q[i] \in Covered(t) OBVIOUS
  <2>1. CASE i \in 1..b BY <1>6, <2>1 DEF FirstRows
  <2>2. CASE i \notin 1..b
    <3> DEFINE j == i - b + h
    <3>1. j \in 1..k /\ j > h /\ b + j - h = i BY <1>5, <2>2
    <3> HIDE DEF j
    <3>2. ids[t][j] # -1 /\ c[j] = q[i] BY <1>3, <1>4, <3>1
    <3> QED BY <1>6, <3>1, <3>2
  <2> QED BY <2>1, <2>2
<1> QED BY <1>7, <1>8 DEF k, FirstRows

-----------------------------------------------------------------------------
(* What a call shows of the rows.                                             *)

LEMMA ShownAll ==
  ASSUME NEW q \in Seq(Messages), Orderly(q), NEW c \in Seq(Messages), NEW K, NEW l \in Nat,
         Follows(c, K, q, Len(q) - 1), Len(q) - 1 <= l
  PROVE  LET e == Repair(Append(c, q[Len(q)]))
         IN  /\ Once(e) /\ Shows(e, K, q, l)
             /\ \A n : n # Inserted /\ In(e, n) => In(q, n)
<1> DEFINE d == Append(c, q[Len(q)])  e == Repair(d)
<1>1. PICK b \in Nat, h \in {0, 1} : Follow(c, K, q, Len(q) - 1, b, h) BY DEF Follows
<1>2. /\ h <= Len(c) /\ Len(q) - 1 = b + Len(c) - h /\ Segment(c, q, b, h)
      /\ K = FirstRows(q, b) /\ (b < Len(q) => ~IsResult(q[b + 1]))
      /\ Len(c) \in Nat /\ Len(q) \in Nat
  BY <1>1 DEF Follow
<1>3. Len(q) \in 1..Len(q) /\ b \in 0..l /\ b + Len(c) - h = Len(q) - 1 BY <1>1, <1>2
<1>4. q[Len(q)] \in Messages BY <1>3
<1>5. Segment(d, q, b, h) /\ Len(q) = b + Len(d) - h /\ h <= Len(d)
  <2>1. h <= Len(c) /\ Segment(c, q, b, h) /\ b + Len(c) - h = Len(q) - 1 BY <1>2, <1>3
  <2> HIDE DEF d
  <2>2. \A b1 \in Nat, h1 \in {0, 1} :
          h1 <= Len(c) /\ Segment(c, q, b1, h1) /\ b1 + Len(c) - h1 = Len(q) - 1 =>
            /\ Segment(Append(c, q[Len(q)]), q, b1, h1)
            /\ Len(q) = b1 + Len(Append(c, q[Len(q)])) - h1 /\ h1 <= Len(Append(c, q[Len(q)]))
    BY SegmentAppend
  <2>3. b \in Nat /\ h \in {0, 1} BY <1>1
  <2>4. /\ Segment(Append(c, q[Len(q)]), q, b, h)
        /\ Len(q) = b + Len(Append(c, q[Len(q)])) - h /\ h <= Len(Append(c, q[Len(q)]))
    BY <2>1, <2>2, <2>3, Zenon
  <2> QED BY <2>4 DEF d
<1>6. d \in Seq(Messages) BY <1>4
<1> HIDE DEF d
<1>7. /\ Once(d)
      /\ \A i \in DOMAIN d : d[i].name = Inserted \/ In(q, d[i].name)
      /\ \A i \in 1..Len(q) : IF i <= b THEN ~In(d, q[i].name) ELSE Found(d, q[i])
  BY <1>1, <1>2, <1>5, <1>6, LoadedWhole
<1>8. /\ Once(e)
      /\ \A n : n # Inserted /\ ~In(d, n) => ~In(e, n)
      /\ \A m : Found(d, m) => Found(e, m)
  BY <1>6, <1>7, MendedStays
<1> HIDE DEF e
<1>9. \A i \in 1..Len(q) : q[i].name # Inserted BY DEF Orderly
<1>10. \A i \in 1..Len(q) : IF i <= b THEN ~In(e, q[i].name) ELSE Found(e, q[i])
  BY <1>7, <1>8, <1>9
<1>11. Shows(e, K, q, l) BY <1>2, <1>3, <1>10 DEF Shows
<1>12. \A n : n # Inserted /\ In(e, n) => In(q, n)
  <2> SUFFICES ASSUME NEW n, n # Inserted, In(e, n) PROVE In(q, n) OBVIOUS
  <2>1. In(d, n) BY <1>8
  <2> QED BY <1>7, <2>1 DEF In
<1> QED BY <1>8, <1>11, <1>12 DEF e, d

LEMMA ShowsOn ==
  ASSUME NEW q, NEW c, NEW d, NEW K, NEW l, Shows(c, K, q, l), NEW k \in Nat, NEW j \in Nat, l = k, k <= j,
         \A i \in 1..Len(q) : In(d, q[i].name) => In(c, q[i].name),
         \A m : Found(c, m) => Found(d, m)
  PROVE  Shows(d, K, q, j)
<1>1. PICK b \in 0..l :
        /\ K = FirstRows(q, b)
        /\ \A i \in 1..Len(q) : IF i <= b THEN ~In(c, q[i].name) ELSE Found(c, q[i])
  BY DEF Shows
<1>2. b \in 0..j BY <1>1
<1>3. \A i \in 1..Len(q) : IF i <= b THEN ~In(d, q[i].name) ELSE Found(d, q[i]) BY <1>1
<1> QED BY <1>1, <1>2, <1>3 DEF Shows

LEMMA ShowsMended ==
  ASSUME NEW q \in Seq(Messages), Orderly(q), NEW c \in Seq(Messages), NEW K, NEW l \in Nat,
         Shows(c, K, q, l)
  PROVE  Shows(Repair(c), K, q, l)
<1> DEFINE d == Repair(c)
<1>1. /\ \A n : n # Inserted /\ ~In(c, n) => ~In(d, n)
      /\ \A m : Found(c, m) => Found(d, m)
  BY MendedStays
<1> HIDE DEF d
<1>2. \A i \in 1..Len(q) : q[i].name # Inserted BY DEF Orderly
<1>3. \A i \in 1..Len(q) : In(d, q[i].name) => In(c, q[i].name) BY <1>1, <1>2
<1>4. l \in Nat /\ l = l /\ l <= l OBVIOUS
<1>5. Shows(d, K, q, l) BY <1>1, <1>3, <1>4, ShowsOn
<1> QED BY <1>5 DEF d

LEMMA ShowsAdded ==
  ASSUME NEW q \in Seq(Messages), NEW c \in Seq(Messages), NEW m \in Messages, NEW K, NEW l \in Nat,
         Shows(c, K, q, l), l <= Len(q), \A i \in 1..l : q[i].name # m.name
  PROVE  Shows(Append(c, m), K, q, l)
<1>1. PICK b \in 0..l :
        /\ K = FirstRows(q, b)
        /\ \A i \in 1..Len(q) : IF i <= b THEN ~In(c, q[i].name) ELSE Found(c, q[i])
  BY DEF Shows
<1>2. /\ \A n : In(Append(c, m), n) <=> In(c, n) \/ n = m.name
      /\ \A x : Found(c, x) => Found(Append(c, m), x)
  BY AddedStays
<1> DEFINE d == Append(c, m)
<1> HIDE DEF d
<1>3. \A i \in 1..Len(q) : IF i <= b THEN ~In(d, q[i].name) ELSE Found(d, q[i])
  <2> SUFFICES ASSUME NEW i \in 1..Len(q)
               PROVE  (i <= b => ~In(d, q[i].name)) /\ (~(i <= b) => Found(d, q[i]))
    OBVIOUS
  <2>1. ASSUME i <= b PROVE ~In(d, q[i].name)
    <3>1. i \in 1..l BY <1>1, <2>1
    <3> QED BY <1>1, <1>2, <2>1, <3>1 DEF d
  <2>2. ASSUME ~(i <= b) PROVE Found(d, q[i]) BY <1>1, <1>2, <2>2 DEF d
  <2> QED BY <2>1, <2>2
<1>4. Shows(d, K, q, l) BY <1>1, <1>3 DEF Shows
<1> QED BY <1>4 DEF d

(* A row is added to the rows. *)
LEMMA MoreRows ==
  ASSUME NEW q \in Seq(Messages), NEW m \in Messages
  PROVE  /\ \A c, K, l : Shows(c, K, q, l) /\ l \in Nat /\ l <= Len(q) /\ Found(c, m) =>
                           Shows(c, K, Append(q, m), l)
         /\ \A z, K, n : \A c \in Seq(Messages) : Fetched(c, z, K, q, n) /\ ~IsResult(m) =>
                           Fetched(c, z, K, Append(q, m), n)
<1> DEFINE p == Append(q, m)  k == Len(q)
<1>1. /\ Len(p) = k + 1 /\ k \in Nat
      /\ \A i \in 1..k : p[i] = q[i]
      /\ p[k + 1] = m
  BY Added
<1>2. \A i \in 1..(k + 1) : i \in 1..k \/ i = k + 1 BY <1>1
<1> HIDE DEF p, k
<1>3. \A b \in Nat : b <= k => FirstRows(p, b) = FirstRows(q, b)
  <2> SUFFICES ASSUME NEW b \in Nat, b <= k PROVE FirstRows(p, b) = FirstRows(q, b)
    OBVIOUS
  <2>1. \A i \in 1..b : p[i] = q[i] BY <1>1
  <2> QED BY <2>1 DEF FirstRows
<1>4. ASSUME NEW c, NEW K, NEW l \in Nat, Shows(c, K, q, l), l <= k, Found(c, m)
      PROVE  Shows(c, K, p, l)
  <2>1. PICK b \in 0..l :
          /\ K = FirstRows(q, b)
          /\ \A i \in 1..k : IF i <= b THEN ~In(c, q[i].name) ELSE Found(c, q[i])
    BY <1>4 DEF Shows, k
  <2>2. b \in Nat /\ b <= k /\ ~(k + 1 <= b) BY <1>1, <1>4, <2>1
  <2>3. K = FirstRows(p, b) BY <1>3, <2>1, <2>2
  <2>4. \A i \in 1..Len(p) : IF i <= b THEN ~In(c, p[i].name) ELSE Found(c, p[i])
    <3> SUFFICES ASSUME NEW i \in 1..Len(p)
                 PROVE  IF i <= b THEN ~In(c, p[i].name) ELSE Found(c, p[i])
      OBVIOUS
    <3>1. CASE i \in 1..k
      <4>1. p[i] = q[i] BY <1>1, <3>1
      <4> QED BY <2>1, <3>1, <4>1
    <3>2. CASE i = k + 1
      <4>1. p[i] = m /\ ~(i <= b) BY <1>1, <2>2, <3>2
      <4> QED BY <1>4, <4>1
    <3> QED BY <1>1, <1>2, <3>1, <3>2
  <2> QED BY <2>1, <2>3, <2>4 DEF Shows
<1>5. ASSUME NEW z, NEW K, NEW n, NEW c \in Seq(Messages), Fetched(c, z, K, q, n), ~IsResult(m)
      PROVE  Fetched(c, z, K, p, n)
  <2>1. PICK b \in Nat, h \in {0, 1} : Follow(c, K, q, n, b, h) /\ Numbered(z, Len(c), b, h)
    BY <1>5 DEF Fetched
  <2>2. /\ h <= Len(c) /\ n = b + Len(c) - h /\ n <= k /\ Segment(c, q, b, h)
        /\ K = FirstRows(q, b) /\ (b < k => ~IsResult(q[b + 1])) /\ Len(c) \in Nat
    BY <2>1, <1>5 DEF Follow, k
  <2>3. b <= k /\ n <= Len(p) BY <1>1, <2>1, <2>2
  <2>4. K = FirstRows(p, b) BY <1>3, <2>1, <2>2, <2>3
  <2>5. ASSUME b < Len(p) PROVE ~IsResult(p[b + 1])
    <3>1. CASE b < k
      <4>1. b + 1 \in 1..k BY <1>1, <2>1, <3>1
      <4>2. p[b + 1] = q[b + 1] BY <1>1, <4>1
      <4> QED BY <2>2, <3>1, <4>2
    <3>2. CASE ~(b < k)
      <4>1. b = k BY <1>1, <2>1, <2>3, <3>2
      <4> QED BY <1>1, <1>5, <4>1
    <3> QED BY <3>1, <3>2
  <2>6. Segment(c, p, b, h)
    <3> SUFFICES ASSUME NEW j \in 1..Len(c)
                 PROVE  IF j <= h THEN c[j] = SummaryMessage
                                  ELSE b + j - h <= Len(p) /\ c[j] = p[b + j - h]
      BY DEF Segment
    <3>1. CASE j <= h BY <2>2, <3>1 DEF Segment
    <3>2. CASE ~(j <= h)
      <4>1. b + j - h <= k /\ c[j] = q[b + j - h] BY <2>2, <3>2 DEF Segment, k
      <4>2. b + j - h \in 1..k BY <1>1, <2>1, <3>2, <4>1
      <4>3. p[b + j - h] = q[b + j - h] BY <1>1, <4>2
      <4>4. b + j - h <= Len(p) BY <1>1, <4>2
      <4> QED BY <3>2, <4>1, <4>3, <4>4
    <3> QED BY <3>1, <3>2
  <2>7. Follow(c, K, p, n, b, h) BY <2>2, <2>3, <2>4, <2>5, <2>6 DEF Follow
  <2> QED BY <2>1, <2>7 DEF Fetched
<1> QED BY <1>4, <1>5 DEF p, k

(* What compaction leaves. *)
LEMMA CutFollows ==
  ASSUME NEW t \in Turns, NEW q \in Seq(Messages), NEW n, conv[t] \in Seq(Messages),
         Fetched(conv[t], ids[t], known[t], q, n), split[t] \in 1..(Len(conv[t]) - 1),
         ~IsResult(conv[t][split[t] + 1])
  PROVE  LET d == Cut(conv[t], split[t])
         IN  /\ d \in Seq(Messages) /\ Follows(d, Covered(t), q, n)
             /\ LastId(t) \in Int
             /\ LastId(t) >= 0 => /\ LastId(t) < Len(q) /\ LastId(t) < n
                                  /\ ~IsResult(q[LastId(t) + 1])
<1> DEFINE c == conv[t]  k == split[t]
           d == Cut(c, k)
<1>1. PICK b \in Nat, h \in {0, 1} : Follow(c, known[t], q, n, b, h) /\ Numbered(ids[t], Len(c), b, h)
  BY DEF Fetched
<1>2. b \in Nat /\ h \in {0, 1} /\ k \in 1..(Len(c) - 1) /\ c \in Seq(Messages) BY <1>1
<1>3. Numbered(ids[t], Len(c), b, h) /\ ~IsResult(c[k + 1]) BY <1>1
<1>4. /\ h <= Len(c) /\ n = b + Len(c) - h /\ n <= Len(q) /\ Segment(c, q, b, h)
      /\ known[t] = FirstRows(q, b)
  BY <1>1 DEF Follow
<1>5. k \in 1..Len(c) BY <1>2
<1>6. Covered(t) = FirstRows(q, b + k - h)
  BY <1>2, <1>3, <1>4, <1>5, CoveredRows
<1>7. LastId(t) = IF k <= h THEN -1 ELSE b + k - h BY <1>3, <1>5 DEF Numbered, LastId
<1> HIDE DEF c, k
<1>8. d \in Seq(Messages) /\ Segment(d, q, b + k - h, 1) /\ Len(d) = Len(c) - k + 1
  <2>1. /\ c \in Seq(Messages) /\ q \in Seq(Messages) /\ b \in Nat /\ h \in {0, 1}
        /\ Segment(c, q, b, h) /\ k \in 1..Len(c)
    BY <1>2, <1>4, <1>5
  <2>2. \A b1 \in Nat, h1 \in {0, 1}, k1 \in 1..Len(c) : Segment(c, q, b1, h1) =>
          /\ Cut(c, k1) \in Seq(Messages) /\ Segment(Cut(c, k1), q, b1 + k1 - h1, 1)
          /\ Len(Cut(c, k1)) = Len(c) - k1 + 1
    BY <2>1, CutSegment, Zenon
  <2>3. /\ Cut(c, k) \in Seq(Messages) /\ Segment(Cut(c, k), q, b + k - h, 1)
        /\ Len(Cut(c, k)) = Len(c) - k + 1
    BY <2>1, <2>2, Zenon
  <2> QED BY <2>3 DEF d
<1> DEFINE v == b + k - h
<1>9. /\ v \in Nat /\ v < n /\ k + 1 \in 1..Len(c) /\ ~(k + 1 <= h) /\ b + (k + 1) - h = v + 1
      /\ v < Len(q)
  <2> DEFINE l == Len(c)
  <2>1. l \in Nat /\ k \in 1..(l - 1) /\ n = b + l - h /\ n <= Len(q) /\ Len(q) \in Nat
    BY <1>2, <1>4
  <2> HIDE DEF l
  <2>2. v \in Nat /\ v < n /\ k + 1 \in 1..l /\ ~(k + 1 <= h) /\ b + (k + 1) - h = v + 1
        /\ v < Len(q)
    BY <1>2, <2>1
  <2> QED BY <2>2 DEF l
<1>10. ~IsResult(q[v + 1])
  <2>1. k + 1 \in 1..Len(c) /\ ~(k + 1 <= h) /\ b + (k + 1) - h = v + 1 BY <1>9
  <2>2. c[k + 1] = q[b + (k + 1) - h] BY <1>4, <2>1 DEF Segment
  <2>3. c[k + 1] = q[v + 1] BY <2>1, <2>2
  <2> QED BY <1>3, <2>3
<1>11. /\ n = v + Len(d) - 1 /\ 1 <= Len(d)
       /\ Covered(t) = FirstRows(q, v) /\ Segment(d, q, v, 1) /\ d \in Seq(Messages)
       /\ LastId(t) \in Int /\ (LastId(t) >= 0 => LastId(t) = v)
  <2> DEFINE l == Len(c)  ld == Len(d)
  <2>1. l \in Nat /\ k \in 1..(l - 1) /\ n = b + l - h /\ ld = l - k + 1 BY <1>2, <1>4, <1>8
  <2> HIDE DEF l, ld
  <2>2. n = v + ld - 1 /\ 1 <= ld BY <1>2, <2>1
  <2> QED BY <1>6, <1>7, <1>8, <1>9, <2>2 DEF ld
<1> HIDE DEF v, d
<1>12. Follow(d, Covered(t), q, n, v, 1) BY <1>4, <1>9, <1>10, <1>11 DEF Follow
<1>13. Follows(d, Covered(t), q, n)
  <2>1. 1 \in {0, 1} OBVIOUS
  <2> QED BY <1>9, <1>12, <2>1, Zenon DEF Follows
<1> QED BY <1>9, <1>10, <1>11, <1>13 DEF d, c, k

-----------------------------------------------------------------------------
(* The store keeps its order. *)

LEMMA RowIsNew ==
  ASSUME IInv, NEW t \in Turns, pc[t] \in Saving, OwnRows(t)
  PROVE  ~In(disk.rows, Row(t).name)
<1>1. rounds[t] \in Nat BY DEF IInv, Shape
<1>2. PICK k \in Kinds, j \in Nat :
        /\ Row(t).name = <<t, k, j>>
        /\ pc[t] = "saveUser" => k = "user"
        /\ pc[t] \in {"saveUse", "saveCut"} => k = "use" /\ j = rounds[t]
        /\ pc[t] = "saveResult" => k = "result" /\ j = rounds[t]
        /\ pc[t] = "saveReply" => k = "reply"
  BY RowNamed
<1>3. ~Stored(t, k, j) BY <1>1, <1>2 DEF Stored, Saving
<1>4. pc[t] # "done" BY DEF Saving
<1> QED BY <1>2, <1>3, <1>4 DEF OwnRows

LEMMA StoreOrder ==
  ASSUME IInv, TypedInv, SerialInv, NEW t \in Turns, Acts(t), ~failed',
         Clean(db), Clean(disk), Orderly(db.rows), Whole(t)
  PROVE  Clean(db') /\ Clean(disk') /\ Orderly(db'.rows)
<1>1. db.rows \in Seq(Messages) /\ disk.rows \in Seq(Messages) /\ db.upTo \in Nat
  BY StoredRows DEF TypedInv, Typed, Tables
<1>2. CASE InsertMessage(t)
  <2> DEFINE m == Row(t)  q == disk.rows  p == Append(q, m)  n == Len(q)
  <2>1. db = disk /\ disk' = disk /\ m \in Messages /\ db'.rows = p /\ pc[t] \in Saving
    BY <1>2, InsertRow
  <2>2. db'.upTo = db.upTo
    <3>1. db' = [db EXCEPT !.rows = Append(@, m)] /\ db \in Session BY <1>2 DEF InsertMessage, IInv, StoreOK
    <3> HIDE DEF m
    <3> QED BY <3>1 DEF Session
  <2>3. IsResult(m) => n > db.upTo /\ m.results \subseteq q[n].uses
    <3> SUFFICES ASSUME IsResult(m) PROVE n > db.upTo /\ m.results \subseteq q[n].uses OBVIOUS
    <3>1. pc[t] = "saveResult" BY <2>1, RowNamed
    <3>2. m.results = {<<t, rounds[t]>>} BY <2>1, <3>1, RowIds
    <3> QED BY <3>1, <3>2 DEF Whole, Begun, Loop
  <2>4. /\ ~In(q, m.name) /\ ~IsEmpty(m) /\ m.name # Inserted
    <3>1. OwnRows(t) BY DEF Whole
    <3>2. PICK k \in Kinds, j \in Nat : m.name = <<t, k, j>> BY <2>1, RowNamed
    <3>3. <<t, k, j>> # Inserted BY <3>2, PastsAssumption DEF Kinds
    <3> QED BY <2>1, <3>1, <3>2, <3>3, RowNamed, RowIsNew
  <2>5. m.results # {} => IsResult(m) BY <2>1, MessageFields
  <2> HIDE DEF m, q
  <2>6. q \in Seq(Messages) /\ Orderly(q) /\ n \in Nat BY <1>1, <2>1 DEF q
  <2>7. m.results # {} => Len(q) > 0 /\ m.results \subseteq q[Len(q)].uses
    BY <1>1, <2>3, <2>5, <2>6
  <2>8. Orderly(p) BY <2>1, <2>4, <2>6, <2>7, OrderlyGrows
  <2>9. Clean(db')
    <3> SUFFICES ASSUME db.upTo < Len(p) PROVE ~IsResult(p[db.upTo + 1])
      BY <2>1, <2>2 DEF Clean
    <3>1. Len(p) = n + 1 /\ (\A i \in 1..n : p[i] = q[i]) /\ p[n + 1] = m BY <2>1, <2>6, Added
    <3>2. CASE db.upTo < n
      <4>1. ~IsResult(q[db.upTo + 1]) BY <2>1, <3>2 DEF Clean, q
      <4>2. db.upTo + 1 \in 1..n BY <1>1, <2>6, <3>2
      <4> QED BY <3>1, <4>1, <4>2
    <3>3. CASE ~(db.upTo < n)
      <4>1. db.upTo = n BY <1>1, <2>6, <3>1, <3>3
      <4>2. ~IsResult(m) BY <2>3, <2>6, <4>1
      <4> QED BY <3>1, <4>1, <4>2
    <3> QED BY <3>2, <3>3
  <2> QED BY <2>1, <2>8, <2>9
<1>3. CASE AdvanceCheckpoint(t)
  <2> DEFINE q == db.rows
  <2>1. /\ pc[t] = "checkpoint" /\ db.upTo < LastId(t) /\ disk' = disk
        /\ db' = [db EXCEPT !.upTo = LastId(t)] /\ db \in Session
    BY <1>3 DEF AdvanceCheckpoint, IInv, StoreOK
  <2>2. db'.rows = q /\ db'.upTo = LastId(t) BY <2>1 DEF Session
  <2>3. Fetched(conv[t], ids[t], known[t], q, Len(q) - 1) /\ ~IsResult(conv[t][split[t] + 1])
    BY <2>1 DEF Whole, Compacting
  <2>4. split[t] \in 1..(Len(conv[t]) - 1) /\ conv[t] \in Seq(Messages)
    BY <2>1 DEF IInv, TurnOK, TypedInv, Typed
  <2> HIDE DEF q
  <2>5. /\ LastId(t) \in Int
        /\ LastId(t) >= 0 => ~IsResult(q[LastId(t) + 1])
    BY <1>1, <2>3, <2>4, CutFollows DEF q
  <2>6. LastId(t) >= 0 BY <1>1, <2>1, <2>5
  <2>7. Clean(db') BY <2>2, <2>5, <2>6 DEF Clean
  <2> QED BY <2>1, <2>2, <2>7 DEF q
<1>4. CASE /\ db'.rows = db.rows /\ db'.upTo = db.upTo
           /\ disk' = disk \/ (db' = db /\ disk' = db)
  BY <1>4 DEF Clean
<1> QED BY <1>2, <1>3, <1>4, StoreChange

(* What is committed is the writer's. *)
LEMMA NewRows ==
  ASSUME IInv, TypedInv, SerialInv, NEW t \in Turns, Acts(t), ~failed', Whole(t)
  PROVE  /\ \A n : In(disk'.rows, n) =>
              \/ In(disk.rows, n)
              \/ /\ writer = t /\ disk' = db
                 /\ n = IF pc[t] \in Saving THEN Row(t).name ELSE <<t, "user", 0>>
         /\ Len(disk.rows) <= Len(disk'.rows) /\ Len(disk'.rows) \in Nat /\ Len(disk.rows) \in Nat
<1>1. /\ db.rows \in Seq(Messages) /\ disk.rows \in Seq(Messages) /\ Extends(disk.rows, db.rows)
      /\ Len(db.rows) <= Len(disk.rows) + 1
  BY StoredRows DEF IInv, StoreOK
<1>2. CASE disk' = disk BY <1>1, <1>2
<1>3. CASE disk' = db /\ writer = t
  <2> DEFINE q == db.rows  r == disk.rows
  <2>1. /\ Len(q) \in Nat /\ Len(r) \in Nat /\ Len(r) <= Len(q) /\ DOMAIN q = 1..Len(q)
        /\ DOMAIN r = 1..Len(r)
    BY <1>1 DEF Extends
  <2>2. q[Len(q)].name = (IF pc[t] \in Saving THEN Row(t).name ELSE <<t, "user", 0>>) \/ Len(q) = Len(r)
    <3>1. CASE pc[t] \in Saving
      <4>1. q = Append(r, Row(t)) /\ Row(t) \in Messages
        BY <1>3, <3>1, RowTyped DEF SerialInv, Written, TypedInv
      <4> DEFINE m == Row(t)
      <4> HIDE DEF m, q, r
      <4>2. Len(q) = Len(r) + 1 /\ q[Len(r) + 1] = m BY <1>1, <4>1, Added DEF m, r
      <4> QED BY <3>1, <4>2 DEF m
    <3>2. CASE pc[t] \notin Saving
      <4>1. pc[t] \in Compacting BY <1>3, <3>2 DEF IInv, WriterOK, Compacting
      <4>2. q[Len(q)] = User(t) BY <4>1 DEF Whole
      <4> QED BY <3>2, <4>2, OwnNames
    <3> QED BY <3>1, <3>2
  <2>3. ASSUME NEW n, In(q, n)
        PROVE  In(r, n) \/ n = IF pc[t] \in Saving THEN Row(t).name ELSE <<t, "user", 0>>
    <3>1. PICK i \in 1..Len(q) : q[i].name = n BY <2>1, <2>3 DEF In
    <3>2. CASE i \in 1..Len(r)
      <4>1. q[i] = r[i] BY <1>1, <3>2 DEF Extends
      <4> QED BY <2>1, <3>1, <3>2, <4>1 DEF In
    <3>3. CASE i \notin 1..Len(r)
      <4>1. i = Len(q) /\ Len(q) # Len(r) BY <1>1, <2>1, <3>1, <3>3
      <4> QED BY <2>2, <3>1, <4>1
    <3> QED BY <3>2, <3>3
  <2> QED BY <1>3, <2>1, <2>3
<1>4. disk' = disk \/ (disk' = db /\ writer = t)
  BY StoreChange, <1>2 DEF InsertMessage, AdvanceCheckpoint
<1> QED BY <1>2, <1>3, <1>4

LEMMA OthersWhole ==
  ASSUME IInv, TypedInv, SerialInv, NEW t \in Turns, Acts(t), ~failed', Whole(t),
         NEW u \in Turns \ {t}, pc[u] \in {"new", "done"}, Whole(u)
  PROVE  Whole(u)'
<1>1. pc'[u] = pc[u] /\ rounds'[u] = rounds[u] BY OneActs DEF IInv, Others
<1>2. Web' = Web
  BY DEF Acts, Start, ReadCheckpoint, ReadSummary, ReadPage, ReadLastPage, LoadFails, SkipCompaction,
     StartCompaction, SummaryFails, SummaryArrives, AdvanceCheckpoint, KeepCheckpoint, InsertSummary,
     InsertMessage, Commit, WriteFails, NestedBegin, GiveUpWrite, AgentCallsTools, ToolsReturn,
     AgentStopsMidCall, AgentReplies, AgentGivesNothing, Disconnect, LeavesOpen, CommitsLast, store
<1>3. ASSUME pc[u] # "done", NEW k \in Kinds, NEW j \in Nat, In(disk'.rows, <<u, k, j>>)
      PROVE  Stored(u, k, j)
  <2>1. CASE In(disk.rows, <<u, k, j>>) BY <1>3, <2>1 DEF Whole, OwnRows
  <2>2. CASE writer = t /\ <<u, k, j>> = IF pc[t] \in Saving THEN Row(t).name ELSE <<t, "user", 0>>
    <3>1. CASE pc[t] \in Saving
      <4>1. PICK kk \in Kinds, jj \in Nat : Row(t).name = <<t, kk, jj>> BY <3>1, RowNamed
      <4> QED BY <2>2, <3>1, <4>1
    <3>2. CASE pc[t] \notin Saving BY <2>2, <3>2
    <3> QED BY <3>1, <3>2
  <2> QED BY <1>3, <2>1, <2>2, NewRows
<1>4. OwnRows(u)' BY <1>1, <1>2, <1>3 DEF OwnRows, Stored
<1> QED BY <1>1, <1>4 DEF Whole, Begun, Reads, Compacting, Loop

-----------------------------------------------------------------------------
(* Reading. *)

LEMMA DoneWhole == ASSUME NEW t \in Turns, pc'[t] = "done" PROVE Whole(t)'
BY DEF Whole, OwnRows, Begun, Reads, Compacting, Loop

LEMMA OwnStays ==
  ASSUME NEW t \in Turns, OwnRows(t), pc[t] # "done", disk'.rows = disk.rows,
         \A k \in Kinds, j \in Nat : Stored(t, k, j) => Stored(t, k, j)'
  PROVE  OwnRows(t)'
BY DEF OwnRows

LEMMA ReadsWhole ==
  ASSUME IInv, NEW t \in Turns, Whole(t),
         Start(t) \/ ReadCheckpoint(t) \/ ReadSummary(t) \/ ReadPage(t)
  PROVE  Whole(t)'
<1>1. /\ db' = db /\ disk' = disk /\ Web' = Web /\ rounds' = rounds /\ pc[t] # "done"
      /\ \/ pc[t] \in Reads /\ pc'[t] \in Reads
         \/ pc[t] = "new" /\ t \in Web /\ pc'[t] = "readCheckpoint"
         \/ pc[t] = "new" /\ t \notin Web /\ pc'[t] = "saveUser"
  BY DEF Start, ReadCheckpoint, ReadSummary, ReadPage, Goto, store, Reads, IInv, Shape
<1>2. OwnRows(t)'
  <2>1. \A k \in Kinds, j \in Nat : Stored(t, k, j) => Stored(t, k, j)' BY <1>1 DEF Stored, Reads
  <2>2. OwnRows(t) BY DEF Whole
  <2> QED BY <1>1, <2>1, <2>2, OwnStays
<1> QED BY <1>1, <1>2 DEF Whole, Begun, Reads, Compacting, Loop

LEMMA FollowPrefix ==
  ASSUME NEW q \in Seq(Messages), NEW c \in Seq(Messages), NEW z \in Seq(Int), NEW K, NEW m,
         NEW b \in Nat, NEW h \in {0, 1}, NEW n \in Nat,
         Follow(c, K, q, m, b, h), Numbered(z, Len(c), b, h), h <= n, n <= Len(c)
  PROVE  Fetched(SubSeq(c, 1, n), SubSeq(z, 1, n), K, q, m - (Len(c) - n))
<1>1. /\ h <= Len(c) /\ m = b + Len(c) - h /\ m <= Len(q) /\ Segment(c, q, b, h)
      /\ K = FirstRows(q, b) /\ (b < Len(q) => ~IsResult(q[b + 1])) /\ Len(c) \in Nat /\ Len(q) \in Nat
  BY DEF Follow
<1> DEFINE d == SubSeq(c, 1, n)  y == SubSeq(z, 1, n)  l == Len(c)
<1>2. d \in Seq(Messages) /\ Len(d) = n /\ Segment(d, q, b, h)
  <2>1. n \in 0..Len(c) BY <1>1
  <2> QED BY <1>1, <2>1, SegmentPrefix
<1>3. Numbered(y, n, b, h)
  <2>1. Len(z) = l /\ \A j \in 1..l : z[j] = IF j <= h THEN -1 ELSE b + j - h BY DEF Numbered
  <2>2. n \in 0..Len(z) BY <1>1, <2>1
  <2>3. Len(y) = n /\ \A j \in 1..n : y[j] = z[j] BY <2>2
  <2>4. \A j \in 1..n : j \in 1..l BY <1>1
  <2> HIDE DEF y
  <2> QED BY <2>1, <2>3, <2>4 DEF Numbered
<1>4. m - (l - n) = b + n - h /\ m - (l - n) <= Len(q) BY <1>1
<1> HIDE DEF d, y, l
<1> DEFINE w == m - (l - n)
<1> HIDE DEF w
<1>5. Follow(d, K, q, w, b, h) /\ Numbered(y, Len(d), b, h)
  BY <1>1, <1>2, <1>3, <1>4 DEF Follow, w
<1>6. Fetched(d, y, K, q, w) BY <1>5, Zenon DEF Fetched
<1> QED BY <1>6 DEF d, y, l, w

(* All is loaded, but for the message that a bot's turn has saved.            *)
LEMMA PageWhole ==
  ASSUME IInv, TypedInv, Clean(db), Orderly(db.rows), NEW t \in Turns, Whole(t), Serial(t),
         ReadLastPage(t)
  PROVE  Whole(t)'
<1> DEFINE c == WithPage(t)  q == db.rows  z == WithPageIds(t)
           n == Len(c) - (IF t \notin Web /\ c # << >> /\ c[Len(c)].role = "user" THEN 1 ELSE 0)
<1>1. /\ pc[t] = "readPage" /\ ~More(t)
      /\ conv' = [conv EXCEPT ![t] = SubSeq(c, 1, n)]
      /\ ids' = [ids EXCEPT ![t] = SubSeq(z, 1, n)]
      /\ pc' = [pc EXCEPT ![t] = IF t \in Web THEN "saveUser" ELSE "compact"]
      /\ UNCHANGED <<db, disk, writer, Web, known, split, rounds>>
  BY DEF ReadLastPage, Goto, store
<1>2. /\ conv'[t] = SubSeq(c, 1, n) /\ ids'[t] = SubSeq(z, 1, n) /\ known'[t] = known[t]
      /\ pc'[t] = IF t \in Web THEN "saveUser" ELSE "compact"
  <2>1. DOMAIN conv = Turns /\ DOMAIN ids = Turns /\ DOMAIN pc = Turns BY DEF IInv, Shape
  <2> HIDE DEF c, z, n
  <2> QED BY <1>1, <2>1
<1>3. Reading(t) BY <1>1 DEF Serial
<1>4. PICK b \in Nat, h \in {0, 1} :
        /\ h <= Len(c) /\ PageEnd(t) = b + Len(c) - h
        /\ PageEnd(t) \in Nat /\ PageEnd(t) <= Len(q)
        /\ c \in Seq(Messages)
        /\ Segment(c, q, b, h) /\ Numbered(z, Len(c), b, h)
        /\ known[t] = {q[i] : i \in 1..b} /\ b \in {0, db.upTo}
  BY <1>3, PageSegment
<1>5. q \in Seq(Messages) /\ PageEnd(t) = Len(q) /\ Len(q) \in Nat BY <1>1, StoredRows DEF PageEnd
<1>6. z \in Seq(Int)
  <2>1. ids[t] \in Seq(Int) /\ seen[t] \in Nat BY DEF TypedInv, Typed
  <2> DEFINE k == PageEnd(t) - seen[t]  x == [i \in 1..k |-> seen[t] + i]
  <2>2. PageEnd(t) \in Int BY <1>4
  <2>3. k \in Nat
    <3>1. seen[t] <= Len(q) BY <1>3 DEF Reading
    <3> QED BY <1>5, <2>1, <3>1
  <2>4. x \in [1..k -> Int] BY <2>1
  <2> HIDE DEF k
  <2>5. x \in Seq(Int) BY <2>3, <2>4
  <2> HIDE DEF x
  <2>6. z = ids[t] \o x BY DEF WithPageIds, x, k
  <2> QED BY <2>1, <2>5, <2>6
<1> HIDE DEF c, z
<1>7. b < Len(q) => ~IsResult(q[b + 1])
  <2>1. CASE b = 0
    <3> SUFFICES ASSUME 0 < Len(q), IsResult(q[1]) PROVE FALSE BY <2>1
    <3>1. 1 \in DOMAIN q /\ q[1].results # {} BY <1>5 DEF IsResult
    <3>2. 1 > 1 BY <3>1 DEF Orderly, EveryResultCalledFor
    <3> QED BY <3>2
  <2>2. CASE b = db.upTo BY <2>2 DEF Clean
  <2> QED BY <1>4, <2>1, <2>2
<1>8. Follow(c, known[t], q, Len(q), b, h) /\ Numbered(z, Len(c), b, h)
  BY <1>4, <1>5, <1>7 DEF Follow, FirstRows
<1>8a. /\ Len(c) \in Nat /\ h <= Len(c) /\ Len(q) = b + Len(c) - h
       /\ c \in Seq(Messages) /\ Segment(c, q, b, h) /\ b \in Nat /\ h \in {0, 1}
  BY <1>4, <1>5
<1>8b. \A k \in Nat : h <= k /\ k <= Len(c) =>
         Fetched(SubSeq(c, 1, k), SubSeq(z, 1, k), known[t], q, Len(q) - (Len(c) - k))
  BY <1>5, <1>6, <1>8, <1>8a, FollowPrefix
<1>9. OwnRows(t)'
  <2>1. \A k \in Kinds, j \in Nat : Stored(t, k, j) => Stored(t, k, j)'
    <3>1. rounds'[t] = rounds[t] /\ Web' = Web BY <1>1
    <3> QED BY <1>1, <1>2, <3>1 DEF Stored, Reads
  <2>2. OwnRows(t) BY DEF Whole
  <2> QED BY <1>1, <2>1, <2>2, OwnStays
<1>10. CASE t \in Web
  <2> HIDE DEF q
  <2>1. Len(c) \in Nat /\ h <= Len(c) /\ n = Len(c) BY <1>4, <1>10
  <2> HIDE DEF n
  <2>2. n \in Nat /\ h <= n /\ n <= Len(c) /\ Len(q) - (Len(c) - n) = Len(q) BY <1>5, <2>1
  <2>3. Fetched(SubSeq(c, 1, n), SubSeq(z, 1, n), known[t], q, Len(q))
    BY <1>8b, <2>2
  <2>4. writer' # t BY <1>1 DEF IInv, WriterOK, Saving
  <2>5. pc'[t] = "saveUser" /\ t \in Web' BY <1>1, <1>2, <1>10
  <2>6. Len(q) - 0 = Len(q) BY <1>5
  <2>7. Fetched(conv'[t], ids'[t], known'[t], db'.rows, Len(db'.rows) - (IF writer' = t THEN 1 ELSE 0))
    BY <1>1, <1>2, <2>3, <2>4, <2>6 DEF q
  <2> QED BY <1>9, <2>5, <2>7 DEF Whole, Begun, Reads, Compacting, Loop
<1>11. CASE t \notin Web
  <2>1. db.upTo < Len(disk.rows) /\ q[Len(q)] = User(t)
    BY <1>1, <1>11 DEF Whole, Begun, Reads
  <2>2. b < Len(q)
    <3>1. Len(disk.rows) <= Len(q) /\ Len(disk.rows) \in Nat /\ db.upTo \in Nat
      BY StoredRows DEF Extends, TypedInv, Typed, Tables
    <3> QED BY <1>4, <1>5, <2>1, <3>1
  <2>3. Len(c) \in Nat /\ Len(q) = b + Len(c) - h /\ Len(c) > h /\ Len(c) \in 1..Len(c)
    BY <1>5, <1>8a, <2>2
  <2>4. c[Len(c)] = q[Len(q)] BY <1>8a, <2>3 DEF Segment
  <2>5. c # << >> /\ c[Len(c)].role = "user" BY <2>1, <2>3, <2>4, OwnNames
  <2>6. n = Len(c) - 1 BY <1>11, <2>5
  <2>7. n \in Nat /\ h <= n /\ n <= Len(c) /\ Len(q) - (Len(c) - n) = Len(q) - 1
    BY <1>5, <1>8a, <2>3, <2>6
  <2> HIDE DEF n, q
  <2>8. Fetched(SubSeq(c, 1, n), SubSeq(z, 1, n), known[t], q, Len(q) - 1)
    BY <1>8b, <2>7
  <2>9. pc'[t] = "compact" /\ t \notin Web' BY <1>1, <1>2, <1>11
  <2>10. Fetched(conv'[t], ids'[t], known'[t], db'.rows, Len(db'.rows) - 1) /\ db'.rows[Len(db'.rows)] = User(t)
    BY <1>1, <1>2, <2>1, <2>8 DEF q
  <2>11. db'.upTo < Len(disk'.rows) BY <1>1, <2>1
  <2> QED BY <1>9, <2>9, <2>10, <2>11 DEF Whole, Begun, Reads, Compacting, Loop
<1> QED BY <1>10, <1>11

-----------------------------------------------------------------------------
(* Compacting. *)

LEMMA OwnDbRows ==
  ASSUME IInv, TypedInv, NEW t \in Turns, OwnRows(t), pc[t] \in Compacting,
         db.rows[Len(db.rows)] = User(t), NEW k \in Kinds, NEW j \in Nat,
         In(db.rows, <<t, k, j>>)
  PROVE  k = "user" \/ (k = "use" /\ j <= rounds[t]) \/ (k = "result" /\ j <= rounds[t])
<1>1. /\ db.rows \in Seq(Messages) /\ disk.rows \in Seq(Messages) /\ Extends(disk.rows, db.rows)
      /\ Len(db.rows) <= Len(disk.rows) + 1
  BY StoredRows DEF IInv, StoreOK
<1>2. PICK n \in DOMAIN db.rows : db.rows[n].name = <<t, k, j>> BY DEF In
<1>3. CASE n \in DOMAIN disk.rows
  <2>1. disk.rows[n].name = <<t, k, j>>
    <3>1. n \in 1..Len(disk.rows) BY <1>1, <1>3
    <3>2. db.rows[n] = disk.rows[n] BY <1>1, <3>1 DEF Extends
    <3> QED BY <1>2, <3>2
  <2>2. Stored(t, k, j) BY <1>3, <2>1 DEF OwnRows, Compacting, In
  <2>3. rounds[t] \in Nat BY DEF IInv, Shape
  <2> QED BY <2>2, <2>3 DEF Stored, Compacting
<1>4. CASE n \notin DOMAIN disk.rows
  <2>1. n = Len(db.rows) BY <1>1, <1>2, <1>4 DEF Extends
  <2>2. <<t, k, j>> = <<t, "user", 0>> BY <1>2, <2>1, OwnNames
  <2> QED BY <2>2
<1> QED BY <1>3, <1>4

LEMMA StartsCalls ==
  ASSUME IInv, TypedInv, SerialInv, NEW t \in Turns, Acts(t), ~failed', Orderly(db.rows), Whole(t),
         pc[t] \in Compacting, NEW c \in Seq(Messages), FirstCall(t, c),
         Follows(c, known'[t], db.rows, Len(db.rows) - 1), rounds' = rounds, db' = db
  PROVE  Whole(t)'
<1> DEFINE q == db.rows  e == Repair(Append(c, User(t)))  l == Len(disk'.rows)  K == known'[t]
<1>1. /\ OwnRows(t) /\ db.upTo < Len(disk.rows) /\ q[Len(q)] = User(t)
  BY DEF Whole, Begun
<1>2. conv'[t] = e /\ pc'[t] = "call"
  <2>1. DOMAIN conv = Turns /\ DOMAIN pc = Turns BY DEF IInv, Shape
  <2> HIDE DEF e
  <2> QED BY <2>1 DEF FirstCall, Goto, e
<1>3. /\ q \in Seq(Messages) /\ Len(q) \in Nat /\ l \in Nat /\ Len(disk.rows) <= l
      /\ Len(disk.rows) \in Nat /\ Len(q) - 1 <= l /\ db.upTo \in Nat
  <2>1. q \in Seq(Messages) /\ db.upTo \in Nat BY StoredRows DEF TypedInv, Typed, Tables
  <2>2. Len(disk.rows) <= l /\ l \in Nat /\ Len(disk.rows) \in Nat BY NewRows
  <2>3. Len(q) <= Len(disk.rows) + 1 BY DEF IInv, StoreOK
  <2> HIDE DEF l, q
  <2>4. Len(q) \in Nat BY <2>1
  <2> QED BY <2>1, <2>2, <2>3, <2>4 DEF q
<1>4. rounds[t] \in Nat /\ rounds'[t] = rounds[t] BY DEF IInv, Shape
<1>5. /\ Once(e) /\ Shows(e, K, q, l)
      /\ \A n : n # Inserted /\ In(e, n) => In(q, n)
  <2>1. e = Repair(Append(c, q[Len(q)])) BY <1>1
  <2>2. Follows(c, K, q, Len(q) - 1) /\ Orderly(q) OBVIOUS
  <2> HIDE DEF q, e, K, l
  <2> QED BY <1>3, <2>1, <2>2, ShownAll
<1> HIDE DEF e
<1>6. ASSUME NEW k \in Kinds, NEW j \in Nat, In(e, <<t, k, j>>)
      PROVE  Told(t, k, j)'
  <2>1. <<t, k, j>> # Inserted BY PastsAssumption DEF Kinds
  <2>2. In(q, <<t, k, j>>) BY <1>5, <1>6, <2>1
  <2>3. k = "user" \/ (k = "use" /\ j <= rounds[t]) \/ (k = "result" /\ j <= rounds[t])
    BY <1>1, <2>2, OwnDbRows
  <2> QED BY <1>2, <1>4, <2>3 DEF Told
<1>7. Kept(t)' BY <1>2, <1>5, <1>6 DEF Kept
<1>8. OwnRows(t)'
  <2> SUFFICES ASSUME NEW k \in Kinds, NEW j \in Nat, In(disk'.rows, <<t, k, j>>)
               PROVE  Stored(t, k, j)'
    BY DEF OwnRows
  <2>1. pc[t] \notin Saving /\ pc[t] # "done" BY DEF Compacting, Saving
  <2>2. In(disk.rows, <<t, k, j>>) \/ <<t, k, j>> = <<t, "user", 0>> BY <2>1, NewRows
  <2>3. Stored(t, k, j) \/ k = "user" BY <1>1, <2>1, <2>2 DEF OwnRows
  <2> QED BY <1>2, <1>4, <2>3 DEF Stored, Compacting, Reads
<1>9. db'.upTo < l BY <1>1, <1>3
<1> QED BY <1>2, <1>7, <1>8, <1>9 DEF Whole, Begun, Reads, Compacting, Loop

LEMMA CompactionEnds ==
  ASSUME IInv, TypedInv, SerialInv, NEW t \in Turns, Acts(t), ~failed', Orderly(db.rows), Whole(t),
         pc[t] \in Compacting \ {"compact"}, FinishCompaction(t), db' = db
  PROVE  Whole(t)'
<1> DEFINE q == db.rows  c == Cut(conv[t], split[t])
<1>1. /\ Fetched(conv[t], ids[t], known[t], q, Len(q) - 1) /\ ~IsResult(conv[t][split[t] + 1])
  BY DEF Whole
<1>2. split[t] \in 1..(Len(conv[t]) - 1) /\ conv[t] \in Seq(Messages)
  BY DEF IInv, TurnOK, TypedInv, Typed, Compacting
<1>3. q \in Seq(Messages) BY StoredRows
<1>4. FirstCall(t, c) /\ rounds' = rounds /\ known'[t] = Covered(t)
  BY DEF FinishCompaction, Cut, TypedInv, Typed
<1> HIDE DEF q, c
<1>5. c \in Seq(Messages) /\ Follows(c, Covered(t), q, Len(q) - 1)
  BY <1>1, <1>2, <1>3, CutFollows DEF c
<1> QED BY <1>4, <1>5, StartsCalls DEF q

LEMMA FetchedFollows ==
  ASSUME NEW c, NEW z, NEW K, NEW q, NEW n, Fetched(c, z, K, q, n)
  PROVE  Follows(c, K, q, n)
BY DEF Fetched, Follows

LEMMA StillCompacting ==
  ASSUME IInv, NEW t \in Turns, Whole(t), pc[t] \in Compacting, pc'[t] \in Compacting \ {"compact"},
         conv'[t] = conv[t], ids'[t] = ids[t], known'[t] = known[t], rounds'[t] = rounds[t],
         Web' = Web, db'.rows = db.rows, disk' = disk, db'.upTo < Len(disk.rows),
         ~IsResult(conv[t][split'[t] + 1])
  PROVE  Whole(t)'
<1>1. OwnRows(t)'
  <2>1. pc[t] # "done" BY DEF Compacting
  <2>2. \A k \in Kinds, j \in Nat : Stored(t, k, j) => Stored(t, k, j)' BY DEF Stored, Compacting, Reads
  <2>3. OwnRows(t) BY DEF Whole
  <2> QED BY <2>1, <2>2, <2>3, OwnStays
<1>2. /\ db.rows[Len(db.rows)] = User(t)
      /\ Fetched(conv[t], ids[t], known[t], db.rows, Len(db.rows) - 1)
  BY DEF Whole
<1> QED BY <1>1, <1>2 DEF Whole, Begun, Reads, Compacting, Loop

LEMMA CompactingWhole ==
  ASSUME IInv, TypedInv, SerialInv, NEW t \in Turns, Acts(t), ~failed', Orderly(db.rows), Whole(t),
         \/ SkipCompaction(t) \/ SummaryFails(t) \/ StartCompaction(t) \/ SummaryArrives(t)
         \/ AdvanceCheckpoint(t) \/ KeepCheckpoint(t) \/ InsertSummary(t)
  PROVE  Whole(t)'
<1>1. /\ pc[t] \in Compacting
      /\ Fetched(conv[t], ids[t], known[t], db.rows, Len(db.rows) - 1)
      /\ db.upTo < Len(disk.rows)
  <2>1. pc[t] \in Compacting
    BY DEF SkipCompaction, SummaryFails, StartCompaction, SummaryArrives, AdvanceCheckpoint,
       KeepCheckpoint, InsertSummary, Compacting
  <2> QED BY <2>1 DEF Whole, Begun
<1>2. conv[t] \in Seq(Messages) /\ db.rows \in Seq(Messages) /\ Shape
  BY StoredRows DEF TypedInv, Typed, IInv
<1>3. CASE SkipCompaction(t) \/ SummaryFails(t)
  <2>1. FirstCall(t, conv[t]) /\ rounds' = rounds /\ db' = db /\ known'[t] = known[t]
    BY <1>3 DEF SkipCompaction, SummaryFails, store
  <2>2. Follows(conv[t], known'[t], db.rows, Len(db.rows) - 1) BY <1>1, <2>1, FetchedFollows
  <2> QED BY <1>1, <1>2, <2>1, <2>2, StartsCalls
<1>4. CASE StartCompaction(t)
  <2>1. /\ UNCHANGED <<store, conv, loading, rounds>> /\ pc'[t] = "summarize"
        /\ \E k : split' = [split EXCEPT ![t] = k] /\ ~IsResult(conv[t][k + 1])
    BY <1>2, <1>4 DEF StartCompaction, Goto, Shape, Boundary
  <2>2. ~IsResult(conv[t][split'[t] + 1])
    <3>1. DOMAIN split = Turns BY <1>2 DEF Shape
    <3> QED BY <2>1, <3>1
  <2> QED BY <1>1, <2>1, <2>2, StillCompacting DEF store, loading, Compacting
<1>5. CASE (SummaryArrives(t) \/ KeepCheckpoint(t)) /\ FinishCompaction(t)
  <2>1. db' = db /\ pc[t] \in Compacting \ {"compact"}
    BY <1>5 DEF SummaryArrives, KeepCheckpoint, store, Compacting
  <2> QED BY <1>5, <2>1, CompactionEnds
<1>6. CASE SummaryArrives(t) /\ Goto(t, "checkpoint") /\ UNCHANGED <<conv, loading, split, rounds>>
  <2>1. UNCHANGED <<store, conv, loading, rounds, split>> /\ pc'[t] = "checkpoint" /\ pc[t] = "summarize"
    BY <1>2, <1>6 DEF SummaryArrives, Goto, Shape
  <2>2. ~IsResult(conv[t][split'[t] + 1]) BY <2>1 DEF Whole, Compacting
  <2> QED BY <1>1, <2>1, <2>2, StillCompacting DEF store, loading, Compacting
<1>7. CASE AdvanceCheckpoint(t)
  <2> DEFINE q == db.rows
  <2>1. /\ UNCHANGED <<Web, disk, conv, loading, rounds, split>> /\ pc'[t] = "summary"
        /\ pc[t] = "checkpoint" /\ db.upTo < LastId(t) /\ db' = [db EXCEPT !.upTo = LastId(t)]
    BY <1>2, <1>7 DEF AdvanceCheckpoint, Goto, Shape
  <2>2. ~IsResult(conv[t][split[t] + 1]) BY <2>1 DEF Whole, Compacting
  <2>3. db'.rows = db.rows /\ db'.upTo = LastId(t)
    <3>1. db \in Session BY DEF IInv, StoreOK
    <3> QED BY <2>1, <3>1 DEF Session
  <2>4. split[t] \in 1..(Len(conv[t]) - 1) BY <2>1 DEF IInv, TurnOK
  <2>5. Fetched(conv[t], ids[t], known[t], q, Len(q) - 1) /\ q \in Seq(Messages) BY <1>1, <1>2
  <2>6. Len(q) <= Len(disk.rows) + 1 /\ Len(disk.rows) \in Nat /\ db.upTo \in Nat
    BY StoredRows DEF IInv, StoreOK, TypedInv, Typed, Tables
  <2> HIDE DEF q
  <2>7. LastId(t) \in Int /\ (LastId(t) >= 0 => LastId(t) < Len(q) - 1)
    BY <1>2, <2>2, <2>4, <2>5, CutFollows
  <2>8. Len(q) \in Nat BY <2>5
  <2>9. LastId(t) < Len(disk.rows) BY <2>1, <2>6, <2>7, <2>8
  <2>10. db'.upTo < Len(disk.rows) /\ ~IsResult(conv[t][split'[t] + 1]) BY <2>1, <2>2, <2>3, <2>9
  <2> QED BY <1>1, <2>1, <2>3, <2>10, StillCompacting DEF loading, Compacting
<1>8. CASE InsertSummary(t)
  <2> DEFINE x == [upTo |-> LastId(t), covers |-> Covered(t)]
  <2>1. /\ UNCHANGED <<Web, disk, conv, loading, rounds, split>> /\ pc'[t] = "commit"
        /\ pc[t] = "summary" /\ db' = [db EXCEPT !.sums = @ \cup {x}]
    BY <1>2, <1>8 DEF InsertSummary, Goto, Shape
  <2> HIDE DEF x
  <2>2. ~IsResult(conv[t][split'[t] + 1]) BY <2>1 DEF Whole, Compacting
  <2>3. db'.rows = db.rows /\ db'.upTo = db.upTo
    <3>1. db \in Session BY DEF IInv, StoreOK
    <3> QED BY <2>1, <3>1 DEF Session
  <2> QED BY <1>1, <2>1, <2>2, <2>3, StillCompacting DEF loading, Compacting
<1> QED BY <1>3, <1>4, <1>5, <1>6, <1>7, <1>8 DEF SummaryArrives, KeepCheckpoint

-----------------------------------------------------------------------------
(* Saving. *)

LEMMA InsertWhole ==
  ASSUME IInv, TypedInv, NEW t \in Turns, Whole(t), InsertMessage(t)
  PROVE  Whole(t)'
<1> DEFINE m == Row(t)  q == db.rows  l == Len(disk.rows)
<1>1. /\ db = disk /\ disk' = disk /\ m \in Messages /\ db'.rows = Append(q, m) /\ pc[t] \in Saving
      /\ writer' = t /\ writer # t
      /\ UNCHANGED <<Web, pc, conv, ids, known, rounds>>
  BY InsertRow, HistoryAssumption DEF InsertMessage, loading
<1>2. db'.upTo = db.upTo
  <2>1. db' = [db EXCEPT !.rows = Append(@, m)] /\ db \in Session BY DEF InsertMessage, IInv, StoreOK
  <2> HIDE DEF m
  <2> QED BY <2>1 DEF Session
<1>3. Row(t)' = m BY <1>1 DEF Row
<1>4. pc[t] = "saveUser" => ~IsResult(m) BY RowNamed, <1>1
<1>5. q \in Seq(Messages) /\ Len(q) \in Nat /\ l = Len(q) /\ conv[t] \in Seq(Messages)
  BY <1>1, StoredRows DEF TypedInv, Typed
<1> HIDE DEF m, q, l
<1>6. Len(Append(q, m)) - 1 = Len(q) /\ Len(q) - 0 = Len(q)
  <2>1. Len(Append(q, m)) = Len(q) + 1 BY <1>1, <1>5, Added
  <2> QED BY <1>5, <2>1
<1>7. ASSUME pc[t] = "saveUser", t \in Web
      PROVE  Fetched(conv[t], ids[t], known[t], Append(q, m), Len(Append(q, m)) - 1)
  <2>1. Fetched(conv[t], ids[t], known[t], q, Len(q) - 0) BY <1>1, <1>7 DEF Whole, q
  <2>2. Fetched(conv[t], ids[t], known[t], q, Len(q)) BY <1>6, <2>1
  <2>3. Fetched(conv[t], ids[t], known[t], Append(q, m), Len(q)) BY <1>1, <1>4, <1>5, <1>7, <2>2, MoreRows
  <2> QED BY <1>6, <2>3
<1>8. ASSUME pc[t] \in Loop PROVE Kept(t)'
  <2>1. Kept(t) /\ Found(conv[t], m) BY <1>1, <1>8 DEF Whole, Saving, Loop, m
  <2>2. Shows(conv[t], known[t], q, l) /\ l \in Nat /\ l <= Len(q) BY <1>5, <2>1 DEF Kept, q, l
  <2>3. Shows(conv[t], known[t], Append(q, m), l) BY <1>1, <1>5, <2>1, <2>2, MoreRows
  <2> QED BY <1>1, <2>1, <2>3 DEF Kept, Told, l
<1>9. OwnRows(t)'
  <2>1. OwnRows(t) /\ pc[t] # "done" BY <1>1 DEF Whole, Saving
  <2>2. \A k \in Kinds, j \in Nat : Stored(t, k, j) => Stored(t, k, j)' BY <1>1 DEF Stored
  <2> QED BY <1>1, <2>1, <2>2, OwnStays
<1>10. /\ pc[t] \notin Reads \cup Compacting
       /\ pc[t] = "saveUser" /\ t \in Web => Fetched(conv[t], ids[t], known[t], db'.rows, Len(db'.rows) - 1)
  BY <1>1, <1>7 DEF Saving, Reads, Compacting
<1> QED BY <1>1, <1>2, <1>3, <1>8, <1>9, <1>10 DEF Whole, Begun, m

LEMMA CommitOwn ==
  ASSUME IInv, TypedInv, SerialInv, NEW t \in Turns, Acts(t), ~failed', Whole(t), pc[t] \in Saving,
         Web' = Web, rounds' = rounds,
         \/ pc[t] = "saveUser" /\ pc'[t] = IF t \in Web THEN "compact" ELSE "readCheckpoint"
         \/ pc[t] = "saveUse" /\ pc'[t] = "tools"
         \/ pc[t] = "saveResult" /\ pc'[t] = "call"
  PROVE  OwnRows(t)'
<1> SUFFICES ASSUME NEW k \in Kinds, NEW j \in Nat, In(disk'.rows, <<t, k, j>>)
             PROVE  Stored(t, k, j)'
  BY DEF OwnRows
<1>1. rounds[t] \in Nat /\ OwnRows(t) /\ pc[t] # "done" BY DEF IInv, Shape, Whole, Saving
<1>2. In(disk.rows, <<t, k, j>>) \/ <<t, k, j>> = Row(t).name BY NewRows
<1>3. CASE In(disk.rows, <<t, k, j>>)
  <2>1. Stored(t, k, j) BY <1>1, <1>3 DEF OwnRows
  <2> QED BY <1>1, <2>1 DEF Stored, Reads
<1>4. CASE <<t, k, j>> = Row(t).name
  <2>1. CASE pc[t] = "saveUser"
    <3>1. Row(t).name = <<t, "user", 0>> BY <2>1, RowNamed
    <3> QED BY <1>4, <2>1, <3>1 DEF Stored, Reads
  <2>2. CASE pc[t] = "saveUse"
    <3>1. Row(t).name = <<t, "use", rounds[t]>> BY <2>2, RowNamed
    <3> QED BY <1>1, <1>4, <2>2, <3>1 DEF Stored
  <2>3. CASE pc[t] = "saveResult"
    <3>1. Row(t).name = <<t, "result", rounds[t]>> BY <2>3, RowNamed
    <3> QED BY <1>1, <1>4, <2>3, <3>1 DEF Stored
  <2> QED BY <2>1, <2>2, <2>3
<1> QED BY <1>2, <1>3, <1>4

LEMMA CommitWhole ==
  ASSUME IInv, TypedInv, SerialInv, NEW t \in Turns, Orderly(db.rows), ~failed', Whole(t), Commit(t)
  PROVE  Whole(t)'
<1>1. /\ pc[t] \in Saving \cup {"commit"} /\ writer = t /\ disk' = db /\ db' = db /\ Web' = Web
      /\ Proceed(t) /\ writer' = None /\ Acts(t)
  BY DEF Commit, Acts
<1>2. Shape /\ conv[t] \in Seq(Messages) /\ db.rows \in Seq(Messages) /\ disk.rows \in Seq(Messages)
  BY StoredRows DEF TypedInv, Typed, IInv
<1>3. CASE Leave(t)
  <2>1. pc'[t] = "done" BY <1>2, <1>3 DEF Leave, Goto, Shape
  <2> QED BY <2>1, DoneWhole
<1>4. CASE pc[t] \in {"checkpoint", "summary", "commit"} /\ FinishCompaction(t)
  BY <1>1, <1>4, CompactionEnds DEF Compacting
<1> DEFINE q == db.rows  m == Row(t)
<1>5. ASSUME pc[t] \in Saving
      PROVE  /\ q[Len(q)] = m /\ Len(disk.rows) <= Len(q) /\ db.upTo < Len(q)
             /\ Len(disk.rows) \in Nat /\ Len(q) \in Nat
  <2>1. q = Append(disk.rows, m) /\ m \in Messages
    BY <1>1, <1>5, RowTyped DEF SerialInv, Written, TypedInv
  <2>2. db.upTo \in Nat /\ db.upTo <= Len(disk.rows) BY DEF IInv, StoreOK, TypedInv, Typed, Tables
  <2> DEFINE l == Len(disk.rows)
  <2> HIDE DEF q, m
  <2>3. Len(q) = l + 1 /\ q[l + 1] = m /\ l \in Nat BY <1>2, <2>1, Added
  <2> HIDE DEF l
  <2>4. q[Len(q)] = m /\ l <= Len(q) /\ db.upTo < Len(q) BY <2>2, <2>3 DEF l
  <2> QED BY <2>3, <2>4 DEF l
<1>6. CASE pc[t] = "saveUser" /\ UNCHANGED <<conv, loading, split, rounds>>
           /\ Goto(t, IF t \in Web THEN "compact" ELSE "readCheckpoint")
  <2>1. /\ pc'[t] = (IF t \in Web THEN "compact" ELSE "readCheckpoint")
        /\ UNCHANGED <<conv, ids, known, rounds>>
    BY <1>2, <1>6 DEF Goto, Shape, loading
  <2>2. OwnRows(t)' BY <1>1, <1>6, <2>1, CommitOwn DEF Saving
  <2>3. q[Len(q)] = User(t) /\ db.upTo < Len(q)
    <3>1. m = User(t) BY <1>6 DEF Row
    <3> QED BY <1>5, <1>6, <3>1 DEF Saving
  <2>4. t \in Web => Fetched(conv[t], ids[t], known[t], q, Len(q) - 1) BY <1>1, <1>6 DEF Whole
  <2> HIDE DEF m
  <2> QED BY <1>1, <2>1, <2>2, <2>3, <2>4 DEF Whole, Begun, Reads, Compacting, Loop
<1>7. CASE pc[t] = "saveUse" /\ UNCHANGED <<conv, loading, split, rounds>> /\ Goto(t, "tools")
  <2>1. pc'[t] = "tools" /\ UNCHANGED <<conv, ids, known, rounds>>
    BY <1>2, <1>7 DEF Goto, Shape, loading
  <2>2. OwnRows(t)' BY <1>1, <1>7, <2>1, CommitOwn DEF Saving
  <2>3. <<t, rounds[t]>> \in q[Len(q)].uses /\ db.upTo < Len(q)
    <3>1. m.uses = {<<t, rounds[t]>>} BY <1>7, RowIds DEF Saving
    <3> QED BY <1>5, <1>7, <3>1 DEF Saving
  <2>4. Kept(t)'
    <3>1. Kept(t) BY <1>7 DEF Whole, Loop
    <3>2. Shows(conv[t], known[t], q, Len(q))
      <4> DEFINE c == conv[t]  K == known[t]  l == Len(disk.rows)  k == Len(q)
      <4>1. Shows(c, K, q, l) /\ l \in Nat /\ k \in Nat /\ l <= k BY <1>5, <1>7, <3>1 DEF Kept, Saving
      <4> HIDE DEF c, K, l, k, q
      <4> QED BY <4>1, ShowsOn DEF c, K, k
    <3> QED BY <1>1, <1>7, <2>1, <3>1, <3>2 DEF Kept, Told
  <2>5. <<t, rounds[t]>> \in AllUses(conv[t]) BY <1>7 DEF Whole
  <2> HIDE DEF m
  <2> QED BY <1>1, <2>1, <2>2, <2>3, <2>4, <2>5 DEF Whole, Begun, Reads, Compacting, Loop
<1>8. CASE pc[t] = "saveResult" /\ NextCall(t)
  <2> DEFINE c == conv[t]  d == IF rounds[t] = MaxRounds THEN Append(c, SystemNote) ELSE c
             K == known[t]  e == Repair(d)
  <2>1. pc'[t] = "call" /\ conv'[t] = e /\ UNCHANGED <<known, rounds>>
    BY <1>2, <1>8 DEF NextCall, Goto, Shape, loading
  <2>2. OwnRows(t)' BY <1>1, <1>8, <2>1, CommitOwn DEF Saving
  <2>3. db.upTo < Len(q) BY <1>5, <1>8 DEF Saving
  <2>4. Kept(t) BY <1>8 DEF Whole, Loop
  <2>5. /\ d \in Seq(Messages) /\ Once(d) /\ Shows(d, K, q, Len(disk.rows))
        /\ \A n : n # Inserted /\ In(d, n) => In(c, n)
    <3>1. c \in Seq(Messages) /\ Once(c) /\ Shows(c, K, q, Len(disk.rows)) BY <1>2, <2>4 DEF Kept
    <3> DEFINE a == Append(c, SystemNote)
    <3>2. SystemNote \in Messages /\ SystemNote.name = Inserted BY OwnMessages, OwnNames
    <3>3. \A n : In(a, n) <=> In(c, n) \/ n = Inserted BY <3>1, <3>2, AddedStays
    <3>4. Once(a) BY <3>1, <3>2, AddedStays
    <3>5. \A i \in 1..Len(disk.rows) : q[i].name # SystemNote.name
      <4>1. \A i \in 1..Len(q) : q[i].name # Inserted BY <1>2 DEF Orderly
      <4>2. \A i \in 1..Len(disk.rows) : i \in 1..Len(q) BY <1>5, <1>8 DEF Saving
      <4> QED BY <3>2, <4>1, <4>2
    <3>6. Shows(a, K, q, Len(disk.rows))
      <4> DEFINE l == Len(disk.rows)
      <4>1. l \in Nat /\ l <= Len(q) /\ q \in Seq(Messages) BY <1>2, <1>5, <1>8 DEF Saving
      <4> HIDE DEF l, c, K, q
      <4> QED BY <3>1, <3>2, <3>5, <4>1, ShowsAdded DEF l
    <3>7. a \in Seq(Messages) BY <3>1, <3>2
    <3> HIDE DEF a, c, K, q
    <3> QED BY <3>1, <3>3, <3>4, <3>6, <3>7 DEF a
  <2> HIDE DEF d
  <2>6. Once(e) /\ Shows(e, K, q, Len(q)) /\ \A n : n # Inserted /\ In(e, n) => In(d, n)
    <3>1. Once(e) /\ \A n : n # Inserted /\ ~In(d, n) => ~In(e, n) BY <2>5, MendedStays
    <3> DEFINE l == Len(disk.rows)  k == Len(q)
    <3>2. Shows(d, K, q, l) /\ q \in Seq(Messages) /\ Orderly(q) /\ l \in Nat /\ k \in Nat /\ l <= k
      BY <1>2, <1>5, <1>8, <2>5 DEF Saving
    <3> HIDE DEF q, l, k, K
    <3>3. Shows(e, K, q, l) BY <2>5, <3>2, ShowsMended
    <3> HIDE DEF e
    <3>4. Shows(e, K, q, k) BY <3>2, <3>3, ShowsOn
    <3> QED BY <3>1, <3>4 DEF k
  <2> HIDE DEF e
  <2>7. ASSUME NEW k \in Kinds, NEW j \in Nat, In(e, <<t, k, j>>) PROVE Told(t, k, j)'
    <3>1. <<t, k, j>> # Inserted BY PastsAssumption DEF Kinds
    <3>2. In(c, <<t, k, j>>) BY <2>5, <2>6, <2>7, <3>1
    <3>3. Told(t, k, j) BY <2>4, <3>2 DEF Kept
    <3> QED BY <1>8, <2>1, <3>3 DEF Told
  <2>8. Kept(t)' BY <1>1, <2>1, <2>6, <2>7 DEF Kept
  <2> HIDE DEF m
  <2> QED BY <1>1, <2>1, <2>2, <2>3, <2>8 DEF Whole, Begun, Reads, Compacting, Loop
<1> QED BY <1>1, <1>3, <1>4, <1>6, <1>7, <1>8 DEF Proceed

-----------------------------------------------------------------------------
(* The agent's loop. *)

(* A message of the turn's own that is in no committed row yet.              *)
LEMMA SaysKept ==
  ASSUME IInv, TypedInv, NEW t \in Turns, Kept(t), NEW m \in Messages, ~In(conv[t], m.name),
         ~In(disk.rows, m.name)
  PROVE  /\ Once(Append(conv[t], m))
         /\ Shows(Append(conv[t], m), known[t], db.rows, Len(disk.rows))
<1> DEFINE c == conv[t]  q == db.rows  r == disk.rows  K == known[t]
<1>1. c \in Seq(Messages) /\ q \in Seq(Messages) /\ r \in Seq(Messages) /\ Extends(r, q)
  BY StoredRows DEF TypedInv, Typed
<1>2. Once(c) /\ Shows(c, K, q, Len(r)) BY DEF Kept
<1>3. \A i \in 1..Len(r) : q[i].name # m.name
  <2>1. DOMAIN r = 1..Len(r) BY <1>1
  <2>2. \A i \in 1..Len(r) : q[i] = r[i] BY <1>1 DEF Extends
  <2> QED BY <2>1, <2>2 DEF In
<1>4. Len(r) \in Nat /\ Len(r) <= Len(q) BY <1>1 DEF Extends
<1>5. ~In(c, m.name) OBVIOUS
<1> DEFINE l == Len(r)
<1>6. Once(Append(c, m)) BY <1>1, <1>2, <1>5, AddedStays
<1> HIDE DEF c, q, K, l
<1>7. Shows(c, K, q, l) /\ l \in Nat /\ l <= Len(q) /\ \A i \in 1..l : q[i].name # m.name
  BY <1>2, <1>3, <1>4 DEF l
<1> HIDE DEF r
<1>8. Shows(Append(c, m), K, q, l) BY <1>1, <1>7, ShowsAdded
<1> QED BY <1>6, <1>8 DEF c, q, K, l, r

LEMMA AgentWhole ==
  ASSUME IInv, TypedInv, NEW t \in Turns, Whole(t),
         AgentCallsTools(t) \/ AgentStopsMidCall(t) \/ ToolsReturn(t) \/ AgentReplies(t)
  PROVE  Whole(t)'
<1>1. /\ db' = db /\ disk' = disk /\ Web' = Web /\ known' = known /\ pc[t] \in {"call", "tools"}
      /\ Shape /\ conv[t] \in Seq(Messages) /\ rounds[t] \in 0..MaxRounds
      /\ conv \in [Turns -> Seq(Messages)]
  BY DEF AgentCallsTools, AgentStopsMidCall, ToolsReturn, AgentReplies, store, loading, TypedInv, Typed, IInv
<1>2. OwnRows(t) /\ Kept(t) /\ db.upTo < Len(disk.rows) BY <1>1 DEF Whole, Begun, Loop
<1> DEFINE c == conv[t]  r == rounds[t]
<1>3. r \in Nat BY <1>1, HistoryAssumption
<1> HIDE DEF r
<1>4. CASE AgentCallsTools(t) \/ AgentStopsMidCall(t)
  <2> DEFINE m == Use(t, r + 1)
  <2>1. /\ pc[t] = "call" /\ conv'[t] = Append(c, m) /\ rounds'[t] = r + 1 /\ r < MaxRounds
        /\ pc'[t] \in {"saveUse", "saveCut"}
    BY <1>1, <1>4 DEF AgentCallsTools, AgentStopsMidCall, Says, Goto, Shape, r
  <2>2. m \in Messages /\ m.name = <<t, "use", r + 1>> /\ ~IsEmpty(m) /\ m.uses = {<<t, r + 1>>} /\ m.results = {}
    <3>1. r + 1 \in 0..MaxRounds BY <1>3, <2>1, HistoryAssumption
    <3> QED BY <3>1, OwnMessages, OwnNames, OwnIds
  <2>3. r + 1 \in Nat /\ ~(r + 1 <= r) /\ (r + 1) - 1 = r /\ r - 0 = r /\ \A j \in Nat : j <= r => j <= r + 1
    BY <1>3
  <2>4. OwnRows(t)'
    <3>1. \A k \in Kinds, j \in Nat : Stored(t, k, j) => Stored(t, k, j)'
      BY <1>3, <2>1, <2>3, <1>1 DEF Stored, Reads, r
    <3> QED BY <1>1, <1>2, <3>1, OwnStays
  <2>5. ~In(c, m.name) /\ ~In(disk.rows, m.name)
    <3>1. "use" \in Kinds BY DEF Kinds
    <3>2. ~Told(t, "use", r + 1) BY <1>3, <2>3 DEF Told, r
    <3>3. ~Stored(t, "use", r + 1) BY <1>3, <2>1, <2>3 DEF Stored, r
    <3> QED BY <1>1, <1>2, <2>2, <2>3, <3>1, <3>2, <3>3 DEF Kept, OwnRows
  <2> HIDE DEF m
  <2>6. Once(Append(c, m)) /\ Shows(Append(c, m), known[t], db.rows, Len(disk.rows))
    BY <1>2, <2>2, <2>5, SaysKept
  <2>7. /\ \A n : In(Append(c, m), n) <=> In(c, n) \/ n = m.name
        /\ Found(Append(c, m), m) /\ <<t, r + 1>> \in AllUses(Append(c, m))
    <3>1. c \in Seq(Messages) /\ m.results \subseteq AllUses(c) /\ <<t, r + 1>> \in m.uses BY <1>1, <2>2
    <3> QED BY <2>2, <3>1, AddedStays
  <2>8. \A k \in Kinds, j \in Nat : In(Append(c, m), <<t, k, j>>) => Told(t, k, j)'
    <3> SUFFICES ASSUME NEW k \in Kinds, NEW j \in Nat, In(Append(c, m), <<t, k, j>>)
                 PROVE  Told(t, k, j)'
      OBVIOUS
    <3>1. CASE In(c, <<t, k, j>>)
      <4>1. Told(t, k, j) BY <1>2, <3>1 DEF Kept
      <4> QED BY <1>3, <2>1, <2>3, <4>1 DEF Told, r
    <3>2. CASE <<t, k, j>> = m.name BY <1>3, <2>1, <2>2, <3>2 DEF Told
    <3> QED BY <2>7, <3>1, <3>2
  <2>9. Kept(t)' BY <1>1, <2>1, <2>6, <2>8 DEF Kept
  <2>10. pc'[t] = "saveUse" => Row(t)' = m BY <2>1 DEF Row, m
  <2> HIDE DEF c
  <2> QED BY <1>1, <1>2, <2>1, <2>4, <2>7, <2>9, <2>10 DEF Whole, Begun, Reads, Compacting, Loop
<1>5. CASE ToolsReturn(t)
  <2> DEFINE m == Result(t, r)
  <2>1. pc[t] = "tools" /\ conv'[t] = Append(c, m) /\ rounds'[t] = r /\ pc'[t] = "saveResult"
    BY <1>1, <1>5 DEF ToolsReturn, Says, Goto, Shape, r
  <2>2. m \in Messages /\ m.name = <<t, "result", r>> /\ ~IsEmpty(m) /\ m.results = {<<t, r>>}
    BY <1>1, OwnMessages, OwnNames, OwnIds DEF r
  <2>3. OwnRows(t)'
    <3>1. \A k \in Kinds, j \in Nat : Stored(t, k, j) => Stored(t, k, j)'
      BY <1>3, <2>1, <1>1 DEF Stored, Reads, r
    <3> QED BY <1>1, <1>2, <3>1, OwnStays
  <2>4. ~In(c, m.name) /\ ~In(disk.rows, m.name)
    <3>1. "result" \in Kinds BY DEF Kinds
    <3>2. ~Told(t, "result", r) BY <1>3, <2>1 DEF Told, r
    <3>3. ~Stored(t, "result", r) BY <1>3, <2>1 DEF Stored, r
    <3> QED BY <1>1, <1>2, <1>3, <2>2, <3>1, <3>2, <3>3 DEF Kept, OwnRows
  <2>5. <<t, r>> \in AllUses(c) /\ <<t, r>> \in disk.rows[Len(disk.rows)].uses
    BY <2>1 DEF Whole, r
  <2> HIDE DEF m
  <2>6. Once(Append(c, m)) /\ Shows(Append(c, m), known[t], db.rows, Len(disk.rows))
    BY <1>2, <2>2, <2>4, SaysKept
  <2>7. /\ \A n : In(Append(c, m), n) <=> In(c, n) \/ n = m.name
        /\ Found(Append(c, m), m)
    BY <1>1, <2>2, <2>5, AddedStays
  <2>8. \A k \in Kinds, j \in Nat : In(Append(c, m), <<t, k, j>>) => Told(t, k, j)'
    <3> SUFFICES ASSUME NEW k \in Kinds, NEW j \in Nat, In(Append(c, m), <<t, k, j>>)
                 PROVE  Told(t, k, j)'
      OBVIOUS
    <3>1. CASE In(c, <<t, k, j>>)
      <4>1. Told(t, k, j) BY <1>2, <3>1 DEF Kept
      <4> QED BY <1>3, <2>1, <4>1 DEF Told, r
    <3>2. CASE <<t, k, j>> = m.name BY <1>3, <2>1, <2>2, <3>2 DEF Told
    <3> QED BY <2>7, <3>1, <3>2
  <2>9. Kept(t)' BY <1>1, <2>1, <2>6, <2>8 DEF Kept
  <2>10. Row(t)' = m BY <2>1 DEF Row, m
  <2> HIDE DEF c
  <2> QED BY <1>1, <1>2, <2>1, <2>3, <2>5, <2>7, <2>9, <2>10 DEF Whole, Begun, Reads, Compacting, Loop
<1>6. CASE AgentReplies(t)
  <2>1. pc[t] = "call" /\ rounds'[t] = rounds[t] /\ pc'[t] = "saveReply"
    BY <1>1, <1>6 DEF AgentReplies, Says, Goto, Shape
  <2>2. OwnRows(t)'
    <3>1. \A k \in Kinds, j \in Nat : Stored(t, k, j) => Stored(t, k, j)'
      BY <2>1, <1>1 DEF Stored, Reads
    <3> QED BY <1>1, <1>2, <3>1, OwnStays
  <2> QED BY <1>1, <2>1, <2>2 DEF Whole, Begun, Reads, Compacting, Loop
<1> QED BY <1>4, <1>5, <1>6

LEMMA ActorWhole ==
  ASSUME IInv, TypedInv, SerialInv, NEW t \in Turns, Acts(t), ~failed', Serial(t),
         Clean(db), Orderly(db.rows), Whole(t)
  PROVE  Whole(t)'
<1>1. CASE Start(t) \/ ReadCheckpoint(t) \/ ReadSummary(t) \/ ReadPage(t) BY <1>1, ReadsWhole
<1>2. CASE ReadLastPage(t) BY <1>2, PageWhole
<1>3. CASE LoadFails(t) \/ WriteFails(t) \/ NestedBegin(t)
  BY <1>3 DEF LoadFails, WriteFails, NestedBegin, GiveUpWrite
<1>4. CASE \/ SkipCompaction(t) \/ SummaryFails(t) \/ StartCompaction(t) \/ SummaryArrives(t)
           \/ AdvanceCheckpoint(t) \/ KeepCheckpoint(t) \/ InsertSummary(t)
  BY <1>4, CompactingWhole
<1>5. CASE InsertMessage(t) BY <1>5, InsertWhole
<1>6. CASE Commit(t) BY <1>6, CommitWhole
<1>7. CASE AgentCallsTools(t) \/ AgentStopsMidCall(t) \/ ToolsReturn(t) \/ AgentReplies(t)
  BY <1>7, AgentWhole
<1>8. CASE AgentGivesNothing(t) \/ Disconnect(t)
  <2>1. pc'[t] = "done" BY <1>8 DEF AgentGivesNothing, Disconnect, Leave, Goto, IInv, Shape
  <2> QED BY <2>1, DoneWhole
<1> QED BY <1>1, <1>2, <1>3, <1>4, <1>5, <1>6, <1>7, <1>8 DEF Acts

-----------------------------------------------------------------------------
(* The whole context is sent. *)

LEMMA ContextAtFirst == ASSUME Init, TypedInv PROVE ContextInv
<1>1. disk \in Pasts /\ db = disk /\ pc = [t \in Turns |-> "new"] BY DEF Init
<1>2. db.rows \in Seq(Messages) BY DEF TypedInv, Typed, Tables
<1>3. \A i \in DOMAIN db.rows :
        /\ db.rows[i].name # Inserted /\ ~IsEmpty(db.rows[i])
        /\ db.rows[i].name \notin Turns \X {"user", "use", "result", "reply"} \X Nat
  <2>1. \A i \in DOMAIN db.rows : db.rows[i] \in Range(db.rows) BY <1>2 DEF Range
  <2> QED BY <1>1, <2>1, PastsAssumption
<1>4. Orderly(db.rows)
  <2>1. \A i, j \in DOMAIN db.rows : i = j \/ db.rows[i].name # db.rows[j].name
    BY <1>1, PastsAssumption
  <2>2. EveryResultCalledFor(db.rows) BY <1>1, PastsAssumption
  <2> QED BY <1>3, <2>1, <2>2 DEF Orderly
<1>5. Clean(db) /\ Clean(disk) BY <1>1, PastsAssumption DEF Clean
<1>6. ASSUME NEW t \in Turns PROVE Whole(t)
  <2>1. ASSUME NEW k \in Kinds, NEW j \in Nat PROVE ~In(disk.rows, <<t, k, j>>)
    <3>1. <<t, k, j>> \in Turns \X {"user", "use", "result", "reply"} \X Nat BY DEF Kinds
    <3> QED BY <1>1, <1>3, <3>1 DEF In
  <2>2. pc[t] = "new" BY <1>1
  <2> QED BY <2>1, <2>2 DEF Whole, OwnRows, Begun, Reads, Compacting, Loop
<1> QED BY <1>4, <1>5, <1>6 DEF ContextInv

LEMMA ContextCrash == ASSUME IInv, TypedInv, SerialInv, ContextInv, Crash PROVE ContextInv'
<1>1. /\ db' = disk /\ disk' = disk /\ overlapped' = overlapped /\ failed' = failed
      /\ pc' = [t \in Turns |-> IF pc[t] = "new" THEN "new" ELSE "done"]
      /\ rounds' = [t \in Turns |-> 0]
  BY DEF Crash, flags
<1> SUFFICES ASSUME ~overlapped, ~failed
             PROVE  Clean(disk) /\ Orderly(disk.rows) /\ \A t \in Turns : Whole(t)'
  BY <1>1 DEF ContextInv
<1>2. Clean(disk) /\ Orderly(db.rows) /\ \A t \in Turns : Whole(t) BY DEF ContextInv
<1>3. Orderly(disk.rows) BY <1>2, StoredRows, OrderlyPrefix
<1>4. ASSUME NEW t \in Turns PROVE Whole(t)'
  <2>1. pc'[t] \in {"new", "done"} /\ (pc'[t] = "new" => pc[t] = "new") /\ rounds'[t] = 0 BY <1>1
  <2>2. pc[t] = "new" => rounds[t] = 0 BY DEF SerialInv, Serial
  <2>3. OwnRows(t)'
    <3> SUFFICES ASSUME pc'[t] # "done", NEW k \in Kinds, NEW j \in Nat, In(disk.rows, <<t, k, j>>)
                 PROVE  Stored(t, k, j)'
      BY <1>1 DEF OwnRows
    <3>1. pc[t] = "new" /\ pc'[t] = "new" BY <2>1
    <3>2. Stored(t, k, j) BY <1>2, <3>1 DEF Whole, OwnRows
    <3> QED BY <2>1, <2>2, <3>1, <3>2 DEF Stored
  <2> QED BY <2>1, <2>3 DEF Whole, Begun, Reads, Compacting, Loop
<1> QED BY <1>2, <1>3, <1>4

LEMMA ContextStays == ASSUME IInv, TypedInv, SerialInv, ContextInv, [Next]_vars PROVE ContextInv'
<1>1. CASE UNCHANGED vars
  <2>1. UNCHANGED <<Web, db, disk, writer, pc, conv, ids, known, split, rounds, overlapped, failed>>
    BY <1>1 DEF vars
  <2>2. \A t \in Turns : Whole(t)' <=> Whole(t)
    <3> SUFFICES ASSUME NEW t \in Turns PROVE Whole(t)' <=> Whole(t) OBVIOUS
    <3>1. \A k, j : (Stored(t, k, j)' <=> Stored(t, k, j)) /\ (Told(t, k, j)' <=> Told(t, k, j))
      BY <2>1 DEF Stored, Told
    <3>2. (OwnRows(t)' <=> OwnRows(t)) /\ (Kept(t)' <=> Kept(t)) BY <2>1, <3>1 DEF OwnRows, Kept
    <3>3. Row(t)' = Row(t) /\ (Begun(t)' <=> Begun(t)) BY <2>1 DEF Row, Begun
    <3> QED BY <2>1, <3>2, <3>3 DEF Whole
  <2> QED BY <2>1, <2>2 DEF ContextInv
<1>2. CASE Crash BY <1>2, ContextCrash
<1>3. ASSUME NEW t \in Turns, Acts(t), ~overlapped', ~failed' PROVE ContextInv'
  <2>1. overlapped \in BOOLEAN /\ failed \in BOOLEAN BY DEF TypedInv, Typed
  <2>2. /\ ~overlapped /\ Serial(t)
        /\ \A u \in Turns \ {t} : pc[u] \in {"new", "done"}
    BY <1>3, <2>1, ActsAlone
  <2>3. ~failed BY <1>3, StoreChange
  <2>4. Clean(db) /\ Clean(disk) /\ Orderly(db.rows) /\ \A u \in Turns : Whole(u)
    BY <2>2, <2>3 DEF ContextInv
  <2>5. Clean(db') /\ Clean(disk') /\ Orderly(db'.rows) BY <1>3, <2>4, StoreOrder
  <2>6. Whole(t)' BY <1>3, <2>2, <2>4, ActorWhole
  <2>7. \A u \in Turns \ {t} : Whole(u)' BY <1>3, <2>2, <2>4, OthersWhole
  <2> QED BY <2>5, <2>6, <2>7 DEF ContextInv
<1>4. CASE overlapped' \/ failed' BY <1>4 DEF ContextInv
<1> QED BY <1>1, <1>2, <1>3, <1>4, Steps

LEMMA AlwaysContext == Spec => []ContextInv
<1>1. Init /\ TypedInv => ContextInv BY ContextAtFirst
<1>2. IInv /\ TypedInv /\ SerialInv /\ ContextInv /\ [Next]_vars => ContextInv' BY ContextStays
<1> QED BY <1>1, <1>2, AlwaysIInv, AlwaysTyped, AlwaysSerial, PTL DEF Spec

(* While turns do not overlap and writes do not fail, every row of the      *)
(* session is sent to the model exactly once, as it was or in the summary,  *)
(* in whatever pages it was read, wherever it was cut for a summary and     *)
(* whatever was disconnected or crashed before (chat.py:105-114,            *)
(* conversation.py:85-133, agent.py:757-874, 926-1041).                     *)
THEOREM NothingIsLeftOut == Spec => []WholeContext
<1>1. ASSUME IInv, TypedInv, ContextInv PROVE WholeContext
  <2> SUFFICES ASSUME NEW t \in Turns, pc[t] = "call", ~overlapped, ~failed,
                      NEW i \in DOMAIN db.rows
               PROVE  LET m == db.rows[i]
                          places == {k \in DOMAIN conv[t] : conv[t][k].name = m.name}
                      IN  IF m \in known[t] THEN places = {}
                          ELSE Cardinality(places) = 1 /\ \A k \in places : Intact(conv[t], k, m)
    BY DEF WholeContext
  <2> DEFINE c == conv[t]  q == db.rows  m == q[i]
             places == {k \in DOMAIN c : c[k].name = m.name}
  <2>1. Orderly(q) /\ Kept(t) BY <1>1 DEF ContextInv, Whole, Loop
  <2>2. q \in Seq(Messages) BY <1>1, StoredRows
  <2>3. PICK b \in 0..Len(disk.rows) :
          /\ known[t] = FirstRows(q, b)
          /\ \A j \in 1..Len(q) : IF j <= b THEN ~In(c, q[j].name) ELSE Found(c, q[j])
    BY <2>1 DEF Kept, Shows
  <2>4. Once(c) /\ i \in 1..Len(q) /\ i \in Nat /\ b \in Nat BY <1>1, <2>1, <2>2, StoredRows DEF Kept
  <2> HIDE DEF c, q
  <2>5. CASE i <= b
    <3>1. ~In(c, m.name) /\ m \in known[t] BY <2>3, <2>4, <2>5 DEF FirstRows
    <3>2. places = {} BY <3>1 DEF In
    <3> QED BY <3>1, <3>2 DEF c, q
  <2>6. CASE ~(i <= b)
    <3>1. Found(c, m) BY <2>3, <2>4, <2>6
    <3>2. m \notin known[t]
      <4> SUFFICES ASSUME NEW j \in 1..b, q[j] = m PROVE FALSE BY <2>3 DEF FirstRows
      <4>1. j \in DOMAIN q /\ i \in DOMAIN q BY <2>2, <2>4, <2>6
      <4>2. j = i BY <2>1, <4>1 DEF Orderly
      <4> QED BY <2>4, <2>6, <4>2
    <3>3. m.name # Inserted BY <2>1, <2>2, <2>4 DEF Orderly
    <3>4. PICK p \in DOMAIN c : Intact(c, p, m) BY <3>1 DEF Found
    <3>5. places = {p}
      <4>1. \A k \in DOMAIN c : c[k].name = m.name => k = p BY <2>4, <3>3, <3>4 DEF Once, Intact
      <4>2. c[p].name = m.name BY <3>4 DEF Intact
      <4> QED BY <3>4, <4>1, <4>2
    <3>6. Cardinality(places) = 1 BY <3>5, FS_Singleton
    <3> QED BY <3>2, <3>4, <3>5, <3>6 DEF c, q
  <2> QED BY <2>5, <2>6
<1> QED BY <1>1, AlwaysIInv, AlwaysTyped, AlwaysContext, PTL

-----------------------------------------------------------------------------
(* What is committed is a chronicle: each turn says what it has to say in     *)
(* its order, and a transaction holds one row or one summary.                 *)

(* The place of what a turn may say next. *)
Due(t) ==
  CASE pc[t] \in {"new", "saveUser"} \/ (pc[t] \in Reads /\ t \in Web) -> 0
    [] pc[t] \in {"saveUse", "saveCut"} -> 2 * rounds[t] - 1
    [] pc[t] \in {"tools", "saveResult"} -> 2 * rounds[t]
    [] pc[t] = "saveReply" -> 2 * MaxRounds + 1
    [] OTHER -> 2 * rounds[t] + 1

(* The turn has committed nothing that is still to come. *)
Unsaid(t) ==
  pc[t] # "done" => \A s \in Sayings : s.turn = t /\ s.place >= Due(t) => ~Promise!In(s.row)

(* What the turn's open transaction holds. *)
Opened(t) ==
  /\ writer = t /\ pc[t] \in Saving => db.sums = disk.sums
  /\ pc[t] = "summary" => db.rows = disk.rows /\ db.sums = disk.sums /\ disk.upTo < LastId(t)
  /\ pc[t] = "commit" =>
       /\ db.rows = disk.rows /\ db.upTo = LastId(t) /\ disk.upTo < LastId(t)
       /\ db.sums = disk.sums \cup {[upTo |-> LastId(t), covers |-> Covered(t)]}

Talking(t) == pc[t] \in {"saveUse", "saveCut", "tools", "saveResult"} => rounds[t] # 0

ChronicleInv == \A t \in Turns : Unsaid(t) /\ Opened(t) /\ Talking(t)

(* A row says whose it is and at which place. *)
PlaceOf(n) ==
  CASE n[2] = "user" -> 0
    [] n[2] = "use" -> 2 * n[3] - 1
    [] n[2] = "result" -> 2 * n[3]
    [] OTHER -> 2 * MaxRounds + 1

LEMMA SayingNamed ==
  ASSUME NEW s \in Sayings
  PROVE  /\ s.turn \in Turns /\ s.place \in Nat
         /\ s.row.name[1] = s.turn /\ PlaceOf(s.row.name) = s.place
         /\ s.row.name \in Turns \X {"user", "use", "result", "reply"} \X Nat
<1> DEFINE N == Turns \X {"user", "use", "result", "reply"} \X Nat
<1>1. MaxRounds \in Nat /\ 1..MaxRounds \subseteq Nat BY HistoryAssumption
<1>2. CASE \E t \in Turns : s = [turn |-> t, place |-> 0, row |-> User(t)]
  <2>1. PICK t \in Turns : s = [turn |-> t, place |-> 0, row |-> User(t)] BY <1>2
  <2>2. s.turn = t /\ s.place = 0 /\ s.row.name = <<t, "user", 0>> BY <2>1, OwnNames
  <2>3. <<t, "user", 0>> \in N /\ PlaceOf(<<t, "user", 0>>) = 0 BY DEF PlaceOf
  <2> QED BY <2>2, <2>3
<1>3. CASE \E t \in Turns, r \in 1..MaxRounds : s = [turn |-> t, place |-> 2 * r - 1, row |-> Use(t, r)]
  <2>1. PICK t \in Turns, r \in 1..MaxRounds : s = [turn |-> t, place |-> 2 * r - 1, row |-> Use(t, r)]
    BY <1>3
  <2>2. s.turn = t /\ s.place = 2 * r - 1 /\ s.row.name = <<t, "use", r>> BY <2>1, OwnNames
  <2>3. r \in Nat /\ 2 * r - 1 \in Nat BY <1>1
  <2>4. <<t, "use", r>> \in N /\ PlaceOf(<<t, "use", r>>) = 2 * r - 1 BY <2>3 DEF PlaceOf
  <2> QED BY <2>2, <2>3, <2>4
<1>4. CASE \E t \in Turns, r \in 1..MaxRounds : s = [turn |-> t, place |-> 2 * r, row |-> Result(t, r)]
  <2>1. PICK t \in Turns, r \in 1..MaxRounds : s = [turn |-> t, place |-> 2 * r, row |-> Result(t, r)]
    BY <1>4
  <2>2. s.turn = t /\ s.place = 2 * r /\ s.row.name = <<t, "result", r>> BY <2>1, OwnNames
  <2>3. r \in Nat /\ 2 * r \in Nat BY <1>1
  <2>4. <<t, "result", r>> \in N /\ PlaceOf(<<t, "result", r>>) = 2 * r BY <2>3 DEF PlaceOf
  <2> QED BY <2>2, <2>3, <2>4
<1>5. CASE \E t \in Turns : s = [turn |-> t, place |-> 2 * MaxRounds + 1, row |-> Reply(t)]
  <2>1. PICK t \in Turns : s = [turn |-> t, place |-> 2 * MaxRounds + 1, row |-> Reply(t)] BY <1>5
  <2>2. s.turn = t /\ s.place = 2 * MaxRounds + 1 /\ s.row.name = <<t, "reply", 0>> BY <2>1, OwnNames
  <2>3. <<t, "reply", 0>> \in N /\ PlaceOf(<<t, "reply", 0>>) = 2 * MaxRounds + 1 BY DEF PlaceOf
  <2> QED BY <1>1, <2>2, <2>3
<1> QED BY <1>2, <1>3, <1>4, <1>5 DEF Sayings

(* What a turn saves is what it says at that place. *)
LEMMA DueSaid ==
  ASSUME Typed, NEW t \in Turns, Talking(t), pc[t] \in Saving
  PROVE  \E s \in Sayings : s.turn = t /\ s.place = Due(t) /\ s.row = Row(t)
<1>1. rounds[t] \in 0..MaxRounds /\ MaxRounds \in Nat BY HistoryAssumption DEF Typed
<1>2. CASE pc[t] = "saveUser"
  <2> DEFINE s == [turn |-> t, place |-> 0, row |-> User(t)]
  <2>1. s \in Sayings BY DEF Sayings
  <2>2. Due(t) = 0 /\ Row(t) = User(t) BY <1>2 DEF Due, Row
  <2> QED BY <2>1, <2>2
<1>3. CASE pc[t] \in {"saveUse", "saveCut"}
  <2>1. PICK r \in 1..MaxRounds : r = rounds[t] BY <1>1, <1>3 DEF Talking
  <2> DEFINE s == [turn |-> t, place |-> 2 * r - 1, row |-> Use(t, r)]
  <2>2. s \in Sayings BY DEF Sayings
  <2>3. Due(t) = 2 * r - 1 /\ Row(t) = Use(t, r) BY <1>3, <2>1 DEF Due, Row, Reads
  <2> QED BY <2>2, <2>3
<1>4. CASE pc[t] = "saveResult"
  <2>1. PICK r \in 1..MaxRounds : r = rounds[t] BY <1>1, <1>4 DEF Talking
  <2> DEFINE s == [turn |-> t, place |-> 2 * r, row |-> Result(t, r)]
  <2>2. s \in Sayings BY DEF Sayings
  <2>3. Due(t) = 2 * r /\ Row(t) = Result(t, r) BY <1>4, <2>1 DEF Due, Row, Reads
  <2> QED BY <2>2, <2>3
<1>5. CASE pc[t] = "saveReply"
  <2> DEFINE s == [turn |-> t, place |-> 2 * MaxRounds + 1, row |-> Reply(t)]
  <2>1. s \in Sayings BY DEF Sayings
  <2>2. Due(t) = 2 * MaxRounds + 1 /\ Row(t) = Reply(t) BY <1>5 DEF Due, Row, Reads
  <2> QED BY <2>1, <2>2
<1> QED BY <1>2, <1>3, <1>4, <1>5 DEF Saving

(* The moves of a turn that does not end. *)
Stays(t) == pc'[t] = pc[t]
Loads(t) == pc[t] \in {"new"} \cup Reads /\ t \in Web /\ pc'[t] \in Reads \cup {"saveUser"}
Begins(t) == pc[t] = "new" /\ pc'[t] = "saveUser"
Saves(t) ==
  \/ pc[t] = "saveUser" /\ t \in Web /\ pc'[t] = "compact"
  \/ pc[t] = "saveUser" /\ t \notin Web /\ pc'[t] = "readCheckpoint"
  \/ pc[t] = "saveUse" /\ pc'[t] = "tools"
  \/ pc[t] = "saveResult" /\ pc'[t] = "call"
Prepares(t) ==
  \/ t \notin Web /\ pc[t] \in Reads /\ pc'[t] \in Reads \cup {"compact"}
  \/ pc[t] \in Compacting /\ pc'[t] \in Compacting \cup {"call"}
Answers(t) == (pc[t] = "tools" /\ pc'[t] = "saveResult") \/ (pc[t] = "call" /\ pc'[t] = "saveReply")

LEMMA TurnMoves ==
  ASSUME Shape, NEW t \in Turns, Acts(t), pc'[t] # "done"
  PROVE  /\ Web' = Web
         /\ \/ /\ rounds'[t] = rounds[t]
               /\ Stays(t) \/ Loads(t) \/ Begins(t) \/ Saves(t) \/ Prepares(t) \/ Answers(t)
            \/ rounds'[t] = rounds[t] + 1 /\ pc[t] = "call" /\ pc'[t] \in {"saveUse", "saveCut"}
         /\ Commit(t) /\ pc[t] \in Saving => rounds'[t] = rounds[t] /\ Saves(t)
<1> USE DEF Shape
<1>1. CASE Start(t) \/ ReadCheckpoint(t) \/ ReadSummary(t) \/ ReadPage(t)
  <2>1. Web' = Web /\ rounds' = rounds /\ pc[t] \notin Saving
    BY <1>1 DEF Start, ReadCheckpoint, ReadSummary, ReadPage, store, Saving
  <2>2. Stays(t) \/ Loads(t) \/ Begins(t) \/ Prepares(t)
    BY <1>1 DEF Start, ReadCheckpoint, ReadSummary, ReadPage, Goto, Stays, Loads, Begins, Prepares, Reads
  <2>3. ~Commit(t)
    BY <1>1 DEF Start, ReadCheckpoint, ReadSummary, ReadPage, Commit, Saving
  <2> QED BY <2>1, <2>2, <2>3
<1>2. CASE ReadLastPage(t) \/ LoadFails(t)
  <2>1. Web' = Web /\ pc[t] \in Reads
    BY <1>2 DEF ReadLastPage, LoadFails, store, Reads
  <2>2. rounds' = rounds /\ pc'[t] = IF t \in Web THEN "saveUser" ELSE "compact"
    BY <1>2 DEF ReadLastPage, LoadFails, Goto, Leave
  <2>3. ~Commit(t) BY <2>1 DEF Reads, Commit, Saving
  <2> QED BY <2>1, <2>2, <2>3 DEF Loads, Prepares
<1>3. CASE \/ SkipCompaction(t) \/ StartCompaction(t) \/ SummaryFails(t) \/ SummaryArrives(t)
           \/ AdvanceCheckpoint(t) \/ KeepCheckpoint(t) \/ InsertSummary(t)
  <2>1. Web' = Web /\ rounds' = rounds /\ pc[t] \in Compacting
    BY <1>3 DEF SkipCompaction, StartCompaction, SummaryFails, SummaryArrives, AdvanceCheckpoint,
       KeepCheckpoint, InsertSummary, FinishCompaction, FirstCall, store, Compacting
  <2>2. pc'[t] \in Compacting \cup {"call"}
    BY <1>3 DEF SkipCompaction, StartCompaction, SummaryFails, SummaryArrives, AdvanceCheckpoint,
       KeepCheckpoint, InsertSummary, FinishCompaction, FirstCall, Goto, Compacting
  <2>3. pc[t] \notin Saving BY <2>1 DEF Compacting, Saving
  <2> QED BY <2>1, <2>2, <2>3 DEF Prepares
<1>4. CASE InsertMessage(t)
  <2>1. Web' = Web /\ rounds' = rounds /\ pc' = pc /\ writer = None
    BY <1>4 DEF InsertMessage
  <2>2. ~Commit(t) BY <2>1, HistoryAssumption DEF Commit
  <2> QED BY <2>1, <2>2 DEF Stays
<1>5. CASE Commit(t) \/ WriteFails(t) \/ NestedBegin(t)
  <2>1. Web' = Web /\ Proceed(t)
    BY <1>5 DEF Commit, WriteFails, NestedBegin, GiveUpWrite, Leave, Goto
  <2>2. CASE pc[t] \in Saving
    <3>1. rounds' = rounds /\ Saves(t)
      BY <2>1, <2>2 DEF Proceed, Saving, Saves, Goto, NextCall, Leave, FinishCompaction
    <3> QED BY <2>1, <3>1
  <2>3. CASE pc[t] \notin Saving
    <3>1. rounds' = rounds /\ pc[t] \in Compacting /\ pc'[t] = "call"
      BY <2>1, <2>3 DEF Proceed, Saving, Compacting, Goto, FinishCompaction, FirstCall
    <3> QED BY <2>1, <2>3, <3>1 DEF Prepares
  <2> QED BY <2>2, <2>3
<1>6. CASE AgentCallsTools(t) \/ AgentStopsMidCall(t)
  <2>1. Web' = Web /\ rounds'[t] = rounds[t] + 1 /\ pc[t] = "call" /\ pc'[t] \in {"saveUse", "saveCut"}
    BY <1>6 DEF AgentCallsTools, AgentStopsMidCall, Goto, store
  <2> QED BY <2>1 DEF Saving
<1>7. CASE ToolsReturn(t) \/ AgentReplies(t)
  <2>1. Web' = Web /\ rounds' = rounds /\ Answers(t) /\ pc[t] \notin Saving
    BY <1>7 DEF ToolsReturn, AgentReplies, Goto, store, Answers, Saving
  <2> QED BY <2>1
<1>8. CASE AgentGivesNothing(t) \/ Disconnect(t)
  BY <1>8 DEF AgentGivesNothing, Disconnect, Leave, Goto
<1> QED BY <1>1, <1>2, <1>3, <1>4, <1>5, <1>6, <1>7, <1>8 DEF Acts

(* What is due never comes earlier, and later after each row. *)
LEMMA DueGrows ==
  ASSUME IInv, Typed, Typed', NEW t \in Turns, Talking(t), Acts(t), pc'[t] # "done"
  PROVE  /\ Due(t) \in Nat /\ Due(t)' \in Nat /\ Due(t) <= Due(t)' /\ Talking(t)'
         /\ Commit(t) /\ pc[t] \in Saving => Due(t) < Due(t)'
<1>1. /\ rounds[t] \in Nat /\ rounds'[t] \in Nat /\ MaxRounds \in Nat
      /\ rounds[t] <= MaxRounds /\ rounds'[t] <= MaxRounds
      /\ pc[t] \in Running \cup {"new", "done"} /\ pc[t] # "done"
  <2>1. rounds[t] \in 0..MaxRounds /\ rounds'[t] \in 0..MaxRounds /\ MaxRounds \in Nat
    BY HistoryAssumption DEF Typed
  <2>2. pc[t] # "done" BY ActsRunning DEF IInv, Start, Running, Writing, Saving
  <2> QED BY <2>1, <2>2 DEF IInv, Shape
<1>2. Web' = Web BY TurnMoves DEF IInv
<1>3. CASE rounds'[t] = rounds[t] /\ Stays(t)
  <2>1. Due(t)' = Due(t) /\ ~(Commit(t) /\ pc[t] \in Saving)
    BY <1>2, <1>3, TurnMoves DEF Stays, Due, IInv, Saves
  <2>2. Due(t) \in Nat BY <1>1, <2>1 DEF Talking, Due
  <2> QED BY <1>3, <2>1, <2>2 DEF Talking, Stays
<1>4. CASE rounds'[t] = rounds[t] /\ (Loads(t) \/ Begins(t))
  <2>1. /\ pc[t] = "new" \/ (pc[t] \in Reads /\ t \in Web)
        /\ pc'[t] = "saveUser" \/ (pc'[t] \in Reads /\ t \in Web)
    BY <1>4 DEF Loads, Begins
  <2>2. Due(t) = 0 /\ Due(t)' = 0
    <3>1. Due(t) = 0 BY <2>1 DEF Due, Reads
    <3>2. Due(t)' = 0 BY <1>2, <2>1 DEF Due, Reads
    <3> QED BY <3>1, <3>2
  <2>3. pc[t] \notin Saving /\ pc'[t] \notin {"saveUse", "saveCut", "tools", "saveResult"}
    BY <2>1 DEF Reads, Saving
  <2> QED BY <2>2, <2>3 DEF Talking
<1>5. CASE rounds'[t] = rounds[t] /\ Saves(t)
  <2>1. CASE pc[t] = "saveUser"
    <3>1. pc'[t] \in Compacting \/ (pc'[t] \in Reads /\ t \notin Web)
      BY <1>5, <2>1 DEF Saves, Compacting, Reads
    <3>2. Due(t) = 0 /\ Due(t)' = 2 * rounds[t] + 1
      BY <1>2, <1>5, <2>1, <3>1 DEF Due, Compacting, Reads
    <3>3. Talking(t)' BY <3>1 DEF Talking, Compacting, Reads
    <3> QED BY <1>1, <3>2, <3>3
  <2>2. CASE pc[t] = "saveUse"
    <3>1. Due(t) = 2 * rounds[t] - 1 /\ Due(t)' = 2 * rounds[t] /\ rounds[t] # 0 /\ Talking(t)'
      BY <1>5, <2>2 DEF Saves, Due, Reads, Talking
    <3> QED BY <1>1, <3>1
  <2>3. CASE pc[t] = "saveResult"
    <3>1. Due(t) = 2 * rounds[t] /\ Due(t)' = 2 * rounds[t] + 1 /\ Talking(t)'
      BY <1>5, <2>3 DEF Saves, Due, Reads, Compacting, Talking
    <3> QED BY <1>1, <3>1
  <2> QED BY <1>5, <2>1, <2>2, <2>3 DEF Saves
<1>6. CASE rounds'[t] = rounds[t] /\ Prepares(t)
  <2>1. /\ pc[t] \in Compacting \/ (pc[t] \in Reads /\ t \notin Web)
        /\ pc'[t] \in Compacting \cup {"call"} \/ (pc'[t] \in Reads /\ t \notin Web)
    BY <1>6 DEF Prepares, Compacting
  <2>2. Due(t) = 2 * rounds[t] + 1 /\ Due(t)' = 2 * rounds[t] + 1
    BY <1>2, <1>6, <2>1 DEF Due, Compacting, Reads
  <2>3. pc[t] \notin Saving /\ Talking(t)' BY <2>1 DEF Talking, Compacting, Reads, Saving
  <2> QED BY <1>1, <2>2, <2>3
<1>7. CASE rounds'[t] = rounds[t] /\ Answers(t)
  <2>1. pc[t] \notin Saving BY <1>7 DEF Answers, Saving
  <2>2. CASE pc[t] = "tools"
    <3>1. Due(t) = 2 * rounds[t] /\ Due(t)' = 2 * rounds[t] /\ Talking(t)'
      BY <1>7, <2>2 DEF Answers, Due, Reads, Talking
    <3> QED BY <1>1, <2>1, <3>1
  <2>3. CASE pc[t] = "call"
    <3>1. Due(t) = 2 * rounds[t] + 1 /\ Due(t)' = 2 * MaxRounds + 1 /\ Talking(t)'
      BY <1>7, <2>3 DEF Answers, Due, Reads, Talking
    <3> QED BY <1>1, <2>1, <3>1
  <2> QED BY <1>7, <2>2, <2>3 DEF Answers
<1>8. CASE rounds'[t] = rounds[t] + 1 /\ pc[t] = "call" /\ pc'[t] \in {"saveUse", "saveCut"}
  <2>1. Due(t) = 2 * rounds[t] + 1 /\ Due(t)' = 2 * rounds'[t] - 1
    BY <1>8 DEF Due, Reads
  <2>2. pc[t] \notin Saving /\ rounds'[t] # 0 BY <1>1, <1>8 DEF Saving
  <2> QED BY <1>1, <1>8, <2>1, <2>2 DEF Talking
<1> QED BY <1>3, <1>4, <1>5, <1>6, <1>7, <1>8, TurnMoves DEF IInv

-----------------------------------------------------------------------------
(* What a step commits. *)

LEMMA WebStays == ASSUME NEW t \in Turns, Acts(t) PROVE Web' = Web
BY DEF Acts, Start, ReadCheckpoint, ReadSummary, ReadPage, ReadLastPage, LoadFails, SkipCompaction,
   StartCompaction, SummaryFails, SummaryArrives, AdvanceCheckpoint, KeepCheckpoint, InsertSummary,
   InsertMessage, Commit, WriteFails, NestedBegin, GiveUpWrite, AgentCallsTools, ToolsReturn,
   AgentStopsMidCall, AgentReplies, AgentGivesNothing, Disconnect, LeavesOpen, CommitsLast, store

LEMMA OpenedStays ==
  ASSUME IInv, IInv', TypedInv, ChronicleInv, NEW t \in Turns, Acts(t), NEW u \in Turns
  PROVE  Opened(u)'
<1>1. writer' = u \/ (pc'[u] \notin {"summary", "commit"} /\ writer' # u) BY DEF IInv, WriterOK
<1>2. db \in Session /\ disk \in Session /\ (writer = None => db = disk) BY DEF IInv, StoreOK
<1>3. CASE writer' # u BY <1>1, <1>3 DEF Opened
<1>4. CASE InsertMessage(t) /\ writer' = u
  <2>1. /\ pc[t] \in Saving /\ writer = None /\ writer' = t /\ pc' = pc /\ disk' = disk
        /\ db' = [db EXCEPT !.rows = Append(db.rows, Row(t))]
    BY <1>4 DEF InsertMessage
  <2>2. db'.sums = disk'.sums BY <1>2, <2>1 DEF Session
  <2>3. pc'[u] \notin {"summary", "commit"} BY <1>4, <2>1 DEF Saving
  <2> QED BY <2>2, <2>3 DEF Opened
<1>5. CASE AdvanceCheckpoint(t) /\ writer' = u
  <2>1. /\ db.upTo < LastId(t) /\ db' = [db EXCEPT !.upTo = LastId(t)] /\ writer = None
        /\ pc'[t] = "summary" /\ writer' = t /\ disk' = disk /\ ids' = ids /\ split' = split
    BY <1>5 DEF AdvanceCheckpoint, Goto, loading, IInv, Shape
  <2>2. LastId(t)' = LastId(t) BY <2>1 DEF LastId
  <2>3. db'.rows = disk'.rows /\ db'.sums = disk'.sums /\ disk'.upTo < LastId(t)'
    BY <1>2, <2>1, <2>2 DEF Session
  <2>4. u = t BY <1>5, <2>1
  <2> QED BY <2>1, <2>3, <2>4 DEF Opened, Saving
<1>6. CASE InsertSummary(t) /\ writer' = u
  <2> DEFINE x == [upTo |-> LastId(t), covers |-> Covered(t)]
  <2>1. /\ pc[t] = "summary" /\ db' = [db EXCEPT !.sums = db.sums \cup {x}]
        /\ pc'[t] = "commit" /\ writer' = writer /\ disk' = disk /\ ids' = ids /\ split' = split
        /\ conv' = conv /\ known' = known
    BY <1>6 DEF InsertSummary, Goto, loading, IInv, Shape
  <2>2. LastId(t)' = LastId(t) /\ Covered(t)' = Covered(t) BY <2>1 DEF LastId, Covered
  <2>3. writer = t /\ db.upTo = LastId(t) BY <2>1 DEF IInv, WriterOK
  <2>4. db.rows = disk.rows /\ db.sums = disk.sums /\ disk.upTo < LastId(t)
    BY <2>1 DEF ChronicleInv, Opened
  <2>5. x' = x BY <2>2
  <2> HIDE DEF x
  <2>6. db'.rows = db.rows /\ db'.upTo = db.upTo /\ db'.sums = db.sums \cup {x}
    BY <1>2, <2>1 DEF Session
  <2>7. u = t BY <1>6, <2>1, <2>3
  <2> QED BY <2>1, <2>2, <2>3, <2>4, <2>5, <2>6, <2>7 DEF Opened, Saving, x
<1>7. CASE writer' \notin Turns BY <1>3, <1>7
<1>8. CASE UNCHANGED <<writer, db, disk>> /\ writer # t /\ writer' = u
  <2>1. u # t BY <1>8
  <2>2. /\ pc'[u] = pc[u] /\ conv'[u] = conv[u] /\ ids'[u] = ids[u] /\ known'[u] = known[u]
        /\ split'[u] = split[u]
    BY <2>1, OneActs DEF IInv, Others
  <2>3. LastId(u)' = LastId(u) /\ Covered(u)' = Covered(u) BY <2>2 DEF LastId, Covered
  <2>4. Opened(u) BY DEF ChronicleInv
  <2> QED BY <1>8, <2>2, <2>3, <2>4 DEF Opened
<1> QED BY <1>3, <1>4, <1>5, <1>6, <1>7, <1>8, TransactionMoves

(* A commit makes of what the connection shows what is committed. *)
LEMMA OneCommits ==
  ASSUME IInv, NEW t \in Turns, Acts(t)
  PROVE  \/ disk' = disk
         \/ /\ disk' = db /\ writer = t /\ pc[t] \in Saving \cup {"commit"}
            /\ Commit(t) \/ pc'[t] = "done"
<1>1. CASE Commit(t) BY <1>1 DEF Commit
<1>2. CASE Disconnect(t)
  <2>1. disk' = disk \/ CommitsLast(t) BY <1>2 DEF Disconnect, LeavesOpen, store
  <2>2. pc'[t] = "done" BY <1>2 DEF Disconnect, Leave, Goto, IInv, Shape
  <2> QED BY <2>1, <2>2 DEF CommitsLast
<1>3. CASE ~Commit(t) /\ ~Disconnect(t)
  BY <1>3 DEF Acts, Start, ReadCheckpoint, ReadSummary, ReadPage, ReadLastPage, LoadFails, SkipCompaction,
     StartCompaction, SummaryFails, SummaryArrives, AdvanceCheckpoint, KeepCheckpoint, InsertSummary,
     InsertMessage, WriteFails, NestedBegin, GiveUpWrite, AgentCallsTools, ToolsReturn,
     AgentStopsMidCall, AgentReplies, AgentGivesNothing, store
<1> QED BY <1>1, <1>2, <1>3

LEMMA RowSaid ==
  ASSUME IInv, TypedInv, SerialInv, ChronicleInv, NEW t \in Turns, writer = t, pc[t] \in Saving
  PROVE  /\ db.rows = Append(disk.rows, Row(t)) /\ db.upTo = disk.upTo /\ db.sums = disk.sums
         /\ \E s \in Sayings : s.turn = t /\ s.place = Due(t) /\ s.row = Row(t)
<1>1. db.rows = Append(disk.rows, Row(t)) BY DEF SerialInv, Written
<1>2. db.upTo = disk.upTo BY DEF IInv, WriterOK
<1>3. db.sums = disk.sums BY DEF ChronicleInv, Opened
<1>4. Talking(t) /\ Typed BY DEF ChronicleInv, TypedInv
<1> QED BY <1>1, <1>2, <1>3, <1>4, DueSaid

LEMMA CommitIsPromised ==
  ASSUME IInv, TypedInv, SerialInv, ChronicleInv, NEW t \in Turns,
         disk' = db, writer = t, pc[t] \in Saving \cup {"commit"}
  PROVE  Promise!Next
<1>1. CASE pc[t] \in Saving
  <2>1. PICK s \in Sayings : s.turn = t /\ s.place = Due(t) /\ s.row = Row(t) BY <1>1, RowSaid
  <2>2. disk'.rows = Append(disk.rows, s.row) /\ disk'.upTo = disk.upTo /\ disk'.sums = disk.sums
    BY <1>1, <2>1, RowSaid
  <2>3. Unsaid(t) /\ pc[t] # "done" BY <1>1 DEF ChronicleInv, Saving
  <2>4. \A p \in Sayings : p.turn = s.turn /\ p.place >= s.place => ~Promise!In(p.row)
    BY <2>1, <2>3 DEF Unsaid
  <2>5. Promise!Say BY <2>2, <2>4 DEF Promise!Say
  <2> QED BY <2>5 DEF Promise!Next
<1>2. CASE pc[t] = "commit"
  <2>1. LastId(t) \in 1..Len(disk.rows) /\ Covered(t) = RowsUpTo(disk, LastId(t))
    BY <1>2, CoveredIsPrefix
  <2>2. /\ disk'.rows = disk.rows /\ disk'.upTo = LastId(t) /\ disk.upTo < LastId(t)
        /\ disk'.sums = disk.sums \cup {[upTo |-> LastId(t), covers |-> Covered(t)]}
    BY <1>2 DEF ChronicleInv, Opened
  <2>3. Covered(t) = Promise!FirstRows(LastId(t)) BY <2>1 DEF RowsUpTo, Promise!FirstRows
  <2>4. disk.upTo \in Nat /\ Len(disk.rows) \in Nat BY StoredRows DEF TypedInv, Typed, Tables
  <2>5. LastId(t) \in (disk.upTo + 1)..Len(disk.rows) BY <2>1, <2>2, <2>4
  <2>6. Promise!Summarize BY <2>2, <2>3, <2>5 DEF Promise!Summarize
  <2> QED BY <2>6 DEF Promise!Next
<1> QED BY <1>1, <1>2

(* What is added by a commit was due. *)
LEMMA UnsaidStays ==
  ASSUME IInv, TypedInv, TypedInv', SerialInv, ChronicleInv, NEW t \in Turns, Acts(t), NEW u \in Turns
  PROVE  Unsaid(u)'
<1> SUFFICES ASSUME pc'[u] # "done", NEW s \in Sayings, s.turn = u, s.place >= Due(u)',
                    NEW i \in DOMAIN disk'.rows, disk'.rows[i] = s.row
             PROVE  FALSE
  BY DEF Unsaid, Promise!In
<1>1. pc[u] # "done" /\ s.place >= Due(u)
  <2>1. CASE u = t
    <3>1. Due(t) \in Nat /\ Due(t)' \in Nat /\ Due(t) <= Due(t)'
      BY <2>1, DueGrows DEF TypedInv, ChronicleInv
    <3>2. s.place \in Nat BY SayingNamed
    <3>3. pc[t] # "done" BY ActsRunning DEF IInv, Start, Running, Writing, Saving
    <3> QED BY <2>1, <3>1, <3>2, <3>3
  <2>2. CASE u # t
    <3>1. pc'[u] = pc[u] /\ rounds'[u] = rounds[u] /\ Web' = Web
      BY <2>2, OneActs, WebStays DEF IInv, Others
    <3>2. Due(u)' = Due(u) BY <3>1 DEF Due
    <3> QED BY <3>1, <3>2
  <2> QED BY <2>1, <2>2
<1>2. Unsaid(u) BY DEF ChronicleInv
<1>3. ~Promise!In(s.row) BY <1>1, <1>2 DEF Unsaid
<1>4. disk.rows \in Seq(Messages) BY StoredRows
<1>5. CASE disk'.rows = disk.rows BY <1>3, <1>5 DEF Promise!In
<1>6. CASE disk' = db /\ writer = t /\ pc[t] \in Saving /\ (Commit(t) \/ pc'[t] = "done")
  <2>1. PICK p \in Sayings : p.turn = t /\ p.place = Due(t) /\ p.row = Row(t) BY <1>6, RowSaid
  <2>2. disk'.rows = Append(disk.rows, Row(t)) /\ Row(t) \in Messages
    BY <1>6, RowSaid, RowTyped DEF TypedInv
  <2> DEFINE r == disk.rows  n == Len(r)  m == Row(t)
  <2>3. /\ Len(Append(r, m)) = n + 1 /\ n \in Nat /\ Append(r, m)[n + 1] = m
        /\ \A j \in 1..n : Append(r, m)[j] = r[j]
        /\ Append(r, m) \in Seq(Messages)
    BY <1>4, <2>2, Added
  <2>4. i \in 1..(n + 1) /\ Append(r, m)[i] = s.row
    <3>1. i \in DOMAIN Append(r, m) BY <2>2
    <3>2. DOMAIN Append(r, m) = 1..(n + 1) BY <2>3
    <3> QED BY <2>2, <3>1, <3>2
  <2>5. i \notin 1..n
    <3>1. DOMAIN r = 1..n BY <1>4
    <3> QED BY <1>3, <2>3, <2>4, <3>1 DEF Promise!In
  <2>6. i = n + 1 BY <2>3, <2>4, <2>5
  <2>7. s.row = p.row BY <2>1, <2>3, <2>4, <2>6
  <2>8. s.turn = p.turn /\ s.place = p.place BY <2>7, SayingNamed
  <2>9. u = t /\ s.place = Due(t) BY <2>1, <2>8
  <2>10. Commit(t) /\ pc'[t] # "done" BY <1>6, <2>9
  <2>11. Due(t) < Due(t)' /\ Due(t) \in Nat /\ Due(t)' \in Nat
    BY <1>6, <2>10, DueGrows DEF TypedInv, ChronicleInv
  <2> QED BY <2>9, <2>11
<1>7. CASE disk' = db /\ pc[t] = "commit"
  <2>1. disk'.rows = disk.rows BY <1>7 DEF ChronicleInv, Opened
  <2> QED BY <1>5, <2>1
<1> QED BY <1>5, <1>6, <1>7, OneCommits

LEMMA ChronicleAtFirst == ASSUME Init, TypedInv PROVE ChronicleInv
<1>1. disk \in Pasts /\ pc = [t \in Turns |-> "new"] /\ writer = None BY DEF Init
<1>2. disk.rows \in Seq(Messages) BY DEF TypedInv, Typed, Tables
<1>3. \A i \in DOMAIN disk.rows : disk.rows[i].name \notin Turns \X {"user", "use", "result", "reply"} \X Nat
  <2>1. \A i \in DOMAIN disk.rows : disk.rows[i] \in Range(disk.rows) BY <1>2 DEF Range
  <2> QED BY <1>1, <2>1, PastsAssumption
<1>4. \A s \in Sayings : ~Promise!In(s.row) BY <1>3, SayingNamed DEF Promise!In
<1>5. \A t \in Turns : writer # t BY <1>1, HistoryAssumption
<1> QED BY <1>1, <1>4, <1>5 DEF ChronicleInv, Unsaid, Opened, Talking

LEMMA ChronicleStays ==
  ASSUME IInv, IInv', TypedInv, TypedInv', SerialInv, ChronicleInv, [Next]_vars
  PROVE  ChronicleInv'
<1>1. CASE UNCHANGED vars
  <2>1. UNCHANGED <<Web, db, disk, writer, pc, conv, ids, known, split, rounds>> BY <1>1 DEF vars
  <2>2. ASSUME NEW t \in Turns PROVE Unsaid(t)' /\ Opened(t)' /\ Talking(t)'
    <3>1. Due(t)' = Due(t) /\ LastId(t)' = LastId(t) /\ Covered(t)' = Covered(t)
      BY <2>1 DEF Due, LastId, Covered
    <3>2. \A r : Promise!In(r)' <=> Promise!In(r) BY <2>1 DEF Promise!In
    <3> QED BY <2>1, <3>1, <3>2 DEF ChronicleInv, Unsaid, Opened, Talking
  <2> QED BY <2>2 DEF ChronicleInv
<1>2. CASE Crash
  <2>1. /\ disk' = disk /\ writer' = None /\ Web' = Web
        /\ pc' = [t \in Turns |-> IF pc[t] = "new" THEN "new" ELSE "done"]
    BY <1>2 DEF Crash
  <2>2. ASSUME NEW t \in Turns PROVE Unsaid(t)' /\ Opened(t)' /\ Talking(t)'
    <3>1. pc'[t] \in {"new", "done"} /\ (pc'[t] = "new" => pc[t] = "new") BY <2>1
    <3>2. pc'[t] = "new" => Due(t) = 0 /\ Due(t)' = 0 BY <3>1 DEF Due, Reads
    <3>3. \A r : Promise!In(r)' <=> Promise!In(r) BY <2>1 DEF Promise!In
    <3>4. Unsaid(t)' BY <3>1, <3>2, <3>3 DEF ChronicleInv, Unsaid
    <3>5. writer' # t BY <2>1, HistoryAssumption
    <3> QED BY <3>1, <3>4, <3>5 DEF Opened, Talking
  <2> QED BY <2>2 DEF ChronicleInv
<1>3. ASSUME NEW t \in Turns, Acts(t), NEW u \in Turns PROVE Unsaid(u)' /\ Opened(u)' /\ Talking(u)'
  <2>1. Unsaid(u)' /\ Opened(u)' BY <1>3, UnsaidStays, OpenedStays
  <2>2. CASE u = t /\ pc'[t] # "done" BY <1>3, <2>1, <2>2, DueGrows DEF ChronicleInv, TypedInv
  <2>3. CASE u # t
    <3>1. pc'[u] = pc[u] /\ rounds'[u] = rounds[u] BY <1>3, <2>3, OneActs DEF IInv, Others
    <3> QED BY <2>1, <3>1 DEF ChronicleInv, Talking
  <2>4. CASE pc'[u] = "done" BY <2>1, <2>4 DEF Talking
  <2> QED BY <2>1, <2>2, <2>3, <2>4
<1> QED BY <1>1, <1>2, <1>3, Steps DEF ChronicleInv

LEMMA AlwaysChronicle == Spec => []ChronicleInv
<1>1. Init /\ TypedInv => ChronicleInv BY ChronicleAtFirst
<1>2. IInv /\ IInv' /\ TypedInv /\ TypedInv' /\ SerialInv /\ ChronicleInv /\ [Next]_vars => ChronicleInv'
  BY ChronicleStays
<1> QED BY <1>1, <1>2, AlwaysIInv, AlwaysTyped, AlwaysSerial, PTL DEF Spec

(* The store implements Chronicle: whatever turns overlap, are read before  *)
(* they are committed, fail, are left open or are cut off by a restart, the *)
(* committed session only grows by one row at a time, each turn's in its    *)
(* order, or moves its checkpoint on together with the summary of exactly   *)
(* the rows up to it (store.py:586-610, 681-717).                           *)
THEOREM ChatIsAChronicle == Spec => ChronicleKept
<1>1. Init => Promise!Init BY DEF Init, Promise!Init
<1>2. ASSUME IInv, TypedInv, SerialInv, ChronicleInv, [Next]_vars
      PROVE  [Promise!Next]_(Promise!chronicleVars)
  <2>1. disk' = disk => UNCHANGED Promise!chronicleVars BY DEF Promise!chronicleVars
  <2>2. CASE UNCHANGED vars BY <2>1, <2>2 DEF vars
  <2>3. CASE Crash BY <2>1, <2>3 DEF Crash
  <2>4. ASSUME NEW t \in Turns, Acts(t) PROVE [Promise!Next]_(Promise!chronicleVars)
    BY <1>2, <2>1, <2>4, OneCommits, CommitIsPromised
  <2> QED BY <1>2, <2>2, <2>3, <2>4, Steps
<1> QED BY <1>1, <1>2, AlwaysIInv, AlwaysTyped, AlwaysSerial, AlwaysChronicle, PTL
    DEF Spec, ChronicleKept, Promise!Spec

-----------------------------------------------------------------------------
(* Who leaves a transaction open.                                             *)

LeftByWeb == writer = Abandoned => \E t \in Turns : t \in Web /\ pc[t] = "done"

(* A transaction without a holder is that of a web turn that was cancelled: *)
(* whatever fails or overlaps, no other turn leaves one open (chat.py:186,  *)
(* store.py:598-610).                                                       *)
THEOREM OnlyCancelledTurnsLeaveOpen == Spec => []LeftByWeb
<1>1. Init => LeftByWeb BY HistoryAssumption DEF Init, LeftByWeb
<1>2. ASSUME IInv, LeftByWeb, NEW t \in Turns, Acts(t) PROVE LeftByWeb'
  <2>1. Web' = Web BY <1>2, WebStays
  <2>2. ASSUME writer' = Abandoned, writer # Abandoned PROVE t \in Web /\ pc'[t] = "done"
    <3>1. writer' \notin Turns /\ writer' # None BY <2>2, HistoryAssumption
    <3>2. Disconnect(t)
      BY <1>2, <2>2, <3>1 DEF Acts, Start, ReadCheckpoint, ReadSummary, ReadPage, ReadLastPage, LoadFails,
         SkipCompaction, StartCompaction, SummaryFails, SummaryArrives, AdvanceCheckpoint, KeepCheckpoint,
         InsertSummary, InsertMessage, Commit, WriteFails, NestedBegin, GiveUpWrite, AgentCallsTools,
         ToolsReturn, AgentStopsMidCall, AgentReplies, AgentGivesNothing, store
    <3> QED BY <1>2, <3>2 DEF Disconnect, Leave, Goto, IInv, Shape
  <2>3. ASSUME NEW u \in Turns, pc[u] = "done" PROVE pc'[u] = "done"
    <3>1. u # t BY <1>2, <2>3, ActsRunning DEF IInv, Start, Running, Writing, Saving
    <3> QED BY <1>2, <2>3, <3>1, OneActs DEF IInv, Others
  <2> QED BY <1>2, <2>1, <2>2, <2>3 DEF LeftByWeb
<1>3. ASSUME IInv, LeftByWeb, [Next]_vars PROVE LeftByWeb'
  <2>1. CASE UNCHANGED vars BY <1>3, <2>1 DEF vars, LeftByWeb
  <2>2. CASE Crash BY <2>2, HistoryAssumption DEF Crash, LeftByWeb
  <2> QED BY <1>2, <1>3, <2>1, <2>2, Steps
<1> QED BY <1>1, <1>3, AlwaysIInv, PTL DEF Spec

NoWebTurn == Web = {}

(* So among turns of which none is a web client's, no BEGIN ever finds a     *)
(* transaction open, and what the docstring of Store says of its lock       *)
(* (store.py:47-49) holds.                                                  *)
THEOREM BotsDoNotNest == Spec /\ NoWebTurn => NoNestedTransaction
<1>1. ASSUME NoWebTurn, [Next]_vars PROVE NoWebTurn'
  <2>1. CASE UNCHANGED vars BY <1>1, <2>1 DEF vars, NoWebTurn
  <2>2. CASE Crash BY <1>1, <2>2 DEF Crash, NoWebTurn
  <2> QED BY <1>1, <2>1, <2>2, Steps, WebStays DEF NoWebTurn
<1>2. Spec /\ NoWebTurn => []NoWebTurn BY <1>1, PTL DEF Spec
<1>3. NoWebTurn /\ LeftByWeb => [\A t \in Turns : ~NestedBegin(t)]_vars
  BY DEF LeftByWeb, NoWebTurn, NestedBegin
<1> QED BY <1>2, <1>3, OnlyCancelledTurnsLeaveOpen, PTL DEF NoNestedTransaction

=============================================================================

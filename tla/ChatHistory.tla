---------------------------- MODULE ChatHistory -----------------------------
(***************************************************************************)
(* The history of one chat session: the rows of the SQLite store, their    *)
(* compaction into summaries (src/src/store/store.py), what a turn loads   *)
(* of them (src/src/agent/conversation.py) and what the agent makes of it  *)
(* (src/src/agent/agent.py).                                               *)
(*                                                                         *)
(* All turns share one connection: what one has written in a transaction   *)
(* that is still open the others already read.  db is what the connection  *)
(* shows, disk what is committed; a rollback sets db back to disk.         *)
(*                                                                         *)
(* Two surfaces may use the session at once, and each runs its own turns   *)
(* one after the other (module SessionTurns is about that).  Web turns     *)
(* load and then save; the turns of the bots save and then load.           *)
(***************************************************************************)
EXTENDS Repair, Integers

CONSTANTS
  Turns,       \* the operator's messages
  Webs,        \* which of them may be web turns; the rest are Signal's
  Pasts,       \* what may be in the store at the start
  PageSize,    \* rows per page of list_messages
  None,        \* no writer
  Abandoned,   \* the writer of a transaction whose task was cancelled
  MaxRounds,   \* Agent._max_iterations
  MaxErrors,   \* bound: statements of the store that fail
  MaxCrashes   \* bound: restarts of the process

RowsUpTo(d, n) == {d.rows[i] : i \in 1..n}

(* A session as the tables hold it: each summary stands for the rows up    *)
(* to its checkpoint, and the session's checkpoint has one.                *)
Faithful(d) ==
  /\ d \in [rows : Seq(Range(d.rows)), upTo : 0..Len(d.rows),
            sums : SUBSET [upTo : 1..Len(d.rows), covers : SUBSET Range(d.rows)]]
  /\ \A s \in d.sums : s.covers = RowsUpTo(d, s.upTo)
  /\ d.upTo # 0 => \E s \in d.sums : s.upTo = d.upTo

ASSUME HistoryAssumption ==
  /\ Webs \subseteq SUBSET Turns
  /\ \A p \in Pasts : Faithful(p)
  /\ None \notin Turns /\ Abandoned \notin Turns \cup {None}
  /\ PageSize \in Nat \ {0}
  /\ MaxRounds \in Nat \ {0} /\ MaxErrors \in Nat /\ MaxCrashes \in Nat

(* The messages of a past are as turns make them, but of other turns, and  *)
(* stand in the order in which turns that did not overlap save them: each  *)
(* result after its call, and none first after the checkpoint.             *)
ASSUME PastsAssumption ==
  /\ Inserted \notin Turns \X {"user", "use", "result", "reply"} \X Nat
  /\ \A p \in Pasts :
       /\ \A m \in Range(p.rows) :
            /\ m = Message(m.name, m.role, m.uses, m.results, m.text) /\ m.text \in BOOLEAN
            /\ IsFiniteSet(m.uses) /\ IsFiniteSet(m.results) /\ ~IsEmpty(m)
            /\ \/ m.role = "user" /\ m.uses = {}
               \/ m.role = "assistant" /\ m.results = {}
            /\ m.name # Inserted
            /\ m.name \notin Turns \X {"user", "use", "result", "reply"} \X Nat
            /\ \A x \in m.uses \cup m.results : x \notin Turns \X Nat
       /\ \A i, j \in DOMAIN p.rows :
            \/ i = j
            \/ p.rows[i].name # p.rows[j].name /\ p.rows[i].uses \cap p.rows[j].uses = {}
       /\ EveryResultCalledFor(p.rows)
       /\ p.upTo < Len(p.rows) => ~IsResult(p.rows[p.upTo + 1])

VARIABLES
  Web,          \* the web turns
  db, disk,     \* the session as the connection shows it, and as committed
  writer,       \* who holds the store's open transaction
  pc,           \* where each turn is
  conv, ids,    \* what it has loaded, and the row of each message (-1: the summary)
  known,        \* the messages that the summary at the head of conv stands for
  seen,         \* the row after which it reads on
  split,        \* the number of messages being summarized
  rounds,       \* rounds of tool calls
  overlapped,   \* some two turns ran at once
  failed,       \* some write failed
  errors, crashes

vars == <<Web, db, disk, writer, pc, conv, ids, known, seen, split, rounds,
          overlapped, failed, errors, crashes>>

store == <<db, disk, writer, Web>>
loading == <<ids, known, seen>>
limits == <<errors, crashes>>
flags == <<overlapped, failed>>

-----------------------------------------------------------------------------
(* The messages of a turn. *)

User(t) == Message(<<t, "user", 0>>, "user", {}, {}, TRUE)
Use(t, r) == Message(<<t, "use", r>>, "assistant", {<<t, r>>}, {}, TRUE)
Result(t, r) == Message(<<t, "result", r>>, "user", {}, {<<t, r>>}, FALSE)
Reply(t) == Message(<<t, "reply", 0>>, "assistant", {}, {}, TRUE)
SystemNote == Message(Inserted, "user", {}, {}, TRUE)
SummaryMessage == Message(Inserted, "user", {}, {}, TRUE)

Saving == {"saveUser", "saveUse", "saveResult", "saveReply", "saveCut"}
Writing == Saving \cup {"checkpoint", "summary", "commit"}
Running == Writing \cup
  {"readCheckpoint", "readSummary", "readPage", "compact", "summarize", "call", "tools"}

Init ==
  /\ Web \in Webs /\ disk \in Pasts
  /\ db = disk /\ writer = None
  /\ pc = [t \in Turns |-> "new"]
  /\ conv = [t \in Turns |-> << >>] /\ ids = [t \in Turns |-> << >>]
  /\ known = [t \in Turns |-> {}]
  /\ seen = [t \in Turns |-> 0] /\ split = [t \in Turns |-> 0]
  /\ rounds = [t \in Turns |-> 0]
  /\ overlapped = FALSE /\ failed = FALSE
  /\ errors = 0 /\ crashes = 0

Goto(t, place) == pc' = [pc EXCEPT ![t] = place]

(* The end of a turn: what it had loaded is gone. *)
Leave(t) ==
  /\ Goto(t, "done")
  /\ conv' = [conv EXCEPT ![t] = << >>] /\ ids' = [ids EXCEPT ![t] = << >>]
  /\ known' = [known EXCEPT ![t] = {}]
  /\ seen' = [seen EXCEPT ![t] = 0] /\ split' = [split EXCEPT ![t] = 0]
  /\ rounds' = [rounds EXCEPT ![t] = 0]

-----------------------------------------------------------------------------
(* A turn begins when its surface's lock lets it. *)

Start(t) ==
  /\ pc[t] = "new"
  /\ \A u \in Turns \ {t} : (u \in Web <=> t \in Web) => pc[u] \notin Running
  /\ Goto(t, IF t \in Web THEN "readCheckpoint" ELSE "saveUser")
  /\ overlapped' = (overlapped \/ \E u \in Turns : pc[u] \in Running)
  /\ UNCHANGED <<store, conv, loading, split, rounds, failed, limits>>

(* load_session_with_ids: the checkpoint is one query, its summary another *)
(* and every page of the rows one more.                                    *)
ReadCheckpoint(t) ==
  /\ pc[t] = "readCheckpoint"
  /\ seen' = [seen EXCEPT ![t] = db.upTo]
  /\ Goto(t, IF db.upTo = 0 THEN "readPage" ELSE "readSummary")
  /\ UNCHANGED <<store, conv, ids, known, split, rounds, flags, limits>>

(* Without a summary for the checkpoint every row is loaded. *)
ReadSummary(t) ==
  /\ pc[t] = "readSummary"
  /\ \/ \E s \in db.sums :
          /\ s.upTo = seen[t]
          /\ conv' = [conv EXCEPT ![t] = <<SummaryMessage>>]
          /\ ids' = [ids EXCEPT ![t] = <<-1>>]
          /\ known' = [known EXCEPT ![t] = s.covers]
          /\ UNCHANGED seen
     \/ /\ \A s \in db.sums : s.upTo # seen[t]
        /\ seen' = [seen EXCEPT ![t] = 0]
        /\ UNCHANGED <<conv, ids, known>>
  /\ Goto(t, "readPage")
  /\ UNCHANGED <<store, split, rounds, flags, limits>>

More(t) == seen[t] + PageSize < Len(db.rows)
PageEnd(t) == IF More(t) THEN seen[t] + PageSize ELSE Len(db.rows)
WithPage(t) == conv[t] \o SubSeq(db.rows, seen[t] + 1, PageEnd(t))
WithPageIds(t) == ids[t] \o [i \in 1..(PageEnd(t) - seen[t]) |-> seen[t] + i]

ReadPage(t) ==
  /\ pc[t] = "readPage"
  /\ More(t)
  /\ conv' = [conv EXCEPT ![t] = WithPage(t)]
  /\ ids' = [ids EXCEPT ![t] = WithPageIds(t)]
  /\ seen' = [seen EXCEPT ![t] = PageEnd(t)]
  /\ UNCHANGED <<store, pc, known, split, rounds, flags, limits>>

(* After the last page a bot's turn drops the message it has just saved,   *)
(* which the agent appends again.                                          *)
ReadLastPage(t) ==
  /\ pc[t] = "readPage"
  /\ ~More(t)
  /\ LET c == WithPage(t)
         n == Len(c) - (IF t \notin Web /\ c # << >> /\ c[Len(c)].role = "user" THEN 1 ELSE 0)
     IN /\ conv' = [conv EXCEPT ![t] = SubSeq(c, 1, n)]
        /\ ids' = [ids EXCEPT ![t] = SubSeq(WithPageIds(t), 1, n)]
  /\ Goto(t, IF t \in Web THEN "saveUser" ELSE "compact")
  /\ UNCHANGED <<store, known, seen, split, rounds, flags, limits>>

(* A query of the load fails: the web turn goes on without any history. *)
LoadFails(t) ==
  /\ pc[t] \in {"readCheckpoint", "readSummary", "readPage"}
  /\ errors < MaxErrors /\ errors' = errors + 1
  /\ failed' = TRUE
  /\ IF t \in Web
     THEN /\ conv' = [conv EXCEPT ![t] = << >>] /\ ids' = [ids EXCEPT ![t] = << >>]
          /\ known' = [known EXCEPT ![t] = {}] /\ seen' = [seen EXCEPT ![t] = 0]
          /\ Goto(t, "saveUser")
          /\ UNCHANGED <<split, rounds>>
     ELSE Leave(t)
  /\ UNCHANGED <<store, overlapped, crashes>>

-----------------------------------------------------------------------------
(* _maybe_compact: whatever the budget is, the messages before some        *)
(* boundary are summarized; the last one never is, and the boundary moves  *)
(* back from a tool result to its call.                                    *)

(* Mutant: the boundary stays where the budget puts it. *)
BoundaryUnmoved(c, n, k) == k = n

Boundary(c, n, k) == ~IsResult(c[k + 1]) /\ \A j \in (k + 1)..n : IsResult(c[j + 1])

(* The user's message goes on the list, which is mended for the first call. *)
FirstCall(t, c) ==
  /\ conv' = [conv EXCEPT ![t] = Repair(Append(c, User(t)))]
  /\ ids' = [ids EXCEPT ![t] = << >>]
  /\ seen' = [seen EXCEPT ![t] = 0] /\ split' = [split EXCEPT ![t] = 0]
  /\ Goto(t, "call")

SkipCompaction(t) ==
  /\ pc[t] = "compact"
  /\ FirstCall(t, conv[t])
  /\ UNCHANGED <<store, known, rounds, flags, limits>>

StartCompaction(t) ==
  /\ pc[t] = "compact"
  /\ \E n \in 1..(Len(conv[t]) - 1) : \E k \in 1..n :
       /\ Boundary(conv[t], n, k)
       /\ split' = [split EXCEPT ![t] = k]
  /\ Goto(t, "summarize")
  /\ UNCHANGED <<store, conv, loading, rounds, flags, limits>>

(* What the summary stands for, the summary it was made from included. *)
Covered(t) ==
  known[t] \cup {conv[t][k] : k \in {j \in 1..split[t] : ids[t][j] # -1}}

FinishCompaction(t) ==
  /\ FirstCall(t, <<SummaryMessage>> \o SubSeq(conv[t], split[t] + 1, Len(conv[t])))
  /\ known' = [known EXCEPT ![t] = Covered(t)]
  /\ UNCHANGED rounds

SummaryFails(t) ==
  /\ pc[t] = "summarize"
  /\ FirstCall(t, conv[t])
  /\ UNCHANGED <<store, known, rounds, flags, limits>>

(* on_compact: the last message summarized is a row, so its id becomes the *)
(* checkpoint; the summary of a summary alone is not kept.                 *)

(* Mutant: the id of the first message that is kept. *)
LastIdOffByOne(t) == ids[t][split[t] + 1]

LastId(t) == ids[t][split[t]]

SummaryArrives(t) ==
  /\ pc[t] = "summarize"
  /\ IF LastId(t) >= 0
     THEN Goto(t, "checkpoint") /\ UNCHANGED <<conv, loading, split, rounds>>
     ELSE FinishCompaction(t)
  /\ UNCHANGED <<store, flags, limits>>

-----------------------------------------------------------------------------
(* The store.  Its writers take turns on one lock: each begins when no     *)
(* transaction is open, and commits before it lets go.                     *)

(* set_compaction_checkpoint: the column only moves forward, and a summary *)
(* is written only when it does.                                           *)

(* Mutant: without the guard of the UPDATE. *)
AdvanceUnguarded(t) ==
  /\ pc[t] = "checkpoint" /\ writer = None
  /\ db' = [db EXCEPT !.upTo = LastId(t)]
  /\ writer' = t
  /\ Goto(t, "summary")
  /\ UNCHANGED <<Web, disk, conv, loading, split, rounds, flags, limits>>

AdvanceCheckpoint(t) ==
  /\ pc[t] = "checkpoint" /\ writer = None
  /\ db.upTo < LastId(t)
  /\ db' = [db EXCEPT !.upTo = LastId(t)]
  /\ writer' = t
  /\ Goto(t, "summary")
  /\ UNCHANGED <<Web, disk, conv, loading, split, rounds, flags, limits>>

KeepCheckpoint(t) ==
  /\ pc[t] = "checkpoint" /\ writer = None
  /\ db.upTo >= LastId(t)
  /\ FinishCompaction(t)
  /\ UNCHANGED <<store, flags, limits>>

InsertSummary(t) ==
  /\ pc[t] = "summary"
  /\ db' = [db EXCEPT !.sums = @ \cup {[upTo |-> LastId(t), covers |-> Covered(t)]}]
  /\ Goto(t, "commit")
  /\ UNCHANGED <<Web, disk, writer, conv, loading, split, rounds, flags, limits>>

(* create_message: BEGIN and INSERT; the others now read the row. *)
Row(t) ==
  CASE pc[t] = "saveUser" -> User(t)
    [] pc[t] \in {"saveUse", "saveCut"} -> Use(t, rounds[t])
    [] pc[t] = "saveResult" -> Result(t, rounds[t])
    [] pc[t] = "saveReply" -> Reply(t)

InsertMessage(t) ==
  /\ pc[t] \in Saving /\ writer = None
  /\ db' = [db EXCEPT !.rows = Append(@, Row(t))]
  /\ writer' = t
  /\ UNCHANGED <<Web, disk, pc, conv, loading, split, rounds, flags, limits>>

(* The call after the tools; the last one comes with a note. *)
NextCall(t) ==
  /\ conv' = [conv EXCEPT ![t] =
                Repair(IF rounds[t] = MaxRounds THEN Append(@, SystemNote) ELSE @)]
  /\ Goto(t, "call")
  /\ UNCHANGED <<loading, split, rounds>>

(* Where a turn goes when a write of its is over, well or not. *)
Proceed(t) ==
  \/ /\ pc[t] = "saveUser"
     /\ Goto(t, IF t \in Web THEN "compact" ELSE "readCheckpoint")
     /\ UNCHANGED <<conv, loading, split, rounds>>
  \/ /\ pc[t] = "saveUse"
     /\ Goto(t, "tools")
     /\ UNCHANGED <<conv, loading, split, rounds>>
  \/ pc[t] = "saveResult" /\ NextCall(t)
  \/ pc[t] \in {"saveReply", "saveCut"} /\ Leave(t)
  \/ pc[t] \in {"checkpoint", "summary", "commit"} /\ FinishCompaction(t)

Commit(t) ==
  /\ pc[t] \in Saving \cup {"commit"} /\ writer = t
  /\ disk' = db /\ writer' = None
  /\ Proceed(t)
  /\ UNCHANGED <<Web, db, flags, limits>>

(* The write is rolled back and its exception logged; only a bot's turn    *)
(* ends when it cannot save the operator's message.                        *)
GiveUpWrite(t) ==
  /\ db' = disk /\ writer' = None
  /\ failed' = TRUE
  /\ IF pc[t] = "saveUser" /\ t \notin Web THEN Leave(t) ELSE Proceed(t)
  /\ UNCHANGED <<Web, disk, overlapped, crashes>>

WriteFails(t) ==
  /\ pc[t] \in Writing /\ writer \in {None, t}
  /\ errors < MaxErrors /\ errors' = errors + 1
  /\ GiveUpWrite(t)

(* BEGIN finds the transaction of a cancelled task still open. *)
NestedBegin(t) ==
  /\ pc[t] \in Saving \cup {"checkpoint"} /\ writer = Abandoned
  /\ GiveUpWrite(t)
  /\ UNCHANGED errors

-----------------------------------------------------------------------------
(* The agent's loop. *)

Says(t, m) == conv' = [conv EXCEPT ![t] = Append(@, m)]

(* Mutant: the loop does not count. *)
AgentCallsToolsForever(t) ==
  /\ pc[t] = "call"
  /\ rounds' = [rounds EXCEPT ![t] = @ + 1]
  /\ Says(t, Use(t, rounds[t] + 1))
  /\ Goto(t, "saveUse")
  /\ UNCHANGED <<store, loading, split, flags, limits>>

AgentCallsTools(t) ==
  /\ pc[t] = "call" /\ rounds[t] < MaxRounds
  /\ rounds' = [rounds EXCEPT ![t] = @ + 1]
  /\ Says(t, Use(t, rounds[t] + 1))
  /\ Goto(t, "saveUse")
  /\ UNCHANGED <<store, loading, split, flags, limits>>

ToolsReturn(t) ==
  /\ pc[t] = "tools"
  /\ Says(t, Result(t, rounds[t]))
  /\ Goto(t, "saveResult")
  /\ UNCHANGED <<store, loading, split, rounds, flags, limits>>

(* The answer is cut off by the token limit: it has tool calls, and ends   *)
(* the turn.                                                               *)
AgentStopsMidCall(t) ==
  /\ pc[t] = "call" /\ rounds[t] < MaxRounds
  /\ rounds' = [rounds EXCEPT ![t] = @ + 1]
  /\ Says(t, Use(t, rounds[t] + 1))
  /\ Goto(t, "saveCut")
  /\ UNCHANGED <<store, loading, split, flags, limits>>

AgentReplies(t) ==
  /\ pc[t] = "call"
  /\ Says(t, Reply(t))
  /\ Goto(t, "saveReply")
  /\ UNCHANGED <<store, loading, split, rounds, flags, limits>>

(* An empty answer is not saved, and a failed call raises. *)
AgentGivesNothing(t) ==
  /\ pc[t] = "call"
  /\ Leave(t)
  /\ UNCHANGED <<store, flags, limits>>

-----------------------------------------------------------------------------
(* A web client disconnects: its turn is cancelled at an await.  The       *)
(* statement the connection's thread has taken is carried out all the      *)
(* same, but nothing after it: CancelledError passes by the rollback.      *)

LeavesOpen(t) ==
  /\ \/ writer = t
     \/ pc[t] \in Saving \cup {"checkpoint"} /\ writer = None
  /\ writer' = Abandoned
  /\ UNCHANGED <<Web, db, disk>>

CommitsLast(t) ==
  /\ pc[t] \in Saving \cup {"commit"} /\ writer = t
  /\ disk' = db /\ writer' = None
  /\ UNCHANGED <<Web, db>>

Disconnect(t) ==
  /\ t \in Web /\ pc[t] \in Running
  /\ LeavesOpen(t) \/ CommitsLast(t) \/ (writer # t /\ UNCHANGED store)
  /\ Leave(t)
  /\ UNCHANGED <<flags, limits>>

Crash ==
  /\ crashes < MaxCrashes /\ crashes' = crashes + 1
  /\ db' = disk /\ writer' = None
  /\ pc' = [t \in Turns |-> IF pc[t] = "new" THEN "new" ELSE "done"]
  /\ conv' = [t \in Turns |-> << >>] /\ ids' = [t \in Turns |-> << >>]
  /\ known' = [t \in Turns |-> {}]
  /\ seen' = [t \in Turns |-> 0] /\ split' = [t \in Turns |-> 0]
  /\ rounds' = [t \in Turns |-> 0]
  /\ UNCHANGED <<Web, disk, flags, errors>>

Next ==
  \/ \E t \in Turns : Start(t)
  \/ \E t \in Turns : ReadCheckpoint(t)
  \/ \E t \in Turns : ReadSummary(t)
  \/ \E t \in Turns : ReadPage(t)
  \/ \E t \in Turns : ReadLastPage(t)
  \/ \E t \in Turns : LoadFails(t)
  \/ \E t \in Turns : SkipCompaction(t)
  \/ \E t \in Turns : StartCompaction(t)
  \/ \E t \in Turns : SummaryFails(t)
  \/ \E t \in Turns : SummaryArrives(t)
  \/ \E t \in Turns : AdvanceCheckpoint(t)
  \/ \E t \in Turns : KeepCheckpoint(t)
  \/ \E t \in Turns : InsertSummary(t)
  \/ \E t \in Turns : InsertMessage(t)
  \/ \E t \in Turns : Commit(t)
  \/ \E t \in Turns : WriteFails(t)
  \/ \E t \in Turns : NestedBegin(t)
  \/ \E t \in Turns : AgentCallsTools(t)
  \/ \E t \in Turns : ToolsReturn(t)
  \/ \E t \in Turns : AgentStopsMidCall(t)
  \/ \E t \in Turns : AgentReplies(t)
  \/ \E t \in Turns : AgentGivesNothing(t)
  \/ \E t \in Turns : Disconnect(t)
  \/ Crash

Spec == Init /\ [][Next]_vars

-----------------------------------------------------------------------------
(* Types. *)

Names == (Turns \X {"user", "use", "result", "reply"} \X (0..MaxRounds))
         \cup {Inserted} \cup UNION {{m.name : m \in Range(p.rows)} : p \in Pasts}

MessageOK(m) ==
  /\ m.name \in Names /\ m.role \in {"user", "assistant"} /\ m.text \in BOOLEAN
  /\ IsFiniteSet(m.uses) /\ IsFiniteSet(m.results)

(* The tables of the store, the local variables of each turn, and a writer *)
(* that is one of the turns or a task that is gone.                        *)
TypeOK ==
  /\ \A d \in {db, disk} :
       /\ \A i \in DOMAIN d.rows : MessageOK(d.rows[i])
       /\ d.upTo \in 0..Len(d.rows)
       /\ \A s \in d.sums : s.upTo \in 1..Len(d.rows) /\ \A m \in s.covers : MessageOK(m)
  /\ writer \in Turns \cup {None, Abandoned}
  /\ pc \in [Turns -> Running \cup {"new", "done"}]
  /\ \A t \in Turns :
       /\ \A i \in DOMAIN conv[t] : MessageOK(conv[t][i])
       /\ ids[t] \in Seq(Nat \cup {-1})
       /\ \A m \in known[t] : MessageOK(m)
  /\ seen \in [Turns -> Nat] /\ split \in [Turns -> Nat]
  /\ rounds \in [Turns -> 0..MaxRounds]
  /\ overlapped \in BOOLEAN /\ failed \in BOOLEAN
  /\ errors \in 0..MaxErrors /\ crashes \in 0..MaxCrashes

-----------------------------------------------------------------------------
(* Safety *)

(* A summary stands for exactly the rows up to its checkpoint, whatever    *)
(* overlapped, failed, was cancelled or crashed: no row is passed over     *)
(* when only the rows after the checkpoint are loaded, and none is counted *)
(* twice.  (The split index of _maybe_compact is mapped to a row through   *)
(* msg_ids in on_compact, chat.py:105-114.)                                *)
NothingForgotten ==
  \A d \in {db, disk} : \A s \in d.sums :
    s.upTo <= Len(d.rows) /\ s.covers = RowsUpTo(d, s.upTo)

(* A committed checkpoint has a committed summary: get_compaction_         *)
(* checkpoint (store.py:649-679) never falls back to the raw rows.         *)
CheckpointHasSummary ==
  disk.upTo # 0 => \E s \in disk.sums : s.upTo = disk.upTo

(* The committed checkpoint never moves back, the write of a slower turn   *)
(* included (store.py:691-695).                                            *)
CheckpointAdvances == [][disk'.upTo >= disk.upTo]_vars

(* What is committed of a session is a chronicle: whatever overlaps, is    *)
(* read before it is committed, fails, is left open or cut off by a        *)
(* restart, a commit adds one row, of which the turn has said nothing      *)
(* later, or moves the checkpoint on together with the summary of the rows *)
(* up to it, and no row that was committed changes or goes                 *)
(* (store.py:586-610, 681-717).                                            *)
Sayings ==
  {[turn |-> t, place |-> 0, row |-> User(t)] : t \in Turns}
  \cup {[turn |-> t, place |-> 2 * r - 1, row |-> Use(t, r)] : t \in Turns, r \in 1..MaxRounds}
  \cup {[turn |-> t, place |-> 2 * r, row |-> Result(t, r)] : t \in Turns, r \in 1..MaxRounds}
  \cup {[turn |-> t, place |-> 2 * MaxRounds + 1, row |-> Reply(t)] : t \in Turns}

Promise == INSTANCE Chronicle WITH rows <- disk.rows, upTo <- disk.upTo, sums <- disk.sums

ChronicleKept == Promise!Spec

(* While turns do not overlap, every conversation sent to the model is     *)
(* acceptable to its API, whatever was cut, lost or summarized before      *)
(* (_repair_conversation, agent.py:757-874).                               *)
WellFormedCalls ==
  \A t \in Turns : pc[t] = "call" /\ ~overlapped => Acceptable(conv[t])

(* With turns that overlap every tool call is still answered at once.      *)
UsesAnswered ==
  \A t \in Turns : pc[t] = "call" => EveryUseAnswered(conv[t])

(* While turns do not overlap and writes do not fail, every row is in the  *)
(* conversation sent to the model exactly once, as it was or in the        *)
(* summary: neither the checkpoint, the boundary, the dropped tail nor     *)
(* the repair loses or repeats anything.                                   *)
Intact(c, k, m) ==
  c[k].name = m.name /\ m.uses \subseteq c[k].uses /\ m.results \subseteq c[k].results

WholeContext ==
  \A t \in Turns : pc[t] = "call" /\ ~overlapped /\ ~failed =>
    \A i \in DOMAIN db.rows :
      LET m == db.rows[i]
          places == {k \in DOMAIN conv[t] : conv[t][k].name = m.name}
      IN IF m \in known[t] THEN places = {}
         ELSE Cardinality(places) = 1 /\ \A k \in places : Intact(conv[t], k, m)

(* What the docstring of Store says of its lock (store.py:47-49): it       *)
(* prevents a transaction within a transaction.                            *)
NoNestedTransaction == [][\A t \in Turns : ~NestedBegin(t)]_vars

=============================================================================

------------------------------ MODULE Scheduler ------------------------------
(***************************************************************************)
(* The background scheduler of src/src/scheduler/scheduler.py with the     *)
(* document store it persists to.                                          *)
(*                                                                         *)
(* Everything runs on one asyncio loop, so an action is the code between   *)
(* two awaits.  What is awaited is the condition script, the agent         *)
(* callback, and the write lock of the store, whose waiters are served in  *)
(* the order they arrived.  A task is a Python object: a fire keeps the    *)
(* object it was given even after delete_task has dropped it from _tasks,  *)
(* which is why objects (Objs) are kept apart from names (Names).          *)
(***************************************************************************)
EXTENDS Naturals, FiniteSets, Sequences

CONSTANTS
  Names,        \* schedule names
  Objs, NoObj,  \* ScheduledTask objects, and "no object"
  Codes, NoCode,\* condition scripts, and condition_code = None
  Secrets,      \* secret names a condition may ask for
  Sources,      \* which fires exist: "tick" (run) and "manual" (run_now)
  NoDoc,        \* "no document" in the store
  Period,       \* length of a schedule's interval, in clock units
  MaxClock, MaxOps, MaxCrashes, MaxErrors   \* bounds of the environment

ASSUME SchedulerAssumption ==
  /\ Names # {} /\ NoObj \notin Objs
  /\ NoCode \notin Codes
  /\ Sources \subseteq {"tick", "manual"}
  /\ Period \in Nat \ {0}
  /\ MaxClock \in Nat /\ MaxOps \in Nat /\ MaxCrashes \in Nat /\ MaxErrors \in Nat

MaxStrikes == 3          \* the 3 of "attempt %d/3"

Slots  == Sources \X Names
NoSlot == <<"operator", "none">>

(* What an operator approves: the script with the access it is given.      *)
Perm == [code : Codes \cup {NoCode}, net : BOOLEAN, secrets : SUBSET Secrets]

(* The fields of ScheduledTask that decide anything.  The expression is    *)
(* abstracted to Period, the prompt and the parsed expression left out.    *)
Task == [name : Names, perm : Perm, enabled : BOOLEAN, approved : BOOLEAN,
         lastRun : Nat, retry : Nat, condRetry : Nat]

ASSUME NoDocAssumption == NoDoc \notin Task

NewTask(n, p, now) ==
  [name |-> n, perm |-> p, enabled |-> TRUE, approved |-> FALSE,
   lastRun |-> now, retry |-> 0, condRetry |-> 0]

NoPerm == [code |-> NoCode, net |-> FALSE, secrets |-> {}]

(* to_dict followed by from_dict: the retry counters are not persisted,    *)
(* and neither is anything about the condition when there is none.         *)
ToDoc(t) ==
  IF t.perm.code = NoCode
  THEN [t EXCEPT !.retry = 0, !.condRetry = 0, !.perm = NoPerm, !.approved = FALSE]
  ELSE [t EXCEPT !.retry = 0, !.condRetry = 0]

VARIABLES
  heap,      \* the objects
  mem,       \* _tasks: name -> object
  doc,       \* the documents schedule:<name>
  queue,     \* the writes waiting for the store's lock, in order
  fires,     \* the _fire coroutine of each slot
  clock,
  reviewed,  \* history: the permissions the operator approved, per name
  writer,    \* history: the object whose snapshot a document holds
  streak,    \* history: failed evaluations in a row while switched on
  ops, crashes, errors    \* how much of the bounds is spent

vars == <<heap, mem, doc, queue, fires, clock, reviewed, writer, streak,
          ops, crashes, errors>>

IdleFire == [pc |-> "idle", obj |-> NoObj, now |-> 0, ran |-> NoPerm]

Fire == [pc : {"idle", "start", "condition", "agent", "saving", "savingOk"},
         obj : Objs \cup {NoObj}, now : Nat, ran : Perm]

Write == [op : {"create", "update", "insert", "delete"}, name : Names,
          content : Task \cup {NoDoc}, by : Objs \cup {NoObj},
          slot : Slots \cup {NoSlot}]

TypeOK ==
  /\ heap \in [Objs -> Task]
  /\ mem \in [Names -> Objs \cup {NoObj}]
  /\ doc \in [Names -> Task \cup {NoDoc}]
  /\ queue \in Seq(Write)
  /\ fires \in [Slots -> Fire]
  /\ clock \in Nat
  /\ reviewed \in [Names -> SUBSET Perm]
  /\ writer \in [Names -> Objs \cup {NoObj}]
  /\ streak \in [Objs -> Nat]
  /\ ops \in Nat /\ crashes \in Nat /\ errors \in Nat

-----------------------------------------------------------------------------
(* Objects something still refers to. *)

Referenced(o) ==
  \/ \E n \in Names : mem[n] = o
  \/ \E s \in Slots : fires[s].obj = o
  \/ \E i \in 1..Len(queue) : queue[i].by = o

Free == {o \in Objs : ~Referenced(o)}

Blank == NewTask(CHOOSE n \in Names : TRUE, NoPerm, 0)   \* memory not in use

(* A fresh install: schedules come from create_task, and after a Crash from *)
(* the documents.                                                           *)
Init ==
  /\ heap = [o \in Objs |-> Blank]
  /\ mem = [n \in Names |-> NoObj]
  /\ doc = [n \in Names |-> NoDoc]
  /\ queue = << >>
  /\ fires = [s \in Slots |-> IdleFire]
  /\ clock = 0
  /\ reviewed = [n \in Names |-> {}]
  /\ writer = [n \in Names |-> NoObj]
  /\ streak = [o \in Objs |-> 0]
  /\ ops = 0 /\ crashes = 0 /\ errors = 0

-----------------------------------------------------------------------------
(* _save_task: join the queue with a snapshot of the task as it is now.    *)

SaveOf(o, t, slot) ==
  [op |-> "create", name |-> t.name, content |-> ToDoc(t), by |-> o, slot |-> slot]

(* A step that changes object o to t and saves it. *)
ChangeAndSave(o, t, slot) ==
  /\ heap' = [heap EXCEPT ![o] = t]
  /\ queue' = Append(queue, SaveOf(o, t, slot))

SpendOp == ops < MaxOps /\ ops' = ops + 1

-----------------------------------------------------------------------------
(* The operator's and the agent's calls.  Each changes the object at once  *)
(* and then waits for the store.                                           *)

(* create_task, after the callers' get_task check: _tasks learns of the    *)
(* object only when the insert has been made.                              *)
CreateTask(n, o, p) ==
  /\ SpendOp
  /\ mem[n] = NoObj
  /\ o \in Free
  /\ LET t == NewTask(n, p, clock) IN
     /\ heap' = [heap EXCEPT ![o] = t]
     /\ queue' = Append(queue, [SaveOf(o, t, NoSlot) EXCEPT !.op = "insert"])
  /\ streak' = [streak EXCEPT ![o] = 0]
  /\ UNCHANGED <<mem, doc, fires, clock, reviewed, writer, crashes, errors>>

(* Mutant: turning the network on is not a change of permissions. *)
ResetsApprovalButForNet(old, new) ==
  \/ new.code # old.code
  \/ new.secrets \ old.secrets # {}

(* The changes for which update_task takes the approval away.              *)
ResetsApproval(old, new) ==
  \/ new.code # old.code
  \/ new.net /\ ~old.net
  \/ new.secrets \ old.secrets # {}

(* Mutant: an edit forgives the strikes. *)
UpdatedForgiving(t, p, en) ==
  [t EXCEPT !.perm = p, !.enabled = en, !.condRetry = 0,
            !.approved = @ /\ ~ResetsApproval(t.perm, p)]

Updated(t, p, en) ==
  [t EXCEPT !.perm = p, !.enabled = en,
            !.approved = @ /\ ~ResetsApproval(t.perm, p)]

(* update_task, enable_task, disable_task.  A field left alone is one set  *)
(* to the value it has; condition_code can be set, never cleared.          *)
UpdateTask(n, p, en) ==
  /\ SpendOp
  /\ mem[n] # NoObj
  /\ LET o == mem[n] IN
     /\ p.code # heap[o].perm.code => p.code # NoCode
     /\ ChangeAndSave(o, Updated(heap[o], p, en), NoSlot)
  /\ UNCHANGED <<mem, doc, fires, clock, reviewed, writer, streak, crashes, errors>>

(* PUT /schedules/{name} with an empty condition_code: the router makes it *)
(* None, which update_task skips.                                          *)
ClearCondition(n) ==
  mem[n] # NoObj /\ UpdateTask(n, heap[mem[n]].perm, heap[mem[n]].enabled)

(* update_task with an invalid schedule expression: the fields are put     *)
(* back, approved (set before the validation) is not, nothing is saved.    *)
UpdateRejected(n, p) ==
  /\ SpendOp
  /\ mem[n] # NoObj
  /\ LET o == mem[n] IN
     /\ p.code # heap[o].perm.code => p.code # NoCode
     /\ heap' = [heap EXCEPT ![o].approved = @ /\ ~ResetsApproval(heap[o].perm, p)]
  /\ UNCHANGED <<mem, doc, queue, fires, clock, reviewed, writer, streak, crashes, errors>>

ApproveTask(n) ==
  /\ SpendOp
  /\ mem[n] # NoObj
  /\ LET o == mem[n] IN
     /\ heap[o].perm.code # NoCode
     /\ ChangeAndSave(o, [heap[o] EXCEPT !.approved = TRUE], NoSlot)
     /\ reviewed' = [reviewed EXCEPT ![n] = @ \cup {heap[o].perm}]
  /\ UNCHANGED <<mem, doc, fires, clock, writer, streak, crashes, errors>>

RevokeTask(n) ==
  /\ SpendOp
  /\ mem[n] # NoObj
  /\ ChangeAndSave(mem[n], [heap[mem[n]] EXCEPT !.approved = FALSE], NoSlot)
  /\ UNCHANGED <<mem, doc, fires, clock, reviewed, writer, streak, crashes, errors>>

DeleteTask(n) ==
  /\ SpendOp
  /\ mem[n] # NoObj
  /\ mem' = [mem EXCEPT ![n] = NoObj]
  /\ queue' = Append(queue, [op |-> "delete", name |-> n, content |-> NoDoc,
                             by |-> NoObj, slot |-> NoSlot])
  /\ UNCHANGED <<heap, doc, fires, clock, reviewed, writer, streak, crashes, errors>>

-----------------------------------------------------------------------------
(* Firing. *)

Due(o) == clock >= heap[o].lastRun + Period

(* _tick: gather wraps a _fire for every due task; none has run yet.  The  *)
(* loop ticks again only when all of them have returned.                   *)
Tick ==
  /\ "tick" \in Sources
  /\ \A n \in Names : fires[<<"tick", n>>].pc = "idle"
  /\ LET due == {n \in Names : mem[n] # NoObj /\ heap[mem[n]].enabled /\ Due(mem[n])} IN
     /\ due # {}
     /\ fires' = [s \in Slots |->
                    IF s[1] = "tick" /\ s[2] \in due
                    THEN [IdleFire EXCEPT !.pc = "start", !.obj = mem[s[2]], !.now = clock]
                    ELSE fires[s]]
  /\ UNCHANGED <<heap, mem, doc, queue, clock, reviewed, writer, streak, ops, crashes, errors>>

(* run_now, in a background task of its own: enabled is not looked at. *)
RunNow(n) ==
  /\ "manual" \in Sources
  /\ SpendOp
  /\ mem[n] # NoObj
  /\ fires[<<"manual", n>>].pc = "idle"    \* bound: one at a time
  /\ fires' = [fires EXCEPT ![<<"manual", n>>] =
                 [IdleFire EXCEPT !.pc = "start", !.obj = mem[n], !.now = clock]]
  /\ UNCHANGED <<heap, mem, doc, queue, clock, reviewed, writer, streak, crashes, errors>>

At(s, pc) == fires[s].pc = pc
Goto(s, pc) == fires' = [fires EXCEPT ![s].pc = pc, ![s].ran = NoPerm]
TaskOf(s) == heap[fires[s].obj]

(* Mutant: a timeout leaves last_run alone. *)
TimedOutInPlace(s)   == [TaskOf(s) EXCEPT !.retry = 0]

(* The three ways a fire finishes with the task.                           *)
Advanced(s)  == [TaskOf(s) EXCEPT !.lastRun = fires[s].now]
Completed(s) == [Advanced(s) EXCEPT !.retry = 0, !.condRetry = 0]
TimedOut(s)  == [Advanced(s) EXCEPT !.retry = 0]

(* _fire up to its first await. *)
BeginSkip(s) ==
  /\ At(s, "start")
  /\ TaskOf(s).perm.code # NoCode /\ ~TaskOf(s).approved
  /\ ChangeAndSave(fires[s].obj, Advanced(s), s)
  /\ Goto(s, "saving")
  /\ UNCHANGED <<mem, doc, clock, reviewed, writer, streak, ops, crashes, errors>>

BeginCondition(s) ==
  /\ At(s, "start")
  /\ TaskOf(s).perm.code # NoCode /\ TaskOf(s).approved
  /\ fires' = [fires EXCEPT ![s].pc = "condition", ![s].ran = TaskOf(s).perm]
  /\ UNCHANGED <<heap, mem, doc, queue, clock, reviewed, writer, streak, ops, crashes, errors>>

BeginAgent(s) ==
  /\ At(s, "start")
  /\ TaskOf(s).perm.code = NoCode
  /\ Goto(s, "agent")
  /\ UNCHANGED <<heap, mem, doc, queue, clock, reviewed, writer, streak, ops, crashes, errors>>

(* _evaluate_condition returned "wake" or "skip". *)
ConditionWake(s) ==
  /\ At(s, "condition")
  /\ Goto(s, "agent")
  /\ streak' = [streak EXCEPT ![fires[s].obj] = 0]
  /\ UNCHANGED <<heap, mem, doc, queue, clock, reviewed, writer, ops, crashes, errors>>

ConditionSkip(s) ==
  /\ At(s, "condition")
  /\ ChangeAndSave(fires[s].obj, Completed(s), s)
  /\ Goto(s, "saving")
  /\ streak' = [streak EXCEPT ![fires[s].obj] = 0]
  /\ UNCHANGED <<mem, doc, clock, reviewed, writer, ops, crashes, errors>>

(* _handle_condition_failure: a strike, and at the third the task is off.  *)
ConditionFailed(s) ==
  /\ At(s, "condition")
  /\ LET o == fires[s].obj IN
     /\ IF heap[o].condRetry + 1 >= MaxStrikes
        THEN /\ ChangeAndSave(o, [Advanced(s) EXCEPT !.enabled = FALSE, !.condRetry = 0], s)
             /\ Goto(s, "saving")
             /\ streak' = [streak EXCEPT ![o] = 0]
        ELSE /\ heap' = [heap EXCEPT ![o].condRetry = @ + 1]
             /\ streak' = [streak EXCEPT ![o] = IF @ < MaxStrikes THEN @ + 1 ELSE @]
             /\ fires' = [fires EXCEPT ![s] = IdleFire]
             /\ UNCHANGED queue
  /\ UNCHANGED <<mem, doc, clock, reviewed, writer, ops, crashes, errors>>

(* The callback returned; the save that follows is inside the try.         *)
AgentDone(s) ==
  /\ At(s, "agent")
  /\ ChangeAndSave(fires[s].obj, Completed(s), s)
  /\ Goto(s, "savingOk")
  /\ UNCHANGED <<mem, doc, clock, reviewed, writer, streak, ops, crashes, errors>>

AgentTimeout(s) ==
  /\ At(s, "agent")
  /\ ChangeAndSave(fires[s].obj, TimedOut(s), s)
  /\ Goto(s, "saving")
  /\ UNCHANGED <<mem, doc, clock, reviewed, writer, streak, ops, crashes, errors>>

(* except Exception: a retry at the next tick, given up at the third.  q   *)
(* is the queue the handler finds.                                         *)
HandleException(s, q) ==
  LET o == fires[s].obj IN
  IF heap[o].retry + 1 >= MaxStrikes
  THEN /\ heap' = [heap EXCEPT ![o] = TimedOut(s)]
       /\ queue' = Append(q, SaveOf(o, TimedOut(s), s))
       /\ Goto(s, "saving")
  ELSE /\ heap' = [heap EXCEPT ![o].retry = @ + 1]
       /\ queue' = q
       /\ fires' = [fires EXCEPT ![s] = IdleFire]

AgentFailed(s) ==
  /\ At(s, "agent")
  /\ HandleException(s, queue)
  /\ UNCHANGED <<mem, doc, clock, reviewed, writer, streak, ops, crashes, errors>>

-----------------------------------------------------------------------------
(* The store serves the write at the head of the queue.  The coroutine     *)
(* that waited runs on in the same step.                                   *)

Next1 == Head(queue)   \* the write being served

FireReturns(s) ==
  IF s \in Slots THEN fires' = [fires EXCEPT ![s] = IdleFire] ELSE UNCHANGED fires

(* A snapshot is written: by create if there is no document, by update if  *)
(* there is one, by create_task's insert if there is none.                 *)
WriteSnapshot ==
  /\ queue # << >>
  /\ \/ Next1.op \in {"create", "insert"} /\ doc[Next1.name] = NoDoc
     \/ Next1.op = "update" /\ doc[Next1.name] # NoDoc
  /\ doc' = [doc EXCEPT ![Next1.name] = Next1.content]
  /\ writer' = [writer EXCEPT ![Next1.name] = Next1.by]
  /\ mem' = IF Next1.op = "insert" THEN [mem EXCEPT ![Next1.name] = Next1.by] ELSE mem
  /\ queue' = Tail(queue)
  /\ FireReturns(Next1.slot)
  /\ UNCHANGED <<heap, clock, reviewed, streak, ops, crashes, errors>>

(* Mutant: _save_task takes a conflict for success. *)
WriteConflictDrops ==
  /\ queue # << >>
  /\ Next1.op \in {"create", "insert"} /\ doc[Next1.name] # NoDoc
  /\ queue' = Tail(queue)
  /\ FireReturns(Next1.slot)
  /\ UNCHANGED <<heap, mem, doc, clock, reviewed, writer, streak, ops, crashes, errors>>

(* StoreConflict: _save_task turns to update and queues again; create_task *)
(* reports the duplicate and drops its object.                             *)
WriteConflict ==
  /\ queue # << >>
  /\ Next1.op \in {"create", "insert"} /\ doc[Next1.name] # NoDoc
  /\ queue' = IF Next1.op = "create"
              THEN Append(Tail(queue), [Next1 EXCEPT !.op = "update"])
              ELSE Tail(queue)
  /\ UNCHANGED <<heap, mem, doc, fires, clock, reviewed, writer, streak, ops, crashes, errors>>

WriteDelete ==
  /\ queue # << >>
  /\ Next1.op = "delete"
  /\ doc' = [doc EXCEPT ![Next1.name] = NoDoc]
  /\ writer' = [writer EXCEPT ![Next1.name] = NoObj]
  /\ queue' = Tail(queue)
  /\ UNCHANGED <<heap, mem, fires, clock, reviewed, streak, ops, crashes, errors>>

(* A write raises: StoreNotFound for an update without a document, or any  *)
(* error of SQLite.  Inside the try of _fire that is a failed callback.    *)
WriteFails ==
  /\ queue # << >>
  /\ \/ Next1.op = "update" /\ doc[Next1.name] = NoDoc /\ UNCHANGED errors
     \/ errors < MaxErrors /\ errors' = errors + 1
  /\ IF Next1.slot \in Slots /\ fires[Next1.slot].pc = "savingOk"
     THEN HandleException(Next1.slot, Tail(queue))
     ELSE /\ queue' = Tail(queue)
          /\ FireReturns(Next1.slot)
          /\ UNCHANGED heap
  /\ UNCHANGED <<mem, doc, clock, reviewed, writer, streak, ops, crashes>>

-----------------------------------------------------------------------------
(* The environment. *)

PassTime ==
  /\ clock < MaxClock
  /\ clock' = clock + 1
  /\ UNCHANGED <<heap, mem, doc, queue, fires, reviewed, writer, streak, ops, crashes, errors>>

(* The process dies and starts again: load_tasks makes an object of every  *)
(* document; what was queued or in flight is gone.                         *)
Crash ==
  /\ crashes < MaxCrashes
  /\ crashes' = crashes + 1
  /\ \E obj \in [Names -> Objs] :
       /\ \A n, m \in Names : obj[n] = obj[m] => n = m
       /\ mem' = [n \in Names |-> IF doc[n] = NoDoc THEN NoObj ELSE obj[n]]
       /\ heap' = [o \in Objs |->
                     IF \E n \in Names : doc[n] # NoDoc /\ obj[n] = o
                     THEN doc[CHOOSE n \in Names : obj[n] = o]
                     ELSE Blank]
  /\ writer' = mem'
  /\ queue' = << >>
  /\ fires' = [s \in Slots |-> IdleFire]
  /\ streak' = [o \in Objs |-> 0]
  /\ UNCHANGED <<doc, clock, reviewed, ops, errors>>

-----------------------------------------------------------------------------

Operator(n) ==
  \/ \E o \in Objs, p \in Perm : CreateTask(n, o, p)
  \/ \E p \in Perm, en \in BOOLEAN : UpdateTask(n, p, en)
  \/ ClearCondition(n)
  \/ \E p \in Perm : UpdateRejected(n, p)
  \/ ApproveTask(n)
  \/ RevokeTask(n)
  \/ DeleteTask(n)
  \/ RunNow(n)

FireStep(s) ==
  \/ BeginSkip(s) \/ BeginCondition(s) \/ BeginAgent(s)
  \/ ConditionWake(s) \/ ConditionSkip(s) \/ ConditionFailed(s)
  \/ AgentDone(s) \/ AgentTimeout(s) \/ AgentFailed(s)

StoreStep == WriteSnapshot \/ WriteConflict \/ WriteDelete \/ WriteFails

Next ==
  \/ \E n \in Names : Operator(n)
  \/ Tick
  \/ \E s \in Slots : FireStep(s)
  \/ StoreStep
  \/ PassTime
  \/ Crash

Spec == Init /\ [][Next]_vars

(* The loop ticks again 30 s after a tick is over, the condition script    *)
(* has a deadline, the callback runs under wait_for, and the store serves  *)
(* its lock's queue.  Nothing is assumed of the operator or of time.       *)
FairSpec ==
  /\ Spec
  /\ WF_vars(Tick)
  /\ \A s \in Slots : WF_vars(FireStep(s))
  /\ WF_vars(StoreStep)

-----------------------------------------------------------------------------
(* Properties. *)

Covered(grants, p) ==
  \E g \in grants :
    g.code = p.code /\ (p.net => g.net) /\ p.secrets \subseteq g.secrets

(* "Condition code requires operator approval before it will fire": every  *)
(* script that runs, runs with a text the operator approved for this       *)
(* schedule and with no more access than was approved with it - across     *)
(* edits, overlapping fires, saves of dropped objects and restarts.        *)
OnlyReviewedRuns ==
  \A s \in Slots :
    At(s, "condition") => Covered(reviewed[TaskOf(s).name], fires[s].ran)

(* What was acknowledged survives a restart: when no write is pending and  *)
(* none failed, a live task has a document, and the document it wrote last *)
(* says what the object says - but for an approval a rejected update took  *)
(* away in memory only.                                                    *)
StoreAgrees ==
  queue = << >> /\ errors = 0 =>
    \A n \in Names : mem[n] # NoObj =>
      /\ doc[n] # NoDoc
      /\ writer[n] = mem[n] =>
           LET t == ToDoc(heap[mem[n]]) IN
           /\ [t EXCEPT !.approved = doc[n].approved] = doc[n]
           /\ t.approved => doc[n].approved

(* While only the loop fires tasks, the third failed evaluation in a row   *)
(* switches the task off ("If a condition script fails 3 consecutive       *)
(* times, the task is auto-disabled").                                     *)
StrikesInARow(s) == streak[fires[s].obj] + 1

ThirdStrikeDisables ==
  [][\A s \in Slots : ConditionFailed(s) /\ StrikesInARow(s) = MaxStrikes
        => ~heap'[fires[s].obj].enabled]_vars

(* No due task is starved or retried for ever: whatever its script and the *)
(* agent do, and however slow the other tasks are, it is eventually run to *)
(* an end that advances last_run, or switched off, or deleted.             *)
Waiting(n) == mem[n] # NoObj /\ heap[mem[n]].enabled /\ Due(mem[n])
DueEventuallyServed == \A n \in Names : Waiting(n) ~> ~Waiting(n)

-----------------------------------------------------------------------------
(* What a docstring says and the code does not do. *)

(* "Delete a scheduled task": a deletion that the store carried out is not *)
(* undone by anything but a new creation.                                  *)
OnlyCreateMakesDocuments ==
  [][\A n \in Names : doc[n] = NoDoc /\ doc'[n] # NoDoc => Next1.op = "insert"]_vars
=============================================================================

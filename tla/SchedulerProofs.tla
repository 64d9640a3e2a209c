--------------------------- MODULE SchedulerProofs ---------------------------
(***************************************************************************)
(* Proofs about Scheduler for any set of names, objects, scripts and       *)
(* secrets and any bounds: its types, that only reviewed condition         *)
(* scripts run, that the store agrees with memory when nothing waits, and  *)
(* that the third strike switches a task off.                              *)
(*                                                                         *)
(* OnlyReviewedRuns is not inductive: a script runs from an object, the    *)
(* object may come from a document (after a restart), the document from a  *)
(* snapshot in the queue, and the snapshot from an object.  The invariant  *)
(* says of all four that an approval covers the permissions beside it.     *)
(***************************************************************************)
EXTENDS Scheduler, TLAPS, SequenceTheorems

SoundTask(t, r) == t.approved => Covered(r[t.name], t.perm)

SoundWrite(w, h, r) ==
  w.op # "delete" =>
    /\ w.content \in Task /\ w.content.name = w.name /\ SoundTask(w.content, r)
    /\ w.by \in Objs /\ h[w.by].name = w.name

ObjectsSound == \A o \in Objs : SoundTask(heap[o], reviewed)
DocsSound ==
  \A n \in Names : doc[n] # NoDoc => doc[n].name = n /\ SoundTask(doc[n], reviewed)
QueueSound == \A i \in 1..Len(queue) : SoundWrite(queue[i], heap, reviewed)
MemSound == \A n \in Names : mem[n] # NoObj => heap[mem[n]].name = n
FiresSound == \A s \in Slots : fires[s].pc # "idle" => fires[s].obj \in Objs

IInv == /\ TypeOK
        /\ ObjectsSound /\ DocsSound /\ QueueSound /\ MemSound /\ FiresSound
        /\ OnlyReviewedRuns

-----------------------------------------------------------------------------
(* Lemmas about the data. *)

(* A document is a task, of the same name, approved only if the task is,   *)
(* and then with the same permissions.                                     *)
LEMMA ToDocSound ==
  ASSUME NEW t \in Task
  PROVE  /\ ToDoc(t) \in Task /\ ToDoc(t).name = t.name
         /\ ToDoc(t).approved => t.approved /\ ToDoc(t).perm = t.perm
BY DEF ToDoc, Task, NoPerm, Perm

(* A new task is a task, not approved. *)
LEMMA NewTaskSound ==
  ASSUME NEW n \in Names, NEW p \in Perm, NEW now \in Nat
  PROVE  NewTask(n, p, now) \in Task /\ NewTask(n, p, now).name = n
         /\ ~NewTask(n, p, now).approved
BY DEF NewTask, Task

(* What a write queue holds after a write has joined it ...                *)
LEMMA AppendHolds ==
  ASSUME NEW q \in Seq(Write), NEW w \in Write
  PROVE  /\ Append(q, w) \in Seq(Write)
         /\ \A i \in 1..Len(Append(q, w)) :
              Append(q, w)[i] = w \/ \E j \in 1..Len(q) : Append(q, w)[i] = q[j]
BY AppendProperties

(* ... and after its head has left it.                                     *)
LEMMA TailHolds ==
  ASSUME NEW q \in Seq(Write), q # << >>
  PROVE  /\ Head(q) \in Write /\ Tail(q) \in Seq(Write)
         /\ \E j \in 1..Len(q) : Head(q) = q[j]
         /\ \A i \in 1..Len(Tail(q)) : \E j \in 1..Len(q) : Tail(q)[i] = q[j]
<1>1. Len(q) \in Nat \ {0} BY EmptySeq
<1>2. Head(q) = q[1] /\ 1 \in 1..Len(q) BY <1>1
<1>3. \A i \in 1..Len(Tail(q)) : i + 1 \in 1..Len(q) /\ Tail(q)[i] = q[i+1]
  BY <1>1, HeadTailProperties
<1> QED BY <1>1, <1>2, <1>3, HeadTailProperties

-----------------------------------------------------------------------------
(* Lemmas about steps: what keeps the parts of the invariant.              *)

(* Objects that change keep their name and stay sound: then the writes in  *)
(* the queue stay sound too.                                               *)
LEMMA HeapChange ==
  ASSUME IInv, reviewed' = reviewed, NEW o \in Objs, NEW t \in Task,
         t.name = heap[o].name, SoundTask(t, reviewed), heap' = [heap EXCEPT ![o] = t]
  PROVE  /\ heap' \in [Objs -> Task]
         /\ ObjectsSound'
         /\ \A w \in Write : SoundWrite(w, heap, reviewed) => SoundWrite(w, heap', reviewed')
         /\ \A x \in Objs : heap'[x].name = heap[x].name
<1>1. heap \in [Objs -> Task] BY DEF IInv, TypeOK
<1>2. \A x \in Objs : heap'[x] = IF x = o THEN t ELSE heap[x] BY <1>1
<1>3. ObjectsSound' BY <1>2 DEF IInv, ObjectsSound
<1>4. \A x \in Objs : heap'[x].name = heap[x].name BY <1>2
<1> QED BY <1>1, <1>3, <1>4 DEF SoundWrite

(* The write that saves an object is sound. *)
LEMMA SaveSound ==
  ASSUME NEW o \in Objs, NEW t \in Task, NEW slot \in Slots \cup {NoSlot},
         NEW r, SoundTask(t, r)
  PROVE  LET w == SaveOf(o, t, slot) IN
         /\ w \in Write
         /\ w.by = o /\ w.op = "create" /\ w.name = t.name
         /\ w.content \in Task /\ w.content.name = t.name
         /\ SoundTask(w.content, r)
<1>1. ToDoc(t) \in Task /\ ToDoc(t).name = t.name BY ToDocSound
<1>2. SoundTask(ToDoc(t), r) BY ToDocSound DEF SoundTask
<1>3. t.name \in Names BY DEF Task
<1> QED BY <1>1, <1>2, <1>3 DEF SaveOf, Write

(* A step that changes an object and saves it keeps the parts that speak   *)
(* of objects, documents, writes and _tasks.                               *)
LEMMA ChangeAndSaveKeeps ==
  ASSUME IInv, UNCHANGED <<mem, doc, reviewed>>,
         NEW q \in Seq(Write), \A i \in 1..Len(q) : SoundWrite(q[i], heap, reviewed),
         NEW o \in Objs, NEW t \in Task, NEW slot \in Slots \cup {NoSlot},
         t.name = heap[o].name, SoundTask(t, reviewed),
         heap' = [heap EXCEPT ![o] = t], queue' = Append(q, SaveOf(o, t, slot))
  PROVE  /\ heap' \in [Objs -> Task] /\ queue' \in Seq(Write)
         /\ ObjectsSound' /\ DocsSound' /\ QueueSound' /\ MemSound'
         /\ \A x \in Objs : heap'[x].name = heap[x].name
<1>1. /\ heap' \in [Objs -> Task] /\ ObjectsSound'
      /\ \A w \in Write : SoundWrite(w, heap, reviewed) => SoundWrite(w, heap', reviewed')
      /\ \A x \in Objs : heap'[x].name = heap[x].name
  BY HeapChange
<1> DEFINE w == SaveOf(o, t, slot)
<1>2. w \in Write /\ SoundWrite(w, heap', reviewed')
  <2>1. /\ w \in Write
        /\ w.by = o /\ w.op = "create" /\ w.name = t.name
        /\ w.content \in Task /\ w.content.name = t.name
        /\ SoundTask(w.content, reviewed)
    BY SaveSound
  <2> QED BY <1>1, <2>1 DEF SoundWrite
<1>3. queue' \in Seq(Write) /\ QueueSound'
  <2> HIDE DEF w
  <2>1. queue' = Append(q, w) BY DEF w
  <2>2. \A j \in 1..Len(q) : q[j] \in Write BY ElementOfSeq
  <2>3. \A j \in 1..Len(q) : SoundWrite(q[j], heap', reviewed')
    BY <1>1, <2>2
  <2>4. /\ queue' \in Seq(Write)
        /\ \A i \in 1..Len(queue') :
             queue'[i] = w \/ \E j \in 1..Len(q) : queue'[i] = q[j]
    BY <1>2, <2>1, AppendHolds
  <2>5. \A i \in 1..Len(queue') : SoundWrite(queue'[i], heap', reviewed')
    BY <1>2, <2>3, <2>4
  <2> QED BY <2>4, <2>5 DEF QueueSound
<1>4. DocsSound' BY DEF IInv, DocsSound
<1>5. MemSound' BY <1>1 DEF IInv, MemSound, TypeOK
<1> QED BY <1>1, <1>3, <1>4, <1>5

-----------------------------------------------------------------------------
(* The fires. *)

FireParts == fires \in [Slots -> Fire] /\ FiresSound /\ OnlyReviewedRuns

(* Objects keep their names, approvals grow, and a fire that changes ends  *)
(* up idle, or waiting for something else than a script.                   *)
LEMMA FiresKeep ==
  ASSUME IInv, NEW f \in Fire, NEW s \in Slots,
         f.pc # "condition", f.pc # "idle" => f.obj \in Objs,
         fires' = [fires EXCEPT ![s] = f],
         \A x \in Objs : heap'[x].name = heap[x].name,
         \A n \in Names : reviewed[n] \subseteq reviewed'[n],
         heap \in [Objs -> Task]
  PROVE  FireParts'
<1>1. fires \in [Slots -> Fire] BY DEF IInv, TypeOK
<1>2. fires' \in [Slots -> Fire] /\ \A x \in Slots : fires'[x] = IF x = s THEN f ELSE fires[x]
  BY <1>1
<1>3. FiresSound' BY <1>2 DEF IInv, FiresSound
<1>4. ASSUME NEW x \in Slots, fires'[x].pc = "condition"
      PROVE  Covered(reviewed'[heap'[fires'[x].obj].name], fires'[x].ran)
  <2>1. fires'[x] = fires[x] /\ fires[x].obj \in Objs
    BY <1>2, <1>4 DEF IInv, FiresSound
  <2>2. heap[fires[x].obj].name \in Names BY <2>1 DEF Task
  <2>3. Covered(reviewed[heap[fires[x].obj].name], fires[x].ran)
    BY <1>4, <2>1 DEF IInv, OnlyReviewedRuns, At, TaskOf
  <2> QED BY <2>1, <2>2, <2>3 DEF Covered
<1> QED BY <1>2, <1>3, <1>4 DEF FireParts, OnlyReviewedRuns, At, TaskOf

(* The same when no fire changes. *)
LEMMA FiresStay ==
  ASSUME IInv, fires' = fires,
         \A s \in Slots : fires[s].pc # "idle" =>
            heap'[fires[s].obj].name = heap[fires[s].obj].name,
         \A n \in Names : reviewed[n] \subseteq reviewed'[n],
         heap \in [Objs -> Task]
  PROVE  FireParts'
<1>1. ASSUME NEW x \in Slots, fires[x].pc = "condition"
      PROVE  Covered(reviewed'[heap'[fires[x].obj].name], fires[x].ran)
  <2>1. fires[x].obj \in Objs BY <1>1 DEF IInv, FiresSound
  <2>2. heap[fires[x].obj].name \in Names BY <2>1 DEF Task
  <2>3. Covered(reviewed[heap[fires[x].obj].name], fires[x].ran)
    BY <1>1 DEF IInv, OnlyReviewedRuns, At, TaskOf
  <2> QED BY <1>1, <2>2, <2>3 DEF Covered
<1> QED BY <1>1 DEF FireParts, IInv, TypeOK, FiresSound, OnlyReviewedRuns, At, TaskOf

(* A fire that is under way works on a task; what it makes of the task has *)
(* the task's name and is approved only if the task is.                    *)
LEMMA FireOutcomes ==
  ASSUME IInv, NEW s \in Slots, fires[s].pc # "idle"
  PROVE  /\ fires[s].obj \in Objs /\ fires[s] \in Fire /\ TaskOf(s) \in Task
         /\ \A t \in {Advanced(s), Completed(s), TimedOut(s),
                      [Advanced(s) EXCEPT !.enabled = FALSE, !.condRetry = 0]} :
              t \in Task /\ t.name = TaskOf(s).name /\ SoundTask(t, reviewed)
<1>1. fires[s].obj \in Objs /\ fires[s] \in Fire /\ TaskOf(s) \in Task /\ fires[s].now \in Nat
  BY DEF IInv, TypeOK, FiresSound, TaskOf, Fire
<1>2. SoundTask(TaskOf(s), reviewed) BY <1>1 DEF IInv, ObjectsSound, TaskOf
<1>3. \A t \in {Advanced(s), Completed(s), TimedOut(s),
                [Advanced(s) EXCEPT !.enabled = FALSE, !.condRetry = 0]} :
        /\ t \in Task /\ t.name = TaskOf(s).name
        /\ t.approved = TaskOf(s).approved /\ t.perm = TaskOf(s).perm
  <2> DEFINE Like(t) == /\ t \in Task /\ t.name = TaskOf(s).name
                        /\ t.approved = TaskOf(s).approved /\ t.perm = TaskOf(s).perm
  <2>1. Like(Advanced(s)) BY <1>1 DEF Advanced, Task
  <2> HIDE DEF Like
  <2>2. Like(TimedOut(s)) BY <2>1 DEF TimedOut, Task, Like
  <2>3. Like(Completed(s)) BY <2>1 DEF Completed, Task, Like
  <2>4. Like([Advanced(s) EXCEPT !.enabled = FALSE, !.condRetry = 0])
    BY <2>1 DEF Task, Like
  <2> QED BY <2>1, <2>2, <2>3, <2>4 DEF Like
<1> QED BY <1>1, <1>2, <1>3 DEF SoundTask

(* Goto and the return of a fire are changes FiresKeep speaks of.          *)
LEMMA GotoFire ==
  ASSUME IInv, NEW s \in Slots, fires[s].pc # "idle",
         NEW pc \in {"agent", "saving", "savingOk"}
  PROVE  LET f == [[fires[s] EXCEPT !.pc = pc] EXCEPT !.ran = NoPerm] IN
         /\ f \in Fire /\ f.pc # "condition" /\ f.obj \in Objs
         /\ Goto(s, pc) <=> fires' = [fires EXCEPT ![s] = f]
<1>1. fires[s].obj \in Objs /\ fires[s] \in Fire BY FireOutcomes
<1>2. NoPerm \in Perm BY DEF NoPerm, Perm
<1> QED BY <1>1, <1>2 DEF Goto, Fire, IInv, TypeOK

LEMMA IdleFireSound == IdleFire \in Fire /\ IdleFire.pc = "idle"
BY DEF IdleFire, Fire, NoPerm, Perm

-----------------------------------------------------------------------------
(* Steps of a fire. *)

Outcomes(s) == {Advanced(s), Completed(s), TimedOut(s),
                [Advanced(s) EXCEPT !.enabled = FALSE, !.condRetry = 0]}

(* The fire saves an outcome and waits for the store; q is the queue it    *)
(* joins.                                                                  *)
LEMMA FireSaves ==
  ASSUME IInv, NEW s \in Slots, fires[s].pc # "idle",
         NEW t \in Outcomes(s), NEW pc \in {"saving", "savingOk"},
         NEW q \in Seq(Write), \A i \in 1..Len(q) : SoundWrite(q[i], heap, reviewed),
         heap' = [heap EXCEPT ![fires[s].obj] = t],
         queue' = Append(q, SaveOf(fires[s].obj, t, s)),
         Goto(s, pc), UNCHANGED <<mem, doc, clock, reviewed, writer, ops, crashes>>,
         streak' \in [Objs -> Nat], errors' \in Nat
  PROVE  IInv'
<1>1. /\ fires[s].obj \in Objs /\ t \in Task /\ t.name = heap[fires[s].obj].name
      /\ SoundTask(t, reviewed)
  BY FireOutcomes DEF Outcomes, TaskOf
<1>2. /\ heap' \in [Objs -> Task] /\ queue' \in Seq(Write)
      /\ ObjectsSound' /\ DocsSound' /\ QueueSound' /\ MemSound'
      /\ \A x \in Objs : heap'[x].name = heap[x].name
  BY <1>1, ChangeAndSaveKeeps
<1>3. FireParts'
  <2> DEFINE f == [[fires[s] EXCEPT !.pc = pc] EXCEPT !.ran = NoPerm]
  <2>1. f \in Fire /\ f.pc # "condition" /\ f.obj \in Objs /\ fires' = [fires EXCEPT ![s] = f]
    BY GotoFire
  <2>2. heap \in [Objs -> Task] /\ \A n \in Names : reviewed[n] \subseteq reviewed'[n]
    BY DEF IInv, TypeOK
  <2> HIDE DEF f
  <2> QED BY <1>2, <2>1, <2>2, FiresKeep
<1> QED BY <1>2, <1>3 DEF IInv, TypeOK, FireParts

(* A counter of the object changes and the fire returns.                   *)
LEMMA FireCounts ==
  ASSUME IInv, NEW s \in Slots, fires[s].pc # "idle", NEW t \in Task,
         t.name = TaskOf(s).name, t.approved = TaskOf(s).approved,
         t.perm = TaskOf(s).perm,
         heap' = [heap EXCEPT ![fires[s].obj] = t],
         NEW q \in Seq(Write), \A i \in 1..Len(q) : SoundWrite(q[i], heap, reviewed),
         queue' = q, fires' = [fires EXCEPT ![s] = IdleFire],
         UNCHANGED <<mem, doc, clock, reviewed, writer, ops, crashes>>,
         streak' \in [Objs -> Nat], errors' \in Nat
  PROVE  IInv'
<1>1. fires[s].obj \in Objs /\ TaskOf(s) = heap[fires[s].obj]
  BY FireOutcomes DEF TaskOf
<1>2. SoundTask(t, reviewed) BY <1>1 DEF IInv, ObjectsSound, SoundTask
<1>3. /\ heap' \in [Objs -> Task] /\ ObjectsSound'
      /\ \A w \in Write : SoundWrite(w, heap, reviewed) => SoundWrite(w, heap', reviewed')
      /\ \A x \in Objs : heap'[x].name = heap[x].name
  BY <1>1, <1>2, HeapChange
<1>4. QueueSound' BY <1>3, ElementOfSeq DEF QueueSound
<1>5. FireParts' BY <1>3, IdleFireSound, FiresKeep DEF IInv, TypeOK
<1>6. DocsSound' /\ MemSound'
  BY <1>3 DEF IInv, DocsSound, MemSound, TypeOK
<1> QED BY <1>3, <1>4, <1>5, <1>6 DEF IInv, TypeOK, FireParts

(* except Exception, in _fire or in the save that follows a success.       *)
LEMMA ExceptionStep ==
  ASSUME IInv, NEW s \in Slots, fires[s].pc # "idle",
         NEW q \in Seq(Write), \A i \in 1..Len(q) : SoundWrite(q[i], heap, reviewed),
         HandleException(s, q),
         UNCHANGED <<mem, doc, clock, reviewed, writer, streak, ops, crashes>>,
         errors' \in Nat
  PROVE  IInv'
<1>1. streak' \in [Objs -> Nat] BY DEF IInv, TypeOK
<1>2. CASE heap[fires[s].obj].retry + 1 >= MaxStrikes
  <2>1. TimedOut(s) \in Outcomes(s) BY DEF Outcomes
  <2> QED BY <1>1, <1>2, <2>1, FireSaves DEF HandleException
<1>3. CASE ~(heap[fires[s].obj].retry + 1 >= MaxStrikes)
  <2> DEFINE t == [heap[fires[s].obj] EXCEPT !.retry = @ + 1]
  <2>1. /\ t \in Task /\ t.name = TaskOf(s).name /\ t.approved = TaskOf(s).approved
        /\ t.perm = TaskOf(s).perm
    <3>1. heap[fires[s].obj] \in Task /\ TaskOf(s) = heap[fires[s].obj]
      BY FireOutcomes DEF TaskOf
    <3>2. ASSUME NEW u \in Task
          PROVE  LET v == [u EXCEPT !.retry = @ + 1] IN
                 /\ v \in Task /\ v.name = u.name /\ v.approved = u.approved
                 /\ v.perm = u.perm
      BY DEF Task
    <3> QED BY <3>1, <3>2
  <2>2. /\ heap' = [heap EXCEPT ![fires[s].obj] = t]
        /\ queue' = q /\ fires' = [fires EXCEPT ![s] = IdleFire]
    BY <1>3 DEF HandleException
  <2> QED BY <1>1, <2>1, <2>2, FireCounts
<1> QED BY <1>2, <1>3

LEMMA FireStepInv == ASSUME IInv, NEW s \in Slots, FireStep(s) PROVE IInv'
<1> USE DEF At
<1>1. /\ \A i \in 1..Len(queue) : SoundWrite(queue[i], heap, reviewed)
      /\ queue \in Seq(Write) /\ streak \in [Objs -> Nat] /\ errors \in Nat
      /\ heap \in [Objs -> Task] /\ fires \in [Slots -> Fire]
  BY DEF IInv, QueueSound, TypeOK
<1>2. CASE BeginSkip(s)
  <2>1. Advanced(s) \in Outcomes(s) BY DEF Outcomes
  <2> QED BY <1>1, <1>2, <2>1, FireSaves DEF BeginSkip, ChangeAndSave
<1>3. CASE BeginCondition(s)
  <2> DEFINE f == [[fires[s] EXCEPT !.pc = "condition"] EXCEPT !.ran = TaskOf(s).perm]
  <2>1. fires[s].obj \in Objs /\ TaskOf(s) \in Task /\ TaskOf(s) = heap[fires[s].obj]
    BY <1>3, FireOutcomes DEF BeginCondition, TaskOf
  <2>2. f \in Fire /\ f.obj = fires[s].obj /\ f.pc = "condition" /\ f.ran = TaskOf(s).perm
    BY <1>1, <2>1 DEF Fire, Task
  <2>3. fires' = [fires EXCEPT ![s] = f] BY <1>1, <1>3 DEF BeginCondition
  <2>4. Covered(reviewed[heap[f.obj].name], f.ran)
    BY <1>3, <2>1, <2>2 DEF BeginCondition, IInv, ObjectsSound, SoundTask
  <2>5. \A x \in Slots : fires'[x] = IF x = s THEN f ELSE fires[x] BY <1>1, <2>3
  <2>6. UNCHANGED <<heap, mem, doc, queue, clock, reviewed, writer, streak, ops, crashes, errors>>
    BY <1>3 DEF BeginCondition
  <2> HIDE DEF f
  <2>7. FiresSound' BY <2>1, <2>2, <2>5 DEF IInv, FiresSound
  <2>8. OnlyReviewedRuns'
    BY <2>2, <2>4, <2>5, <2>6 DEF IInv, OnlyReviewedRuns, TaskOf
  <2>9. fires' \in [Slots -> Fire] BY <1>1, <2>2, <2>3
  <2> QED BY <2>6, <2>7, <2>8, <2>9
       DEF IInv, TypeOK, ObjectsSound, DocsSound, QueueSound, MemSound
<1>4. CASE BeginAgent(s) \/ ConditionWake(s)
  <2>1. /\ fires[s].pc # "idle" /\ Goto(s, "agent")
        /\ UNCHANGED <<heap, mem, doc, queue, clock, reviewed, writer, ops, crashes, errors>>
    BY <1>4 DEF BeginAgent, ConditionWake
  <2>2. FireParts' BY <1>1, <2>1, GotoFire, FiresKeep
  <2>3. streak' \in [Objs -> Nat] BY <1>1, <1>4 DEF BeginAgent, ConditionWake
  <2> QED BY <2>1, <2>2, <2>3
       DEF IInv, TypeOK, ObjectsSound, DocsSound, QueueSound, MemSound, FireParts
<1>5. CASE ConditionSkip(s)
  <2>1. Completed(s) \in Outcomes(s) BY DEF Outcomes
  <2>2. streak' \in [Objs -> Nat] BY <1>1, <1>5 DEF ConditionSkip
  <2> QED BY <1>1, <1>5, <2>1, <2>2, FireSaves DEF ConditionSkip, ChangeAndSave
<1>6. CASE ConditionFailed(s)
  <2>1. streak' \in [Objs -> Nat]
    BY <1>1, <1>6 DEF ConditionFailed
  <2>2. CASE heap[fires[s].obj].condRetry + 1 >= MaxStrikes
    <3>1. [Advanced(s) EXCEPT !.enabled = FALSE, !.condRetry = 0] \in Outcomes(s)
      BY DEF Outcomes
    <3> QED BY <1>1, <1>6, <2>1, <2>2, <3>1, FireSaves DEF ConditionFailed, ChangeAndSave
  <2>3. CASE ~(heap[fires[s].obj].condRetry + 1 >= MaxStrikes)
    <3> DEFINE t == [heap[fires[s].obj] EXCEPT !.condRetry = @ + 1]
    <3>1. /\ t \in Task /\ t.name = TaskOf(s).name /\ t.approved = TaskOf(s).approved
          /\ t.perm = TaskOf(s).perm
      <4>1. heap[fires[s].obj] \in Task /\ TaskOf(s) = heap[fires[s].obj]
        BY <1>6, FireOutcomes DEF TaskOf, ConditionFailed
      <4> QED BY <4>1 DEF Task
    <3>2. /\ heap' = [heap EXCEPT ![fires[s].obj] = t]
          /\ queue' = queue /\ fires' = [fires EXCEPT ![s] = IdleFire]
      BY <1>6, <2>3 DEF ConditionFailed
    <3>3. /\ fires[s].pc # "idle"
          /\ UNCHANGED <<mem, doc, clock, reviewed, writer, ops, crashes, errors>>
      BY <1>6 DEF ConditionFailed
    <3> QED BY <1>1, <2>1, <3>1, <3>2, <3>3, FireCounts
  <2> QED BY <2>2, <2>3
<1>7. CASE AgentDone(s)
  <2>1. Completed(s) \in Outcomes(s) BY DEF Outcomes
  <2> QED BY <1>1, <1>7, <2>1, FireSaves DEF AgentDone, ChangeAndSave
<1>8. CASE AgentTimeout(s)
  <2>1. TimedOut(s) \in Outcomes(s) BY DEF Outcomes
  <2> QED BY <1>1, <1>8, <2>1, FireSaves DEF AgentTimeout, ChangeAndSave
<1>9. CASE AgentFailed(s)
  BY <1>1, <1>9, ExceptionStep DEF AgentFailed
<1> QED BY <1>2, <1>3, <1>4, <1>5, <1>6, <1>7, <1>8, <1>9 DEF FireStep

-----------------------------------------------------------------------------
(* Calls of the operator and the agent. *)

(* A call that changes the task's object, and perhaps saves it.            *)
LEMMA CallChanges ==
  ASSUME IInv, NEW n \in Names, mem[n] # NoObj, NEW t \in Task,
         t.name = heap[mem[n]].name, SoundTask(t, reviewed),
         heap' = [heap EXCEPT ![mem[n]] = t],
         \/ queue' = Append(queue, SaveOf(mem[n], t, NoSlot))
         \/ queue' = queue,
         SpendOp,
         UNCHANGED <<mem, doc, fires, clock, reviewed, writer, streak, crashes, errors>>
  PROVE  IInv'
<1>1. /\ mem[n] \in Objs /\ queue \in Seq(Write) /\ heap \in [Objs -> Task]
      /\ \A i \in 1..Len(queue) : SoundWrite(queue[i], heap, reviewed)
      /\ ops' \in Nat
  BY DEF IInv, TypeOK, QueueSound, SpendOp
<1>2. /\ heap' \in [Objs -> Task] /\ queue' \in Seq(Write)
      /\ ObjectsSound' /\ DocsSound' /\ QueueSound' /\ MemSound'
      /\ \A x \in Objs : heap'[x].name = heap[x].name
  <2>1. CASE queue' = Append(queue, SaveOf(mem[n], t, NoSlot))
    BY <1>1, <2>1, ChangeAndSaveKeeps
  <2>2. CASE queue' = queue
    <3>1. /\ heap' \in [Objs -> Task] /\ ObjectsSound'
          /\ \A w \in Write : SoundWrite(w, heap, reviewed) => SoundWrite(w, heap', reviewed')
          /\ \A x \in Objs : heap'[x].name = heap[x].name
      BY <1>1, HeapChange
    <3>2. QueueSound' BY <1>1, <2>2, <3>1, ElementOfSeq DEF QueueSound
    <3>3. DocsSound' /\ MemSound'
      BY <3>1 DEF IInv, DocsSound, MemSound, TypeOK
    <3> QED BY <1>1, <2>2, <3>1, <3>2, <3>3
  <2> QED BY <2>1, <2>2
<1>3. FireParts'
  <2>1. \A s \in Slots : fires[s].pc # "idle" => fires[s].obj \in Objs
    BY DEF IInv, FiresSound
  <2>2. \A x \in Names : reviewed[x] \subseteq reviewed'[x] OBVIOUS
  <2> QED BY <1>1, <1>2, <2>1, <2>2, FiresStay
<1> QED BY <1>1, <1>2, <1>3 DEF IInv, TypeOK, FireParts

(* create_task: the object was nobody's, so no write and no fire sees it   *)
(* change its name.                                                        *)
LEMMA CreateInv ==
  ASSUME IInv, NEW n \in Names, NEW o \in Objs, NEW p \in Perm, CreateTask(n, o, p)
  PROVE  IInv'
<1> DEFINE t == NewTask(n, p, clock)
           w == [SaveOf(o, t, NoSlot) EXCEPT !.op = "insert"]
<1>1. /\ queue \in Seq(Write) /\ heap \in [Objs -> Task] /\ clock \in Nat
      /\ mem \in [Names -> Objs \cup {NoObj}] /\ ops' \in Nat /\ streak' \in [Objs -> Nat]
  BY DEF CreateTask, IInv, TypeOK, SpendOp
<1>2. t \in Task /\ t.name = n /\ ~t.approved BY <1>1, NewTaskSound
<1>3. /\ \A x \in Names : mem[x] # o
      /\ \A s \in Slots : fires[s].obj # o
      /\ \A i \in 1..Len(queue) : queue[i].by # o
  BY DEF CreateTask, Free, Referenced
<1>4. /\ heap' = [heap EXCEPT ![o] = t] /\ queue' = Append(queue, w)
      /\ UNCHANGED <<mem, doc, fires, clock, reviewed, writer, crashes, errors>>
  BY DEF CreateTask
<1> HIDE DEF t
<1>5. SoundTask(t, reviewed) BY <1>2 DEF SoundTask
<1>6. \A x \in Objs : heap'[x] = IF x = o THEN t ELSE heap[x] BY <1>1, <1>4
<1>7. w \in Write /\ SoundWrite(w, heap', reviewed')
  <2> DEFINE v == SaveOf(o, t, NoSlot)
  <2>1. /\ v \in Write /\ v.by = o /\ v.name = n /\ v.content \in Task
        /\ v.content.name = n /\ SoundTask(v.content, reviewed)
    BY <1>2, <1>5, SaveSound
  <2> HIDE DEF v
  <2>2. w = [v EXCEPT !.op = "insert"] BY DEF v
  <2>3. /\ w \in Write /\ w.by = o /\ w.name = n /\ w.content = v.content
    BY <2>1, <2>2 DEF Write
  <2>4. heap'[w.by].name = w.name BY <1>2, <1>6, <2>3
  <2> HIDE DEF w
  <2> QED BY <1>4, <2>1, <2>3, <2>4 DEF SoundWrite
<1> HIDE DEF w
<1>8. queue' \in Seq(Write) /\ QueueSound'
  <2>1. \A j \in 1..Len(queue) : queue[j] \in Write /\ SoundWrite(queue[j], heap', reviewed')
    BY <1>1, <1>3, <1>4, <1>6, ElementOfSeq DEF IInv, QueueSound, SoundWrite
  <2>2. /\ queue' \in Seq(Write)
        /\ \A i \in 1..Len(queue') :
             queue'[i] = w \/ \E j \in 1..Len(queue) : queue'[i] = queue[j]
    BY <1>1, <1>4, <1>7, AppendHolds
  <2>3. \A i \in 1..Len(queue') : SoundWrite(queue'[i], heap', reviewed')
    BY <1>7, <2>1, <2>2
  <2> QED BY <2>2, <2>3 DEF QueueSound
<1>9. ObjectsSound' /\ DocsSound' /\ MemSound'
  BY <1>1, <1>3, <1>4, <1>5, <1>6 DEF IInv, ObjectsSound, DocsSound, MemSound
<1>10. FireParts'
  <2>1. \A s \in Slots : fires[s].pc # "idle" => heap'[fires[s].obj].name = heap[fires[s].obj].name
    BY <1>3, <1>6 DEF IInv, FiresSound
  <2> QED BY <1>1, <1>4, <2>1, FiresStay
<1>11. heap' \in [Objs -> Task] BY <1>1, <1>2, <1>4
<1> QED BY <1>1, <1>4, <1>8, <1>9, <1>10, <1>11 DEF IInv, TypeOK, FireParts

(* An edit keeps the approval only if the approved permissions cover the   *)
(* new ones: the reason for ResetsApproval.                                *)
LEMMA EditStaysCovered ==
  ASSUME NEW t \in Task, NEW p \in Perm, NEW r, SoundTask(t, r),
         NEW u \in Task, u.name = t.name, u.perm \in {t.perm, p},
         u.approved => t.approved /\ ~ResetsApproval(t.perm, p)
  PROVE  SoundTask(u, r)
<1>1. SUFFICES ASSUME u.approved PROVE Covered(r[u.name], u.perm) BY DEF SoundTask
<1>2. PICK g \in r[t.name] :
        g.code = t.perm.code /\ (t.perm.net => g.net) /\ t.perm.secrets \subseteq g.secrets
  BY <1>1 DEF SoundTask, Covered
<1>3. /\ p.code = t.perm.code /\ (p.net => t.perm.net)
      /\ p.secrets \subseteq t.perm.secrets
  BY <1>1 DEF ResetsApproval, Perm, Task
<1> QED BY <1>2, <1>3 DEF Covered

LEMMA UpdateInv ==
  ASSUME IInv, NEW n \in Names, NEW p \in Perm,
         \/ \E en \in BOOLEAN : UpdateTask(n, p, en)
         \/ UpdateRejected(n, p)
  PROVE  IInv'
<1>1. /\ mem[n] # NoObj /\ mem[n] \in Objs /\ heap[mem[n]] \in Task
      /\ SoundTask(heap[mem[n]], reviewed)
  BY DEF UpdateTask, UpdateRejected, IInv, TypeOK, ObjectsSound
<1>2. CASE \E en \in BOOLEAN : UpdateTask(n, p, en)
  <2>1. PICK en \in BOOLEAN : UpdateTask(n, p, en) BY <1>2
  <2> DEFINE u == Updated(heap[mem[n]], p, en)
  <2>2. /\ u \in Task /\ u.name = heap[mem[n]].name /\ u.perm = p
        /\ u.approved => heap[mem[n]].approved /\ ~ResetsApproval(heap[mem[n]].perm, p)
    BY <1>1 DEF Updated, Task, ResetsApproval
  <2>3. SoundTask(u, reviewed) BY <1>1, <2>2, EditStaysCovered
  <2> QED BY <1>1, <2>1, <2>2, <2>3, CallChanges DEF UpdateTask, ChangeAndSave
<1>3. CASE UpdateRejected(n, p)
  <2> DEFINE u == [heap[mem[n]] EXCEPT
                     !.approved = @ /\ ~ResetsApproval(heap[mem[n]].perm, p)]
  <2>1. /\ u \in Task /\ u.name = heap[mem[n]].name /\ u.perm = heap[mem[n]].perm
        /\ u.approved => heap[mem[n]].approved /\ ~ResetsApproval(heap[mem[n]].perm, p)
    BY <1>1 DEF Task, ResetsApproval
  <2>2. SoundTask(u, reviewed) BY <1>1, <2>1, EditStaysCovered
  <2>3. heap' = [heap EXCEPT ![mem[n]] = u] BY <1>3 DEF UpdateRejected
  <2>4. queue' = queue /\ SpendOp
        /\ UNCHANGED <<mem, doc, fires, clock, reviewed, writer, streak, crashes, errors>>
    BY <1>3 DEF UpdateRejected
  <2> HIDE DEF u
  <2> QED BY <1>1, <2>1, <2>2, <2>3, <2>4, CallChanges
<1> QED BY <1>2, <1>3

(* approve_task: what the object holds becomes a reviewed permission.      *)
LEMMA ApproveInv ==
  ASSUME IInv, NEW n \in Names, ApproveTask(n)
  PROVE  IInv'
<1> DEFINE o == mem[n]
           t == [heap[o] EXCEPT !.approved = TRUE]
           w == SaveOf(o, t, NoSlot)
<1>1. /\ o \in Objs /\ heap[o] \in Task /\ heap[o].name = n /\ heap \in [Objs -> Task]
      /\ queue \in Seq(Write) /\ ops' \in Nat /\ reviewed \in [Names -> SUBSET Perm]
  BY DEF ApproveTask, SpendOp, IInv, TypeOK, MemSound
<1>2. /\ heap' = [heap EXCEPT ![o] = t] /\ queue' = Append(queue, w)
      /\ reviewed' = [reviewed EXCEPT ![n] = @ \cup {heap[o].perm}]
      /\ UNCHANGED <<mem, doc, fires, clock, writer, streak, crashes, errors>>
  BY DEF ApproveTask, ChangeAndSave
<1>3. /\ t \in Task /\ t.name = n /\ t.perm = heap[o].perm /\ t.perm \in Perm
  BY <1>1 DEF Task
<1> HIDE DEF t, o
<1>4. /\ reviewed' \in [Names -> SUBSET Perm] /\ t.perm \in reviewed'[n]
      /\ \A x \in Names : reviewed[x] \subseteq reviewed'[x]
  BY <1>1, <1>2, <1>3
<1>5. \A u \in Task : SoundTask(u, reviewed) => SoundTask(u, reviewed')
  BY <1>4 DEF SoundTask, Covered, Task
<1>6. SoundTask(t, reviewed') BY <1>3, <1>4 DEF SoundTask, Covered
<1>7. \A x \in Objs : heap'[x] = IF x = o THEN t ELSE heap[x] BY <1>1, <1>2
<1>8. \A x \in Objs : heap'[x].name = heap[x].name BY <1>1, <1>3, <1>7
<1>9. ObjectsSound' BY <1>1, <1>5, <1>6, <1>7 DEF IInv, ObjectsSound
<1>10. DocsSound' /\ MemSound'
  <2>1. doc' = doc /\ mem' = mem BY <1>2
  <2>2. \A x \in Names : doc[x] # NoDoc =>
          doc[x] \in Task /\ doc[x].name = x /\ SoundTask(doc[x], reviewed)
    BY DEF IInv, DocsSound, TypeOK
  <2>3. \A x \in Names : mem[x] # NoObj => mem[x] \in Objs /\ heap[mem[x]].name = x
    BY DEF IInv, MemSound, TypeOK
  <2>4. DocsSound' BY <1>5, <2>1, <2>2 DEF DocsSound
  <2>5. MemSound' BY <1>8, <2>1, <2>3 DEF MemSound
  <2> QED BY <2>4, <2>5
<1>11. queue' \in Seq(Write) /\ QueueSound'
  <2>1. /\ w \in Write /\ w.by = o /\ w.name = n /\ w.content \in Task
        /\ w.content.name = n /\ SoundTask(w.content, reviewed')
    BY <1>1, <1>3, <1>6, SaveSound
  <2> HIDE DEF w
  <2>2. SoundWrite(w, heap', reviewed') BY <1>1, <1>8, <2>1 DEF SoundWrite
  <2>3. \A j \in 1..Len(queue) : queue[j] \in Write /\ SoundWrite(queue[j], heap', reviewed')
    BY <1>1, <1>5, <1>8, ElementOfSeq DEF IInv, QueueSound, SoundWrite
  <2>4. /\ queue' \in Seq(Write)
        /\ \A i \in 1..Len(queue') :
             queue'[i] = w \/ \E j \in 1..Len(queue) : queue'[i] = queue[j]
    BY <1>1, <1>2, <2>1, AppendHolds
  <2>5. \A i \in 1..Len(queue') : SoundWrite(queue'[i], heap', reviewed')
    BY <2>2, <2>3, <2>4
  <2> QED BY <2>4, <2>5 DEF QueueSound
<1>12. FireParts'
  BY <1>1, <1>2, <1>4, <1>8, FiresStay DEF IInv, FiresSound
<1> QED BY <1>1, <1>2, <1>3, <1>4, <1>9, <1>10, <1>11, <1>12 DEF IInv, TypeOK, FireParts

LEMMA OperatorInv ==
  ASSUME IInv, NEW n \in Names, Operator(n)
  PROVE  IInv'
<1>1. CASE \E o \in Objs, p \in Perm : CreateTask(n, o, p) BY <1>1, CreateInv
<1>2. CASE \/ \E p \in Perm, en \in BOOLEAN : UpdateTask(n, p, en)
           \/ \E p \in Perm : UpdateRejected(n, p)
  BY <1>2, UpdateInv
<1>3. CASE ClearCondition(n)
  <2>1. heap[mem[n]].perm \in Perm /\ heap[mem[n]].enabled \in BOOLEAN
    BY <1>3 DEF ClearCondition, IInv, TypeOK, Task
  <2> QED BY <1>3, <2>1, UpdateInv DEF ClearCondition
<1>4. CASE ApproveTask(n) BY <1>4, ApproveInv
<1>5. CASE RevokeTask(n)
  <2> DEFINE t == [heap[mem[n]] EXCEPT !.approved = FALSE]
  <2>1. heap[mem[n]] \in Task BY <1>5 DEF RevokeTask, IInv, TypeOK
  <2>2. t \in Task /\ t.name = heap[mem[n]].name /\ SoundTask(t, reviewed)
    BY <2>1 DEF Task, SoundTask
  <2> QED BY <1>5, <2>2, CallChanges DEF RevokeTask, ChangeAndSave
<1>6. CASE DeleteTask(n)
  <2> DEFINE w == [op |-> "delete", name |-> n, content |-> NoDoc,
                   by |-> NoObj, slot |-> NoSlot]
  <2>1. /\ queue' = Append(queue, w) /\ ops' \in Nat /\ queue \in Seq(Write)
        /\ mem' \in [Names -> Objs \cup {NoObj}] /\ MemSound'
        /\ UNCHANGED <<heap, doc, fires, clock, reviewed, writer, streak, crashes, errors>>
    BY <1>6 DEF DeleteTask, SpendOp, IInv, TypeOK, MemSound
  <2>2. w \in Write /\ SoundWrite(w, heap, reviewed) BY DEF Write, SoundWrite
  <2> HIDE DEF w
  <2>3. /\ queue' \in Seq(Write)
        /\ \A i \in 1..Len(queue') :
             queue'[i] = w \/ \E j \in 1..Len(queue) : queue'[i] = queue[j]
    BY <2>1, <2>2, AppendHolds
  <2>4. QueueSound' BY <2>1, <2>2, <2>3 DEF IInv, QueueSound
  <2>5. FireParts' BY <2>1, FiresStay DEF IInv, TypeOK
  <2> QED BY <2>1, <2>3, <2>4, <2>5 DEF IInv, TypeOK, ObjectsSound, DocsSound, FireParts
<1>7. CASE RunNow(n)
  <2> DEFINE s == <<"manual", n>>
             f == [IdleFire EXCEPT !.pc = "start", !.obj = mem[n], !.now = clock]
  <2>1. /\ s \in Slots /\ mem[n] \in Objs /\ clock \in Nat /\ ops' \in Nat
        /\ fires' = [fires EXCEPT ![s] = f]
        /\ UNCHANGED <<heap, mem, doc, queue, clock, reviewed, writer, streak, crashes, errors>>
    BY <1>7 DEF RunNow, Slots, SpendOp, IInv, TypeOK
  <2>2. f \in Fire /\ f.pc = "start" /\ f.obj \in Objs
    BY <2>1 DEF IdleFire, Fire, NoPerm, Perm
  <2> HIDE DEF f, s
  <2>3. FireParts' BY <2>1, <2>2, FiresKeep DEF IInv, TypeOK
  <2> QED BY <2>1, <2>3
       DEF IInv, TypeOK, ObjectsSound, DocsSound, QueueSound, MemSound, FireParts
<1> QED BY <1>1, <1>2, <1>3, <1>4, <1>5, <1>6, <1>7 DEF Operator

-----------------------------------------------------------------------------
(* The store, time and crashes. *)

(* The head of the queue is sound, and so is what is left. *)
LEMMA QueueHead ==
  ASSUME IInv, queue # << >>
  PROVE  /\ Next1 \in Write /\ SoundWrite(Next1, heap, reviewed)
         /\ Tail(queue) \in Seq(Write)
         /\ \A i \in 1..Len(Tail(queue)) : SoundWrite(Tail(queue)[i], heap, reviewed)
BY TailHolds DEF IInv, TypeOK, QueueSound, Next1

LEMMA ReturnsKeeps ==
  ASSUME IInv, NEW s, FireReturns(s), UNCHANGED <<heap, reviewed>>
  PROVE  FireParts'
<1>1. heap \in [Objs -> Task] BY DEF IInv, TypeOK
<1>2. CASE s \in Slots
  BY <1>1, <1>2, FiresKeep, IdleFireSound DEF FireReturns
<1>3. CASE s \notin Slots
  BY <1>1, <1>3, FiresStay DEF FireReturns
<1> QED BY <1>2, <1>3

LEMMA StoreInv == ASSUME IInv, StoreStep PROVE IInv'
<1>1. /\ queue # << >>
      /\ Next1 \in Write /\ SoundWrite(Next1, heap, reviewed)
      /\ Tail(queue) \in Seq(Write)
      /\ \A i \in 1..Len(Tail(queue)) : SoundWrite(Tail(queue)[i], heap, reviewed)
  BY QueueHead DEF StoreStep, WriteSnapshot, WriteConflict, WriteDelete, WriteFails
<1>2. CASE WriteSnapshot
  <2>1. /\ Next1.op # "delete" /\ Next1.name \in Names
        /\ doc' = [doc EXCEPT ![Next1.name] = Next1.content]
        /\ writer' = [writer EXCEPT ![Next1.name] = Next1.by]
        /\ mem' = IF Next1.op = "insert" THEN [mem EXCEPT ![Next1.name] = Next1.by] ELSE mem
        /\ queue' = Tail(queue) /\ FireReturns(Next1.slot)
        /\ UNCHANGED <<heap, clock, reviewed, streak, ops, crashes, errors>>
    BY <1>1, <1>2 DEF WriteSnapshot, Write
  <2>2. /\ Next1.content \in Task /\ Next1.content.name = Next1.name
        /\ SoundTask(Next1.content, reviewed)
        /\ Next1.by \in Objs /\ heap[Next1.by].name = Next1.name
    BY <1>1, <2>1 DEF SoundWrite
  <2>3. doc' \in [Names -> Task \cup {NoDoc}] /\ DocsSound'
    BY <2>1, <2>2 DEF IInv, TypeOK, DocsSound
  <2>4. /\ mem' \in [Names -> Objs \cup {NoObj}] /\ writer' \in [Names -> Objs \cup {NoObj}]
        /\ MemSound'
    BY <2>1, <2>2 DEF IInv, TypeOK, MemSound
  <2>5. FireParts' BY <2>1, ReturnsKeeps
  <2> QED BY <1>1, <2>1, <2>3, <2>4, <2>5
       DEF IInv, TypeOK, ObjectsSound, QueueSound, FireParts
<1>3. CASE WriteConflict
  <2> DEFINE w == [Next1 EXCEPT !.op = "update"]
  <2>1. UNCHANGED <<heap, mem, doc, fires, clock, reviewed, writer, streak, ops, crashes, errors>>
    BY <1>3 DEF WriteConflict
  <2>2. w \in Write /\ (Next1.op = "create" => SoundWrite(w, heap, reviewed))
    BY <1>1 DEF Write, SoundWrite
  <2>3. \/ queue' = Append(Tail(queue), w) /\ Next1.op = "create"
        \/ queue' = Tail(queue)
    BY <1>3 DEF WriteConflict
  <2> HIDE DEF w
  <2>4. queue' \in Seq(Write) /\ QueueSound'
    <3>1. CASE queue' = Tail(queue) BY <1>1, <2>1, <3>1 DEF QueueSound
    <3>2. CASE queue' = Append(Tail(queue), w) /\ Next1.op = "create"
      <4>1. /\ queue' \in Seq(Write)
            /\ \A i \in 1..Len(queue') :
                 queue'[i] = w \/ \E j \in 1..Len(Tail(queue)) : queue'[i] = Tail(queue)[j]
        BY <1>1, <2>2, <3>2, AppendHolds
      <4> QED BY <1>1, <2>1, <2>2, <3>2, <4>1 DEF QueueSound
    <3> QED BY <2>3, <3>1, <3>2
  <2>5. FireParts' BY <2>1, FiresStay DEF IInv, TypeOK
  <2> QED BY <2>1, <2>4, <2>5 DEF IInv, TypeOK, ObjectsSound, DocsSound, MemSound, FireParts
<1>4. CASE WriteDelete
  <2>1. UNCHANGED <<heap, mem, fires, clock, reviewed, streak, ops, crashes, errors>>
        /\ queue' = Tail(queue)
        /\ doc' = [doc EXCEPT ![Next1.name] = NoDoc]
        /\ writer' = [writer EXCEPT ![Next1.name] = NoObj]
    BY <1>4 DEF WriteDelete
  <2>2. FireParts' BY <2>1, FiresStay DEF IInv, TypeOK
  <2>3. doc' \in [Names -> Task \cup {NoDoc}] /\ writer' \in [Names -> Objs \cup {NoObj}]
        /\ DocsSound'
    BY <2>1 DEF IInv, TypeOK, DocsSound
  <2> QED BY <1>1, <2>1, <2>2, <2>3
       DEF IInv, TypeOK, ObjectsSound, QueueSound, MemSound, FireParts
<1>5. CASE WriteFails
  <2>1. /\ UNCHANGED <<mem, doc, clock, reviewed, writer, streak, ops, crashes>>
        /\ errors' \in Nat
    BY <1>5 DEF WriteFails, IInv, TypeOK
  <2>2. CASE Next1.slot \in Slots /\ fires[Next1.slot].pc = "savingOk"
    BY <1>1, <1>5, <2>1, <2>2, ExceptionStep DEF WriteFails
  <2>3. CASE ~(Next1.slot \in Slots /\ fires[Next1.slot].pc = "savingOk")
    <3>1. queue' = Tail(queue) /\ FireReturns(Next1.slot) /\ UNCHANGED heap
      BY <1>5, <2>3 DEF WriteFails
    <3>2. FireParts' BY <2>1, <3>1, ReturnsKeeps
    <3> QED BY <1>1, <2>1, <3>1, <3>2
         DEF IInv, TypeOK, ObjectsSound, DocsSound, QueueSound, MemSound, FireParts
  <2> QED BY <2>2, <2>3
<1> QED BY <1>2, <1>3, <1>4, <1>5 DEF StoreStep

LEMMA TickInv == ASSUME IInv, Tick PROVE IInv'
<1> DEFINE start(n) == [IdleFire EXCEPT !.pc = "start", !.obj = mem[n], !.now = clock]
<1>1. UNCHANGED <<heap, mem, doc, queue, clock, reviewed, writer, streak, ops, crashes, errors>>
  BY DEF Tick
<1>2. /\ \A s \in Slots :
           \/ fires'[s] = fires[s]
           \/ s[2] \in Names /\ mem[s[2]] # NoObj /\ fires'[s] = start(s[2])
      /\ fires' = [s \in Slots |-> fires'[s]]
  BY DEF Tick, Slots
<1>3. \A n \in Names : mem[n] # NoObj =>
         start(n) \in Fire /\ start(n).pc = "start" /\ start(n).obj \in Objs
  BY DEF IInv, TypeOK, IdleFire, Fire, NoPerm, Perm
<1> HIDE DEF start
<1>4. fires' \in [Slots -> Fire] /\ FiresSound'
  <2>1. \A s \in Slots : fires'[s] \in Fire /\ (fires'[s].pc # "idle" => fires'[s].obj \in Objs)
    BY <1>2, <1>3 DEF IInv, TypeOK, FiresSound
  <2> QED BY <1>2, <2>1 DEF FiresSound
<1>5. OnlyReviewedRuns'
  BY <1>1, <1>2, <1>3 DEF IInv, OnlyReviewedRuns, At, TaskOf
<1> QED BY <1>1, <1>4, <1>5 DEF IInv, TypeOK, ObjectsSound, DocsSound, QueueSound, MemSound

(* A restart: every object comes from a document, and documents are sound. *)
LEMMA CrashInv == ASSUME IInv, Crash PROVE IInv'
<1>1. PICK obj \in [Names -> Objs] :
        /\ \A n, m \in Names : obj[n] = obj[m] => n = m
        /\ mem' = [n \in Names |-> IF doc[n] = NoDoc THEN NoObj ELSE obj[n]]
        /\ heap' = [o \in Objs |->
                      IF \E n \in Names : doc[n] # NoDoc /\ obj[n] = o
                      THEN doc[CHOOSE n \in Names : obj[n] = o]
                      ELSE Blank]
  BY DEF Crash
<1>2. /\ UNCHANGED <<doc, clock, reviewed, ops, errors>>
      /\ writer' = mem' /\ queue' = << >> /\ fires' = [s \in Slots |-> IdleFire]
      /\ streak' = [o \in Objs |-> 0] /\ crashes' \in Nat
  BY DEF Crash, IInv, TypeOK
<1>3. Blank \in Task /\ ~Blank.approved
  <2>1. (CHOOSE n \in Names : TRUE) \in Names BY SchedulerAssumption
  <2>2. NoPerm \in Perm BY DEF NoPerm, Perm
  <2> QED BY <2>1, <2>2, NewTaskSound DEF Blank
<1>4. \A n \in Names : doc[n] # NoDoc => heap'[obj[n]] = doc[n]
  <2> SUFFICES ASSUME NEW n \in Names, doc[n] # NoDoc PROVE heap'[obj[n]] = doc[n]
    OBVIOUS
  <2>1. (CHOOSE m \in Names : obj[m] = obj[n]) = n BY <1>1
  <2>2. obj[n] \in Objs OBVIOUS
  <2> QED BY <1>1, <2>1, <2>2
<1>5. \A o \in Objs : heap'[o] = Blank \/ \E n \in Names : doc[n] # NoDoc /\ heap'[o] = doc[n]
  BY <1>1, <1>4
<1>6. heap' \in [Objs -> Task] /\ ObjectsSound'
  BY <1>1, <1>2, <1>3, <1>5 DEF IInv, TypeOK, DocsSound, ObjectsSound, SoundTask
<1>7. mem' \in [Names -> Objs \cup {NoObj}] /\ MemSound' /\ DocsSound'
  BY <1>1, <1>2, <1>4 DEF IInv, DocsSound, MemSound
<1>8. queue' \in Seq(Write) /\ QueueSound' BY <1>2, EmptySeq DEF QueueSound
<1>9. FireParts'
  BY <1>2, IdleFireSound DEF FireParts, FiresSound, OnlyReviewedRuns, At
<1> QED BY <1>2, <1>6, <1>7, <1>8, <1>9 DEF IInv, TypeOK, FireParts

-----------------------------------------------------------------------------

LEMMA InitInv == Init => IInv
<1> SUFFICES ASSUME Init PROVE IInv OBVIOUS
<1>1. Blank \in Task /\ ~Blank.approved
  <2>1. (CHOOSE n \in Names : TRUE) \in Names BY SchedulerAssumption
  <2>2. NoPerm \in Perm BY DEF NoPerm, Perm
  <2> QED BY <2>1, <2>2, NewTaskSound DEF Blank
<1>2. TypeOK BY <1>1, IdleFireSound, EmptySeq DEF Init, TypeOK
<1>3. ObjectsSound /\ DocsSound /\ QueueSound /\ MemSound
  BY <1>1, EmptySeq DEF Init, ObjectsSound, SoundTask, DocsSound, QueueSound, MemSound
<1>4. FiresSound /\ OnlyReviewedRuns
  BY IdleFireSound DEF Init, FiresSound, OnlyReviewedRuns, At
<1> QED BY <1>2, <1>3, <1>4 DEF IInv

LEMMA NextInv == IInv /\ [Next]_vars => IInv'
<1> SUFFICES ASSUME IInv, [Next]_vars PROVE IInv' OBVIOUS
<1>1. CASE \E n \in Names : Operator(n) BY <1>1, OperatorInv
<1>2. CASE Tick BY <1>2, TickInv
<1>3. CASE \E s \in Slots : FireStep(s) BY <1>3, FireStepInv
<1>4. CASE StoreStep BY <1>4, StoreInv
<1>5. CASE PassTime
  <2>1. UNCHANGED <<heap, mem, doc, queue, fires, reviewed, writer, streak, ops, crashes, errors>>
        /\ clock' \in Nat
    BY <1>5 DEF PassTime, IInv, TypeOK
  <2> QED BY <2>1 DEF IInv, TypeOK, ObjectsSound, DocsSound, QueueSound, MemSound,
                      FiresSound, OnlyReviewedRuns, At, TaskOf
<1>6. CASE Crash BY <1>6, CrashInv
<1>7. CASE UNCHANGED vars
  BY <1>7 DEF vars, IInv, TypeOK, ObjectsSound, DocsSound, QueueSound, MemSound,
              FiresSound, OnlyReviewedRuns, At, TaskOf
<1> QED BY <1>1, <1>2, <1>3, <1>4, <1>5, <1>6, <1>7 DEF Next

LEMMA Invariance == Spec => []IInv
BY InitInv, NextInv, PTL DEF Spec

(* The variables keep their types in every execution of the scheduler.     *)
THEOREM SchedulerTypes == Spec => []TypeOK
<1>1. IInv => TypeOK BY DEF IInv
<1> QED BY Invariance, <1>1, PTL

(* "Condition code requires operator approval before it will fire": for    *)
(* any schedules, edits, overlapping fires, store failures and restarts, a *)
(* condition script in execution was approved by the operator for that     *)
(* schedule, with at least the access it runs with.                        *)
THEOREM ReviewedOnly == Spec => []OnlyReviewedRuns
<1>1. IInv => OnlyReviewedRuns BY DEF IInv
<1> QED BY Invariance, <1>1, PTL

-----------------------------------------------------------------------------
(* The store and the objects.                                              *)
(*                                                                         *)
(* StoreAgrees speaks of an empty queue.  While writes wait, the last one  *)
(* of a live task to be carried out has what the object has.  That is not  *)
(* the last in the queue: a create that meets a document joins again as an *)
(* update, so of a task's writes the updates are carried out first.  What  *)
(* makes it hold is that the document of a live task is there: a deletion  *)
(* waits only for names that are not live, one for each, and whose         *)
(* document is there, so no insertion is carried out before it.            *)

(* The document d says what t says, but for an approval only t has lost.   *)
Agrees(t, d) ==
  LET x == ToDoc(t) IN
  /\ [x EXCEPT !.approved = d.approved] = d
  /\ x.approved => d.approved

(* Another write of the same object is carried out after the i-th.         *)
Later(q, i) ==
  \E j \in 1..Len(q) :
    /\ j # i /\ q[j].by = q[i].by
    /\ ~(q[i].op = "create" /\ q[j].op = "update")
    /\ q[i].op = q[j].op => i < j

Follows(q, h, o) ==
  \A i \in 1..Len(q) : q[i].by = o /\ ~Later(q, i) => Agrees(h[o], q[i].content)

Has(q, o) == \E i \in 1..Len(q) : q[i].by = o

LiveSaved(q, h, m, d, w) ==
  \A n \in Names : m[n] # NoObj =>
    /\ d[n] # NoDoc
    /\ Follows(q, h, m[n])
    /\ w[n] = m[n] /\ ~Has(q, m[n]) => Agrees(h[m[n]], d[n])

Deletes(q, m, d) ==
  \A i \in 1..Len(q) : q[i].op = "delete" =>
    /\ q[i].by = NoObj
    /\ m[q[i].name] = NoObj /\ d[q[i].name] # NoDoc
    /\ \A j \in 1..Len(q) : q[j].op = "delete" /\ q[j].name = q[i].name => j = i

(* Nobody but create_task has the object of a task that is not there yet.  *)
Inserts(q, h, m, f) ==
  \A i \in 1..Len(q) : q[i].op = "insert" =>
    /\ \A n \in Names : m[n] # q[i].by
    /\ \A s \in Slots : f[s].obj # q[i].by
    /\ \A j \in 1..Len(q) : q[j].by = q[i].by => j = i
    /\ Agrees(h[q[i].by], q[i].content)

Stored(t) == t # NoDoc => ToDoc(t) = t

AsStored(q, d) == /\ \A n \in Names : Stored(d[n])
                  /\ \A i \in 1..Len(q) : Stored(q[i].content)

Safe(q, h, m, d, w, f) ==
  LiveSaved(q, h, m, d, w) /\ Deletes(q, m, d) /\ Inserts(q, h, m, f) /\ AsStored(q, d)

Saved == errors = 0 => Safe(queue, heap, mem, doc, writer, fires)

(* A document made of a task says what the task says, and is made of       *)
(* itself.                                                                 *)
LEMMA DocAgrees ==
  ASSUME NEW t \in Task
  PROVE  /\ Agrees(t, ToDoc(t)) /\ ToDoc(ToDoc(t)) = ToDoc(t)
         /\ ToDoc(t) = t => Agrees(t, t)
<1>1. t.perm \in Perm BY DEF Task
<1>2. ToDoc(ToDoc(t)) = ToDoc(t) BY <1>1 DEF ToDoc, Task, NoPerm, Perm
<1>3. Agrees(t, ToDoc(t)) BY <1>1 DEF Agrees, ToDoc, Task, NoPerm, Perm
<1> QED BY <1>2, <1>3

(* Counters are not stored, and an approval may be lost.                   *)
LEMMA AgreesStays ==
  ASSUME NEW t \in Task, NEW u \in Task, NEW d \in Task, Agrees(t, d),
         u.name = t.name, u.perm = t.perm, u.enabled = t.enabled,
         u.lastRun = t.lastRun, u.approved => t.approved
  PROVE  Agrees(u, d)
<1>1. ToDoc(t) \in Task /\ ToDoc(u) \in Task BY ToDocSound
<1>2. ToDoc(u).approved => ToDoc(t).approved BY DEF ToDoc, Task, NoPerm, Perm
<1>3. [ToDoc(u) EXCEPT !.approved = d.approved] = [ToDoc(t) EXCEPT !.approved = d.approved]
  BY DEF ToDoc, Task, NoPerm, Perm
<1> QED BY <1>2, <1>3 DEF Agrees

(* Positions after a write has joined or left. *)
LEMMA JoinIs ==
  ASSUME NEW q \in Seq(Write), NEW w \in Write, NEW r, r = Append(q, w)
  PROVE  /\ Len(q) \in Nat /\ Len(r) = Len(q) + 1
         /\ r[Len(r)] = w
         /\ \A i \in 1..Len(q) : i \in 1..Len(r) /\ r[i] = q[i]
         /\ \A i \in 1..Len(r) : i = Len(r) \/ i \in 1..Len(q)
BY AppendProperties

LEMMA LeaveIs ==
  ASSUME NEW q \in Seq(Write), q # << >>, NEW r, r = Tail(q)
  PROVE  /\ Len(q) \in Nat \ {0} /\ Len(r) = Len(q) - 1
         /\ 1 \in 1..Len(q) /\ q[1] = Head(q)
         /\ \A i \in 1..Len(r) : i + 1 \in 1..Len(q) /\ r[i] = q[i + 1]
         /\ \A i \in 1..Len(q) : i = 1 \/ (i - 1 \in 1..Len(r) /\ r[i - 1] = q[i])
<1>1. Len(q) \in Nat \ {0} /\ q[1] = Head(q) BY EmptySeq
<1> QED BY <1>1, HeadTailProperties

(* A save joins: it is the last of its object's, and the others stay.      *)
LEMMA SaveJoins ==
  ASSUME NEW q \in Seq(Write), NEW w \in Write, NEW h, NEW g, NEW o,
         \/ o # w.by /\ g[o] = h[o] /\ Follows(q, h, o)
         \/ o = w.by /\ w.op = "create" /\ Agrees(g[o], w.content)
            /\ \A i \in 1..Len(q) : q[i].by = o => q[i].op \in {"create", "update"}
  PROVE  /\ Follows(Append(q, w), g, o)
         /\ Has(Append(q, w), o) <=> (Has(q, o) \/ o = w.by)
<1> DEFINE r == Append(q, w)
<1>1. /\ Len(q) \in Nat /\ Len(r) = Len(q) + 1 /\ r[Len(r)] = w
      /\ \A i \in 1..Len(q) : i \in 1..Len(r) /\ r[i] = q[i]
      /\ \A i \in 1..Len(r) : i = Len(r) \/ i \in 1..Len(q)
  BY JoinIs
<1> HIDE DEF r
<1>2. Len(r) \in 1..Len(r) BY <1>1
<1>3. Has(r, o) <=> (Has(q, o) \/ o = w.by) BY <1>1, <1>2 DEF Has
<1>4. ASSUME NEW i \in 1..Len(r), r[i].by = o, ~Later(r, i)
      PROVE  Agrees(g[o], r[i].content)
  <2>1. CASE o # w.by
    <3>1. i \in 1..Len(q) /\ r[i] = q[i] BY <1>1, <1>4, <2>1
    <3>2. ~Later(q, i) BY <1>1, <1>4, <3>1 DEF Later
    <3> QED BY <1>4, <2>1, <3>1, <3>2 DEF Follows
  <2>2. CASE o = w.by
    <3>1. i = Len(r)
      <4>1. SUFFICES ASSUME i \in 1..Len(q), i # Len(r) PROVE FALSE BY <1>1
      <4>2. r[i].op \in {"create", "update"} BY <1>1, <1>4, <2>2, <4>1
      <4>3. i < Len(r) BY <1>1, <4>1
      <4>4. r[Len(r)].by = r[i].by /\ r[Len(r)].op = "create" BY <1>1, <1>4, <2>2
      <4>5. Later(r, i) BY <1>2, <4>1, <4>2, <4>3, <4>4 DEF Later
      <4> QED BY <1>4, <4>5
    <3> QED BY <1>1, <2>2, <3>1
  <2> QED BY <2>1, <2>2
<1> QED BY <1>3, <1>4 DEF Follows, r

(* A write leaves: the others stay, and if it was an update and the last   *)
(* of its object's, it had what the object has.                            *)
LEMMA WriteLeaves ==
  ASSUME NEW q \in Seq(Write), q # << >>, NEW h, NEW o, Follows(q, h, o),
         \/ o # Head(q).by
         \/ o = Head(q).by /\ Head(q).op = "update"
            /\ \A i \in 1..Len(q) : q[i].by = o => q[i].op \in {"create", "update"}
  PROVE  /\ Follows(Tail(q), h, o)
         /\ Has(q, o) <=> (Has(Tail(q), o) \/ o = Head(q).by)
         /\ o = Head(q).by /\ ~Has(Tail(q), o) => Agrees(h[o], Head(q).content)
<1> DEFINE r == Tail(q)
<1>1. /\ Len(q) \in Nat \ {0} /\ Len(r) = Len(q) - 1
      /\ 1 \in 1..Len(q) /\ q[1] = Head(q)
      /\ \A i \in 1..Len(r) : i + 1 \in 1..Len(q) /\ r[i] = q[i + 1]
      /\ \A i \in 1..Len(q) : i = 1 \/ (i - 1 \in 1..Len(r) /\ r[i - 1] = q[i])
  BY LeaveIs
<1> HIDE DEF r
<1>2. Has(q, o) <=> (Has(r, o) \/ o = Head(q).by) BY <1>1 DEF Has
<1>3. ASSUME o = Head(q).by, ~Has(r, o) PROVE Agrees(h[o], Head(q).content)
  <2>1. \A j \in 1..Len(q) : j # 1 => q[j].by # o BY <1>1, <1>3 DEF Has
  <2>2. ~Later(q, 1) BY <1>1, <1>3, <2>1 DEF Later
  <2> QED BY <1>1, <1>3, <2>2 DEF Follows
<1>4. ASSUME NEW i \in 1..Len(r), r[i].by = o, ~Later(r, i)
      PROVE  Agrees(h[o], r[i].content)
  <2>1. i + 1 \in 1..Len(q) /\ r[i] = q[i + 1] /\ i \in Int BY <1>1
  <2>2. ~Later(q, i + 1)
    <3>1. SUFFICES ASSUME NEW j \in 1..Len(q), j # i + 1, q[j].by = q[i + 1].by,
                          ~(q[i + 1].op = "create" /\ q[j].op = "update"),
                          q[i + 1].op = q[j].op => i + 1 < j
                   PROVE  FALSE
      BY DEF Later
    <3>2. CASE j = 1
      <4>1. Head(q).by = o /\ q[j] = Head(q) BY <1>1, <1>4, <2>1, <3>1, <3>2
      <4>2. q[i + 1].op \in {"create", "update"} /\ q[j].op = "update"
        BY <1>4, <2>1, <4>1
      <4>3. ~(i + 1 < j) BY <2>1, <3>2
      <4> QED BY <3>1, <4>2, <4>3
    <3>3. CASE j # 1
      <4>1. j - 1 \in 1..Len(r) /\ r[j - 1] = q[j] BY <1>1, <3>3
      <4>2. j - 1 # i /\ (i + 1 < j => i < j - 1) BY <2>1, <3>1
      <4>3. Later(r, i) BY <2>1, <3>1, <4>1, <4>2 DEF Later
      <4> QED BY <1>4, <4>3
    <3> QED BY <3>2, <3>3
  <2> QED BY <1>4, <2>1, <2>2 DEF Follows
<1> QED BY <1>2, <1>3, <1>4 DEF Follows, r

(* A create meets a document and joins again as an update: the order in    *)
(* which the object's writes are carried out is the same.                  *)
LEMMA CreateTurns ==
  ASSUME NEW q \in Seq(Write), q # << >>, NEW h, NEW o, Follows(q, h, o),
         Head(q).op = "create",
         o = Head(q).by =>
           \A i \in 1..Len(q) : q[i].by = o => q[i].op \in {"create", "update"}
  PROVE  LET r == Append(Tail(q), [Head(q) EXCEPT !.op = "update"]) IN
         Follows(r, h, o) /\ (Has(q, o) <=> Has(r, o))
<1> DEFINE w == [Head(q) EXCEPT !.op = "update"]
           p == Tail(q)
           r == Append(p, w)
<1>1. /\ Len(q) \in Nat \ {0} /\ Len(p) = Len(q) - 1
      /\ 1 \in 1..Len(q) /\ q[1] = Head(q)
      /\ \A i \in 1..Len(p) : i + 1 \in 1..Len(q) /\ p[i] = q[i + 1]
      /\ \A i \in 1..Len(q) : i = 1 \/ (i - 1 \in 1..Len(p) /\ p[i - 1] = q[i])
  BY LeaveIs
<1>2. Head(q) \in Write /\ p \in Seq(Write) BY TailHolds
<1>3. /\ w \in Write /\ w.by = Head(q).by /\ w.op = "update" /\ w.content = Head(q).content
  BY <1>2 DEF Write
<1> HIDE DEF w, p
<1>4. /\ Len(p) \in Nat /\ Len(r) = Len(p) + 1 /\ r[Len(r)] = w
      /\ \A i \in 1..Len(p) : i \in 1..Len(r) /\ r[i] = p[i]
      /\ \A i \in 1..Len(r) : i = Len(r) \/ i \in 1..Len(p)
  BY <1>2, <1>3, JoinIs
<1> HIDE DEF r
<1>5. /\ Len(r) = Len(q) /\ Len(r) \in 1..Len(r)
      /\ \A i \in 1..Len(r) : i # Len(r) => r[i] = q[i + 1] /\ i + 1 \in 1..Len(q)
      /\ \A i \in 1..Len(q) : i # 1 => r[i - 1] = q[i] /\ i - 1 \in 1..Len(r) /\ i - 1 # Len(r)
  BY <1>1, <1>4
<1>6. Has(q, o) <=> Has(r, o)
  <2>1. Len(r) \in 1..Len(r) /\ r[Len(r)].by = q[1].by BY <1>1, <1>3, <1>4, <1>5
  <2>2. ASSUME NEW i \in 1..Len(q), q[i].by = o PROVE Has(r, o)
    BY <1>5, <2>1, <2>2 DEF Has
  <2>3. ASSUME NEW i \in 1..Len(r), r[i].by = o PROVE Has(q, o)
    BY <1>1, <1>5, <2>1, <2>3 DEF Has
  <2> QED BY <2>2, <2>3 DEF Has
<1>7. ASSUME NEW i \in 1..Len(r), r[i].by = o, ~Later(r, i)
      PROVE  Agrees(h[o], r[i].content)
  <2>1. CASE i = Len(r)
    <3>1. r[i] = w /\ o = Head(q).by /\ r[i].content = q[1].content /\ q[1].by = o
      BY <1>1, <1>3, <1>4, <1>7, <2>1
    <3>2. ~Later(q, 1)
      <4>1. SUFFICES ASSUME NEW j \in 1..Len(q), j # 1, q[j].by = o, q[j].op # "update"
                     PROVE  FALSE
        BY <1>1, <3>1 DEF Later
      <4>2. r[j - 1] = q[j] /\ j - 1 \in 1..Len(r) /\ j - 1 # i BY <1>5, <2>1, <4>1
      <4>3. r[i].op = "update" BY <1>3, <3>1
      <4>4. Later(r, i) BY <1>7, <4>1, <4>2, <4>3 DEF Later
      <4> QED BY <1>7, <4>4
    <3> QED BY <1>1, <3>1, <3>2 DEF Follows
  <2>2. CASE i # Len(r)
    <3>1. r[i] = q[i + 1] /\ i + 1 \in 1..Len(q) /\ i \in Int BY <1>5, <2>2
    <3>2. ~Later(q, i + 1)
      <4>1. SUFFICES ASSUME NEW j \in 1..Len(q), j # i + 1, q[j].by = q[i + 1].by,
                            ~(q[i + 1].op = "create" /\ q[j].op = "update"),
                            q[i + 1].op = q[j].op => i + 1 < j
                     PROVE  FALSE
        BY DEF Later
      <4>2. CASE j = 1
        <5>1. Head(q).by = o /\ q[j].op = "create" BY <1>1, <1>7, <3>1, <4>1, <4>2
        <5>2. q[i + 1].op = "update"
          <6>1. q[i + 1].op \in {"create", "update"} BY <1>7, <3>1, <5>1
          <6>2. ~(i + 1 < j) BY <3>1, <4>2
          <6> QED BY <4>1, <5>1, <6>1, <6>2
        <5>3. i < Len(r) /\ r[Len(r)].by = r[i].by /\ r[Len(r)].op = "update"
          BY <1>3, <1>4, <1>5, <1>7, <2>2, <5>1
        <5>4. Later(r, i) BY <1>5, <2>2, <3>1, <5>2, <5>3 DEF Later
        <5> QED BY <1>7, <5>4
      <4>3. CASE j # 1
        <5>1. j - 1 \in 1..Len(r) /\ r[j - 1] = q[j] BY <1>5, <4>3
        <5>2. j - 1 # i /\ (i + 1 < j => i < j - 1) BY <3>1, <4>1
        <5>3. Later(r, i) BY <3>1, <4>1, <5>1, <5>2 DEF Later
        <5> QED BY <1>7, <5>3
      <4> QED BY <4>2, <4>3
    <3> QED BY <1>7, <3>1, <3>2 DEF Follows
  <2> QED BY <2>1, <2>2
<1> QED BY <1>6, <1>7 DEF Follows, r, p, w
LEMMA WriteParts ==
  ASSUME NEW q \in Seq(Write)
  PROVE  \A i \in 1..Len(q) : /\ q[i].op \in {"create", "update", "insert", "delete"}
                              /\ q[i].name \in Names /\ q[i].by \in Objs \cup {NoObj}
<1>1. \A i \in 1..Len(q) : q[i] \in Write BY ElementOfSeq
<1> QED BY <1>1 DEF Write

(* The writes of a live task's object are creates and updates. *)
LEMMA LiveWrites ==
  ASSUME NEW q \in Seq(Write), NEW h, NEW m, NEW d, NEW f, NEW n \in Names, m[n] # NoObj,
         Deletes(q, m, d), Inserts(q, h, m, f)
  PROVE  \A i \in 1..Len(q) : q[i].by = m[n] => q[i].op \in {"create", "update"}
<1>1. \A i \in 1..Len(q) : q[i].op \in {"create", "update", "insert", "delete"}
  BY WriteParts
<1>2. \A i \in 1..Len(q) : q[i].op = "insert" => q[i].by # m[n] BY DEF Inserts
<1>3. \A i \in 1..Len(q) : q[i].op = "delete" => q[i].by = NoObj BY DEF Deletes
<1> QED BY <1>1, <1>2, <1>3

(* A write joins that is no deletion and no insertion. *)
LEMMA JoinRest ==
  ASSUME NEW q \in Seq(Write), NEW w \in Write, w.op \in {"create", "update"},
         NEW h, NEW m, NEW d, NEW f, Deletes(q, m, d), Inserts(q, h, m, f), AsStored(q, d),
         \A i \in 1..Len(q) : q[i].op = "insert" => q[i].by # w.by,
         Stored(w.content)
  PROVE  LET r == Append(q, w) IN
         Deletes(r, m, d) /\ Inserts(r, h, m, f) /\ AsStored(r, d)
<1> DEFINE r == Append(q, w)
<1>1. /\ Len(q) \in Nat /\ Len(r) = Len(q) + 1 /\ r[Len(r)] = w
      /\ \A i \in 1..Len(q) : i \in 1..Len(r) /\ r[i] = q[i]
      /\ \A i \in 1..Len(r) : i = Len(r) \/ i \in 1..Len(q)
  BY JoinIs
<1> HIDE DEF r
<1>2. Deletes(r, m, d) BY <1>1 DEF Deletes
<1>3. Inserts(r, h, m, f) BY <1>1 DEF Inserts
<1>4. AsStored(r, d) BY <1>1 DEF AsStored
<1> QED BY <1>2, <1>3, <1>4 DEF r

(* A write leaves. *)
LEMMA LeaveRest ==
  ASSUME NEW q \in Seq(Write), q # << >>,
         NEW h, NEW m, NEW d, NEW f, Deletes(q, m, d), Inserts(q, h, m, f), AsStored(q, d)
  PROVE  LET r == Tail(q) IN
         Deletes(r, m, d) /\ Inserts(r, h, m, f) /\ AsStored(r, d)
<1> DEFINE r == Tail(q)
<1>1. /\ Len(q) \in Nat \ {0} /\ Len(r) = Len(q) - 1
      /\ \A i \in 1..Len(r) : i + 1 \in 1..Len(q) /\ r[i] = q[i + 1]
  BY LeaveIs
<1> HIDE DEF r
<1>2. \A i \in 1..Len(r), j \in 1..Len(r) : j + 1 = i + 1 => j = i BY <1>1
<1>3. Deletes(r, m, d)
  <2> SUFFICES ASSUME NEW i \in 1..Len(r), r[i].op = "delete"
               PROVE  /\ r[i].by = NoObj /\ m[r[i].name] = NoObj /\ d[r[i].name] # NoDoc
                      /\ \A j \in 1..Len(r) : r[j].op = "delete" /\ r[j].name = r[i].name => j = i
    BY DEF Deletes
  <2>1. i + 1 \in 1..Len(q) /\ r[i] = q[i + 1] BY <1>1
  <2> QED BY <1>1, <1>2, <2>1 DEF Deletes
<1>4. Inserts(r, h, m, f)
  <2> SUFFICES ASSUME NEW i \in 1..Len(r), r[i].op = "insert"
               PROVE  /\ \A n \in Names : m[n] # r[i].by
                      /\ \A s \in Slots : f[s].obj # r[i].by
                      /\ \A j \in 1..Len(r) : r[j].by = r[i].by => j = i
                      /\ Agrees(h[r[i].by], r[i].content)
    BY DEF Inserts
  <2>1. i + 1 \in 1..Len(q) /\ r[i] = q[i + 1] BY <1>1
  <2> QED BY <1>1, <1>2, <2>1 DEF Inserts
<1>5. AsStored(r, d) BY <1>1 DEF AsStored
<1> QED BY <1>3, <1>4, <1>5 DEF r

(* An object that is not being created changes and is saved ...            *)
LEMMA SaveKeeps ==
  ASSUME IInv, NEW q \in Seq(Write), NEW f, Safe(q, heap, mem, doc, writer, f),
         NEW o \in Objs, NEW t \in Task, NEW slot \in Slots \cup {NoSlot},
         \A i \in 1..Len(q) : q[i].op = "insert" => q[i].by # o,
         \A i \in 1..Len(q) : SoundWrite(q[i], heap, reviewed)
  PROVE  Safe(Append(q, SaveOf(o, t, slot)), [heap EXCEPT ![o] = t], mem, doc, writer, f)
<1> DEFINE w == SaveOf(o, t, slot)
           g == [heap EXCEPT ![o] = t]
<1>1. /\ w \in Write /\ w.by = o /\ w.op = "create" /\ w.content = ToDoc(t)
  <2>1. w \in Write BY SaveSound, ToDocSound DEF SaveOf, Write, Task
  <2> QED BY <2>1 DEF SaveOf
<1>2. heap \in [Objs -> Task] /\ mem \in [Names -> Objs \cup {NoObj}] BY DEF IInv, TypeOK
<1>3. \A x \in Objs : g[x] = IF x = o THEN t ELSE heap[x] BY <1>2
<1>4. Agrees(t, w.content) /\ Stored(w.content) BY <1>1, DocAgrees DEF Stored
<1> HIDE DEF w, g
<1>5. /\ LiveSaved(q, heap, mem, doc, writer) /\ Deletes(q, mem, doc)
      /\ Inserts(q, heap, mem, f) /\ AsStored(q, doc)
  BY DEF Safe
<1>6. Inserts(q, g, mem, f)
  <2>1. \A i \in 1..Len(q) : q[i].op = "insert" => q[i].by \in Objs
    BY DEF SoundWrite
  <2> QED BY <1>3, <1>5, <2>1 DEF Inserts
<1>7. Deletes(Append(q, w), mem, doc) /\ Inserts(Append(q, w), g, mem, f)
      /\ AsStored(Append(q, w), doc)
  BY <1>1, <1>4, <1>5, <1>6, JoinRest
<1>8. ASSUME NEW n \in Names, mem[n] # NoObj
      PROVE  /\ doc[n] # NoDoc
             /\ Follows(Append(q, w), g, mem[n])
             /\ writer[n] = mem[n] /\ ~Has(Append(q, w), mem[n]) => Agrees(g[mem[n]], doc[n])
  <2>1. mem[n] \in Objs /\ doc[n] # NoDoc /\ Follows(q, heap, mem[n])
        /\ (writer[n] = mem[n] /\ ~Has(q, mem[n]) => Agrees(heap[mem[n]], doc[n]))
    BY <1>2, <1>5, <1>8 DEF LiveSaved
  <2>2. \A i \in 1..Len(q) : q[i].by = mem[n] => q[i].op \in {"create", "update"}
    BY <1>5, <1>8, LiveWrites
  <2>3. /\ Follows(Append(q, w), g, mem[n])
        /\ Has(Append(q, w), mem[n]) <=> (Has(q, mem[n]) \/ mem[n] = w.by)
    <3>1. CASE mem[n] = o
      <4>1. mem[n] = w.by /\ w.op = "create" /\ Agrees(g[mem[n]], w.content)
        BY <1>1, <1>3, <1>4, <3>1
      <4> QED BY <1>1, <2>2, <4>1, SaveJoins
    <3>2. CASE mem[n] # o
      <4>1. mem[n] # w.by /\ g[mem[n]] = heap[mem[n]] BY <1>1, <1>3, <2>1, <3>2
      <4> QED BY <1>1, <2>1, <4>1, SaveJoins
    <3> QED BY <3>1, <3>2
  <2> QED BY <1>1, <1>3, <2>1, <2>3
<1>9. LiveSaved(Append(q, w), g, mem, doc, writer) BY <1>8 DEF LiveSaved
<1> QED BY <1>7, <1>9 DEF Safe, w, g

(* ... or changes in what is not stored.                                   *)
LEMMA ChangeKeeps ==
  ASSUME IInv, NEW q \in Seq(Write), NEW f, Safe(q, heap, mem, doc, writer, f),
         NEW o \in Objs, NEW t \in Task, t.name = heap[o].name, t.perm = heap[o].perm,
         t.enabled = heap[o].enabled, t.lastRun = heap[o].lastRun,
         t.approved => heap[o].approved,
         \A i \in 1..Len(q) : q[i].op = "insert" => q[i].by # o,
         \A i \in 1..Len(q) : SoundWrite(q[i], heap, reviewed)
  PROVE  Safe(q, [heap EXCEPT ![o] = t], mem, doc, writer, f)
<1> DEFINE g == [heap EXCEPT ![o] = t]
<1>1. /\ heap \in [Objs -> Task] /\ mem \in [Names -> Objs \cup {NoObj}]
      /\ doc \in [Names -> Task \cup {NoDoc}]
  BY DEF IInv, TypeOK
<1>2. \A x \in Objs : g[x] = IF x = o THEN t ELSE heap[x] BY <1>1
<1>3. \A d \in Task : Agrees(heap[o], d) => Agrees(t, d) BY <1>1, AgreesStays
<1> HIDE DEF g
<1>4. /\ LiveSaved(q, heap, mem, doc, writer) /\ Deletes(q, mem, doc)
      /\ Inserts(q, heap, mem, f) /\ AsStored(q, doc)
  BY DEF Safe
<1>5. \A x \in Objs, d \in Task : Agrees(heap[x], d) => Agrees(g[x], d) BY <1>2, <1>3
<1>6. Inserts(q, g, mem, f)
  <2>1. \A i \in 1..Len(q) : q[i].op = "insert" => q[i].by \in Objs
    BY DEF SoundWrite
  <2> QED BY <1>2, <1>4, <2>1 DEF Inserts
<1>7. ASSUME NEW n \in Names, mem[n] # NoObj
      PROVE  /\ Follows(q, g, mem[n])
             /\ writer[n] = mem[n] /\ ~Has(q, mem[n]) => Agrees(g[mem[n]], doc[n])
  <2>1. mem[n] \in Objs /\ doc[n] \in Task /\ Follows(q, heap, mem[n])
        /\ (writer[n] = mem[n] /\ ~Has(q, mem[n]) => Agrees(heap[mem[n]], doc[n]))
    BY <1>1, <1>4, <1>7 DEF LiveSaved
  <2>2. \A i \in 1..Len(q) : q[i].by = mem[n] => q[i].content \in Task
    <3>1. \A i \in 1..Len(q) : q[i].by = mem[n] => q[i].op \in {"create", "update"}
      BY <1>4, <1>7, LiveWrites
    <3> QED BY <3>1 DEF SoundWrite
  <2>3. Follows(q, g, mem[n]) BY <1>5, <2>1, <2>2 DEF Follows
  <2> QED BY <1>5, <2>1, <2>3
<1>8. LiveSaved(q, g, mem, doc, writer) BY <1>4, <1>7 DEF LiveSaved
<1> QED BY <1>4, <1>6, <1>8 DEF Safe, g

(* Fires take up live tasks, or go. *)
LEMMA FiresChange ==
  ASSUME NEW q \in Seq(Write), NEW h, NEW m, NEW d, NEW w, NEW f, NEW e,
         Safe(q, h, m, d, w, f),
         \A i \in 1..Len(q) : q[i].op = "insert" => q[i].by # NoObj,
         \A s \in Slots : \/ \E x \in Slots : e[s].obj = f[x].obj
                          \/ \E n \in Names : e[s].obj = m[n]
                          \/ e[s].obj = NoObj
  PROVE  Safe(q, h, m, d, w, e)
<1>1. Inserts(q, h, m, f) BY DEF Safe
<1>2. Inserts(q, h, m, e) BY <1>1 DEF Inserts
<1> QED BY <1>2 DEF Safe
(* A fire changes its task, saves it or not, and goes on or returns.       *)
Counts(t, u) == /\ t.name = u.name /\ t.perm = u.perm /\ t.enabled = u.enabled
                /\ t.lastRun = u.lastRun /\ t.approved = u.approved

LEMMA FireMoves ==
  ASSUME IInv, NEW q \in Seq(Write), Safe(q, heap, mem, doc, writer, fires),
         \A i \in 1..Len(q) : SoundWrite(q[i], heap, reviewed),
         NEW s \in Slots, fires[s].pc # "idle", UNCHANGED <<mem, doc, writer>>,
         \A x \in Slots : fires'[x].obj \in {fires[x].obj, NoObj},
         \/ \E t \in Outcomes(s) :
              /\ heap' = [heap EXCEPT ![fires[s].obj] = t]
              /\ queue' = Append(q, SaveOf(fires[s].obj, t, s))
         \/ \E t \in Task :
              /\ Counts(t, TaskOf(s))
              /\ heap' = [heap EXCEPT ![fires[s].obj] = t] /\ queue' = q
         \/ heap' = heap /\ queue' = q
  PROVE  Safe(queue', heap', mem', doc', writer', fires')
<1> DEFINE o == fires[s].obj
<1>1. /\ o \in Objs /\ TaskOf(s) = heap[o]
      /\ \A t \in Outcomes(s) : t \in Task
  BY FireOutcomes DEF Outcomes, TaskOf
<1>2. \A i \in 1..Len(q) : q[i].op = "insert" => q[i].by # NoObj
  BY SchedulerAssumption DEF SoundWrite
<1>3. \A i \in 1..Len(q) : q[i].op = "insert" => q[i].by # o
  BY DEF Safe, Inserts
<1> HIDE DEF o
<1>4. Safe(q, heap, mem, doc, writer, fires') BY <1>2, FiresChange
<1>5. CASE \E t \in Outcomes(s) :
              /\ heap' = [heap EXCEPT ![o] = t] /\ queue' = Append(q, SaveOf(o, t, s))
  <2>1. PICK t \in Outcomes(s) :
              /\ heap' = [heap EXCEPT ![o] = t] /\ queue' = Append(q, SaveOf(o, t, s))
    BY <1>5
  <2> QED BY <1>1, <1>3, <1>4, <2>1, SaveKeeps
<1>6. CASE \E t \in Task : /\ Counts(t, TaskOf(s))
                           /\ heap' = [heap EXCEPT ![o] = t] /\ queue' = q
  <2>1. PICK t \in Task : /\ Counts(t, TaskOf(s))
                          /\ heap' = [heap EXCEPT ![o] = t] /\ queue' = q
    BY <1>6
  <2> QED BY <1>1, <1>3, <1>4, <2>1, ChangeKeeps DEF Counts
<1>7. CASE heap' = heap /\ queue' = q BY <1>4, <1>7
<1> QED BY <1>5, <1>6, <1>7 DEF o

(* The object of a fire that moves. *)
LEMMA FireObjects ==
  ASSUME IInv, NEW s \in Slots,
         \/ \E pc \in {"agent", "saving", "savingOk"} : Goto(s, pc)
         \/ \E r : fires' = [fires EXCEPT ![s].pc = "condition", ![s].ran = r]
         \/ fires' = [fires EXCEPT ![s] = IdleFire]
         \/ fires' = fires
  PROVE  \A x \in Slots : fires'[x].obj \in {fires[x].obj, NoObj}
<1>1. fires \in [Slots -> Fire] BY DEF IInv, TypeOK
<1>2. \A x \in Slots : fires[x] \in Fire BY <1>1
<1> QED BY <1>1, <1>2 DEF Goto, IdleFire, Fire

LEMMA ExceptionSafe ==
  ASSUME IInv, NEW q \in Seq(Write), Safe(q, heap, mem, doc, writer, fires),
         \A i \in 1..Len(q) : SoundWrite(q[i], heap, reviewed),
         NEW s \in Slots, fires[s].pc # "idle", UNCHANGED <<mem, doc, writer>>,
         HandleException(s, q)
  PROVE  Safe(queue', heap', mem', doc', writer', fires')
<1>1. \A x \in Slots : fires'[x].obj \in {fires[x].obj, NoObj}
  BY FireObjects DEF HandleException
<1>2. CASE heap[fires[s].obj].retry + 1 >= MaxStrikes
  <2>1. TimedOut(s) \in Outcomes(s) BY DEF Outcomes
  <2> QED BY <1>1, <1>2, <2>1, FireMoves DEF HandleException
<1>3. CASE ~(heap[fires[s].obj].retry + 1 >= MaxStrikes)
  <2> DEFINE t == [heap[fires[s].obj] EXCEPT !.retry = @ + 1]
  <2>1. heap[fires[s].obj] \in Task /\ TaskOf(s) = heap[fires[s].obj]
    BY FireOutcomes DEF TaskOf
  <2>2. t \in Task /\ Counts(t, TaskOf(s)) BY <2>1 DEF Task, Counts
  <2>3. heap' = [heap EXCEPT ![fires[s].obj] = t] /\ queue' = q
    BY <1>3 DEF HandleException
  <2> HIDE DEF t
  <2> QED BY <1>1, <2>2, <2>3, FireMoves
<1> QED BY <1>2, <1>3

LEMMA FireSafe ==
  ASSUME IInv, Safe(queue, heap, mem, doc, writer, fires), NEW s \in Slots, FireStep(s)
  PROVE  Safe(queue', heap', mem', doc', writer', fires')
<1> USE DEF At
<1>1. /\ \A i \in 1..Len(queue) : SoundWrite(queue[i], heap, reviewed)
      /\ queue \in Seq(Write)
  BY DEF IInv, QueueSound, TypeOK
<1>2. /\ Advanced(s) \in Outcomes(s) /\ Completed(s) \in Outcomes(s)
      /\ TimedOut(s) \in Outcomes(s)
      /\ [Advanced(s) EXCEPT !.enabled = FALSE, !.condRetry = 0] \in Outcomes(s)
  BY DEF Outcomes
<1>3. CASE BeginSkip(s)
  <2>1. \A x \in Slots : fires'[x].obj \in {fires[x].obj, NoObj}
    BY <1>3, FireObjects DEF BeginSkip
  <2> QED BY <1>1, <1>2, <1>3, <2>1, FireMoves DEF BeginSkip, ChangeAndSave
<1>4. CASE BeginCondition(s) \/ BeginAgent(s) \/ ConditionWake(s)
  <2>1. \A x \in Slots : fires'[x].obj \in {fires[x].obj, NoObj}
    <3>1. CASE BeginCondition(s) BY <3>1, FireObjects DEF BeginCondition
    <3>2. CASE BeginAgent(s) \/ ConditionWake(s)
      BY <3>2, FireObjects DEF BeginAgent, ConditionWake
    <3> QED BY <1>4, <3>1, <3>2
  <2>2. fires[s].pc # "idle" /\ UNCHANGED <<heap, mem, doc, queue, writer>>
    BY <1>4 DEF BeginCondition, BeginAgent, ConditionWake
  <2> QED BY <1>1, <2>1, <2>2, FireMoves
<1>5. CASE ConditionSkip(s)
  <2>1. \A x \in Slots : fires'[x].obj \in {fires[x].obj, NoObj}
    BY <1>5, FireObjects DEF ConditionSkip
  <2> QED BY <1>1, <1>2, <1>5, <2>1, FireMoves DEF ConditionSkip, ChangeAndSave
<1>6. CASE ConditionFailed(s)
  <2>1. fires[s].pc # "idle" /\ UNCHANGED <<mem, doc, writer>>
    BY <1>6 DEF ConditionFailed
  <2>2. CASE heap[fires[s].obj].condRetry + 1 >= MaxStrikes
    <3>1. \A x \in Slots : fires'[x].obj \in {fires[x].obj, NoObj}
      BY <1>6, <2>2, FireObjects DEF ConditionFailed
    <3> QED BY <1>1, <1>2, <1>6, <2>1, <2>2, <3>1, FireMoves
         DEF ConditionFailed, ChangeAndSave
  <2>3. CASE ~(heap[fires[s].obj].condRetry + 1 >= MaxStrikes)
    <3> DEFINE t == [heap[fires[s].obj] EXCEPT !.condRetry = @ + 1]
    <3>1. heap[fires[s].obj] \in Task /\ TaskOf(s) = heap[fires[s].obj]
      BY <2>1, FireOutcomes DEF TaskOf
    <3>2. t \in Task /\ Counts(t, TaskOf(s)) BY <3>1 DEF Task, Counts
    <3>3. /\ heap' = [heap EXCEPT ![fires[s].obj] = t]
          /\ queue' = queue /\ fires' = [fires EXCEPT ![s] = IdleFire]
      BY <1>6, <2>3 DEF ConditionFailed
    <3> HIDE DEF t
    <3>4. \A x \in Slots : fires'[x].obj \in {fires[x].obj, NoObj}
      BY <3>3, FireObjects
    <3> QED BY <1>1, <2>1, <3>2, <3>3, <3>4, FireMoves
  <2> QED BY <2>2, <2>3
<1>7. CASE AgentDone(s)
  <2>1. \A x \in Slots : fires'[x].obj \in {fires[x].obj, NoObj}
    BY <1>7, FireObjects DEF AgentDone
  <2> QED BY <1>1, <1>2, <1>7, <2>1, FireMoves DEF AgentDone, ChangeAndSave
<1>8. CASE AgentTimeout(s)
  <2>1. \A x \in Slots : fires'[x].obj \in {fires[x].obj, NoObj}
    BY <1>8, FireObjects DEF AgentTimeout
  <2> QED BY <1>1, <1>2, <1>8, <2>1, FireMoves DEF AgentTimeout, ChangeAndSave
<1>9. CASE AgentFailed(s)
  BY <1>1, <1>9, ExceptionSafe DEF AgentFailed
<1> QED BY <1>3, <1>4, <1>5, <1>6, <1>7, <1>8, <1>9 DEF FireStep
(* Calls of the operator and the agent.                                    *)

(* create_task: its object is nobody else's, and its write the last. *)
LEMMA CreateSafe ==
  ASSUME IInv, Safe(queue, heap, mem, doc, writer, fires),
         NEW n \in Names, NEW o \in Objs, NEW p \in Perm, CreateTask(n, o, p)
  PROVE  Safe(queue', heap', mem', doc', writer', fires')
<1> DEFINE t == NewTask(n, p, clock)
           w == [SaveOf(o, t, NoSlot) EXCEPT !.op = "insert"]
<1>1. /\ queue \in Seq(Write) /\ heap \in [Objs -> Task] /\ clock \in Nat
      /\ mem \in [Names -> Objs \cup {NoObj}]
  BY DEF IInv, TypeOK
<1>2. t \in Task /\ t.name = n BY <1>1, NewTaskSound
<1>3. /\ \A x \in Names : mem[x] # o
      /\ \A s \in Slots : fires[s].obj # o
      /\ \A i \in 1..Len(queue) : queue[i].by # o
  BY DEF CreateTask, Free, Referenced
<1>4. /\ heap' = [heap EXCEPT ![o] = t] /\ queue' = Append(queue, w)
      /\ UNCHANGED <<mem, doc, fires, writer>>
  BY DEF CreateTask
<1> HIDE DEF t
<1>5. \A x \in Objs : heap'[x] = IF x = o THEN t ELSE heap[x] BY <1>1, <1>4
<1>6. w \in Write /\ w.op = "insert" /\ w.by = o /\ w.content = ToDoc(t)
  <2> DEFINE v == SaveOf(o, t, NoSlot)
  <2>1. v \in Write BY <1>2, SaveSound, ToDocSound DEF SaveOf, Write, Task
  <2>2. v.by = o /\ v.content = ToDoc(t) BY DEF SaveOf
  <2> HIDE DEF v
  <2>3. w = [v EXCEPT !.op = "insert"] BY DEF v
  <2> HIDE DEF w
  <2> QED BY <2>1, <2>2, <2>3 DEF Write
<1>7. Agrees(t, w.content) /\ Stored(w.content) BY <1>2, <1>6, DocAgrees DEF Stored
<1> HIDE DEF w
<1> DEFINE r == queue'
<1>8. /\ Len(queue) \in Nat /\ Len(r) = Len(queue) + 1 /\ r[Len(r)] = w
      /\ \A i \in 1..Len(queue) : i \in 1..Len(r) /\ r[i] = queue[i]
      /\ \A i \in 1..Len(r) : i = Len(r) \/ i \in 1..Len(queue)
  BY <1>1, <1>4, <1>6, JoinIs
<1>9. /\ LiveSaved(queue, heap, mem, doc, writer) /\ Deletes(queue, mem, doc)
      /\ Inserts(queue, heap, mem, fires) /\ AsStored(queue, doc)
  BY DEF Safe
<1>10. LiveSaved(queue', heap', mem, doc, writer)
  <2> SUFFICES ASSUME NEW m \in Names, mem[m] # NoObj
               PROVE  /\ doc[m] # NoDoc
                      /\ Follows(queue', heap', mem[m])
                      /\ writer[m] = mem[m] /\ ~Has(queue', mem[m])
                            => Agrees(heap'[mem[m]], doc[m])
    BY DEF LiveSaved
  <2>1. mem[m] \in Objs /\ mem[m] # w.by /\ heap'[mem[m]] = heap[mem[m]]
    BY <1>1, <1>3, <1>5, <1>6
  <2>2. /\ doc[m] # NoDoc /\ Follows(queue, heap, mem[m])
        /\ writer[m] = mem[m] /\ ~Has(queue, mem[m]) => Agrees(heap[mem[m]], doc[m])
    BY <1>9 DEF LiveSaved
  <2>3. /\ Follows(queue', heap', mem[m])
        /\ Has(queue', mem[m]) <=> (Has(queue, mem[m]) \/ mem[m] = w.by)
    BY <1>1, <1>4, <1>6, <2>1, <2>2, SaveJoins
  <2> QED BY <2>1, <2>2, <2>3
<1>11. Deletes(r, mem, doc) /\ AsStored(r, doc)
  BY <1>6, <1>7, <1>8, <1>9 DEF Deletes, AsStored
<1>12. Inserts(r, heap', mem, fires)
  <2> SUFFICES ASSUME NEW i \in 1..Len(r), r[i].op = "insert"
               PROVE  /\ \A x \in Names : mem[x] # r[i].by
                      /\ \A s \in Slots : fires[s].obj # r[i].by
                      /\ \A j \in 1..Len(r) : r[j].by = r[i].by => j = i
                      /\ Agrees(heap'[r[i].by], r[i].content)
    BY DEF Inserts
  <2>1. CASE i = Len(r) BY <1>3, <1>5, <1>6, <1>7, <1>8, <2>1
  <2>2. CASE i \in 1..Len(queue)
    <3>1. r[i] = queue[i] /\ r[i].by # o BY <1>3, <1>8, <2>2
    <3>2. r[i].by \in Objs BY <2>2, <3>1 DEF IInv, QueueSound, SoundWrite
    <3>3. heap'[r[i].by] = heap[r[i].by] BY <1>5, <3>1, <3>2
    <3> QED BY <1>6, <1>8, <1>9, <2>2, <3>1, <3>3 DEF Inserts
  <2> QED BY <1>8, <2>1, <2>2
<1> QED BY <1>4, <1>10, <1>11, <1>12 DEF Safe

(* A call that changes the task's object and saves it, or takes its        *)
(* approval in memory.                                                     *)
LEMMA CallSafe ==
  ASSUME IInv, Safe(queue, heap, mem, doc, writer, fires),
         NEW n \in Names, mem[n] # NoObj, NEW t \in Task,
         heap' = [heap EXCEPT ![mem[n]] = t],
         \/ queue' = Append(queue, SaveOf(mem[n], t, NoSlot))
         \/ /\ queue' = queue
            /\ t.name = heap[mem[n]].name /\ t.perm = heap[mem[n]].perm
            /\ t.enabled = heap[mem[n]].enabled /\ t.lastRun = heap[mem[n]].lastRun
            /\ t.approved => heap[mem[n]].approved,
         UNCHANGED <<mem, doc, fires, writer>>
  PROVE  Safe(queue', heap', mem', doc', writer', fires')
<1>1. /\ mem[n] \in Objs /\ queue \in Seq(Write)
      /\ \A i \in 1..Len(queue) : SoundWrite(queue[i], heap, reviewed)
  BY DEF IInv, TypeOK, QueueSound
<1>2. \A i \in 1..Len(queue) : queue[i].op = "insert" => queue[i].by # mem[n]
  BY DEF Safe, Inserts
<1>3. CASE queue' = Append(queue, SaveOf(mem[n], t, NoSlot))
  BY <1>1, <1>2, <1>3, SaveKeeps
<1>4. CASE /\ queue' = queue
           /\ t.name = heap[mem[n]].name /\ t.perm = heap[mem[n]].perm
           /\ t.enabled = heap[mem[n]].enabled /\ t.lastRun = heap[mem[n]].lastRun
           /\ t.approved => heap[mem[n]].approved
  BY <1>1, <1>2, <1>4, ChangeKeeps
<1> QED BY <1>3, <1>4

LEMMA OperatorSafe ==
  ASSUME IInv, Safe(queue, heap, mem, doc, writer, fires), NEW n \in Names, Operator(n)
  PROVE  Safe(queue', heap', mem', doc', writer', fires')
<1>1. CASE \E o \in Objs, p \in Perm : CreateTask(n, o, p) BY <1>1, CreateSafe
<1>2. ASSUME NEW p \in Perm, NEW en \in BOOLEAN, UpdateTask(n, p, en)
      PROVE  Safe(queue', heap', mem', doc', writer', fires')
  <2> DEFINE u == Updated(heap[mem[n]], p, en)
  <2>1. mem[n] # NoObj /\ heap[mem[n]] \in Task BY <1>2 DEF UpdateTask, IInv, TypeOK
  <2>2. u \in Task BY <2>1 DEF Updated, Task, ResetsApproval
  <2>3. /\ heap' = [heap EXCEPT ![mem[n]] = u]
        /\ queue' = Append(queue, SaveOf(mem[n], u, NoSlot))
        /\ UNCHANGED <<mem, doc, fires, writer>>
    BY <1>2 DEF UpdateTask, ChangeAndSave
  <2> HIDE DEF u
  <2> QED BY <2>1, <2>2, <2>3, CallSafe
<1>3. CASE ClearCondition(n)
  <2>1. heap[mem[n]].perm \in Perm /\ heap[mem[n]].enabled \in BOOLEAN
    BY <1>3 DEF ClearCondition, IInv, TypeOK, Task
  <2> QED BY <1>2, <1>3, <2>1 DEF ClearCondition
<1>4. ASSUME NEW p \in Perm, UpdateRejected(n, p)
      PROVE  Safe(queue', heap', mem', doc', writer', fires')
  <2> DEFINE u == [heap[mem[n]] EXCEPT
                     !.approved = @ /\ ~ResetsApproval(heap[mem[n]].perm, p)]
  <2>1. mem[n] # NoObj /\ heap[mem[n]] \in Task BY <1>4 DEF UpdateRejected, IInv, TypeOK
  <2>2. /\ u \in Task /\ u.name = heap[mem[n]].name /\ u.perm = heap[mem[n]].perm
        /\ u.enabled = heap[mem[n]].enabled /\ u.lastRun = heap[mem[n]].lastRun
        /\ u.approved => heap[mem[n]].approved
    BY <2>1 DEF Task, ResetsApproval
  <2>3. /\ heap' = [heap EXCEPT ![mem[n]] = u] /\ queue' = queue
        /\ UNCHANGED <<mem, doc, fires, writer>>
    BY <1>4 DEF UpdateRejected
  <2> HIDE DEF u
  <2> QED BY <2>1, <2>2, <2>3, CallSafe
<1>5. ASSUME NEW b \in BOOLEAN, mem[n] # NoObj, UNCHANGED <<mem, doc, fires, writer>>,
             ChangeAndSave(mem[n], [heap[mem[n]] EXCEPT !.approved = b], NoSlot)
      PROVE  Safe(queue', heap', mem', doc', writer', fires')
  <2> DEFINE u == [heap[mem[n]] EXCEPT !.approved = b]
  <2>1. heap[mem[n]] \in Task BY <1>5 DEF IInv, TypeOK
  <2>2. u \in Task BY <2>1 DEF Task
  <2> QED BY <1>5, <2>2, CallSafe DEF ChangeAndSave
<1>6. CASE ApproveTask(n) \/ RevokeTask(n)
  BY <1>5, <1>6 DEF ApproveTask, RevokeTask
<1>7. CASE DeleteTask(n)
  <2> DEFINE w == [op |-> "delete", name |-> n, content |-> NoDoc,
                   by |-> NoObj, slot |-> NoSlot]
             r == queue'
  <2>1. /\ queue' = Append(queue, w) /\ queue \in Seq(Write)
        /\ mem \in [Names -> Objs \cup {NoObj}] /\ mem[n] # NoObj
        /\ mem' = [mem EXCEPT ![n] = NoObj]
        /\ UNCHANGED <<heap, doc, fires, writer>>
    BY <1>7 DEF DeleteTask, IInv, TypeOK
  <2>2. w \in Write /\ w.op = "delete" /\ w.name = n /\ w.by = NoObj /\ Stored(w.content)
    BY DEF Write, Stored
  <2> HIDE DEF w
  <2>3. \A m \in Names : mem'[m] = IF m = n THEN NoObj ELSE mem[m] BY <2>1
  <2>4. /\ LiveSaved(queue, heap, mem, doc, writer) /\ Deletes(queue, mem, doc)
        /\ Inserts(queue, heap, mem, fires) /\ AsStored(queue, doc)
    BY DEF Safe
  <2>5. /\ Len(queue) \in Nat /\ Len(r) = Len(queue) + 1 /\ r[Len(r)] = w
        /\ \A i \in 1..Len(queue) : i \in 1..Len(r) /\ r[i] = queue[i]
        /\ \A i \in 1..Len(r) : i = Len(r) \/ i \in 1..Len(queue)
    BY <2>1, <2>2, JoinIs
  <2>6. LiveSaved(queue', heap, mem', doc, writer)
    <3> SUFFICES ASSUME NEW m \in Names, mem'[m] # NoObj
                 PROVE  /\ doc[m] # NoDoc
                        /\ Follows(queue', heap, mem'[m])
                        /\ writer[m] = mem'[m] /\ ~Has(queue', mem'[m])
                              => Agrees(heap[mem'[m]], doc[m])
      BY DEF LiveSaved
    <3>1. mem'[m] = mem[m] /\ mem[m] # NoObj /\ mem[m] # w.by BY <2>2, <2>3
    <3>2. /\ doc[m] # NoDoc /\ Follows(queue, heap, mem[m])
          /\ writer[m] = mem[m] /\ ~Has(queue, mem[m]) => Agrees(heap[mem[m]], doc[m])
      BY <2>4, <3>1 DEF LiveSaved
    <3>3. /\ Follows(queue', heap, mem[m])
          /\ Has(queue', mem[m]) <=> (Has(queue, mem[m]) \/ mem[m] = w.by)
      BY <2>1, <2>2, <3>1, <3>2, SaveJoins
    <3> QED BY <3>1, <3>2, <3>3
  <2>7. Deletes(r, mem', doc)
    <3>1. doc[n] # NoDoc BY <2>1, <2>4 DEF LiveSaved
    <3>2. \A i \in 1..Len(queue) : queue[i].op = "delete" => queue[i].name # n
      BY <2>1, <2>4 DEF Deletes
    <3>3. \A i \in 1..Len(queue) : queue[i].name \in Names BY <2>1, WriteParts
    <3> QED BY <2>2, <2>3, <2>4, <2>5, <3>1, <3>2, <3>3 DEF Deletes
  <2>8. AsStored(r, doc) BY <2>2, <2>4, <2>5 DEF AsStored
  <2>9. Inserts(r, heap, mem', fires)
    <3>1. \A i \in 1..Len(queue) : queue[i].op = "insert" => queue[i].by \in Objs
      BY DEF IInv, QueueSound, SoundWrite
    <3>2. NoObj \notin Objs BY SchedulerAssumption
    <3> QED BY <2>2, <2>3, <2>4, <2>5, <3>1, <3>2 DEF Inserts
  <2> QED BY <2>1, <2>6, <2>7, <2>8, <2>9 DEF Safe
<1>8. CASE RunNow(n)
  <2>1. /\ UNCHANGED <<heap, mem, doc, queue, writer>>
        /\ \A x \in Slots : fires'[x].obj = fires[x].obj \/ fires'[x].obj = mem[n]
    BY <1>8 DEF RunNow, IInv, TypeOK, Slots, IdleFire
  <2>2. \A i \in 1..Len(queue) : queue[i].op = "insert" => queue[i].by # NoObj
    BY SchedulerAssumption DEF IInv, QueueSound, SoundWrite
  <2>3. queue \in Seq(Write) BY DEF IInv, TypeOK
  <2> QED BY <2>1, <2>2, <2>3, FiresChange
<1> QED BY <1>1, <1>2, <1>3, <1>4, <1>6, <1>7, <1>8 DEF Operator

LEMMA TickSafe ==
  ASSUME IInv, Safe(queue, heap, mem, doc, writer, fires), Tick
  PROVE  Safe(queue', heap', mem', doc', writer', fires')
<1>1. /\ UNCHANGED <<heap, mem, doc, queue, writer>>
      /\ \A s \in Slots : fires'[s].obj = fires[s].obj
                          \/ \E n \in Names : fires'[s].obj = mem[n]
  BY DEF Tick, Slots, IdleFire
<1>2. \A i \in 1..Len(queue) : queue[i].op = "insert" => queue[i].by # NoObj
  BY SchedulerAssumption DEF IInv, QueueSound, SoundWrite
<1>3. queue \in Seq(Write) BY DEF IInv, TypeOK
<1> QED BY <1>1, <1>2, <1>3, FiresChange

(* A restart makes objects of the documents, and nothing waits. *)
LEMMA CrashSafe ==
  ASSUME IInv, Safe(queue, heap, mem, doc, writer, fires), Crash
  PROVE  Safe(queue', heap', mem', doc', writer', fires')
<1>1. PICK obj \in [Names -> Objs] :
        /\ \A n, m \in Names : obj[n] = obj[m] => n = m
        /\ mem' = [n \in Names |-> IF doc[n] = NoDoc THEN NoObj ELSE obj[n]]
        /\ heap' = [o \in Objs |->
                      IF \E n \in Names : doc[n] # NoDoc /\ obj[n] = o
                      THEN doc[CHOOSE n \in Names : obj[n] = o]
                      ELSE Blank]
  BY DEF Crash
<1>2. doc' = doc /\ queue' = << >> BY DEF Crash
<1>3. \A n \in Names : doc[n] # NoDoc => heap'[obj[n]] = doc[n]
  <2> SUFFICES ASSUME NEW n \in Names, doc[n] # NoDoc PROVE heap'[obj[n]] = doc[n]
    OBVIOUS
  <2>1. (CHOOSE m \in Names : obj[m] = obj[n]) = n BY <1>1
  <2>2. obj[n] \in Objs OBVIOUS
  <2> QED BY <1>1, <2>1, <2>2
<1>4. \A n \in Names : Stored(doc[n]) BY DEF Safe, AsStored
<1>5. ASSUME NEW n \in Names, mem'[n] # NoObj
      PROVE  doc[n] # NoDoc /\ Agrees(heap'[mem'[n]], doc[n])
  <2>1. doc[n] # NoDoc /\ doc[n] \in Task /\ heap'[mem'[n]] = doc[n]
    BY <1>1, <1>3, <1>5 DEF IInv, TypeOK
  <2> QED BY <1>4, <2>1, DocAgrees DEF Stored
<1>6. Len(queue') = 0 BY <1>2
<1> HIDE DEF Agrees
<1>7. LiveSaved(queue', heap', mem', doc', writer')
  BY <1>2, <1>5, <1>6 DEF LiveSaved, Follows
<1>8. Deletes(queue', mem', doc') /\ Inserts(queue', heap', mem', fires')
      /\ AsStored(queue', doc')
  BY <1>2, <1>4, <1>6 DEF Deletes, Inserts, AsStored
<1> QED BY <1>7, <1>8 DEF Safe
(* The store.                                                              *)

(* A write leaves that is no live object's. *)
LEMMA LeaveSafe ==
  ASSUME IInv, Safe(queue, heap, mem, doc, writer, fires), queue # << >>,
         \A n \in Names : mem[n] # NoObj => mem[n] # Next1.by
  PROVE  Safe(Tail(queue), heap, mem, doc, writer, fires)
<1>1. queue \in Seq(Write) BY DEF IInv, TypeOK
<1>2. /\ LiveSaved(queue, heap, mem, doc, writer) /\ Deletes(queue, mem, doc)
      /\ Inserts(queue, heap, mem, fires) /\ AsStored(queue, doc)
  BY DEF Safe
<1>3. LiveSaved(Tail(queue), heap, mem, doc, writer)
  <2> SUFFICES ASSUME NEW m \in Names, mem[m] # NoObj
               PROVE  /\ doc[m] # NoDoc
                      /\ Follows(Tail(queue), heap, mem[m])
                      /\ writer[m] = mem[m] /\ ~Has(Tail(queue), mem[m])
                            => Agrees(heap[mem[m]], doc[m])
    BY DEF LiveSaved
  <2>1. /\ doc[m] # NoDoc /\ Follows(queue, heap, mem[m])
        /\ writer[m] = mem[m] /\ ~Has(queue, mem[m]) => Agrees(heap[mem[m]], doc[m])
    BY <1>2 DEF LiveSaved
  <2>2. mem[m] # Head(queue).by BY DEF Next1
  <2>3. /\ Follows(Tail(queue), heap, mem[m])
        /\ Has(queue, mem[m]) <=> (Has(Tail(queue), mem[m]) \/ mem[m] = Head(queue).by)
    BY <1>1, <2>1, <2>2, WriteLeaves
  <2> QED BY <2>1, <2>2, <2>3
<1> QED BY <1>1, <1>2, <1>3, LeaveRest DEF Safe

(* The object of a write that is no deletion is live at most under the     *)
(* name of the write.                                                      *)
LEMMA WritesOwn ==
  ASSUME IInv, queue # << >>, Next1.op # "delete", NEW n \in Names, mem[n] = Next1.by
  PROVE  n = Next1.name
BY QueueHead, SchedulerAssumption DEF IInv, MemSound, SoundWrite

(* The fire of a write returns. *)
LEMMA ReturnsObjects ==
  ASSUME IInv, NEW s, FireReturns(s)
  PROVE  \A x \in Slots : fires'[x].obj \in {fires[x].obj, NoObj}
<1>1. CASE s \in Slots BY <1>1, FireObjects DEF FireReturns
<1>2. CASE s \notin Slots BY <1>2 DEF FireReturns
<1> QED BY <1>1, <1>2

LEMMA ConflictSafe ==
  ASSUME IInv, Safe(queue, heap, mem, doc, writer, fires), WriteConflict
  PROVE  Safe(queue', heap', mem', doc', writer', fires')
<1>1. /\ queue # << >> /\ UNCHANGED <<heap, mem, doc, writer, fires>>
      /\ queue \in Seq(Write) /\ Next1 = Head(queue)
  BY DEF WriteConflict, IInv, TypeOK, Next1
<1>2. /\ Next1 \in Write /\ SoundWrite(Next1, heap, reviewed) /\ Tail(queue) \in Seq(Write)
  BY <1>1, QueueHead
<1>3. /\ LiveSaved(queue, heap, mem, doc, writer) /\ Deletes(queue, mem, doc)
      /\ Inserts(queue, heap, mem, fires) /\ AsStored(queue, doc)
  BY DEF Safe
<1>4. 1 \in 1..Len(queue) /\ queue[1] = Next1 BY <1>1, LeaveIs
<1>5. CASE Next1.op = "insert"
  <2>1. queue' = Tail(queue) BY <1>5 DEF WriteConflict
  <2>2. \A n \in Names : mem[n] # Next1.by BY <1>3, <1>4, <1>5 DEF Inserts
  <2> QED BY <1>1, <2>1, <2>2, LeaveSafe
<1>6. CASE Next1.op = "create"
  <2> DEFINE w == [Next1 EXCEPT !.op = "update"]
             r == Append(Tail(queue), w)
  <2>1. queue' = r BY <1>6 DEF WriteConflict
  <2>2. /\ w \in Write /\ w.op = "update" /\ w.by = Next1.by /\ w.content = Next1.content
    BY <1>2 DEF Write
  <2>3. LiveSaved(r, heap, mem, doc, writer)
    <3> SUFFICES ASSUME NEW m \in Names, mem[m] # NoObj
                 PROVE  /\ doc[m] # NoDoc
                        /\ Follows(r, heap, mem[m])
                        /\ writer[m] = mem[m] /\ ~Has(r, mem[m])
                              => Agrees(heap[mem[m]], doc[m])
      BY DEF LiveSaved
    <3>1. /\ doc[m] # NoDoc /\ Follows(queue, heap, mem[m])
          /\ writer[m] = mem[m] /\ ~Has(queue, mem[m]) => Agrees(heap[mem[m]], doc[m])
      BY <1>3 DEF LiveSaved
    <3>2. \A i \in 1..Len(queue) : queue[i].by = mem[m] => queue[i].op \in {"create", "update"}
      BY <1>1, <1>3, LiveWrites
    <3>3. Follows(r, heap, mem[m]) /\ (Has(queue, mem[m]) <=> Has(r, mem[m]))
      BY <1>1, <1>6, <3>1, <3>2, CreateTurns
    <3> QED BY <3>1, <3>3
  <2> HIDE DEF w
  <2>4. Stored(w.content) BY <1>3, <1>4, <2>2 DEF AsStored
  <2>5. /\ Deletes(Tail(queue), mem, doc) /\ Inserts(Tail(queue), heap, mem, fires)
        /\ AsStored(Tail(queue), doc)
    BY <1>1, <1>3, LeaveRest
  <2>6. \A i \in 1..Len(Tail(queue)) : Tail(queue)[i].op = "insert" => Tail(queue)[i].by # w.by
    <3>1. \A i \in 1..Len(Tail(queue)) : i + 1 \in 1..Len(queue) /\ Tail(queue)[i] = queue[i + 1]
                                         /\ i + 1 # 1
      BY <1>1, LeaveIs
    <3> QED BY <1>3, <1>4, <2>2, <3>1 DEF Inserts
  <2>7. Deletes(r, mem, doc) /\ Inserts(r, heap, mem, fires) /\ AsStored(r, doc)
    BY <1>2, <2>2, <2>4, <2>5, <2>6, JoinRest
  <2> HIDE DEF r
  <2>8. Safe(r, heap, mem, doc, writer, fires) BY <2>3, <2>7 DEF Safe
  <2> QED BY <1>1, <2>1, <2>8
<1> QED BY <1>5, <1>6 DEF WriteConflict

(* A snapshot becomes the document. *)
LEMMA SnapshotSafe ==
  ASSUME IInv, Safe(queue, heap, mem, doc, writer, fires), WriteSnapshot
  PROVE  Safe(queue', heap', mem', doc', writer', fires')
<1> DEFINE k == Next1.name
           o == Next1.by
           c == Next1.content
           r == Tail(queue)
<1>1. /\ queue # << >> /\ queue \in Seq(Write) /\ Next1 = Head(queue)
      /\ queue' = r /\ heap' = heap /\ FireReturns(Next1.slot)
      /\ doc \in [Names -> Task \cup {NoDoc}] /\ writer \in [Names -> Objs \cup {NoObj}]
      /\ mem \in [Names -> Objs \cup {NoObj}]
  BY DEF WriteSnapshot, IInv, TypeOK, Next1
<1>2. /\ Next1.op \in {"create", "insert", "update"}
      /\ Next1.op = "update" <=> doc[k] # NoDoc
  BY DEF WriteSnapshot
<1>3. /\ Next1 \in Write /\ SoundWrite(Next1, heap, reviewed) /\ r \in Seq(Write)
      /\ \A i \in 1..Len(r) : SoundWrite(r[i], heap, reviewed)
  BY <1>1, QueueHead
<1>4. k \in Names /\ o \in Objs /\ c \in Task /\ c # NoDoc /\ heap[o].name = k
  BY <1>2, <1>3, NoDocAssumption DEF SoundWrite, Write
<1>5. /\ doc' = [doc EXCEPT ![k] = c] /\ writer' = [writer EXCEPT ![k] = o]
      /\ mem' = IF Next1.op = "insert" THEN [mem EXCEPT ![k] = o] ELSE mem
  BY DEF WriteSnapshot
<1>6. /\ 1 \in 1..Len(queue) /\ queue[1] = Next1
      /\ \A i \in 1..Len(r) : i + 1 \in 1..Len(queue) /\ r[i] = queue[i + 1] /\ i + 1 # 1
  BY <1>1, LeaveIs
<1>7. /\ LiveSaved(queue, heap, mem, doc, writer) /\ Deletes(queue, mem, doc)
      /\ Inserts(queue, heap, mem, fires) /\ AsStored(queue, doc)
  BY DEF Safe
<1>8. Deletes(r, mem, doc) /\ Inserts(r, heap, mem, fires) /\ AsStored(r, doc)
  BY <1>1, <1>7, LeaveRest
<1>9. \A n \in Names : n # k => mem[n] # o
  BY <1>1, <1>2, WritesOwn
<1>10. \A x \in Slots : fires'[x].obj \in {fires[x].obj, NoObj} BY <1>1, ReturnsObjects
<1> HIDE DEF k, o, c, r
<1>11. /\ \A n \in Names : doc'[n] = IF n = k THEN c ELSE doc[n]
       /\ \A n \in Names : writer'[n] = IF n = k THEN o ELSE writer[n]
       /\ \A n \in Names : mem'[n] = IF n = k /\ Next1.op = "insert" THEN o ELSE mem[n]
  BY <1>1, <1>4, <1>5
<1>12. Stored(c) BY <1>6, <1>7 DEF AsStored, c
<1>13. AsStored(r, doc') BY <1>8, <1>11, <1>12 DEF AsStored
<1>14. Deletes(r, mem', doc')
  <2>1. \A i \in 1..Len(r) : r[i].name \in Names BY <1>3, WriteParts
  <2>2. Next1.op = "insert" => \A i \in 1..Len(r) : r[i].op = "delete" => r[i].name # k
    BY <1>2, <1>8 DEF Deletes
  <2> QED BY <1>4, <1>8, <1>11, <2>1, <2>2 DEF Deletes
<1>15. Inserts(r, heap, mem', fires')
  <2>1. \A i \in 1..Len(r) : r[i].op = "insert" => r[i].by # NoObj
    BY <1>3, SchedulerAssumption DEF SoundWrite
  <2>2. Next1.op = "insert" => \A i \in 1..Len(r) : r[i].by # o
    BY <1>6, <1>7 DEF Inserts, o
  <2> QED BY <1>8, <1>10, <1>11, <2>1, <2>2 DEF Inserts
<1>16. LiveSaved(r, heap, mem', doc', writer')
  <2> SUFFICES ASSUME NEW m \in Names, mem'[m] # NoObj
               PROVE  /\ doc'[m] # NoDoc
                      /\ Follows(r, heap, mem'[m])
                      /\ writer'[m] = mem'[m] /\ ~Has(r, mem'[m])
                            => Agrees(heap[mem'[m]], doc'[m])
    BY DEF LiveSaved
  <2>1. CASE m # k
    <3>1. /\ mem'[m] = mem[m] /\ doc'[m] = doc[m] /\ writer'[m] = writer[m] /\ mem[m] # o
      BY <1>9, <1>11, <2>1
    <3>2. /\ doc[m] # NoDoc /\ Follows(queue, heap, mem[m])
          /\ writer[m] = mem[m] /\ ~Has(queue, mem[m]) => Agrees(heap[mem[m]], doc[m])
      BY <1>7, <3>1 DEF LiveSaved
    <3>3. mem[m] # Head(queue).by BY <1>1, <3>1 DEF o
    <3>4. /\ Follows(r, heap, mem[m])
          /\ Has(queue, mem[m]) <=> (Has(r, mem[m]) \/ mem[m] = Head(queue).by)
      BY <1>1, <3>2, <3>3, WriteLeaves DEF r
    <3> QED BY <3>1, <3>2, <3>3, <3>4
  <2>2. CASE m = k /\ Next1.op = "insert"
    <3>1. mem'[m] = o /\ doc'[m] = c BY <1>11, <2>2
    <3>2. \A i \in 1..Len(r) : r[i].by # o BY <1>6, <1>7, <2>2 DEF Inserts, o
    <3>3. Agrees(heap[o], c) BY <1>6, <1>7, <2>2 DEF Inserts, o, c
    <3> QED BY <1>4, <3>1, <3>2, <3>3 DEF Follows
  <2>3. CASE m = k /\ Next1.op # "insert"
    <3>1. mem'[m] = mem[m] /\ doc'[m] = c /\ writer'[m] = o /\ mem[m] # NoObj
      BY <1>11, <2>3
    <3>2. doc[m] # NoDoc /\ Follows(queue, heap, mem[m]) BY <1>7, <3>1 DEF LiveSaved
    <3>3. Head(queue).op = "update" BY <1>1, <1>2, <2>3, <3>2
    <3>4. \A i \in 1..Len(queue) : queue[i].by = mem[m] => queue[i].op \in {"create", "update"}
      BY <1>1, <1>7, <3>1, LiveWrites
    <3>5. /\ Follows(r, heap, mem[m])
          /\ mem[m] = Head(queue).by /\ ~Has(r, mem[m])
               => Agrees(heap[mem[m]], Head(queue).content)
      <4>1. CASE mem[m] = Head(queue).by
        BY <1>1, <3>2, <3>3, <3>4, <4>1, WriteLeaves DEF r
      <4>2. CASE mem[m] # Head(queue).by
        BY <1>1, <3>2, <4>2, WriteLeaves DEF r
      <4> QED BY <4>1, <4>2
    <3>6. Head(queue).by = o /\ Head(queue).content = c BY <1>1 DEF o, c
    <3> QED BY <1>4, <3>1, <3>5, <3>6
  <2> QED BY <2>1, <2>2, <2>3
<1>17. Safe(r, heap, mem', doc', writer', fires')
  BY <1>13, <1>14, <1>15, <1>16 DEF Safe
<1> QED BY <1>1, <1>17 DEF r

(* A document is deleted: its task is not live. *)
LEMMA DeleteSafe ==
  ASSUME IInv, Safe(queue, heap, mem, doc, writer, fires), WriteDelete
  PROVE  Safe(queue', heap', mem', doc', writer', fires')
<1>1. /\ queue # << >> /\ queue \in Seq(Write) /\ Next1.op = "delete"
      /\ queue' = Tail(queue) /\ UNCHANGED <<heap, mem, fires>>
      /\ doc' = [doc EXCEPT ![Next1.name] = NoDoc]
      /\ writer' = [writer EXCEPT ![Next1.name] = NoObj]
      /\ doc \in [Names -> Task \cup {NoDoc}] /\ writer \in [Names -> Objs \cup {NoObj}]
  BY DEF WriteDelete, IInv, TypeOK
<1>2. /\ 1 \in 1..Len(queue) /\ queue[1] = Next1
      /\ \A i \in 1..Len(queue') : i + 1 \in 1..Len(queue) /\ queue'[i] = queue[i + 1] /\ i + 1 # 1
  BY <1>1, LeaveIs DEF Next1
<1>3. Deletes(queue, mem, doc) BY DEF Safe
<1>4. Next1.by = NoObj /\ mem[Next1.name] = NoObj
      /\ \A i \in 1..Len(queue') : queue'[i].op = "delete" => queue'[i].name # Next1.name
  BY <1>1, <1>2, <1>3 DEF Deletes
<1>5. Safe(queue', heap, mem, doc, writer, fires)
  BY <1>1, <1>4, LeaveSafe
<1>6. Tail(queue) \in Seq(Write) BY <1>1, QueueHead
<1>7. \A i \in 1..Len(queue') : queue'[i].name \in Names BY <1>1, <1>6, WriteParts
<1>8. \A n \in Names : /\ doc'[n] = IF n = Next1.name THEN NoDoc ELSE doc[n]
                       /\ writer'[n] = IF n = Next1.name THEN NoObj ELSE writer[n]
  BY <1>1
<1>9. LiveSaved(queue', heap, mem, doc', writer')
  BY <1>4, <1>5, <1>8 DEF Safe, LiveSaved
<1>10. Deletes(queue', mem, doc')
  BY <1>4, <1>5, <1>7, <1>8 DEF Safe, Deletes
<1>11. AsStored(queue', doc') BY <1>5, <1>8 DEF Safe, AsStored, Stored
<1>12. Inserts(queue', heap, mem, fires) BY <1>5 DEF Safe
<1> QED BY <1>1, <1>9, <1>10, <1>11, <1>12 DEF Safe

(* Without an error of the store only an update fails that finds no        *)
(* document, and then the task is not live.                                *)
LEMMA FailSafe ==
  ASSUME IInv, Safe(queue, heap, mem, doc, writer, fires), WriteFails, errors' = errors
  PROVE  Safe(queue', heap', mem', doc', writer', fires')
<1>1. /\ queue # << >> /\ Next1.op = "update" /\ doc[Next1.name] = NoDoc
      /\ UNCHANGED <<mem, doc, writer>>
  BY DEF WriteFails, IInv, TypeOK
<1>2. /\ Tail(queue) \in Seq(Write) /\ Next1 \in Write
      /\ \A i \in 1..Len(Tail(queue)) : SoundWrite(Tail(queue)[i], heap, reviewed)
  BY <1>1, QueueHead
<1>3. Safe(Tail(queue), heap, mem, doc, writer, fires)
  <2>1. ASSUME NEW n \in Names, mem[n] # NoObj, mem[n] = Next1.by PROVE FALSE
    <3>1. n = Next1.name BY <1>1, <2>1, WritesOwn
    <3> QED BY <1>1, <2>1, <3>1 DEF Safe, LiveSaved
  <2> QED BY <1>1, <2>1, LeaveSafe
<1>4. CASE Next1.slot \in Slots /\ fires[Next1.slot].pc = "savingOk"
  BY <1>1, <1>2, <1>3, <1>4, ExceptionSafe DEF WriteFails
<1>5. CASE ~(Next1.slot \in Slots /\ fires[Next1.slot].pc = "savingOk")
  <2>1. queue' = Tail(queue) /\ FireReturns(Next1.slot) /\ heap' = heap
    BY <1>5 DEF WriteFails
  <2>2. \A x \in Slots : fires'[x].obj \in {fires[x].obj, NoObj} BY <2>1, ReturnsObjects
  <2>3. \A i \in 1..Len(Tail(queue)) :
           Tail(queue)[i].op = "insert" => Tail(queue)[i].by # NoObj
    BY <1>2, SchedulerAssumption DEF SoundWrite
  <2> QED BY <1>1, <1>2, <1>3, <2>1, <2>2, <2>3, FiresChange
<1> QED BY <1>4, <1>5

LEMMA SavedNext == IInv /\ Saved /\ [Next]_vars => Saved'
<1> SUFFICES ASSUME IInv, Saved, [Next]_vars, errors' = 0
             PROVE  Safe(queue', heap', mem', doc', writer', fires')
  BY DEF Saved, Safe, LiveSaved, Deletes, Inserts, AsStored, Follows, Has, Later,
         Agrees, Stored, ToDoc
<1>1. errors = 0 /\ Safe(queue, heap, mem, doc, writer, fires)
  <2>1. errors \in Nat /\ errors' \in {errors, errors + 1}
    BY DEF IInv, TypeOK, Next, Operator, CreateTask, UpdateTask, ClearCondition,
           UpdateRejected, ApproveTask, RevokeTask, DeleteTask, RunNow, Tick, FireStep,
           BeginSkip, BeginCondition, BeginAgent, ConditionWake, ConditionSkip,
           ConditionFailed, AgentDone, AgentTimeout, AgentFailed, StoreStep, WriteSnapshot,
           WriteConflict, WriteDelete, WriteFails, PassTime, Crash, vars
  <2> QED BY <2>1 DEF Saved
<1>2. CASE \E n \in Names : Operator(n) BY <1>1, <1>2, OperatorSafe
<1>3. CASE Tick BY <1>1, <1>3, TickSafe
<1>4. CASE \E s \in Slots : FireStep(s) BY <1>1, <1>4, FireSafe
<1>5. CASE StoreStep
  BY <1>1, <1>5, SnapshotSafe, ConflictSafe, DeleteSafe, FailSafe DEF StoreStep
<1>6. CASE PassTime BY <1>1, <1>6 DEF PassTime
<1>7. CASE Crash BY <1>1, <1>7, CrashSafe
<1>8. CASE UNCHANGED vars BY <1>1, <1>8 DEF vars
<1> QED BY <1>2, <1>3, <1>4, <1>5, <1>6, <1>7, <1>8 DEF Next

(* What was acknowledged survives a restart: when no write waits and none  *)
(* failed, a live task has a document, and the one it wrote last says what *)
(* the object says, for any schedules, edits, fires, conflicts of the      *)
(* store and restarts (_save_task, scheduler.py:110).                      *)
THEOREM AcknowledgedIsStored == Spec => []StoreAgrees
<1>1. Init => Saved
  BY EmptySeq DEF Init, Saved, Safe, LiveSaved, Deletes, Inserts, AsStored, Stored
<1>2. IInv /\ Saved => StoreAgrees
  <2> SUFFICES ASSUME Saved, queue = << >>, errors = 0, NEW n \in Names, mem[n] # NoObj
               PROVE  /\ doc[n] # NoDoc
                      /\ writer[n] = mem[n] => Agrees(heap[mem[n]], doc[n])
    BY DEF StoreAgrees, Agrees
  <2>1. ~Has(queue, mem[n]) BY DEF Has
  <2> QED BY <2>1 DEF Saved, Safe, LiveSaved
<1> QED BY <1>1, <1>2, SavedNext, Invariance, PTL DEF Spec

-----------------------------------------------------------------------------
(* Strikes.  While only the loop fires tasks an object is in one fire at   *)
(* most, for its name is that of the slot; so nobody forgives a strike     *)
(* while a fire of the object goes on, and the count of the object, which  *)
(* does not forget as soon as the history does, is never behind it.        *)

FiresOwn == \A s \in Slots : fires[s].pc # "idle" => TaskOf(s).name = s[2]

Struck ==
  \A o \in Objs :
    /\ streak[o] <= heap[o].condRetry
    /\ streak[o] # 0 => heap[o].perm.code # NoCode

Judged ==
  \A s \in Slots :
    /\ fires[s].pc = "condition" => TaskOf(s).perm.code # NoCode
    /\ fires[s].pc = "agent" => streak[fires[s].obj] = 0

Counting == FiresOwn /\ Struck /\ Judged

LEMMA InitCounting == Init => Counting
<1> SUFFICES ASSUME Init PROVE Counting OBVIOUS
<1>1. FiresOwn /\ Judged BY DEF Init, FiresOwn, Judged, IdleFire
<1>2. Blank.condRetry = 0 BY DEF Blank, NewTask
<1> QED BY <1>1, <1>2 DEF Init, Counting, Struck

LEMMA OneFireEach ==
  ASSUME "manual" \notin Sources, Counting, NEW s \in Slots, NEW x \in Slots,
         fires[s].pc # "idle", fires[x].pc # "idle", fires[s].obj = fires[x].obj
  PROVE  s = x
<1>1. s[2] = x[2] BY DEF Counting, FiresOwn, TaskOf
<1>2. s[1] = "tick" /\ x[1] = "tick" BY SchedulerAssumption DEF Slots
<1> QED BY <1>1, <1>2 DEF Slots

(* A call changes an object and no count: it keeps the name, and a         *)
(* condition that is there stays one.                                      *)
LEMMA CallCounting ==
  ASSUME IInv, Counting, NEW o \in Objs, NEW t \in Task, UNCHANGED <<fires, streak>>,
         heap' = [heap EXCEPT ![o] = t],
         t.name = heap[o].name, t.condRetry = heap[o].condRetry,
         heap[o].perm.code # NoCode => t.perm.code # NoCode
  PROVE  Counting'
<1>1. \A x \in Objs :
        /\ heap'[x].name = heap[x].name /\ heap'[x].condRetry = heap[x].condRetry
        /\ heap[x].perm.code # NoCode => heap'[x].perm.code # NoCode
  BY DEF IInv, TypeOK
<1>2. \A s \in Slots : fires[s].pc # "idle" => fires[s].obj \in Objs
  BY DEF IInv, FiresSound
<1>3. FiresOwn' BY <1>1, <1>2 DEF Counting, FiresOwn, TaskOf
<1>4. Struck' BY <1>1 DEF Counting, Struck
<1>5. Judged' BY <1>1, <1>2 DEF Counting, Judged, TaskOf
<1> QED BY <1>3, <1>4, <1>5 DEF Counting

LEMMA CreateCounting ==
  ASSUME IInv, Counting, NEW n \in Names, NEW o \in Objs, NEW p \in Perm,
         CreateTask(n, o, p)
  PROVE  Counting'
<1>1. /\ \A x \in Objs \ {o} : heap'[x] = heap[x] /\ streak'[x] = streak[x]
      /\ heap'[o].condRetry = 0 /\ streak'[o] = 0 /\ fires' = fires
  BY DEF CreateTask, NewTask, IInv, TypeOK
<1>2. \A s \in Slots : fires[s].obj # o BY DEF CreateTask, Free, Referenced
<1>3. \A s \in Slots : fires[s].pc # "idle" => fires[s].obj \in Objs \ {o}
  BY <1>2 DEF IInv, FiresSound
<1>4. FiresOwn' BY <1>1, <1>3 DEF Counting, FiresOwn, TaskOf
<1>5. Struck' BY <1>1 DEF Counting, Struck
<1>6. Judged' BY <1>1, <1>3 DEF Counting, Judged, TaskOf
<1> QED BY <1>4, <1>5, <1>6 DEF Counting

LEMMA OperatorCounting ==
  ASSUME "manual" \notin Sources, IInv, Counting, NEW n \in Names, Operator(n)
  PROVE  Counting'
<1> DEFINE o == mem[n]
<1>1. mem[n] # NoObj => o \in Objs /\ heap[o] \in Task BY DEF IInv, TypeOK
<1>2. ASSUME NEW p \in Perm, NEW en \in BOOLEAN, UpdateTask(n, p, en) PROVE Counting'
  <2> DEFINE t == Updated(heap[o], p, en)
  <2>1. /\ mem[n] # NoObj /\ UNCHANGED <<fires, streak>>
        /\ heap' = [heap EXCEPT ![o] = t]
        /\ p.code # heap[o].perm.code => p.code # NoCode
    BY <1>2 DEF UpdateTask, ChangeAndSave
  <2>2. /\ t \in Task /\ t.name = heap[o].name /\ t.condRetry = heap[o].condRetry
        /\ t.perm = p
    BY <1>1, <2>1 DEF Updated, Task
  <2> HIDE DEF t
  <2> QED BY <1>1, <2>1, <2>2, CallCounting
<1>3. CASE ClearCondition(n)
  <2>1. heap[mem[n]].perm \in Perm /\ heap[mem[n]].enabled \in BOOLEAN
    BY <1>1, <1>3 DEF ClearCondition, Task
  <2> QED BY <1>2, <1>3, <2>1 DEF ClearCondition
<1>4. ASSUME NEW p \in Perm, UpdateRejected(n, p) PROVE Counting'
  <2> DEFINE t == [heap[o] EXCEPT !.approved = @ /\ ~ResetsApproval(heap[o].perm, p)]
  <2>1. /\ mem[n] # NoObj /\ UNCHANGED <<fires, streak>>
        /\ heap' = [heap EXCEPT ![o] = t]
    BY <1>4 DEF UpdateRejected
  <2>2. /\ t \in Task /\ t.name = heap[o].name /\ t.condRetry = heap[o].condRetry
        /\ t.perm = heap[o].perm
    BY <1>1, <2>1 DEF Task
  <2> HIDE DEF t
  <2> QED BY <1>1, <2>1, <2>2, CallCounting
<1>5. CASE ApproveTask(n) \/ RevokeTask(n)
  <2>1. PICK b \in BOOLEAN : heap' = [heap EXCEPT ![o] = [heap[o] EXCEPT !.approved = b]]
    BY <1>5 DEF ApproveTask, RevokeTask, ChangeAndSave
  <2> DEFINE t == [heap[o] EXCEPT !.approved = b]
  <2>2. mem[n] # NoObj /\ UNCHANGED <<fires, streak>>
    BY <1>5 DEF ApproveTask, RevokeTask
  <2>3. /\ t \in Task /\ t.name = heap[o].name /\ t.condRetry = heap[o].condRetry
        /\ t.perm = heap[o].perm
    BY <1>1, <2>2 DEF Task
  <2>4. heap' = [heap EXCEPT ![o] = t] BY <2>1
  <2> HIDE DEF t
  <2> QED BY <1>1, <2>2, <2>3, <2>4, CallCounting
<1>6. CASE DeleteTask(n)
  BY <1>6 DEF DeleteTask, Counting, FiresOwn, Struck, Judged, TaskOf
<1>7. CASE RunNow(n) BY <1>7 DEF RunNow
<1> QED BY <1>2, <1>3, <1>4, <1>5, <1>6, <1>7, CreateCounting DEF Operator

LEMMA TickCounting ==
  ASSUME IInv, Counting, Tick PROVE Counting'
<1>1. /\ UNCHANGED <<heap, streak>>
      /\ \A s \in Slots :
           \/ fires'[s] = fires[s]
           \/ /\ s[2] \in Names /\ mem[s[2]] # NoObj
              /\ fires'[s].pc = "start" /\ fires'[s].obj = mem[s[2]]
  BY DEF Tick, Slots, IdleFire
<1>2. FiresOwn' BY <1>1 DEF Counting, FiresOwn, TaskOf, IInv, MemSound
<1>3. Struck' BY <1>1 DEF Counting, Struck
<1>4. Judged' BY <1>1 DEF Counting, Judged, TaskOf
<1> QED BY <1>2, <1>3, <1>4 DEF Counting

(* A fire goes on with its own object; no other fire is of that object.    *)
LEMMA FireCounting ==
  ASSUME "manual" \notin Sources, IInv, Counting,
         NEW s \in Slots, fires[s].pc # "idle",
         NEW t \in Task, t.name = TaskOf(s).name, t.perm = TaskOf(s).perm,
         NEW k \in Nat, k <= t.condRetry, k # 0 => t.perm.code # NoCode,
         heap' = [heap EXCEPT ![fires[s].obj] = t],
         streak' = [streak EXCEPT ![fires[s].obj] = k],
         NEW f \in Fire, fires' = [fires EXCEPT ![s] = f],
         f.pc # "idle" => f.obj = fires[s].obj,
         f.pc = "condition" => t.perm.code # NoCode,
         f.pc = "agent" => k = 0
  PROVE  Counting'
<1> DEFINE o == fires[s].obj
<1>1. o \in Objs /\ TaskOf(s) = heap[o] BY FireOutcomes DEF TaskOf
<1>2. /\ heap'[o] = t /\ streak'[o] = k /\ fires'[s] = f
      /\ \A x \in Objs \ {o} : heap'[x] = heap[x] /\ streak'[x] = streak[x]
      /\ \A x \in Slots \ {s} : fires'[x] = fires[x]
  BY <1>1 DEF IInv, TypeOK
<1>3. \A x \in Slots \ {s} : fires[x].pc # "idle" => fires[x].obj \in Objs \ {o}
  BY OneFireEach DEF IInv, FiresSound
<1>4. FiresOwn'
  <2> SUFFICES ASSUME NEW x \in Slots, fires'[x].pc # "idle"
               PROVE  heap'[fires'[x].obj].name = x[2]
    BY DEF FiresOwn, TaskOf
  <2>1. CASE x = s BY <1>1, <1>2, <2>1 DEF Counting, FiresOwn
  <2>2. CASE x # s BY <1>2, <1>3, <2>2 DEF Counting, FiresOwn, TaskOf
  <2> QED BY <2>1, <2>2
<1>5. Struck' BY <1>2 DEF Counting, Struck
<1>6. Judged'
  <2> SUFFICES ASSUME NEW x \in Slots
               PROVE  /\ fires'[x].pc = "condition" => heap'[fires'[x].obj].perm.code # NoCode
                      /\ fires'[x].pc = "agent" => streak'[fires'[x].obj] = 0
    BY DEF Judged, TaskOf
  <2>1. CASE x = s BY <1>2, <2>1
  <2>2. CASE x # s BY <1>2, <1>3, <2>2 DEF Counting, Judged, TaskOf
  <2> QED BY <2>1, <2>2
<1> QED BY <1>4, <1>5, <1>6 DEF Counting

(* What a fire finds, and what it makes of its task.                       *)
LEMMA FireFinds ==
  ASSUME IInv, Counting, NEW s \in Slots, fires[s].pc # "idle"
  PROVE  LET o == fires[s].obj IN
         /\ o \in Objs /\ TaskOf(s) = heap[o] /\ TaskOf(s) \in Task
         /\ heap = [heap EXCEPT ![o] = TaskOf(s)]
         /\ streak = [streak EXCEPT ![o] = streak[o]]
         /\ streak[o] \in Nat /\ streak[o] <= TaskOf(s).condRetry
         /\ streak[o] # 0 => TaskOf(s).perm.code # NoCode
         /\ IdleFire \in Fire /\ IdleFire.pc = "idle"
BY FireOutcomes, IdleFireSound DEF TaskOf, IInv, TypeOK, Counting, Struck

LEMMA OutcomeCounts ==
  ASSUME IInv, NEW s \in Slots, fires[s].pc # "idle"
  PROVE  /\ \A t \in Outcomes(s) :
              t \in Task /\ t.name = TaskOf(s).name /\ t.perm = TaskOf(s).perm
         /\ \A t \in {Advanced(s), TimedOut(s)} : t.condRetry = TaskOf(s).condRetry
<1>1. TaskOf(s) \in Task /\ fires[s].now \in Nat
  BY FireOutcomes DEF IInv, TypeOK, Fire
<1> DEFINE Like(t) == t \in Task /\ t.name = TaskOf(s).name /\ t.perm = TaskOf(s).perm
<1>2. Like(Advanced(s)) /\ Advanced(s).condRetry = TaskOf(s).condRetry
  BY <1>1 DEF Advanced, Task
<1> HIDE DEF Like
<1>3. Like(TimedOut(s)) /\ TimedOut(s).condRetry = TaskOf(s).condRetry
  BY <1>2 DEF TimedOut, Task, Like
<1>4. Like(Completed(s)) BY <1>2 DEF Completed, Task, Like
<1>5. Like([Advanced(s) EXCEPT !.enabled = FALSE, !.condRetry = 0])
  BY <1>2 DEF Task, Like
<1> QED BY <1>2, <1>3, <1>4, <1>5 DEF Outcomes, Like

(* The fire goes elsewhere, with its task changed or not.                  *)
LEMMA GotoCounting ==
  ASSUME "manual" \notin Sources, IInv, Counting,
         NEW s \in Slots, fires[s].pc # "idle",
         NEW t \in Task, t.name = TaskOf(s).name, t.perm = TaskOf(s).perm,
         NEW k \in Nat, k <= t.condRetry, k # 0 => t.perm.code # NoCode,
         heap' = [heap EXCEPT ![fires[s].obj] = t],
         streak' = [streak EXCEPT ![fires[s].obj] = k],
         NEW pc \in {"agent", "saving", "savingOk"}, Goto(s, pc), pc = "agent" => k = 0
  PROVE  Counting'
<1> DEFINE f == [[fires[s] EXCEPT !.pc = pc] EXCEPT !.ran = NoPerm]
<1>1. f \in Fire /\ fires' = [fires EXCEPT ![s] = f] BY GotoFire
<1>2. f.obj = fires[s].obj /\ f.pc = pc BY FireOutcomes DEF Fire
<1> HIDE DEF f
<1> QED BY <1>1, <1>2, FireCounting

LEMMA ExceptionCounting ==
  ASSUME "manual" \notin Sources, IInv, Counting,
         NEW s \in Slots, fires[s].pc # "idle", NEW q, HandleException(s, q),
         UNCHANGED streak
  PROVE  Counting'
<1> DEFINE o == fires[s].obj
           k == streak[o]
<1>1. /\ TaskOf(s) = heap[o] /\ TaskOf(s) \in Task
      /\ streak' = [streak EXCEPT ![o] = k] /\ k \in Nat /\ k <= TaskOf(s).condRetry
      /\ k # 0 => TaskOf(s).perm.code # NoCode
      /\ IdleFire \in Fire /\ IdleFire.pc = "idle"
  BY FireFinds
<1>2. CASE heap[o].retry + 1 >= MaxStrikes
  <2>1. heap' = [heap EXCEPT ![o] = TimedOut(s)] /\ Goto(s, "saving")
    BY <1>2 DEF HandleException
  <2>2. /\ TimedOut(s) \in Task /\ TimedOut(s).name = TaskOf(s).name
        /\ TimedOut(s).perm = TaskOf(s).perm
        /\ TimedOut(s).condRetry = TaskOf(s).condRetry
    BY OutcomeCounts DEF Outcomes
  <2> HIDE DEF o, k
  <2> QED BY <1>1, <2>1, <2>2, GotoCounting DEF o
<1>3. CASE ~(heap[o].retry + 1 >= MaxStrikes)
  <2> DEFINE t == [heap[o] EXCEPT !.retry = @ + 1]
  <2>1. heap' = [heap EXCEPT ![o] = t] /\ fires' = [fires EXCEPT ![s] = IdleFire]
    BY <1>3 DEF HandleException
  <2>2. /\ t \in Task /\ t.name = TaskOf(s).name /\ t.perm = TaskOf(s).perm
        /\ t.condRetry = TaskOf(s).condRetry
    BY <1>1 DEF Task
  <2> HIDE DEF t, o, k
  <2> QED BY <1>1, <2>1, <2>2, FireCounting DEF o
<1> QED BY <1>2, <1>3

LEMMA FireStepCounting ==
  ASSUME "manual" \notin Sources, IInv, Counting, NEW s \in Slots, FireStep(s)
  PROVE  Counting'
<1> USE DEF At
<1> DEFINE o == fires[s].obj
           k == streak[o]
<1>1. fires[s].pc # "idle"
  BY DEF FireStep, BeginSkip, BeginCondition, BeginAgent, ConditionWake, ConditionSkip,
         ConditionFailed, AgentDone, AgentTimeout, AgentFailed
<1>2. /\ TaskOf(s) = heap[o] /\ TaskOf(s) \in Task
      /\ heap = [heap EXCEPT ![o] = TaskOf(s)] /\ streak = [streak EXCEPT ![o] = k]
      /\ k \in Nat /\ k <= TaskOf(s).condRetry
      /\ k # 0 => TaskOf(s).perm.code # NoCode
      /\ IdleFire \in Fire /\ IdleFire.pc = "idle"
  BY <1>1, FireFinds
<1>3. /\ \A t \in Outcomes(s) :
           t \in Task /\ t.name = TaskOf(s).name /\ t.perm = TaskOf(s).perm
      /\ \A t \in {Advanced(s), TimedOut(s)} : t.condRetry = TaskOf(s).condRetry
  BY <1>1, OutcomeCounts
<1>4. /\ Advanced(s) \in Outcomes(s) /\ TimedOut(s) \in Outcomes(s)
      /\ Completed(s) \in Outcomes(s)
      /\ [Advanced(s) EXCEPT !.enabled = FALSE, !.condRetry = 0] \in Outcomes(s)
  BY DEF Outcomes
<1>5. TaskOf(s).condRetry \in Nat /\ \A t \in Task : t.condRetry \in Nat
  BY <1>2 DEF Task
<1> HIDE DEF k
<1>6. CASE BeginSkip(s)
  <2>1. /\ heap' = [heap EXCEPT ![o] = Advanced(s)] /\ Goto(s, "saving")
        /\ streak' = streak
    BY <1>6 DEF BeginSkip, ChangeAndSave
  <2> QED BY <1>1, <1>2, <1>3, <1>4, <2>1, GotoCounting
<1>7. CASE BeginCondition(s)
  <2> DEFINE f == [[fires[s] EXCEPT !.pc = "condition"] EXCEPT !.ran = TaskOf(s).perm]
  <2>1. /\ fires' = [fires EXCEPT ![s] = f] /\ UNCHANGED <<heap, streak>>
        /\ TaskOf(s).perm.code # NoCode
    BY <1>7 DEF BeginCondition, IInv, TypeOK
  <2>2. f \in Fire /\ f.obj = o /\ f.pc = "condition"
    BY <1>1, <1>2, FireOutcomes DEF Fire, Task
  <2> HIDE DEF f
  <2> QED BY <1>1, <1>2, <2>1, <2>2, FireCounting
<1>8. CASE BeginAgent(s)
  <2>1. Goto(s, "agent") /\ UNCHANGED <<heap, streak>> /\ k = 0
    BY <1>2, <1>8 DEF BeginAgent
  <2> QED BY <1>1, <1>2, <2>1, GotoCounting
<1>9. CASE ConditionWake(s)
  <2>1. /\ heap' = [heap EXCEPT ![o] = TaskOf(s)] /\ Goto(s, "agent")
        /\ streak' = [streak EXCEPT ![o] = 0]
    BY <1>2, <1>9 DEF ConditionWake
  <2>2. TaskOf(s) \in Task /\ 0 \in Nat /\ 0 <= TaskOf(s).condRetry BY <1>2, <1>5
  <2> HIDE DEF o
  <2> QED BY <1>1, <2>1, <2>2, GotoCounting DEF o
<1>10. CASE ConditionSkip(s)
  <2>1. /\ heap' = [heap EXCEPT ![o] = Completed(s)] /\ Goto(s, "saving")
        /\ streak' = [streak EXCEPT ![o] = 0]
    BY <1>10 DEF ConditionSkip, ChangeAndSave
  <2>2. /\ Completed(s) \in Task /\ Completed(s).name = TaskOf(s).name
        /\ Completed(s).perm = TaskOf(s).perm
    BY <1>3, <1>4
  <2>3. 0 \in Nat /\ 0 <= Completed(s).condRetry BY <1>5, <2>2
  <2> QED BY <1>1, <2>1, <2>2, <2>3, GotoCounting
<1>11. CASE ConditionFailed(s)
  <2>1. CASE heap[o].condRetry + 1 >= MaxStrikes
    <3> DEFINE t == [Advanced(s) EXCEPT !.enabled = FALSE, !.condRetry = 0]
    <3>1. /\ heap' = [heap EXCEPT ![o] = t] /\ Goto(s, "saving")
          /\ streak' = [streak EXCEPT ![o] = 0]
      BY <1>11, <2>1 DEF ConditionFailed, ChangeAndSave
    <3>2. t \in Outcomes(s) BY <1>4
    <3> HIDE DEF t
    <3>3. t \in Task /\ t.name = TaskOf(s).name /\ t.perm = TaskOf(s).perm
      BY <1>3, <3>2
    <3>4. 0 \in Nat /\ 0 <= t.condRetry BY <1>5, <3>3
    <3> QED BY <1>1, <3>1, <3>3, <3>4, GotoCounting
  <2>2. CASE ~(heap[o].condRetry + 1 >= MaxStrikes)
    <3> DEFINE t == [heap[o] EXCEPT !.condRetry = @ + 1]
               j == IF streak[o] < MaxStrikes THEN streak[o] + 1 ELSE streak[o]
    <3>1. /\ heap' = [heap EXCEPT ![o] = t] /\ streak' = [streak EXCEPT ![o] = j]
          /\ fires' = [fires EXCEPT ![s] = IdleFire]
      BY <1>11, <2>2 DEF ConditionFailed
    <3>2. /\ t \in Task /\ t.name = TaskOf(s).name /\ t.perm = TaskOf(s).perm
          /\ t.condRetry = TaskOf(s).condRetry + 1
      BY <1>2 DEF Task
    <3>3. j \in Nat /\ j <= t.condRetry
      BY <1>2, <1>5, <3>2 DEF k, MaxStrikes
    <3>4. t.perm.code # NoCode
      BY <1>11, <3>2 DEF ConditionFailed, Counting, Judged
    <3> HIDE DEF t, j
    <3> QED BY <1>1, <1>2, <3>1, <3>2, <3>3, <3>4, FireCounting
  <2> QED BY <2>1, <2>2
<1>12. CASE AgentDone(s)
  <2>1. /\ heap' = [heap EXCEPT ![o] = Completed(s)] /\ Goto(s, "savingOk")
        /\ streak' = streak /\ k = 0
    BY <1>12 DEF AgentDone, ChangeAndSave, Counting, Judged, k
  <2>2. /\ Completed(s) \in Task /\ Completed(s).name = TaskOf(s).name
        /\ Completed(s).perm = TaskOf(s).perm
    BY <1>3, <1>4
  <2>3. 0 <= Completed(s).condRetry BY <1>5, <2>2
  <2> QED BY <1>1, <1>2, <2>1, <2>2, <2>3, GotoCounting
<1>13. CASE AgentTimeout(s)
  <2>1. /\ heap' = [heap EXCEPT ![o] = TimedOut(s)] /\ Goto(s, "saving")
        /\ streak' = streak
    BY <1>13 DEF AgentTimeout, ChangeAndSave
  <2> QED BY <1>1, <1>2, <1>3, <1>4, <2>1, GotoCounting
<1>14. CASE AgentFailed(s)
  BY <1>1, <1>14, ExceptionCounting DEF AgentFailed
<1> QED BY <1>6, <1>7, <1>8, <1>9, <1>10, <1>11, <1>12, <1>13, <1>14 DEF FireStep

LEMMA StoreCounting ==
  ASSUME "manual" \notin Sources, IInv, Counting, StoreStep PROVE Counting'
<1>1. CASE \E s \in Slots : /\ fires[s].pc = "savingOk" /\ UNCHANGED streak
                            /\ \E q : HandleException(s, q)
  BY <1>1, ExceptionCounting
<1>2. CASE UNCHANGED <<heap, streak>> /\ (UNCHANGED fires \/ \E s : FireReturns(s))
  <2>1. /\ UNCHANGED <<heap, streak>>
        /\ \A x \in Slots : fires'[x] = fires[x] \/ fires'[x].pc = "idle"
    BY <1>2 DEF FireReturns, IdleFire, IInv, TypeOK
  <2> QED BY <2>1 DEF Counting, FiresOwn, Struck, Judged, TaskOf
<1> QED BY <1>1, <1>2
     DEF StoreStep, WriteSnapshot, WriteConflict, WriteDelete, WriteFails

LEMMA CountingNext ==
  ASSUME "manual" \notin Sources
  PROVE  IInv /\ Counting /\ [Next]_vars => Counting'
<1> SUFFICES ASSUME IInv, Counting, [Next]_vars PROVE Counting' OBVIOUS
<1>1. CASE \E n \in Names : Operator(n) BY <1>1, OperatorCounting
<1>2. CASE Tick BY <1>2, TickCounting
<1>3. CASE \E s \in Slots : FireStep(s) BY <1>3, FireStepCounting
<1>4. CASE StoreStep BY <1>4, StoreCounting
<1>5. CASE PassTime \/ UNCHANGED vars
  BY <1>5 DEF PassTime, vars, Counting, FiresOwn, Struck, Judged, TaskOf
<1>6. CASE Crash
  <2>1. /\ \A o \in Objs : streak'[o] = 0
        /\ \A s \in Slots : fires'[s].pc = "idle"
    BY <1>6 DEF Crash, IdleFire
  <2>2. \A o \in Objs : heap'[o].condRetry \in Nat
    BY <1>6, CrashInv DEF IInv, TypeOK, Task
  <2> QED BY <2>1, <2>2 DEF Counting, FiresOwn, Struck, Judged, TaskOf
<1> QED BY <1>1, <1>2, <1>3, <1>4, <1>5, <1>6 DEF Next

(* While only the loop fires tasks the third failed evaluation in a row    *)
(* switches the task off, whatever is edited, approved, saved, lost or     *)
(* restarted between them, and whatever else the loop fires meanwhile      *)
(* (_handle_condition_failure, scheduler.py:551-570).                      *)
THEOREM ThirdStrikeEnds ==
  ASSUME "manual" \notin Sources PROVE Spec => ThirdStrikeDisables
<1>1. IInv /\ Counting /\ [Next]_vars =>
        [\A s \in Slots : ConditionFailed(s) /\ StrikesInARow(s) = MaxStrikes
           => ~heap'[fires[s].obj].enabled]_vars
  <2> SUFFICES ASSUME IInv, Counting, NEW s \in Slots, ConditionFailed(s),
                      StrikesInARow(s) = MaxStrikes
               PROVE  ~heap'[fires[s].obj].enabled
    OBVIOUS
  <2> DEFINE o == fires[s].obj
             t == [Advanced(s) EXCEPT !.enabled = FALSE, !.condRetry = 0]
  <2>1. fires[s].pc # "idle" BY DEF ConditionFailed, At
  <2>2. o \in Objs /\ TaskOf(s) = heap[o] /\ streak[o] \in Nat
        /\ streak[o] <= heap[o].condRetry /\ heap[o] \in Task
    BY <2>1, FireFinds
  <2>3. heap[o].condRetry + 1 >= MaxStrikes
    BY <2>2 DEF StrikesInARow, MaxStrikes, Task
  <2>4. heap' = [heap EXCEPT ![o] = t]
    BY <2>3 DEF ConditionFailed, ChangeAndSave
  <2>5. t.enabled = FALSE
    BY <2>1, OutcomeCounts DEF Outcomes, Task, Advanced
  <2> HIDE DEF t
  <2> QED BY <2>2, <2>4, <2>5 DEF IInv, TypeOK
<1>2. Init => Counting BY InitCounting
<1>3. IInv /\ Counting /\ [Next]_vars => Counting' BY CountingNext
<1> QED BY <1>1, <1>2, <1>3, Invariance, PTL DEF Spec, ThirdStrikeDisables

-----------------------------------------------------------------------------
(* What undoes a deletion.  Run sched_delete shows that a document may come *)
(* back without a creation.  No call of the operator or the agent does it:  *)
(* what one saves, it saves of a live task, whose document is there and     *)
(* stays there until a deletion that joins the queue later.                 *)

Standing(q, m, d) ==
  /\ \A n \in Names : m[n] # NoObj => d[n] # NoDoc
  /\ Deletes(q, m, d)
  /\ \A i \in 1..Len(q) : q[i].op = "create" /\ q[i].slot = NoSlot =>
       /\ d[q[i].name] # NoDoc
       /\ \A j \in 1..Len(q) : q[j].op = "delete" /\ q[j].name = q[i].name => i < j

Joins(q, w, m, d) ==
  \/ w.op \in {"insert", "update"}
  \/ w.op = "create" /\ (w.slot = NoSlot => m[w.name] # NoObj)

LEMMA StandingJoin ==
  ASSUME NEW q \in Seq(Write), NEW w \in Write, NEW m, NEW d,
         Standing(q, m, d), Joins(q, w, m, d)
  PROVE  Standing(Append(q, w), m, d)
<1> DEFINE r == Append(q, w)
<1>1. /\ Len(q) \in Nat /\ Len(r) = Len(q) + 1 /\ r[Len(r)] = w
      /\ \A i \in 1..Len(q) : i \in 1..Len(r) /\ r[i] = q[i]
      /\ \A i \in 1..Len(r) : i = Len(r) \/ i \in 1..Len(q)
  BY JoinIs
<1> HIDE DEF r
<1>2. w.op # "delete" /\ w.name \in Names BY DEF Joins, Write
<1>3. Deletes(r, m, d) BY <1>1, <1>2 DEF Standing, Deletes
<1>4. ASSUME NEW i \in 1..Len(r), r[i].op = "create", r[i].slot = NoSlot
      PROVE  /\ d[r[i].name] # NoDoc
             /\ \A j \in 1..Len(r) : r[j].op = "delete" /\ r[j].name = r[i].name => i < j
  <2>1. \A j \in 1..Len(r) : r[j].op = "delete" => j \in 1..Len(q) /\ q[j] = r[j]
    BY <1>1, <1>2
  <2>2. CASE i \in 1..Len(q) BY <1>1, <1>4, <2>1, <2>2 DEF Standing
  <2>3. CASE i = Len(r)
    <3>1. m[w.name] # NoObj /\ r[i] = w BY <1>1, <1>4, <2>3 DEF Joins
    <3>2. \A j \in 1..Len(q) : q[j].op = "delete" => m[q[j].name] = NoObj
      BY DEF Standing, Deletes
    <3> QED BY <1>2, <2>1, <3>1, <3>2 DEF Standing
  <2> QED BY <1>1, <2>2, <2>3
<1> QED BY <1>3, <1>4 DEF Standing, r

LEMMA StandingLeave ==
  ASSUME NEW q \in Seq(Write), q # << >>, NEW m, NEW d, Standing(q, m, d)
  PROVE  Standing(Tail(q), m, d)
<1> DEFINE r == Tail(q)
<1>1. /\ Len(q) \in Nat \ {0} /\ Len(r) = Len(q) - 1
      /\ \A i \in 1..Len(r) : i + 1 \in 1..Len(q) /\ r[i] = q[i + 1]
  BY LeaveIs
<1> HIDE DEF r
<1>2. \A i \in 1..Len(r), j \in 1..Len(r) : /\ j + 1 = i + 1 => j = i
                                            /\ i + 1 < j + 1 => i < j
  BY <1>1
<1>3. Deletes(r, m, d)
  <2> SUFFICES ASSUME NEW i \in 1..Len(r), r[i].op = "delete"
               PROVE  /\ r[i].by = NoObj /\ m[r[i].name] = NoObj /\ d[r[i].name] # NoDoc
                      /\ \A j \in 1..Len(r) : r[j].op = "delete" /\ r[j].name = r[i].name => j = i
    BY DEF Deletes
  <2>1. i + 1 \in 1..Len(q) /\ r[i] = q[i + 1] BY <1>1
  <2> QED BY <1>1, <1>2, <2>1 DEF Standing, Deletes
<1>4. ASSUME NEW i \in 1..Len(r), r[i].op = "create", r[i].slot = NoSlot
      PROVE  /\ d[r[i].name] # NoDoc
             /\ \A j \in 1..Len(r) : r[j].op = "delete" /\ r[j].name = r[i].name => i < j
  <2>1. i + 1 \in 1..Len(q) /\ r[i] = q[i + 1] BY <1>1
  <2>2. d[r[i].name] # NoDoc BY <1>4, <2>1 DEF Standing
  <2>3. ASSUME NEW j \in 1..Len(r), r[j].op = "delete", r[j].name = r[i].name PROVE i < j
    <3>1. j + 1 \in 1..Len(q) /\ r[j] = q[j + 1] BY <1>1
    <3>2. i + 1 < j + 1 BY <1>4, <2>1, <2>3, <3>1 DEF Standing
    <3> QED BY <1>2, <3>2
  <2> QED BY <2>2, <2>3
<1> QED BY <1>3, <1>4 DEF Standing, r

(* A fire changes neither _tasks nor documents, and saves with its slot.    *)
FireSaved(s, q) ==
  \/ queue' = q
  \/ \E o \in Objs, t \in Task : queue' = Append(q, SaveOf(o, t, s)) /\ SaveOf(o, t, s) \in Write

LEMMA ExceptionSaved ==
  ASSUME IInv, NEW s \in Slots, fires[s].pc # "idle", NEW q, HandleException(s, q)
  PROVE  FireSaved(s, q)
<1>1. fires[s].obj \in Objs /\ TimedOut(s) \in Task /\ SoundTask(TimedOut(s), reviewed)
  BY FireOutcomes
<1>2. SaveOf(fires[s].obj, TimedOut(s), s) \in Write BY <1>1, SaveSound
<1> QED BY <1>1, <1>2 DEF HandleException, FireSaved

LEMMA FireStepSaved ==
  ASSUME IInv, NEW s \in Slots, FireStep(s)
  PROVE  UNCHANGED <<mem, doc>> /\ FireSaved(s, queue)
<1>1. fires[s].pc # "idle" /\ UNCHANGED <<mem, doc>>
  BY DEF FireStep, At, BeginSkip, BeginCondition, BeginAgent, ConditionWake, ConditionSkip,
         ConditionFailed, AgentDone, AgentTimeout, AgentFailed
<1>2. ASSUME NEW t \in Outcomes(s), queue' = Append(queue, SaveOf(fires[s].obj, t, s))
      PROVE  FireSaved(s, queue)
  <2>1. fires[s].obj \in Objs /\ t \in Task /\ SoundTask(t, reviewed)
    BY <1>1, <1>2, FireOutcomes DEF Outcomes
  <2>2. SaveOf(fires[s].obj, t, s) \in Write BY <2>1, SaveSound
  <2> QED BY <1>2, <2>1, <2>2 DEF FireSaved
<1>3. CASE BeginSkip(s) BY <1>2, <1>3 DEF BeginSkip, ChangeAndSave, Outcomes
<1>4. CASE BeginCondition(s) \/ BeginAgent(s) \/ ConditionWake(s)
  BY <1>4 DEF BeginCondition, BeginAgent, ConditionWake, FireSaved
<1>5. CASE ConditionSkip(s) BY <1>2, <1>5 DEF ConditionSkip, ChangeAndSave, Outcomes
<1>6. CASE ConditionFailed(s)
  <2>1. \/ queue' = queue
        \/ queue' = Append(queue, SaveOf(fires[s].obj,
                             [Advanced(s) EXCEPT !.enabled = FALSE, !.condRetry = 0], s))
    BY <1>6 DEF ConditionFailed, ChangeAndSave
  <2> QED BY <1>1, <1>2, <2>1 DEF Outcomes, FireSaved
<1>7. CASE AgentDone(s) BY <1>2, <1>7 DEF AgentDone, ChangeAndSave, Outcomes
<1>8. CASE AgentTimeout(s) BY <1>2, <1>8 DEF AgentTimeout, ChangeAndSave, Outcomes
<1>9. CASE AgentFailed(s) BY <1>1, <1>9, ExceptionSaved DEF AgentFailed
<1> QED BY <1>1, <1>3, <1>4, <1>5, <1>6, <1>7, <1>8, <1>9 DEF FireStep

LEMMA FireStanding ==
  ASSUME NEW q \in Seq(Write), NEW s \in Slots, Standing(q, mem, doc),
         FireSaved(s, q), UNCHANGED <<mem, doc>>
  PROVE  Standing(queue', mem', doc')
<1>1. s # NoSlot BY SchedulerAssumption DEF Slots, NoSlot
<1>2. ASSUME NEW o \in Objs, NEW t \in Task, queue' = Append(q, SaveOf(o, t, s)),
             SaveOf(o, t, s) \in Write
      PROVE  Standing(queue', mem, doc)
  <2>1. Joins(q, SaveOf(o, t, s), mem, doc) BY <1>1 DEF Joins, SaveOf
  <2> QED BY <1>2, <2>1, StandingJoin
<1> QED BY <1>2 DEF FireSaved

LEMMA OperatorStanding ==
  ASSUME IInv, Standing(queue, mem, doc), NEW n \in Names, Operator(n)
  PROVE  Standing(queue', mem', doc')
<1>1. /\ queue \in Seq(Write) /\ clock \in Nat /\ heap \in [Objs -> Task]
      /\ mem \in [Names -> Objs \cup {NoObj}]
  BY DEF IInv, TypeOK
<1>2. ASSUME NEW t \in Task, mem[n] # NoObj, t.name = heap[mem[n]].name,
             queue' = Append(queue, SaveOf(mem[n], t, NoSlot)), UNCHANGED <<mem, doc>>
      PROVE  Standing(queue', mem', doc')
  <2> DEFINE w == SaveOf(mem[n], t, NoSlot)
  <2>1. mem[n] \in Objs /\ t.name = n BY <1>1, <1>2 DEF IInv, MemSound
  <2>2. w.op = "create" /\ w.name = n BY <2>1 DEF SaveOf
  <2>3. w \in Write BY <2>1, ToDocSound DEF SaveOf, Write
  <2> HIDE DEF w
  <2>4. Joins(queue, w, mem, doc) BY <1>2, <2>2 DEF Joins
  <2> QED BY <1>1, <1>2, <2>3, <2>4, StandingJoin DEF w
<1>3. ASSUME NEW o \in Objs, NEW p \in Perm, CreateTask(n, o, p)
      PROVE  Standing(queue', mem', doc')
  <2> DEFINE t == NewTask(n, p, clock)
             w == [SaveOf(o, t, NoSlot) EXCEPT !.op = "insert"]
  <2>1. t \in Task /\ ToDoc(t) \in Task /\ t.name = n BY <1>1, NewTaskSound, ToDocSound
  <2>2. queue' = Append(queue, w) /\ UNCHANGED <<mem, doc>> BY <1>3 DEF CreateTask
  <2> HIDE DEF t
  <2>3. w \in Write /\ w.op = "insert" BY <2>1 DEF SaveOf, Write
  <2> HIDE DEF w
  <2> QED BY <1>1, <2>2, <2>3, StandingJoin DEF Joins
<1>4. ASSUME NEW p \in Perm, NEW en \in BOOLEAN, UpdateTask(n, p, en)
      PROVE  Standing(queue', mem', doc')
  <2> DEFINE u == Updated(heap[mem[n]], p, en)
  <2>1. mem[n] # NoObj /\ heap[mem[n]] \in Task BY <1>1, <1>4 DEF UpdateTask
  <2>2. u \in Task /\ u.name = heap[mem[n]].name BY <2>1 DEF Updated, Task, ResetsApproval
  <2>3. queue' = Append(queue, SaveOf(mem[n], u, NoSlot)) /\ UNCHANGED <<mem, doc>>
    BY <1>4 DEF UpdateTask, ChangeAndSave
  <2> HIDE DEF u
  <2> QED BY <1>2, <2>1, <2>2, <2>3
<1>5. CASE ClearCondition(n)
  <2>1. heap[mem[n]].perm \in Perm /\ heap[mem[n]].enabled \in BOOLEAN
    BY <1>1, <1>5 DEF ClearCondition, Task
  <2> QED BY <1>4, <1>5, <2>1 DEF ClearCondition
<1>6. ASSUME NEW b \in BOOLEAN, mem[n] # NoObj, UNCHANGED <<mem, doc>>,
             ChangeAndSave(mem[n], [heap[mem[n]] EXCEPT !.approved = b], NoSlot)
      PROVE  Standing(queue', mem', doc')
  <2> DEFINE u == [heap[mem[n]] EXCEPT !.approved = b]
  <2>1. heap[mem[n]] \in Task BY <1>1, <1>6
  <2>2. u \in Task /\ u.name = heap[mem[n]].name BY <2>1 DEF Task
  <2>3. queue' = Append(queue, SaveOf(mem[n], u, NoSlot)) BY <1>6 DEF ChangeAndSave
  <2> HIDE DEF u
  <2> QED BY <1>2, <1>6, <2>2, <2>3
<1>7. CASE ApproveTask(n) \/ RevokeTask(n) BY <1>6, <1>7 DEF ApproveTask, RevokeTask
<1>8. CASE DeleteTask(n)
  <2> DEFINE w == [op |-> "delete", name |-> n, content |-> NoDoc,
                   by |-> NoObj, slot |-> NoSlot]
             r == queue'
  <2>1. /\ queue' = Append(queue, w) /\ mem[n] # NoObj
        /\ mem' = [mem EXCEPT ![n] = NoObj] /\ doc' = doc
    BY <1>8 DEF DeleteTask
  <2>2. w \in Write /\ w.op = "delete" /\ w.name = n /\ w.by = NoObj BY DEF Write
  <2> HIDE DEF w
  <2>3. \A m \in Names : mem'[m] = IF m = n THEN NoObj ELSE mem[m] BY <1>1, <2>1
  <2>4. /\ Len(queue) \in Nat /\ Len(r) = Len(queue) + 1 /\ r[Len(r)] = w
        /\ \A i \in 1..Len(queue) : i \in 1..Len(r) /\ r[i] = queue[i]
        /\ \A i \in 1..Len(r) : i = Len(r) \/ i \in 1..Len(queue)
    BY <1>1, <2>1, <2>2, JoinIs
  <2>5. doc[n] # NoDoc BY <2>1 DEF Standing
  <2>6. Deletes(r, mem', doc)
    <3>1. \A i \in 1..Len(queue) : queue[i].op = "delete" => queue[i].name # n
      BY <2>1 DEF Standing, Deletes
    <3>2. \A i \in 1..Len(queue) : queue[i].name \in Names BY <1>1, WriteParts
    <3> QED BY <2>2, <2>3, <2>4, <2>5, <3>1, <3>2 DEF Standing, Deletes
  <2>7. ASSUME NEW i \in 1..Len(r), r[i].op = "create", r[i].slot = NoSlot
        PROVE  /\ doc[r[i].name] # NoDoc
               /\ \A j \in 1..Len(r) : r[j].op = "delete" /\ r[j].name = r[i].name => i < j
    <3>1. i \in 1..Len(queue) /\ r[i] = queue[i] /\ i < Len(r) BY <2>2, <2>4, <2>7
    <3> QED BY <2>4, <2>7, <3>1 DEF Standing
  <2> QED BY <2>1, <2>3, <2>6, <2>7 DEF Standing
<1>9. CASE RunNow(n) \/ \E p \in Perm : UpdateRejected(n, p)
  BY <1>9 DEF RunNow, UpdateRejected
<1> QED BY <1>3, <1>4, <1>5, <1>7, <1>8, <1>9 DEF Operator

LEMMA StoreStanding ==
  ASSUME IInv, Standing(queue, mem, doc), StoreStep
  PROVE  Standing(queue', mem', doc')
<1>1. queue # << >> BY DEF StoreStep, WriteSnapshot, WriteConflict, WriteDelete, WriteFails
<1>2. /\ queue \in Seq(Write) /\ mem \in [Names -> Objs \cup {NoObj}]
      /\ doc \in [Names -> Task \cup {NoDoc}]
  BY DEF IInv, TypeOK
<1>3. /\ Next1 \in Write /\ SoundWrite(Next1, heap, reviewed) /\ Tail(queue) \in Seq(Write)
      /\ Next1.name \in Names
  BY <1>1, QueueHead DEF Write
<1>4. Standing(Tail(queue), mem, doc) BY <1>1, <1>2, StandingLeave
<1>5. /\ 1 \in 1..Len(queue) /\ queue[1] = Next1
      /\ \A i \in 1..Len(Tail(queue)) : /\ i + 1 \in 1..Len(queue)
                                        /\ Tail(queue)[i] = queue[i + 1] /\ ~(i + 1 < 1) /\ i + 1 # 1
  BY <1>1, <1>2, LeaveIs DEF Next1
<1>6. CASE WriteSnapshot
  <2>1. /\ Next1.op # "delete" /\ queue' = Tail(queue)
        /\ doc' = [doc EXCEPT ![Next1.name] = Next1.content]
        /\ mem' = IF Next1.op = "insert" THEN [mem EXCEPT ![Next1.name] = Next1.by] ELSE mem
        /\ Next1.op = "insert" => doc[Next1.name] = NoDoc
    BY <1>6 DEF WriteSnapshot
  <2>2. Next1.content # NoDoc BY <1>3, <2>1, NoDocAssumption DEF SoundWrite
  <2>3. \A m \in Names : /\ doc[m] # NoDoc => doc'[m] # NoDoc
                         /\ doc'[Next1.name] # NoDoc
                         /\ m # Next1.name \/ Next1.op # "insert" => mem'[m] = mem[m]
    BY <1>2, <1>3, <2>1, <2>2
  <2>4. \A i \in 1..Len(Tail(queue)) : Tail(queue)[i].name \in Names BY <1>3, WriteParts
  <2>5. Deletes(queue', mem', doc')
    BY <1>4, <2>1, <2>3, <2>4 DEF Standing, Deletes
  <2> QED BY <1>4, <2>1, <2>3, <2>4, <2>5 DEF Standing
<1>7. CASE WriteConflict
  <2> DEFINE w == [Next1 EXCEPT !.op = "update"]
  <2>1. UNCHANGED <<mem, doc>> /\ (queue' = Tail(queue) \/ queue' = Append(Tail(queue), w))
    BY <1>7 DEF WriteConflict
  <2>2. w \in Write /\ w.op = "update" BY <1>3 DEF Write
  <2> HIDE DEF w
  <2> QED BY <1>3, <1>4, <2>1, <2>2, StandingJoin DEF Joins
<1>8. CASE WriteDelete
  <2>1. /\ Next1.op = "delete" /\ queue' = Tail(queue) /\ mem' = mem
        /\ doc' = [doc EXCEPT ![Next1.name] = NoDoc]
    BY <1>8 DEF WriteDelete
  <2>2. \A m \in Names : m # Next1.name => doc'[m] = doc[m] BY <1>2, <2>1
  <2>3. mem[Next1.name] = NoObj BY <1>5, <2>1 DEF Standing, Deletes
  <2>4. \A i \in 1..Len(queue') : /\ queue'[i].op = "delete" => queue'[i].name # Next1.name
                                  /\ queue'[i].name \in Names
    BY <1>3, <1>5, <2>1, WriteParts DEF Standing, Deletes
  <2>5. \A i \in 1..Len(queue') : queue'[i].op = "create" /\ queue'[i].slot = NoSlot
                                    => queue'[i].name # Next1.name
    BY <1>5, <2>1 DEF Standing
  <2>6. Deletes(queue', mem', doc') BY <1>4, <2>1, <2>2, <2>4 DEF Standing, Deletes
  <2> QED BY <1>4, <2>1, <2>2, <2>3, <2>4, <2>5, <2>6 DEF Standing
<1>9. CASE WriteFails
  <2>1. UNCHANGED <<mem, doc>> BY <1>9 DEF WriteFails
  <2>2. CASE Next1.slot \in Slots /\ fires[Next1.slot].pc = "savingOk"
    <3>1. FireSaved(Next1.slot, Tail(queue))
      BY <1>9, <2>2, ExceptionSaved DEF WriteFails
    <3> QED BY <1>3, <1>4, <2>1, <2>2, <3>1, FireStanding
  <2>3. CASE ~(Next1.slot \in Slots /\ fires[Next1.slot].pc = "savingOk")
    BY <1>4, <1>9, <2>1, <2>3 DEF WriteFails
  <2> QED BY <2>2, <2>3
<1> QED BY <1>6, <1>7, <1>8, <1>9 DEF StoreStep

LEMMA CrashStanding ==
  ASSUME IInv, Crash
  PROVE  Standing(queue', mem', doc')
<1>1. \A n \in Names : mem'[n] # NoObj => doc[n] # NoDoc BY DEF Crash
<1>2. doc' = doc /\ Len(queue') = 0 BY DEF Crash
<1> QED BY <1>1, <1>2 DEF Standing, Deletes

LEMMA StandingNext == IInv /\ Standing(queue, mem, doc) /\ [Next]_vars => Standing(queue, mem, doc)'
<1> SUFFICES ASSUME IInv, Standing(queue, mem, doc), [Next]_vars PROVE Standing(queue', mem', doc')
  BY DEF Standing, Deletes
<1>1. CASE \E n \in Names : Operator(n) BY <1>1, OperatorStanding
<1>2. CASE Tick BY <1>2 DEF Tick
<1>3. CASE \E s \in Slots : FireStep(s)
  BY <1>3, FireStepSaved, FireStanding DEF IInv, TypeOK
<1>4. CASE StoreStep BY <1>4, StoreStanding
<1>5. CASE PassTime BY <1>5 DEF PassTime
<1>6. CASE Crash BY <1>6, CrashStanding
<1>7. CASE UNCHANGED vars BY <1>7 DEF vars
<1> QED BY <1>1, <1>2, <1>3, <1>4, <1>5, <1>6, <1>7 DEF Next

Undone == \E n \in Names : doc[n] = NoDoc /\ doc'[n] # NoDoc
UndoneByFire ==
  Undone => \/ Next1.op = "insert"
            \/ Next1.slot \in Slots /\ mem[Next1.name] = NoObj

(* A document comes to be by a creation, or by the save of a fire whose     *)
(* task is not live: that is all that can undo a deletion, whatever edits,  *)
(* approvals, conflicts, errors of the store and restarts there are         *)
(* (_save_task, scheduler.py:110; delete_task, 340).                        *)
THEOREM OnlyFiresUndoDeletions == Spec => [][UndoneByFire]_vars
<1>1. Init => Standing(queue, mem, doc) BY EmptySeq DEF Init, Standing, Deletes
<1>2. ASSUME IInv, Standing(queue, mem, doc), Next PROVE UndoneByFire
  <2> SUFFICES ASSUME NEW n \in Names, doc[n] = NoDoc, doc'[n] # NoDoc
               PROVE  \/ Next1.op = "insert"
                      \/ Next1.slot \in Slots /\ mem[Next1.name] = NoObj
    BY DEF UndoneByFire, Undone
  <2>1. WriteSnapshot
    <3>1. ASSUME NEW x \in Names, Operator(x) PROVE doc' = doc
      BY <3>1 DEF Operator, CreateTask, UpdateTask, ClearCondition, UpdateRejected,
                  ApproveTask, RevokeTask, DeleteTask, RunNow
    <3>2. ASSUME NEW s \in Slots, FireStep(s) PROVE doc' = doc
      BY <1>2, <3>2, FireStepSaved
    <3>3. WriteDelete => doc'[n] = NoDoc
      BY <1>2 DEF WriteDelete, IInv, TypeOK
    <3> QED BY <1>2, <3>1, <3>2, <3>3
         DEF Next, StoreStep, Tick, PassTime, Crash, WriteConflict, WriteFails
  <2>2. /\ queue # << >> /\ doc' = [doc EXCEPT ![Next1.name] = Next1.content]
        /\ \/ Next1.op \in {"create", "insert"} /\ doc[Next1.name] = NoDoc
           \/ Next1.op = "update" /\ doc[Next1.name] # NoDoc
        /\ queue \in Seq(Write) /\ doc \in [Names -> Task \cup {NoDoc}]
    BY <1>2, <2>1 DEF WriteSnapshot, IInv, TypeOK
  <2>3. n = Next1.name BY <2>2
  <2>4. Next1 \in Write /\ 1 \in 1..Len(queue) /\ queue[1] = Next1
    BY <1>2, <2>2, QueueHead, LeaveIs DEF Next1
  <2>5. mem[Next1.name] = NoObj BY <1>2, <2>3 DEF Standing
  <2>6. CASE Next1.op = "create"
    <3>1. Next1.slot # NoSlot BY <1>2, <2>3, <2>4, <2>6 DEF Standing
    <3> QED BY <2>4, <2>5, <3>1 DEF Write
  <2> QED BY <2>2, <2>3, <2>6
<1>3. ASSUME IInv, Standing(queue, mem, doc), [Next]_vars PROVE [UndoneByFire]_vars
  BY <1>2, <1>3
<1> QED BY <1>1, <1>3, StandingNext, Invariance, PTL DEF Spec
=============================================================================

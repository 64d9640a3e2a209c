-------------------------- MODULE EngramSyncProofs --------------------------
(***************************************************************************)
(* Proofs about EngramSync for any clients, fields, pasts and bounds: its  *)
(* types, that no row loses its record, that no record falls behind its    *)
(* row, and that none is left behind without a reason.                     *)
(*                                                                         *)
(* RecordsKept is not inductive: a record is deleted by a task that read   *)
(* its uri long before.  The invariant says of every uri that is to be     *)
(* deleted, in the tables or in a task, that no row has it (or that it     *)
(* came back), and of a record that was written and is not yet linked that *)
(* no one else knows it.                                                   *)
(***************************************************************************)
EXTENDS EngramSync, TLAPS, SequenceTheorems

-----------------------------------------------------------------------------
(* The types, in parts. *)

Jobs == [id : 0..lastId, entry : Entries, old : Uris \cup {NoUri}, new : Uris \cup {NoUri}]

RowsTyped ==
  /\ rows \in [Ids -> [entry : Entries, uri : Uris \cup {NoUri}]]
  /\ \A i, k \in Ids : rows[i].uri = rows[k].uri => i = k \/ rows[i].uri = NoUri
  /\ lastId \in Nat /\ Ids \subseteq 1..lastId
  /\ todo \subseteq 1..lastId /\ dropped \subseteq 0..lastId

SpaceTyped ==
  /\ records \in Seq(Entries) /\ space \subseteq Uris
  /\ tombs \subseteq Uris /\ dead \subseteq Uris /\ known \subseteq Uris
  /\ ours \subseteq Uris /\ again \subseteq ours
  /\ found \in [Tasks -> SUBSET Uris]
  /\ connected \in BOOLEAN

TasksTyped ==
  /\ lock \in Tasks \cup {None}
  /\ pc \in [Tasks -> Places]
  /\ job \in [Tasks -> Jobs]
  /\ \A t \in Tasks : pc[t] \in Deleting => job[t].old # NoUri

FlushTyped ==
  /\ fails \in 0..MaxConsecutiveFailures
  /\ fails = MaxConsecutiveFailures => pc[Sync] = "pull"

CountsTyped ==
  /\ calls \in 0..MaxEvents
  /\ failures \in Nat /\ interrupts \in Nat /\ crashes \in Nat
  /\ Troubles <= MaxTroubles /\ calls + Troubles <= MaxEvents

LEMMA TypesInParts ==
  TypeOK <=> RowsTyped /\ SpaceTyped /\ TasksTyped /\ FlushTyped /\ CountsTyped
BY DEF TypeOK, RowsTyped, SpaceTyped, TasksTyped, FlushTyped, CountsTyped, Jobs

LEMMA PartsType ==
  RowsTyped' /\ SpaceTyped' /\ TasksTyped' /\ FlushTyped' /\ CountsTyped' => TypeOK'
BY DEF TypeOK, RowsTyped, SpaceTyped, TasksTyped, FlushTyped, CountsTyped, Jobs

LEMMA BlankTyped == Blank \in Entries
BY DEF Blank, Entries

LEMMA NoJobTyped == ASSUME lastId \in Nat PROVE NoJob \in Jobs
BY BlankTyped DEF NoJob, Jobs, NoUri

(* A record that is written gets the next uri. *)
LEMMA CreateTyped ==
  ASSUME SpaceTyped, NEW e \in Entries, Create(e)
  PROVE  /\ records' \in Seq(Entries) /\ Len(records') = Len(records) + 1
         /\ Uris' = Uris \cup {Len(records')} /\ Len(records') \notin Uris
         /\ Len(records') \in Nat \ {0}
         /\ space' = space \cup {Len(records')} /\ ours' = ours \cup {Len(records')}
<1>1. records \in Seq(Entries) /\ Len(records) \in Nat BY LenProperties DEF SpaceTyped
<1>2. records' \in Seq(Entries) /\ Len(records') = Len(records) + 1
  BY <1>1, AppendProperties DEF Create
<1> QED BY <1>1, <1>2 DEF Create, Uris

LEMMA JobsGrow ==
  ASSUME lastId \in Nat, lastId' \in Nat, lastId <= lastId', Uris \subseteq Uris'
  PROVE  Jobs \subseteq Jobs'
BY DEF Jobs

(* A task that moves on keeps the types of tasks and of the flush ...      *)
LEMMA MoveTyped ==
  ASSUME TasksTyped, FlushTyped, NEW t \in Tasks, NEW place \in Places, NEW j,
         Jobs \subseteq Jobs', j \in Jobs', Move(t, place, j),
         place \in Deleting => j.old # NoUri,
         lock' \in Tasks \cup {None}, fails' = fails, t = Sync => pc[t] # "pull"
  PROVE  TasksTyped' /\ FlushTyped'
<1>1. Sync \in Tasks BY DEF Tasks
<1>2. /\ pc' \in [Tasks -> Places] /\ job' \in [Tasks -> Jobs']
      /\ \A s \in Tasks : pc'[s] \in Deleting => job'[s].old # NoUri
  BY DEF Move, Goto, TasksTyped
<1>3. t # Sync => pc'[Sync] = pc[Sync] BY <1>1 DEF Move, Goto, TasksTyped
<1> QED BY <1>2, <1>3 DEF TasksTyped, FlushTyped

LEMMA GotoTyped ==
  ASSUME TasksTyped, FlushTyped, NEW t \in Tasks, NEW place \in Places,
         Jobs \subseteq Jobs', job' = job, Goto(t, place),
         place \in Deleting => job[t].old # NoUri,
         lock' \in Tasks \cup {None}, fails' = fails, t = Sync => pc[t] # "pull"
  PROVE  TasksTyped' /\ FlushTyped'
<1>1. Sync \in Tasks BY DEF Tasks
<1>2. /\ pc' \in [Tasks -> Places] /\ job' \in [Tasks -> Jobs']
      /\ \A s \in Tasks : pc'[s] \in Deleting => job'[s].old # NoUri
  BY DEF Goto, TasksTyped
<1>3. t # Sync => pc'[Sync] = pc[Sync] BY <1>1 DEF Goto, TasksTyped
<1> QED BY <1>2, <1>3 DEF TasksTyped, FlushTyped

(* ... and so does one whose call or push is over.                         *)
LEMMA ReturnTyped ==
  ASSUME TasksTyped, FlushTyped, NEW t \in Tasks, lastId \in Nat,
         UNCHANGED <<lastId, records>>, Return(t)
  PROVE  TasksTyped' /\ FlushTyped'
<1>1. Sync \in Tasks /\ MaxConsecutiveFailures \in Nat \ {0}
  BY EngramAssumption DEF Tasks
<1>2. Jobs' = Jobs /\ NoJob \in Jobs BY NoJobTyped DEF Jobs, Uris
<1>3. /\ pc' \in [Tasks -> Places] /\ job' \in [Tasks -> Jobs']
      /\ \A s \in Tasks : pc'[s] \in Deleting => job'[s].old # NoUri
  BY <1>2 DEF Return, Move, Goto, TasksTyped, Places, Deleting
<1>4. lock' \in Tasks \cup {None} BY DEF Return, Release, TasksTyped
<1>5. FlushTyped'
  <2>1. CASE t = Sync BY <1>1, <2>1 DEF Return, FlushTyped
  <2>2. CASE t # Sync
    BY <1>1, <2>2 DEF Return, Move, Goto, FlushTyped, TasksTyped
  <2> QED BY <2>1, <2>2
<1> QED BY <1>3, <1>4, <1>5 DEF TasksTyped

LEMMA RaiseTyped ==
  ASSUME TasksTyped, FlushTyped, NEW t \in Tasks, Jobs \subseteq Jobs',
         NoJob \in Jobs', t = Sync => pc[t] # "pull", Raise(t)
  PROVE  TasksTyped' /\ FlushTyped'
<1>1. Sync \in Tasks /\ MaxConsecutiveFailures \in Nat \ {0}
  BY EngramAssumption DEF Tasks
<1>3. /\ pc' \in [Tasks -> Places] /\ job' \in [Tasks -> Jobs']
      /\ \A s \in Tasks : pc'[s] \in Deleting => job'[s].old # NoUri
  BY DEF Raise, Move, Goto, TasksTyped, Places, Deleting
<1>4. lock' \in Tasks \cup {None} BY DEF Raise, Release, TasksTyped
<1>5. FlushTyped'
  <2>1. CASE t = Sync
    <3>1. fails' = fails + 1 /\ fails < MaxConsecutiveFailures
      BY <1>1, <2>1 DEF Raise, FlushTyped
    <3>2. ~(fails' < MaxConsecutiveFailures) => pc'[Sync] = "pull"
      BY <1>1, <2>1 DEF Raise, Move, Goto, TasksTyped
    <3> QED BY <1>1, <3>1, <3>2 DEF FlushTyped
  <2>2. CASE t # Sync
    BY <1>1, <2>2 DEF Raise, Move, Goto, FlushTyped, TasksTyped
  <2> QED BY <2>1, <2>2
<1> QED BY <1>3, <1>4, <1>5 DEF TasksTyped

-----------------------------------------------------------------------------
(* Every step keeps the types: first what most steps leave alone. *)

LEMMA RowsFrame ==
  ASSUME RowsTyped, UNCHANGED <<rows, lastId>>, Uris \subseteq Uris',
         todo' \subseteq todo \cup Ids, dropped' \subseteq 0..lastId
  PROVE  RowsTyped'
<1>1. Ids' = Ids BY DEF Ids
<1>2. rows' \in [Ids' -> [entry : Entries, uri : Uris \cup {NoUri}]'] BY <1>1 DEF RowsTyped
<1> QED BY <1>1, <1>2 DEF RowsTyped

LEMMA RowsShrink ==
  ASSUME RowsTyped, lastId' = lastId, Ids' \subseteq Ids,
         rows' \in [Ids' -> [entry : Entries, uri : Uris \cup {NoUri}]'],
         \A i \in Ids' : rows'[i].uri \in {rows[i].uri, NoUri},
         todo' \subseteq todo, dropped' \subseteq 0..lastId
  PROVE  RowsTyped'
BY DEF RowsTyped

LEMMA SameJobs ==
  ASSUME UNCHANGED <<records, lastId>>
  PROVE  Uris' = Uris /\ Jobs' = Jobs
BY DEF Uris, Jobs

LEMMA CountsFrame ==
  ASSUME CountsTyped,
         \/ UNCHANGED limits
         \/ Called /\ UncalledLimits
         \/ Failed /\ FailedLimits
         \/ /\ Trouble /\ interrupts' = interrupts + 1
            /\ UNCHANGED <<calls, failures, crashes>>
         \/ /\ Trouble /\ crashes' = crashes + 1
            /\ UNCHANGED <<calls, failures, interrupts>>
  PROVE  CountsTyped'
<1>1. MaxEvents \in Nat /\ MaxTroubles \in Nat BY EngramAssumption
<1>2. CASE UNCHANGED limits BY <1>2 DEF CountsTyped, limits, Troubles
<1>3. CASE Called /\ UncalledLimits
  BY <1>1, <1>3 DEF CountsTyped, Called, UncalledLimits, Troubles
<1>4. CASE Failed /\ FailedLimits
  BY <1>1, <1>4 DEF CountsTyped, Failed, FailedLimits, Trouble, Troubles
<1>5. CASE /\ Trouble /\ interrupts' = interrupts + 1
           /\ UNCHANGED <<calls, failures, crashes>>
  BY <1>1, <1>5 DEF CountsTyped, Trouble, Troubles
<1>6. CASE /\ Trouble /\ crashes' = crashes + 1
           /\ UNCHANGED <<calls, failures, interrupts>>
  BY <1>1, <1>6 DEF CountsTyped, Trouble, Troubles
<1> QED BY <1>2, <1>3, <1>4, <1>5, <1>6

LEMMA NewRowTyped ==
  ASSUME RowsTyped, NEW row \in [entry : Entries, uri : Uris \cup {NoUri}],
         row.uri = NoUri \/ row.uri \notin RowUris,
         lastId' = lastId + 1, Put(lastId', row), UNCHANGED <<records, todo, dropped>>
  PROVE  RowsTyped'
<1>1. Uris' = Uris BY DEF Uris
<1>2. DOMAIN rows' = Ids \cup {lastId'} /\ lastId' \notin Ids
  BY DEF Put, Ids, RowsTyped
<1>3. \A i \in DOMAIN rows' : rows'[i] = IF i = lastId' THEN row ELSE rows[i]
  BY <1>2 DEF Put, Ids
<1>4. rows' = [i \in DOMAIN rows' |-> rows'[i]] BY DEF Put, Ids
<1>5. rows' \in [Ids' -> [entry : Entries, uri : Uris \cup {NoUri}]']
  BY <1>1, <1>2, <1>3, <1>4 DEF RowsTyped, Ids, NoUri, Entries
<1>6. \A i, k \in Ids' : rows'[i].uri = rows'[k].uri => i = k \/ rows'[i].uri = NoUri
  BY <1>2, <1>3 DEF RowsTyped, Ids, RowUris
<1> QED BY <1>1, <1>2, <1>5, <1>6 DEF RowsTyped, Ids

LEMMA AddTypes ==
  ASSUME TypeOK, NEW t \in Clients, Add(t) PROVE TypeOK'
<1>1. t \in Tasks /\ t # Sync BY EngramAssumption DEF Tasks
<1>2. RowsTyped /\ SpaceTyped /\ TasksTyped /\ FlushTyped /\ CountsTyped BY TypesInParts
<1>3. lastId \in Nat /\ lastId' = lastId + 1 BY <1>2 DEF Add, RowsTyped
<1>4. Uris' = Uris /\ Jobs \subseteq Jobs' BY <1>3, JobsGrow DEF Add, remote, Uris
<1>5. calls' \in Nat BY <1>2 DEF Add, Called, CountsTyped
<1>6. RowsTyped'
  <2> DEFINE row == [entry |-> [f \in Fields |-> calls'], uri |-> NoUri]
  <2>1. row \in [entry : Entries, uri : Uris \cup {NoUri}] BY <1>5 DEF Entries
  <2>2. Put(lastId', row) BY DEF Add
  <2> QED BY <1>2, <1>3, <2>1, <2>2, NewRowTyped DEF Add, remote, flush, history
<1>7. SpaceTyped' BY <1>2, <1>4 DEF Add, SpaceTyped, remote, flush, history
<1>8. TasksTyped' /\ FlushTyped'
  <2> DEFINE j == [NoJob EXCEPT !.id = lastId']
  <2>1. j \in Jobs' BY <1>3, NoJobTyped, <1>4 DEF Jobs, NoJob
  <2>2. CASE connected
    <3>1. Move(t, "push", j) BY <2>2 DEF Add
    <3>2. lock' = lock /\ fails' = fails BY DEF Add, flush
    <3>3. "push" \in Places \ Deleting /\ lock \in Tasks \cup {None}
      BY <1>2 DEF Places, Deleting, Cancellable, Pushing, TasksTyped
    <3> HIDE DEF j
    <3> QED BY <1>1, <1>2, <1>4, <2>1, <3>1, <3>2, <3>3, MoveTyped
  <2>3. CASE ~connected
    BY <1>2, <1>4, <2>3 DEF Add, TasksTyped, FlushTyped, flush
  <2> QED BY <2>2, <2>3
<1>9. CountsTyped' BY <1>2, CountsFrame DEF Add
<1> QED BY <1>6, <1>7, <1>8, <1>9, PartsType

LEMMA UpdateReadTypes ==
  ASSUME TypeOK, NEW t \in Clients, UpdateRead(t) PROVE TypeOK'
<1>1. RowsTyped /\ SpaceTyped /\ TasksTyped /\ FlushTyped /\ CountsTyped BY TypesInParts
<1>2. Uris' = Uris /\ Jobs' = Jobs BY SameJobs DEF UpdateRead, db, remote
<1>3. t \in Tasks /\ t # Sync BY EngramAssumption DEF Tasks
<1>6. RowsTyped' BY <1>1, <1>2, RowsFrame DEF UpdateRead, db, flush, history, RowsTyped
<1>7. SpaceTyped' BY <1>1, <1>2 DEF UpdateRead, SpaceTyped, db, remote, flush, history
<1>8. TasksTyped' /\ FlushTyped'
  <2>1. PICK id \in Ids, given \in SUBSET Fields :
          Move(t, "update",
               [NoJob EXCEPT !.id = id,
                  !.entry = [f \in Fields |-> IF f \in given THEN calls'
                                              ELSE rows[id].entry[f]]])
    BY DEF UpdateRead
  <2> DEFINE e == [f \in Fields |-> IF f \in given THEN calls' ELSE rows[id].entry[f]]
             j == [NoJob EXCEPT !.id = id, !.entry = e]
  <2>2. calls' \in Nat BY <1>1 DEF UpdateRead, Called, CountsTyped
  <2>3. rows[id].entry \in Entries BY <1>1 DEF RowsTyped
  <2>4. e \in Entries BY <2>2, <2>3 DEF Entries
  <2>5. id \in 0..lastId /\ NoJob \in Jobs BY <1>1, NoJobTyped DEF RowsTyped
  <2>6. j \in Jobs'
    <3> HIDE DEF e
    <3> QED BY <1>2, <2>4, <2>5 DEF Jobs, NoJob
  <2>7. lock' \in Tasks \cup {None} /\ fails' = fails /\ "update" \in Places \ Deleting
    BY <1>1 DEF UpdateRead, flush, TasksTyped, Places, Deleting, Cancellable
  <2>8. Move(t, "update", j) BY <2>1
  <2> HIDE DEF j
  <2> QED BY <1>1, <1>2, <1>3, <2>6, <2>7, <2>8, MoveTyped
<1>9. CountsTyped' BY <1>1, CountsFrame DEF UpdateRead
<1> QED BY <1>6, <1>7, <1>8, <1>9, PartsType

LEMMA UpdateWriteTypes ==
  ASSUME TypeOK, NEW t \in Clients, UpdateWrite(t) PROVE TypeOK'
<1>1. RowsTyped /\ SpaceTyped /\ TasksTyped /\ FlushTyped /\ CountsTyped BY TypesInParts
<1>2. Uris' = Uris /\ Jobs' = Jobs BY SameJobs DEF UpdateWrite, remote
<1>3. t \in Tasks /\ t # Sync BY EngramAssumption DEF Tasks
<1>6. RowsTyped'
  <2> DEFINE id == job[t].id
  <2>1. id \in 0..lastId /\ job[t].entry \in Entries BY <1>1, <1>3 DEF TasksTyped, Jobs
  <2>2. CASE id \in Ids
    <3>1. rows' = [rows EXCEPT ![id].entry = job[t].entry] BY <2>2 DEF UpdateWrite
    <3>2. Ids' = Ids BY <3>1 DEF Ids
    <3>3. rows' \in [Ids' -> [entry : Entries, uri : Uris \cup {NoUri}]']
      BY <1>1, <1>2, <2>1, <3>1, <3>2 DEF RowsTyped
    <3>4. \A i \in Ids : rows'[i].uri = rows[i].uri BY <1>1, <2>2, <3>1 DEF RowsTyped
    <3>5. lastId' = lastId /\ todo' = todo /\ dropped' \subseteq 0..lastId
      BY <1>1, <2>1 DEF UpdateWrite, flush, RowsTyped
    <3> QED BY <1>1, <3>2, <3>3, <3>4, <3>5, RowsShrink
  <2>3. CASE id \notin Ids
    BY <1>1, <1>2, <2>1, <2>3, RowsFrame DEF UpdateWrite, flush, RowsTyped
  <2> QED BY <2>2, <2>3
<1>7. SpaceTyped' BY <1>1, <1>2 DEF UpdateWrite, SpaceTyped, remote, flush
<1>8. TasksTyped' /\ FlushTyped'
  <2> DEFINE j == [NoJob EXCEPT !.id = job[t].id]
  <2>1. NoJob \in Jobs' /\ j \in Jobs'
    BY <1>1, <1>2, <1>3, NoJobTyped DEF RowsTyped, TasksTyped, Jobs, NoJob
  <2>2. /\ lock' \in Tasks \cup {None} /\ fails' = fails
        /\ "replace" \in Places \ Deleting /\ "idle" \in Places \ Deleting
    BY <1>1 DEF UpdateWrite, flush, TasksTyped, Places, Deleting, Cancellable, Pushing
  <2>3. Move(t, "replace", j) \/ Move(t, "idle", NoJob) BY DEF UpdateWrite
  <2> HIDE DEF j
  <2> QED BY <1>1, <1>2, <1>3, <2>1, <2>2, <2>3, MoveTyped
<1>9. CountsTyped' BY <1>1, CountsFrame DEF UpdateWrite
<1> QED BY <1>6, <1>7, <1>8, <1>9, PartsType

LEMMA DeleteReadTypes ==
  ASSUME TypeOK, NEW t \in Clients, DeleteRead(t) PROVE TypeOK'
<1>1. RowsTyped /\ SpaceTyped /\ TasksTyped /\ FlushTyped /\ CountsTyped BY TypesInParts
<1>2. Uris' = Uris /\ Jobs' = Jobs BY SameJobs DEF DeleteRead, db, remote
<1>3. t \in Tasks /\ t # Sync BY EngramAssumption DEF Tasks
<1>6. RowsTyped' BY <1>1, <1>2, RowsFrame DEF DeleteRead, db, flush, history, RowsTyped
<1>7. SpaceTyped' BY <1>1, <1>2 DEF DeleteRead, SpaceTyped, db, remote, flush, history
<1>8. TasksTyped' /\ FlushTyped'
  <2>1. PICK id \in Ids :
          Move(t, "delete",
               [NoJob EXCEPT !.id = id, !.old = IF connected THEN UriOf(id) ELSE NoUri])
    BY DEF DeleteRead
  <2> DEFINE u == IF connected THEN UriOf(id) ELSE NoUri
             j == [NoJob EXCEPT !.id = id, !.old = u]
  <2>2. u \in Uris \cup {NoUri} BY <1>1 DEF UriOf, RowsTyped
  <2>3. id \in 0..lastId /\ NoJob \in Jobs BY <1>1, NoJobTyped DEF RowsTyped
  <2>4. j \in Jobs'
    <3> HIDE DEF u
    <3> QED BY <1>2, <2>2, <2>3 DEF Jobs, NoJob
  <2>5. lock' \in Tasks \cup {None} /\ fails' = fails /\ "delete" \in Places \ Deleting
    BY <1>1 DEF DeleteRead, flush, TasksTyped, Places, Deleting, Cancellable
  <2>6. Move(t, "delete", j) BY <2>1
  <2> HIDE DEF j
  <2> QED BY <1>1, <1>2, <1>3, <2>4, <2>5, <2>6, MoveTyped
<1>9. CountsTyped' BY <1>1, CountsFrame DEF DeleteRead
<1> QED BY <1>6, <1>7, <1>8, <1>9, PartsType

LEMMA DeleteWriteTypes ==
  ASSUME TypeOK, NEW t \in Clients, DeleteWrite(t) PROVE TypeOK'
<1>1. RowsTyped /\ SpaceTyped /\ TasksTyped /\ FlushTyped /\ CountsTyped BY TypesInParts
<1>2. Uris' = Uris /\ Jobs' = Jobs BY SameJobs DEF DeleteWrite, remote
<1>3. t \in Tasks /\ t # Sync BY EngramAssumption DEF Tasks
<1>6. RowsTyped'
  <2>1. rows' = [i \in Ids \ {job[t].id} |-> rows[i]] BY DEF DeleteWrite, Restrict
  <2>2. Ids' = Ids \ {job[t].id} BY <2>1 DEF Ids
  <2>3. rows' \in [Ids' -> [entry : Entries, uri : Uris \cup {NoUri}]']
    BY <1>1, <1>2, <2>1, <2>2 DEF RowsTyped
  <2>4. \A i \in Ids' : rows'[i] = rows[i] BY <2>1, <2>2
  <2>5. lastId' = lastId /\ todo' = todo /\ dropped' \subseteq 0..lastId
    BY <1>1 DEF DeleteWrite, flush, history, RowsTyped
  <2> QED BY <1>1, <2>2, <2>3, <2>4, <2>5, RowsShrink
<1>7. SpaceTyped' BY <1>1, <1>2 DEF DeleteWrite, SpaceTyped, remote, flush, history
<1>8. TasksTyped' /\ FlushTyped'
  <2> DEFINE j == [NoJob EXCEPT !.old = job[t].old]
  <2>1. NoJob \in Jobs' /\ j \in Jobs'
    BY <1>1, <1>2, <1>3, NoJobTyped DEF RowsTyped, TasksTyped, Jobs, NoJob
  <2>2. /\ lock' \in Tasks \cup {None} /\ fails' = fails
        /\ "forget" \in Places /\ "idle" \in Places \ Deleting
    BY <1>1 DEF DeleteWrite, flush, TasksTyped, Places, Deleting, Cancellable, Pushing
  <2>3. (Move(t, "forget", j) /\ j.old # NoUri) \/ Move(t, "idle", NoJob)
    BY DEF DeleteWrite, NoJob
  <2> HIDE DEF j
  <2> QED BY <1>1, <1>2, <1>3, <2>1, <2>2, <2>3, MoveTyped
<1>9. CountsTyped' BY <1>1, CountsFrame DEF DeleteWrite
<1> QED BY <1>6, <1>7, <1>8, <1>9, PartsType

LEMMA BeginPushTypes ==
  ASSUME TypeOK, NEW t \in Tasks, BeginPush(t) PROVE TypeOK'
<1>1. RowsTyped /\ SpaceTyped /\ TasksTyped /\ FlushTyped /\ CountsTyped BY TypesInParts
<1>2. Uris' = Uris /\ Jobs' = Jobs BY SameJobs DEF BeginPush, db, remote
<1>6. RowsTyped' BY <1>1, <1>2, RowsFrame DEF BeginPush, db, flush, RowsTyped
<1>7. SpaceTyped' BY <1>1, <1>2 DEF BeginPush, SpaceTyped, db, remote, flush, history
<1>8. TasksTyped' /\ FlushTyped'
  <2> DEFINE j == [job[t] EXCEPT !.entry = rows[job[t].id].entry]
  <2>1. j \in Jobs'
    BY <1>1, <1>2 DEF BeginPush, Unpushed, RowsTyped, TasksTyped, Jobs, NoJob, UriOf
  <2>2. /\ lock' \in Tasks \cup {None} /\ fails' = fails
        /\ "remember" \in Places \ Deleting /\ pc[t] # "pull"
    BY <1>1
    DEF BeginPush, Holds, Release, flush, TasksTyped, Places, Deleting, Cancellable, Pushing
  <2>3. Move(t, "remember", j) BY DEF BeginPush
  <2> HIDE DEF j
  <2> QED BY <1>1, <1>2, <2>1, <2>2, <2>3, MoveTyped
<1>9. CountsTyped' BY <1>1, CountsFrame DEF BeginPush
<1> QED BY <1>6, <1>7, <1>8, <1>9, PartsType

LEMMA SkipPushTypes ==
  ASSUME TypeOK, NEW t \in Tasks, SkipPush(t) PROVE TypeOK'
<1>1. RowsTyped /\ SpaceTyped /\ TasksTyped /\ FlushTyped /\ CountsTyped BY TypesInParts
<1>2. Uris' = Uris /\ Jobs' = Jobs BY SameJobs DEF SkipPush, db, remote
<1>6. RowsTyped' BY <1>1, <1>2, RowsFrame DEF SkipPush, db, flush, history, RowsTyped
<1>7. SpaceTyped' BY <1>1, <1>2 DEF SkipPush, SpaceTyped, db, remote, flush, history
<1>8. TasksTyped' /\ FlushTyped'
  BY <1>1, ReturnTyped DEF SkipPush, db, remote, RowsTyped
<1>9. CountsTyped' BY <1>1, CountsFrame DEF SkipPush
<1> QED BY <1>6, <1>7, <1>8, <1>9, PartsType

LEMMA BeginReplaceTypes ==
  ASSUME TypeOK, NEW t \in Tasks, BeginReplace(t) PROVE TypeOK'
<1>1. RowsTyped /\ SpaceTyped /\ TasksTyped /\ FlushTyped /\ CountsTyped BY TypesInParts
<1>2. Uris' = Uris /\ Jobs' = Jobs BY SameJobs DEF BeginReplace, db, remote
<1>6. RowsTyped' BY <1>1, <1>2, RowsFrame DEF BeginReplace, db, flush, RowsTyped
<1>7. SpaceTyped' BY <1>1, <1>2 DEF BeginReplace, SpaceTyped, db, remote, flush, history
<1>8. TasksTyped' /\ FlushTyped'
  <2> DEFINE j == [job[t] EXCEPT !.entry = rows[job[t].id].entry,
                            !.old = UriOf(job[t].id)]
  <2>1. j \in Jobs'
    BY <1>1, <1>2 DEF BeginReplace, RowsTyped, TasksTyped, Jobs, NoJob, UriOf
  <2>2. /\ lock' \in Tasks \cup {None} /\ fails' = fails
        /\ "remember" \in Places \ Deleting /\ pc[t] # "pull"
    BY <1>1
    DEF BeginReplace, Holds, Release, flush, TasksTyped, Places, Deleting, Cancellable, Pushing
  <2>3. Move(t, "remember", j) BY DEF BeginReplace
  <2> HIDE DEF j
  <2> QED BY <1>1, <1>2, <2>1, <2>2, <2>3, MoveTyped
<1>9. CountsTyped' BY <1>1, CountsFrame DEF BeginReplace
<1> QED BY <1>6, <1>7, <1>8, <1>9, PartsType

LEMMA SkipReplaceTypes ==
  ASSUME TypeOK, NEW t \in Tasks, SkipReplace(t) PROVE TypeOK'
<1>1. RowsTyped /\ SpaceTyped /\ TasksTyped /\ FlushTyped /\ CountsTyped BY TypesInParts
<1>2. Uris' = Uris /\ Jobs' = Jobs BY SameJobs DEF SkipReplace, db, remote
<1>6. RowsTyped' BY <1>1, <1>2, RowsFrame DEF SkipReplace, db, flush, history, RowsTyped
<1>7. SpaceTyped' BY <1>1, <1>2 DEF SkipReplace, SpaceTyped, db, remote, flush, history
<1>8. TasksTyped' /\ FlushTyped'
  BY <1>1, ReturnTyped DEF SkipReplace, db, remote, RowsTyped
<1>9. CountsTyped' BY <1>1, CountsFrame DEF SkipReplace
<1> QED BY <1>6, <1>7, <1>8, <1>9, PartsType

LEMMA RememberTypes ==
  ASSUME TypeOK, NEW t \in Tasks, Remember(t) PROVE TypeOK'
<1>1. RowsTyped /\ SpaceTyped /\ TasksTyped /\ FlushTyped /\ CountsTyped BY TypesInParts
<1>2. job[t].entry \in Entries BY <1>1 DEF TasksTyped, Jobs
<1>3. Create(job[t].entry) => /\ records' \in Seq(Entries)
                             /\ Uris' = Uris \cup {Len(records')}
                             /\ space' = space \cup {Len(records')}
                             /\ ours' = ours \cup {Len(records')}
  BY <1>1, <1>2, CreateTyped
<1>4. Jobs \subseteq Jobs' /\ Uris \subseteq Uris'
  BY <1>1, <1>3, JobsGrow DEF Remember, db, remote, RowsTyped, Uris
<1>6. RowsTyped' BY <1>1, <1>4, RowsFrame DEF Remember, db, flush, RowsTyped
<1>7. SpaceTyped' BY <1>1, <1>3 DEF Remember, SpaceTyped, db, flush
<1>8. TasksTyped' /\ FlushTyped'
  <2> DEFINE j == [job[t] EXCEPT !.new = Len(records')]
  <2>1. j \in Jobs' BY <1>1, <1>3, <1>4 DEF Remember, TasksTyped, Jobs
  <2>2. /\ lock' \in Tasks \cup {None} /\ fails' = fails
        /\ "link" \in Places \ Deleting /\ pc[t] # "pull"
    BY <1>1 DEF Remember, flush, TasksTyped, Places, Deleting, Cancellable, Pushing
  <2>3. Move(t, "link", j) BY DEF Remember
  <2> HIDE DEF j
  <2> QED BY <1>1, <1>4, <2>1, <2>2, <2>3, MoveTyped
<1>9. CountsTyped' BY <1>1, CountsFrame DEF Remember
<1> QED BY <1>6, <1>7, <1>8, <1>9, PartsType

LEMMA RememberFailsTypes ==
  ASSUME TypeOK, NEW t \in Tasks, RememberFails(t) PROVE TypeOK'
<1>1. RowsTyped /\ SpaceTyped /\ TasksTyped /\ FlushTyped /\ CountsTyped BY TypesInParts
<1>2. job[t].entry \in Entries BY <1>1 DEF TasksTyped, Jobs
<1>3. Create(job[t].entry) => /\ records' \in Seq(Entries)
                             /\ Uris' = Uris \cup {Len(records')}
                             /\ space' = space \cup {Len(records')}
                             /\ ours' = ours \cup {Len(records')}
  BY <1>1, <1>2, CreateTyped
<1>4. Jobs \subseteq Jobs' /\ Uris \subseteq Uris'
  BY <1>1, <1>3, JobsGrow DEF RememberFails, db, remote, RowsTyped, Uris
<1>6. RowsTyped' BY <1>1, <1>4, RowsFrame DEF RememberFails, db, RowsTyped
<1>7. SpaceTyped'
  <2>1. CASE Create(job[t].entry) BY <1>1, <1>3, <2>1 DEF RememberFails, db, SpaceTyped
  <2>2. CASE UNCHANGED <<remote, ours>>
    BY <1>1, <2>2 DEF RememberFails, db, SpaceTyped, remote, Uris
  <2> QED BY <2>1, <2>2 DEF RememberFails
<1>8. TasksTyped' /\ FlushTyped'
  <2>1. CASE job[t].old = NoUri
    <3>1. lastId' = lastId /\ NoJob \in Jobs'
      BY <1>1, <1>4, NoJobTyped DEF RememberFails, db, RowsTyped
    <3>2. Raise(t) /\ pc[t] # "pull" BY <2>1 DEF RememberFails
    <3> QED BY <1>1, <1>4, <3>1, <3>2, RaiseTyped
  <2>2. CASE job[t].old # NoUri
    <3>1. Move(t, "unlink", job[t]) /\ lock' = lock /\ fails' = fails /\ pc[t] # "pull"
      BY <2>2 DEF RememberFails
    <3>2. job[t] \in Jobs' /\ lock \in Tasks \cup {None} /\ "unlink" \in Places
      BY <1>1, <1>4 DEF TasksTyped, Places, Cancellable, Pushing
    <3> QED BY <1>1, <1>4, <2>2, <3>1, <3>2, MoveTyped
  <2> QED BY <2>1, <2>2
<1>9. CountsTyped' BY <1>1, CountsFrame DEF RememberFails
<1> QED BY <1>6, <1>7, <1>8, <1>9, PartsType

LEMMA LinkNewTypes ==
  ASSUME TypeOK, NEW t \in Tasks, LinkNew(t) PROVE TypeOK'
<1>1. RowsTyped /\ SpaceTyped /\ TasksTyped /\ FlushTyped /\ CountsTyped BY TypesInParts
<1>2. Uris' = Uris /\ Jobs' = Jobs BY SameJobs DEF LinkNew, remote
<1>6. RowsTyped'
  <2> DEFINE id == job[t].id  new == job[t].new
  <2>1. new \in Uris \cup {NoUri} BY <1>1 DEF TasksTyped, Jobs
  <2>2. CASE id \in Ids
    <3>1. rows' = [rows EXCEPT ![id].uri = new] BY <2>2 DEF LinkNew, Link
    <3>2. Ids' = Ids BY <3>1 DEF Ids
    <3>3. rows' \in [Ids' -> [entry : Entries, uri : Uris \cup {NoUri}]']
      BY <1>1, <1>2, <2>1, <3>1, <3>2 DEF RowsTyped
    <3>4. \A i \in Ids : rows'[i].uri = IF i = id THEN new ELSE rows[i].uri
      BY <1>1, <2>2, <3>1 DEF RowsTyped
    <3>5. \A i \in Ids : rows[i].uri = NoUri \/ rows[i].uri # new
      BY <2>2 DEF LinkNew, RowUris
    <3>6. \A i, k \in Ids : rows'[i].uri = rows'[k].uri => i = k \/ rows'[i].uri = NoUri
      BY <1>1, <3>4, <3>5 DEF RowsTyped
    <3>7. UNCHANGED <<lastId, todo, dropped>> BY DEF LinkNew, history
    <3> QED BY <1>1, <3>2, <3>3, <3>6, <3>7 DEF RowsTyped
  <2>3. CASE id \notin Ids
    BY <1>1, <1>2, <2>3, RowsFrame DEF LinkNew, Link, history, RowsTyped
  <2> QED BY <2>2, <2>3
<1>7. SpaceTyped' BY <1>1, <1>2 DEF LinkNew, SpaceTyped, remote, history
<1>8. TasksTyped' /\ FlushTyped'
  <2>1. CASE job[t].old = NoUri
    BY <1>1, <2>1, ReturnTyped DEF LinkNew, remote, RowsTyped
  <2>2. CASE job[t].old # NoUri
    <3> DEFINE j == [NoJob EXCEPT !.old = job[t].old]
    <3>1. j \in Jobs' BY <1>1, <1>2, NoJobTyped DEF RowsTyped, TasksTyped, Jobs, NoJob
    <3>2. lock' \in Tasks \cup {None} /\ fails' = fails /\ "forget" \in Places /\ pc[t] # "pull"
      BY <1>1, <2>2 DEF LinkNew, Release, TasksTyped, Places, Deleting, Cancellable, Pushing
    <3>3. Move(t, "forget", j) /\ j.old # NoUri BY <2>2 DEF LinkNew, NoJob
    <3> HIDE DEF j
    <3> QED BY <1>1, <1>2, <3>1, <3>2, <3>3, MoveTyped
  <2> QED BY <2>1, <2>2
<1>9. CountsTyped' BY <1>1, CountsFrame DEF LinkNew
<1> QED BY <1>6, <1>7, <1>8, <1>9, PartsType

LEMMA LinkFailsTypes ==
  ASSUME TypeOK, NEW t \in Tasks, LinkFails(t) PROVE TypeOK'
<1>1. RowsTyped /\ SpaceTyped /\ TasksTyped /\ FlushTyped /\ CountsTyped BY TypesInParts
<1>2. Uris' = Uris /\ Jobs' = Jobs BY SameJobs DEF LinkFails, db, remote
<1>6. RowsTyped'
  <2>1. job[t].id \in 0..lastId BY <1>1 DEF TasksTyped, Jobs
  <2> QED BY <1>1, <1>2, <2>1, RowsFrame DEF LinkFails, db, RowsTyped
<1>7. SpaceTyped' BY <1>1, <1>2 DEF LinkFails, SpaceTyped, db, remote, flush, history
<1>8. TasksTyped' /\ FlushTyped'
  <2>1. NoJob \in Jobs' BY <1>1, <1>2, NoJobTyped DEF RowsTyped
  <2>2. Raise(t) /\ pc[t] # "pull" BY DEF LinkFails, Pushing, Cancellable
  <2> QED BY <1>1, <1>2, <2>1, <2>2, RaiseTyped
<1>9. CountsTyped' BY <1>1, CountsFrame DEF LinkFails
<1> QED BY <1>6, <1>7, <1>8, <1>9, PartsType

LEMMA UnlinkTypes ==
  ASSUME TypeOK, NEW t \in Tasks, Unlink(t) PROVE TypeOK'
<1>1. RowsTyped /\ SpaceTyped /\ TasksTyped /\ FlushTyped /\ CountsTyped BY TypesInParts
<1>2. Uris' = Uris /\ Jobs' = Jobs BY SameJobs DEF Unlink, remote
<1>6. RowsTyped'
  <2> DEFINE id == job[t].id
  <2>1. CASE id \in Ids
    <3>1. rows' = [rows EXCEPT ![id].uri = NoUri] BY <2>1 DEF Unlink, Link
    <3>2. Ids' = Ids BY <3>1 DEF Ids
    <3>3. rows' \in [Ids' -> [entry : Entries, uri : Uris \cup {NoUri}]']
      BY <1>1, <1>2, <3>1, <3>2 DEF RowsTyped
    <3>4. \A i \in Ids : rows'[i].uri \in {rows[i].uri, NoUri}
      BY <1>1, <2>1, <3>1 DEF RowsTyped
    <3>5. lastId' = lastId /\ todo' = todo /\ dropped' \subseteq 0..lastId
      BY <1>1 DEF Unlink, flush, history, RowsTyped
    <3> QED BY <1>1, <3>2, <3>3, <3>4, <3>5, RowsShrink
  <2>2. CASE id \notin Ids
    BY <1>1, <1>2, <2>2, RowsFrame DEF Unlink, Link, flush, history, RowsTyped
  <2> QED BY <2>1, <2>2
<1>7. SpaceTyped' BY <1>1, <1>2 DEF Unlink, SpaceTyped, remote, flush, history
<1>8. TasksTyped' /\ FlushTyped'
  <2>1. lock' \in Tasks \cup {None} /\ fails' = fails /\ "bury" \in Places /\ pc[t] # "pull"
    BY <1>1
    DEF Unlink, Holds, Release, flush, TasksTyped, Places, Deleting, Cancellable, Pushing
  <2>2. Goto(t, "bury") /\ job' = job /\ job[t].old # NoUri
    BY <1>1 DEF Unlink, TasksTyped, Deleting
  <2> QED BY <1>1, <1>2, <2>1, <2>2, GotoTyped
<1>9. CountsTyped' BY <1>1, CountsFrame DEF Unlink
<1> QED BY <1>6, <1>7, <1>8, <1>9, PartsType

LEMMA ForgetTypes ==
  ASSUME TypeOK, NEW t \in Tasks, Forget(t) PROVE TypeOK'
<1>1. RowsTyped /\ SpaceTyped /\ TasksTyped /\ FlushTyped /\ CountsTyped BY TypesInParts
<1>2. Uris' = Uris /\ Jobs' = Jobs BY SameJobs DEF Forget, db
<1>6. RowsTyped' BY <1>1, <1>2, RowsFrame DEF Forget, db, flush, history, RowsTyped
<1>7. SpaceTyped' BY <1>1, <1>2 DEF Forget, SpaceTyped, db, remote, flush, history
<1>8. TasksTyped' /\ FlushTyped'
  BY <1>1, ReturnTyped DEF Forget, db, RowsTyped
<1>9. CountsTyped' BY <1>1, CountsFrame DEF Forget
<1> QED BY <1>6, <1>7, <1>8, <1>9, PartsType

LEMMA ForgetFailsTypes ==
  ASSUME TypeOK, NEW t \in Tasks, ForgetFails(t) PROVE TypeOK'
<1>1. RowsTyped /\ SpaceTyped /\ TasksTyped /\ FlushTyped /\ CountsTyped BY TypesInParts
<1>2. Uris' = Uris /\ Jobs' = Jobs BY SameJobs DEF ForgetFails, db
<1>6. RowsTyped' BY <1>1, <1>2, RowsFrame DEF ForgetFails, db, flush, history, RowsTyped
<1>7. SpaceTyped' BY <1>1, <1>2 DEF ForgetFails, SpaceTyped, db, remote, flush, history
<1>8. TasksTyped' /\ FlushTyped'
  <2>1. lock' \in Tasks \cup {None} /\ fails' = fails /\ "bury" \in Places /\ pc[t] # "pull"
    BY <1>1
    DEF ForgetFails, Holds, Release, flush, TasksTyped, Places, Deleting, Cancellable, Pushing
  <2>2. Goto(t, "bury") /\ job' = job /\ job[t].old # NoUri
    BY <1>1 DEF ForgetFails, TasksTyped, Deleting
  <2> QED BY <1>1, <1>2, <2>1, <2>2, GotoTyped
<1>9. CountsTyped' BY <1>1, CountsFrame DEF ForgetFails
<1> QED BY <1>6, <1>7, <1>8, <1>9, PartsType

LEMMA BuryOldTypes ==
  ASSUME TypeOK, NEW t \in Tasks, BuryOld(t) PROVE TypeOK'
<1>1. RowsTyped /\ SpaceTyped /\ TasksTyped /\ FlushTyped /\ CountsTyped BY TypesInParts
<1>2. Uris' = Uris /\ Jobs' = Jobs BY SameJobs DEF BuryOld, remote
<1>6. RowsTyped' BY <1>1, <1>2, RowsFrame DEF BuryOld, history, RowsTyped
<1>7. SpaceTyped'
  <2>1. job[t].old \in Uris BY <1>1 DEF BuryOld, TasksTyped, Jobs, Deleting
  <2>2. tombs' \subseteq Uris BY <1>1, <2>1 DEF BuryOld, Bury, SpaceTyped
  <2> QED BY <1>1, <1>2, <2>2 DEF BuryOld, SpaceTyped, remote, history
<1>8. TasksTyped' /\ FlushTyped'
  <2>1. NoJob \in Jobs' BY <1>1, <1>2, NoJobTyped DEF RowsTyped
  <2>2. Raise(t) /\ pc[t] # "pull" BY DEF BuryOld, Pushing, Cancellable
  <2> QED BY <1>1, <1>2, <2>1, <2>2, RaiseTyped
<1>9. CountsTyped' BY <1>1, CountsFrame DEF BuryOld
<1> QED BY <1>6, <1>7, <1>8, <1>9, PartsType

(* The sync task. *)

LEMMA ConnectTypes ==
  ASSUME TypeOK, Connect PROVE TypeOK'
<1>1. RowsTyped /\ SpaceTyped /\ TasksTyped /\ FlushTyped /\ CountsTyped BY TypesInParts
<1>2. Uris' = Uris /\ Jobs' = Jobs BY SameJobs DEF Connect, db, remote
<1>3. Sync \in Tasks /\ MaxConsecutiveFailures \in Nat \ {0} BY EngramAssumption DEF Tasks
<1>6. RowsTyped' BY <1>1, <1>2, RowsFrame DEF Connect, db, flush, history, RowsTyped
<1>7. SpaceTyped' BY <1>1, <1>2 DEF Connect, SpaceTyped, db, remote, flush, history
<1>8. TasksTyped' /\ FlushTyped'
  BY <1>1, <1>2 DEF Connect, TasksTyped, FlushTyped, flush
<1>9. CountsTyped' BY <1>1, CountsFrame DEF Connect
<1> QED BY <1>6, <1>7, <1>8, <1>9, PartsType

LEMMA StartFlushTypes ==
  ASSUME TypeOK, StartFlush PROVE TypeOK'
<1>1. RowsTyped /\ SpaceTyped /\ TasksTyped /\ FlushTyped /\ CountsTyped BY TypesInParts
<1>2. Uris' = Uris /\ Jobs' = Jobs BY SameJobs DEF StartFlush, db, remote
<1>3. Sync \in Tasks /\ MaxConsecutiveFailures \in Nat \ {0} BY EngramAssumption DEF Tasks
<1>6. RowsTyped' BY <1>1, <1>2, RowsFrame DEF StartFlush, db, history, RowsTyped
<1>7. SpaceTyped' BY <1>1, <1>2 DEF StartFlush, SpaceTyped, db, remote, flush, history
<1>8. TasksTyped' /\ FlushTyped'
  <2>1. /\ pc' \in [Tasks -> Places]
        /\ \A s \in Tasks : pc'[s] \in Deleting => job'[s].old # NoUri
    BY <1>1, <1>3 DEF StartFlush, Goto, TasksTyped, Places, Deleting
  <2>2. lock' = lock /\ job' = job /\ fails' = 0 BY DEF StartFlush
  <2> QED BY <1>1, <1>2, <1>3, <2>1, <2>2 DEF TasksTyped, FlushTyped
<1>9. CountsTyped' BY <1>1, CountsFrame DEF StartFlush
<1> QED BY <1>6, <1>7, <1>8, <1>9, PartsType

LEMMA RetryDeleteTypes ==
  ASSUME TypeOK, RetryDelete PROVE TypeOK'
<1>1. RowsTyped /\ SpaceTyped /\ TasksTyped /\ FlushTyped /\ CountsTyped BY TypesInParts
<1>2. Uris' = Uris /\ Jobs' = Jobs BY SameJobs DEF RetryDelete, db, remote
<1>3. Sync \in Tasks /\ MaxConsecutiveFailures \in Nat \ {0} BY EngramAssumption DEF Tasks
<1>6. RowsTyped' BY <1>1, <1>2, RowsFrame DEF RetryDelete, db, history, RowsTyped
<1>7. SpaceTyped' BY <1>1, <1>2 DEF RetryDelete, SpaceTyped, db, remote, history
<1>8. TasksTyped' /\ FlushTyped'
  <2>1. PICK uri \in dead : Move(Sync, "retry", [NoJob EXCEPT !.old = uri])
    BY DEF RetryDelete
  <2> DEFINE j == [NoJob EXCEPT !.old = uri]
  <2>2. uri \in Uris /\ uri # NoUri BY <1>1 DEF SpaceTyped, Uris, NoUri
  <2>3. j \in Jobs' /\ j.old # NoUri
    BY <1>1, <1>2, <2>2, NoJobTyped DEF RowsTyped, Jobs, NoJob
  <2>4. /\ lock' \in Tasks \cup {None} /\ fails' = fails
        /\ "retry" \in Places /\ pc[Sync] # "pull"
    BY <1>1, <1>3 DEF RetryDelete, Holds, Places
  <2>5. Move(Sync, "retry", j) BY <2>1
  <2> HIDE DEF j
  <2> QED BY <1>1, <1>2, <1>3, <2>3, <2>4, <2>5, MoveTyped
<1>9. CountsTyped' BY <1>1, CountsFrame DEF RetryDelete
<1> QED BY <1>6, <1>7, <1>8, <1>9, PartsType

LEMMA RetrySucceedsTypes ==
  ASSUME TypeOK, RetrySucceeds PROVE TypeOK'
<1>1. RowsTyped /\ SpaceTyped /\ TasksTyped /\ FlushTyped /\ CountsTyped BY TypesInParts
<1>2. Uris' = Uris /\ Jobs' = Jobs BY SameJobs DEF RetrySucceeds, db
<1>3. Sync \in Tasks /\ MaxConsecutiveFailures \in Nat \ {0} BY EngramAssumption DEF Tasks
<1>6. RowsTyped' BY <1>1, <1>2, RowsFrame DEF RetrySucceeds, db, flush, history, RowsTyped
<1>7. SpaceTyped' BY <1>1, <1>2 DEF RetrySucceeds, SpaceTyped, db, remote, flush, history
<1>8. TasksTyped' /\ FlushTyped'
  <2>1. /\ lock' \in Tasks \cup {None} /\ fails' = fails
        /\ "clear" \in Places /\ pc[Sync] # "pull"
    BY <1>1, <1>3 DEF RetrySucceeds, Release, flush, TasksTyped, Places
  <2>2. Goto(Sync, "clear") /\ job' = job /\ job[Sync].old # NoUri
    BY <1>1, <1>3 DEF RetrySucceeds, TasksTyped, Deleting
  <2> QED BY <1>1, <1>2, <1>3, <2>1, <2>2, GotoTyped
<1>9. CountsTyped' BY <1>1, CountsFrame DEF RetrySucceeds
<1> QED BY <1>6, <1>7, <1>8, <1>9, PartsType

LEMMA RetryFailsTypes ==
  ASSUME TypeOK, RetryFails PROVE TypeOK'
<1>1. RowsTyped /\ SpaceTyped /\ TasksTyped /\ FlushTyped /\ CountsTyped BY TypesInParts
<1>2. Uris' = Uris /\ Jobs' = Jobs BY SameJobs DEF RetryFails, db
<1>3. Sync \in Tasks /\ MaxConsecutiveFailures \in Nat \ {0} BY EngramAssumption DEF Tasks
<1>6. RowsTyped' BY <1>1, <1>2, RowsFrame DEF RetryFails, db, history, RowsTyped
<1>7. SpaceTyped' BY <1>1, <1>2 DEF RetryFails, SpaceTyped, db, history
<1>8. TasksTyped' /\ FlushTyped'
  <2>1. NoJob \in Jobs BY <1>1, NoJobTyped DEF RowsTyped
  <2>2. /\ pc' \in [Tasks -> Places] /\ job' \in [Tasks -> Jobs]
        /\ \A s \in Tasks : pc'[s] \in Deleting => job'[s].old # NoUri
    BY <1>1, <1>3, <2>1 DEF RetryFails, Move, Goto, TasksTyped, Places, Deleting
  <2>3. lock' \in Tasks \cup {None} BY <1>1 DEF RetryFails, Release, TasksTyped
  <2>4. fails' = fails + 1 /\ fails < MaxConsecutiveFailures
    BY <1>1, <1>3 DEF RetryFails, FlushTyped
  <2>5. ~(fails' < MaxConsecutiveFailures) => pc'[Sync] = "pull"
    BY <1>1, <1>3 DEF RetryFails, Move, Goto, TasksTyped
  <2>6. FlushTyped' BY <1>1, <1>3, <2>4, <2>5 DEF FlushTyped
  <2> QED BY <1>2, <2>2, <2>3, <2>6 DEF TasksTyped
<1>9. CountsTyped' BY <1>1, CountsFrame DEF RetryFails
<1> QED BY <1>6, <1>7, <1>8, <1>9, PartsType

LEMMA ClearTombstoneTypes ==
  ASSUME TypeOK, ClearTombstone PROVE TypeOK'
<1>1. RowsTyped /\ SpaceTyped /\ TasksTyped /\ FlushTyped /\ CountsTyped BY TypesInParts
<1>2. Uris' = Uris /\ Jobs' = Jobs BY SameJobs DEF ClearTombstone, remote
<1>3. Sync \in Tasks /\ MaxConsecutiveFailures \in Nat \ {0} BY EngramAssumption DEF Tasks
<1>6. RowsTyped' BY <1>1, <1>2, RowsFrame DEF ClearTombstone, flush, history, RowsTyped
<1>7. SpaceTyped' BY <1>1, <1>2 DEF ClearTombstone, SpaceTyped, remote, flush, history
<1>8. TasksTyped' /\ FlushTyped'
  <2> DEFINE j == NoJob
  <2>1. j \in Jobs'
    BY <1>1, <1>2, <1>3, NoJobTyped DEF ClearTombstone, RowsTyped, TasksTyped, Jobs, NoJob
  <2>2. /\ lock' \in Tasks \cup {None} /\ fails' = fails
        /\ "deletes" \in Places \ Deleting /\ pc[Sync] # "pull"
    BY <1>1, <1>3
    DEF ClearTombstone, Holds, Release, flush, TasksTyped, Places, Deleting, Cancellable, Pushing
  <2>3. Move(Sync, "deletes", j) BY DEF ClearTombstone
  <2> HIDE DEF j
  <2> QED BY <1>1, <1>2, <1>3, <2>1, <2>2, <2>3, MoveTyped
<1>9. CountsTyped' BY <1>1, CountsFrame DEF ClearTombstone
<1> QED BY <1>6, <1>7, <1>8, <1>9, PartsType

LEMMA ListUnpushedTypes ==
  ASSUME TypeOK, ListUnpushed PROVE TypeOK'
<1>1. RowsTyped /\ SpaceTyped /\ TasksTyped /\ FlushTyped /\ CountsTyped BY TypesInParts
<1>2. Uris' = Uris /\ Jobs' = Jobs BY SameJobs DEF ListUnpushed, db, remote
<1>3. Sync \in Tasks /\ MaxConsecutiveFailures \in Nat \ {0} BY EngramAssumption DEF Tasks
<1>6. RowsTyped' BY <1>1, <1>2, RowsFrame DEF ListUnpushed, Unpushed, db, history, RowsTyped
<1>7. SpaceTyped' BY <1>1, <1>2 DEF ListUnpushed, SpaceTyped, db, remote, history
<1>8. TasksTyped' /\ FlushTyped'
  <2>1. /\ lock' \in Tasks \cup {None} /\ fails' = fails
        /\ "pushes" \in Places \ Deleting /\ pc[Sync] # "pull"
    BY <1>1, <1>3
    DEF ListUnpushed, Holds, Release, flush, TasksTyped, Places, Deleting, Cancellable, Pushing
  <2>2. Goto(Sync, "pushes") /\ job' = job BY DEF ListUnpushed
  <2> QED BY <1>1, <1>2, <1>3, <2>1, <2>2, GotoTyped
<1>9. CountsTyped' BY <1>1, CountsFrame DEF ListUnpushed
<1> QED BY <1>6, <1>7, <1>8, <1>9, PartsType

LEMMA RetryPushTypes ==
  ASSUME TypeOK, RetryPush PROVE TypeOK'
<1>1. RowsTyped /\ SpaceTyped /\ TasksTyped /\ FlushTyped /\ CountsTyped BY TypesInParts
<1>2. Uris' = Uris /\ Jobs' = Jobs BY SameJobs DEF RetryPush, db, remote
<1>3. Sync \in Tasks /\ MaxConsecutiveFailures \in Nat \ {0} BY EngramAssumption DEF Tasks
<1>6. RowsTyped' BY <1>1, <1>2, RowsFrame DEF RetryPush, db, history, RowsTyped
<1>7. SpaceTyped' BY <1>1, <1>2 DEF RetryPush, SpaceTyped, db, remote, history
<1>8. TasksTyped' /\ FlushTyped'
  <2>1. PICK id \in todo : Move(Sync, "push", [NoJob EXCEPT !.id = id]) BY DEF RetryPush
  <2> DEFINE j == [NoJob EXCEPT !.id = id]
  <2>2. id \in 0..lastId BY <1>1 DEF RowsTyped
  <2>3. j \in Jobs' BY <1>1, <1>2, <2>2, NoJobTyped DEF RowsTyped, Jobs, NoJob
  <2>4. /\ lock' \in Tasks \cup {None} /\ fails' = fails
        /\ "push" \in Places \ Deleting /\ pc[Sync] # "pull"
    BY <1>1 DEF RetryPush, TasksTyped, Places, Deleting, Cancellable, Pushing
  <2>5. Move(Sync, "push", j) BY <2>1
  <2> HIDE DEF j
  <2> QED BY <1>1, <1>2, <1>3, <2>3, <2>4, <2>5, MoveTyped
<1>9. CountsTyped' BY <1>1, CountsFrame DEF RetryPush
<1> QED BY <1>6, <1>7, <1>8, <1>9, PartsType

LEMMA ReadKnownTypes ==
  ASSUME TypeOK, ReadKnown PROVE TypeOK'
<1>1. RowsTyped /\ SpaceTyped /\ TasksTyped /\ FlushTyped /\ CountsTyped BY TypesInParts
<1>2. Uris' = Uris /\ Jobs' = Jobs BY SameJobs DEF ReadKnown, db, remote
<1>3. Sync \in Tasks /\ MaxConsecutiveFailures \in Nat \ {0} BY EngramAssumption DEF Tasks
<1>6. RowsTyped' BY <1>1, <1>2, RowsFrame DEF ReadKnown, db, history, RowsTyped
<1>7. SpaceTyped'
  <2>1. RowUris \subseteq Uris BY <1>1 DEF RowUris, RowsTyped
  <2> QED BY <1>1, <1>2, <2>1 DEF ReadKnown, SpaceTyped, db, remote, history
<1>8. TasksTyped' /\ FlushTyped'
  <2>1. /\ pc' \in [Tasks -> Places]
        /\ \A s \in Tasks : pc'[s] \in Deleting => job'[s].old # NoUri
    BY <1>1, <1>3 DEF ReadKnown, Goto, TasksTyped, Places, Deleting
  <2>2. lock' = lock /\ job' = job /\ fails' = 0 BY DEF ReadKnown
  <2> QED BY <1>1, <1>2, <1>3, <2>1, <2>2 DEF TasksTyped, FlushTyped
<1>9. CountsTyped' BY <1>1, CountsFrame DEF ReadKnown
<1> QED BY <1>6, <1>7, <1>8, <1>9, PartsType

LEMMA ListTypes ==
  ASSUME TypeOK, List PROVE TypeOK'
<1>1. RowsTyped /\ SpaceTyped /\ TasksTyped /\ FlushTyped /\ CountsTyped BY TypesInParts
<1>2. Uris' = Uris /\ Jobs' = Jobs BY SameJobs DEF List, db, remote
<1>3. Sync \in Tasks /\ MaxConsecutiveFailures \in Nat \ {0} BY EngramAssumption DEF Tasks
<1>6. RowsTyped' BY <1>1, <1>2, RowsFrame DEF List, db, flush, history, RowsTyped
<1>7. SpaceTyped'
  <2>1. (space \ known) \in SUBSET Uris BY <1>1 DEF SpaceTyped
  <2>2. found' \in [Tasks -> SUBSET Uris] BY <1>1, <2>1 DEF List, SpaceTyped
  <2> QED BY <1>1, <1>2, <2>2 DEF List, SpaceTyped, db, remote, flush, history
<1>8. TasksTyped' /\ FlushTyped'
  <2>1. lock' \in Tasks \cup {None} /\ fails' = fails /\ pc[Sync] # "pull"
        /\ {"idle", "ingest"} \subseteq Places \ Deleting
    BY <1>1 DEF List, flush, TasksTyped, Places, Deleting
  <2>2. (Goto(Sync, "idle") \/ Goto(Sync, "ingest")) /\ job' = job BY DEF List
  <2> QED BY <1>1, <1>2, <1>3, <2>1, <2>2, GotoTyped
<1>9. CountsTyped' BY <1>1, CountsFrame DEF List
<1> QED BY <1>6, <1>7, <1>8, <1>9, PartsType

LEMMA ListFailsTypes ==
  ASSUME TypeOK, ListFails PROVE TypeOK'
<1>1. RowsTyped /\ SpaceTyped /\ TasksTyped /\ FlushTyped /\ CountsTyped BY TypesInParts
<1>2. Uris' = Uris /\ Jobs' = Jobs BY SameJobs DEF ListFails, db, remote
<1>3. Sync \in Tasks /\ MaxConsecutiveFailures \in Nat \ {0} BY EngramAssumption DEF Tasks
<1>6. RowsTyped' BY <1>1, <1>2, RowsFrame DEF ListFails, db, flush, history, RowsTyped
<1>7. SpaceTyped' BY <1>1, <1>2 DEF ListFails, SpaceTyped, db, remote, flush, history
<1>8. TasksTyped' /\ FlushTyped'
  <2>1. /\ lock' \in Tasks \cup {None} /\ fails' = fails
        /\ "idle" \in Places \ Deleting /\ pc[Sync] # "pull"
    BY <1>1, <1>3
    DEF ListFails, Holds, Release, flush, TasksTyped, Places, Deleting, Cancellable, Pushing
  <2>2. Goto(Sync, "idle") /\ job' = job BY DEF ListFails
  <2> QED BY <1>1, <1>2, <1>3, <2>1, <2>2, GotoTyped
<1>9. CountsTyped' BY <1>1, CountsFrame DEF ListFails
<1> QED BY <1>6, <1>7, <1>8, <1>9, PartsType

LEMMA SearchTypes ==
  ASSUME TypeOK, NEW t \in Clients, Search(t) PROVE TypeOK'
<1>1. RowsTyped /\ SpaceTyped /\ TasksTyped /\ FlushTyped /\ CountsTyped BY TypesInParts
<1>2. Uris' = Uris /\ Jobs' = Jobs BY SameJobs DEF Search, db, remote
<1>3. t \in Tasks BY DEF Tasks
<1>6. RowsTyped' BY <1>1, <1>2, RowsFrame DEF Search, db, flush, history, RowsTyped
<1>7. SpaceTyped'
  <2>1. PICK uri \in space : found' = [found EXCEPT ![t] = {uri}] BY DEF Search
  <2>2. {uri} \in SUBSET Uris BY <1>1 DEF SpaceTyped
  <2>3. found' \in [Tasks -> SUBSET Uris] BY <1>1, <2>1, <2>2 DEF SpaceTyped
  <2> QED BY <1>1, <1>2, <2>3 DEF Search, SpaceTyped, db, remote, flush, history
<1>8. TasksTyped' /\ FlushTyped'
  <2>1. /\ lock' \in Tasks \cup {None} /\ fails' = fails
        /\ "ingest" \in Places \ Deleting /\ pc[t] # "pull"
    BY <1>1, <1>3
    DEF Search, Holds, Release, flush, TasksTyped, Places, Deleting, Cancellable, Pushing
  <2>2. Goto(t, "ingest") /\ job' = job BY DEF Search
  <2> QED BY <1>1, <1>2, <1>3, <2>1, <2>2, GotoTyped
<1>9. CountsTyped' BY <1>1, CountsFrame DEF Search
<1> QED BY <1>6, <1>7, <1>8, <1>9, PartsType

LEMMA IngestTypes ==
  ASSUME TypeOK, NEW t \in Tasks, Ingest(t) PROVE TypeOK'
<1>1. RowsTyped /\ SpaceTyped /\ TasksTyped /\ FlushTyped /\ CountsTyped BY TypesInParts
<1>2. lastId \in Nat /\ lastId' \in Nat /\ lastId <= lastId' BY <1>1 DEF Ingest, RowsTyped
<1>3. Uris' = Uris /\ Jobs \subseteq Jobs' BY <1>2, JobsGrow DEF Ingest, remote, Uris
<1>4. PICK uri \in found[t] :
        /\ found' = [found EXCEPT ![t] = @ \ {uri}]
        /\ lastId' = IF uri \in RowUris THEN lastId ELSE lastId + 1
        /\ IF uri \in RowUris
           THEN UNCHANGED <<rows, ours, again>>
           ELSE /\ Put(lastId', [entry |-> records[uri], uri |-> uri])
                /\ ours' = ours \cup {uri}
                /\ again' = again \cup ({uri} \cap ours)
  BY DEF Ingest
<1>5. uri \in Uris BY <1>1 DEF SpaceTyped
<1>6. RowsTyped'
  <2>1. CASE uri \in RowUris
    BY <1>1, <1>3, <1>4, <2>1, RowsFrame DEF Ingest, flush, RowsTyped
  <2>2. CASE uri \notin RowUris
    <3> DEFINE row == [entry |-> records[uri], uri |-> uri]
    <3>1. records[uri] \in Entries
      BY <1>1, <1>5, ElementOfSeq DEF SpaceTyped, Uris
    <3>2. row \in [entry : Entries, uri : Uris \cup {NoUri}] BY <1>5, <3>1
    <3>3. lastId' = lastId + 1 /\ Put(lastId', row) /\ UNCHANGED <<records, todo, dropped>>
      BY <1>4, <2>2 DEF Ingest, remote, flush
    <3>4. row.uri \notin RowUris BY <2>2
    <3> HIDE DEF row
    <3> QED BY <1>1, <3>2, <3>3, <3>4, NewRowTyped
  <2> QED BY <2>1, <2>2
<1>7. SpaceTyped'
  <2>1. found' \in [Tasks -> SUBSET Uris] BY <1>1, <1>4 DEF SpaceTyped
  <2>2. ours' \subseteq Uris /\ again' \subseteq ours' BY <1>1, <1>4, <1>5 DEF SpaceTyped
  <2> QED BY <1>1, <1>3, <2>1, <2>2 DEF Ingest, SpaceTyped, remote, flush
<1>8. TasksTyped' /\ FlushTyped'
  <2>1. lock' \in Tasks \cup {None} /\ fails' = fails /\ pc[t] # "pull"
        /\ {"idle", "ingest"} \subseteq Places \ Deleting
    BY <1>1 DEF Ingest, flush, TasksTyped, Places, Deleting
  <2>2. (Goto(t, "idle") \/ Goto(t, "ingest")) /\ job' = job BY DEF Ingest
  <2> QED BY <1>1, <1>3, <2>1, <2>2, GotoTyped
<1>9. CountsTyped' BY <1>1, CountsFrame DEF Ingest
<1> QED BY <1>6, <1>7, <1>8, <1>9, PartsType

LEMMA InterruptTypes ==
  ASSUME TypeOK, NEW t \in Tasks, Interrupt(t) PROVE TypeOK'
<1>1. RowsTyped /\ SpaceTyped /\ TasksTyped /\ FlushTyped /\ CountsTyped BY TypesInParts
<1>2. Uris' = Uris /\ Jobs' = Jobs BY SameJobs DEF Interrupt, db, remote
<1>6. RowsTyped'
  <2>1. job[t].id \in 0..lastId BY <1>1 DEF TasksTyped, Jobs
  <2> QED BY <1>1, <1>2, <2>1, RowsFrame DEF Interrupt, db, RowsTyped
<1>7. SpaceTyped' BY <1>1, <1>2 DEF Interrupt, SpaceTyped, db, remote, flush, history
<1>8. TasksTyped' /\ FlushTyped'
  <2>1. NoJob \in Jobs' BY <1>1, <1>2, NoJobTyped DEF RowsTyped
  <2>2. Raise(t) /\ pc[t] # "pull" BY DEF Interrupt, Pushing, Cancellable
  <2> QED BY <1>1, <1>2, <2>1, <2>2, RaiseTyped
<1>9. CountsTyped' BY <1>1, CountsFrame DEF Interrupt
<1> QED BY <1>6, <1>7, <1>8, <1>9, PartsType

LEMMA CrashTypes ==
  ASSUME TypeOK, Crash PROVE TypeOK'
<1>1. RowsTyped /\ SpaceTyped /\ TasksTyped /\ FlushTyped /\ CountsTyped BY TypesInParts
<1>2. Uris' = Uris /\ Jobs' = Jobs BY SameJobs DEF Crash, db, remote
<1>3. Sync \in Tasks /\ MaxConsecutiveFailures \in Nat \ {0} BY EngramAssumption DEF Tasks
<1>6. RowsTyped'
  <2>1. \A t \in Tasks : job[t].id \in 0..lastId BY <1>1 DEF TasksTyped, Jobs
  <2>2. dropped' \subseteq 0..lastId BY <1>1, <2>1 DEF Crash, RowsTyped
  <2>3. todo' = {} BY DEF Crash
  <2> QED BY <1>1, <1>2, <2>2, <2>3, RowsFrame DEF Crash, db
<1>7. SpaceTyped' BY <1>1, <1>2 DEF Crash, SpaceTyped, db, remote, flush, history
<1>8. TasksTyped' /\ FlushTyped'
  <2>1. NoJob \in Jobs BY <1>1, NoJobTyped DEF RowsTyped
  <2>2. pc' = [t \in Tasks |-> "idle"] /\ job' = [t \in Tasks |-> NoJob] BY DEF Crash
  <2>3. pc' \in [Tasks -> Places] /\ job' \in [Tasks -> Jobs]
    BY <2>1, <2>2 DEF Places
  <2>4. \A t \in Tasks : pc'[t] \notin Deleting BY <2>2 DEF Deleting
  <2>5. lock' = None /\ fails' = 0 BY DEF Crash
  <2> QED BY <1>2, <1>3, <2>3, <2>4, <2>5 DEF TasksTyped, FlushTyped
<1>9. CountsTyped' BY <1>1, CountsFrame DEF Crash
<1> QED BY <1>6, <1>7, <1>8, <1>9, PartsType

-----------------------------------------------------------------------------
LEMMA InitTypes == Init => TypeOK
<1> SUFFICES ASSUME Init PROVE TypeOK OBVIOUS
<1>1. PICK p \in Pasts :
        /\ records = p.records /\ space = DOMAIN records
        /\ tombs = p.tombs
        /\ lastId = p.linked /\ ours = 1..lastId \cup tombs
        /\ rows = [i \in 1..lastId |-> [entry |-> records[i], uri |-> i]]
  BY DEF Init
<1>2. records \in Seq(Entries) /\ lastId \in 0..Len(records)
      /\ tombs \subseteq (lastId + 1)..Len(records)
  BY <1>1, EngramAssumption
<1>3. Len(records) \in Nat /\ DOMAIN records = 1..Len(records) BY <1>2, LenProperties
<1>4. RowsTyped
  <2>1. \A i \in 1..lastId : records[i] \in Entries /\ i \in Uris
    BY <1>2, <1>3, ElementOfSeq DEF Uris
  <2>2. Ids = 1..lastId BY <1>1 DEF Ids
  <2>3. rows \in [Ids -> [entry : Entries, uri : Uris \cup {NoUri}]]
    BY <1>1, <2>1, <2>2
  <2>4. todo = {} /\ dropped = {} BY DEF Init
  <2> QED BY <1>1, <1>2, <1>3, <2>2, <2>3, <2>4 DEF RowsTyped
<1>5. SpaceTyped
  <2>1. found \in [Tasks -> SUBSET Uris] BY DEF Init
  <2>2. space \subseteq Uris /\ tombs \subseteq Uris /\ ours \subseteq Uris
    BY <1>1, <1>2, <1>3 DEF Uris
  <2>3. dead = {} /\ known = {} /\ again = {} /\ connected = FALSE BY DEF Init
  <2> QED BY <1>2, <2>1, <2>2, <2>3 DEF SpaceTyped
<1>6. TasksTyped
  <2>1. NoJob \in Jobs BY <1>2, <1>3, NoJobTyped
  <2> QED BY <2>1 DEF Init, TasksTyped, Places, Deleting
<1>7. FlushTyped BY EngramAssumption DEF Init, FlushTyped
<1>8. CountsTyped BY EngramAssumption DEF Init, CountsTyped, Troubles
<1> QED BY <1>4, <1>5, <1>6, <1>7, <1>8, TypesInParts

LEMMA TypesStep == TypeOK /\ [Next]_vars => TypeOK'
<1> SUFFICES ASSUME TypeOK, [Next]_vars PROVE TypeOK' OBVIOUS
<1>1. \A t \in Clients : t \in Tasks BY DEF Tasks
<1>2. Sync \in Tasks BY DEF Tasks
<1>3. ASSUME NEW t \in Tasks, Push(t) PROVE TypeOK'
  BY <1>3, BeginPushTypes, SkipPushTypes, RememberTypes, RememberFailsTypes,
     LinkNewTypes, LinkFailsTypes DEF Push
<1>4. ASSUME NEW t \in Clients, Write(t) PROVE TypeOK'
  BY <1>1, <1>4, UpdateWriteTypes, DeleteWriteTypes, BeginReplaceTypes,
     SkipReplaceTypes, UnlinkTypes, ForgetTypes, ForgetFailsTypes, BuryOldTypes
  DEF Write
<1>5. ASSUME NEW t \in Clients, Call(t) PROVE TypeOK'
  BY <1>5, AddTypes, UpdateReadTypes, DeleteReadTypes, SearchTypes DEF Call
<1>6. CASE Flush
  BY <1>6, StartFlushTypes, RetryDeleteTypes, RetrySucceedsTypes, RetryFailsTypes,
     ClearTombstoneTypes, ListUnpushedTypes, RetryPushTypes DEF Flush
<1>7. CASE Pull BY <1>7, ReadKnownTypes, ListTypes, ListFailsTypes DEF Pull
<1>8. CASE SyncStep
  BY <1>2, <1>3, <1>6, <1>7, <1>8, ConnectTypes, IngestTypes DEF SyncStep
<1>9. CASE \E t \in Clients : Call(t) \/ ClientStep(t)
  BY <1>1, <1>3, <1>4, <1>5, <1>9, IngestTypes DEF ClientStep
<1>10. CASE \E t \in Tasks : Interrupt(t) BY <1>10, InterruptTypes
<1>11. CASE Crash BY <1>11, CrashTypes
<1>12. CASE UNCHANGED vars
  BY <1>12 DEF vars, db, remote, flush, history, limits, TypeOK, Troubles, Ids, Uris
<1> QED BY <1>8, <1>9, <1>10, <1>11, <1>12 DEF Next

(* Whatever the clients call and in whatever order the space answers, the  *)
(* uris of the rows are unique, every uri is of a record, and a task that  *)
(* deletes a record has one to delete.                                     *)
THEOREM EngramTypes == Spec => []TypeOK
<1> QED BY InitTypes, TypesStep, PTL DEF Spec

-----------------------------------------------------------------------------
(* No row loses its record: what is known of every uri that is to be       *)
(* deleted or linked.                                                      *)

Before == {"delete", "remember", "link", "unlink"}   \* the row has its uri yet
Doomed == tombs \cup dead
Deletable == {job[t].old : t \in {s \in Tasks : pc[s] \notin Before}} \ {NoUri}

Free(uri) == uri \in ours /\ (uri \in RowUris => uri \in again)

RowsSound ==
  \A i \in Ids : rows[i].uri # NoUri =>
    rows[i].uri \in ours /\ rows[i].uri \in space \cup again

DoomedSound == \A uri \in Doomed : Free(uri)

OldSound ==
  \A t \in Tasks : job[t].old # NoUri =>
    /\ job[t].old \in ours
    /\ \A i \in Ids : rows[i].uri = job[t].old =>
         job[t].old \in again \/ (pc[t] \in Before /\ i = job[t].id)

Fresh(t) ==
  /\ job[t].new \in space
  /\ job[t].new \notin RowUris /\ job[t].new \notin Doomed
  /\ \A s \in Tasks : job[s].old # job[t].new
  /\ \A s \in Tasks : pc[s] = "link" /\ s # t => job[s].new # job[t].new

NewSound ==
  \A t \in Tasks : pc[t] = "link" =>
    job[t].new \in ours /\ (job[t].new \in again \/ Fresh(t))

ForeignSound == Uris \ ours \subseteq space

Sound == RowsSound /\ DoomedSound /\ OldSound /\ NewSound /\ ForeignSound

LEMMA InitSound == Init => Sound
<1> SUFFICES ASSUME Init PROVE Sound OBVIOUS
<1>1. PICK p \in Pasts :
        /\ records = p.records /\ space = DOMAIN records
        /\ tombs = p.tombs
        /\ lastId = p.linked /\ ours = 1..lastId \cup tombs
        /\ rows = [i \in 1..lastId |-> [entry |-> records[i], uri |-> i]]
  BY DEF Init
<1>2. records \in Seq(Entries) /\ lastId \in 0..Len(records)
      /\ tombs \subseteq (lastId + 1)..Len(records)
  BY <1>1, EngramAssumption
<1>3. Len(records) \in Nat /\ space = Uris BY <1>1, <1>2, LenProperties DEF Uris
<1>4. Ids = 1..lastId /\ \A i \in Ids : rows[i].uri = i BY <1>1 DEF Ids
<1>5. RowsSound BY <1>1, <1>2, <1>3, <1>4 DEF RowsSound, Uris
<1>6. DoomedSound
  BY <1>1, <1>2, <1>3, <1>4 DEF Init, DoomedSound, Doomed, Free, RowUris
<1>7. \A t \in Tasks : job[t].old = NoUri /\ pc[t] = "idle"
  BY DEF Init, NoJob
<1>8. OldSound /\ NewSound BY <1>7 DEF OldSound, NewSound
<1>9. ForeignSound BY <1>3 DEF ForeignSound
<1> QED BY <1>5, <1>6, <1>8, <1>9 DEF Sound

(* Most steps write no record and ingest none: rows keep their uris or     *)
(* lose them, and only uris that no row needs are deleted.                 *)
OldStays(t) ==
  /\ job'[t].old = job[t].old
  /\ \/ pc[t] \notin Before
     \/ pc'[t] \in Before /\ job'[t].id = job[t].id
     \/ job[t].id \notin Ids'
     \/ rows'[job[t].id].uri # job[t].old

OldRead(t) ==
  /\ pc'[t] \in Before /\ job'[t].id \in Ids
  /\ rows[job'[t].id].uri = job'[t].old

TaskGoesOn(t) ==
  /\ pc'[t] = "link" => pc[t] = "link" /\ job'[t].new = job[t].new
  /\ job'[t].old = NoUri \/ OldStays(t) \/ OldRead(t) \/ job'[t].old \in dead

RowsGoOn ==
  \A i \in Ids' : rows'[i].uri = NoUri \/ (i \in Ids /\ rows'[i].uri = rows[i].uri)

GoesOn ==
  /\ UNCHANGED <<records, ours, again>>
  /\ RowsGoOn
  /\ space' \subseteq space /\ space \ space' \subseteq Deletable
  /\ tombs' \cup dead' \subseteq Doomed \cup Deletable
  /\ \A t \in Tasks : TaskGoesOn(t)

LEMMA DeletableFree ==
  ASSUME OldSound PROVE \A uri \in Deletable : Free(uri)
BY DEF OldSound, Deletable, Free, RowUris

LEMMA GoesOnSound ==
  ASSUME TypeOK, Sound, GoesOn PROVE Sound'
<1>1. RowsSound /\ DoomedSound /\ OldSound /\ NewSound /\ ForeignSound BY DEF Sound
<1>2. \A uri \in Deletable : Free(uri) BY <1>1, DeletableFree
<1>3. RowUris' \subseteq RowUris BY DEF GoesOn, RowsGoOn, RowUris, Ids
<1>4. ours' = ours /\ again' = again /\ Uris' = Uris BY DEF GoesOn, Uris
<1>5. \A uri : Free(uri) => Free(uri)' BY <1>3, <1>4 DEF Free
<1>6. RowsSound'
  <2> SUFFICES ASSUME NEW i \in Ids', rows'[i].uri # NoUri
               PROVE  /\ rows'[i].uri \in ours'
                      /\ rows'[i].uri \in space' \cup again'
    BY DEF RowsSound, Ids
  <2>1. i \in Ids /\ rows'[i].uri = rows[i].uri BY DEF GoesOn, RowsGoOn
  <2>2. rows[i].uri \in RowUris BY <2>1 DEF RowUris
  <2>3. rows[i].uri \in ours /\ rows[i].uri \in space \cup again
    BY <1>1, <2>1 DEF RowsSound
  <2>4. rows[i].uri \notin again => rows[i].uri \notin Deletable
    BY <1>2, <2>2 DEF Free
  <2> QED BY <1>4, <2>1, <2>3, <2>4 DEF GoesOn
<1>7. DoomedSound'
  <2>1. Doomed' \subseteq Doomed \cup Deletable BY DEF GoesOn, Doomed
  <2>2. \A uri \in Doomed' : Free(uri) BY <1>1, <1>2, <2>1 DEF DoomedSound
  <2> QED BY <1>5, <2>2 DEF DoomedSound
<1>8. OldSound'
  <2> SUFFICES ASSUME NEW t \in Tasks, job'[t].old # NoUri
               PROVE  /\ job'[t].old \in ours
                      /\ \A i \in Ids' : rows'[i].uri = job'[t].old =>
                           job'[t].old \in again \/ (pc'[t] \in Before /\ i = job'[t].id)
    BY <1>4 DEF OldSound, Ids
  <2>1. \A i \in Ids' : rows'[i].uri = job'[t].old =>
          i \in Ids /\ rows[i].uri = job'[t].old
    BY DEF GoesOn, RowsGoOn
  <2>2. CASE OldStays(t)
    <3>1. job[t].old \in ours
          /\ \A i \in Ids : rows[i].uri = job[t].old =>
               job[t].old \in again \/ (pc[t] \in Before /\ i = job[t].id)
      BY <1>1, <2>2 DEF OldSound, OldStays
    <3> QED BY <2>1, <2>2, <3>1 DEF OldStays
  <2>3. CASE OldRead(t)
    <3>1. job'[t].old \in ours BY <1>1, <2>3 DEF OldRead, RowsSound
    <3>2. \A i \in Ids : rows[i].uri = job'[t].old => i = job'[t].id
      BY <2>3, TypesInParts DEF OldRead, RowsTyped
    <3> QED BY <2>1, <2>3, <3>1, <3>2 DEF OldRead
  <2>4. CASE job'[t].old \in dead
    <3>1. Free(job'[t].old) BY <1>1, <2>4 DEF DoomedSound, Doomed
    <3> QED BY <2>1, <3>1 DEF Free, RowUris
  <2> QED BY <2>2, <2>3, <2>4 DEF GoesOn, TaskGoesOn
<1>9. NewSound'
  <2> SUFFICES ASSUME NEW t \in Tasks, pc'[t] = "link"
               PROVE  job'[t].new \in ours /\ (job'[t].new \in again \/ Fresh(t)')
    BY <1>4 DEF NewSound
  <2> DEFINE u == job[t].new
  <2>1. pc[t] = "link" /\ job'[t].new = u BY DEF GoesOn, TaskGoesOn
  <2>2. u \in ours /\ (u \in again \/ Fresh(t)) BY <1>1, <2>1 DEF NewSound
  <2>3. SUFFICES ASSUME Fresh(t) PROVE Fresh(t)' BY <2>1, <2>2
  <2>4. u \notin Deletable BY <2>3 DEF Fresh, Deletable
  <2>5. u \in space' BY <2>3, <2>4 DEF Fresh, GoesOn
  <2>6. u \notin RowUris' /\ u \notin Doomed'
    BY <1>3, <2>3, <2>4 DEF Fresh, GoesOn, Doomed
  <2>7. ASSUME NEW s \in Tasks PROVE job'[s].old # u
    <3>1. u # NoUri BY <2>2, TypesInParts DEF SpaceTyped, Uris, NoUri
    <3>2. job[s].old # u /\ u \notin RowUris /\ u \notin dead
      BY <2>3 DEF Fresh, Doomed
    <3>3. TaskGoesOn(s) BY DEF GoesOn
    <3> QED BY <3>1, <3>2, <3>3 DEF TaskGoesOn, OldStays, OldRead, RowUris
  <2>8. ASSUME NEW s \in Tasks, pc'[s] = "link", s # t PROVE job'[s].new # u
    BY <2>3, <2>8 DEF Fresh, GoesOn, TaskGoesOn
  <2> QED BY <2>1, <2>5, <2>6, <2>7, <2>8 DEF Fresh
<1>10. ForeignSound'
  <2>1. Deletable \subseteq ours BY <1>2 DEF Free
  <2> QED BY <1>1, <1>4, <2>1 DEF ForeignSound, GoesOn
<1> QED BY <1>6, <1>7, <1>8, <1>9, <1>10 DEF Sound

-----------------------------------------------------------------------------
(* The steps that go on. *)

LEMMA MovedTask ==
  ASSUME TasksTyped, NEW t \in Tasks, NEW place, NEW j, Move(t, place, j)
  PROVE  /\ pc'[t] = place /\ job'[t] = j
         /\ \A s \in Tasks \ {t} : pc'[s] = pc[s] /\ job'[s] = job[s]
BY DEF Move, Goto, TasksTyped

LEMMA WentTask ==
  ASSUME TasksTyped, NEW t \in Tasks, NEW place, Goto(t, place), job' = job
  PROVE  /\ pc'[t] = place /\ job'[t] = job[t]
         /\ \A s \in Tasks \ {t} : pc'[s] = pc[s] /\ job'[s] = job[s]
BY DEF Goto, TasksTyped

LEMMA EndedTask ==
  ASSUME TasksTyped, NEW t \in Tasks, Return(t) \/ Raise(t)
  PROVE  /\ pc'[t] # "link" /\ job'[t].old = NoUri
         /\ \A s \in Tasks \ {t} : pc'[s] = pc[s] /\ job'[s] = job[s]
<1>1. PICK place \in {"idle", "pushes", "pull"} : Move(t, place, NoJob) BY DEF Return, Raise
<1>2. NoJob.old = NoUri BY DEF NoJob
<1> QED BY <1>1, <1>2, MovedTask

(* One task goes on and the others stay where they are.                    *)
LEMMA OthersGoOn ==
  ASSUME NEW t \in Tasks, TaskGoesOn(t),
         \A s \in Tasks \ {t} : pc'[s] = pc[s] /\ job'[s] = job[s]
  PROVE  \A s \in Tasks : TaskGoesOn(s)
BY DEF TaskGoesOn, OldStays

LEMMA EndGoesOn ==
  ASSUME TypeOK, NEW t \in Tasks, Return(t) \/ Raise(t)
  PROVE  \A s \in Tasks : TaskGoesOn(s)
<1>1. TasksTyped BY TypesInParts
<1>2. /\ pc'[t] # "link" /\ job'[t].old = NoUri
      /\ \A s \in Tasks \ {t} : pc'[s] = pc[s] /\ job'[s] = job[s]
  BY <1>1, EndedTask
<1>3. TaskGoesOn(t) BY <1>2 DEF TaskGoesOn
<1> QED BY <1>2, <1>3, OthersGoOn

(* A task that moves to a place that does not delete, or deletes what it   *)
(* has read already.                                                       *)
LEMMA MoveGoesOn ==
  ASSUME TypeOK, NEW t \in Tasks, NEW place, NEW j, Move(t, place, j), place # "link",
         \/ j.old = NoUri \/ j.old \in dead
         \/ j.old = job[t].old /\ pc[t] \notin Before
         \/ place \in Before /\ j.id \in Ids /\ rows[j.id].uri = j.old
         \/ j.old = job[t].old /\ place \in Before /\ j.id = job[t].id
         \/ j.old = job[t].old /\ job[t].id \notin Ids'
  PROVE  \A s \in Tasks : TaskGoesOn(s)
<1>1. TasksTyped BY TypesInParts
<1>2. /\ pc'[t] = place /\ job'[t] = j
      /\ \A s \in Tasks \ {t} : pc'[s] = pc[s] /\ job'[s] = job[s]
  BY <1>1, MovedTask
<1>3. TaskGoesOn(t) BY <1>2 DEF TaskGoesOn, OldStays, OldRead
<1> QED BY <1>2, <1>3, OthersGoOn

LEMMA GotoGoesOn ==
  ASSUME TypeOK, NEW t \in Tasks, NEW place, Goto(t, place), job' = job, place # "link",
         pc[t] \notin Before
  PROVE  \A s \in Tasks : TaskGoesOn(s)
<1>1. TasksTyped BY TypesInParts
<1>2. /\ pc'[t] = place /\ job'[t] = job[t]
      /\ \A s \in Tasks \ {t} : pc'[s] = pc[s] /\ job'[s] = job[s]
  BY <1>1, WentTask
<1>3. TaskGoesOn(t) BY <1>2 DEF TaskGoesOn, OldStays
<1> QED BY <1>2, <1>3, OthersGoOn

(* The steps that change neither the rows nor the space ...                *)
LEMMA QuietSound ==
  ASSUME TypeOK, Sound, UNCHANGED <<rows, records, space, ours, again>>,
         tombs' \cup dead' \subseteq Doomed, \A t \in Tasks : TaskGoesOn(t)
  PROVE  Sound'
<1>1. RowsGoOn BY DEF RowsGoOn, Ids
<1>2. GoesOn BY <1>1 DEF GoesOn
<1> QED BY <1>2, GoesOnSound

(* ... and those that delete a record.                                     *)
LEMMA DeleteSound ==
  ASSUME TypeOK, Sound, NEW t \in Tasks, pc[t] \in {"forget", "retry"},
         UNCHANGED <<rows, records, ours, again>>,
         space' \in {space, space \ {job[t].old}},
         tombs' \cup dead' \subseteq Doomed, \A s \in Tasks : TaskGoesOn(s)
  PROVE  Sound'
<1>1. RowsGoOn BY DEF RowsGoOn, Ids
<1>2. job[t].old # NoUri BY DEF TypeOK, Deleting
<1>3. job[t].old \in Deletable BY <1>2 DEF Deletable, Before
<1>4. GoesOn BY <1>1, <1>3 DEF GoesOn
<1> QED BY <1>4, GoesOnSound

LEMMA SkipPushSound ==
  ASSUME TypeOK, Sound, NEW t \in Tasks, SkipPush(t) PROVE Sound'
<1>1. \A s \in Tasks : TaskGoesOn(s) BY EndGoesOn DEF SkipPush
<1> QED BY <1>1, QuietSound DEF SkipPush, db, remote, history, Doomed

LEMMA SkipReplaceSound ==
  ASSUME TypeOK, Sound, NEW t \in Tasks, SkipReplace(t) PROVE Sound'
<1>1. \A s \in Tasks : TaskGoesOn(s) BY EndGoesOn DEF SkipReplace
<1> QED BY <1>1, QuietSound DEF SkipReplace, db, remote, history, Doomed

LEMMA LinkFailsSound ==
  ASSUME TypeOK, Sound, NEW t \in Tasks, LinkFails(t) PROVE Sound'
<1>1. \A s \in Tasks : TaskGoesOn(s) BY EndGoesOn DEF LinkFails
<1> QED BY <1>1, QuietSound DEF LinkFails, db, remote, Doomed

LEMMA InterruptSound ==
  ASSUME TypeOK, Sound, NEW t \in Tasks, Interrupt(t) PROVE Sound'
<1>1. \A s \in Tasks : TaskGoesOn(s) BY EndGoesOn DEF Interrupt
<1> QED BY <1>1, QuietSound DEF Interrupt, db, remote, Doomed

LEMMA StartFlushSound ==
  ASSUME TypeOK, Sound, StartFlush PROVE Sound'
<1>1. Sync \in Tasks BY DEF Tasks
<1>2. \A s \in Tasks : TaskGoesOn(s)
  <2>1. Goto(Sync, "deletes") /\ job' = job /\ pc[Sync] \notin Before
    BY DEF StartFlush, Before
  <2> QED BY <1>1, <2>1, GotoGoesOn
<1> QED BY <1>2, QuietSound DEF StartFlush, db, remote, history, Doomed

LEMMA ListUnpushedSound ==
  ASSUME TypeOK, Sound, ListUnpushed PROVE Sound'
<1>1. Sync \in Tasks BY DEF Tasks
<1>2. \A s \in Tasks : TaskGoesOn(s)
  <2>1. Goto(Sync, "pushes") /\ job' = job /\ pc[Sync] \notin Before
    BY DEF ListUnpushed, Before
  <2> QED BY <1>1, <2>1, GotoGoesOn
<1> QED BY <1>2, QuietSound DEF ListUnpushed, db, remote, history, Doomed

LEMMA ReadKnownSound ==
  ASSUME TypeOK, Sound, ReadKnown PROVE Sound'
<1>1. Sync \in Tasks BY DEF Tasks
<1>2. \A s \in Tasks : TaskGoesOn(s)
  <2>1. Goto(Sync, "list") /\ job' = job /\ pc[Sync] \notin Before BY DEF ReadKnown, Before
  <2> QED BY <1>1, <2>1, GotoGoesOn
<1> QED BY <1>2, QuietSound DEF ReadKnown, db, remote, history, Doomed

LEMMA ListSound ==
  ASSUME TypeOK, Sound, List PROVE Sound'
<1>1. Sync \in Tasks BY DEF Tasks
<1>2. \A s \in Tasks : TaskGoesOn(s)
  <2>1. (Goto(Sync, "idle") \/ Goto(Sync, "ingest")) /\ job' = job /\ pc[Sync] \notin Before
    BY DEF List, Before
  <2> QED BY <1>1, <2>1, GotoGoesOn
<1> QED BY <1>2, QuietSound DEF List, db, remote, flush, history, Doomed

LEMMA ListFailsSound ==
  ASSUME TypeOK, Sound, ListFails PROVE Sound'
<1>1. Sync \in Tasks BY DEF Tasks
<1>2. \A s \in Tasks : TaskGoesOn(s)
  <2>1. Goto(Sync, "idle") /\ job' = job /\ pc[Sync] \notin Before BY DEF ListFails, Before
  <2> QED BY <1>1, <2>1, GotoGoesOn
<1> QED BY <1>2, QuietSound DEF ListFails, db, remote, flush, history, Doomed

LEMMA SearchSound ==
  ASSUME TypeOK, Sound, NEW t \in Clients, Search(t) PROVE Sound'
<1>1. t \in Tasks BY DEF Tasks
<1>2. \A s \in Tasks : TaskGoesOn(s)
  <2>1. Goto(t, "ingest") /\ job' = job /\ pc[t] \notin Before BY DEF Search, Before
  <2> QED BY <1>1, <2>1, GotoGoesOn
<1> QED BY <1>2, QuietSound DEF Search, db, remote, flush, history, Doomed

LEMMA ConnectSound ==
  ASSUME TypeOK, Sound, Connect PROVE Sound'
<1>1. \A s \in Tasks : TaskGoesOn(s) BY DEF Connect, TaskGoesOn, OldStays
<1> QED BY <1>1, QuietSound DEF Connect, db, remote, flush, history, Doomed

LEMMA CrashSound ==
  ASSUME TypeOK, Sound, Crash PROVE Sound'
<1>1. \A s \in Tasks : pc'[s] = "idle" /\ job'[s].old = NoUri BY DEF Crash, NoJob
<1>2. \A s \in Tasks : TaskGoesOn(s) BY <1>1 DEF TaskGoesOn
<1> QED BY <1>2, QuietSound DEF Crash, db, remote, Doomed

LEMMA UpdateReadSound ==
  ASSUME TypeOK, Sound, NEW t \in Clients, UpdateRead(t) PROVE Sound'
<1>1. t \in Tasks BY DEF Tasks
<1>2. PICK j : Move(t, "update", j) /\ j.old = NoUri
  <2>1. PICK id \in Ids, given \in SUBSET Fields :
          Move(t, "update",
               [NoJob EXCEPT !.id = id,
                  !.entry = [f \in Fields |-> IF f \in given THEN calls'
                                              ELSE rows[id].entry[f]]])
    BY DEF UpdateRead
  <2> DEFINE e == [f \in Fields |-> IF f \in given THEN calls' ELSE rows[id].entry[f]]
             k == [NoJob EXCEPT !.id = id, !.entry = e]
  <2>2. Move(t, "update", k) BY <2>1
  <2> HIDE DEF e
  <2>3. k.old = NoUri BY DEF NoJob
  <2> HIDE DEF k
  <2> QED BY <2>2, <2>3
<1>3. \A s \in Tasks : TaskGoesOn(s) BY <1>1, <1>2, MoveGoesOn
<1> QED BY <1>3, QuietSound DEF UpdateRead, db, remote, flush, history, Doomed

LEMMA DeleteReadSound ==
  ASSUME TypeOK, Sound, NEW t \in Clients, DeleteRead(t) PROVE Sound'
<1>1. t \in Tasks BY DEF Tasks
<1>2. PICK id \in Ids :
        Move(t, "delete",
             [NoJob EXCEPT !.id = id, !.old = IF connected THEN UriOf(id) ELSE NoUri])
  BY DEF DeleteRead
<1> DEFINE j == [NoJob EXCEPT !.id = id, !.old = IF connected THEN UriOf(id) ELSE NoUri]
<1>3. j.id = id /\ j.old \in {NoUri, rows[id].uri} BY DEF NoJob, UriOf
<1>4. Move(t, "delete", j) BY <1>2
<1>5. \A s \in Tasks : TaskGoesOn(s)
  <2> HIDE DEF j
  <2> QED BY <1>1, <1>3, <1>4, MoveGoesOn DEF Before
<1> QED BY <1>5, QuietSound DEF DeleteRead, db, remote, flush, history, Doomed

LEMMA BeginPushSound ==
  ASSUME TypeOK, Sound, NEW t \in Tasks, BeginPush(t) PROVE Sound'
<1>1. job[t] \in Jobs BY TypesInParts DEF TasksTyped
<1> DEFINE j == [job[t] EXCEPT !.entry = rows[job[t].id].entry]
<1>2. j.old = job[t].old BY <1>1 DEF Jobs
<1>3. Move(t, "remember", j) /\ pc[t] \notin Before BY DEF BeginPush, Before
<1>4. \A s \in Tasks : TaskGoesOn(s)
  <2> HIDE DEF j
  <2> QED BY <1>2, <1>3, MoveGoesOn
<1> QED BY <1>4, QuietSound DEF BeginPush, db, remote, flush, Doomed

LEMMA BeginReplaceSound ==
  ASSUME TypeOK, Sound, NEW t \in Tasks, BeginReplace(t) PROVE Sound'
<1>1. job[t] \in Jobs BY TypesInParts DEF TasksTyped
<1> DEFINE j == [job[t] EXCEPT !.entry = rows[job[t].id].entry, !.old = UriOf(job[t].id)]
<1>2. j.id = job[t].id /\ j.old = UriOf(job[t].id) BY <1>1 DEF Jobs
<1>3. job[t].id \in Ids /\ UriOf(job[t].id) = rows[job[t].id].uri
  BY DEF BeginReplace, UriOf
<1>4. Move(t, "remember", j) BY DEF BeginReplace
<1>5. \A s \in Tasks : TaskGoesOn(s)
  <2> HIDE DEF j
  <2> QED BY <1>2, <1>3, <1>4, MoveGoesOn DEF Before
<1> QED BY <1>5, QuietSound DEF BeginReplace, db, remote, flush, Doomed

LEMMA RetryDeleteSound ==
  ASSUME TypeOK, Sound, RetryDelete PROVE Sound'
<1>1. Sync \in Tasks BY DEF Tasks
<1>2. PICK j : Move(Sync, "retry", j) /\ j.old \in dead
  <2>1. PICK uri \in dead : Move(Sync, "retry", [NoJob EXCEPT !.old = uri])
    BY DEF RetryDelete
  <2> QED BY <2>1 DEF NoJob
<1>3. \A s \in Tasks : TaskGoesOn(s) BY <1>1, <1>2, MoveGoesOn
<1> QED BY <1>3, QuietSound DEF RetryDelete, db, remote, history, Doomed

LEMMA ClearTombstoneSound ==
  ASSUME TypeOK, Sound, ClearTombstone PROVE Sound'
<1>1. Sync \in Tasks BY DEF Tasks
<1>2. Move(Sync, "deletes", NoJob) /\ NoJob.old = NoUri BY DEF ClearTombstone, NoJob
<1>3. \A s \in Tasks : TaskGoesOn(s) BY <1>1, <1>2, MoveGoesOn
<1> QED BY <1>3, QuietSound DEF ClearTombstone, remote, flush, history, Doomed

LEMMA RetryPushSound ==
  ASSUME TypeOK, Sound, RetryPush PROVE Sound'
<1>1. Sync \in Tasks BY DEF Tasks
<1>2. PICK j : Move(Sync, "push", j) /\ j.old = NoUri
  <2>1. PICK id \in todo : Move(Sync, "push", [NoJob EXCEPT !.id = id]) BY DEF RetryPush
  <2> QED BY <2>1 DEF NoJob
<1>3. \A s \in Tasks : TaskGoesOn(s) BY <1>1, <1>2, MoveGoesOn
<1> QED BY <1>3, QuietSound DEF RetryPush, db, remote, history, Doomed

LEMMA ForgetSound ==
  ASSUME TypeOK, Sound, NEW t \in Tasks, Forget(t) PROVE Sound'
<1>1. \A s \in Tasks : TaskGoesOn(s) BY EndGoesOn DEF Forget
<1> QED BY <1>1, DeleteSound DEF Forget, db, history, Doomed

LEMMA ForgetFailsSound ==
  ASSUME TypeOK, Sound, NEW t \in Tasks, ForgetFails(t) PROVE Sound'
<1>1. \A s \in Tasks : TaskGoesOn(s)
  <2>1. Goto(t, "bury") /\ job' = job /\ pc[t] \notin Before BY DEF ForgetFails, Before
  <2> QED BY <2>1, GotoGoesOn
<1> QED BY <1>1, DeleteSound DEF ForgetFails, db, flush, history, Doomed

LEMMA RetrySucceedsSound ==
  ASSUME TypeOK, Sound, RetrySucceeds PROVE Sound'
<1>1. Sync \in Tasks BY DEF Tasks
<1>2. \A s \in Tasks : TaskGoesOn(s)
  <2>1. Goto(Sync, "clear") /\ job' = job /\ pc[Sync] \notin Before
    BY DEF RetrySucceeds, Before
  <2> QED BY <1>1, <2>1, GotoGoesOn
<1> QED BY <1>1, <1>2, DeleteSound DEF RetrySucceeds, db, flush, history, Doomed

LEMMA RetryFailsSound ==
  ASSUME TypeOK, Sound, RetryFails PROVE Sound'
<1>1. Sync \in Tasks BY DEF Tasks
<1>2. \A s \in Tasks : TaskGoesOn(s)
  <2>1. Move(Sync, "deletes", NoJob) \/ Move(Sync, "pull", NoJob) BY DEF RetryFails
  <2>2. NoJob.old = NoUri BY DEF NoJob
  <2> QED BY <1>1, <2>1, <2>2, MoveGoesOn
<1> QED BY <1>1, <1>2, DeleteSound DEF RetryFails, db, history, Doomed

(* The store's own writes, and the tombstone of a delete that failed.      *)
LEMMA AddSound ==
  ASSUME TypeOK, Sound, NEW t \in Clients, Add(t) PROVE Sound'
<1>1. t \in Tasks BY DEF Tasks
<1>2. RowsGoOn BY DEF Add, Put, RowsGoOn, Ids
<1>3. \A s \in Tasks : TaskGoesOn(s)
  <2>1. CASE connected
    <3>1. PICK j : Move(t, "push", j) /\ j.old = NoUri BY <2>1 DEF Add, NoJob
    <3> QED BY <1>1, <3>1, MoveGoesOn
  <2>2. CASE ~connected BY <2>2 DEF Add, TaskGoesOn, OldStays
  <2> QED BY <2>1, <2>2
<1>4. GoesOn BY <1>2, <1>3 DEF Add, GoesOn, remote, flush, history, Doomed
<1> QED BY <1>4, GoesOnSound

LEMMA UpdateWriteSound ==
  ASSUME TypeOK, Sound, NEW t \in Clients, UpdateWrite(t) PROVE Sound'
<1>1. t \in Tasks BY DEF Tasks
<1>2. RowsGoOn
  <2>1. RowsTyped BY TypesInParts
  <2> QED BY <2>1 DEF UpdateWrite, RowsGoOn, RowsTyped, Ids
<1>3. \A s \in Tasks : TaskGoesOn(s)
  <2>1. PICK place, j : place \in {"replace", "idle"} /\ Move(t, place, j) /\ j.old = NoUri
    BY DEF UpdateWrite, NoJob
  <2> QED BY <1>1, <2>1, MoveGoesOn
<1>4. GoesOn BY <1>2, <1>3 DEF UpdateWrite, GoesOn, remote, flush, Doomed
<1> QED BY <1>4, GoesOnSound

LEMMA DeleteWriteSound ==
  ASSUME TypeOK, Sound, NEW t \in Clients, DeleteWrite(t) PROVE Sound'
<1>1. t \in Tasks BY DEF Tasks
<1>2. rows' = [i \in Ids \ {job[t].id} |-> rows[i]] BY DEF DeleteWrite, Restrict, Ids
<1>3. RowsGoOn /\ job[t].id \notin Ids' BY <1>2 DEF RowsGoOn, Ids
<1>4. \A s \in Tasks : TaskGoesOn(s)
  <2>1. PICK place, j : /\ place \in {"forget", "idle"} /\ Move(t, place, j)
                        /\ j.old \in {NoUri, job[t].old}
    BY DEF DeleteWrite, NoJob
  <2> QED BY <1>1, <1>3, <2>1, MoveGoesOn
<1>5. GoesOn BY <1>3, <1>4 DEF DeleteWrite, GoesOn, remote, flush, history, Doomed
<1> QED BY <1>5, GoesOnSound

LEMMA UnlinkSound ==
  ASSUME TypeOK, Sound, NEW t \in Tasks, Unlink(t) PROVE Sound'
<1>1. RowsTyped /\ TasksTyped BY TypesInParts
<1>2. RowsGoOn BY <1>1 DEF Unlink, Link, RowsGoOn, RowsTyped, Ids
<1>3. /\ pc'[t] = "bury" /\ job'[t] = job[t]
      /\ \A s \in Tasks \ {t} : pc'[s] = pc[s] /\ job'[s] = job[s]
  BY <1>1, WentTask DEF Unlink
<1>4. job[t].old # NoUri BY <1>1 DEF Unlink, TasksTyped, Deleting
<1>5. job[t].id \notin Ids' \/ rows'[job[t].id].uri # job[t].old
  BY <1>1, <1>4 DEF Unlink, Link, RowsTyped, Ids
<1>6. TaskGoesOn(t) BY <1>3, <1>5 DEF TaskGoesOn, OldStays
<1>7. \A s \in Tasks : TaskGoesOn(s) BY <1>3, <1>6, OthersGoOn
<1>8. GoesOn BY <1>2, <1>7 DEF Unlink, GoesOn, remote, flush, history, Doomed
<1> QED BY <1>8, GoesOnSound

LEMMA BuryOldSound ==
  ASSUME TypeOK, Sound, NEW t \in Tasks, BuryOld(t) PROVE Sound'
<1>1. RowsGoOn BY DEF BuryOld, RowsGoOn, Ids
<1>2. \A s \in Tasks : TaskGoesOn(s) BY EndGoesOn DEF BuryOld
<1>3. job[t].old # NoUri BY DEF BuryOld, TypeOK, Deleting
<1>4. job[t].old \in Deletable BY <1>3 DEF BuryOld, Deletable, Before
<1>5. GoesOn BY <1>1, <1>2, <1>4 DEF BuryOld, Bury, GoesOn, remote, history, Doomed
<1> QED BY <1>5, GoesOnSound

-----------------------------------------------------------------------------
(* The steps that write, link or ingest a record.  A new record's uri is   *)
(* known to no one but the task that wrote it.                             *)

LEMMA CreateSound ==
  ASSUME TypeOK, Sound, NEW t \in Tasks, NEW e \in Entries, Create(e),
         UNCHANGED <<rows, tombs, dead, again>>,
         \A s \in Tasks \ {t} : pc'[s] = pc[s] /\ job'[s] = job[s],
         pc'[t] = "link" => job'[t].new = Len(records'),
         \/ job'[t].old = NoUri
         \/ pc'[t] \in Before /\ job'[t].old = job[t].old /\ job'[t].id = job[t].id
  PROVE  Sound'
<1> DEFINE n == Len(records')
<1>1. RowsSound /\ DoomedSound /\ OldSound /\ NewSound /\ ForeignSound BY DEF Sound
<1>2. RowsTyped /\ SpaceTyped /\ TasksTyped BY TypesInParts
<1>3. /\ Uris' = Uris \cup {n} /\ n \notin Uris /\ n # NoUri
      /\ space' = space \cup {n} /\ ours' = ours \cup {n}
  BY <1>2, CreateTyped DEF NoUri
<1> HIDE DEF n
<1>4. Ids' = Ids /\ RowUris' = RowUris /\ Doomed' = Doomed /\ again' = again
  BY DEF Ids, RowUris, Doomed
<1>5. RowUris \subseteq Uris /\ Doomed \subseteq Uris /\ ours \subseteq Uris
  BY <1>2 DEF RowsTyped, SpaceTyped, RowUris, Doomed
<1>6. \A s \in Tasks : job'[s].old \in {NoUri, job[s].old} /\ job[s].old \in Uris \cup {NoUri}
  BY <1>2 DEF TasksTyped, Jobs
<1>7. RowsSound' BY <1>1, <1>3, <1>4 DEF RowsSound
<1>8. DoomedSound' BY <1>1, <1>3, <1>4 DEF DoomedSound, Free
<1>9. OldSound'
  <2> SUFFICES ASSUME NEW s \in Tasks, job'[s].old # NoUri
               PROVE  /\ job'[s].old \in ours'
                      /\ \A i \in Ids : rows[i].uri = job'[s].old =>
                           job'[s].old \in again \/ (pc'[s] \in Before /\ i = job'[s].id)
    BY <1>4 DEF OldSound
  <2>1. job'[s].old = job[s].old BY <1>6
  <2>2. s = t => pc'[s] \in Before /\ job'[s].id = job[s].id OBVIOUS
  <2> QED BY <1>1, <1>3, <2>1, <2>2 DEF OldSound
<1>10. NewSound'
  <2> SUFFICES ASSUME NEW s \in Tasks, pc'[s] = "link"
               PROVE  job'[s].new \in ours' /\ (job'[s].new \in again \/ Fresh(s)')
    BY <1>4 DEF NewSound
  <2>1. \A r \in Tasks : pc'[r] = "link" /\ r # t => job'[r].new \in Uris
    BY <1>1, <1>5 DEF NewSound
  <2>2. CASE s = t
    <3>1. job'[s].new = n BY <2>2 DEF n
    <3>2. n \notin RowUris' /\ n \notin Doomed' BY <1>3, <1>4, <1>5
    <3>3. \A r \in Tasks : job'[r].old # n BY <1>3, <1>6
    <3>4. \A r \in Tasks : pc'[r] = "link" /\ r # s => job'[r].new # n
      BY <1>3, <2>1, <2>2
    <3> QED BY <1>3, <3>1, <3>2, <3>3, <3>4 DEF Fresh
  <2>3. CASE s # t
    <3>1. job'[s].new = job[s].new /\ pc[s] = "link" BY <2>3
    <3>2. job[s].new \in ours /\ (job[s].new \in again \/ Fresh(s))
      BY <1>1, <3>1 DEF NewSound
    <3>3. SUFFICES ASSUME Fresh(s) PROVE Fresh(s)' BY <1>3, <3>1, <3>2
    <3>4. \A r \in Tasks : job'[r].old # job[s].new
      BY <1>5, <1>6, <3>2, <3>3 DEF Fresh, Uris, NoUri
    <3>5. \A r \in Tasks : pc'[r] = "link" /\ r # s => job'[r].new # job[s].new
      <4>1. job[s].new # n BY <1>3, <1>5, <3>2
      <4> QED BY <3>3, <4>1 DEF Fresh, n
    <3> QED BY <1>3, <1>4, <3>1, <3>3, <3>4, <3>5 DEF Fresh
  <2> QED BY <2>2, <2>3
<1>11. ForeignSound' BY <1>1, <1>3 DEF ForeignSound
<1> QED BY <1>7, <1>8, <1>9, <1>10, <1>11 DEF Sound

LEMMA RememberSound ==
  ASSUME TypeOK, Sound, NEW t \in Tasks, Remember(t) PROVE Sound'
<1>1. TasksTyped BY TypesInParts
<1>2. job[t] \in Jobs BY <1>1 DEF TasksTyped
<1> DEFINE j == [job[t] EXCEPT !.new = Len(records')]
<1>3. j.id = job[t].id /\ j.old = job[t].old /\ j.new = Len(records') /\ job[t].entry \in Entries
  BY <1>2 DEF Jobs
<1>4. Move(t, "link", j) /\ Create(job[t].entry) BY DEF Remember
<1>5. UNCHANGED <<rows, tombs, dead, again>> BY DEF Remember, db, flush
<1> HIDE DEF j
<1>6. /\ pc'[t] = "link" /\ job'[t] = j
      /\ \A s \in Tasks \ {t} : pc'[s] = pc[s] /\ job'[s] = job[s]
  BY <1>1, <1>4, MovedTask
<1> QED BY <1>3, <1>4, <1>5, <1>6, CreateSound DEF Before

LEMMA RememberFailsSound ==
  ASSUME TypeOK, Sound, NEW t \in Tasks, RememberFails(t) PROVE Sound'
<1>1. TasksTyped BY TypesInParts
<1>2. job[t].entry \in Entries BY <1>1 DEF TasksTyped, Jobs
<1>3. Raise(t) \/ Move(t, "unlink", job[t]) BY DEF RememberFails
<1>4. /\ \A s \in Tasks \ {t} : pc'[s] = pc[s] /\ job'[s] = job[s]
      /\ pc'[t] # "link"
      /\ \/ job'[t].old = NoUri
         \/ pc'[t] \in Before /\ job'[t].old = job[t].old /\ job'[t].id = job[t].id
  <2>1. CASE Raise(t) BY <1>1, <2>1, EndedTask
  <2>2. CASE Move(t, "unlink", job[t]) BY <1>1, <2>2, MovedTask DEF Before
  <2> QED BY <1>3, <2>1, <2>2
<1>5. CASE Create(job[t].entry)
  <2>1. UNCHANGED <<rows, tombs, dead, again>> BY DEF RememberFails, db
  <2> QED BY <1>2, <1>4, <1>5, <2>1, CreateSound
<1>6. CASE UNCHANGED <<remote, ours>>
  <2>1. TaskGoesOn(t) BY <1>4 DEF TaskGoesOn, OldStays
  <2>2. \A s \in Tasks : TaskGoesOn(s) BY <1>4, <2>1, OthersGoOn
  <2> QED BY <1>6, <2>2, QuietSound DEF RememberFails, db, remote, Doomed
<1> QED BY <1>5, <1>6 DEF RememberFails

LEMMA LinkNewSound ==
  ASSUME TypeOK, Sound, NEW t \in Tasks, LinkNew(t) PROVE Sound'
<1> DEFINE new == job[t].new
           id == job[t].id
<1>1. RowsSound /\ DoomedSound /\ OldSound /\ NewSound /\ ForeignSound BY DEF Sound
<1>2. RowsTyped /\ SpaceTyped /\ TasksTyped BY TypesInParts
<1>3. pc[t] = "link" /\ new \in ours /\ (new \in again \/ Fresh(t))
  BY <1>1 DEF LinkNew, NewSound
<1>4. /\ Ids' = Ids
      /\ \A i \in Ids : rows'[i].uri = IF i = id THEN new ELSE rows[i].uri
  BY <1>2 DEF LinkNew, Link, RowsTyped, Ids
<1>5. UNCHANGED <<records, space, ours, again>> /\ Doomed' = Doomed /\ Uris' = Uris
  BY DEF LinkNew, remote, history, Doomed, Uris
<1>6. /\ \A s \in Tasks \ {t} : pc'[s] = pc[s] /\ job'[s] = job[s]
      /\ pc'[t] # "link" /\ job'[t].old \in {NoUri, job[t].old}
  <2>1. CASE Return(t) BY <1>2, <2>1, EndedTask
  <2>2. CASE Move(t, "forget", [NoJob EXCEPT !.old = job[t].old])
    <3>1. PICK j : Move(t, "forget", j) /\ j.old = job[t].old BY <2>2 DEF NoJob
    <3> QED BY <1>2, <3>1, MovedTask
  <2> QED BY <2>1, <2>2 DEF LinkNew
<1>7. RowUris' \subseteq RowUris \cup {new} BY <1>4 DEF RowUris
<1>8. \A uri : uri \in Doomed \/ (\E s \in Tasks : uri = job[s].old) =>
        uri # new \/ new \in again
  BY <1>3 DEF Fresh
<1>9. RowsSound' BY <1>1, <1>3, <1>4, <1>5 DEF RowsSound, Fresh
<1>10. DoomedSound' BY <1>1, <1>5, <1>7, <1>8 DEF DoomedSound, Free
<1>11. OldSound'
  <2> SUFFICES ASSUME NEW s \in Tasks, job'[s].old # NoUri
               PROVE  /\ job'[s].old \in ours
                      /\ \A i \in Ids : rows'[i].uri = job'[s].old =>
                           job'[s].old \in again \/ (pc'[s] \in Before /\ i = job'[s].id)
    BY <1>4, <1>5 DEF OldSound
  <2>1. job'[s].old = job[s].old BY <1>6
  <2>2. job[s].old # new \/ new \in again BY <1>8
  <2>3. /\ job[s].old \in ours
        /\ \A i \in Ids : rows[i].uri = job[s].old =>
             job[s].old \in again \/ (pc[s] \in Before /\ i = job[s].id)
    BY <1>1, <2>1 DEF OldSound
  <2>4. CASE s = t BY <1>4, <2>1, <2>2, <2>3, <2>4
  <2>5. CASE s # t BY <1>4, <1>6, <2>1, <2>2, <2>3, <2>5
  <2> QED BY <2>4, <2>5
<1>12. NewSound'
  <2> SUFFICES ASSUME NEW s \in Tasks, pc'[s] = "link"
               PROVE  job'[s].new \in ours /\ (job'[s].new \in again \/ Fresh(s)')
    BY <1>5 DEF NewSound
  <2>1. s # t /\ job'[s].new = job[s].new /\ pc[s] = "link" BY <1>6
  <2>2. job[s].new \in ours /\ (job[s].new \in again \/ Fresh(s))
    BY <1>1, <2>1 DEF NewSound
  <2>3. SUFFICES ASSUME Fresh(s) PROVE Fresh(s)' BY <2>1, <2>2
  <2>4. job[s].new # new /\ job[s].new # NoUri
    BY <1>2, <1>3, <2>1, <2>2, <2>3 DEF Fresh, SpaceTyped, Uris, NoUri
  <2>5. job[s].new \notin RowUris' /\ job[s].new \notin Doomed'
    BY <1>5, <1>7, <2>3, <2>4 DEF Fresh
  <2>6. \A r \in Tasks : job'[r].old # job[s].new BY <1>6, <2>3, <2>4 DEF Fresh
  <2>7. \A r \in Tasks : pc'[r] = "link" /\ r # s => job'[r].new # job[s].new
    BY <1>6, <2>3 DEF Fresh
  <2> QED BY <1>5, <2>1, <2>3, <2>5, <2>6, <2>7 DEF Fresh
<1>13. ForeignSound' BY <1>1, <1>5 DEF ForeignSound
<1> QED BY <1>9, <1>10, <1>11, <1>12, <1>13 DEF Sound

LEMMA IngestSound ==
  ASSUME TypeOK, Sound, NEW t \in Tasks, Ingest(t) PROVE Sound'
<1>1. RowsSound /\ DoomedSound /\ OldSound /\ NewSound /\ ForeignSound BY DEF Sound
<1>2. RowsTyped /\ SpaceTyped /\ TasksTyped BY TypesInParts
<1>3. PICK uri \in found[t] :
        /\ lastId' = IF uri \in RowUris THEN lastId ELSE lastId + 1
        /\ IF uri \in RowUris
           THEN UNCHANGED <<rows, ours, again>>
           ELSE /\ Put(lastId', [entry |-> records[uri], uri |-> uri])
                /\ ours' = ours \cup {uri}
                /\ again' = again \cup ({uri} \cap ours)
  BY DEF Ingest
<1>4. /\ \A s \in Tasks \ {t} : pc'[s] = pc[s]
      /\ pc'[t] \in {"idle", "ingest"} /\ pc[t] = "ingest" /\ job' = job
  BY <1>2 DEF Ingest, Goto, TasksTyped
<1>5. UNCHANGED <<records, space>> /\ Doomed' = Doomed /\ Uris' = Uris
  BY DEF Ingest, remote, flush, Doomed, Uris
<1>6. CASE uri \in RowUris
  <2>1. TaskGoesOn(t) BY <1>4 DEF TaskGoesOn, OldStays, Before
  <2>2. \A s \in Tasks : TaskGoesOn(s) BY <1>4, <2>1, OthersGoOn
  <2>3. tombs' \cup dead' \subseteq Doomed BY DEF Ingest, flush, Doomed
  <2> QED BY <1>3, <1>5, <1>6, <2>2, <2>3, QuietSound
<1>7. CASE uri \notin RowUris
  <2>1. /\ ours' = ours \cup {uri} /\ again' = again \cup ({uri} \cap ours)
        /\ \A i \in Ids' : IF i \in Ids /\ i # lastId'
                           THEN rows'[i].uri = rows[i].uri ELSE rows'[i].uri = uri
    BY <1>3, <1>7 DEF Put, Ids
  <2>2. RowUris' \subseteq RowUris \cup {uri} BY <2>1 DEF RowUris
  <2>3. uri \in Uris BY <1>2 DEF SpaceTyped
  <2>4. RowsSound'
    <3>1. uri \in ours' /\ uri \in space' \cup again'
      BY <1>1, <1>5, <2>1, <2>3 DEF ForeignSound
    <3> QED BY <1>1, <1>5, <2>1, <3>1 DEF RowsSound
  <2>5. DoomedSound' BY <1>1, <1>5, <2>1, <2>2 DEF DoomedSound, Free
  <2>6. OldSound'
    <3> SUFFICES ASSUME NEW s \in Tasks, job[s].old # NoUri
                 PROVE  /\ job[s].old \in ours'
                        /\ \A i \in Ids' : rows'[i].uri = job[s].old =>
                             job[s].old \in again' \/ (pc'[s] \in Before /\ i = job[s].id)
      BY <1>4 DEF OldSound
    <3>1. /\ job[s].old \in ours
          /\ \A i \in Ids : rows[i].uri = job[s].old =>
               job[s].old \in again \/ (pc[s] \in Before /\ i = job[s].id)
      BY <1>1 DEF OldSound
    <3>2. pc[s] \in Before => pc'[s] \in Before BY <1>4 DEF Before
    <3> QED BY <2>1, <3>1, <3>2
  <2>7. NewSound'
    <3> SUFFICES ASSUME NEW s \in Tasks, pc'[s] = "link"
                 PROVE  job[s].new \in ours' /\ (job[s].new \in again' \/ Fresh(s)')
      BY <1>4 DEF NewSound
    <3>1. pc[s] = "link" BY <1>4
    <3>2. job[s].new \in ours /\ (job[s].new \in again \/ Fresh(s))
      BY <1>1, <3>1 DEF NewSound
    <3>3. SUFFICES ASSUME Fresh(s), job[s].new # uri PROVE Fresh(s)' BY <2>1, <3>2
    <3>4. job[s].new \notin RowUris' /\ job[s].new \notin Doomed'
      BY <1>5, <2>2, <3>3 DEF Fresh
    <3>5. \A r \in Tasks : pc'[r] = "link" /\ r # s => job[r].new # job[s].new
      BY <1>4, <3>3 DEF Fresh
    <3> QED BY <1>4, <1>5, <3>3, <3>4, <3>5 DEF Fresh
  <2>8. ForeignSound' BY <1>1, <1>5, <2>1 DEF ForeignSound
  <2> QED BY <2>4, <2>5, <2>6, <2>7, <2>8 DEF Sound
<1> QED BY <1>6, <1>7

-----------------------------------------------------------------------------
LEMMA SoundStep == TypeOK /\ Sound /\ [Next]_vars => Sound'
<1> SUFFICES ASSUME TypeOK, Sound, [Next]_vars PROVE Sound' OBVIOUS
<1>1. \A t \in Clients : t \in Tasks BY DEF Tasks
<1>2. Sync \in Tasks BY DEF Tasks
<1>3. ASSUME NEW t \in Tasks, Push(t) PROVE Sound'
  BY <1>3, BeginPushSound, SkipPushSound, RememberSound, RememberFailsSound,
     LinkNewSound, LinkFailsSound DEF Push
<1>4. ASSUME NEW t \in Clients, Write(t) PROVE Sound'
  BY <1>1, <1>4, UpdateWriteSound, DeleteWriteSound, BeginReplaceSound,
     SkipReplaceSound, UnlinkSound, ForgetSound, ForgetFailsSound, BuryOldSound
  DEF Write
<1>5. ASSUME NEW t \in Clients, Call(t) PROVE Sound'
  BY <1>5, AddSound, UpdateReadSound, DeleteReadSound, SearchSound DEF Call
<1>6. CASE Flush
  BY <1>6, StartFlushSound, RetryDeleteSound, RetrySucceedsSound, RetryFailsSound,
     ClearTombstoneSound, ListUnpushedSound, RetryPushSound DEF Flush
<1>7. CASE Pull BY <1>7, ReadKnownSound, ListSound, ListFailsSound DEF Pull
<1>8. CASE SyncStep
  BY <1>2, <1>3, <1>6, <1>7, <1>8, ConnectSound, IngestSound DEF SyncStep
<1>9. CASE \E t \in Clients : Call(t) \/ ClientStep(t)
  BY <1>1, <1>3, <1>4, <1>5, <1>9, IngestSound DEF ClientStep
<1>10. CASE \E t \in Tasks : Interrupt(t) BY <1>10, InterruptSound
<1>11. CASE Crash BY <1>11, CrashSound
<1>12. CASE UNCHANGED vars
  <2>1. /\ UNCHANGED <<rows, records, space, ours, again, tombs, dead, pc, job>>
    BY <1>12 DEF vars, db, remote, flush, history
  <2>2. \A s \in Tasks : TaskGoesOn(s) BY <2>1 DEF TaskGoesOn, OldStays
  <2> QED BY <2>1, <2>2, QuietSound DEF Doomed
<1> QED BY <1>8, <1>9, <1>10, <1>11, <1>12 DEF Next

(* No replacement, tombstone or retry ever deletes the record of a row,    *)
(* however many clients there are and whatever failed, timed out or        *)
(* crashed before: only one that this machine let go and that came back    *)
(* by a pull or a search can be missing (engram.py:166-195, 206-212).      *)
THEOREM RecordsAreKept == Spec => []RecordsKept
<1>1. Init => TypeOK /\ Sound BY InitTypes, InitSound
<1>2. TypeOK /\ Sound /\ [Next]_vars => (TypeOK /\ Sound)' BY TypesStep, SoundStep
<1>3. Sound => RecordsKept BY DEF Sound, RowsSound, RecordsKept
<1> QED BY <1>1, <1>2, <1>3, PTL DEF Spec

-----------------------------------------------------------------------------
(* A record says what its row says.  The lock makes it so: whoever is      *)
(* inside a push wrote, or will write, the text of its row, unless a newer *)
(* text has been given since; then the update that gave it stands behind   *)
(* the lock, or was given up there.                                        *)

InPush == {"remember", "link"}

OneInside == \A t \in Tasks : pc[t] \in InPush => lock = t

Behind(id) == \E c \in Clients : pc[c] = "replace" /\ job[c].id = id

InStep ==
  \A t \in Tasks : pc[t] \in InPush /\ job[t].id \in Ids =>
    \/ job[t].entry = rows[job[t].id].entry
    \/ job[t].id \in dropped
    \/ Behind(job[t].id)

Wrote ==
  \A t \in Tasks : pc[t] = "link" =>
    job[t].new \in Uris /\ records[job[t].new] = job[t].entry

Ordered == OneInside /\ InStep /\ Wrote /\ RecordsFollow

LEMMA InitOrdered == Init => Ordered
<1> SUFFICES ASSUME Init PROVE Ordered OBVIOUS
<1>1. \A t \in Tasks : pc[t] = "idle" BY DEF Init
<1>2. OneInside /\ InStep /\ Wrote BY <1>1 DEF OneInside, InStep, Wrote, InPush
<1>3. \A i \in Ids : records[rows[i].uri] = rows[i].entry BY DEF Init, Ids
<1> QED BY <1>2, <1>3 DEF Ordered, RecordsFollow, Follows

(* Most steps change no text.  A row stays as it is, lets its record go,   *)
(* is deleted, or is new and as its record; no record changes; an update   *)
(* that is on its way stays so, or ends where it is known to end; and who  *)
(* is inside a push was there before, with what it had read.               *)
NoNewText ==
  /\ \A i \in Ids \cap Ids' :
       rows'[i].entry = rows[i].entry /\ rows'[i].uri \in {NoUri, rows[i].uri}
  /\ \A i \in Ids' \ Ids :
       /\ i > lastId
       /\ rows'[i].uri \in Uris \cup {NoUri}
       /\ rows'[i].uri # NoUri => records[rows'[i].uri] = rows'[i].entry
  /\ Uris \subseteq Uris' /\ \A u \in Uris : records'[u] = records[u]
  /\ dropped \subseteq dropped'

WayKept(t) ==
  \A i \in Ids \cap Ids' : UpdateOnItsWay(t, i) =>
    UpdateOnItsWay(t, i)' \/ i \in dropped' \/ rows'[i].uri = NoUri

WaitKept(t) ==
  pc[t] = "replace" =>
    \/ pc'[t] = "replace" /\ job'[t].id = job[t].id
    \/ job[t].id \in dropped'
    \/ \A s \in Tasks : pc'[s] \notin InPush

WasInside(t) ==
  pc'[t] \in InPush =>
    /\ pc[t] \in InPush /\ lock' = t
    /\ job'[t].id = job[t].id /\ job'[t].entry = job[t].entry
    /\ pc'[t] = "link" => \/ pc[t] = "link" /\ job'[t].new = job[t].new
                          \/ /\ job'[t].new \in Uris'
                             /\ records'[job'[t].new] = job'[t].entry

LEMMA QuietOrdered ==
  ASSUME TypeOK, Ordered, NoNewText,
         \A t \in Clients : WayKept(t) /\ WaitKept(t),
         \A t \in Tasks : WasInside(t)
  PROVE  Ordered'
<1>1. OneInside /\ InStep /\ Wrote /\ RecordsFollow BY DEF Ordered
<1>2. RowsTyped /\ TasksTyped BY TypesInParts
<1>3. OneInside' BY DEF OneInside, WasInside
<1>4. InStep'
  <2> SUFFICES ASSUME NEW t \in Tasks, pc'[t] \in InPush, job'[t].id \in Ids'
               PROVE  \/ job'[t].entry = rows'[job'[t].id].entry
                      \/ job'[t].id \in dropped'
                      \/ \E c \in Clients : pc'[c] = "replace" /\ job'[c].id = job'[t].id
    BY DEF InStep, Ids, Behind
  <2> DEFINE id == job[t].id
  <2>1. pc[t] \in InPush /\ job'[t].id = id /\ job'[t].entry = job[t].entry
    BY DEF WasInside
  <2>2. id \in 0..lastId /\ lastId \in Nat BY <1>2 DEF RowsTyped, TasksTyped, Jobs
  <2>3. id \in Ids BY <2>1, <2>2 DEF NoNewText
  <2>4. rows'[id].entry = rows[id].entry BY <2>1, <2>3 DEF NoNewText
  <2>5. job[t].entry = rows[id].entry \/ id \in dropped \/ Behind(id)
    BY <1>1, <2>1, <2>3 DEF InStep
  <2>6. Behind(id) =>
          id \in dropped' \/ \E c \in Clients : pc'[c] = "replace" /\ job'[c].id = id
    BY DEF Behind, WaitKept
  <2> QED BY <2>1, <2>4, <2>5, <2>6 DEF NoNewText
<1>5. Wrote'
  <2> SUFFICES ASSUME NEW t \in Tasks, pc'[t] = "link"
               PROVE  job'[t].new \in Uris' /\ records'[job'[t].new] = job'[t].entry
    BY DEF Wrote, Uris
  <2> QED BY <1>1 DEF Wrote, WasInside, NoNewText, InPush
<1>6. RecordsFollow'
  <2> SUFFICES ASSUME NEW i \in Ids', i \notin dropped', rows'[i].uri # NoUri
               PROVE  \/ records'[rows'[i].uri] = rows'[i].entry
                      \/ \E t \in Clients : UpdateOnItsWay(t, i)'
    BY DEF RecordsFollow, Follows, Ids
  <2>1. CASE i \notin Ids BY <2>1 DEF NoNewText
  <2>2. CASE i \in Ids
    <3>1. rows'[i].uri = rows[i].uri /\ rows'[i].entry = rows[i].entry /\ i \notin dropped
      BY <2>2 DEF NoNewText
    <3>2. rows[i].uri \in Uris BY <1>2, <2>2, <3>1 DEF RowsTyped
    <3>3. Follows(i) BY <1>1, <2>2, <3>1 DEF RecordsFollow
    <3>4. CASE records[rows[i].uri] = rows[i].entry BY <3>1, <3>2, <3>4 DEF NoNewText
    <3>5. CASE \E t \in Clients : UpdateOnItsWay(t, i) BY <2>2, <3>5 DEF WayKept
    <3> QED BY <3>1, <3>3, <3>4, <3>5 DEF Follows
  <2> QED BY <2>1, <2>2
<1> QED BY <1>3, <1>4, <1>5, <1>6 DEF Ordered

(* One task moves, and the lock is taken or let go by no one else.         *)
Alone(t) ==
  /\ \A s \in Tasks \ {t} : pc'[s] = pc[s] /\ job'[s] = job[s]
  /\ lock' = lock \/ lock \in {None, t}

LEMMA AloneKeeps ==
  ASSUME TypeOK, Ordered, NEW t \in Tasks, Alone(t)
  PROVE  \A s \in Tasks \ {t} : WayKept(s) /\ WaitKept(s) /\ WasInside(s)
<1> SUFFICES ASSUME NEW s \in Tasks, s # t PROVE WayKept(s) /\ WaitKept(s) /\ WasInside(s)
  OBVIOUS
<1>1. pc'[s] = pc[s] /\ job'[s] = job[s] BY DEF Alone
<1>2. WayKept(s) BY <1>1 DEF WayKept, UpdateOnItsWay
<1>3. WaitKept(s) BY <1>1 DEF WaitKept
<1>4. pc'[s] \in InPush => lock = s BY <1>1 DEF Ordered, OneInside
<1>5. s # None BY EngramAssumption
<1>6. WasInside(s) BY <1>1, <1>4, <1>5 DEF WasInside, Alone
<1> QED BY <1>2, <1>3, <1>6

Updating == {"replace", "remember", "link", "unlink"}

LEMMA AsideOrdered ==
  ASSUME TypeOK, Ordered, NoNewText, NEW t \in Tasks, Alone(t),
         pc[t] \notin Updating, pc'[t] \notin InPush
  PROVE  Ordered'
<1>1. WayKept(t) /\ WaitKept(t) /\ WasInside(t)
  BY DEF WayKept, WaitKept, WasInside, UpdateOnItsWay, Updating
<1>2. Clients \subseteq Tasks BY DEF Tasks
<1> QED BY <1>1, <1>2, AloneKeeps, QuietOrdered

LEMMA SameText ==
  ASSUME TypeOK, UNCHANGED <<rows, records>>, dropped \subseteq dropped'
  PROVE  NoNewText
BY DEF NoNewText, Ids, Uris

LEMMA CreateText ==
  ASSUME TypeOK, UNCHANGED <<rows, dropped>>, NEW e \in Entries, Create(e)
  PROVE  /\ NoNewText
         /\ Len(records') \in Uris' /\ records'[Len(records')] = e
<1>1. SpaceTyped BY TypesInParts
<1>2. /\ records \in Seq(Entries) /\ Len(records) \in Nat
      /\ Len(records') = Len(records) + 1 /\ Uris' = Uris \cup {Len(records')}
  BY <1>1, CreateTyped, LenProperties DEF SpaceTyped
<1>3. \A u \in Uris : records'[u] = records[u]
  BY <1>2, AppendProperties DEF Create, Uris
<1>4. records'[Len(records')] = e BY <1>2, AppendProperties DEF Create
<1> QED BY <1>2, <1>3, <1>4 DEF NoNewText, Ids

LEMMA ReturnAlone ==
  ASSUME TypeOK, NEW t \in Tasks, Return(t) \/ Raise(t)
  PROVE  Alone(t) /\ pc'[t] \in {"idle", "pushes", "pull"}
<1>1. TasksTyped BY TypesInParts
<1>2. PICK place \in {"idle", "pushes", "pull"} : Move(t, place, NoJob) BY DEF Return, Raise
<1>3. lock' = IF lock = t THEN None ELSE lock BY DEF Return, Raise, Release
<1> QED BY <1>1, <1>2, <1>3, MovedTask DEF Alone

LEMMA EndOrdered ==
  ASSUME TypeOK, Ordered, NoNewText, NEW t \in Tasks, Return(t) \/ Raise(t),
         pc[t] \notin Updating
  PROVE  Ordered'
BY ReturnAlone, AsideOrdered DEF InPush

LEMMA MoveOrdered ==
  ASSUME TypeOK, Ordered, NoNewText, NEW t \in Tasks, NEW place, NEW j, Move(t, place, j),
         lock' = lock \/ lock \in {None, t},
         pc[t] \notin Updating, place \notin InPush
  PROVE  Ordered'
<1>1. TasksTyped BY TypesInParts
<1>2. Alone(t) /\ pc'[t] = place BY <1>1, MovedTask DEF Alone
<1> QED BY <1>2, AsideOrdered

LEMMA GotoOrdered ==
  ASSUME TypeOK, Ordered, NoNewText, NEW t \in Tasks, NEW place, Goto(t, place), job' = job,
         lock' = lock \/ lock \in {None, t},
         pc[t] \notin Updating, place \notin InPush
  PROVE  Ordered'
<1>1. TasksTyped BY TypesInParts
<1>2. Alone(t) /\ pc'[t] = place BY <1>1, WentTask DEF Alone
<1> QED BY <1>2, AsideOrdered

-----------------------------------------------------------------------------
(* The steps that leave every text as it is. *)

LEMMA AddOrdered ==
  ASSUME TypeOK, Ordered, NEW t \in Clients, Add(t) PROVE Ordered'
<1>1. t \in Tasks BY DEF Tasks
<1>2. RowsTyped /\ TasksTyped BY TypesInParts
<1>3. NoNewText
  <2>1. /\ Ids' = Ids \cup {lastId'} /\ lastId' = lastId + 1 /\ lastId \in Nat
        /\ \A i \in Ids' :
             IF i = lastId' THEN rows'[i].uri = NoUri ELSE rows'[i] = rows[i]
    BY <1>2 DEF Add, Put, Ids, RowsTyped
  <2>2. lastId' \notin Ids BY <1>2, <2>1 DEF RowsTyped
  <2>3. UNCHANGED <<records, dropped>> BY DEF Add, remote, history
  <2> QED BY <2>1, <2>2, <2>3 DEF NoNewText, Uris
<1>4. Alone(t)
  <2>1. CASE connected
    <3>1. Move(t, "push", [NoJob EXCEPT !.id = lastId']) BY <2>1 DEF Add
    <3> QED BY <1>1, <1>2, <3>1, MovedTask DEF Alone, Add
  <2>2. CASE ~connected BY <2>2 DEF Add, Alone
  <2> QED BY <2>1, <2>2
<1>5. pc[t] \notin Updating /\ pc'[t] \notin InPush
  BY <1>1, <1>2 DEF Add, Move, Goto, Updating, InPush, TasksTyped
<1> QED BY <1>1, <1>3, <1>4, <1>5, AsideOrdered

LEMMA UpdateReadOrdered ==
  ASSUME TypeOK, Ordered, NEW t \in Clients, UpdateRead(t) PROVE Ordered'
<1>1. t \in Tasks BY DEF Tasks
<1>2. PICK j : Move(t, "update", j) BY DEF UpdateRead
<1>3. NoNewText BY SameText DEF UpdateRead, db, remote, history
<1>4. lock' = lock /\ pc[t] = "idle" BY DEF UpdateRead
<1> QED BY <1>1, <1>2, <1>3, <1>4, MoveOrdered DEF Updating, InPush

LEMMA DeleteReadOrdered ==
  ASSUME TypeOK, Ordered, NEW t \in Clients, DeleteRead(t) PROVE Ordered'
<1>1. t \in Tasks BY DEF Tasks
<1>2. PICK j : Move(t, "delete", j) BY DEF DeleteRead
<1>3. NoNewText BY SameText DEF DeleteRead, db, remote, history
<1>4. lock' = lock /\ pc[t] = "idle" BY DEF DeleteRead
<1> QED BY <1>1, <1>2, <1>3, <1>4, MoveOrdered DEF Updating, InPush

LEMMA DeleteWriteOrdered ==
  ASSUME TypeOK, Ordered, NEW t \in Clients, DeleteWrite(t) PROVE Ordered'
<1>1. t \in Tasks BY DEF Tasks
<1>2. PICK place \in {"forget", "idle"}, j \in {NoJob, [NoJob EXCEPT !.old = job[t].old]} :
        Move(t, place, j)
  BY DEF DeleteWrite
<1>3. NoNewText
  <2>1. rows' = [i \in Ids \ {job[t].id} |-> rows[i]] BY DEF DeleteWrite, Restrict
  <2>2. Ids' = Ids \ {job[t].id} /\ \A i \in Ids' : rows'[i] = rows[i] BY <2>1 DEF Ids
  <2> QED BY <2>2 DEF DeleteWrite, remote, history, NoNewText, Uris
<1>4. lock' = lock /\ pc[t] = "delete" BY DEF DeleteWrite
<1> QED BY <1>1, <1>2, <1>3, <1>4, MoveOrdered DEF Updating, InPush

LEMMA SearchOrdered ==
  ASSUME TypeOK, Ordered, NEW t \in Clients, Search(t) PROVE Ordered'
<1>1. t \in Tasks BY DEF Tasks
<1>2. NoNewText BY SameText DEF Search, db, remote, history
<1>3. Goto(t, "ingest") /\ UNCHANGED <<job, lock>> /\ pc[t] = "idle" BY DEF Search
<1> QED BY <1>1, <1>2, <1>3, GotoOrdered DEF Updating, InPush

(* A record that comes back becomes a row that says the same.              *)
LEMMA IngestOrdered ==
  ASSUME TypeOK, Ordered, NEW t \in Tasks, Ingest(t) PROVE Ordered'
<1>1. RowsTyped /\ SpaceTyped BY TypesInParts
<1>2. PICK uri \in found[t] :
        /\ lastId' = IF uri \in RowUris THEN lastId ELSE lastId + 1
        /\ IF uri \in RowUris THEN UNCHANGED rows
           ELSE Put(lastId', [entry |-> records[uri], uri |-> uri])
  BY DEF Ingest
<1>3. UNCHANGED <<records, dropped, job, lock>> /\ pc[t] = "ingest"
  BY DEF Ingest, remote
<1>4. NoNewText
  <2>1. CASE uri \in RowUris BY <1>2, <1>3, <2>1, SameText
  <2>2. CASE uri \notin RowUris
    <3>1. /\ Ids' = Ids \cup {lastId'} /\ lastId' = lastId + 1 /\ lastId \in Nat
          /\ \A i \in Ids' :
               rows'[i] = IF i = lastId' THEN [entry |-> records[uri], uri |-> uri]
                                         ELSE rows[i]
      BY <1>1, <1>2, <2>2 DEF Put, Ids, RowsTyped
    <3>2. lastId' \notin Ids /\ uri \in Uris BY <1>1, <3>1 DEF RowsTyped, SpaceTyped
    <3> QED BY <1>3, <3>1, <3>2 DEF NoNewText, Uris
  <2> QED BY <2>1, <2>2
<1>5. Goto(t, "idle") \/ Goto(t, "ingest") BY DEF Ingest
<1> QED BY <1>3, <1>4, <1>5, GotoOrdered DEF Updating, InPush

LEMMA SkipPushOrdered ==
  ASSUME TypeOK, Ordered, NEW t \in Tasks, SkipPush(t) PROVE Ordered'
<1>1. NoNewText BY SameText DEF SkipPush, db, remote, history
<1>2. Return(t) /\ pc[t] = "push" BY DEF SkipPush
<1> QED BY <1>1, <1>2, EndOrdered DEF Updating

LEMMA ForgetOrdered ==
  ASSUME TypeOK, Ordered, NEW t \in Tasks, Forget(t) PROVE Ordered'
<1>1. NoNewText BY SameText DEF Forget, db, history
<1>2. Return(t) /\ pc[t] = "forget" BY DEF Forget
<1> QED BY <1>1, <1>2, EndOrdered DEF Updating

LEMMA ForgetFailsOrdered ==
  ASSUME TypeOK, Ordered, NEW t \in Tasks, ForgetFails(t) PROVE Ordered'
<1>1. NoNewText BY SameText DEF ForgetFails, db, history
<1>2. Goto(t, "bury") /\ UNCHANGED <<job, lock>> /\ pc[t] = "forget" BY DEF ForgetFails
<1> QED BY <1>1, <1>2, GotoOrdered DEF Updating, InPush

LEMMA BuryOldOrdered ==
  ASSUME TypeOK, Ordered, NEW t \in Tasks, BuryOld(t) PROVE Ordered'
<1>1. NoNewText BY SameText DEF BuryOld, remote, history
<1>2. Raise(t) /\ pc[t] = "bury" BY DEF BuryOld
<1> QED BY <1>1, <1>2, EndOrdered DEF Updating

(* The flush and the pull: their own steps touch tombstones and lists.     *)
LEMMA FlushOrdered ==
  ASSUME TypeOK, Ordered, Flush PROVE Ordered'
<1>1. Sync \in Tasks BY DEF Tasks
<1>2. NoNewText
  BY SameText
  DEF Flush, StartFlush, RetryDelete, RetrySucceeds, RetryFails, ClearTombstone,
      ListUnpushed, RetryPush, db, remote, history
<1>3. /\ lock' = lock \/ lock \in {None, Sync}
      /\ pc[Sync] \in {"idle", "deletes", "retry", "clear", "pushes"}
  BY DEF Flush, StartFlush, RetryDelete, RetrySucceeds, RetryFails, ClearTombstone,
         ListUnpushed, RetryPush, Holds, Release
<1>4. \/ \E place \in {"retry", "deletes", "pull", "push"} : \E j : Move(Sync, place, j)
      \/ \E place \in {"deletes", "clear", "pushes"} : Goto(Sync, place) /\ job' = job
  <2>1. CASE StartFlush \/ RetrySucceeds \/ ListUnpushed
    BY <2>1 DEF StartFlush, RetrySucceeds, ListUnpushed
  <2>2. CASE RetryDelete BY <2>2 DEF RetryDelete
  <2>3. CASE RetryFails BY <2>3 DEF RetryFails
  <2>4. CASE ClearTombstone BY <2>4 DEF ClearTombstone
  <2>5. CASE RetryPush BY <2>5 DEF RetryPush
  <2> QED BY <2>1, <2>2, <2>3, <2>4, <2>5 DEF Flush
<1> QED BY <1>1, <1>2, <1>3, <1>4, MoveOrdered, GotoOrdered DEF Updating, InPush

LEMMA PullOrdered ==
  ASSUME TypeOK, Ordered, Pull PROVE Ordered'
<1>1. Sync \in Tasks BY DEF Tasks
<1>2. NoNewText BY SameText DEF Pull, ReadKnown, List, ListFails, db, remote, history
<1>3. /\ UNCHANGED <<lock, job>> /\ pc[Sync] \in {"pull", "pushes", "list"}
      /\ \E place \in {"list", "idle", "ingest"} : Goto(Sync, place)
  BY DEF Pull, ReadKnown, List, ListFails
<1> QED BY <1>1, <1>2, <1>3, GotoOrdered DEF Updating, InPush

LEMMA StillOrdered ==
  ASSUME TypeOK, Ordered, UNCHANGED <<rows, records, dropped, pc, job, lock>>
  PROVE  Ordered'
<1>1. NoNewText BY SameText
<1>2. \A t \in Tasks : WayKept(t) /\ WaitKept(t) /\ WasInside(t)
  BY DEF WayKept, WaitKept, WasInside, UpdateOnItsWay, Ordered, OneInside
<1>3. Clients \subseteq Tasks BY DEF Tasks
<1> QED BY <1>1, <1>2, <1>3, QuietOrdered

(* Those of an update that is on its way: it stays so, or the row has no   *)
(* record by then, or it is given up.                                      *)
LEMMA SkipReplaceOrdered ==
  ASSUME TypeOK, Ordered, NEW t \in Tasks, SkipReplace(t) PROVE Ordered'
<1>1. NoNewText BY SameText DEF SkipReplace, db, remote, history
<1>2. Alone(t) /\ pc'[t] \notin InPush BY ReturnAlone DEF SkipReplace, InPush
<1>3. \A s \in Tasks : pc[s] \notin InPush
  BY EngramAssumption DEF SkipReplace, Ordered, OneInside
<1>4. \A s \in Tasks : pc'[s] \notin InPush BY <1>2, <1>3 DEF Alone
<1>5. rows' = rows /\ pc[t] = "replace" /\ UriOf(job[t].id) = NoUri
  BY DEF SkipReplace, db
<1>6. WayKept(t) BY <1>5 DEF WayKept, UpdateOnItsWay, UriOf, Ids
<1>7. WaitKept(t) /\ WasInside(t) BY <1>4 DEF WaitKept, WasInside
<1>8. Clients \subseteq Tasks BY DEF Tasks
<1> QED BY <1>1, <1>2, <1>6, <1>7, <1>8, AloneKeeps, QuietOrdered

LEMMA RememberOrdered ==
  ASSUME TypeOK, Ordered, NEW t \in Tasks, Remember(t) PROVE Ordered'
<1>1. TasksTyped BY TypesInParts
<1>2. job[t].entry \in Entries BY <1>1 DEF TasksTyped, Jobs
<1>3. /\ NoNewText
      /\ Len(records') \in Uris' /\ records'[Len(records')] = job[t].entry
  BY <1>2, CreateText DEF Remember, db
<1>4. /\ pc'[t] = "link" /\ job'[t] = [job[t] EXCEPT !.new = Len(records')]
      /\ Alone(t) /\ lock' = lock /\ pc[t] = "remember"
  BY <1>1, MovedTask DEF Remember, Alone
<1>5. /\ job'[t].id = job[t].id /\ job'[t].entry = job[t].entry
      /\ job'[t].old = job[t].old /\ job'[t].new = Len(records')
  BY <1>1, <1>4 DEF TasksTyped, Jobs
<1>6. WayKept(t) /\ WaitKept(t) BY <1>4, <1>5 DEF WayKept, WaitKept, UpdateOnItsWay
<1>7. WasInside(t) BY <1>3, <1>4, <1>5 DEF WasInside, Ordered, OneInside, InPush
<1>8. Clients \subseteq Tasks BY DEF Tasks
<1> QED BY <1>3, <1>4, <1>6, <1>7, <1>8, AloneKeeps, QuietOrdered

LEMMA RememberFailsOrdered ==
  ASSUME TypeOK, Ordered, NEW t \in Tasks, RememberFails(t) PROVE Ordered'
<1>1. TasksTyped BY TypesInParts
<1>2. job[t].entry \in Entries BY <1>1 DEF TasksTyped, Jobs
<1>3. UNCHANGED <<rows, dropped>> BY DEF RememberFails, db
<1>4. NoNewText
  <2>1. Create(job[t].entry) \/ UNCHANGED records BY DEF RememberFails, remote
  <2> QED BY <1>2, <1>3, <2>1, CreateText, SameText
<1>5. pc[t] = "remember" /\ lock = t
  BY DEF RememberFails, Ordered, OneInside, InPush
<1>6. /\ Alone(t) /\ pc'[t] \notin InPush
      /\ job[t].old = NoUri \/ (pc'[t] = "unlink" /\ job'[t] = job[t])
  <2>1. CASE job[t].old = NoUri
    BY <2>1, ReturnAlone DEF RememberFails, InPush
  <2>2. CASE job[t].old # NoUri
    <3>1. Move(t, "unlink", job[t]) /\ lock' = lock BY <2>2 DEF RememberFails
    <3> QED BY <1>1, <3>1, MovedTask DEF Alone, InPush
  <2> QED BY <2>1, <2>2
<1>7. WayKept(t) BY <1>5, <1>6 DEF WayKept, UpdateOnItsWay
<1>8. WaitKept(t) /\ WasInside(t) BY <1>5, <1>6 DEF WaitKept, WasInside
<1>9. Clients \subseteq Tasks BY DEF Tasks
<1> QED BY <1>4, <1>6, <1>7, <1>8, <1>9, AloneKeeps, QuietOrdered

LEMMA LinkFailsOrdered ==
  ASSUME TypeOK, Ordered, NEW t \in Tasks, LinkFails(t) PROVE Ordered'
<1>1. NoNewText BY SameText DEF LinkFails, db, remote
<1>2. pc[t] = "link" BY DEF LinkFails
<1>3. Alone(t) /\ pc'[t] \notin InPush BY ReturnAlone DEF LinkFails, InPush
<1>4. WayKept(t) BY <1>2 DEF LinkFails, WayKept, UpdateOnItsWay
<1>5. WaitKept(t) /\ WasInside(t) BY <1>2, <1>3 DEF WaitKept, WasInside
<1>6. Clients \subseteq Tasks BY DEF Tasks
<1> QED BY <1>1, <1>3, <1>4, <1>5, <1>6, AloneKeeps, QuietOrdered

LEMMA UnlinkOrdered ==
  ASSUME TypeOK, Ordered, NEW t \in Tasks, Unlink(t) PROVE Ordered'
<1>1. RowsTyped /\ TasksTyped BY TypesInParts
<1>2. /\ Ids' = Ids
      /\ \A i \in Ids : /\ rows'[i].entry = rows[i].entry
                        /\ rows'[i].uri = IF i = job[t].id THEN NoUri ELSE rows[i].uri
  BY <1>1 DEF Unlink, Link, RowsTyped, Ids
<1>3. NoNewText BY <1>2 DEF NoNewText, Unlink, remote, history, Uris
<1>4. pc[t] = "unlink" /\ pc'[t] = "bury" /\ Alone(t)
  BY <1>1, WentTask DEF Unlink, Alone
<1>5. WayKept(t) BY <1>2 DEF WayKept, UpdateOnItsWay
<1>6. WaitKept(t) /\ WasInside(t) BY <1>4 DEF WaitKept, WasInside, InPush
<1>7. Clients \subseteq Tasks BY DEF Tasks
<1> QED BY <1>3, <1>4, <1>5, <1>6, <1>7, AloneKeeps, QuietOrdered

LEMMA InterruptOrdered ==
  ASSUME TypeOK, Ordered, NEW t \in Tasks, Interrupt(t) PROVE Ordered'
<1>1. NoNewText BY SameText DEF Interrupt, db, remote
<1>2. Alone(t) /\ pc'[t] \notin InPush BY ReturnAlone DEF Interrupt, InPush
<1>3. LeavesOld(t) => job[t].id \in dropped' BY DEF Interrupt
<1>4. WayKept(t) /\ WaitKept(t) BY <1>3 DEF WayKept, WaitKept, UpdateOnItsWay, LeavesOld
<1>5. WasInside(t) BY <1>2 DEF WasInside
<1>6. Clients \subseteq Tasks BY DEF Tasks
<1> QED BY <1>1, <1>2, <1>4, <1>5, <1>6, AloneKeeps, QuietOrdered

LEMMA CrashOrdered ==
  ASSUME TypeOK, Ordered, Crash PROVE Ordered'
<1>1. NoNewText BY SameText DEF Crash, db, remote
<1>2. \A t \in Tasks : pc'[t] = "idle" BY DEF Crash
<1>3. \A t \in Tasks : LeavesOld(t) => job[t].id \in dropped' BY DEF Crash
<1>4. \A t \in Tasks : WayKept(t) BY <1>3 DEF WayKept, UpdateOnItsWay, LeavesOld
<1>5. \A t \in Tasks : WaitKept(t) /\ WasInside(t) BY <1>2 DEF WaitKept, WasInside, InPush
<1>6. Clients \subseteq Tasks BY DEF Tasks
<1> QED BY <1>1, <1>4, <1>5, <1>6, QuietOrdered

-----------------------------------------------------------------------------
(* The steps that read, give or link a text. *)

(* Whoever takes the lock finds no one inside and reads the row as it is.  *)
LEMMA EnterOrdered ==
  ASSUME TypeOK, Ordered, NEW t \in Tasks, NEW j, Move(t, "remember", j), Holds(t),
         UNCHANGED <<rows, records>>, dropped' = dropped \ {j.id},
         pc[t] \in {"push", "replace"},
         j.id = job[t].id, j.id \in Ids, j.entry = rows[j.id].entry,
         rows[j.id].uri = NoUri \/ (t \in Clients /\ j.old # NoUri)
  PROVE  Ordered'
<1>1. TasksTyped BY TypesInParts
<1>2. /\ pc'[t] = "remember" /\ job'[t] = j
      /\ \A s \in Tasks \ {t} : pc'[s] = pc[s] /\ job'[s] = job[s]
  BY <1>1, MovedTask
<1>3. \A s \in Tasks : pc[s] \notin InPush
  BY EngramAssumption DEF Holds, Ordered, OneInside
<1>4. \A s \in Tasks : pc'[s] \in InPush => s = t BY <1>2, <1>3
<1>5. OneInside' BY <1>4 DEF OneInside, Holds
<1>6. InStep' BY <1>2, <1>4 DEF InStep, Ids
<1>7. Wrote' BY <1>2, <1>4 DEF Wrote, InPush
<1>8. RecordsFollow'
  <2> SUFFICES ASSUME NEW i \in Ids, i \notin dropped', rows[i].uri # NoUri,
                      records[rows[i].uri] # rows[i].entry
               PROVE  \E c \in Clients : UpdateOnItsWay(c, i)'
    BY DEF RecordsFollow, Follows, Ids
  <2>1. CASE i = j.id BY <1>2, <2>1 DEF UpdateOnItsWay
  <2>2. CASE i # j.id
    <3>1. Follows(i) BY <2>2 DEF Ordered, RecordsFollow
    <3>2. PICK c \in Clients : UpdateOnItsWay(c, i) BY <3>1 DEF Follows
    <3>3. c \in Tasks \ {t} BY <2>2, <3>2 DEF UpdateOnItsWay, Tasks
    <3> QED BY <1>2, <3>2, <3>3 DEF UpdateOnItsWay
  <2> QED BY <2>1, <2>2
<1> QED BY <1>5, <1>6, <1>7, <1>8 DEF Ordered

LEMMA BeginPushOrdered ==
  ASSUME TypeOK, Ordered, NEW t \in Tasks, BeginPush(t) PROVE Ordered'
<1>1. TasksTyped BY TypesInParts
<1> DEFINE j == [job[t] EXCEPT !.entry = rows[job[t].id].entry]
<1>2. j.id = job[t].id /\ j.entry = rows[j.id].entry BY <1>1 DEF TasksTyped, Jobs
<1>3. j.id \in Ids /\ rows[j.id].uri = NoUri BY <1>2 DEF BeginPush, Unpushed
<1>4. /\ Move(t, "remember", j) /\ Holds(t) /\ pc[t] = "push"
      /\ UNCHANGED <<rows, records>> /\ dropped' = dropped \ {j.id}
  BY <1>2 DEF BeginPush, db, remote
<1> HIDE DEF j
<1> QED BY <1>2, <1>3, <1>4, EnterOrdered

LEMMA BeginReplaceOrdered ==
  ASSUME TypeOK, Ordered, NEW t \in Clients, BeginReplace(t) PROVE Ordered'
<1>1. TasksTyped /\ t \in Tasks BY TypesInParts DEF Tasks
<1> DEFINE j == [job[t] EXCEPT !.entry = rows[job[t].id].entry, !.old = UriOf(job[t].id)]
<1>2. /\ j.id = job[t].id /\ j.entry = rows[j.id].entry
      /\ j.old = UriOf(j.id)
  BY <1>1 DEF TasksTyped, Jobs
<1>3. j.id \in Ids /\ j.old # NoUri BY <1>2 DEF BeginReplace, UriOf
<1>4. /\ Move(t, "remember", j) /\ Holds(t) /\ pc[t] = "replace"
      /\ UNCHANGED <<rows, records>> /\ dropped' = dropped \ {j.id}
  BY <1>2 DEF BeginReplace, db, remote
<1> HIDE DEF j
<1> QED BY <1>1, <1>2, <1>3, <1>4, EnterOrdered

(* A new text: who gave it stands before the lock, or gave it up there.    *)
LEMMA UpdateWriteOrdered ==
  ASSUME TypeOK, Ordered, NEW t \in Clients, UpdateWrite(t) PROVE Ordered'
<1>1. RowsTyped /\ TasksTyped /\ t \in Tasks BY TypesInParts DEF Tasks
<1>2. OneInside /\ InStep /\ Wrote /\ RecordsFollow BY DEF Ordered
<1> DEFINE id == job[t].id
<1>3. /\ Ids' = Ids
      /\ \A i \in Ids : /\ rows'[i].uri = rows[i].uri
                        /\ i # id => rows'[i].entry = rows[i].entry
  BY <1>1 DEF UpdateWrite, RowsTyped, Ids
<1>4. /\ pc[t] = "update" /\ pc'[t] \in {"replace", "idle"}
      /\ \A s \in Tasks \ {t} : pc'[s] = pc[s] /\ job'[s] = job[s]
      /\ UNCHANGED <<records, lock>> /\ dropped \subseteq dropped'
      /\ id \in dropped' \/ (pc'[t] = "replace" /\ job'[t].id = id)
  <2>1. CASE connected
    <3>1. Move(t, "replace", [NoJob EXCEPT !.id = id]) /\ dropped' = dropped
      BY <2>1 DEF UpdateWrite
    <3>2. [NoJob EXCEPT !.id = id].id = id BY DEF NoJob
    <3> QED BY <1>1, <3>1, <3>2, MovedTask DEF UpdateWrite, remote
  <2>2. CASE ~connected
    <3>1. Move(t, "idle", NoJob) /\ dropped' = dropped \cup {id}
      BY <2>2 DEF UpdateWrite
    <3> QED BY <1>1, <3>1, MovedTask DEF UpdateWrite, remote
  <2> QED BY <2>1, <2>2
<1>5. Uris' = Uris BY <1>4 DEF Uris
<1>6. \A s \in Tasks : pc'[s] \in InPush =>
        pc[s] = pc'[s] /\ job[s] = job'[s]
  BY <1>4 DEF InPush
<1>7. OneInside' BY <1>2, <1>4, <1>6 DEF OneInside
<1>8. Wrote' BY <1>2, <1>4, <1>5, <1>6 DEF Wrote, InPush
<1>9. InStep'
  <2> SUFFICES ASSUME NEW s \in Tasks, pc'[s] \in InPush, job'[s].id \in Ids
               PROVE  \/ job'[s].entry = rows'[job'[s].id].entry
                      \/ job'[s].id \in dropped'
                      \/ \E c \in Clients : pc'[c] = "replace" /\ job'[c].id = job'[s].id
    BY <1>3 DEF InStep, Behind
  <2>1. pc[s] \in InPush /\ job'[s] = job[s] BY <1>6
  <2>2. CASE job[s].id = id BY <1>4, <2>1, <2>2
  <2>3. CASE job[s].id # id
    <3>1. \/ job[s].entry = rows[job[s].id].entry
          \/ job[s].id \in dropped \/ Behind(job[s].id)
      BY <1>2, <2>1 DEF InStep
    <3>2. Behind(job[s].id) =>
            \E c \in Clients : pc'[c] = "replace" /\ job'[c].id = job[s].id
      BY <1>4 DEF Behind, Tasks
    <3> QED BY <1>3, <1>4, <2>1, <2>3, <3>1, <3>2
  <2> QED BY <2>2, <2>3
<1>10. RecordsFollow'
  <2> SUFFICES ASSUME NEW i \in Ids, i \notin dropped', rows[i].uri # NoUri,
                      records[rows[i].uri] # rows'[i].entry
               PROVE  \E c \in Clients : UpdateOnItsWay(c, i)'
    BY <1>3, <1>4 DEF RecordsFollow, Follows
  <2>1. CASE i = id BY <1>4, <2>1 DEF UpdateOnItsWay
  <2>2. CASE i # id
    <3>1. Follows(i) /\ rows'[i].entry = rows[i].entry
      BY <1>2, <1>3, <1>4, <2>2 DEF RecordsFollow
    <3>2. PICK c \in Clients : UpdateOnItsWay(c, i) BY <3>1 DEF Follows
    <3>3. c \in Tasks \ {t} BY <1>4, <3>2 DEF UpdateOnItsWay, Tasks
    <3> QED BY <1>4, <3>2, <3>3 DEF UpdateOnItsWay
  <2> QED BY <2>1, <2>2
<1> QED BY <1>7, <1>8, <1>9, <1>10 DEF Ordered

(* The row takes the record that was written for it, which says what it    *)
(* says or what an update that waits will replace.                         *)
LEMMA LinkNewOrdered ==
  ASSUME TypeOK, Ordered, NEW t \in Tasks, LinkNew(t) PROVE Ordered'
<1>1. RowsTyped /\ TasksTyped BY TypesInParts
<1>2. OneInside /\ InStep /\ Wrote /\ RecordsFollow BY DEF Ordered
<1> DEFINE id == job[t].id
           new == job[t].new
<1>3. pc[t] = "link" /\ lock = t BY <1>2 DEF LinkNew, OneInside, InPush
<1>4. UNCHANGED <<records, dropped>> BY DEF LinkNew, remote, history
<1>5. /\ Ids' = Ids
      /\ \A i \in Ids : /\ rows'[i].entry = rows[i].entry
                        /\ rows'[i].uri = IF i = id THEN new ELSE rows[i].uri
  BY <1>1 DEF LinkNew, Link, RowsTyped, Ids
<1>6. /\ \A s \in Tasks \ {t} : pc'[s] = pc[s] /\ job'[s] = job[s]
      /\ pc'[t] \notin InPush
  <2>1. CASE Return(t) BY <2>1, ReturnAlone DEF Alone, InPush
  <2>2. CASE Move(t, "forget", [NoJob EXCEPT !.old = job[t].old])
    BY <1>1, <2>2, MovedTask DEF InPush
  <2> QED BY <2>1, <2>2 DEF LinkNew
<1>7. \A s \in Tasks : pc'[s] \notin InPush
  BY <1>2, <1>3, <1>6 DEF OneInside
<1>8. OneInside' /\ InStep' /\ Wrote'
  BY <1>7 DEF OneInside, InStep, Wrote, InPush
<1>9. \A c \in Clients, i \in Ids :
        UpdateOnItsWay(c, i) => (i = id /\ c = t) \/ UpdateOnItsWay(c, i)'
  BY <1>6 DEF UpdateOnItsWay, Tasks
<1>10. RecordsFollow'
  <2> SUFFICES ASSUME NEW i \in Ids, i \notin dropped, rows'[i].uri # NoUri,
                      records[rows'[i].uri] # rows[i].entry
               PROVE  \E c \in Clients : UpdateOnItsWay(c, i)'
    BY <1>4, <1>5 DEF RecordsFollow, Follows
  <2>1. CASE i = id
    <3>1. records[new] = job[t].entry BY <1>2, <1>3 DEF Wrote
    <3>2. Behind(id) BY <1>2, <1>3, <1>5, <2>1, <3>1 DEF InStep, InPush
    <3>3. PICK c \in Clients : pc[c] = "replace" /\ job[c].id = id BY <3>2 DEF Behind
    <3>4. c # t /\ UpdateOnItsWay(c, i) BY <1>3, <2>1, <3>3 DEF UpdateOnItsWay
    <3> QED BY <1>9, <3>4
  <2>2. CASE i # id
    <3>1. Follows(i) BY <1>2 DEF RecordsFollow
    <3>2. PICK c \in Clients : UpdateOnItsWay(c, i) BY <1>5, <2>2, <3>1 DEF Follows
    <3> QED BY <1>9, <2>2, <3>2
  <2> QED BY <2>1, <2>2
<1> QED BY <1>8, <1>10 DEF Ordered

-----------------------------------------------------------------------------
LEMMA OrderedStep == TypeOK /\ Ordered /\ [Next]_vars => Ordered'
<1> SUFFICES ASSUME TypeOK, Ordered, [Next]_vars PROVE Ordered' OBVIOUS
<1>1. \A t \in Clients : t \in Tasks BY DEF Tasks
<1>2. Sync \in Tasks BY DEF Tasks
<1>3. ASSUME NEW t \in Tasks, Push(t) PROVE Ordered'
  BY <1>3, BeginPushOrdered, SkipPushOrdered, RememberOrdered, RememberFailsOrdered,
     LinkNewOrdered, LinkFailsOrdered DEF Push
<1>4. ASSUME NEW t \in Clients, Write(t) PROVE Ordered'
  BY <1>1, <1>4, UpdateWriteOrdered, DeleteWriteOrdered, BeginReplaceOrdered,
     SkipReplaceOrdered, UnlinkOrdered, ForgetOrdered, ForgetFailsOrdered,
     BuryOldOrdered
  DEF Write
<1>5. ASSUME NEW t \in Clients, Call(t) PROVE Ordered'
  BY <1>5, AddOrdered, UpdateReadOrdered, DeleteReadOrdered, SearchOrdered DEF Call
<1>6. CASE Connect BY <1>6, StillOrdered DEF Connect, db, remote, history
<1>7. CASE SyncStep
  BY <1>2, <1>3, <1>6, <1>7, FlushOrdered, PullOrdered, IngestOrdered DEF SyncStep
<1>8. CASE \E t \in Clients : Call(t) \/ ClientStep(t)
  BY <1>1, <1>3, <1>4, <1>5, <1>8, IngestOrdered DEF ClientStep
<1>9. CASE \E t \in Tasks : Interrupt(t) BY <1>9, InterruptOrdered
<1>10. CASE Crash BY <1>10, CrashOrdered
<1>11. CASE UNCHANGED vars
  BY <1>11, StillOrdered DEF vars, db, remote, history
<1> QED BY <1>7, <1>8, <1>9, <1>10, <1>11 DEF Next

(* However many clients give a memory new texts while it is pushed,        *)
(* replaced or read back, its record says what its row says unless the     *)
(* update that made the difference is still on its way or was given up on  *)
(* the way: the lock and the reads under it never leave an older text over *)
(* a newer one (engram.py:157-184).                                        *)
THEOREM TextsFollow == Spec => []RecordsFollow
<1>1. Init => TypeOK /\ Ordered BY InitTypes, InitOrdered
<1>2. TypeOK /\ Ordered /\ [Next]_vars => (TypeOK /\ Ordered)'
  BY TypesStep, OrderedStep
<1>3. Ordered => RecordsFollow BY DEF Ordered
<1> QED BY <1>1, <1>2, <1>3, PTL DEF Spec

-----------------------------------------------------------------------------
(* What is left behind.  A record that nothing points to was let go of by a   *)
(* step that is named: what a task reads it holds until it is done (Tends),   *)
(* and a tombstone that a flush works on stays until its record is gone.      *)

Held == RowUris \cup tombs \cup InHand
Carrying == {"delete", "remember", "link", "unlink", "forget", "bury", "retry", "clear"}
Replacing == {"remember", "link", "unlink"}

(* A task has uris in hand only where it needs them, and while it holds    *)
(* the lock its row has the uri it read.                                   *)
Tends(t) ==
  /\ pc[t] # "link" => job[t].new = NoUri
  /\ pc[t] \notin Carrying => job[t].old = NoUri
  /\ pc[t] \in Replacing => /\ lock = t
                            /\ job[t].id \in Ids => rows[job[t].id].uri = job[t].old

TombsTended ==
  /\ dead \subseteq tombs
  /\ pc[Sync] \in {"retry", "clear"} => job[Sync].old \in tombs \ dead
  /\ pc[Sync] = "clear" => job[Sync].old \notin space

Tended == TombsTended /\ \A t \in Tasks : Tends(t)

NoneLeft == Strays' \subseteq Strays
Justified ==
  \/ NoneLeft \/ interrupts' # interrupts \/ crashes' # crashes
  \/ \E t \in Tasks : pc'[t] # pc[t] /\ MayLeave(t)

LEMMA InitTended == Init => Tended
<1>1. NoJob.old = NoUri /\ NoJob.new = NoUri BY DEF NoJob
<1>2. Init => \A t \in Tasks : pc[t] = "idle" /\ job[t] = NoJob BY DEF Init
<1>3. Init => dead = {} /\ Sync \in Tasks BY DEF Init, Tasks
<1> QED BY <1>1, <1>2, <1>3 DEF Tended, Tends, TombsTended, Carrying, Replacing

LEMMA HeldBy ==
  \A u : u \in Held <=> \/ u \in RowUris \/ u \in tombs
                        \/ \E t \in Tasks : u = job[t].old \/ u = job[t].new
BY DEF Held, InHand

LEMMA RowUrisAre ==
  \A u : u \in RowUris <=> u # NoUri /\ \E i \in Ids : rows[i].uri = u
BY DEF RowUris

LEMMA HeldByThen ==
  \A u : u \in Held' <=> \/ u \in RowUris' \/ u \in tombs'
                         \/ \E t \in Tasks : u = job'[t].old \/ u = job'[t].new
BY DEF Held, InHand

LEMMA RowUrisThen ==
  \A u : u \in RowUris' <=> u # NoUri /\ \E i \in Ids' : rows'[i].uri = u
BY DEF RowUris

(* The rows keep their uris, but for those that are removed and, when t    *)
(* has the lock, the row it writes.                                        *)
UrisStay(t) == lock = t \/ \A i \in Ids' : i > lastId \/ (i \in Ids /\ rows'[i].uri = rows[i].uri)

LEMMA OthersTend ==
  ASSUME TypeOK, Tended, NEW t \in Tasks, Alone(t), UrisStay(t)
  PROVE  \A s \in Tasks \ {t} : Tends(s)'
<1> SUFFICES ASSUME NEW s \in Tasks, s # t PROVE Tends(s)' OBVIOUS
<1>1. pc'[s] = pc[s] /\ job'[s] = job[s] /\ Tends(s) BY DEF Alone, Tended
<1>2. ASSUME pc[s] \in Replacing
      PROVE  lock' = s /\ (job[s].id \in Ids' => rows'[job[s].id].uri = job[s].old)
  <2>1. lock = s /\ (job[s].id \in Ids => rows[job[s].id].uri = job[s].old)
    BY <1>1, <1>2 DEF Tends
  <2>2. s # None BY EngramAssumption
  <2>3. lock' = s BY <2>1, <2>2 DEF Alone
  <2>4. job[s].id \in 0..lastId /\ lastId \in Nat
    BY TypesInParts DEF TasksTyped, Jobs, RowsTyped
  <2>5. ~(job[s].id > lastId) BY <2>4
  <2> QED BY <2>1, <2>3, <2>5 DEF UrisStay
<1> QED BY <1>1, <1>2 DEF Tends

(* The flush goes on with its tombstones, or does something else.          *)
LEMMA TombsStay ==
  ASSUME TypeOK, TombsTended, dead' \subseteq dead, tombs \subseteq tombs', space' \cap Uris \subseteq space,
         \/ pc'[Sync] \notin {"retry", "clear"}
         \/ pc'[Sync] = pc[Sync] /\ job'[Sync] = job[Sync]
  PROVE  TombsTended'
<1>1. tombs \subseteq Uris BY TypesInParts DEF SpaceTyped
<1>2. CASE pc'[Sync] \notin {"retry", "clear"} BY <1>2 DEF TombsTended
<1>3. CASE pc'[Sync] = pc[Sync] /\ job'[Sync] = job[Sync] /\ pc[Sync] \in {"retry", "clear"}
  <2>1. job[Sync].old \in tombs \ dead /\ job[Sync].old \in Uris BY <1>1, <1>3 DEF TombsTended
  <2>2. dead' \subseteq tombs' BY DEF TombsTended
  <2>3. job'[Sync].old \in tombs' \ dead' BY <1>3, <2>1
  <2>4. pc'[Sync] = "clear" => job'[Sync].old \notin space' BY <1>3, <2>1 DEF TombsTended
  <2> QED BY <2>2, <2>3, <2>4 DEF TombsTended
<1> QED BY <1>2, <1>3

(* What was held, and is there, still is; what is new is held.             *)
LEMMA NoneLetGo ==
  ASSUME NEW t \in Tasks, \A s \in Tasks \ {t} : job'[s] = job[s],
         (ours \cap space)' \subseteq (ours \cap space) \cup Held',
         \A u \in space' : u \in RowUris \cup tombs \cup {job[t].old, job[t].new} => u \in Held'
  PROVE  NoneLeft
<1> SUFFICES ASSUME NEW u \in ours' \cap space', u \notin Held' PROVE u \in ours \cap space /\ u \notin Held
  BY DEF NoneLeft, Strays, Held
<1>1. u \in ours \cap space OBVIOUS
<1>2. ASSUME u \in Held PROVE FALSE
  <2>1. PICK s \in Tasks : u = job[s].old \/ u = job[s].new BY <1>2, HeldBy
  <2>2. s # t BY <2>1
  <2>3. job'[s] = job[s] BY <2>2
  <2> QED BY <2>1, <2>3, HeldByThen
<1> QED BY <1>1, <1>2

(* One task goes on: no row loses its uri, no tombstone goes, and what the *)
(* task had in hand is somewhere or gone.                                  *)
LEMMA TaskTended ==
  ASSUME TypeOK, TypeOK', Tended, NEW t \in Tasks, Alone(t), Tends(t)',
         \A i \in Ids : i \in Ids' /\ rows'[i].uri = rows[i].uri,
         \A i \in Ids' : i > lastId \/ i \in Ids,
         (ours \cap space)' \subseteq (ours \cap space) \cup Held',
         tombs \subseteq tombs', dead' \subseteq dead, space' \cap Uris \subseteq space,
         t = Sync => pc'[t] \notin {"retry", "clear"},
         \A u \in {job[t].old, job[t].new} : u \in space' => u \in Held'
  PROVE  Tended' /\ NoneLeft
<1>1. UrisStay(t) BY DEF UrisStay
<1>2. \A s \in Tasks : Tends(s)' BY <1>1, OthersTend
<1>3. Sync \in Tasks BY DEF Tasks
<1>4. TombsTended'
  <2>1. t # Sync => pc'[Sync] = pc[Sync] /\ job'[Sync] = job[Sync] BY <1>3 DEF Alone
  <2> QED BY <2>1, TombsStay DEF Tended
<1>5. \A u \in RowUris : u \in RowUris' BY RowUrisAre, RowUrisThen
<1>6. \A u \in space' : u \in RowUris \cup tombs \cup {job[t].old, job[t].new} => u \in Held'
  BY <1>5, HeldByThen
<1>7. \A s \in Tasks \ {t} : job'[s] = job[s] BY DEF Alone
<1>8. NoneLeft BY <1>6, <1>7, NoneLetGo
<1> QED BY <1>2, <1>4, <1>8 DEF Tended

(* A task that had nothing in hand.                                        *)
LEMMA EmptyHanded ==
  ASSUME TypeOK, TypeOK', Tended, NEW t \in Tasks, pc[t] \notin Carrying
  PROVE  /\ job[t].old = NoUri /\ job[t].new = NoUri
         /\ \A u \in {job[t].old, job[t].new} : u \in space' => u \in Held'
<1>1. job[t].old = NoUri /\ job[t].new = NoUri BY DEF Tended, Tends, Carrying
<1>2. NoUri \notin space'
  <2>1. space' \subseteq Uris' BY DEF TypeOK
  <2>2. 0 \notin Uris' BY DEF Uris
  <2> QED BY <2>1, <2>2 DEF NoUri
<1> QED BY <1>1, <1>2

LEMMA NoUriThen == ASSUME TypeOK' PROVE NoUri \notin space'
<1>1. space' \subseteq Uris' BY DEF TypeOK
<1>2. 0 \notin Uris' BY DEF Uris
<1> QED BY <1>1, <1>2 DEF NoUri

(* A task that is done.                                                    *)
LEMMA EndTends ==
  ASSUME TypeOK, NEW t \in Tasks, Return(t) \/ Raise(t)
  PROVE  /\ Alone(t) /\ Tends(t)' /\ job'[t] = NoJob
         /\ pc'[t] \in {"idle", "pushes", "pull"}
<1>1. PICK place \in {"idle", "pushes", "pull"} : Move(t, place, NoJob) BY DEF Return, Raise
<1>2. TasksTyped BY TypesInParts
<1>3. pc'[t] = place /\ job'[t] = NoJob BY <1>1, <1>2, MovedTask
<1>4. NoJob.old = NoUri /\ NoJob.new = NoUri BY DEF NoJob
<1>5. Tends(t)' BY <1>3, <1>4 DEF Tends, Carrying, Replacing
<1> QED BY <1>3, <1>5, ReturnAlone

(* A task that had nothing in hand and reads something, or nothing, before *)
(* it waits for the lock or after it let go.                               *)
LEMMA SetsOut ==
  ASSUME TypeOK, NEW t \in Tasks, NEW place, NEW j, Move(t, place, j),
         lock' = lock \/ lock \in {None, t},
         place \notin Replacing, j.new = NoUri, place \notin Carrying => j.old = NoUri
  PROVE  Alone(t) /\ Tends(t)' /\ pc'[t] = place /\ job'[t] = j
<1>1. TasksTyped BY TypesInParts
<1>2. /\ pc'[t] = place /\ job'[t] = j
      /\ \A s \in Tasks \ {t} : pc'[s] = pc[s] /\ job'[s] = job[s]
  BY <1>1, MovedTask
<1>3. Tends(t)' BY <1>2 DEF Tends, Replacing
<1> QED BY <1>2, <1>3 DEF Alone

LEMMA GoesTo ==
  ASSUME TypeOK, Tended, NEW t \in Tasks, NEW place, Goto(t, place), job' = job,
         lock' = lock \/ lock \in {None, t},
         place \notin Replacing, pc[t] # "link", place \in Carrying \/ pc[t] \notin Carrying
  PROVE  Alone(t) /\ Tends(t)' /\ pc'[t] = place /\ job'[t] = job[t]
<1>1. TasksTyped BY TypesInParts
<1>2. /\ pc'[t] = place /\ job'[t] = job[t]
      /\ \A s \in Tasks \ {t} : pc'[s] = pc[s] /\ job'[s] = job[s]
  BY <1>1, WentTask
<1>3. Tends(t) BY DEF Tended
<1>4. Tends(t)' BY <1>2, <1>3 DEF Tends, Replacing
<1> QED BY <1>2, <1>4 DEF Alone

(* Nothing in the space and the tables that matters changes.               *)
LEMMA AsideTended ==
  ASSUME TypeOK, TypeOK', Tended, NEW t \in Tasks, Alone(t), Tends(t)', pc[t] \notin Carrying,
         UNCHANGED <<rows, tombs, space, ours>>, dead' \subseteq dead,
         t = Sync => pc'[t] \notin {"retry", "clear"}
  PROVE  Tended' /\ NoneLeft
<1>1. \A u \in {job[t].old, job[t].new} : u \in space' => u \in Held' BY EmptyHanded
<1>2. Ids' = Ids BY DEF Ids
<1>3. (ours \cap space)' \subseteq (ours \cap space) \cup Held' OBVIOUS
<1> QED BY <1>1, <1>2, <1>3, TaskTended

(* The steps of a task with nothing in hand.                               *)
LEMMA CallTended ==
  ASSUME TypeOK, TypeOK', Tended, NEW t \in Clients, UpdateRead(t) \/ DeleteRead(t) \/ Search(t)
  PROVE  Tended' /\ NoneLeft
<1>1. t \in Tasks /\ t # Sync BY EngramAssumption DEF Tasks
<1>2. pc[t] = "idle" /\ UNCHANGED <<rows, tombs, space, ours, dead, lock>>
  BY DEF UpdateRead, DeleteRead, Search, db, remote, history, flush
<1>3. Alone(t) /\ Tends(t)'
  <2>1. CASE UpdateRead(t)
    <3>1. PICK j : Move(t, "update", j) /\ j.new = NoUri /\ j.old = NoUri
      <4>1. PICK id, e : Move(t, "update", [NoJob EXCEPT !.id = id, !.entry = e]) BY <2>1 DEF UpdateRead
      <4> DEFINE j == [NoJob EXCEPT !.id = id, !.entry = e]
      <4>2. j.new = NoUri /\ j.old = NoUri BY DEF NoJob
      <4> QED BY <4>1, <4>2
    <3>2. "update" \notin Replacing BY DEF Replacing
    <3> QED BY <1>1, <1>2, <3>1, <3>2, SetsOut
  <2>2. CASE DeleteRead(t)
    <3>1. PICK j : Move(t, "delete", j) /\ j.new = NoUri
      <4>1. PICK id, u : Move(t, "delete", [NoJob EXCEPT !.id = id, !.old = u]) BY <2>2 DEF DeleteRead
      <4> DEFINE j == [NoJob EXCEPT !.id = id, !.old = u]
      <4>2. j.new = NoUri BY DEF NoJob
      <4> QED BY <4>1, <4>2
    <3>2. "delete" \notin Replacing /\ "delete" \in Carrying BY DEF Replacing, Carrying
    <3> QED BY <1>1, <1>2, <3>1, <3>2, SetsOut
  <2>3. CASE Search(t)
    BY <1>1, <1>2, <2>3, GoesTo DEF Search, Replacing, Carrying
  <2> QED BY <2>1, <2>2, <2>3
<1> QED BY <1>1, <1>2, <1>3, AsideTended DEF Carrying

LEMMA AddTended ==
  ASSUME TypeOK, TypeOK', Tended, NEW t \in Clients, Add(t)
  PROVE  Tended' /\ NoneLeft
<1>1. t \in Tasks /\ t # Sync BY EngramAssumption DEF Tasks
<1>2. /\ pc[t] = "idle" /\ UNCHANGED <<tombs, space, ours, dead, lock>>
      /\ lastId' = lastId + 1
  BY DEF Add, remote, history, flush
<1>3. Alone(t) /\ Tends(t)'
  <2>1. CASE Move(t, "push", [NoJob EXCEPT !.id = lastId'])
    <3>1. PICK j : Move(t, "push", j) /\ j.new = NoUri /\ j.old = NoUri
      <4> DEFINE j == [NoJob EXCEPT !.id = lastId']
      <4>1. j.new = NoUri /\ j.old = NoUri BY DEF NoJob
      <4> QED BY <2>1, <4>1
    <3>2. "push" \notin Replacing BY DEF Replacing
    <3> QED BY <1>1, <1>2, <3>1, <3>2, SetsOut
  <2>2. CASE UNCHANGED <<pc, job>>
    BY <1>1, <1>2, <2>2 DEF Alone, Tended, Tends, Replacing
  <2> QED BY <2>1, <2>2 DEF Add
<1>4. /\ \A i \in Ids : i \in Ids' /\ rows'[i].uri = rows[i].uri
      /\ \A i \in Ids' : i > lastId \/ i \in Ids
  <2>1. lastId \in Nat /\ Ids \subseteq 1..lastId BY TypesInParts DEF RowsTyped
  <2>2. Ids' = Ids \cup {lastId'} /\ \A i \in Ids : i # lastId' => rows'[i] = rows[i]
    BY DEF Add, Put, Ids
  <2>3. lastId' = lastId + 1 /\ \A i \in Ids : i # lastId' BY <1>2, <2>1
  <2> QED BY <2>1, <2>2, <2>3
<1>5. \A u \in {job[t].old, job[t].new} : u \in space' => u \in Held'
  BY <1>1, <1>2, EmptyHanded DEF Carrying
<1>6. (ours \cap space)' \subseteq (ours \cap space) \cup Held' BY <1>2
<1> QED BY <1>1, <1>2, <1>3, <1>4, <1>5, <1>6, TaskTended

LEMMA UpdateWriteTended ==
  ASSUME TypeOK, TypeOK', Tended, NEW t \in Clients, UpdateWrite(t)
  PROVE  Tended' /\ NoneLeft
<1>1. t \in Tasks /\ t # Sync BY EngramAssumption DEF Tasks
<1>2. pc[t] = "update" /\ UNCHANGED <<tombs, space, ours, dead, lock>>
  BY DEF UpdateWrite, remote, flush
<1>3. Alone(t) /\ Tends(t)'
  <2>1. PICK place \in {"replace", "idle"}, j \in {NoJob, [NoJob EXCEPT !.id = job[t].id]} : Move(t, place, j)
    BY DEF UpdateWrite
  <2>2. j.new = NoUri /\ j.old = NoUri BY DEF NoJob
  <2> QED BY <1>1, <1>2, <2>1, <2>2, SetsOut DEF Replacing
<1>4. /\ \A i \in Ids : i \in Ids' /\ rows'[i].uri = rows[i].uri
      /\ \A i \in Ids' : i > lastId \/ i \in Ids
  <2>1. RowsTyped BY TypesInParts
  <2>2. Ids' = Ids /\ \A i \in Ids : rows'[i].uri = rows[i].uri
    BY <2>1 DEF UpdateWrite, Ids, RowsTyped
  <2> QED BY <2>2
<1>5. \A u \in {job[t].old, job[t].new} : u \in space' => u \in Held'
  BY <1>1, <1>2, EmptyHanded DEF Carrying
<1>6. (ours \cap space)' \subseteq (ours \cap space) \cup Held' BY <1>2
<1> QED BY <1>1, <1>2, <1>3, <1>4, <1>5, <1>6, TaskTended

LEMMA IngestTended ==
  ASSUME TypeOK, TypeOK', Tended, NEW t \in Tasks, Ingest(t)
  PROVE  Tended' /\ NoneLeft
<1>1. pc[t] = "ingest" /\ UNCHANGED <<tombs, space, dead, lock, job>>
  BY DEF Ingest, remote, flush
<1>2. PICK uri \in found[t] :
        /\ Goto(t, IF found[t] = {uri} THEN "idle" ELSE "ingest")
        /\ IF uri \in RowUris THEN UNCHANGED <<rows, lastId, ours>>
           ELSE /\ lastId' = lastId + 1 /\ ours' = ours \cup {uri}
                /\ Put(lastId', [entry |-> records[uri], uri |-> uri])
  BY DEF Ingest
<1>3. Alone(t) /\ Tends(t)' /\ pc'[t] \notin {"retry", "clear"}
  BY <1>1, <1>2, GoesTo DEF Replacing, Carrying
<1>4. /\ \A i \in Ids : i \in Ids' /\ rows'[i].uri = rows[i].uri
      /\ \A i \in Ids' : i > lastId \/ i \in Ids
  <2>1. CASE UNCHANGED rows BY <2>1 DEF Ids
  <2>2. CASE lastId' = lastId + 1 /\ Put(lastId', [entry |-> records[uri], uri |-> uri])
    <3>1. lastId \in Nat /\ Ids \subseteq 1..lastId BY TypesInParts DEF RowsTyped
    <3>2. Ids' = Ids \cup {lastId'} /\ \A i \in Ids : i # lastId' => rows'[i] = rows[i]
      BY <2>2 DEF Put, Ids
    <3>3. lastId' = lastId + 1 BY <2>2
    <3> QED BY <3>1, <3>2, <3>3
  <2> QED BY <1>2, <2>1, <2>2
<1>5. \A u \in {job[t].old, job[t].new} : u \in space' => u \in Held'
  BY <1>1, EmptyHanded DEF Carrying
<1>6. (ours \cap space)' \subseteq (ours \cap space) \cup Held'
  <2>1. CASE uri \in RowUris BY <1>1, <1>2, <2>1
  <2>2. CASE uri \notin RowUris
    <3>1. lastId' \in Ids' /\ rows'[lastId'].uri = uri BY <1>2, <2>2 DEF Put, Ids
    <3>2. uri \in space' => uri \in Held' BY <3>1, NoUriThen, RowUrisThen, HeldByThen
    <3> QED BY <1>1, <1>2, <2>2, <3>2
  <2> QED BY <2>1, <2>2
<1> QED BY <1>1, <1>3, <1>4, <1>5, <1>6, TaskTended

(* It waits for the lock: the row's uri goes into its hands.               *)
LEMMA BeginTended ==
  ASSUME TypeOK, TypeOK', Tended, NEW t \in Tasks, BeginPush(t) \/ BeginReplace(t)
  PROVE  Tended' /\ NoneLeft
<1>1. /\ pc[t] \in {"push", "replace"} /\ lock = None /\ lock' = t
      /\ UNCHANGED <<rows, tombs, space, ours, dead>>
  BY DEF BeginPush, BeginReplace, Holds, db, remote, flush
<1>2. job[t].new = NoUri /\ job[t].old = NoUri BY <1>1, EmptyHanded DEF Carrying
<1>3. TasksTyped /\ RowsTyped BY TypesInParts
<1>4. PICK j : /\ Move(t, "remember", j) /\ j.id = job[t].id /\ j.new = NoUri
               /\ j.id \in Ids => rows[j.id].uri = j.old
  <2>1. job[t] \in Jobs BY <1>3 DEF TasksTyped
  <2>2. CASE BeginPush(t)
    <3> DEFINE j == [job[t] EXCEPT !.entry = rows[job[t].id].entry]
    <3>1. Move(t, "remember", j) BY <2>2 DEF BeginPush
    <3>2. j.id = job[t].id /\ j.new = NoUri /\ j.old = NoUri BY <1>2, <2>1 DEF Jobs
    <3>3. job[t].id \in Ids => rows[job[t].id].uri = NoUri BY <2>2 DEF BeginPush, Unpushed
    <3> QED BY <3>1, <3>2, <3>3
  <2>3. CASE BeginReplace(t)
    <3> DEFINE j == [job[t] EXCEPT !.entry = rows[job[t].id].entry, !.old = UriOf(job[t].id)]
    <3>1. Move(t, "remember", j) BY <2>3 DEF BeginReplace
    <3>2. j.id = job[t].id /\ j.new = NoUri /\ j.old = UriOf(job[t].id) BY <1>2, <2>1 DEF Jobs
    <3> QED BY <3>1, <3>2 DEF UriOf
  <2> QED BY <2>2, <2>3
<1>5. /\ pc'[t] = "remember" /\ job'[t] = j
      /\ \A s \in Tasks \ {t} : pc'[s] = pc[s] /\ job'[s] = job[s]
  BY <1>3, <1>4, MovedTask
<1>6. Alone(t) BY <1>1, <1>5 DEF Alone
<1>7. Tends(t)' BY <1>1, <1>4, <1>5 DEF Tends, Carrying, Replacing, Ids
<1> QED BY <1>1, <1>5, <1>6, <1>7, AsideTended DEF Carrying

LEMMA SkipTended ==
  ASSUME TypeOK, TypeOK', Tended, NEW t \in Tasks, SkipPush(t) \/ SkipReplace(t)
  PROVE  Tended' /\ NoneLeft
<1>1. /\ pc[t] \in {"push", "replace"} /\ Return(t)
      /\ UNCHANGED <<rows, tombs, space, ours, dead>>
  BY DEF SkipPush, SkipReplace, db, remote, history
<1> QED BY <1>1, EndTends, AsideTended DEF Carrying

(* The record it writes goes into its hands, and one that it could not     *)
(* hear of is a named reason.                                              *)
LEMMA RememberTended ==
  ASSUME TypeOK, TypeOK', Tended, NEW t \in Tasks, Remember(t)
  PROVE  Tended' /\ NoneLeft
<1>1. /\ pc[t] = "remember" /\ UNCHANGED <<rows, tombs, dead, lock>>
      /\ Move(t, "link", [job[t] EXCEPT !.new = Len(records')]) /\ Create(job[t].entry)
  BY DEF Remember, db, flush
<1>2. TasksTyped /\ SpaceTyped BY TypesInParts
<1>3. job[t] \in Jobs /\ job[t].entry \in Entries BY <1>2 DEF TasksTyped, Jobs
<1>4. /\ space' = space \cup {Len(records')} /\ ours' = ours \cup {Len(records')}
      /\ Len(records') \notin Uris /\ space \subseteq Uris
  BY <1>1, <1>2, <1>3, CreateTyped DEF SpaceTyped
<1>5. /\ pc'[t] = "link" /\ job'[t] = [job[t] EXCEPT !.new = Len(records')]
      /\ \A s \in Tasks \ {t} : pc'[s] = pc[s] /\ job'[s] = job[s]
  BY <1>1, <1>2, MovedTask
<1>6. job'[t].id = job[t].id /\ job'[t].old = job[t].old /\ job'[t].new = Len(records')
  BY <1>3, <1>5 DEF Jobs
<1>7. Tends(t) BY DEF Tended
<1>8. Alone(t) /\ Tends(t)' BY <1>1, <1>5, <1>6, <1>7 DEF Alone, Tends, Replacing, Carrying, Ids
<1>9. (ours \cap space)' \subseteq (ours \cap space) \cup Held' BY <1>4, <1>6, HeldByThen
<1>10. \A u \in {job[t].old, job[t].new} : u \in space' => u \in Held'
  <2>1. job[t].new = NoUri BY <1>1, <1>7 DEF Tends
  <2> QED BY <1>6, <2>1, NoUriThen, HeldByThen
<1>11. Ids' = Ids /\ space' \cap Uris \subseteq space BY <1>1, <1>4 DEF Ids
<1> QED BY <1>1, <1>5, <1>8, <1>9, <1>10, <1>11, TaskTended

LEMMA RememberFailsTended ==
  ASSUME TypeOK, TypeOK', Tended, NEW t \in Tasks, RememberFails(t)
  PROVE  Tended' /\ Justified
<1>1. /\ pc[t] = "remember" /\ UNCHANGED <<rows, tombs, dead>>
      /\ Create(job[t].entry) \/ UNCHANGED space
      /\ IF job[t].old = NoUri THEN Raise(t) ELSE Move(t, "unlink", job[t]) /\ UNCHANGED lock
  BY DEF RememberFails, db, flush, remote
<1>2. TasksTyped /\ SpaceTyped BY TypesInParts
<1>3. space' \cap Uris \subseteq space
  <2>1. job[t].entry \in Entries BY <1>2 DEF TasksTyped, Jobs
  <2>2. CASE Create(job[t].entry) BY <1>2, <2>1, <2>2, CreateTyped
  <2> QED BY <1>1, <2>2
<1>4. Tends(t) BY DEF Tended
<1>5. Alone(t) /\ Tends(t)' /\ pc'[t] \in {"idle", "pushes", "pull", "unlink"}
  <2>1. CASE Raise(t) BY <2>1, EndTends
  <2>2. CASE Move(t, "unlink", job[t]) /\ UNCHANGED lock
    <3>1. /\ pc'[t] = "unlink" /\ job'[t] = job[t]
          /\ \A s \in Tasks \ {t} : pc'[s] = pc[s] /\ job'[s] = job[s]
      BY <1>2, <2>2, MovedTask
    <3> QED BY <1>1, <1>4, <2>2, <3>1 DEF Alone, Tends, Replacing, Carrying, Ids
  <2> QED BY <1>1, <2>1, <2>2
<1>6. UrisStay(t) BY <1>1 DEF UrisStay, Ids
<1>7. TombsTended'
  <2>1. Sync \in Tasks BY DEF Tasks
  <2>2. t # Sync => pc'[Sync] = pc[Sync] /\ job'[Sync] = job[Sync] BY <1>5, <2>1 DEF Alone
  <2> QED BY <1>1, <1>3, <1>5, <2>2, TombsStay DEF Tended
<1>8. Tended' BY <1>5, <1>6, <1>7, OthersTend DEF Tended
<1>9. pc'[t] # pc[t] /\ MayLeave(t) BY <1>1, <1>5 DEF MayLeave
<1> QED BY <1>8, <1>9 DEF Justified

LEMMA LinkNewTended ==
  ASSUME TypeOK, TypeOK', Tended, NEW t \in Tasks, LinkNew(t)
  PROVE  Tended' /\ Justified
<1> DEFINE id == job[t].id  new == job[t].new  old == job[t].old
<1>1. /\ pc[t] = "link" /\ UNCHANGED <<tombs, space, ours, dead>> /\ Link(id, new)
      /\ IF old = NoUri THEN Return(t)
         ELSE Move(t, "forget", [NoJob EXCEPT !.old = old]) /\ Release(t)
  BY DEF LinkNew, remote, history
<1>2. TasksTyped /\ RowsTyped BY TypesInParts
<1>3. lock = t /\ (id \in Ids => rows[id].uri = old) BY <1>1 DEF Tended, Tends, Replacing
<1>4. /\ Ids' = Ids
      /\ \A i \in Ids : rows'[i].uri = IF i = id THEN new ELSE rows[i].uri
  BY <1>1, <1>2 DEF Link, RowsTyped, Ids
<1>5. /\ Alone(t) /\ Tends(t)' /\ pc'[t] \in {"idle", "pushes", "pull", "forget"}
      /\ old # NoUri => job'[t].old = old
  <2>1. CASE old = NoUri BY <1>1, <2>1, EndTends
  <2>2. CASE old # NoUri
    <3> DEFINE j == [NoJob EXCEPT !.old = old]
    <3>1. Move(t, "forget", j) /\ lock' = None BY <1>1, <1>3, <2>2 DEF Release
    <3>2. j.new = NoUri /\ j.old = old BY DEF NoJob
    <3>3. "forget" \notin Replacing /\ "forget" \in Carrying BY DEF Replacing, Carrying
    <3> HIDE DEF j
    <3> QED BY <1>3, <3>1, <3>2, <3>3, SetsOut
  <2> QED BY <2>1, <2>2
<1>6. Tended'
  <2>1. \A s \in Tasks : Tends(s)' BY <1>3, <1>5, OthersTend DEF UrisStay
  <2>2. Sync \in Tasks BY DEF Tasks
  <2>3. t # Sync => pc'[Sync] = pc[Sync] /\ job'[Sync] = job[Sync] BY <1>5, <2>2 DEF Alone
  <2>4. TombsTended' BY <1>1, <1>5, <2>3, TombsStay DEF Tended
  <2> QED BY <2>1, <2>4 DEF Tended
<1>7. CASE id \notin Ids
  <2>1. pc'[t] # pc[t] /\ MayLeave(t) BY <1>1, <1>5, <1>7 DEF MayLeave
  <2> QED BY <1>6, <2>1 DEF Justified
<1>8. CASE id \in Ids
  <2>1. old \in space' => old \in Held' BY <1>5, NoUriThen, HeldByThen
  <2>2. new \in space' => new \in Held' BY <1>4, <1>8, NoUriThen, RowUrisThen, HeldByThen
  <2>3. \A u \in RowUris : u \in space' => u \in Held'
    <3> SUFFICES ASSUME NEW i \in Ids, rows[i].uri # NoUri, rows[i].uri \in space'
                 PROVE  rows[i].uri \in Held'
      BY RowUrisAre
    <3>1. CASE i = id BY <1>3, <2>1, <3>1
    <3>2. CASE i # id BY <1>4, <3>2, RowUrisThen, HeldByThen
    <3> QED BY <3>1, <3>2
  <2>4. \A s \in Tasks \ {t} : job'[s] = job[s] BY <1>5 DEF Alone
  <2>5. \A u \in tombs : u \in Held' BY <1>1, HeldByThen
  <2>6. (ours \cap space)' \subseteq (ours \cap space) \cup Held' BY <1>1
  <2>7. NoneLeft BY <2>1, <2>2, <2>3, <2>4, <2>5, <2>6, NoneLetGo
  <2> QED BY <1>6, <2>7 DEF Justified
<1> QED BY <1>7, <1>8

(* The record is linked to another row, and the old one is still the       *)
(* row's.                                                                  *)
LEMMA LinkFailsTended ==
  ASSUME TypeOK, TypeOK', Tended, NEW t \in Tasks, LinkFails(t)
  PROVE  Tended' /\ NoneLeft
<1> DEFINE id == job[t].id  new == job[t].new  old == job[t].old
<1>1. /\ pc[t] = "link" /\ UNCHANGED <<rows, tombs, space, ours, dead>> /\ Raise(t)
      /\ new \in RowUris /\ id \in Ids
  BY DEF LinkFails, remote, db
<1>2. rows[id].uri = old BY <1>1 DEF Tended, Tends, Replacing
<1>3. Ids' = Ids BY <1>1 DEF Ids
<1>4. \A u \in {old, new} : u \in space' => u \in Held'
  BY <1>1, <1>2, <1>3, NoUriThen, RowUrisAre, RowUrisThen, HeldByThen
<1>5. (ours \cap space)' \subseteq (ours \cap space) \cup Held' BY <1>1
<1> QED BY <1>1, <1>3, <1>4, <1>5, EndTends, TaskTended

LEMMA UnlinkTended ==
  ASSUME TypeOK, TypeOK', Tended, NEW t \in Tasks, Unlink(t)
  PROVE  Tended' /\ NoneLeft
<1> DEFINE id == job[t].id  old == job[t].old
<1>1. /\ pc[t] = "unlink" /\ UNCHANGED <<tombs, space, ours, dead, lock, job>>
      /\ Link(id, NoUri) /\ Goto(t, "bury")
  BY DEF Unlink, remote, history, flush
<1>2. RowsTyped BY TypesInParts
<1>3. /\ lock = t /\ (id \in Ids => rows[id].uri = old)
      /\ job[t].new = NoUri
  BY <1>1 DEF Tended, Tends, Replacing
<1>4. /\ Ids' = Ids /\ \A i \in Ids : i # id => rows'[i].uri = rows[i].uri
  BY <1>1, <1>2 DEF Link, RowsTyped, Ids
<1>5. Alone(t) /\ Tends(t)' /\ pc'[t] = "bury" /\ job'[t] = job[t]
  BY <1>1, GoesTo DEF Replacing, Carrying
<1>6. Tended'
  <2>1. \A s \in Tasks : Tends(s)' BY <1>3, <1>5, OthersTend DEF UrisStay
  <2>2. Sync \in Tasks BY DEF Tasks
  <2>3. t # Sync => pc'[Sync] = pc[Sync] /\ job'[Sync] = job[Sync] BY <1>5, <2>2 DEF Alone
  <2>4. TombsTended' BY <1>1, <1>5, <2>3, TombsStay DEF Tended
  <2> QED BY <2>1, <2>4 DEF Tended
<1>7. old \in Held' BY <1>5, HeldByThen
<1>8. \A u \in RowUris : u \in Held'
  <2> SUFFICES ASSUME NEW i \in Ids, rows[i].uri # NoUri PROVE rows[i].uri \in Held' BY RowUrisAre
  <2>1. CASE i = id BY <1>3, <1>7, <2>1
  <2>2. CASE i # id BY <1>4, <2>2, RowUrisThen, HeldByThen
  <2> QED BY <2>1, <2>2
<1>9. \A u \in tombs : u \in Held' BY <1>1, HeldByThen
<1>10. \A s \in Tasks \ {t} : job'[s] = job[s] BY <1>5 DEF Alone
<1>11. (ours \cap space)' \subseteq (ours \cap space) \cup Held' BY <1>1
<1>12. NoneLeft BY <1>3, <1>7, <1>8, <1>9, <1>10, <1>11, NoUriThen, NoneLetGo
<1> QED BY <1>6, <1>12

(* What it deletes goes from the space, into a tombstone, or stays in its  *)
(* hands.                                                                  *)
LEMMA ForgetTended ==
  ASSUME TypeOK, TypeOK', Tended, NEW t \in Tasks, Forget(t) \/ ForgetFails(t) \/ BuryOld(t)
  PROVE  Tended' /\ NoneLeft
<1> DEFINE old == job[t].old
<1>1. /\ pc[t] \in {"forget", "bury"} /\ UNCHANGED <<rows, ours, dead>> /\ space' \subseteq space
      /\ tombs \subseteq tombs'
  BY DEF Forget, ForgetFails, BuryOld, Bury, db, remote, history, flush
<1>2. job[t].new = NoUri BY <1>1 DEF Tended, Tends
<1>3. Alone(t) /\ Tends(t)' /\ pc'[t] \in {"idle", "pushes", "pull", "bury"}
  <2>1. CASE Forget(t) \/ BuryOld(t) BY <2>1, EndTends DEF Forget, BuryOld
  <2>2. CASE ForgetFails(t) BY <2>2, GoesTo DEF ForgetFails, Replacing, Carrying
  <2> QED BY <2>1, <2>2
<1>4. old \in space' => old \in Held'
  <2>1. CASE Forget(t) BY <2>1 DEF Forget
  <2>2. CASE ForgetFails(t)
    <3>1. job' = job BY <2>2 DEF ForgetFails
    <3> QED BY <3>1, HeldByThen
  <2>3. CASE BuryOld(t)
    <3>1. old \in tombs' BY <2>3 DEF BuryOld, Bury
    <3> QED BY <3>1, HeldByThen
  <2> QED BY <2>1, <2>2, <2>3
<1>5. Ids' = Ids BY <1>1 DEF Ids
<1>6. (ours \cap space)' \subseteq (ours \cap space) \cup Held' BY <1>1
<1> QED BY <1>1, <1>2, <1>3, <1>4, <1>5, <1>6, NoUriThen, TaskTended

(* A delete takes over the uri it read, and another one is a named reason. *)
LEMMA DeleteWriteTended ==
  ASSUME TypeOK, TypeOK', Tended, NEW t \in Clients, DeleteWrite(t)
  PROVE  Tended' /\ Justified
<1> DEFINE id == job[t].id  old == job[t].old
<1>1. t \in Tasks /\ t # Sync BY EngramAssumption DEF Tasks
<1>2. /\ pc[t] = "delete" /\ UNCHANGED <<tombs, space, ours, dead, lock>>
      /\ rows' = Restrict(rows, Ids \ {id})
      /\ IF id \in Ids /\ old # NoUri THEN Move(t, "forget", [NoJob EXCEPT !.old = old])
                                      ELSE Move(t, "idle", NoJob)
  BY DEF DeleteWrite, remote, history, flush
<1>3. Ids' = Ids \ {id} /\ \A i \in Ids' : rows'[i].uri = rows[i].uri
  BY <1>2 DEF Restrict, Ids
<1>4. job[t].new = NoUri BY <1>1, <1>2 DEF Tended, Tends
<1>5. /\ Alone(t) /\ Tends(t)' /\ pc'[t] \in {"forget", "idle"}
      /\ id \in Ids /\ old # NoUri => job'[t].old = old
  <2>1. CASE id \in Ids /\ old # NoUri
    <3> DEFINE j == [NoJob EXCEPT !.old = old]
    <3>1. Move(t, "forget", j) BY <1>2, <2>1
    <3>2. j.new = NoUri /\ j.old = old BY DEF NoJob
    <3>3. "forget" \notin Replacing /\ "forget" \in Carrying BY DEF Replacing, Carrying
    <3> HIDE DEF j
    <3> QED BY <1>1, <1>2, <3>1, <3>2, <3>3, SetsOut
  <2>2. CASE ~(id \in Ids /\ old # NoUri)
    <3>1. NoJob.new = NoUri /\ NoJob.old = NoUri BY DEF NoJob
    <3>2. "idle" \notin Replacing BY DEF Replacing
    <3> QED BY <1>1, <1>2, <2>2, <3>1, <3>2, SetsOut
  <2> QED BY <2>1, <2>2
<1>6. Tended'
  <2>1. UrisStay(t) BY <1>3 DEF UrisStay
  <2>2. \A s \in Tasks : Tends(s)' BY <1>1, <1>5, <2>1, OthersTend
  <2>3. pc'[Sync] = pc[Sync] /\ job'[Sync] = job[Sync] BY <1>1, <1>5 DEF Alone, Tasks
  <2>4. TombsTended' BY <1>2, <2>3, TombsStay DEF Tended
  <2> QED BY <2>2, <2>4 DEF Tended
<1>7. CASE old # UriOf(id)
  <2>1. pc'[t] # pc[t] /\ MayLeave(t) BY <1>2, <1>5, <1>7 DEF MayLeave
  <2> QED BY <1>1, <1>6, <2>1 DEF Justified
<1>8. CASE old = UriOf(id)
  <2>1. old \in space' => old \in Held'
    <3>1. old # NoUri => id \in Ids BY <1>8 DEF UriOf
    <3> QED BY <1>1, <1>5, <3>1, NoUriThen, HeldByThen
  <2>2. \A u \in RowUris : u \in space' => u \in Held'
    <3> SUFFICES ASSUME NEW i \in Ids, rows[i].uri # NoUri, rows[i].uri \in space'
                 PROVE  rows[i].uri \in Held'
      BY RowUrisAre
    <3>1. CASE i = id BY <1>8, <2>1, <3>1 DEF UriOf
    <3>2. CASE i # id BY <1>3, <3>2, RowUrisThen, HeldByThen
    <3> QED BY <3>1, <3>2
  <2>3. \A u \in tombs : u \in Held' BY <1>2, HeldByThen
  <2>4. \A s \in Tasks \ {t} : job'[s] = job[s] BY <1>5 DEF Alone
  <2>5. (ours \cap space)' \subseteq (ours \cap space) \cup Held' BY <1>2
  <2>6. NoneLeft BY <1>1, <1>4, <2>1, <2>2, <2>3, <2>4, <2>5, NoUriThen, NoneLetGo
  <2> QED BY <1>6, <2>6 DEF Justified
<1> QED BY <1>7, <1>8

-----------------------------------------------------------------------------
(* The flush: its tombstones, and what is left of them. *)

LEMMA FlushAside ==
  ASSUME TypeOK, TypeOK', Tended, StartFlush \/ ListUnpushed \/ RetryPush \/ Pull
  PROVE  Tended' /\ NoneLeft
<1>1. Sync \in Tasks BY DEF Tasks
<1>2. /\ pc[Sync] \in {"idle", "deletes", "pushes", "pull", "list"}
      /\ UNCHANGED <<rows, tombs, space, ours, lock>>
  BY DEF StartFlush, ListUnpushed, RetryPush, Pull, ReadKnown, List, ListFails, db, remote, history
<1>3. /\ Alone(Sync) /\ Tends(Sync)'
      /\ pc'[Sync] \in {"deletes", "pushes", "push", "list", "idle", "ingest"}
  <2>1. CASE RetryPush
    <3>1. PICK j : Move(Sync, "push", j) /\ j.new = NoUri /\ j.old = NoUri
      <4>1. PICK id : Move(Sync, "push", [NoJob EXCEPT !.id = id]) BY <2>1 DEF RetryPush
      <4> DEFINE j == [NoJob EXCEPT !.id = id]
      <4>2. j.new = NoUri /\ j.old = NoUri BY DEF NoJob
      <4> QED BY <4>1, <4>2
    <3>2. "push" \notin Replacing BY DEF Replacing
    <3> QED BY <1>1, <1>2, <3>1, <3>2, SetsOut
  <2>2. CASE StartFlush \/ ListUnpushed \/ Pull
    <3>1. /\ job' = job
          /\ \E place \in {"deletes", "pushes", "list", "idle", "ingest"} : Goto(Sync, place)
      BY <2>2 DEF StartFlush, ListUnpushed, Pull, ReadKnown, List, ListFails
    <3>2. pc[Sync] # "link" /\ pc[Sync] \notin Carrying BY <1>2 DEF Carrying
    <3>3. \A place \in {"deletes", "pushes", "list", "idle", "ingest"} : place \notin Replacing
      BY DEF Replacing
    <3> QED BY <1>1, <1>2, <3>1, <3>2, <3>3, GoesTo
  <2> QED BY <2>1, <2>2
<1>4. CASE dead' \subseteq dead
  BY <1>1, <1>2, <1>3, <1>4, AsideTended DEF Carrying
<1>5. CASE StartFlush
  <2>1. \A s \in Tasks : Tends(s)'
    <3>1. UrisStay(Sync) BY <1>2 DEF UrisStay, Ids
    <3> QED BY <1>1, <1>3, <3>1, OthersTend
  <2>2. TombsTended' BY <1>2, <1>3, <1>5 DEF StartFlush, TombsTended
  <2>3. job' = job BY <1>5 DEF StartFlush
  <2>4. NoneLeft
    <3>1. RowUris' = RowUris /\ InHand' = InHand BY <1>2, <2>3 DEF RowUris, InHand, Ids
    <3> QED BY <1>2, <3>1 DEF NoneLeft, Strays
  <2> QED BY <2>1, <2>2, <2>4 DEF Tended
<1>6. CASE ListUnpushed \/ RetryPush \/ Pull
  <2>1. dead' \subseteq dead
    BY <1>6 DEF ListUnpushed, RetryPush, Pull, ReadKnown, List, ListFails, flush
  <2> QED BY <1>4, <2>1
<1> QED BY <1>5, <1>6

LEMMA RetryDeleteTended ==
  ASSUME TypeOK, TypeOK', Tended, RetryDelete
  PROVE  Tended' /\ NoneLeft
<1>1. Sync \in Tasks BY DEF Tasks
<1>2. PICK uri \in dead : Move(Sync, "retry", [NoJob EXCEPT !.old = uri]) /\ dead' = dead \ {uri}
  BY DEF RetryDelete
<1>3. /\ pc[Sync] = "deletes" /\ lock = None /\ UNCHANGED <<rows, tombs, space, ours>>
  BY DEF RetryDelete, Holds, db, remote, history
<1>4. /\ Alone(Sync) /\ Tends(Sync)' /\ pc'[Sync] = "retry" /\ job'[Sync].old = uri
  <2> DEFINE j == [NoJob EXCEPT !.old = uri]
  <2>1. j.new = NoUri /\ j.old = uri BY DEF NoJob
  <2>2. "retry" \notin Replacing /\ "retry" \in Carrying BY DEF Replacing, Carrying
  <2>3. Move(Sync, "retry", j) BY <1>2
  <2> HIDE DEF j
  <2> QED BY <1>1, <1>3, <2>1, <2>2, <2>3, SetsOut
<1>5. TombsTended' BY <1>2, <1>3, <1>4 DEF Tended, TombsTended
<1>6. UrisStay(Sync) BY <1>3 DEF UrisStay, Ids
<1>7. \A s \in Tasks : Tends(s)' BY <1>1, <1>4, <1>6, OthersTend
<1>8. \A u \in space' : u \in RowUris \cup tombs \cup {job[Sync].old, job[Sync].new} => u \in Held'
  <2>1. RowUris' = RowUris BY <1>3 DEF RowUris, Ids
  <2>2. \A u \in {job[Sync].old, job[Sync].new} : u \in space' => u \in Held'
    BY <1>1, <1>3, EmptyHanded DEF Carrying
  <2> QED BY <1>3, <2>1, <2>2, HeldByThen
<1>9. NoneLeft BY <1>1, <1>3, <1>4, <1>8, NoneLetGo DEF Alone
<1> QED BY <1>5, <1>7, <1>9 DEF Tended

(* The record of the tombstone is gone, or it stays where it was; and so   *)
(* does the tombstone until the record is gone.                            *)
LEMMA RetryTended ==
  ASSUME TypeOK, TypeOK', Tended, RetrySucceeds \/ RetryFails \/ ClearTombstone
  PROVE  Tended' /\ NoneLeft
<1> DEFINE old == job[Sync].old
<1>1. Sync \in Tasks BY DEF Tasks
<1>2. /\ pc[Sync] \in {"retry", "clear"} /\ UNCHANGED <<rows, ours, dead>> /\ space' \subseteq space
      /\ lock' = lock \/ lock' = IF lock = Sync THEN None ELSE lock
  BY DEF RetrySucceeds, RetryFails, ClearTombstone, db, remote, history, flush, Release
<1>3. job[Sync].new = NoUri BY <1>1, <1>2 DEF Tended, Tends
<1>4. old \in tombs \ dead /\ dead \subseteq tombs BY <1>2 DEF Tended, TombsTended
<1>5. /\ Alone(Sync) /\ Tends(Sync)'
      /\ \/ pc'[Sync] = "clear" /\ job'[Sync] = job[Sync] /\ RetrySucceeds
         \/ pc'[Sync] \in {"deletes", "pull"}
  <2>1. CASE RetrySucceeds
    BY <1>1, <1>2, <2>1, GoesTo DEF RetrySucceeds, Replacing, Carrying
  <2>2. CASE RetryFails \/ ClearTombstone
    <3>1. PICK place \in {"deletes", "pull"} : Move(Sync, place, NoJob)
      BY <2>2 DEF RetryFails, ClearTombstone
    <3>2. NoJob.new = NoUri /\ NoJob.old = NoUri /\ place \notin Replacing BY DEF NoJob, Replacing
    <3>3. lock' = lock \/ lock \in {None, Sync} BY <1>2
    <3> QED BY <1>1, <3>1, <3>2, <3>3, SetsOut
  <2> QED BY <2>1, <2>2
<1>6. tombs' = tombs \/ (tombs' = tombs \ {old} /\ old \notin space /\ pc'[Sync] \in {"deletes", "pull"})
  BY <1>1, <1>5 DEF RetrySucceeds, RetryFails, ClearTombstone, db, Tended, TombsTended
<1>7. TombsTended'
  <2>1. dead' \subseteq tombs' BY <1>2, <1>4, <1>6
  <2>2. pc'[Sync] = "clear" => job'[Sync].old \in tombs' \ dead' /\ job'[Sync].old \notin space'
    BY <1>2, <1>4, <1>5, <1>6 DEF RetrySucceeds
  <2> QED BY <1>5, <2>1, <2>2 DEF TombsTended
<1>8. UrisStay(Sync) BY <1>2 DEF UrisStay, Ids
<1>9. \A s \in Tasks : Tends(s)' BY <1>1, <1>5, <1>8, OthersTend
<1>10. \A u \in tombs : u \in space' => u \in Held' BY <1>2, <1>6, HeldByThen
<1>11. \A u \in RowUris : u \in Held'
  <2>1. RowUris' = RowUris BY <1>2 DEF RowUris, Ids
  <2> QED BY <2>1, HeldByThen
<1>12. (ours \cap space)' \subseteq (ours \cap space) \cup Held' BY <1>2
<1>13. \A s \in Tasks \ {Sync} : job'[s] = job[s] BY <1>5 DEF Alone
<1>14. NoneLeft BY <1>1, <1>3, <1>4, <1>10, <1>11, <1>12, <1>13, NoUriThen, NoneLetGo
<1> QED BY <1>7, <1>9, <1>14 DEF Tended

LEMMA StillTended ==
  ASSUME Tended, UNCHANGED <<rows, tombs, space, ours, dead, pc, job, lock>>
  PROVE  Tended' /\ NoneLeft
<1>1. \A t \in Tasks : Tends(t)' BY DEF Tended, Tends, Ids
<1>2. TombsTended' BY DEF Tended, TombsTended
<1>3. RowUris' = RowUris /\ InHand' = InHand BY DEF RowUris, InHand, Ids
<1> QED BY <1>1, <1>2, <1>3 DEF Tended, NoneLeft, Strays

(* A task that is cancelled, or all of them, leave what they had in hand.  *)
LEMMA InterruptTended ==
  ASSUME TypeOK, TypeOK', Tended, NEW t \in Tasks, Interrupt(t)
  PROVE  Tended' /\ Justified
<1>1. Raise(t) /\ UNCHANGED <<rows, tombs, space, dead>> /\ interrupts' = interrupts + 1
  BY DEF Interrupt, db, remote
<1>2. Alone(t) /\ Tends(t)' /\ pc'[t] \in {"idle", "pushes", "pull"} BY <1>1, EndTends
<1>3. UrisStay(t) BY <1>1 DEF UrisStay, Ids
<1>4. TombsTended'
  <2>1. Sync \in Tasks BY DEF Tasks
  <2>2. t # Sync => pc'[Sync] = pc[Sync] /\ job'[Sync] = job[Sync] BY <1>2, <2>1 DEF Alone
  <2> QED BY <1>1, <1>2, <2>2, TombsStay DEF Tended
<1>5. interrupts' # interrupts BY <1>1 DEF TypeOK
<1> QED BY <1>2, <1>3, <1>4, <1>5, OthersTend DEF Tended, Justified

LEMMA CrashTended ==
  ASSUME TypeOK, Tended, Crash
  PROVE  Tended' /\ Justified
<1>1. NoJob.old = NoUri /\ NoJob.new = NoUri BY DEF NoJob
<1>2. \A t \in Tasks : pc'[t] = "idle" /\ job'[t] = NoJob BY DEF Crash
<1>3. dead' = {} /\ Sync \in Tasks BY DEF Crash, Tasks
<1>4. Tended' BY <1>1, <1>2, <1>3 DEF Tended, Tends, TombsTended, Carrying, Replacing
<1>5. crashes' # crashes BY DEF Crash, TypeOK
<1> QED BY <1>4, <1>5 DEF Justified

LEMMA TendedStep == TypeOK /\ TypeOK' /\ Tended /\ [Next]_vars => Tended' /\ Justified
<1> SUFFICES ASSUME TypeOK, TypeOK', Tended, [Next]_vars PROVE Tended' /\ Justified OBVIOUS
<1>1. \A t \in Clients : t \in Tasks BY DEF Tasks
<1>2. Sync \in Tasks BY DEF Tasks
<1>3. ASSUME NEW t \in Tasks, Push(t) PROVE Tended' /\ Justified
  BY <1>3, BeginTended, SkipTended, RememberTended, RememberFailsTended, LinkNewTended,
     LinkFailsTended
  DEF Push, Justified
<1>4. ASSUME NEW t \in Clients, Write(t) PROVE Tended' /\ Justified
  BY <1>1, <1>4, UpdateWriteTended, DeleteWriteTended, BeginTended, SkipTended, UnlinkTended,
     ForgetTended
  DEF Write, Justified
<1>5. ASSUME NEW t \in Clients, Call(t) PROVE Tended' /\ Justified
  BY <1>5, AddTended, CallTended DEF Call, Justified
<1>6. ASSUME NEW t \in Tasks, Ingest(t) PROVE Tended' /\ Justified
  BY <1>6, IngestTended DEF Justified
<1>7. CASE Connect \/ UNCHANGED vars
  BY <1>7, StillTended DEF Connect, vars, db, remote, history, flush, Justified
<1>8. CASE Flush \/ Pull
  BY <1>8, FlushAside, RetryDeleteTended, RetryTended DEF Flush, Justified
<1>9. CASE SyncStep BY <1>2, <1>3, <1>6, <1>7, <1>8, <1>9 DEF SyncStep
<1>10. CASE \E t \in Clients : Call(t) \/ ClientStep(t)
  BY <1>1, <1>3, <1>4, <1>5, <1>6, <1>10 DEF ClientStep
<1>11. CASE \E t \in Tasks : Interrupt(t) BY <1>11, InterruptTended
<1>12. CASE Crash BY <1>12, CrashTended
<1> QED BY <1>7, <1>9, <1>10, <1>11, <1>12 DEF Next

(* Whatever fails and however pushes, deletes and flushes come between     *)
(* each other, a record of this machine that nothing points to any more    *)
(* was left by a cancelled push, a crash, an answer that was lost, or a    *)
(* row that was deleted or deleted under another uri (engram.py:166-195,   *)
(* store.py:231-254).                                                      *)
THEOREM LeftForAReason == Spec => StraysHaveReasons
<1>1. Init => TypeOK /\ Tended BY InitTypes, InitTended
<1>2. TypeOK /\ Tended /\ [Next]_vars => (TypeOK /\ Tended)' BY TypesStep, TendedStep
<1>3. TypeOK /\ Tended /\ [Next]_vars =>
        [\/ Strays' \subseteq Strays
         \/ interrupts' # interrupts \/ crashes' # crashes
         \/ \E t \in Tasks : pc'[t] # pc[t] /\ MayLeave(t)]_vars
  BY TypesStep, TendedStep DEF Justified, NoneLeft
<1> QED BY <1>1, <1>2, <1>3, PTL DEF Spec, StraysHaveReasons

=============================================================================

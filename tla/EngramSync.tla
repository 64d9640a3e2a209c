----------------------------- MODULE EngramSync -----------------------------
(***************************************************************************)
(* Long-term memory and the space that mirrors it: the rows of             *)
(* memory_entries (src/src/memory/store.py), the records of an Engram      *)
(* space, and what keeps them in step (src/src/memory/engram.py): a push   *)
(* after each write, and a task that retries and reads back.               *)
(*                                                                         *)
(* Only the entries that belong in the space are here, those of types      *)
(* episodic and factual.  A record never changes: an update writes a new   *)
(* one and deletes the old, in either order with whatever else happens,    *)
(* since every await is a place where another task may run.                *)
(*                                                                         *)
(* The space answers, or fails having done what was asked or not.  Writes  *)
(* to the local store succeed and are atomic (module ChatHistory is about  *)
(* those that do not).  Another machine of the same account may have       *)
(* written records before; it does not delete any.                         *)
(***************************************************************************)
EXTENDS Integers, Sequences, Functions

CONSTANTS
  Clients,        \* tasks of the tools and of the web API
  Sync,           \* the task of EngramSync.run
  None,           \* no holder of the lock
  Fields,         \* what an update may give: the content, the metadata
  Pasts,          \* what may be in the space at the start, and how much of it here
  MaxConsecutiveFailures,
  MaxEvents,      \* bound: calls of the clients and troubles together
  MaxTroubles     \* bound: failures of the space, interrupted tasks, restarts

Entries == [Fields -> Nat]   \* each field as the number of the call that gave it
NoUri == 0                   \* a row that is not pushed: engram_uri IS NULL
Tasks == Clients \cup {Sync}

ASSUME EngramAssumption ==
  /\ Sync \notin Clients /\ None \notin Tasks
  /\ \A p \in Pasts : /\ p.records \in Seq(Entries)
                      /\ p.linked \in 0..Len(p.records)
                      /\ p.tombs \subseteq (p.linked + 1)..Len(p.records)
  /\ MaxConsecutiveFailures \in Nat \ {0}
  /\ MaxEvents \in Nat /\ MaxTroubles \in Nat

VARIABLES
  rows,       \* memory_entries: id -> [entry, uri]
  lastId,     \* AUTOINCREMENT: ids are not used again
  tombs,      \* engram_tombstones
  records,    \* every record ever written to the space; its uri is its place
  space,      \* the uris of those that are there
  connected,  \* the store has its EngramSync
  lock,       \* who holds EngramSync._lock
  pc, job,    \* where each task is, and what it has read
  found,      \* records a task has read from the space and will ingest
  dead, todo, \* what is left of a flush: tombstones, unpushed ids
  fails,      \* its failures in a row
  known,      \* the uris a pull knows
  ours,       \* history: uris this machine has written or ingested
  again,      \* history: those of them it ingested after that
  dropped,    \* history: rows whose update was given up on the way to the space
  calls, failures, interrupts, crashes

db == <<rows, lastId, tombs>>
remote == <<records, space>>
flush == <<dead, todo, fails>>
history == <<ours, again, dropped>>
limits == <<calls, failures, interrupts, crashes>>
vars == <<db, remote, connected, lock, pc, job, found, flush, known, history, limits>>

Blank == [f \in Fields |-> 0]
NoJob == [id |-> 0, entry |-> Blank, old |-> NoUri, new |-> NoUri]

Ids == DOMAIN rows
UriOf(id) == IF id \in Ids THEN rows[id].uri ELSE NoUri
RowUris == {rows[i].uri : i \in Ids} \ {NoUri}
Unpushed == {i \in Ids : rows[i].uri = NoUri}

Init ==
  /\ \E p \in Pasts :
       /\ records = p.records /\ space = DOMAIN records
       /\ tombs = p.tombs
       /\ lastId = p.linked /\ ours = 1..lastId \cup tombs
       /\ rows = [i \in 1..lastId |-> [entry |-> records[i], uri |-> i]]
  /\ connected = FALSE /\ lock = None
  /\ pc = [t \in Tasks |-> "idle"] /\ job = [t \in Tasks |-> NoJob]
  /\ found = [t \in Tasks |-> {}]
  /\ dead = {} /\ todo = {} /\ fails = 0 /\ known = {}
  /\ again = {} /\ dropped = {}
  /\ calls = 0 /\ failures = 0 /\ interrupts = 0 /\ crashes = 0

Goto(t, place) == pc' = [pc EXCEPT ![t] = place]
Move(t, place, j) == Goto(t, place) /\ job' = [job EXCEPT ![t] = j]
Release(t) == lock' = IF lock = t THEN None ELSE lock

(* The call of a client is over; a push of the flush is, one way or the    *)
(* other, and after enough failures in a row so is the flush.              *)
Return(t) ==
  /\ Move(t, IF t = Sync THEN "pushes" ELSE "idle", NoJob)
  /\ fails' = IF t = Sync THEN 0 ELSE fails
  /\ Release(t)

Raise(t) ==
  /\ fails' = IF t = Sync THEN fails + 1 ELSE fails
  /\ Move(t, IF t # Sync THEN "idle"
             ELSE IF fails' < MaxConsecutiveFailures THEN "pushes" ELSE "pull", NoJob)
  /\ Release(t)

-----------------------------------------------------------------------------
(* The store's own writes. *)

Put(id, row) == rows' = [i \in Ids \cup {id} |-> IF i = id THEN row ELSE rows[i]]
Link(id, uri) == rows' = IF id \in Ids THEN [rows EXCEPT ![id].uri = uri] ELSE rows
Bury(uri) == tombs' = tombs \cup {uri}

Troubles == failures + interrupts + crashes
Called == calls + Troubles < MaxEvents /\ calls' = calls + 1
Trouble == Troubles < MaxTroubles /\ calls + Troubles < MaxEvents
UncalledLimits == UNCHANGED <<failures, interrupts, crashes>>

Add(t) ==
  /\ pc[t] = "idle" /\ Called
  /\ lastId' = lastId + 1
  /\ Put(lastId', [entry |-> [f \in Fields |-> calls'], uri |-> NoUri])
  /\ IF connected THEN Move(t, "push", [NoJob EXCEPT !.id = lastId'])
                  ELSE UNCHANGED <<pc, job>>
  /\ UncalledLimits
  /\ UNCHANGED <<tombs, remote, connected, lock, found, flush, known, history>>

(* The fields that are not given are written back as they were read. *)
UpdateRead(t) ==
  /\ pc[t] = "idle" /\ Called
  /\ \E id \in Ids, given \in (SUBSET Fields) \ {{}} :
       Move(t, "update",
            [NoJob EXCEPT !.id = id,
               !.entry = [f \in Fields |-> IF f \in given THEN calls'
                                           ELSE rows[id].entry[f]]])
  /\ UncalledLimits
  /\ UNCHANGED <<db, remote, connected, lock, found, flush, known, history>>

UpdateWrite(t) ==
  /\ pc[t] = "update"
  /\ LET id == job[t].id IN
       /\ rows' = IF id \in Ids THEN [rows EXCEPT ![id].entry = job[t].entry] ELSE rows
       /\ IF connected THEN /\ Move(t, "replace", [NoJob EXCEPT !.id = id])
                            /\ UNCHANGED dropped
                       ELSE /\ Move(t, "idle", NoJob)
                            /\ dropped' = dropped \cup {id}
  /\ UNCHANGED <<lastId, tombs, remote, connected, lock, found, flush, known,
                 ours, again, limits>>

(* Without a connection the uri is not even read. *)
DeleteRead(t) ==
  /\ pc[t] = "idle" /\ Called
  /\ \E id \in Ids :
       Move(t, "delete",
            [NoJob EXCEPT !.id = id, !.old = IF connected THEN UriOf(id) ELSE NoUri])
  /\ UncalledLimits
  /\ UNCHANGED <<db, remote, connected, lock, found, flush, known, history>>

DeleteWrite(t) ==
  /\ pc[t] = "delete"
  /\ LET id == job[t].id
         old == job[t].old IN
       /\ rows' = Restrict(rows, Ids \ {id})
       /\ IF id \in Ids /\ old # NoUri
          THEN Move(t, "forget", [NoJob EXCEPT !.old = old])
          ELSE Move(t, "idle", NoJob)
  /\ UNCHANGED <<lastId, tombs, remote, connected, lock, found, flush, known,
                 history, limits>>

-----------------------------------------------------------------------------
(* A push (_push_id) and a replacement (_replace), both under the lock.    *)

Holds(t) == lock = None /\ lock' = t

BeginPush(t) ==
  /\ pc[t] = "push" /\ Holds(t)
  /\ job[t].id \in Unpushed
  /\ Move(t, "remember", [job[t] EXCEPT !.entry = rows[job[t].id].entry])
  /\ dropped' = dropped \ {job[t].id}
  /\ UNCHANGED <<db, remote, connected, found, flush, known, ours, again, limits>>

(* Pushed or deleted by now. *)
SkipPush(t) ==
  /\ pc[t] = "push" /\ lock = None
  /\ job[t].id \notin Unpushed
  /\ Return(t)
  /\ UNCHANGED <<db, remote, connected, found, dead, todo, known, history, limits>>

(* Mutant: the lock is not awaited. *)
BeginReplaceUnlocked(t) ==
  /\ pc[t] = "replace" /\ UNCHANGED lock
  /\ UriOf(job[t].id) # NoUri
  /\ Move(t, "remember", [job[t] EXCEPT !.entry = rows[job[t].id].entry,
                                        !.old = UriOf(job[t].id)])
  /\ dropped' = dropped \ {job[t].id}
  /\ UNCHANGED <<db, remote, connected, found, flush, known, ours, again, limits>>

BeginReplace(t) ==
  /\ pc[t] = "replace" /\ Holds(t)
  /\ UriOf(job[t].id) # NoUri
  /\ Move(t, "remember", [job[t] EXCEPT !.entry = rows[job[t].id].entry,
                                        !.old = UriOf(job[t].id)])
  /\ dropped' = dropped \ {job[t].id}
  /\ UNCHANGED <<db, remote, connected, found, flush, known, ours, again, limits>>

(* Not pushed yet: the sync will push its latest content. *)
SkipReplace(t) ==
  /\ pc[t] = "replace" /\ lock = None
  /\ UriOf(job[t].id) = NoUri
  /\ Return(t)
  /\ UNCHANGED <<db, remote, connected, found, dead, todo, known, history, limits>>

Create(entry) ==
  /\ records' = Append(records, entry)
  /\ space' = space \cup {Len(records')}
  /\ ours' = ours \cup {Len(records')}

Remember(t) ==
  /\ pc[t] = "remember"
  /\ Create(job[t].entry)
  /\ Move(t, "link", [job[t] EXCEPT !.new = Len(records')])
  /\ UNCHANGED <<db, connected, lock, found, flush, known, again, dropped, limits>>

Failed == Trouble /\ failures' = failures + 1
FailedLimits == UNCHANGED <<calls, interrupts, crashes>>

(* The call fails; the record may be there all the same. *)
RememberFails(t) ==
  /\ pc[t] = "remember" /\ Failed
  /\ Create(job[t].entry) \/ UNCHANGED <<remote, ours>>
  /\ IF job[t].old = NoUri
     THEN Raise(t)
     ELSE Move(t, "unlink", job[t]) /\ UNCHANGED <<lock, fails>>
  /\ FailedLimits
  /\ UNCHANGED <<db, connected, found, dead, todo, known, again, dropped>>

(* set_engram_uri: a row that is gone is not an error. *)

(* Mutant: the record that was replaced is left there. *)
LinkNewOnly(t) ==
  /\ pc[t] = "link"
  /\ job[t].id \in Ids => job[t].new \notin RowUris
  /\ Link(job[t].id, job[t].new)
  /\ Return(t)
  /\ UNCHANGED <<lastId, tombs, remote, connected, found, dead, todo, known,
                 history, limits>>

LinkNew(t) ==
  /\ pc[t] = "link"
  /\ job[t].id \in Ids => job[t].new \notin RowUris
  /\ Link(job[t].id, job[t].new)
  /\ IF job[t].old = NoUri
     THEN Return(t)
     ELSE /\ Move(t, "forget", [NoJob EXCEPT !.old = job[t].old])
          /\ Release(t) /\ UNCHANGED fails
  /\ UNCHANGED <<lastId, tombs, remote, connected, found, dead, todo, known,
                 history, limits>>

(* The index on engram_uri is unique, and a pull or a search has ingested  *)
(* the record meanwhile.                                                   *)
LinkFails(t) ==
  /\ pc[t] = "link"
  /\ job[t].new \in RowUris /\ job[t].id \in Ids
  /\ dropped' = IF job[t].old = NoUri THEN dropped ELSE dropped \cup {job[t].id}
  /\ Raise(t)
  /\ UNCHANGED <<db, remote, connected, found, dead, todo, known, ours, again, limits>>

(* A replacement whose record could not be written. *)

(* Mutant: the row keeps the uri of the record to be deleted. *)
UnlinkNothing(t) ==
  /\ pc[t] = "unlink"
  /\ Goto(t, "bury")
  /\ UNCHANGED <<db, remote, connected, lock, job, found, flush, known,
                 history, limits>>

Unlink(t) ==
  /\ pc[t] = "unlink"
  /\ Link(job[t].id, NoUri)
  /\ Goto(t, "bury")
  /\ UNCHANGED <<lastId, tombs, remote, connected, lock, job, found, flush, known,
                 history, limits>>

(* _forget_or_tombstone; "not found" is as good as deleted. *)
Forget(t) ==
  /\ pc[t] = "forget"
  /\ space' = space \ {job[t].old}
  /\ Return(t)
  /\ UNCHANGED <<db, records, connected, found, dead, todo, known, history, limits>>

ForgetFails(t) ==
  /\ pc[t] = "forget" /\ Failed
  /\ space' = space \ {job[t].old} \/ UNCHANGED space
  /\ Goto(t, "bury")
  /\ FailedLimits
  /\ UNCHANGED <<db, records, connected, lock, job, found, flush, known, history>>

BuryOld(t) ==
  /\ pc[t] = "bury"
  /\ Bury(job[t].old)
  /\ Raise(t)
  /\ UNCHANGED <<rows, lastId, remote, connected, found, dead, todo, known,
                 history, limits>>

-----------------------------------------------------------------------------
(* The sync task: retry the deletes, push what is not pushed, pull. *)

(* open_sync, tried until it succeeds; until then there is no flush. *)
Connect ==
  /\ ~connected /\ connected' = TRUE
  /\ UNCHANGED <<db, remote, lock, pc, job, found, flush, known, history, limits>>

StartFlush ==
  /\ connected /\ pc[Sync] = "idle"
  /\ Goto(Sync, "deletes")
  /\ dead' = tombs /\ fails' = 0
  /\ UNCHANGED <<db, remote, connected, lock, job, found, todo, known, history, limits>>

RetryDelete ==
  /\ pc[Sync] = "deletes" /\ Holds(Sync)
  /\ \E uri \in dead :
       /\ Move(Sync, "retry", [NoJob EXCEPT !.old = uri])
       /\ dead' = dead \ {uri}
  /\ UNCHANGED <<db, remote, connected, found, todo, fails, known, history, limits>>

(* "not found" is as good as deleted here too. *)

(* Mutant: a record that is not there is tried again next time. *)
RetrySucceedsOnce ==
  /\ pc[Sync] = "retry"
  /\ space' = space \ {job[Sync].old}
  /\ Release(Sync)
  /\ IF job[Sync].old \in space THEN Goto(Sync, "clear") /\ UNCHANGED job
                               ELSE Move(Sync, "deletes", NoJob)
  /\ UNCHANGED <<db, records, connected, found, flush, known, history, limits>>

RetrySucceeds ==
  /\ pc[Sync] = "retry"
  /\ space' = space \ {job[Sync].old}
  /\ Release(Sync) /\ Goto(Sync, "clear")
  /\ UNCHANGED <<db, records, connected, job, found, flush, known, history, limits>>

RetryFails ==
  /\ pc[Sync] = "retry" /\ Failed
  /\ space' = space \ {job[Sync].old} \/ UNCHANGED space
  /\ fails' = fails + 1
  /\ Move(Sync, IF fails' < MaxConsecutiveFailures THEN "deletes" ELSE "pull", NoJob)
  /\ Release(Sync)
  /\ FailedLimits
  /\ UNCHANGED <<db, records, connected, found, dead, todo, known, history>>

ClearTombstone ==
  /\ pc[Sync] = "clear"
  /\ tombs' = tombs \ {job[Sync].old}
  /\ Move(Sync, "deletes", NoJob)
  /\ UNCHANGED <<rows, lastId, remote, connected, lock, found, flush, known,
                 history, limits>>

ListUnpushed ==
  /\ pc[Sync] = "deletes" /\ dead = {}
  /\ Goto(Sync, "pushes") /\ todo' = Unpushed
  /\ UNCHANGED <<db, remote, connected, lock, job, found, dead, fails, known,
                 history, limits>>

RetryPush ==
  /\ pc[Sync] = "pushes"
  /\ \E id \in todo : /\ Move(Sync, "push", [NoJob EXCEPT !.id = id])
                      /\ todo' = todo \ {id}
  /\ UNCHANGED <<db, remote, connected, lock, found, dead, fails, known, history, limits>>

(* pull: what is here, then what is there, then one row for each that is   *)
(* there only.                                                             *)
ReadKnown ==
  /\ pc[Sync] = "pull" \/ (pc[Sync] = "pushes" /\ todo = {})
  /\ Goto(Sync, "list") /\ known' = RowUris
  /\ dead' = {} /\ todo' = {} /\ fails' = 0
  /\ UNCHANGED <<db, remote, connected, lock, job, found, history, limits>>

List ==
  /\ pc[Sync] = "list"
  /\ found' = [found EXCEPT ![Sync] = space \ known]
  /\ Goto(Sync, IF space \subseteq known THEN "idle" ELSE "ingest")
  /\ known' = {}
  /\ UNCHANGED <<db, remote, connected, lock, job, flush, history, limits>>

ListFails ==
  /\ pc[Sync] = "list" /\ Failed
  /\ Goto(Sync, "idle") /\ known' = {}
  /\ FailedLimits
  /\ UNCHANGED <<db, remote, connected, lock, job, found, flush, history>>

(* semantic_search: what it finds and has no row for, it ingests too. *)
Search(t) ==
  /\ pc[t] = "idle" /\ connected /\ Called
  /\ \E uri \in space \ RowUris : found' = [found EXCEPT ![t] = {uri}]
  /\ Goto(t, "ingest")
  /\ UncalledLimits
  /\ UNCHANGED <<db, remote, connected, lock, job, flush, known, history>>

Ingest(t) ==
  /\ pc[t] = "ingest"
  /\ \E uri \in found[t] :
       /\ found' = [found EXCEPT ![t] = @ \ {uri}]
       /\ Goto(t, IF found[t] = {uri} THEN "idle" ELSE "ingest")
       /\ lastId' = IF uri \in RowUris THEN lastId ELSE lastId + 1
       /\ IF uri \in RowUris
          THEN UNCHANGED <<rows, ours, again>>
          ELSE /\ Put(lastId', [entry |-> records[uri], uri |-> uri])
               /\ ours' = ours \cup {uri}
               /\ again' = again \cup ({uri} \cap ours)
  /\ UNCHANGED <<tombs, remote, connected, lock, job, flush, known, dropped, limits>>

-----------------------------------------------------------------------------
(* A push that takes longer than PUSH_TIMEOUT is cancelled wherever it is, *)
(* and so is a client's call when whoever made it goes away.  No handler   *)
(* of _replace or _forget_or_tombstone catches that.                       *)

Pushing == {"push", "replace", "remember", "link", "unlink", "forget", "bury"}
Cancellable == Pushing \cup {"update", "delete"}

(* An update cut off here leaves the record of its row as it was.          *)
LeavesOld(t) ==
  /\ pc[t] \in {"replace", "remember", "link", "unlink"}
  /\ pc[t] = "replace" \/ job[t].old # NoUri

Interrupt(t) ==
  /\ Trouble /\ interrupts' = interrupts + 1
  /\ pc[t] \in IF t = Sync THEN Pushing ELSE Cancellable
  /\ Raise(t)
  /\ dropped' = IF LeavesOld(t) THEN dropped \cup {job[t].id} ELSE dropped
  /\ UNCHANGED <<calls, failures, crashes>>
  /\ UNCHANGED <<db, remote, connected, found, dead, todo, known, ours, again>>

(* What a task asked of the space before it is there or not, as after      *)
(* Remember, Forget or RetrySucceeds.                                      *)
Crash ==
  /\ Trouble /\ crashes' = crashes + 1
  /\ connected' = FALSE /\ lock' = None
  /\ pc' = [t \in Tasks |-> "idle"] /\ job' = [t \in Tasks |-> NoJob]
  /\ found' = [t \in Tasks |-> {}]
  /\ dead' = {} /\ todo' = {} /\ fails' = 0 /\ known' = {}
  /\ dropped' = dropped \cup {job[t].id : t \in {u \in Tasks : LeavesOld(u)}}
  /\ UNCHANGED <<calls, failures, interrupts>>
  /\ UNCHANGED <<db, remote, ours, again>>

-----------------------------------------------------------------------------
Push(t) ==
  \/ BeginPush(t) \/ SkipPush(t)
  \/ Remember(t) \/ RememberFails(t)
  \/ LinkNew(t) \/ LinkFails(t)

Write(t) ==
  \/ UpdateWrite(t) \/ DeleteWrite(t)
  \/ BeginReplace(t) \/ SkipReplace(t) \/ Unlink(t)
  \/ Forget(t) \/ ForgetFails(t) \/ BuryOld(t)

Call(t) == Add(t) \/ UpdateRead(t) \/ DeleteRead(t) \/ Search(t)

Flush ==
  \/ StartFlush \/ RetryDelete \/ RetrySucceeds \/ RetryFails \/ ClearTombstone
  \/ ListUnpushed \/ RetryPush

Pull == ReadKnown \/ List \/ ListFails

SyncStep == Connect \/ Flush \/ Push(Sync) \/ Pull \/ Ingest(Sync)
ClientStep(t) == Push(t) \/ Write(t) \/ Ingest(t)

Next ==
  \/ SyncStep
  \/ \E t \in Clients : Call(t) \/ ClientStep(t)
  \/ \E t \in Tasks : Interrupt(t)
  \/ Crash

Spec == Init /\ [][Next]_vars

(* A task that can go on does, when the loop gets to it.  Nothing is       *)
(* assumed of the order in which the lock is handed out, nor that anybody  *)
(* calls.                                                                  *)
Fairness == WF_vars(SyncStep) /\ \A t \in Clients : WF_vars(ClientStep(t))

FairSpec == Spec /\ Fairness

-----------------------------------------------------------------------------
(* Types. *)

Uris == 1..Len(records)
Places == Cancellable \cup
  {"idle", "deletes", "retry", "clear", "pushes", "pull", "list", "ingest"}

(* The tables with their unique index, the space, the local variables of   *)
(* each task (one that deletes a record has one to delete), and a flush    *)
(* that ends at its limit of failures.                                     *)
Deleting == {"unlink", "forget", "bury", "retry", "clear"}

TypeOK ==
  /\ rows \in [Ids -> [entry : Entries, uri : Uris \cup {NoUri}]]
  /\ \A i, k \in Ids : rows[i].uri = rows[k].uri => i = k \/ rows[i].uri = NoUri
  /\ lastId \in Nat /\ Ids \subseteq 1..lastId /\ tombs \subseteq Uris
  /\ records \in Seq(Entries) /\ space \subseteq Uris
  /\ connected \in BOOLEAN /\ lock \in Tasks \cup {None}
  /\ pc \in [Tasks -> Places]
  /\ job \in [Tasks -> [id : 0..lastId, entry : Entries,
                        old : Uris \cup {NoUri}, new : Uris \cup {NoUri}]]
  /\ \A t \in Tasks : pc[t] \in Deleting => job[t].old # NoUri
  /\ found \in [Tasks -> SUBSET Uris]
  /\ dead \subseteq Uris /\ todo \subseteq 1..lastId /\ known \subseteq Uris
  /\ fails \in 0..MaxConsecutiveFailures
  /\ fails = MaxConsecutiveFailures => pc[Sync] = "pull"
  /\ ours \subseteq Uris /\ again \subseteq ours /\ dropped \subseteq 0..lastId
  /\ calls \in 0..MaxEvents
  /\ failures \in Nat /\ interrupts \in Nat /\ crashes \in Nat
  /\ Troubles <= MaxTroubles /\ calls + Troubles <= MaxEvents

-----------------------------------------------------------------------------
(* Safety *)

(* The record a row points to is in the space, whatever failed, timed out  *)
(* or crashed: no replacement, tombstone or retry deletes it (engram.py:   *)
(* 166-195, 206-212).  Only a record that was this machine's own and came  *)
(* back by a pull or a search may be deleted under the row it came back as.*)
RecordsKept ==
  \A i \in Ids : rows[i].uri \in space \cup again \cup {NoUri}

(* A record says what its row says, or the update that makes the           *)
(* difference is on its way or was given up on the way (engram.py:         *)
(* 157-184): the lock and the reads under it leave no older text behind.   *)
UpdateOnItsWay(t, id) ==
  /\ job[t].id = id
  /\ \/ pc[t] = "replace"
     \/ pc[t] \in {"remember", "link", "unlink"} /\ job[t].old # NoUri

Follows(id) ==
  \/ rows[id].uri = NoUri
  \/ records[rows[id].uri] = rows[id].entry
  \/ \E t \in Clients : UpdateOnItsWay(t, id)

RecordsFollow == \A i \in Ids \ dropped : Follows(i)

(* The records of this machine that nothing points to, neither a row nor   *)
(* a tombstone nor a task: the next pull brings them back as memories.     *)
InHand == UNION {{job[t].old, job[t].new} : t \in Tasks}
Strays == (ours \cap space) \ (RowUris \cup tombs \cup InHand)

(* A record is left behind only by a push that is cancelled, a crash, an   *)
(* answer of remember that is lost, a row deleted while it is pushed, and  *)
(* a delete that read another uri than the row has when it goes (or none,  *)
(* without a connection; store.py:231-254, engram.py:166-195).             *)
MayLeave(t) ==
  \/ pc[t] = "remember" /\ pc'[t] # "link"
  \/ pc[t] = "link" /\ job[t].id \notin Ids
  \/ pc[t] = "delete" /\ job[t].old # UriOf(job[t].id)

StraysHaveReasons ==
  [][\/ Strays' \subseteq Strays
     \/ interrupts' # interrupts \/ crashes' # crashes
     \/ \E t \in Tasks : pc'[t] # pc[t] /\ MayLeave(t)]_vars

(* What the comment on the tables says (store/store.py:208-209): deletes   *)
(* that could not reach the space wait in engram_tombstones.               *)
DeletesWait ==
  [][\A i \in Ids : i \in DOMAIN rows' \/ rows[i].uri = NoUri
       \/ rows[i].uri \in tombs' \/ \E t \in Tasks : job'[t].old = rows[i].uri]_vars

-----------------------------------------------------------------------------
(* Liveness *)

(* When the space answers again, everything unpushed is pushed and every   *)
(* tombstone cleared (engram.py:199-236).                                  *)
Settles == <>[](tombs = {} /\ Unpushed = {})

=============================================================================

----------------------------- MODULE Migrations -----------------------------
(* What is brought over from older versions when the service starts: the      *)
(* schedules of schedules.json into documents, and documents into memory      *)
(* entries.  Each import is a transaction of its own, the start may end       *)
(* between any two of them, and what was imported is then changed and deleted *)
(* while the service is up.                                                   *)
EXTENDS Naturals

CONSTANTS
  Legacy,      \* schedules of schedules.json
  Notes,       \* documents that are brought over, mcpclient: ones among them
  Managed,     \* those of customtool:, mcptoken:, mcpserver: and schedule:
  MaxEdits, MaxMishaps     \* bounds for TLC

ASSUME MigrationAssumption == Notes \cap Managed = {}

VARIABLES
  renamed,     \* schedules.json is schedules.json.migrated
  schedule,    \* documents of schedules: "none", "old" or "new"
  loaded,      \* _tasks
  entry,       \* memory entries: "none", "bare" (no embedding) or "whole"
  marked,      \* migrated_rkeys in memory_config
  stage, todo, \* where the start is, and what its loop has before it
  imports,     \* how often each document was brought over
  taken,       \* schedules of the file that have been in the store
  refused,     \* schedules of the file whose creation failed
  dropped,     \* schedules deleted and not created again
  renewed,     \* schedules changed, and not deleted since
  revived,     \* deletions or the renaming of the file failed
  edits, mishaps           \* spent so far

migrationVars == <<renamed, schedule, loaded, entry, marked, stage, todo, imports,
                   taken, refused, dropped, renewed, revived, edits, mishaps>>

Rkeys == Notes \cup Managed
Mishap == mishaps < MaxMishaps /\ mishaps' = mishaps + 1
Edit == stage = "up" /\ edits < MaxEdits /\ edits' = edits + 1
Done(x) == todo' = todo \ {x} /\ UNCHANGED stage

\* _migrate_legacy comes first when there is a file.
Boots(gone) == /\ stage' = (IF gone THEN "load" ELSE "import")
               /\ todo' = (IF gone THEN {} ELSE Legacy)
               /\ loaded' = {}

\* --------------------------------------------------------------- schedules
\* Create only: a document that is there stays as it is.
ImportSchedule(n) ==
  /\ stage = "import" /\ n \in todo
  /\ IF schedule[n] # "none" THEN UNCHANGED <<schedule, loaded>>
     ELSE /\ schedule' = [schedule EXCEPT ![n] = "old"]
          /\ loaded' = loaded \cup {n}
  /\ taken' = taken \cup {n}
  /\ Done(n)
  /\ UNCHANGED <<renamed, entry, marked, imports, refused, dropped, renewed,
                 revived, edits, mishaps>>

\* Any other failure of an entry is logged, and the next one is tried.
ImportFails(n) ==
  /\ stage = "import" /\ n \in todo /\ Mishap
  /\ refused' = refused \cup {n}
  /\ Done(n)
  /\ UNCHANGED <<renamed, schedule, loaded, entry, marked, imports, taken,
                 dropped, renewed, revived, edits>>

\* The file is renamed whatever failed; a file that cannot be is read again at
\* the next start.
RenameFile ==
  /\ stage = "import" /\ todo = {}
  /\ \/ renamed' = TRUE /\ UNCHANGED <<revived, mishaps>>
     \/ Mishap /\ revived' = TRUE /\ UNCHANGED renamed
  /\ stage' = "load"
  /\ UNCHANGED <<schedule, loaded, entry, marked, todo, imports, taken, refused,
                 dropped, renewed, edits>>

LoadTasks ==
  /\ stage = "load"
  /\ loaded' = {n \in Legacy : schedule[n] # "none"}
  /\ stage' = "migrate"
  /\ todo' = Rkeys \ (Managed \cup marked)
  /\ UNCHANGED <<renamed, schedule, entry, marked, imports, taken, refused,
                 dropped, renewed, revived, edits, mishaps>>

\* ------------------------------------------------------------------ memory
Added(k) == /\ \E e \in {"bare", "whole"} : entry' = [entry EXCEPT ![k] = e]
            /\ imports' = [imports EXCEPT ![k] = @ + 1]

\* Mutant: the marks are kept in memory.
MigrateUnmarked(k) ==
  /\ stage = "migrate" /\ k \in todo
  /\ Added(k)
  /\ Done(k)
  /\ UNCHANGED <<renamed, schedule, loaded, marked, taken, refused, dropped,
                 renewed, revived, edits, mishaps>>

\* The entry and its mark are one transaction; an embedding that fails leaves
\* the entry without.
Migrate(k) ==
  /\ stage = "migrate" /\ k \in todo
  /\ Added(k)
  /\ marked' = marked \cup {k}
  /\ Done(k)
  /\ UNCHANGED <<renamed, schedule, loaded, taken, refused, dropped, renewed,
                 revived, edits, mishaps>>

MigrateFails(k) ==
  /\ stage = "migrate" /\ k \in todo /\ Mishap
  /\ Done(k)
  /\ UNCHANGED <<renamed, schedule, loaded, entry, marked, imports, taken,
                 refused, dropped, renewed, revived, edits>>

ListBare ==
  /\ stage = "migrate" /\ todo = {}
  /\ stage' = "embed"
  /\ todo' = {k \in Notes : entry[k] = "bare"}
  /\ UNCHANGED <<renamed, schedule, loaded, entry, marked, imports, taken, refused,
                 dropped, renewed, revived, edits, mishaps>>

Backfill(k) ==
  /\ stage = "embed" /\ k \in todo
  /\ \E e \in {"bare", "whole"} : entry' = [entry EXCEPT ![k] = e]
  /\ Done(k)
  /\ UNCHANGED <<renamed, schedule, loaded, marked, imports, taken, refused,
                 dropped, renewed, revived, edits, mishaps>>

Up ==
  /\ stage = "embed" /\ todo = {}
  /\ stage' = "up"
  /\ UNCHANGED <<renamed, schedule, loaded, entry, marked, todo, imports, taken,
                 refused, dropped, renewed, revived, edits, mishaps>>

\* -------------------------------------------------------------- while it is up
AddSchedule(n) ==
  /\ Edit /\ n \notin loaded
  /\ schedule' = [schedule EXCEPT ![n] = "new"]
  /\ loaded' = loaded \cup {n}
  /\ dropped' = dropped \ {n} /\ renewed' = renewed \cup {n}
  /\ UNCHANGED <<renamed, entry, marked, stage, todo, imports, taken, refused,
                 revived, mishaps>>

ChangeSchedule(n) ==
  /\ Edit /\ n \in loaded
  /\ schedule' = [schedule EXCEPT ![n] = "new"]
  /\ renewed' = renewed \cup {n}
  /\ UNCHANGED <<renamed, loaded, entry, marked, stage, todo, imports, taken,
                 refused, dropped, revived, mishaps>>

\* A document that cannot be deleted is logged and comes back.
DropSchedule(n) ==
  /\ Edit /\ n \in loaded
  /\ loaded' = loaded \ {n}
  /\ dropped' = dropped \cup {n} /\ renewed' = renewed \ {n}
  /\ \/ schedule' = [schedule EXCEPT ![n] = "none"] /\ UNCHANGED <<revived, mishaps>>
     \/ Mishap /\ revived' = TRUE /\ UNCHANGED schedule
  /\ UNCHANGED <<renamed, entry, marked, stage, todo, imports, taken, refused>>

\* memory.update may fail to embed the new text; memory.delete drops the row.
ChangeEntry(k) ==
  /\ Edit /\ entry[k] # "none"
  /\ \E e \in {"none", "bare", "whole"} : entry' = [entry EXCEPT ![k] = e]
  /\ UNCHANGED <<renamed, schedule, loaded, marked, stage, todo, imports, taken,
                 refused, dropped, renewed, revived, mishaps>>

\* The process stops, anywhere, and starts.
StopAndStart ==
  /\ Boots(renamed)
  /\ UNCHANGED <<renamed, schedule, entry, marked, imports, taken, refused,
                 dropped, renewed, revived, edits, mishaps>>

MigrationInit ==
  /\ renamed = FALSE /\ stage = "import" /\ todo = Legacy /\ loaded = {}
  /\ schedule \in [Legacy -> {"none", "new"}]
  /\ entry = [k \in Rkeys |-> "none"] /\ imports = [k \in Rkeys |-> 0]
  /\ marked = {} /\ taken = {} /\ refused = {} /\ dropped = {}
  /\ renewed = {n \in Legacy : schedule[n] = "new"}
  /\ revived = FALSE /\ edits = 0 /\ mishaps = 0

MigrationNext ==
  \/ \E n \in Legacy : \/ ImportSchedule(n) \/ ImportFails(n) \/ AddSchedule(n)
                       \/ ChangeSchedule(n) \/ DropSchedule(n)
  \/ \E k \in Rkeys : Migrate(k) \/ MigrateFails(k) \/ Backfill(k) \/ ChangeEntry(k)
  \/ RenameFile \/ LoadTasks \/ ListBare \/ Up \/ StopAndStart

MigrationSpec == MigrationInit /\ [][MigrationNext]_migrationVars

-----------------------------------------------------------------------------
(* Old data is brought over once, and what was done with it since stands:      *)
(* wherever a start ends and however often it is made again, no document is    *)
(* imported twice, and none of a manager; a file that was renamed had each of  *)
(* its schedules in the store, or one whose creation failed; a schedule that   *)
(* was deleted stays so, and one that was changed is not the old one again,    *)
(* but for a failed renaming of the file or a failed deletion.                 *)
BroughtOverOnce ==
  /\ \A k \in Rkeys : imports[k] <= (IF k \in Managed THEN 0 ELSE 1)
  /\ stage = "up" /\ mishaps = 0 => \A k \in Notes : imports[k] = 1
  /\ renamed => Legacy \subseteq taken \cup refused
  /\ \A n \in Legacy :
       /\ n \in dropped => (n \notin loaded /\ schedule[n] = "none") \/ revived
       /\ n \in renewed => schedule[n] = "new"

=============================================================================

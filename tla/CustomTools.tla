----------------------------- MODULE CustomTools -----------------------------
(* One tool the agent wrote, as CustomToolManager keeps it: in memory, in its  *)
(* document, and on its way there.  A change is made in memory and its text    *)
(* taken at once; the text then waits for the store's write lock, so changes   *)
(* made meanwhile are written after it, in the order they were made.  Tools of *)
(* different names share only the secrets.                                     *)
EXTENDS Naturals, Sequences

CONSTANTS
  Codes,        \* what a tool can run: code and parameters
  Secrets,      \* names the operator may give a value
  None,         \* no tool
  Shelf,        \* what the store may hold at first
  MaxChanges, MaxUpsets     \* bounds for TLC

Access == [code : Codes, net : BOOLEAN, secrets : SUBSET Secrets]
Tool == [access : Access, approved : BOOLEAN]
Changes == {"update", "approve", "revoke"}
Kinds == Changes \cup {"create", "overwrite", "delete"}

ASSUME ShelfAssumption == None \notin Tool /\ Shelf \subseteq Tool \cup {None}

VARIABLES
  tool,     \* in _tools
  doc,      \* its document
  writes,   \* what waits for the write lock
  run,      \* what the agent's latest execution was given
  known,    \* names in the secret manager
  file,     \* names in secrets.json
  agreed,   \* what the operator approved
  revoked,  \* a revocation or deletion was reported and no approval followed
  crossed,  \* a creation ended while later changes of the old tool waited
  lost,     \* a write failed
  changes, crashes

customVars == <<tool, doc, writes, run, known, file, agreed, revoked, crossed,
                lost, changes, crashes>>

\* Less of it, or the same, as what was approved.
Within(a, g) == a.code = g.code /\ (a.net => g.net) /\ a.secrets \subseteq g.secrets
Covered(a) == \E g \in agreed : Within(a, g)

Pending(a) == [access |-> a, approved |-> FALSE]
Enqueue(kind, t) == writes' = Append(writes, [kind |-> kind, tool |-> t])
Change == changes < MaxChanges /\ changes' = changes + 1

\* ------------------------------------------------------------ the agent
\* create_custom_tool; memory is changed when the document is there.
CreateTool ==
  /\ Change
  /\ \E a \in Access : Enqueue("create", Pending(a))
  /\ UNCHANGED <<tool, doc, run, known, file, agreed, revoked, crossed, lost, crashes>>

\* Mutant: a secret more is no reason.
ResetsForCode(old, new) == new.code # old.code

\* update_custom_tool: other code, or a secret more, takes the approval away.
Resets(old, new) == new.code # old.code \/ ~(new.secrets \subseteq old.secrets)

Updated(code, secrets) ==
  LET new == [tool.access EXCEPT !.code = code, !.secrets = secrets]
  IN [access |-> new, approved |-> tool.approved /\ ~Resets(tool.access, new)]

UpdateTool ==
  /\ tool # None /\ Change
  /\ \E code \in Codes, secrets \in SUBSET Secrets : tool' = Updated(code, secrets)
  /\ Enqueue("update", tool')
  /\ UNCHANGED <<doc, run, known, file, agreed, revoked, crossed, lost, crashes>>

\* Approval is looked at, and the code and secrets taken, in one step.
ExecuteTool ==
  /\ tool # None /\ tool.approved
  /\ run' = [access |-> tool.access, env |-> tool.access.secrets \cap known]
  /\ UNCHANGED <<tool, doc, writes, known, file, agreed, revoked, crossed, lost,
                 changes, crashes>>

\* --------------------------------------------------------- the operator
\* Refused while a secret of it has no value.
ApproveTool ==
  /\ tool # None /\ Change
  /\ tool.access.secrets \subseteq known
  /\ tool' = [tool EXCEPT !.approved = TRUE]
  /\ agreed' = agreed \cup {tool.access}
  /\ revoked' = FALSE
  /\ Enqueue("approve", tool')
  /\ UNCHANGED <<doc, run, known, file, crossed, lost, crashes>>

RevokeTool ==
  /\ tool # None /\ Change
  /\ tool' = [tool EXCEPT !.approved = FALSE]
  /\ Enqueue("revoke", tool')
  /\ UNCHANGED <<doc, run, known, file, agreed, revoked, crossed, lost, crashes>>

DeleteTool ==
  /\ tool # None /\ Change
  /\ Enqueue("delete", tool)
  /\ UNCHANGED <<tool, doc, run, known, file, agreed, revoked, crossed, lost, crashes>>

\* set_secret and delete_secret write the whole file, at once.
SaveSecrets ==
  /\ Change
  /\ \E s \in Secrets : known' \in {known \cup {s}, known \ {s}} \ {known}
  /\ file' = known'
  /\ UNCHANGED <<tool, doc, writes, run, agreed, revoked, crossed, lost, crashes>>

\* ------------------------------------------------------------- the store
\* A creation that finds a document tries again as an update, behind what
\* waits by then.
Conflict ==
  /\ writes # <<>> /\ Head(writes).kind = "create" /\ doc # None
  /\ writes' = Append(Tail(writes), [Head(writes) EXCEPT !.kind = "overwrite"])
  /\ UNCHANGED <<tool, doc, run, known, file, agreed, revoked, crossed, lost,
                 changes, crashes>>

Stored ==
  /\ writes # <<>> /\ Head(writes).kind \in {"create", "overwrite"}
  /\ Head(writes).kind = "create" <=> doc = None
  /\ doc' = Head(writes).tool
  /\ tool' = doc'
  /\ crossed' = (crossed \/ \E i \in 2..Len(writes) : writes[i].kind \in Changes)
  /\ writes' = Tail(writes)
  /\ UNCHANGED <<run, known, file, agreed, revoked, lost, changes, crashes>>

\* Reported, unless an approval asked for since is on its way.
Reported == revoked \/ \A i \in 2..Len(writes) : writes[i].kind # "approve"

Replaced ==
  /\ writes # <<>> /\ Head(writes).kind \in Changes
  /\ doc # None
  /\ doc' = Head(writes).tool
  /\ revoked' = (IF Head(writes).kind = "revoke" THEN Reported ELSE revoked)
  /\ writes' = Tail(writes)
  /\ UNCHANGED <<tool, run, known, file, agreed, crossed, lost, changes, crashes>>

\* Mutant: the tool stays in memory.
RemovedFromStore ==
  /\ writes # <<>> /\ Head(writes).kind = "delete"
  /\ doc' = None
  /\ revoked' = Reported
  /\ writes' = Tail(writes)
  /\ UNCHANGED <<tool, run, known, file, agreed, crossed, lost, changes, crashes>>

\* A document that is gone is reported, and a deletion goes on.
Removed ==
  /\ writes # <<>> /\ Head(writes).kind = "delete"
  /\ doc' = None
  /\ tool' = None
  /\ revoked' = Reported
  /\ writes' = Tail(writes)
  /\ UNCHANGED <<run, known, file, agreed, crossed, lost, changes, crashes>>

Missing ==
  /\ writes # <<>> /\ doc = None
  /\ Head(writes).kind \in Changes \cup {"overwrite"}
  /\ writes' = Tail(writes)
  /\ UNCHANGED <<tool, doc, run, known, file, agreed, revoked, crossed, lost,
                 changes, crashes>>

\* A write that fails leaves memory changed; a failed deletion is only logged.
WriteFails ==
  /\ writes # <<>> /\ lost + crashes < MaxUpsets /\ lost' = lost + 1
  /\ tool' = (IF Head(writes).kind = "delete" THEN None ELSE tool)
  /\ writes' = Tail(writes)
  /\ UNCHANGED <<doc, run, known, file, agreed, revoked, crossed, changes, crashes>>

\* The process dies and starts again; a file cut short while the secrets are
\* written is read as one without any.
Crash ==
  /\ lost + crashes < MaxUpsets /\ crashes' = crashes + 1
  /\ tool' = doc
  /\ writes' = <<>> /\ run' = None
  /\ file' \in {file, {}}
  /\ known' = file'
  /\ UNCHANGED <<doc, agreed, revoked, crossed, lost, changes>>

CustomInit ==
  /\ doc \in Shelf /\ tool = doc
  /\ writes = <<>> /\ run = None
  /\ known = {} /\ file = {}
  /\ agreed = {t.access : t \in {u \in {doc} \ {None} : u.approved}}
  /\ revoked = FALSE /\ crossed = FALSE
  /\ lost = 0 /\ changes = 0 /\ crashes = 0

CustomNext ==
  \/ CreateTool \/ UpdateTool \/ ExecuteTool \/ ApproveTool \/ RevokeTool
  \/ DeleteTool \/ SaveSecrets \/ Conflict \/ Stored \/ Replaced \/ Removed
  \/ Missing \/ WriteFails \/ Crash

CustomSpec == CustomInit /\ [][CustomNext]_customVars

-----------------------------------------------------------------------------
(* Type invariant.                                                             *)
CustomTypeOK ==
  /\ tool \in Tool \cup {None} /\ doc \in Tool \cup {None}
  /\ writes \in Seq([kind : Kinds, tool : Tool])
  /\ run \in [access : Access, env : SUBSET Secrets] \cup {None}
  /\ known \subseteq Secrets /\ file \subseteq Secrets
  /\ agreed \subseteq Access
  /\ revoked \in BOOLEAN /\ crossed \in BOOLEAN
  /\ lost \in Nat /\ changes \in Nat /\ crashes \in Nat

(* What the agent gets to run is what the operator approved or less of it:     *)
(* whatever edits, recreations, failed writes and restarts come between an     *)
(* approval and a run, its code is code that was approved, with no network     *)
(* access and no secret beyond those of that approval.                         *)
RunsAgreed ==
  /\ run # None => Covered(run.access) /\ run.env \subseteq run.access.secrets
  /\ tool # None /\ tool.approved => Covered(tool.access)
  /\ doc # None /\ doc.approved => Covered(doc.access)

(* A revocation or a deletion that was reported holds, over restarts too, until *)
(* the operator approves again.  The code keeps this as long as no write fails  *)
(* and no creation of the same name overtakes a change of the old tool.         *)
RevokedStays ==
  revoked =>
    /\ tool # None => ~tool.approved \/ crossed \/ lost > 0
    /\ doc # None => ~doc.approved \/ crossed \/ lost > 0

=============================================================================

-------------------------- MODULE CustomToolsProofs --------------------------
(***************************************************************************)
(* Only what the operator approved can be run, for any code, secrets and   *)
(* bounds.                                                                 *)
(***************************************************************************)
EXTENDS CustomTools, SequenceTheorems, TLAPS

Write == [kind : Kinds, tool : Tool]
Filed == /\ tool \in Tool \cup {None} /\ doc \in Tool \cup {None}
        /\ writes \in Seq(Write)
Counted == /\ lost \in Nat /\ changes \in Nat /\ crashes \in Nat
           /\ revoked \in BOOLEAN /\ crossed \in BOOLEAN
SecretsKnown == known \subseteq Secrets /\ file \subseteq Secrets
Given == /\ run \in [access : Access, env : SUBSET Secrets] \cup {None}
         /\ agreed \subseteq Access

LEMMA TypesParts == CustomTypeOK <=> Filed /\ Counted /\ SecretsKnown /\ Given
  BY DEF CustomTypeOK, Filed, Counted, SecretsKnown, Given, Write

\* What is added to the queue or taken from it.
LEMMA QueueTyped ==
  ASSUME writes \in Seq(Write)
  PROVE  /\ \A k \in Kinds, t \in Tool : Enqueue(k, t) => writes' \in Seq(Write)
         /\ writes # <<>> => /\ Head(writes) \in Write /\ Tail(writes) \in Seq(Write)
                             /\ Head(writes).tool \in Tool /\ Head(writes).kind \in Kinds
  <1>1. ASSUME NEW k \in Kinds, NEW t \in Tool, Enqueue(k, t) PROVE writes' \in Seq(Write)
    <2>1. [kind |-> k, tool |-> t] \in Write
      BY DEF Write
    <2>. QED BY <1>1, <2>1, AppendProperties DEF Enqueue
  <1>2. ASSUME writes # <<>> PROVE Head(writes) \in Write /\ Tail(writes) \in Seq(Write)
    BY <1>2, HeadTailProperties
  <1>. QED BY <1>1, <1>2 DEF Write

LEMMA PendingTyped == \A a \in Access : Pending(a) \in Tool /\ ~Pending(a).approved
  BY DEF Pending, Tool

LEMMA UpdatedTyped ==
  ASSUME tool \in Tool, NEW code \in Codes, NEW secrets \in SUBSET Secrets
  PROVE  Updated(code, secrets) \in Tool
  <1>1. [tool.access EXCEPT !.code = code, !.secrets = secrets] \in Access
    BY DEF Tool, Access
  <1>2. \A r : (tool.approved /\ ~Resets(tool.access, r)) \in BOOLEAN
    BY Zenon
  <1>. QED BY <1>1, <1>2 DEF Updated, Tool

\* A tool as it is brought up to date: its approval covers it still.
Fine(t) == t.approved => Covered(t.access)

LEMMA UpdatedFine ==
  ASSUME tool \in Tool, Fine(tool), NEW code \in Codes, NEW secrets \in SUBSET Secrets
  PROVE  Fine(Updated(code, secrets))
  <1>. DEFINE new == [tool.access EXCEPT !.code = code, !.secrets = secrets]
  <1>1. new.code = code /\ new.secrets = secrets /\ new.net = tool.access.net
    BY DEF Tool, Access
  <1>2. SUFFICES ASSUME tool.approved, ~Resets(tool.access, new) PROVE Covered(new)
    BY DEF Updated, Fine
  <1>3. PICK g \in agreed : Within(tool.access, g)
    BY <1>2 DEF Fine, Covered
  <1>4. code = tool.access.code /\ secrets \subseteq tool.access.secrets
    BY <1>1, <1>2 DEF Resets
  <1>5. Within(new, g)
    <2>. HIDE DEF new
    <2>. QED BY <1>1, <1>3, <1>4 DEF Within
  <1>. QED BY <1>5 DEF Covered

\* What a step may do to the tool, its document and what waits for the lock: put
\* in what is covered, or move what was there.
Queued == {writes[i].tool : i \in 1..Len(writes)}
Sources == {tool, doc} \cup Queued
Safe == /\ Filed /\ (\A t \in Sources \ {None} : Fine(t))
        /\ (run # None => Covered(run.access) /\ run.env \subseteq run.access.secrets)

LEMMA QueueMoves ==
  ASSUME writes \in Seq(Write)
  PROVE  /\ \A k, t : Enqueue(k, t) => Queued' = Queued \cup {t}
         /\ writes # <<>> => Head(writes).tool \in Queued
         /\ writes # <<>> /\ writes' = Tail(writes) => Queued' \subseteq Queued
         /\ \A w : writes # <<>> /\ w.tool = Head(writes).tool /\ writes' = Append(Tail(writes), w)
                     => Queued' \subseteq Queued
  <1>1. ASSUME NEW k, NEW t, Enqueue(k, t) PROVE Queued' = Queued \cup {t}
    <2>. DEFINE e == [kind |-> k, tool |-> t]
    <2>1. writes' = Append(writes, e) /\ e.tool = t
      BY <1>1 DEF Enqueue
    <2>. HIDE DEF e
    <2>2. Len(writes') = Len(writes) + 1 /\ writes'[Len(writes) + 1] = e
          /\ \A i \in 1..Len(writes) : writes'[i] = writes[i]
      BY <2>1
    <2>. QED BY <2>1, <2>2 DEF Queued
  <1>2. ASSUME writes # <<>> PROVE Head(writes).tool \in Queued
    BY <1>2 DEF Queued
  <1>3. ASSUME writes # <<>>, writes' = Tail(writes) PROVE Queued' \subseteq Queued
    BY <1>3 DEF Queued
  <1>4. ASSUME NEW w, writes # <<>>, w.tool = Head(writes).tool, writes' = Append(Tail(writes), w)
        PROVE  Queued' \subseteq Queued
    <2>1. Tail(writes) \in Seq(Write) /\ Len(Tail(writes)) = Len(writes) - 1
          /\ \A i \in 1..(Len(writes) - 1) : Tail(writes)[i] = writes[i + 1]
      BY <1>4
    <2>2. Len(writes') = Len(writes) /\ writes'[Len(writes)] = w
          /\ \A i \in 1..(Len(writes) - 1) : writes'[i] = writes[i + 1]
      BY <1>4, <2>1
    <2>3. Head(writes) = writes[1] /\ Len(writes) \in Nat /\ 1 \in 1..Len(writes)
      BY <1>4
    <2>4. ASSUME NEW i \in 1..Len(writes') PROVE writes'[i].tool \in Queued
      <3>1. CASE i = Len(writes)
        BY <1>2, <1>4, <2>2, <3>1
      <3>2. CASE i # Len(writes)
        <4>1. i \in 1..(Len(writes) - 1) /\ i + 1 \in 1..Len(writes)
          BY <2>2, <2>3, <2>4, <3>2
        <4>. QED BY <2>2, <4>1 DEF Queued
      <3>. QED BY <3>1, <3>2
    <2>. QED BY <2>4 DEF Queued
  <1>. QED BY <1>1, <1>2, <1>3, <1>4

LEMMA SafeMoves ==
  ASSUME Safe, Filed', agreed \subseteq agreed',
         \A t \in Sources' : t = None \/ t \in Sources \/ Fine(t)',
         run' = run \/ run' = None
         \/ (tool # None /\ tool.approved /\ run'.access = tool.access /\ run'.env \subseteq tool.access.secrets)
  PROVE  Safe'
  <1>1. \A a : Covered(a) => Covered(a)'
    BY DEF Covered
  <1>2. \A t : Fine(t) => Fine(t)'
    BY <1>1 DEF Fine
  <1>3. \A t \in Sources \ {None} : Fine(t)
    BY DEF Safe
  <1>4. \A t \in Sources' \ {None} : Fine(t)'
    BY <1>2, <1>3
  <1>5. tool # None /\ tool.approved => Covered(tool.access)
    BY <1>3 DEF Sources, Fine
  <1>6. (run # None => Covered(run.access) /\ run.env \subseteq run.access.secrets)'
    <2>1. CASE run' = run \/ run' = None
      BY <1>1, <2>1 DEF Safe
    <2>2. CASE tool # None /\ tool.approved /\ run'.access = tool.access /\ run'.env \subseteq tool.access.secrets
      BY <1>1, <1>5, <2>2
    <2>. QED BY <2>1, <2>2
  <1>. QED BY <1>4, <1>6 DEF Safe

LEMMA InitSafe == CustomInit => Safe
  <1>. SUFFICES ASSUME CustomInit PROVE Safe
    OBVIOUS
  <1>1. Filed /\ Queued = {} /\ Sources = {doc} /\ run = None
    BY ShelfAssumption DEF CustomInit, Filed, Queued, Sources, Tool
  <1>2. doc # None => Fine(doc)
    <2>1. ASSUME doc # None, doc.approved PROVE Covered(doc.access)
      <3>1. doc.access \in agreed /\ doc \in Tool
        BY <2>1, ShelfAssumption DEF CustomInit
      <3>2. Within(doc.access, doc.access)
        BY DEF Within
      <3>. QED BY <3>1, <3>2 DEF Covered
    <2>. QED BY <2>1 DEF Fine
  <1>. QED BY <1>1, <1>2 DEF Safe

LEMMA StepSafe == Safe /\ SecretsKnown /\ [CustomNext]_customVars => Safe'
  <1>. SUFFICES ASSUME Safe, SecretsKnown, [CustomNext]_customVars PROVE Safe'
    OBVIOUS
  <1>0. Filed /\ writes \in Seq(Write)
    BY DEF Safe, Filed
  <1>1. CASE UNCHANGED customVars
    BY <1>1 DEF customVars, Safe, Filed, Sources, Queued, Fine, Covered
  <1>2. CASE CreateTool
    <2>1. PICK a \in Access : Enqueue("create", Pending(a))
      BY <1>2 DEF CreateTool
    <2>2. writes' \in Seq(Write) /\ Queued' = Queued \cup {Pending(a)}
      BY <1>0, <2>1, QueueTyped, QueueMoves, PendingTyped DEF Kinds, Changes
    <2>3. Fine(Pending(a))'
      BY PendingTyped DEF Fine, Pending
    <2>. QED BY <1>0, <1>2, <2>2, <2>3, SafeMoves DEF CreateTool, Filed, Sources
  <1>3. CASE UpdateTool
    <2>1. PICK code \in Codes, secrets \in SUBSET Secrets : tool' = Updated(code, secrets)
      BY <1>3 DEF UpdateTool
    <2>2. tool \in Tool /\ Fine(tool) /\ agreed' = agreed
      BY <1>3 DEF UpdateTool, Safe, Filed, Sources
    <2>3. tool' \in Tool /\ Fine(tool')
      BY <2>1, <2>2, UpdatedTyped, UpdatedFine
    <2>4. writes' \in Seq(Write) /\ Queued' = Queued \cup {tool'}
      <3>1. Enqueue("update", tool')
        BY <1>3 DEF UpdateTool
      <3>. QED BY <1>0, <2>3, <3>1, QueueTyped, QueueMoves DEF Kinds, Changes
    <2>5. Fine(tool)'
      BY <2>2, <2>3 DEF Fine, Covered
    <2>. QED BY <1>0, <1>3, <2>2, <2>3, <2>4, <2>5, SafeMoves DEF UpdateTool, Filed, Sources
  <1>4. CASE ExecuteTool
    <2>1. run' = [access |-> tool.access, env |-> tool.access.secrets \cap known]
      BY <1>4 DEF ExecuteTool
    <2>2. run'.access = tool.access /\ run'.env \subseteq tool.access.secrets
      BY <2>1
    <2>. QED BY <1>0, <1>4, <2>2, SafeMoves DEF ExecuteTool, Filed, Sources, Queued
  <1>5. CASE ApproveTool
    <2>1. tool \in Tool /\ tool' = [tool EXCEPT !.approved = TRUE] /\ agreed' = agreed \cup {tool.access}
      BY <1>0, <1>5 DEF ApproveTool, Filed
    <2>2. tool' \in Tool /\ tool'.access = tool.access
      BY <2>1 DEF Tool
    <2>3. writes' \in Seq(Write) /\ Queued' = Queued \cup {tool'}
      <3>1. Enqueue("approve", tool')
        BY <1>5 DEF ApproveTool
      <3>. QED BY <1>0, <2>2, <3>1, QueueTyped, QueueMoves DEF Kinds, Changes
    <2>4. Fine(tool)'
      BY <2>1, <2>2 DEF Fine, Covered, Within
    <2>. QED BY <1>0, <1>5, <2>1, <2>2, <2>3, <2>4, SafeMoves DEF ApproveTool, Filed, Sources
  <1>6. CASE RevokeTool
    <2>1. tool \in Tool /\ tool' = [tool EXCEPT !.approved = FALSE]
      BY <1>0, <1>6 DEF RevokeTool, Filed
    <2>2. tool' \in Tool /\ ~tool'.approved
      BY <2>1 DEF Tool
    <2>3. writes' \in Seq(Write) /\ Queued' = Queued \cup {tool'}
      <3>1. Enqueue("revoke", tool')
        BY <1>6 DEF RevokeTool
      <3>. QED BY <1>0, <2>2, <3>1, QueueTyped, QueueMoves DEF Kinds, Changes
    <2>4. Fine(tool)'
      BY <2>2 DEF Fine
    <2>. QED BY <1>0, <1>6, <2>2, <2>3, <2>4, SafeMoves DEF RevokeTool, Filed, Sources
  <1>7. CASE DeleteTool
    <2>1. tool \in Tool /\ Enqueue("delete", tool)
      BY <1>0, <1>7 DEF DeleteTool, Filed
    <2>2. writes' \in Seq(Write) /\ Queued' = Queued \cup {tool}
      BY <1>0, <2>1, QueueTyped, QueueMoves DEF Kinds, Changes
    <2>. QED BY <1>0, <1>7, <2>2, SafeMoves DEF DeleteTool, Filed, Sources
  <1>8. CASE SaveSecrets
    BY <1>0, <1>8, SafeMoves DEF SaveSecrets, Filed, Sources, Queued
  <1>9. CASE Conflict
    <2>1. writes' = Append(Tail(writes), [Head(writes) EXCEPT !.kind = "overwrite"]) /\ writes # <<>>
      BY <1>9 DEF Conflict
    <2>2. Head(writes) \in Write /\ Tail(writes) \in Seq(Write)
      BY <1>0, <2>1, QueueTyped
    <2>3. PICK w : w = [Head(writes) EXCEPT !.kind = "overwrite"]
      OBVIOUS
    <2>4. w \in Write /\ w.tool = Head(writes).tool
      BY <2>2, <2>3 DEF Write, Kinds
    <2>5. writes' \in Seq(Write) /\ Queued' \subseteq Queued
      BY <1>0, <2>1, <2>2, <2>3, <2>4, QueueMoves, AppendProperties
    <2>. QED BY <1>0, <1>9, <2>5, SafeMoves DEF Conflict, Filed, Sources
  <1>10. CASE Stored \/ Replaced \/ Removed \/ Missing \/ WriteFails
    <2>1. writes # <<>> /\ writes' = Tail(writes) /\ UNCHANGED <<run, agreed>>
      BY <1>10 DEF Stored, Replaced, Removed, Missing, WriteFails
    <2>2. writes' \in Seq(Write) /\ Head(writes).tool \in Tool
      BY <1>0, <2>1, QueueTyped
    <2>3. Queued' \subseteq Queued /\ Head(writes).tool \in Queued
      BY <1>0, <2>1, QueueMoves
    <2>4. doc' \in {doc, None, Head(writes).tool} /\ tool' \in {tool, None, Head(writes).tool}
      BY <1>10 DEF Stored, Replaced, Removed, Missing, WriteFails
    <2>5. Filed'
      BY <1>0, <2>2, <2>4 DEF Filed
    <2>6. \A t \in Sources' : t = None \/ t \in Sources
      BY <2>3, <2>4 DEF Sources
    <2>. QED BY <2>1, <2>5, <2>6, SafeMoves
  <1>11. CASE Crash
    <2>1. writes' = <<>> /\ tool' = doc /\ doc' = doc /\ run' = None /\ agreed' = agreed
      BY <1>11 DEF Crash
    <2>2. Queued' = {} /\ writes' \in Seq(Write)
      BY <2>1 DEF Queued
    <2>. QED BY <1>0, <2>1, <2>2, SafeMoves DEF Filed, Sources
  <1>. QED BY <1>1, <1>2, <1>3, <1>4, <1>5, <1>6, <1>7, <1>8, <1>9, <1>10, <1>11 DEF CustomNext

-----------------------------------------------------------------------------
LEMMA CustomInitTypes == CustomInit => Filed /\ Counted /\ SecretsKnown /\ Given
  <1>. SUFFICES ASSUME CustomInit PROVE Filed /\ Counted /\ SecretsKnown /\ Given
    OBVIOUS
  <1>1. doc \in Tool \cup {None}
    BY ShelfAssumption DEF CustomInit
  <1>2. agreed \subseteq Access
    BY <1>1 DEF CustomInit, Tool
  <1>3. Filed
    BY <1>1 DEF CustomInit, Filed
  <1>4. Counted
    BY DEF CustomInit, Counted
  <1>5. SecretsKnown /\ Given
    BY <1>2 DEF CustomInit, SecretsKnown, Given
  <1>. QED BY <1>3, <1>4, <1>5

LEMMA CustomStepTypes ==
  Safe /\ Counted /\ SecretsKnown /\ Given /\ [CustomNext]_customVars => (Counted /\ SecretsKnown /\ Given)'
  <1>. SUFFICES ASSUME Safe, Counted, SecretsKnown, Given, [CustomNext]_customVars
                PROVE  (Counted /\ SecretsKnown /\ Given)'
    OBVIOUS
  <1>0. Filed
    BY DEF Safe
  <1>1. CASE UNCHANGED customVars
    BY <1>1 DEF customVars, Counted, SecretsKnown, Given
  <1>2. CASE CreateTool \/ UpdateTool \/ RevokeTool \/ DeleteTool \/ Conflict \/ Missing
    BY <1>2 DEF CreateTool, UpdateTool, RevokeTool, DeleteTool, Conflict, Missing, Change, Counted, SecretsKnown, Given
  <1>3. CASE ExecuteTool
    <2>1. tool \in Tool
      BY <1>0, <1>3 DEF ExecuteTool, Filed
    <2>2. tool.access \in Access /\ tool.access.secrets \cap known \in SUBSET Secrets
      BY <2>1 DEF Tool, Access, SecretsKnown
    <2>. QED BY <1>3, <2>2 DEF ExecuteTool, Counted, SecretsKnown, Given
  <1>4. CASE ApproveTool
    <2>1. tool.access \in Access
      BY <1>0, <1>4 DEF ApproveTool, Filed, Tool
    <2>2. Counted'
      <3>1. changes' = changes + 1 /\ revoked' = FALSE /\ UNCHANGED <<lost, crossed, crashes>>
        BY <1>4 DEF ApproveTool, Change
      <3>2. lost' \in Nat /\ changes' \in Nat /\ crashes' \in Nat
        BY <3>1 DEF Counted
      <3>3. revoked' \in BOOLEAN /\ crossed' \in BOOLEAN
        BY <3>1, Zenon DEF Counted
      <3>. QED BY <3>2, <3>3 DEF Counted
    <2>3. SecretsKnown'
      BY <1>4 DEF ApproveTool, SecretsKnown
    <2>4. Given'
      BY <1>4, <2>1 DEF ApproveTool, Given
    <2>. QED BY <2>2, <2>3, <2>4
  <1>5. CASE SaveSecrets
    BY <1>5 DEF SaveSecrets, Change, Counted, SecretsKnown, Given
  <1>6. CASE Stored
    <2>1. crossed' \in BOOLEAN
      BY <1>6, Zenon DEF Stored
    <2>. QED BY <1>6, <2>1 DEF Stored, Counted, SecretsKnown, Given
  <1>7. CASE Replaced \/ Removed
    <2>1. Reported \in BOOLEAN
      BY Zenon DEF Reported
    <2>. QED BY <1>7, <2>1 DEF Replaced, Removed, Counted, SecretsKnown, Given
  <1>8. CASE WriteFails \/ Crash
    BY <1>8 DEF WriteFails, Crash, Counted, SecretsKnown, Given
  <1>. QED BY <1>1, <1>2, <1>3, <1>4, <1>5, <1>6, <1>7, <1>8 DEF CustomNext

LEMMA AlwaysSafe == CustomSpec => [](Safe /\ Counted /\ SecretsKnown /\ Given)
  <1>1. Safe /\ Counted /\ SecretsKnown /\ Given /\ [CustomNext]_customVars
        => (Safe /\ Counted /\ SecretsKnown /\ Given)'
    BY StepSafe, CustomStepTypes
  <1>. QED BY <1>1, InitSafe, CustomInitTypes, PTL DEF CustomSpec

\* Types, for any code, secrets and initial document (custom.py).
THEOREM CustomTypes == CustomSpec => []CustomTypeOK
  <1>1. Safe => Filed
    BY DEF Safe
  <1>. QED BY <1>1, AlwaysSafe, TypesParts, PTL

\* What an execution is given was approved, or is less than what was, whatever
\* edits, conflicts, failed writes and restarts come between (custom.py).
THEOREM OnlyAgreedRuns == CustomSpec => []RunsAgreed
  <1>1. Safe => RunsAgreed
    BY DEF Safe, RunsAgreed, Sources, Fine
  <1>. QED BY <1>1, AlwaysSafe, PTL

-----------------------------------------------------------------------------
(* A revocation that waits, and one that was reported.                       *)

Bare(t) == t # None => ~t.approved
Withdrawn(w) == w.kind \in Changes => Bare(w.tool)
NoApproval(q, n) == \A j \in n..Len(q) : q[j].kind # "approve"

\* Behind a revocation that no approval follows, nothing has an approval, and t,
\* the tool in memory, has none.
BareKinds == {"create", "overwrite", "revoke"}
Awaits(q, t) ==
  /\ \A i \in 1..Len(q) : q[i].kind \in BareKinds => Bare(q[i].tool)
  /\ \A i \in 1..Len(q) : q[i].kind = "revoke" /\ NoApproval(q, i + 1) =>
       Bare(t) /\ \A j \in (i + 1)..Len(q) : Withdrawn(q[j])

\* An approved text may wait behind a deletion; its document is gone.
Ended == revoked /\ ~crossed /\ lost = 0 =>
  Bare(tool) /\ Bare(doc) /\ (doc # None => \A i \in 1..Len(writes) : Withdrawn(writes[i]))
Withheld == (revoked => NoApproval(writes, 1)) /\ Awaits(writes, tool) /\ Ended

LEMMA TailOf ==
  ASSUME NEW q \in Seq(Write), q # << >>
  PROVE  /\ Tail(q) \in Seq(Write) /\ Len(Tail(q)) = Len(q) - 1 /\ Len(q) \in Nat \ {0}
         /\ \A i \in 1..(Len(q) - 1) : Tail(q)[i] = q[i + 1]
         /\ Head(q) = q[1]
  OBVIOUS

LEMMA JoinOf ==
  ASSUME NEW q \in Seq(Write), NEW e \in Write
  PROVE  /\ Append(q, e) \in Seq(Write) /\ Len(Append(q, e)) = Len(q) + 1 /\ Len(q) \in Nat
         /\ \A i \in 1..Len(q) : Append(q, e)[i] = q[i]
         /\ Append(q, e)[Len(q) + 1] = e
  OBVIOUS

LEMMA AwaitsTail ==
  ASSUME NEW q \in Seq(Write), q # << >>, NEW t, Awaits(q, t)
  PROVE  /\ Awaits(Tail(q), t)
         /\ NoApproval(q, 2) => NoApproval(Tail(q), 1)
         /\ (\A i \in 2..Len(q) : Withdrawn(q[i])) => \A i \in 1..Len(Tail(q)) : Withdrawn(Tail(q)[i])
  <1>. DEFINE r == Tail(q)  n == Len(q)
  <1>1. Len(r) = n - 1 /\ n \in Nat \ {0} /\ \A i \in 1..(n - 1) : r[i] = q[i + 1]
    BY TailOf
  <1>. HIDE DEF r, n
  <1>2. \A i \in 1..Len(r) : i + 1 \in 2..n /\ i + 1 \in 1..n /\ r[i] = q[i + 1]
    BY <1>1
  <1>3. ASSUME NEW i \in 1..Len(r), NoApproval(r, i + 1) PROVE NoApproval(q, (i + 1) + 1)
    <2>. SUFFICES ASSUME NEW j \in ((i + 1) + 1)..n PROVE q[j].kind # "approve"
      BY DEF NoApproval, n
    <2>1. j - 1 \in (i + 1)..Len(r) /\ j - 1 \in 1..Len(r) /\ (j - 1) + 1 = j
      BY <1>1
    <2>. QED BY <1>2, <1>3, <2>1 DEF NoApproval
  <1>4. ASSUME NEW i \in 1..Len(r), NEW j \in (i + 1)..Len(r)
        PROVE  j \in 1..Len(r) /\ j + 1 \in ((i + 1) + 1)..n
    BY <1>1
  <1>5. Awaits(r, t)
    <2>1. \A i \in 1..Len(r) : r[i].kind \in BareKinds => Bare(r[i].tool)
      BY <1>2 DEF Awaits, n
    <2>2. ASSUME NEW i \in 1..Len(r), r[i].kind = "revoke", NoApproval(r, i + 1)
          PROVE  Bare(t) /\ \A j \in (i + 1)..Len(r) : Withdrawn(r[j])
      <3>1. Bare(t) /\ \A j \in ((i + 1) + 1)..n : Withdrawn(q[j])
        BY <1>2, <1>3, <2>2 DEF Awaits, n
      <3>. QED BY <1>2, <1>4, <3>1
    <2>. QED BY <2>1, <2>2 DEF Awaits
  <1>6. NoApproval(q, 2) => NoApproval(r, 1)
    BY <1>2 DEF NoApproval, n
  <1>7. (\A i \in 2..n : Withdrawn(q[i])) => \A i \in 1..Len(r) : Withdrawn(r[i])
    BY <1>2
  <1>. QED BY <1>5, <1>6, <1>7 DEF r, n

LEMMA AwaitsJoin ==
  ASSUME NEW q \in Seq(Write), NEW e \in Write, NEW t, NEW s, Awaits(q, t),
         e.kind \in BareKinds => Bare(e.tool),
         e.kind = "revoke" => Bare(s),
         e.kind # "approve" => (Bare(t) => Bare(s) /\ Withdrawn(e))
  PROVE  /\ Awaits(Append(q, e), s)
         /\ NoApproval(q, 1) /\ e.kind # "approve" => NoApproval(Append(q, e), 1)
         /\ (\A i \in 1..Len(q) : Withdrawn(q[i])) /\ Withdrawn(e)
              => \A i \in 1..Len(Append(q, e)) : Withdrawn(Append(q, e)[i])
  <1>. DEFINE r == Append(q, e)  n == Len(q)
  <1>1. Len(r) = n + 1 /\ n \in Nat /\ (\A i \in 1..n : r[i] = q[i]) /\ r[n + 1] = e
    BY JoinOf
  <1>. HIDE DEF r, n
  <1>2. \A i \in 1..Len(r) : i \in 1..n \/ i = n + 1
    BY <1>1
  <1>3. ASSUME NEW i \in 1..n, q[i].kind = "revoke", NoApproval(r, i + 1)
        PROVE  Bare(s) /\ \A j \in (i + 1)..Len(r) : Withdrawn(r[j])
    <2>1. n + 1 \in (i + 1)..Len(r) /\ \A j \in (i + 1)..n : j \in (i + 1)..Len(r) /\ j \in 1..n
      BY <1>1
    <2>2. e.kind # "approve" /\ NoApproval(q, i + 1)
      BY <1>1, <1>3, <2>1 DEF NoApproval, n
    <2>3. Bare(t) /\ \A j \in (i + 1)..n : Withdrawn(q[j])
      BY <1>3, <2>2 DEF Awaits, n
    <2>4. \A j \in (i + 1)..Len(r) : j \in (i + 1)..n \/ j = n + 1
      BY <1>1
    <2>. QED BY <1>1, <2>1, <2>2, <2>3, <2>4
  <1>4. \A j \in (n + 1 + 1)..Len(r) : FALSE
    BY <1>1
  <1>5. Awaits(r, s)
    <2>1. \A i \in 1..Len(r) : r[i].kind \in BareKinds => Bare(r[i].tool)
      BY <1>1, <1>2 DEF Awaits, n
    <2>2. ASSUME NEW i \in 1..Len(r), r[i].kind = "revoke", NoApproval(r, i + 1)
          PROVE  Bare(s) /\ \A j \in (i + 1)..Len(r) : Withdrawn(r[j])
      <3>1. CASE i \in 1..n
        BY <1>1, <1>3, <2>2, <3>1
      <3>2. CASE i = n + 1
        BY <1>1, <1>4, <2>2, <3>2
      <3>. QED BY <1>2, <3>1, <3>2
    <2>. QED BY <2>1, <2>2 DEF Awaits
  <1>6. NoApproval(q, 1) /\ e.kind # "approve" => NoApproval(r, 1)
    BY <1>1, <1>2 DEF NoApproval, n
  <1>7. (\A i \in 1..n : Withdrawn(q[i])) /\ Withdrawn(e) => \A i \in 1..Len(r) : Withdrawn(r[i])
    BY <1>1, <1>2
  <1>. QED BY <1>5, <1>6, <1>7 DEF r, n

\* A change that is no approval joins the queue, and gives no approval to t.
LEMMA JoinHeld ==
  ASSUME Safe, Withheld, NEW e \in Write, writes' = Append(writes, e), e.kind # "approve",
         e.kind \in BareKinds => Bare(e.tool),
         e.kind = "revoke" => Bare(tool'),
         Bare(tool) => Bare(tool') /\ Withdrawn(e),
         UNCHANGED <<doc, revoked, crossed, lost>>
  PROVE  Withheld'
  <1>1. writes \in Seq(Write)
    BY DEF Safe, Filed
  <1>2. /\ Awaits(writes', tool')
        /\ NoApproval(writes, 1) => NoApproval(writes', 1)
        /\ (\A i \in 1..Len(writes) : Withdrawn(writes[i])) /\ Withdrawn(e)
             => \A i \in 1..Len(writes') : Withdrawn(writes'[i])
    BY <1>1, AwaitsJoin DEF Withheld
  <1>3. Ended'
    BY <1>2 DEF Withheld, Ended, Bare, Withdrawn
  <1>4. (revoked => NoApproval(writes, 1))'
    BY <1>2 DEF Withheld, NoApproval
  <1>5. Awaits(writes, tool)'
    BY <1>2 DEF Awaits, NoApproval, Bare, Withdrawn
  <1>. QED BY <1>3, <1>4, <1>5 DEF Withheld

\* The first of the queue is written, or is not.
LEMMA LeaveHeld ==
  ASSUME Safe, Withheld, Counted, Stored \/ Replaced \/ Removed \/ Missing \/ WriteFails
  PROVE  Withheld'
  <1>. DEFINE w == Head(writes)
  <1>1. writes \in Seq(Write) /\ writes # << >> /\ writes' = Tail(writes)
    BY DEF Safe, Filed, Stored, Replaced, Removed, Missing, WriteFails
  <1>2. /\ Awaits(writes', tool)
        /\ NoApproval(writes, 2) => NoApproval(writes', 1)
        /\ (\A i \in 2..Len(writes) : Withdrawn(writes[i])) => \A i \in 1..Len(writes') : Withdrawn(writes'[i])
    BY <1>1, AwaitsTail DEF Withheld
  <1>3. Len(writes) \in Nat \ {0} /\ w = writes[1] /\ \A i \in 2..Len(writes) : i \in 1..Len(writes)
    BY <1>1, TailOf
  <1>4. 1 \in 1..Len(writes)
    BY <1>3
  <1>5. w.kind \in BareKinds => Bare(w.tool)
    BY <1>3, <1>4 DEF Withheld, Awaits
  <1>6. NoApproval(writes, 1) => NoApproval(writes, 2)
    BY <1>3 DEF NoApproval
  <1>7. w.kind = "revoke" /\ NoApproval(writes, 2) =>
          Bare(tool) /\ \A j \in 2..Len(writes) : Withdrawn(writes[j])
    <2>1. 1 + 1 = 2
      OBVIOUS
    <2>. QED BY <1>3, <1>4, <2>1 DEF Withheld, Awaits
  <1>8. Reported => revoked \/ NoApproval(writes, 2)
    BY DEF Reported, NoApproval
  <1>. HIDE DEF w
  <1>9. tool' = tool \/ Bare(tool')
    BY <1>5 DEF Stored, Replaced, Removed, Missing, WriteFails, Bare, BareKinds, w
  <1>10. Awaits(writes', tool')
    BY <1>2, <1>9 DEF Awaits
  <1>11. revoked' => revoked \/ NoApproval(writes, 2)
    BY <1>8 DEF Stored, Replaced, Removed, Missing, WriteFails
  <1>12. revoked' => NoApproval(writes', 1)
    BY <1>2, <1>6, <1>11 DEF Withheld
  <1>13. Ended'
    <2>. SUFFICES ASSUME revoked', ~crossed', lost' = 0
                  PROVE  Bare(tool') /\ Bare(doc') /\ (doc' # None => \A i \in 1..Len(writes') : Withdrawn(writes'[i]))
      BY DEF Ended, Bare, Withdrawn
    <2>1. CASE Stored
      <3>1. /\ doc' = w.tool /\ tool' = w.tool /\ w.kind \in BareKinds
            /\ \A i \in 2..Len(writes) : writes[i].kind \notin Changes
        BY <2>1 DEF Stored, BareKinds, w
      <3>. QED BY <1>2, <1>5, <3>1 DEF Withdrawn
    <2>2. CASE Replaced
      <3>1. doc # None /\ w.kind \in Changes /\ doc' = w.tool /\ UNCHANGED <<tool, crossed, lost>>
        BY <2>2 DEF Replaced, w
      <3>2. CASE revoked
        <4>1. Bare(tool) /\ \A i \in 1..Len(writes) : Withdrawn(writes[i])
          BY <3>1, <3>2 DEF Withheld, Ended
        <4>. QED BY <1>2, <1>3, <1>4, <3>1, <4>1 DEF Withdrawn
      <3>3. CASE ~revoked
        <4>1. w.kind = "revoke" /\ NoApproval(writes, 2)
          BY <1>11, <2>2, <3>3 DEF Replaced, w
        <4>. QED BY <1>2, <1>5, <1>7, <3>1, <4>1 DEF BareKinds
      <3>. QED BY <3>2, <3>3
    <2>3. CASE Removed
      BY <2>3 DEF Removed, Bare
    <2>4. CASE Missing
      BY <2>4 DEF Missing, Withheld, Ended, Bare
    <2>5. CASE WriteFails
      <3>1. lost' = lost + 1 /\ lost \in Nat
        BY <2>5 DEF WriteFails, Counted
      <3>. QED BY <3>1
    <2>. QED BY <2>1, <2>2, <2>3, <2>4, <2>5
  <1>14. Awaits(writes, tool)' /\ (revoked => NoApproval(writes, 1))'
    BY <1>10, <1>12 DEF Awaits, NoApproval, Bare, Withdrawn
  <1>. QED BY <1>13, <1>14 DEF Withheld

LEMMA HeldNext == Safe /\ Counted /\ Withheld /\ [CustomNext]_customVars => Withheld'
  <1>. SUFFICES ASSUME Safe, Counted, Withheld, [CustomNext]_customVars PROVE Withheld'
    OBVIOUS
  <1>0. Filed /\ writes \in Seq(Write)
    BY DEF Safe, Filed
  <1>1. CASE ExecuteTool \/ SaveSecrets \/ UNCHANGED customVars
    <2>1. UNCHANGED <<tool, doc, writes, revoked, crossed, lost>>
      BY <1>1 DEF ExecuteTool, SaveSecrets, customVars
    <2>. QED BY <2>1 DEF Withheld, Awaits, NoApproval, Ended, Bare, Withdrawn
  <1>2. CASE CreateTool
    <2>1. PICK a \in Access : writes' = Append(writes, [kind |-> "create", tool |-> Pending(a)])
      BY <1>2 DEF CreateTool, Enqueue
    <2>2. PICK e : e = [kind |-> "create", tool |-> Pending(a)]
      OBVIOUS
    <2>3. e \in Write /\ e.kind = "create" /\ Bare(e.tool)
      BY <2>2, PendingTyped DEF Write, Kinds, Changes, Bare
    <2>4. writes' = Append(writes, e) /\ UNCHANGED <<tool, doc, revoked, crossed, lost>>
      BY <1>2, <2>1, <2>2 DEF CreateTool
    <2>. QED BY <2>3, <2>4, JoinHeld DEF Withdrawn, Changes
  <1>3. CASE UpdateTool
    <2>1. PICK code \in Codes, secrets \in SUBSET Secrets : tool' = Updated(code, secrets)
      BY <1>3 DEF UpdateTool
    <2>2. tool \in Tool /\ tool # None
      BY <1>0, <1>3 DEF UpdateTool, Filed
    <2>3. tool' \in Tool /\ (tool'.approved => tool.approved)
      BY <2>1, <2>2, UpdatedTyped DEF Updated
    <2>4. PICK e : e = [kind |-> "update", tool |-> tool']
      OBVIOUS
    <2>5. e \in Write /\ e.kind = "update" /\ e.tool = tool' /\ writes' = Append(writes, e)
      BY <1>3, <2>3, <2>4 DEF UpdateTool, Enqueue, Write, Kinds, Changes
    <2>6. Bare(tool) => Bare(tool') /\ Withdrawn(e)
      BY <2>2, <2>3, <2>5 DEF Bare, Withdrawn
    <2>7. UNCHANGED <<doc, revoked, crossed, lost>>
      BY <1>3 DEF UpdateTool
    <2>. QED BY <2>5, <2>6, <2>7, JoinHeld DEF BareKinds
  <1>4. CASE ApproveTool
    <2>1. tool \in Tool /\ tool' = [tool EXCEPT !.approved = TRUE]
      BY <1>0, <1>4 DEF ApproveTool, Filed
    <2>2. PICK e : e = [kind |-> "approve", tool |-> tool']
      OBVIOUS
    <2>3. e \in Write /\ e.kind = "approve" /\ writes' = Append(writes, e) /\ revoked' = FALSE
      BY <1>4, <2>1, <2>2 DEF ApproveTool, Enqueue, Write, Tool, Kinds, Changes
    <2>4. Awaits(writes', tool')
      BY <1>0, <2>3, AwaitsJoin DEF Withheld, BareKinds
    <2>5. Awaits(writes, tool)'
      BY <2>4 DEF Awaits, NoApproval, Bare, Withdrawn
    <2>. QED BY <2>3, <2>5 DEF Withheld, Ended
  <1>5. CASE RevokeTool
    <2>1. tool \in Tool /\ tool' = [tool EXCEPT !.approved = FALSE]
      BY <1>0, <1>5 DEF RevokeTool, Filed
    <2>2. tool' \in Tool /\ Bare(tool')
      BY <2>1 DEF Tool, Bare
    <2>3. PICK e : e = [kind |-> "revoke", tool |-> tool']
      OBVIOUS
    <2>4. e \in Write /\ e.kind = "revoke" /\ e.tool = tool' /\ writes' = Append(writes, e)
      BY <1>5, <2>2, <2>3 DEF RevokeTool, Enqueue, Write, Kinds, Changes
    <2>5. Withdrawn(e) /\ UNCHANGED <<doc, revoked, crossed, lost>>
      BY <1>5, <2>2, <2>4 DEF RevokeTool, Withdrawn
    <2>. QED BY <2>2, <2>4, <2>5, JoinHeld
  <1>6. CASE DeleteTool
    <2>1. PICK e : e = [kind |-> "delete", tool |-> tool]
      OBVIOUS
    <2>2. e \in Write /\ e.kind = "delete" /\ writes' = Append(writes, e)
      BY <1>0, <1>6, <2>1 DEF DeleteTool, Enqueue, Write, Kinds, Changes, Filed
    <2>3. UNCHANGED <<tool, doc, revoked, crossed, lost>>
      BY <1>6 DEF DeleteTool
    <2>. QED BY <2>2, <2>3, JoinHeld DEF BareKinds, Withdrawn, Changes
  <1>7. CASE Conflict
    <2>1. PICK e : e = [Head(writes) EXCEPT !.kind = "overwrite"]
      OBVIOUS
    <2>2. /\ writes # << >> /\ Head(writes).kind = "create" /\ writes' = Append(Tail(writes), e)
          /\ UNCHANGED <<tool, doc, revoked, crossed, lost>>
      BY <1>7, <2>1 DEF Conflict
    <2>3. Head(writes) \in Write /\ Tail(writes) \in Seq(Write) /\ Head(writes) = writes[1] /\ 1 \in 1..Len(writes)
      BY <1>0, <2>2, QueueTyped, TailOf
    <2>4. e \in Write /\ e.kind = "overwrite" /\ e.tool = Head(writes).tool
      BY <2>1, <2>3 DEF Write, Kinds
    <2>5. Bare(e.tool) /\ Withdrawn(e)
      BY <2>2, <2>3, <2>4 DEF Withheld, Awaits, BareKinds, Withdrawn, Changes
    <2>6. /\ Awaits(Tail(writes), tool)
          /\ NoApproval(writes, 2) => NoApproval(Tail(writes), 1)
          /\ (\A i \in 2..Len(writes) : Withdrawn(writes[i]))
               => \A i \in 1..Len(Tail(writes)) : Withdrawn(Tail(writes)[i])
      BY <1>0, <2>2, AwaitsTail DEF Withheld
    <2>7. /\ Awaits(writes', tool)
          /\ NoApproval(Tail(writes), 1) => NoApproval(writes', 1)
          /\ (\A i \in 1..Len(Tail(writes)) : Withdrawn(Tail(writes)[i]))
               => \A i \in 1..Len(writes') : Withdrawn(writes'[i])
      <3>. HIDE DEF Awaits, NoApproval, Withdrawn, Bare
      <3>. QED BY <2>2, <2>3, <2>4, <2>5, <2>6, AwaitsJoin
    <2>8. \A i \in 2..Len(writes) : i \in 1..Len(writes)
      BY <1>0
    <2>9. revoked => NoApproval(writes', 1)
      BY <2>6, <2>7, <2>8 DEF Withheld, NoApproval
    <2>10. Ended'
      BY <2>2, <2>6, <2>7, <2>8 DEF Withheld, Ended, Bare, Withdrawn
    <2>11. Awaits(writes, tool)' /\ (revoked => NoApproval(writes, 1))'
      BY <2>2, <2>7, <2>9 DEF Awaits, NoApproval, Bare, Withdrawn
    <2>. QED BY <2>10, <2>11 DEF Withheld
  <1>8. CASE Stored \/ Replaced \/ Removed \/ Missing \/ WriteFails
    BY <1>8, LeaveHeld
  <1>9. CASE Crash
    <2>1. writes' = << >> /\ tool' = doc /\ UNCHANGED <<doc, revoked, crossed, lost>>
      BY <1>9 DEF Crash
    <2>2. Awaits(writes, tool)' /\ (revoked => NoApproval(writes, 1))'
      BY <2>1 DEF Awaits, NoApproval
    <2>3. Ended'
      BY <2>1 DEF Withheld, Ended, Bare
    <2>. QED BY <2>2, <2>3 DEF Withheld
  <1>. QED BY <1>1, <1>2, <1>3, <1>4, <1>5, <1>6, <1>7, <1>8, <1>9 DEF CustomNext

\* A reported revocation or deletion holds until the next approval, over edits,
\* creations of the same name and restarts (custom.py:251).
THEOREM RevocationsHold == CustomSpec => []RevokedStays
  <1>1. CustomInit => Withheld
    BY DEF CustomInit, Withheld, Awaits, NoApproval, Ended
  <1>2. Withheld /\ Counted => RevokedStays
    BY DEF Withheld, Counted, Ended, RevokedStays, Bare
  <1>. QED BY <1>1, <1>2, HeldNext, AlwaysSafe, PTL DEF CustomSpec

=============================================================================

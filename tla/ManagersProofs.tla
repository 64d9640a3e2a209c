--------------------------- MODULE ManagersProofs ---------------------------
(* Proofs about MCPManager, Notifications, Migrations, ScheduleTimes and      *)
(* Ranking, and about MCManagers, which has them, CustomTools and Memories    *)
(* side by side.                                                              *)
EXTENDS MCManagers, CustomToolsProofs, MemoriesProofs,
        SequenceTheorems, FiniteSetTheorems, TLAPS

-----------------------------------------------------------------------------
(* Locks: a queue in which everybody is once, its holder at the head.        *)

Members(q) == {q[i] : i \in 1..Len(q)}
Once(q) == \A i, j \in 1..Len(q) : q[i] = q[j] => i = j

LEMMA JoinLock ==
  ASSUME NEW S, NEW q \in Seq(S), Once(q), NEW p \in S, p \notin Members(q)
  PROVE  /\ Append(q, p) \in Seq(S) /\ Once(Append(q, p)) /\ Append(q, p) # << >>
         /\ Members(Append(q, p)) = Members(q) \cup {p}
         /\ q # << >> => Head(Append(q, p)) = Head(q)
  <1>. DEFINE a == Append(q, p)  n == Len(q)
  <1>1. /\ a \in Seq(S) /\ Len(a) = n + 1 /\ n \in Nat /\ a # << >>
        /\ \A i \in 1..n : a[i] = q[i]
        /\ a[n + 1] = p
        /\ q # << >> => n # 0 /\ Head(q) = q[1] /\ Head(a) = a[1]
    OBVIOUS
  <1>2. \A i \in 1..(n + 1) : i \in 1..n \/ i = n + 1
    BY <1>1
  <1>3. \A i \in 1..n : q[i] # p
    BY DEF Members
  <1>. HIDE DEF a
  <1>4. Once(a)
    BY <1>1, <1>2, <1>3 DEF Once
  <1>5. Members(a) \subseteq Members(q) \cup {p}
    BY <1>1, <1>2 DEF Members
  <1>6. /\ \A i \in 1..n : i \in 1..(n + 1) /\ q[i] = a[i]
        /\ n + 1 \in 1..(n + 1)
    BY <1>1
  <1>7. Members(q) \cup {p} \subseteq Members(a)
    BY <1>1, <1>6 DEF Members
  <1>8. q # << >> => Head(a) = Head(q)
    BY <1>1
  <1>. QED BY <1>1, <1>4, <1>5, <1>7, <1>8 DEF a

LEMMA LeaveLock ==
  ASSUME NEW S, NEW q \in Seq(S), Once(q), q # << >>
  PROVE  /\ Tail(q) \in Seq(S) /\ Once(Tail(q)) /\ Head(q) \in Members(q)
         /\ Members(Tail(q)) = Members(q) \ {Head(q)}
  <1>. DEFINE r == Tail(q)  n == Len(q)
  <1>1. /\ r \in Seq(S) /\ Len(r) = n - 1 /\ n \in Nat \ {0}
        /\ \A i \in 1..(n - 1) : r[i] = q[i + 1]
        /\ Head(q) = q[1]
    OBVIOUS
  <1>2. \A j \in 1..n : j = 1 \/ (j - 1 \in 1..(n - 1) /\ r[j - 1] = q[j] /\ q[j] # q[1])
    BY <1>1 DEF Once
  <1>3. \A i \in 1..(n - 1) : i + 1 \in 1..n /\ q[i + 1] # q[1]
    BY <1>1 DEF Once
  <1>. HIDE DEF r, n
  <1>4. Once(r)
    BY <1>1, <1>3 DEF Once, n
  <1>5. Members(r) \subseteq Members(q) \ {q[1]}
    <2>. SUFFICES ASSUME NEW i \in 1..(n - 1) PROVE r[i] \in Members(q) /\ r[i] # q[1]
      BY <1>1 DEF Members
    <2>1. r[i] = q[i + 1] /\ i + 1 \in 1..n /\ q[i + 1] # q[1]
      BY <1>1, <1>3
    <2>. QED BY <2>1 DEF Members, n
  <1>6. Members(q) \ {q[1]} \subseteq Members(r)
    BY <1>1, <1>2 DEF Members, n
  <1>7. q[1] \in Members(q)
    BY <1>1 DEF Members, n
  <1>. QED BY <1>1, <1>4, <1>5, <1>6, <1>7 DEF r

LEMMA QuitLock ==
  ASSUME NEW S, NEW q \in Seq(S), Once(q), NEW p \in S
  PROVE  /\ RemoveFirst(q, p) \in Seq(S) /\ Once(RemoveFirst(q, p))
         /\ Members(RemoveFirst(q, p)) = Members(q) \ {p}
         /\ q # << >> /\ Head(q) # p => RemoveFirst(q, p) # << >> /\ Head(RemoveFirst(q, p)) = Head(q)
  <1>1. CASE p \notin Members(q)
    BY <1>1 DEF RemoveFirst, Members
  <1>2. CASE p \in Members(q)
    <2>1. PICK k \in 1..Len(q) : q[k] = p
      BY <1>2 DEF Members
    <2>2. {i \in 1..Len(q) : q[i] = p} = {k}
      BY <2>1 DEF Once
    <2>3. Min({k}) = k
      BY DEF Min
    <2>4. RemoveFirst(q, p) = RemoveAt(q, k)
      BY <2>1, <2>2, <2>3 DEF RemoveFirst, SelectInSeq
    <2>. DEFINE n == Len(q)  r == RemoveAt(q, k)
    <2>5. /\ n \in Nat \ {0} /\ k \in 1..n /\ r \in Seq(S) /\ Len(r) = n - 1
          /\ \A i \in 1..(n - 1) : r[i] = IF i < k THEN q[i] ELSE q[i + 1]
      <3>. DEFINE x == SubSeq(q, 1, k - 1)  y == SubSeq(q, k + 1, n)
      <3>1. n \in Nat \ {0} /\ k \in 1..n /\ q \in Seq(S)
        BY <2>1
      <3>2. /\ x \in Seq(S) /\ Len(x) = k - 1
            /\ \A i \in 1..(k - 1) : x[i] = q[i]
        <4>1. \A i \in 1..(k - 1) : i \in 1..n /\ q[i] \in S
          BY <3>1
        <4>. QED BY <3>1, <4>1, SubSeqProperties
      <3>3. /\ y \in Seq(S) /\ Len(y) = n - k
            /\ \A i \in 1..(n - k) : y[i] = q[k + i]
        <4>1. \A i \in (k + 1)..n : i \in 1..n /\ q[i] \in S
          BY <3>1
        <4>. QED BY <3>1, <4>1, SubSeqProperties
      <3>4. r = x \o y
        BY DEF RemoveAt
      <3>. HIDE DEF x, y, r
      <3>5. /\ r \in Seq(S) /\ Len(r) = n - 1
            /\ \A i \in 1..(n - 1) : r[i] = IF i <= k - 1 THEN x[i] ELSE y[i - (k - 1)]
        <4>1. /\ r \in Seq(S) /\ Len(r) = Len(x) + Len(y)
              /\ \A i \in 1..(Len(x) + Len(y)) : r[i] = IF i <= Len(x) THEN x[i] ELSE y[i - Len(x)]
          BY <3>2, <3>3, <3>4, ConcatProperties
        <4>2. Len(x) + Len(y) = n - 1
          BY <3>1, <3>2, <3>3
        <4>. QED BY <3>2, <4>1, <4>2
      <3>6. ASSUME NEW i \in 1..(n - 1) PROVE r[i] = IF i < k THEN q[i] ELSE q[i + 1]
        <4>1. CASE i < k
          <5>1. i \in 1..(k - 1) /\ i <= k - 1
            BY <3>1, <4>1
          <5>2. r[i] = x[i]
            BY <3>5, <5>1
          <5>. QED BY <3>2, <4>1, <5>1, <5>2
        <4>2. CASE ~(i < k)
          <5>1. i - (k - 1) \in 1..(n - k) /\ k + (i - (k - 1)) = i + 1 /\ ~(i <= k - 1)
            BY <3>1, <4>2
          <5>2. r[i] = y[i - (k - 1)]
            BY <3>5, <5>1
          <5>. QED BY <3>3, <4>2, <5>1, <5>2
        <4>. QED BY <4>1, <4>2
      <3>. QED BY <3>1, <3>5, <3>6
    <2>. HIDE DEF r
    <2>6. Once(r)
      <3>. SUFFICES ASSUME NEW i \in 1..(n - 1), NEW j \in 1..(n - 1), r[i] = r[j] PROVE i = j
        BY <2>5 DEF Once
      <3>. DEFINE Was(x) == IF x < k THEN x ELSE x + 1
      <3>1. Was(i) \in 1..n /\ Was(j) \in 1..n /\ r[i] = q[Was(i)] /\ r[j] = q[Was(j)]
        BY <2>5
      <3>2. Was(i) = Was(j)
        <4>. HIDE DEF Was
        <4>. QED BY <3>1 DEF Once
      <3>. QED BY <2>5, <3>2
    <2>7. Members(r) \subseteq Members(q) \ {p}
      <3>. SUFFICES ASSUME NEW i \in 1..(n - 1) PROVE r[i] \in Members(q) /\ r[i] # p
        BY <2>5 DEF Members
      <3>1. i \in 1..n /\ i + 1 \in 1..n
        BY <2>5
      <3>. QED BY <2>1, <2>5, <3>1 DEF Members, Once
    <2>8. Members(q) \ {p} \subseteq Members(r)
      <3>. SUFFICES ASSUME NEW u \in Members(q), u # p PROVE u \in Members(r)
        OBVIOUS
      <3>. PICK j \in 1..n : q[j] = u
        BY DEF Members
      <3>0. j # k
        BY <2>1
      <3>. SUFFICES \E i \in 1..(n - 1) : r[i] = u
        BY <2>5 DEF Members
      <3>1. CASE j < k
        <4>1. j \in 1..(n - 1)
          BY <2>5, <3>1
        <4>. QED BY <2>5, <3>1, <4>1
      <3>2. CASE j > k
        <4>1. j - 1 \in 1..(n - 1) /\ ~(j - 1 < k) /\ (j - 1) + 1 = j
          BY <2>5, <3>2
        <4>. QED BY <2>5, <4>1
      <3>. QED BY <2>5, <3>0, <3>1, <3>2
    <2>9. Head(q) # p => r # << >> /\ Head(r) = Head(q)
      <3>. SUFFICES ASSUME q[1] # p PROVE r # << >> /\ r[1] = q[1]
        BY <2>5
      <3>1. 1 < k /\ 1 \in 1..(n - 1)
        BY <2>1, <2>5
      <3>. QED BY <2>5, <3>1
    <2>. QED BY <2>4, <2>5, <2>6, <2>7, <2>8, <2>9 DEF r
  <1>. QED BY <1>1, <1>2

-----------------------------------------------------------------------------
(* Sets of numbers: the least, and the greatest.                              *)

LEMMA LeastElement ==
  ASSUME NEW S \in SUBSET Nat, S # {}
  PROVE  \E m \in S : \A n \in S : m <= n
  <1>. DEFINE T == {0..m : m \in S}  R == StrictSubsetOrdering(Nat)
  <1>1. \A m \in S : 0..m \in FiniteSubsetsOf(Nat)
    <2>. SUFFICES ASSUME NEW m \in S PROVE IsFiniteSet(0..m) /\ 0..m \subseteq Nat
      BY DEF FiniteSubsetsOf
    <2>. QED BY FS_Interval
  <1>2. T \subseteq FiniteSubsetsOf(Nat) /\ T # {}
    BY <1>1
  <1>3. IsWellFoundedOn(R, FiniteSubsetsOf(Nat))
    BY FS_StrictSubsetOrderingWellFounded
  <1>. HIDE DEF T
  <1>4. PICK x \in T : \A y \in T : ~ (<<y, x>> \in R)
    BY <1>2, <1>3, WFMin
  <1>5. PICK m \in S : x = 0..m
    BY DEF T
  <1>6. ASSUME NEW n \in S, n < m PROVE FALSE
    <2>1. 0..n \in T /\ ~ (<<0..n, 0..m>> \in R)
      BY <1>4, <1>5 DEF T
    <2>2. 0..n \in SUBSET Nat /\ 0..m \in SUBSET Nat /\ 0..n \subseteq 0..m
      BY <1>6
    <2>3. m \in 0..m /\ m \notin 0..n
      BY <1>6
    <2>. QED BY <2>1, <2>2, <2>3 DEF StrictSubsetOrdering
  <1>. QED BY <1>6

LEMMA GreatestElement ==
  ASSUME NEW S \in SUBSET Nat, S # {}, NEW b \in Nat, \A n \in S : n <= b
  PROVE  Max(S) \in S /\ \A n \in S : n <= Max(S)
  <1>. DEFINE D == {b - n : n \in S}
  <1>1. D \in SUBSET Nat /\ D # {}
    <2>1. \A n \in S : b - n \in Nat
      OBVIOUS
    <2>. QED BY <2>1
  <1>2. PICK d \in D : \A e \in D : d <= e
    BY <1>1, LeastElement
  <1>3. PICK m \in S : d = b - m
    OBVIOUS
  <1>4. ASSUME NEW n \in S PROVE m >= n
    <2>1. b - n \in D /\ n \in Nat /\ m \in Nat
      OBVIOUS
    <2>2. b - m <= b - n
      BY <1>2, <1>3, <2>1
    <2>. QED BY <2>1, <2>2
  <1>5. \E x \in S : \A y \in S : x >= y
    BY <1>4
  <1>6. Max(S) \in S /\ \A n \in S : Max(S) >= n
    BY <1>5 DEF Max
  <1>. QED BY <1>6

-----------------------------------------------------------------------------
(* MCPManager: who waits for the lock, who has it, and what they are at.     *)

Job == [at : Steps, op : Ops \cup {"call", "watch", "boot"}, tool : Tools]
Outside == {"idle", "create"}
Free == Outside \cup {"wait", "try"}
Alone(p) == \A u \in Procs \ {p} : job'[u] = job[u]

Locked ==
  /\ queue \in Seq(Procs) /\ Once(queue) /\ job \in [Procs -> Job]
  /\ \A p \in Procs : p \in Members(queue) <=> job[p].at \notin Outside
  /\ \A p \in Procs : job[p].at \notin Free => Holds(p)

\* What each process does, and for what.
Doing(p, step) ==
  /\ p \in Requests => step \notin {"run", "rerun", "try", "ping"}
  /\ p \in Calls => step \in {"idle", "wait", "open", "list", "save", "run", "rerun"}
  /\ p = Monitor => step \in {"idle", "wait", "open", "list", "save", "try", "ping"}
  /\ p = Boot => step \in {"idle", "wait", "open", "list", "save", "close"}
Placed ==
  /\ \A p \in Procs : Doing(p, job[p].at)
  /\ \A p \in Requests : job[p].at \notin Outside => job[p].op \in Ops
  /\ \A p \in Calls : job[p].op = "call"
  /\ job[Monitor].op = "watch" /\ job[Boot].op = "boot"

LEMMA HolderAlone ==
  ASSUME Locked, NEW p \in Procs, Holds(p), NEW u \in Procs \ {p}
  PROVE  job[u].at \in Free /\ ~Holds(u)
  BY DEF Locked, Holds

LEMMA GoesOn ==
  ASSUME job \in [Procs -> Job], NEW p \in Procs, NEW step \in Steps, Goto(p, step)
  PROVE  /\ job' \in [Procs -> Job] /\ Alone(p)
         /\ job'[p].at = step /\ job'[p].op = job[p].op /\ job'[p].tool = job[p].tool
  <1>1. job[p] \in Job
    OBVIOUS
  <1>2. job'[p] = [job[p] EXCEPT !.at = step] /\ Alone(p) /\ job' = [job EXCEPT ![p] = [job[p] EXCEPT !.at = step]]
    BY DEF Goto, Alone
  <1>3. /\ [job[p] EXCEPT !.at = step] \in Job
        /\ [job[p] EXCEPT !.at = step].at = step
        /\ [job[p] EXCEPT !.at = step].op = job[p].op
        /\ [job[p] EXCEPT !.at = step].tool = job[p].tool
    BY <1>1 DEF Job
  <1>. QED BY <1>2, <1>3

LEMMA Rests ==
  ASSUME job \in [Procs -> Job], NEW p \in Procs, Rest(p)
  PROVE  job' \in [Procs -> Job] /\ Alone(p) /\ job'[p] = Resting(p) /\ job'[p].at = "idle"
  <1>1. Anything \in Tools
    BY SanitizeAssumption DEF Anything
  <1>2. Resting(p) \in Job /\ Resting(p).at = "idle"
    BY <1>1 DEF Resting, Job, Steps
  <1>. QED BY <1>2 DEF Rest, Alone

\* The holder of the lock goes on, or leaves it.
LEMMA StaysLocked ==
  ASSUME Locked, NEW p \in Procs, Holds(p), UNCHANGED queue, Alone(p), job' \in [Procs -> Job],
         job[p].at \notin Outside, job'[p].at \notin Outside
  PROVE  Locked'
  BY HolderAlone DEF Locked, Holds, Free, Outside, Alone, Once, Members

LEMMA FinishLocked ==
  ASSUME Locked, NEW p \in Procs, Holds(p), Finish(p)
  PROVE  Locked'
  <1>1. /\ queue' = Tail(queue) /\ queue # << >> /\ Head(queue) = p
        /\ job' \in [Procs -> Job] /\ Alone(p) /\ job'[p].at = "idle"
    BY Rests DEF Finish, Holds, Locked
  <1>2. queue' \in Seq(Procs) /\ Once(queue)' /\ Members(queue') = Members(queue) \ {p}
    <2>1. queue \in Seq(Procs) /\ Once(queue)
      BY DEF Locked
    <2>2. /\ Tail(queue) \in Seq(Procs) /\ Once(Tail(queue))
          /\ Members(Tail(queue)) = Members(queue) \ {Head(queue)}
      BY <1>1, <2>1, LeaveLock
    <2>3. Once(queue)'
      BY <1>1, <2>2 DEF Once
    <2>. QED BY <1>1, <2>2, <2>3
  <1>3. \A u \in Procs \ {p} : job[u].at \in Free
    BY HolderAlone
  <1>. QED BY <1>1, <1>2, <1>3 DEF Locked, Alone, Outside, Free

LEMMA JoinLocked ==
  ASSUME Locked, NEW p \in Procs, job[p].at \in Outside, queue' = Append(queue, p),
         job' \in [Procs -> Job], Alone(p), job'[p].at \in {"wait", "try"}
  PROVE  Locked'
  <1>1. queue \in Seq(Procs) /\ Once(queue) /\ p \notin Members(queue)
    BY DEF Locked
  <1>2. /\ queue' \in Seq(Procs) /\ Once(queue)' /\ queue' # << >>
        /\ Members(queue') = Members(queue) \cup {p}
        /\ queue # << >> => Head(queue') = Head(queue)
    BY <1>1, JoinLock DEF Once
  <1>. QED BY <1>1, <1>2 DEF Locked, Alone, Outside, Free, Holds

\* A step of whoever has the lock.
HeldStep(p) ==
  /\ Holds(p) /\ job[p].at \notin Outside
  /\ \/ Finish(p)
     \/ /\ UNCHANGED queue
        /\ \E step \in Steps \ Outside : Doing(p, step) /\ Goto(p, step)

LEMMA HeldSteps ==
  ASSUME Locked, Placed, NEW p \in Procs,
         \/ Connecting(p)
         \/ p \in Requests /\ Serving(p) /\ ~Created(p)
         \/ p \in Calls /\ Calling(p)
         \/ p = Monitor /\ (Ping \/ Pong \/ Reconnect)
  PROVE  HeldStep(p)
  <1>. USE ProcsAssumption DEF HeldStep, Doing, Steps, Outside
  <1>0. \A step \in Steps : At(p, step) /\ step \notin {"idle", "create", "try"} => Holds(p) /\ job[p].at \notin Outside
    BY DEF At, Locked, Free
  <1>1. CASE Connect(p)
    BY <1>0, <1>1 DEF Connect, At, Placed
  <1>2. CASE Closed(p)
    BY <1>0, <1>2 DEF Closed, At, Placed
  <1>3. CASE Opened(p) \/ OpenFails(p) \/ Leak(p)
    BY <1>0, <1>3 DEF Opened, OpenFails, Leak, At, Placed
  <1>4. CASE Listed(p)
    BY <1>0, <1>4 DEF Listed, At, Placed
  <1>5. CASE ListFails(p) \/ SaveFails(p) \/ GiveUp(p)
    BY <1>0, <1>5 DEF ListFails, SaveFails, GiveUp, CleanUp, At
  <1>6. CASE Saved(p)
    BY <1>0, <1>6 DEF Saved, At, Placed, Ops
  <1>7. CASE p \in Requests /\ Serving(p) /\ ~Created(p)
    <2>1. CASE Disconnect(p) \/ Refresh(p) \/ Delete(p) \/ Erased(p)
      BY <1>0, <1>7, <2>1 DEF Disconnect, Refresh, Delete, Erased, At
    <2>2. CASE Mark(p)
      BY <1>0, <1>7, <2>2 DEF Mark, At
    <2>3. CASE MarkSaved(p) \/ MarkFails(p)
      BY <1>7, <2>3 DEF MarkSaved, MarkFails, Locked, Free
    <2>. QED BY <1>7, <2>1, <2>2, <2>3 DEF Serving
  <1>8. CASE p \in Calls /\ Calling(p)
    BY <1>0, <1>8 DEF Calling, Send, Answered, CallFails, At, Locked, Free
  <1>9. CASE p = Monitor /\ (Ping \/ Pong \/ Reconnect)
    BY <1>0, <1>9 DEF Ping, Pong, Reconnect, At
  <1>. QED BY <1>1, <1>2, <1>3, <1>4, <1>5, <1>6, <1>7, <1>8, <1>9 DEF Connecting

LEMMA HeldShape ==
  ASSUME Locked, Placed, NEW p \in Procs, HeldStep(p)
  PROVE  Locked' /\ Placed'
  <1>1. CASE Finish(p)
    <2>1. Alone(p) /\ job'[p] = Resting(p) /\ job'[p].at = "idle"
      BY <1>1, Rests DEF Finish, Locked
    <2>. QED BY <1>1, <2>1, FinishLocked, ProcsAssumption
             DEF HeldStep, Placed, Alone, Resting, Doing, Outside, Procs
  <1>2. ASSUME UNCHANGED queue, NEW step \in Steps \ Outside, Doing(p, step), Goto(p, step)
        PROVE  Locked' /\ Placed'
    <2>1. /\ job' \in [Procs -> Job] /\ Alone(p) /\ job'[p].at = step /\ job'[p].op = job[p].op
      BY <1>2, GoesOn DEF Locked
    <2>2. Locked'
      BY <1>2, <2>1, StaysLocked DEF HeldStep
    <2>3. Placed'
      BY <1>2, <2>1 DEF HeldStep, Placed, Alone, Procs
    <2>. QED BY <2>2, <2>3
  <1>. QED BY <1>1, <1>2 DEF HeldStep

LEMMA InitShape ==
  ASSUME job = [p \in Procs |-> Booting(p)],
         queue = IF stored.there THEN <<Boot>> ELSE << >>
  PROVE  Locked /\ Placed
  <1>1. Anything \in Tools
    BY SanitizeAssumption DEF Anything
  <1>2. ASSUME NEW p \in Procs
        PROVE  /\ Booting(p) \in Job /\ Booting(p).op = Resting(p).op
               /\ Booting(p).at = IF p = Boot /\ stored.there THEN "wait" ELSE "idle"
    BY <1>1 DEF Booting, Resting, Job, Steps
  <1>3. job \in [Procs -> Job] /\ \A p \in Procs : job[p] = Booting(p)
    BY <1>2
  <1>4. Placed
    BY <1>2, <1>3, ProcsAssumption DEF Placed, Doing, Resting, Outside, Procs
  <1>5. CASE stored.there
    <2>1. /\ queue = <<Boot>> /\ Len(queue) = 1 /\ queue[1] = Boot /\ queue \in Seq(Procs)
      BY <1>5 DEF Procs
    <2>2. Once(queue) /\ Members(queue) = {Boot}
      BY <2>1 DEF Once, Members
    <2>. QED BY <1>2, <1>3, <1>4, <1>5, <2>1, <2>2 DEF Locked, Outside, Free
  <1>6. CASE ~stored.there
    <2>1. queue = << >> /\ Once(queue) /\ Members(queue) = {}
      BY <1>6 DEF Once, Members
    <2>. QED BY <1>2, <1>3, <1>4, <1>6, <2>1 DEF Locked, Outside, Free
  <1>. QED BY <1>5, <1>6

-----------------------------------------------------------------------------
(* The configuration, its document and the registry.                         *)

Server == [there : BOOLEAN, tools : SUBSET Entry]
Data ==
  /\ config \in Server /\ Distinct(config.tools)
  /\ stored \in Server /\ Distinct(stored.tools)
  /\ conn \in {"none", "good", "bad"}
  /\ registry \subseteq Registration /\ Distinct(registry)
  /\ monitored \in BOOLEAN /\ unsaved \in BOOLEAN
  /\ asked \subseteq Tools /\ broken \subseteq Tools /\ stray \subseteq Calls

LEMMA UnregisterFine ==
  ASSUME NEW reg \in SUBSET Registration, Distinct(reg), NEW S
  PROVE  /\ Unregister(reg, S) \subseteq reg /\ Distinct(Unregister(reg, S))
         /\ \A r \in Unregister(reg, S), e \in S : ~Same(r, e)
         /\ \A r \in reg : (\A e \in S : ~Same(r, e)) => r \in Unregister(reg, S)
  BY DEF Unregister, Distinct

LEMMA RegisteredAre ==
  ASSUME NEW S \in SUBSET Entry
  PROVE  /\ AsRegistered(S) \subseteq Registration
         /\ \A r \in AsRegistered(S) : \E e \in S : e.tool = r.tool /\ r = [tool |-> e.tool, version |-> e.version]
         /\ \A e \in S : [tool |-> e.tool, version |-> e.version] \in AsRegistered(S)
  BY DEF AsRegistered, Entry, Registration

LEMMA RegisterFine ==
  ASSUME NEW reg \in SUBSET Registration, Distinct(reg), NEW S \in SUBSET Entry, Distinct(S)
  PROVE  Register(reg, S) \subseteq Registration /\ Distinct(Register(reg, S))
  <1>. DEFINE old == Unregister(reg, S)  new == AsRegistered(S)
  <1>1. old \subseteq reg /\ Distinct(old) /\ \A r \in old, e \in S : ~Same(r, e)
    BY UnregisterFine
  <1>2. new \subseteq Registration /\ \A r \in new : \E e \in S : r = [tool |-> e.tool, version |-> e.version]
    BY RegisteredAre
  <1>3. ASSUME NEW r \in new, NEW s \in new, Same(r, s) PROVE r = s
    <2>1. PICK e \in S : r = [tool |-> e.tool, version |-> e.version]
      BY <1>2, <1>3
    <2>2. PICK f \in S : s = [tool |-> f.tool, version |-> f.version]
      BY <1>2, <1>3
    <2>3. Same(e, f)
      BY <1>3, <2>1, <2>2 DEF Same
    <2>. QED BY <2>1, <2>2, <2>3 DEF Distinct
  <1>4. ASSUME NEW r \in old, NEW s \in new PROVE ~Same(r, s) /\ ~Same(s, r)
    <2>1. PICK f \in S : s = [tool |-> f.tool, version |-> f.version]
      BY <1>2, <1>4
    <2>. QED BY <1>1, <2>1 DEF Same
  <1>5. Register(reg, S) = old \cup new
    BY DEF Register
  <1>. HIDE DEF old, new
  <1>. QED BY <1>1, <1>2, <1>3, <1>4, <1>5 DEF Distinct

LEMMA FreshFine ==
  ASSUME Data, NEW l \in Listings
  PROVE  /\ Fresh(l) \subseteq Entry /\ Distinct(Fresh(l))
         /\ \A n \in Fresh(l) : n.approved => \E e \in Approved(config) : e.tool = n.tool
         /\ \A e \in Approved(config), r \in l :
              e.tool = r.tool => \E n \in Fresh(l) : n.tool = r.tool /\ n.approved
         /\ \A n \in Fresh(l) : \E r \in l : r.tool = n.tool
  <1>1. l \subseteq Registration /\ Distinct(l)
    BY DEF Listings
  <1>2. \A n \in Fresh(l) : \E r \in l :
          n = [tool |-> r.tool, version |-> r.version, approved |-> \E e \in Approved(config) : e.tool = r.tool]
    BY DEF Fresh
  <1>3. Fresh(l) \subseteq Entry
    <2>. SUFFICES ASSUME NEW n \in Fresh(l) PROVE n \in Entry
      OBVIOUS
    <2>1. PICK r \in l : \E b \in BOOLEAN : n = [tool |-> r.tool, version |-> r.version, approved |-> b]
      BY <1>2
    <2>. QED BY <1>1, <2>1 DEF Entry, Registration
  <1>4. Distinct(Fresh(l))
    <2>. SUFFICES ASSUME NEW m \in Fresh(l), NEW n \in Fresh(l), Same(m, n) PROVE m = n
      BY DEF Distinct
    <2>1. PICK r \in l : m = [tool |-> r.tool, version |-> r.version, approved |-> \E e \in Approved(config) : e.tool = r.tool]
      BY <1>2
    <2>2. PICK s \in l : n = [tool |-> s.tool, version |-> s.version, approved |-> \E e \in Approved(config) : e.tool = s.tool]
      BY <1>2
    <2>3. Same(r, s)
      BY <2>1, <2>2 DEF Same
    <2>4. r = s
      BY <1>1, <2>3 DEF Distinct
    <2>. QED BY <2>1, <2>2, <2>4
  <1>5. ASSUME NEW e \in Approved(config), NEW r \in l, e.tool = r.tool
        PROVE  \E n \in Fresh(l) : n.tool = r.tool /\ n.approved
    <2>. DEFINE n == [tool |-> r.tool, version |-> r.version, approved |-> \E f \in Approved(config) : f.tool = r.tool]
    <2>1. n \in Fresh(l)
      BY DEF Fresh
    <2>2. n.tool = r.tool /\ n.approved
      BY <1>5
    <2>. QED BY <2>1, <2>2
  <1>6. ASSUME NEW n \in Fresh(l) PROVE \E r \in l : r.tool = n.tool
    BY <1>2
  <1>7. ASSUME NEW n \in Fresh(l), n.approved PROVE \E e \in Approved(config) : e.tool = n.tool
    BY <1>2, <1>7
  <1>. QED BY <1>3, <1>4, <1>5, <1>6, <1>7

LEMMA MarkedFine ==
  ASSUME Data, NEW t \in Tools, NEW yes \in BOOLEAN
  PROVE  /\ Marked(t, yes) \in Server /\ Marked(t, yes).there = config.there
         /\ Distinct(Marked(t, yes).tools)
         /\ \A e \in Marked(t, yes).tools :
              \/ e \in config.tools /\ e.tool # t
              \/ e.tool = t /\ e.approved = yes /\ \E f \in Find(t) : f.version = e.version
         /\ \A e \in config.tools : e.tool # t => e \in Marked(t, yes).tools
         /\ \A e \in Find(t) : \E f \in Marked(t, yes).tools : f.tool = t
  <1>. DEFINE set == [e \in Entry |-> [e EXCEPT !.approved = yes]]
              new == (config.tools \ Find(t)) \cup {set[e] : e \in Find(t)}
  <1>1. config \in Server /\ config.tools \subseteq Entry /\ Distinct(config.tools) /\ Find(t) \subseteq config.tools
        /\ \A e \in config.tools : e \in Find(t) <=> e.tool = t
    BY DEF Data, Server, Find
  <1>2. \A e \in Entry : /\ set[e] \in Entry /\ set[e].tool = e.tool /\ set[e].version = e.version
                         /\ set[e].approved = yes
    BY DEF Entry
  <1>3. Marked(t, yes) = [config EXCEPT !.tools = new]
    BY <1>1 DEF Marked
  <1>. HIDE DEF set
  <1>4. new \subseteq Entry
    BY <1>1, <1>2
  <1>5. \A e \in new : \E f \in config.tools : f.tool = e.tool /\ (e = f \/ (f.tool = t /\ e = set[f]))
    BY <1>1, <1>2
  <1>6. Distinct(new)
    <2>. SUFFICES ASSUME NEW e \in new, NEW f \in new, Same(e, f) PROVE e = f
      BY DEF Distinct
    <2>1. CASE e \in config.tools \ Find(t) /\ f \in config.tools \ Find(t)
      BY <1>1, <2>1 DEF Distinct
    <2>2. ASSUME NEW g \in Find(t), e = set[g], f \in config.tools \ Find(t) PROVE FALSE
      BY <1>1, <1>2, <2>2 DEF Distinct, Same
    <2>3. ASSUME NEW g \in Find(t), f = set[g], e \in config.tools \ Find(t) PROVE FALSE
      BY <1>1, <1>2, <2>3 DEF Distinct, Same
    <2>4. ASSUME NEW g \in Find(t), NEW h \in Find(t), e = set[g], f = set[h] PROVE e = f
      BY <1>1, <1>2, <2>4 DEF Distinct, Same
    <2>. QED BY <2>1, <2>2, <2>3, <2>4
  <1>7. ASSUME NEW e \in new
        PROVE  \/ e \in config.tools /\ e.tool # t
               \/ e.tool = t /\ e.approved = yes /\ \E f \in Find(t) : f.version = e.version
    BY <1>1, <1>2
  <1>8. /\ \A e \in config.tools : e.tool # t => e \in new
        /\ \A e \in Find(t) : \E f \in new : f.tool = t
    BY <1>1, <1>2
  <1>. HIDE DEF new
  <1>9. Marked(t, yes) \in Server /\ Marked(t, yes).there = config.there /\ Marked(t, yes).tools = new
    BY <1>1, <1>3, <1>4 DEF Server
  <1>. QED BY <1>6, <1>7, <1>8, <1>9

-----------------------------------------------------------------------------
(* The inductive invariant.                                                  *)

\* What the step a process is at says of the server.
Fits(p) ==
  /\ job[p].at = "close" => /\ job[p].op \in {"connect", "boot", "disconnect"}
                            /\ job[p].op = "disconnect" \/ config.there
  /\ job[p].at = "open" => job[p].op # "refresh"
  /\ job[p].at \in {"open", "list", "save"} => config.there
  /\ job[p].at \in {"list", "save", "run"} => conn # "none"
  /\ job[p].at \in {"open", "close", "erase"} => conn = "none"
  /\ job[p].at \in {"approve", "revoke"} =>
       /\ p \in Requests /\ Find(job[p].tool) # {}
       /\ \A e \in Find(job[p].tool) : e.approved <=> job[p].at = "approve"
  /\ job[p].at = "approve" => job[p].tool \in asked
  /\ job[p].at = "erase" => \A r \in registry : r.tool \in broken
There ==
  /\ config.there => stored.there
  /\ config.tools # {} => config.there
  /\ stored.tools # {} => stored.there
  /\ conn # "none" => config.there
Asked == \A e \in Approved(config) \cup Approved(stored) : e.tool \in asked
Known == \A r \in registry : r.tool \in asked \cup broken
CallsKnown == \A p \in Calls \ stray : job[p].at # "idle" => job[p].tool \in asked

\* The document is the configuration, except while that is being written.
Written ==
  config.there /\ ~unsaved /\ (\A p \in Procs : job[p].at \notin {"save", "approve", "revoke"})
    => stored = config

\* What a connection serves, except for what is being marked.
Marking == {p \in Requests : job[p].at \in {"approve", "revoke"}}
Unsettled == broken \cup {job[p].tool : p \in Marking}
Agrees(reg, tools, but) ==
  /\ \A r \in reg : r.tool \notin but =>
       \E e \in tools : e.approved /\ e.tool = r.tool /\ e.version = r.version
  /\ \A e \in tools : e.approved /\ e.tool \notin but =>
       \E r \in reg : e.tool = r.tool /\ e.version = r.version
Connected ==
  conn # "none" /\ (\A p \in Procs : job[p].at \in {"list", "save"} => job[p].op = "refresh")
    => Agrees(registry, config.tools, Unsettled)

Stands ==
  /\ \A p \in Procs : Fits(p)
  /\ There /\ RegisteredApproved /\ Known /\ Asked /\ CallsKnown /\ Written /\ Connected
Sound == Locked /\ Placed /\ Data /\ Stands

LEMMA HolderMarks ==
  ASSUME Locked, Placed, NEW p \in Procs, Holds(p)
  PROVE  /\ \A u \in Procs \ {p} : job[u].at \in Free
         /\ Marking \subseteq {p}
         /\ job[p].at \notin {"approve", "revoke"} => Unsettled = broken /\ Marking = {}
  <1>1. \A u \in Procs \ {p} : job[u].at \in Free
    BY HolderAlone
  <1>. QED BY <1>1 DEF Marking, Unsettled, Free, Outside, Procs

LEMMA HeldFits ==
  ASSUME Locked, Placed, NEW p \in Procs, Holds(p), Alone(p), Fits(p)'
  PROVE  \A u \in Procs : Fits(u)'
  <1>. SUFFICES ASSUME NEW u \in Procs \ {p} PROVE Fits(u)'
    OBVIOUS
  <1>1. job'[u].at \in Free
    BY HolderAlone DEF Alone
  <1>. QED BY <1>1 DEF Fits, Free, Outside

\* Steps that leave the configuration and what is registered.
Aside(p) ==
  /\ p \in Procs /\ Alone(p)
  /\ UNCHANGED <<config, stored, registry, asked, stray, broken, unsaved>>
  /\ conn' = conn \/ Holds(p)
  /\ Fits(p)'
  /\ conn' # "none" => config.there
  /\ conn' # "none" /\ (job'[p].at \in {"list", "save"} => job'[p].op = "refresh")
       => conn # "none" /\ (job[p].at \in {"list", "save"} => job[p].op = "refresh")
  /\ job[p].at \notin {"save", "approve", "revoke"} /\ job'[p].at \notin {"approve", "revoke"}
  /\ p \in Calls /\ job'[p].at # "idle" => job[p].at # "idle" /\ job'[p].tool = job[p].tool

LEMMA AsideSound ==
  ASSUME Sound, NEW p, Aside(p)
  PROVE  Stands'
  <1>. USE DEF Aside
  <1>1. \A u \in Procs : Fits(u)'
    <2>1. CASE Holds(p)
      BY <2>1, HeldFits DEF Sound
    <2>2. CASE conn' = conn
      BY <2>2 DEF Sound, Stands, Fits, Find, Alone
    <2>. QED BY <2>1, <2>2
  <1>2. There' /\ Known' /\ Asked'
    BY DEF Sound, Stands, There, Known, Asked, Approved
  <1>3. \A u \in Procs : job[u].at \in {"approve", "revoke"} <=> job'[u].at \in {"approve", "revoke"}
    BY DEF Alone
  <1>4. \A u \in Procs : job[u].at \in {"approve", "revoke"} => job'[u] = job[u]
    BY DEF Alone
  <1>5. Marking' = Marking /\ Unsettled' = Unsettled
    BY <1>3, <1>4 DEF Marking, Unsettled, Procs
  <1>6. RegisteredApproved'
    BY <1>4 DEF Sound, Stands, RegisteredApproved, Approved, Procs
  <1>7. CallsKnown'
    BY DEF Sound, Stands, CallsKnown, Alone, Procs
  <1>8. Written'
    BY DEF Sound, Stands, Written, Alone
  <1>9. Connected'
    BY <1>5 DEF Sound, Stands, Connected, Alone
  <1>. QED BY <1>1, <1>2, <1>6, <1>7, <1>8, <1>9 DEF Stands

LEMMA AsideSteps ==
  ASSUME Sound, NEW p \in Procs,
         \/ Closed(p) \/ Opened(p) \/ OpenFails(p) \/ Leak(p)
         \/ Connect(p) /\ ~config.there
         \/ ListFails(p) /\ job[p].op = "refresh"
         \/ p \in Requests /\ (Request(p) \/ AskCreate(p) \/ Refresh(p))
         \/ p \in Calls /\ Calling(p)
         \/ p = Monitor /\ (Look \/ Skip \/ Ping \/ Pong \/ NoPong \/ Reconnect)
  PROVE  Aside(p) /\ Data'
  <1>. USE ProcsAssumption
  <1>0. /\ job \in [Procs -> Job] /\ There /\ Fits(p) /\ Data
        /\ Holds(p) \/ job[p].at \in Free
    BY DEF Sound, Stands, Locked
  <1>1. CASE Closed(p) \/ Opened(p) \/ OpenFails(p) \/ Leak(p)
    <2>1. job[p].at \in {"close", "open"} /\ Holds(p)
      BY <1>0, <1>1 DEF Closed, Opened, OpenFails, Leak, At, Free, Outside
    <2>2. CASE Closed(p) /\ job[p].op # "disconnect"
      <3>1. Goto(p, "open") /\ "open" \in Steps /\ job[p].at = "close"
        BY <2>2 DEF Closed, Steps, At
      <3>. QED BY <1>0, <2>1, <2>2, <3>1, GoesOn DEF Closed, Aside, Fits, There, Data, Find
    <2>3. CASE Opened(p)
      <3>1. Goto(p, "list") /\ "list" \in Steps /\ job[p].at = "open"
        BY <2>3 DEF Opened, Steps, At
      <3>. QED BY <1>0, <2>1, <2>3, <3>1, GoesOn DEF Opened, Aside, Fits, There, Data, Find
    <2>4. CASE (Closed(p) /\ job[p].op = "disconnect") \/ OpenFails(p) \/ Leak(p)
      <3>1. Rest(p)
        BY <2>4 DEF Closed, OpenFails, Leak, Finish
      <3>. QED BY <1>0, <2>1, <2>4, <3>1, Rests DEF Closed, OpenFails, Leak, Aside, Fits, There, Data
    <2>. QED BY <1>1, <2>2, <2>3, <2>4
  <1>2. CASE Connect(p) /\ ~config.there
    <2>1. Rest(p) /\ Holds(p) /\ job[p].at = "wait"
      BY <1>2 DEF Connect, Finish, At
    <2>. QED BY <1>0, <1>2, <2>1, Rests DEF Connect, Aside, Fits, There, Data
  <1>3. CASE ListFails(p) /\ job[p].op = "refresh"
    <2>1. Rest(p) /\ job[p].at = "list" /\ Holds(p)
      BY <1>0, <1>3 DEF ListFails, CleanUp, Finish, At, Free, Outside
    <2>. QED BY <1>0, <1>3, <2>1, Rests DEF ListFails, CleanUp, Aside, Fits, There, Data
  <1>4. CASE p \in Requests /\ Request(p)
    <2>1. PICK op \in Ops, t \in Tools : job' = [job EXCEPT ![p] = [at |-> "wait", op |-> op, tool |-> t]]
      BY <1>4 DEF Request
    <2>2. Alone(p) /\ job'[p] = [at |-> "wait", op |-> op, tool |-> t]
      BY <1>0, <2>1 DEF Alone
    <2>. QED BY <1>0, <1>4, <2>2 DEF Request, Aside, Fits, There, Data
  <1>5. CASE p \in Requests /\ AskCreate(p)
    <2>1. Goto(p, "create") /\ "create" \in Steps /\ job[p].at = "idle"
      BY <1>5 DEF AskCreate, Steps
    <2>. QED BY <1>0, <1>5, <2>1, GoesOn DEF AskCreate, Aside, Fits, There, Data
  <1>6. CASE p \in Requests /\ Refresh(p)
    <2>1. Holds(p) /\ job[p].at = "wait" /\ job[p].op = "refresh" /\ "list" \in Steps
      BY <1>6 DEF Refresh, At, Steps
    <2>2. CASE Goto(p, "list") /\ config.there /\ conn # "none"
      BY <1>0, <1>6, <2>1, <2>2, GoesOn DEF Refresh, Aside, Fits, There, Data
    <2>3. CASE Rest(p)
      BY <1>0, <1>6, <2>1, <2>3, Rests DEF Refresh, Aside, Fits, There, Data
    <2>. QED BY <1>6, <2>2, <2>3 DEF Refresh, Finish
  <1>7. CASE p \in Calls /\ Calling(p)
    <2>1. Holds(p) /\ job[p].at \in {"wait", "run", "rerun"} /\ "run" \in Steps /\ "open" \in Steps
          /\ job[p].op = "call"
      BY <1>0, <1>7 DEF Calling, Send, Answered, CallFails, At, Steps, Free, Outside, Sound, Placed
    <2>2. CASE Rest(p) /\ UNCHANGED conn
      BY <1>0, <1>7, <2>1, <2>2, Rests DEF Calling, Send, Answered, CallFails, Aside, Fits, There, Data
    <2>3. CASE Goto(p, "run") /\ conn # "none" /\ UNCHANGED conn
      BY <1>0, <1>7, <2>1, <2>3, GoesOn DEF Calling, Send, Answered, CallFails, Aside, Fits, There, Data
    <2>4. CASE CallFails(p)
      <3>1. Goto(p, "open") /\ job[p].at = "run"
        BY <2>4 DEF CallFails, At
      <3>. QED BY <1>0, <1>7, <2>1, <2>4, <3>1, GoesOn DEF CallFails, Aside, Fits, There, Data
    <2>. QED BY <1>7, <2>2, <2>3, <2>4 DEF Calling, Send, Answered, Finish
  <1>8. CASE p = Monitor /\ (Look \/ Skip \/ Ping \/ Pong \/ NoPong \/ Reconnect)
    <2>0. job[p].op = "watch" /\ p \notin Calls /\ {"try", "idle", "ping", "wait", "open"} \subseteq Steps
      BY <1>8 DEF Sound, Placed, Steps
    <2>1. CASE Look \/ Skip
      <3>1. PICK step \in {"try", "idle"} : Goto(p, step)
        BY <1>8, <2>1 DEF Look, Skip
      <3>. QED BY <1>0, <1>8, <2>0, <2>1, <3>1, GoesOn DEF Look, Skip, Aside, Fits, There, Data
    <2>2. CASE Rest(p) /\ (Ping \/ Pong)
      BY <1>0, <1>8, <2>0, <2>2, Rests DEF Ping, Pong, At, Aside, Fits, There, Data
    <2>3. CASE Goto(p, "ping") /\ Ping
      BY <1>0, <1>8, <2>0, <2>3, GoesOn DEF Ping, Aside, Fits, There, Data
    <2>4. CASE NoPong
      BY <1>0, <1>8, <2>0, <2>4, GoesOn DEF NoPong, At, Aside, Fits, There, Data
    <2>5. CASE Reconnect /\ Rest(p)
      BY <1>0, <1>8, <2>0, <2>5, Rests DEF Reconnect, At, Aside, Fits, There, Data
    <2>6. CASE Reconnect /\ config.there /\ Goto(p, "open")
      BY <1>0, <1>8, <2>0, <2>6, GoesOn DEF Reconnect, At, Aside, Fits, There, Data
    <2>. QED BY <1>8, <2>1, <2>2, <2>3, <2>4, <2>5, <2>6 DEF Ping, Pong, Reconnect, Finish
  <1>. QED BY <1>1, <1>2, <1>3, <1>4, <1>5, <1>6, <1>7, <1>8

\* Steps that drop the connection, and its tools from the registry.
Clears(p) ==
  /\ p \in Procs /\ Alone(p) /\ Holds(p)
  /\ UNCHANGED <<config, asked, stray, broken>>
  /\ conn' = "none" /\ registry' \in {registry, Cleared}
  /\ Fits(p)'
  /\ \/ stored' = config
     \/ stored' = stored /\ unsaved'
     \/ UNCHANGED <<stored, unsaved>> /\ job[p].at # "save"
  /\ job[p].at \notin {"approve", "revoke"} /\ job'[p].at \notin {"approve", "revoke"}
  /\ p \in Calls /\ job'[p].at # "idle" => job[p].at # "idle" /\ job'[p].tool = job[p].tool

LEMMA ClearedAre ==
  ASSUME Data, RegisteredApproved, Marking = {}
  PROVE  /\ Cleared \subseteq registry /\ Distinct(Cleared)
         /\ \A r \in Cleared : r.tool \in broken
  <1>1. /\ Cleared \subseteq registry /\ Distinct(Cleared)
        /\ \A r \in Cleared, e \in Approved(config) : ~Same(r, e)
    BY UnregisterFine DEF Data, Cleared
  <1>2. \A r \in Cleared, e \in Approved(config) : r.tool # e.tool
    BY <1>1 DEF Same
  <1>. QED BY <1>1, <1>2 DEF RegisteredApproved, Marking

LEMMA ClearsSound ==
  ASSUME Sound, NEW p, Clears(p)
  PROVE  Stands'
  <1>. USE DEF Clears
  <1>0. Marking = {} /\ Unsettled = broken /\ Marking' = {} /\ registry' \subseteq registry
    <2>1. Marking = {} /\ Unsettled = broken
      BY HolderMarks DEF Sound
    <2>2. Marking' = {}
      BY <2>1 DEF Marking, Alone, Procs
    <2>. QED BY <2>1, <2>2, ClearedAre DEF Sound, Stands
  <1>1. \A u \in Procs : Fits(u)'
    BY HeldFits DEF Sound
  <1>2. There' /\ Known' /\ Asked'
    BY <1>0 DEF Sound, Stands, There, Known, Asked, Approved
  <1>3. RegisteredApproved'
    BY <1>0 DEF Sound, Stands, RegisteredApproved, Approved, Marking
  <1>4. CallsKnown'
    BY DEF Sound, Stands, CallsKnown, Alone, Procs
  <1>5. Written'
    BY DEF Sound, Stands, Written, Alone
  <1>6. Connected'
    BY DEF Connected
  <1>. QED BY <1>1, <1>2, <1>3, <1>4, <1>5, <1>6 DEF Stands

LEMMA ClearsSteps ==
  ASSUME Sound, NEW p \in Procs,
         \/ Connect(p) /\ config.there
         \/ (ListFails(p) \/ SaveFails(p) \/ GiveUp(p)) /\ job[p].op # "refresh"
         \/ p \in Requests /\ (Disconnect(p) \/ (Delete(p) /\ config.there))
  PROVE  Clears(p) /\ Data'
  <1>. USE ProcsAssumption
  <1>0. /\ job \in [Procs -> Job] /\ There /\ Fits(p) /\ Data
        /\ Holds(p) \/ job[p].at \in Free
        /\ {"open", "close", "erase"} \subseteq Steps
    BY DEF Sound, Stands, Locked, Steps
  <1>1. Holds(p) /\ job[p].at \in {"wait", "list", "save"}
    BY <1>0 DEF Connect, ListFails, SaveFails, GiveUp, Disconnect, Delete, At, Free, Outside
  <1>2. Marking = {}
    BY <1>1, HolderMarks DEF Sound
  <1>3. Cleared \subseteq registry /\ Distinct(Cleared) /\ \A r \in Cleared : r.tool \in broken
    BY <1>2, ClearedAre DEF Sound, Stands
  <1>4. CASE Connect(p) /\ config.there
    <2>1. PICK step \in {"open", "close"} : Goto(p, step) /\ job[p].op \in {"connect", "boot"} /\ job[p].at = "wait"
      BY <1>4 DEF Connect, At
    <2>. QED BY <1>0, <1>1, <1>3, <1>4, <2>1, GoesOn DEF Connect, Clears, Fits, Data
  <1>5. CASE (ListFails(p) \/ SaveFails(p) \/ GiveUp(p)) /\ job[p].op # "refresh"
    <2>1. /\ Rest(p) /\ conn' = "none" /\ registry' = Cleared /\ UNCHANGED <<config, asked, stray, broken>>
          /\ monitored' \in BOOLEAN
      BY <1>0, <1>5 DEF ListFails, SaveFails, GiveUp, CleanUp, Finish, Data
    <2>2. /\ stored' \in {stored, config} /\ unsaved' \in BOOLEAN
          /\ \/ stored' = config
             \/ stored' = stored /\ unsaved'
             \/ UNCHANGED <<stored, unsaved>> /\ job[p].at # "save"
      BY <1>0, <1>5 DEF ListFails, SaveFails, GiveUp, At, Data
    <2>. QED BY <1>0, <1>1, <1>3, <2>1, <2>2, Rests DEF Clears, Fits, Data
  <1>6. CASE p \in Requests /\ Disconnect(p)
    <2>1. CASE Rest(p)
      BY <1>0, <1>1, <1>3, <1>6, <2>1, Rests DEF Disconnect, At, Clears, Fits, Data
    <2>2. CASE Goto(p, "close")
      BY <1>0, <1>1, <1>3, <1>6, <2>2, GoesOn DEF Disconnect, At, Clears, Fits, Data
    <2>. QED BY <1>6, <2>1, <2>2 DEF Disconnect, Finish
  <1>7. CASE p \in Requests /\ Delete(p) /\ config.there
    BY <1>0, <1>1, <1>3, <1>7, GoesOn DEF Delete, At, Clears, Fits, Data
  <1>. QED BY <1>4, <1>5, <1>6, <1>7

-----------------------------------------------------------------------------
(* Listing, marking, creating and deleting.                                  *)

LEMMA ListedRegistry ==
  ASSUME Data, RegisteredApproved, Marking = {}, NEW l \in Listings,
         NEW reg, reg = Unregister(Register(registry, Changed(l)), Vanished(l))
  PROVE  /\ reg \subseteq Registration /\ Distinct(reg)
         /\ \A r \in reg : r.tool \in broken \/ \E e \in Fresh(l) : e.approved /\ e.tool = r.tool
         /\ \A r \in reg : r \in registry \/ \E n \in Changed(l) : r.tool = n.tool
         /\ Agrees(registry, config.tools, broken) => Agrees(reg, Fresh(l), broken)
  <1>. DEFINE C == Changed(l)  V == Vanished(l)  mid == Register(registry, C)
  <1>1. /\ Fresh(l) \subseteq Entry /\ Distinct(Fresh(l))
        /\ \A n \in Fresh(l) : n.approved => \E e \in Approved(config) : e.tool = n.tool
        /\ \A e \in Approved(config), r \in l :
             e.tool = r.tool => \E n \in Fresh(l) : n.tool = r.tool /\ n.approved
        /\ \A n \in Fresh(l) : \E r \in l : r.tool = n.tool
    BY FreshFine
  <1>2. /\ C \subseteq Fresh(l) /\ C \subseteq Entry /\ Distinct(C)
        /\ \A n \in C : n.approved
        /\ \A n \in Fresh(l) : n.approved /\ n \notin C => n \in config.tools
        /\ V \subseteq Approved(config) /\ \A v \in V, n \in Fresh(l) : v.tool # n.tool
        /\ \A e \in Approved(config) : e \notin V => \E r \in l : r.tool = e.tool
    BY <1>1 DEF Changed, Vanished, Distinct
  <1>3. /\ registry \subseteq Registration /\ Distinct(registry)
        /\ config.tools \subseteq Entry /\ Distinct(config.tools)
        /\ \A e \in config.tools : e \in Approved(config) <=> e.approved
        /\ Approved(config) \subseteq config.tools
    BY DEF Data, Server, Approved
  <1>4. mid \subseteq Registration /\ Distinct(mid)
    BY <1>2, <1>3, RegisterFine
  <1>5. /\ reg \subseteq mid /\ Distinct(reg) /\ \A r \in reg, v \in V : ~Same(r, v)
        /\ \A r \in mid : (\A v \in V : ~Same(r, v)) => r \in reg
    BY <1>4, UnregisterFine
  <1>6. \A r \in mid : \/ r \in registry /\ \A n \in C : ~Same(r, n)
                       \/ \E n \in C : n.tool = r.tool /\ n.version = r.version
    BY <1>2, RegisteredAre DEF Register, Unregister
  <1>7. /\ \A r \in registry : (\A n \in C : ~Same(r, n)) => r \in mid
        /\ \A n \in C : [tool |-> n.tool, version |-> n.version] \in mid
    BY <1>2, <1>3, RegisteredAre, UnregisterFine DEF Register
  <1>. HIDE DEF C, V, mid
  <1>8. ASSUME NEW r \in reg
        PROVE  r.tool \in broken \/ \E e \in Fresh(l) : e.approved /\ e.tool = r.tool
    <2>. SUFFICES ASSUME r \in registry, r.tool \notin broken
                  PROVE  \E e \in Fresh(l) : e.approved /\ e.tool = r.tool
      BY <1>2, <1>5, <1>6
    <2>1. PICK e \in Approved(config) : e.tool = r.tool
      BY DEF RegisteredApproved, Marking
    <2>2. e \notin V
      BY <1>5, <2>1 DEF Same
    <2>. QED BY <1>1, <1>2, <2>1, <2>2
  <1>9. ASSUME Agrees(registry, config.tools, broken), NEW r \in reg, r.tool \notin broken
        PROVE  \E e \in Fresh(l) : e.approved /\ e.tool = r.tool /\ e.version = r.version
    <2>1. CASE \E n \in C : n.tool = r.tool /\ n.version = r.version
      BY <1>2, <2>1
    <2>2. CASE r \in registry /\ \A n \in C : ~Same(r, n)
      <3>1. PICK e \in config.tools : e.approved /\ e.tool = r.tool /\ e.version = r.version
        BY <1>9, <2>2 DEF Agrees
      <3>2. PICK n \in Fresh(l) : n.approved /\ n.tool = r.tool
        BY <1>8, <1>9
      <3>3. n \notin C
        BY <2>2, <3>2 DEF Same
      <3>4. n \in config.tools
        BY <1>2, <3>2, <3>3
      <3>5. Same(n, e)
        BY <3>1, <3>2 DEF Same
      <3>6. n = e
        BY <1>3, <3>4, <3>5 DEF Distinct
      <3>. QED BY <3>1, <3>2, <3>6
    <2>. QED BY <1>5, <1>6, <2>1, <2>2
  <1>10. ASSUME Agrees(registry, config.tools, broken), NEW e \in Fresh(l), e.approved, e.tool \notin broken
         PROVE  \E r \in reg : e.tool = r.tool /\ e.version = r.version
    <2>1. PICK r \in mid : e.tool = r.tool /\ e.version = r.version
      <3>1. CASE e \in C
        <4>. DEFINE x == [tool |-> e.tool, version |-> e.version]
        <4>1. x \in mid /\ x.tool = e.tool /\ x.version = e.version
          BY <1>7, <3>1
        <4>. QED BY <4>1
      <3>2. CASE e \notin C
        <4>1. e \in config.tools
          BY <1>2, <1>10, <3>2
        <4>2. PICK r \in registry : e.tool = r.tool /\ e.version = r.version
          BY <1>10, <4>1 DEF Agrees
        <4>3. ASSUME NEW n \in C, Same(r, n) PROVE FALSE
          <5>1. Same(e, n)
            BY <4>2, <4>3 DEF Same
          <5>2. e = n
            BY <1>1, <1>2, <5>1 DEF Distinct
          <5>. QED BY <3>2, <4>3, <5>2
        <4>. QED BY <1>7, <4>2, <4>3
      <3>. QED BY <3>1, <3>2
    <2>2. ASSUME NEW v \in V, Same(r, v) PROVE FALSE
      <3>1. PICK f \in Approved(config) : f.tool = e.tool
        BY <1>1, <1>10
      <3>2. Same(f, v)
        BY <2>1, <2>2, <3>1 DEF Same
      <3>3. f = v
        BY <1>2, <1>3, <3>2 DEF Distinct
      <3>. QED BY <1>2, <2>2, <3>1, <3>3
    <2>. QED BY <1>5, <2>1, <2>2
  <1>11. \A r \in reg : r \in registry \/ \E n \in Changed(l) : r.tool = n.tool
    BY <1>5, <1>6 DEF C
  <1>12. Agrees(registry, config.tools, broken) => Agrees(reg, Fresh(l), broken)
    BY <1>9, <1>10 DEF Agrees
  <1>. QED BY <1>4, <1>5, <1>8, <1>11, <1>12

\* The server does not exist, or has no such tool.
LEMMA NothingSound ==
  ASSUME Sound, NEW p \in Requests,
         (Mark(p) /\ Find(job[p].tool) = {}) \/ (Delete(p) /\ ~config.there)
  PROVE  Aside(p) /\ Data'
  <1>1. /\ p \in Procs /\ p \notin Calls /\ job \in [Procs -> Job] /\ There /\ Data
        /\ job[p].at = "wait" /\ Holds(p) /\ Rest(p)
    BY ProcsAssumption DEF Sound, Stands, Locked, Mark, Delete, At, Finish, Procs
  <1>2. UNCHANGED <<config, stored, conn, registry, monitored, asked, stray, broken, unsaved>>
    BY DEF Mark, Delete
  <1>. QED BY <1>1, <1>2, Rests DEF Aside, Fits, There, Data

LEMMA ListedSound ==
  ASSUME Sound, NEW p \in Procs, Listed(p)
  PROVE  Stands' /\ Data'
  <1>1. /\ job[p].at = "list" /\ Goto(p, "save") /\ "save" \in Steps /\ conn = "good" /\ Data /\ There
        /\ job \in [Procs -> Job] /\ Holds(p) /\ Fits(p) /\ RegisteredApproved
    BY DEF Sound, Stands, Locked, Listed, At, Steps, Free, Outside
  <1>2. PICK l \in Listings :
          /\ registry' = Unregister(Register(registry, Changed(l)), Vanished(l))
          /\ config' = [config EXCEPT !.tools = Fresh(l)]
    BY DEF Listed
  <1>3. UNCHANGED <<stored, conn, queue, monitored, asked, stray, broken, unsaved>>
    BY DEF Listed
  <1>4. Marking = {} /\ Unsettled = broken
    BY <1>1, HolderMarks DEF Sound
  <1>5. /\ Fresh(l) \subseteq Entry /\ Distinct(Fresh(l))
        /\ \A n \in Fresh(l) : n.approved => \E e \in Approved(config) : e.tool = n.tool
    BY <1>1, FreshFine
  <1>6. config' \in Server /\ config'.there = config.there /\ config'.tools = Fresh(l)
    BY <1>1, <1>2, <1>5 DEF Data, Server
  <1>7. /\ registry' \subseteq Registration /\ Distinct(registry')
        /\ \A r \in registry' : r.tool \in broken \/ \E e \in Fresh(l) : e.approved /\ e.tool = r.tool
        /\ \A r \in registry' : r \in registry \/ \E n \in Changed(l) : r.tool = n.tool
        /\ Agrees(registry, config.tools, broken) => Agrees(registry', Fresh(l), broken)
    BY <1>1, <1>2, <1>4, ListedRegistry
  <1>8. Alone(p) /\ job'[p].at = "save" /\ job'[p].op = job[p].op /\ job'[p].tool = job[p].tool
    BY <1>1, GoesOn
  <1>9. \A n \in Fresh(l) : n.approved => n.tool \in asked
    BY <1>5 DEF Sound, Stands, Asked
  <1>10. Distinct(config'.tools) /\ Distinct(registry)'
    BY <1>5, <1>6, <1>7 DEF Distinct, Same
  <1>11. Data'
    BY <1>1, <1>3, <1>6, <1>7, <1>10 DEF Data, Distinct, Same
  <1>12. \A u \in Procs : Fits(u)'
    <2>1. Fits(p)'
      BY <1>1, <1>3, <1>6, <1>8 DEF Fits
    <2>. QED BY <1>1, <1>8, <2>1, HeldFits DEF Sound
  <1>13. There' /\ Asked' /\ Known'
    <2>1. There'
      BY <1>1, <1>3, <1>6, <1>8 DEF There, Fits
    <2>2. Asked'
      BY <1>3, <1>6, <1>9 DEF Sound, Stands, Asked, Approved
    <2>3. Known'
      BY <1>3, <1>7, <1>9 DEF Sound, Stands, Known, Changed
    <2>. QED BY <2>1, <2>2, <2>3
  <1>14. RegisteredApproved'
    BY <1>3, <1>6, <1>7 DEF RegisteredApproved, Approved
  <1>15. CallsKnown'
    BY <1>1, <1>3, <1>8 DEF Sound, Stands, CallsKnown, Alone, Procs
  <1>16. Written'
    BY <1>8 DEF Written
  <1>17. Connected'
    <2>. SUFFICES ASSUME job'[p].op = "refresh" PROVE Agrees(registry', config'.tools, Unsettled')
      BY <1>8 DEF Connected
    <2>1. Agrees(registry, config.tools, broken)
      <3>1. \A u \in Procs : job[u].at \in {"list", "save"} => job[u].op = "refresh"
        BY <1>1, <1>8, HolderAlone DEF Sound, Free, Outside
      <3>. QED BY <1>1, <1>4, <3>1 DEF Sound, Stands, Connected
    <2>2. Unsettled' = broken
      BY <1>3, <1>4, <1>8 DEF Unsettled, Marking, Alone, Procs
    <2>. QED BY <1>6, <1>7, <2>1, <2>2
  <1>. QED BY <1>11, <1>12, <1>13, <1>14, <1>15, <1>16, <1>17 DEF Stands

LEMMA SavedSound ==
  ASSUME Sound, NEW p \in Procs, Saved(p) \/ (SaveFails(p) /\ job[p].op = "refresh")
  PROVE  Stands' /\ Data'
  <1>1. /\ job[p].at = "save" /\ Data /\ There /\ "rerun" \in Steps
        /\ job \in [Procs -> Job] /\ Holds(p) /\ Fits(p) /\ RegisteredApproved
    BY DEF Sound, Stands, Locked, Saved, SaveFails, At, Steps, Free, Outside
  <1>2. /\ UNCHANGED <<config, conn, asked, stray, broken>> /\ monitored' \in BOOLEAN
        /\ \/ stored' = config /\ unsaved' = FALSE
           \/ stored' = stored /\ unsaved' = TRUE
        /\ \/ registry' = registry /\ job[p].op = "refresh"
           \/ registry' = Register(registry, Approved(config))
    BY <1>1 DEF Saved, SaveFails, CleanUp, Data
  <1>3. /\ Alone(p) /\ job'[p].at \in {"rerun", "idle"}
        /\ job'[p].at = "rerun" => job'[p].tool = job[p].tool
    <2>1. CASE Rest(p)
      BY <1>1, <2>1, Rests
    <2>2. CASE Goto(p, "rerun")
      BY <1>1, <2>2, GoesOn
    <2>. QED BY <2>1, <2>2 DEF Saved, SaveFails, CleanUp, Finish
  <1>4. Marking = {} /\ Unsettled = broken /\ Marking' = {} /\ Unsettled' = broken
    BY <1>1, <1>2, <1>3, HolderMarks DEF Sound, Marking, Unsettled, Alone, Procs
  <1>5. /\ Approved(config) \subseteq Entry /\ Distinct(Approved(config))
        /\ Approved(config) \subseteq config.tools /\ \A e \in config.tools : e.approved <=> e \in Approved(config)
    BY <1>1 DEF Data, Server, Approved, Distinct
  <1>6. registry' \subseteq Registration /\ Distinct(registry')
    BY <1>1, <1>2, <1>5, RegisterFine DEF Data
  <1>7. Data'
    BY <1>1, <1>2, <1>6 DEF Data, Distinct, Same
  <1>8. \A r \in registry' : \/ r \in registry /\ \/ job[p].op = "refresh"
                                                  \/ \A e \in Approved(config) : ~Same(r, e)
                             \/ \E e \in Approved(config) : e.tool = r.tool /\ e.version = r.version
    BY <1>2, <1>5, RegisteredAre DEF Register, Unregister
  <1>9. \A u \in Procs : Fits(u)'
    BY <1>1, <1>3, HeldFits DEF Sound, Fits
  <1>10. There' /\ Asked' /\ Known'
    BY <1>1, <1>2, <1>8 DEF Sound, Stands, There, Asked, Known, Approved
  <1>11. RegisteredApproved'
    BY <1>1, <1>2, <1>4, <1>8 DEF RegisteredApproved, Approved, Marking
  <1>12. CallsKnown'
    BY <1>1, <1>2, <1>3 DEF Sound, Stands, CallsKnown, Alone, Procs
  <1>13. Written'
    BY <1>2 DEF Written
  <1>14. Connected'
    <2>. SUFFICES Agrees(registry', config.tools, broken)
      BY <1>2, <1>4 DEF Connected
    <2>1. CASE registry' = registry /\ job[p].op = "refresh"
      <3>1. \A u \in Procs : job[u].at \in {"list", "save"} => job[u].op = "refresh"
        BY <1>1, <2>1, HolderAlone DEF Sound, Free, Outside
      <3>. QED BY <1>1, <1>4, <2>1, <3>1 DEF Sound, Stands, Connected, Fits
    <2>2. CASE registry' = Register(registry, Approved(config))
      <3>1. ASSUME NEW r \in registry', r.tool \notin broken
            PROVE  \E e \in config.tools : e.approved /\ e.tool = r.tool /\ e.version = r.version
        <4>1. CASE r \in registry /\ \A e \in Approved(config) : ~Same(r, e)
          <5>1. PICK e \in Approved(config) : e.tool = r.tool
            BY <1>1, <1>4, <3>1, <4>1 DEF RegisteredApproved, Marking
          <5>. QED BY <4>1, <5>1 DEF Same
        <4>2. CASE \E e \in Approved(config) : e.tool = r.tool /\ e.version = r.version
          BY <1>5, <4>2
        <4>. QED BY <1>5, <2>2, <4>1, <4>2, RegisteredAre DEF Register, Unregister
      <3>2. ASSUME NEW e \in config.tools, e.approved
            PROVE  \E r \in registry' : e.tool = r.tool /\ e.version = r.version
        <4>. DEFINE x == [tool |-> e.tool, version |-> e.version]
        <4>1. x \in registry' /\ x.tool = e.tool /\ x.version = e.version
          BY <1>5, <2>2, <3>2, RegisteredAre DEF Register
        <4>. QED BY <4>1
      <3>. QED BY <3>1, <3>2 DEF Agrees
    <2>. QED BY <1>2, <2>1, <2>2
  <1>. QED BY <1>7, <1>9, <1>10, <1>11, <1>12, <1>13, <1>14 DEF Stands

LEMMA CreatedSound ==
  ASSUME Sound, NEW p \in Requests, Created(p)
  PROVE  Locked' /\ Placed' /\ Stands' /\ Data'
  <1>. USE ProcsAssumption
  <1>1. /\ job[p].at = "create" /\ p \in Procs /\ p \notin Calls /\ Data /\ There
        /\ job \in [Procs -> Job] /\ Rest(p)
        /\ UNCHANGED <<conn, registry, queue, monitored, broken>>
    BY DEF Sound, Stands, Locked, Created, Procs
  <1>2. Alone(p) /\ job'[p] = Resting(p) /\ job'[p].at = "idle" /\ job' \in [Procs -> Job]
    BY <1>1, Rests
  <1>3. Locked'
    BY <1>1, <1>2 DEF Sound, Locked, Alone, Outside, Free, Holds, Once, Members
  <1>4. Placed'
    BY <1>2 DEF Sound, Placed, Alone, Resting, Doing, Outside, Procs
  <1>5. CASE stored.there
    <2>1. /\ UNCHANGED <<config, stored, asked, stray, unsaved, conn>> /\ Data'
          /\ conn' # "none" => config.there
      BY <1>1, <1>5 DEF Created, Data, Distinct, Same, There
    <2>2. Aside(p)
      BY <1>1, <1>2, <2>1 DEF Aside, Fits
    <2>. QED BY <1>3, <1>4, <2>1, <2>2, AsideSound
  <1>6. CASE ~stored.there
    <2>1. /\ ~config.there /\ config.tools = {} /\ conn = "none"
          /\ \A u \in Procs : job[u].at \notin {"approve", "revoke", "open", "list", "save", "run"}
      BY <1>1, <1>6 DEF Sound, Stands, There, Fits, Find
    <2>2. /\ stored' = [there |-> TRUE, tools |-> {}] /\ config' = stored' /\ asked' = {} /\ unsaved' = FALSE
          /\ stray' = stray \cup {c \in Calls : job[c].at # "idle"}
      BY <1>6 DEF Created
    <2>3. /\ stored' \in Server /\ stored'.there /\ stored'.tools = {} /\ Distinct(stored'.tools)
      BY <2>2 DEF Server, Distinct
    <2>4. Data'
      BY <1>1, <2>2, <2>3 DEF Data, Distinct, Same
    <2>5. \A r \in registry : r.tool \in broken
      BY <2>1 DEF Sound, Stands, RegisteredApproved, Approved, Procs
    <2>6. ASSUME NEW u \in Procs PROVE Fits(u)'
      BY <1>1, <1>2, <2>1, <2>2 DEF Sound, Stands, Fits, Alone
    <2>7. There' /\ Known' /\ Asked' /\ RegisteredApproved'
      BY <1>1, <2>1, <2>2, <2>3, <2>5 DEF There, Known, Asked, RegisteredApproved, Approved
    <2>8. CallsKnown'
      BY <1>1, <1>2, <2>2 DEF CallsKnown, Alone, Procs
    <2>9. Written' /\ Connected'
      BY <1>1, <2>1, <2>2 DEF Written, Connected
    <2>. QED BY <1>3, <1>4, <2>4, <2>6, <2>7, <2>8, <2>9 DEF Stands
  <1>. QED BY <1>5, <1>6

LEMMA MarkSound ==
  ASSUME Sound, NEW p \in Requests, Mark(p), Find(job[p].tool) # {}
  PROVE  Stands' /\ Data'
  <1>. DEFINE t == job[p].tool
  <1>1. /\ job[p].at = "wait" /\ Holds(p) /\ p \in Procs /\ p \notin Calls /\ Data /\ There
        /\ job \in [Procs -> Job] /\ job[p].op \in {"approve", "revoke"}
        /\ Goto(p, job[p].op) /\ {"approve", "revoke"} \subseteq Steps
        /\ t \in Tools
    BY ProcsAssumption DEF Sound, Stands, Locked, Mark, At, Steps, Procs, Job
  <1>2. PICK yes \in BOOLEAN :
          /\ config' = Marked(t, yes)
          /\ (yes = TRUE /\ job[p].op = "approve") \/ (yes = FALSE /\ job[p].op = "revoke")
          /\ asked' = IF yes THEN asked \cup {t} ELSE asked
          /\ UNCHANGED <<stored, stray, conn, registry, monitored, broken, unsaved, queue>>
    <2>1. CASE job[p].op = "approve"
      <3>1. Marked(t, job[p].op = "approve") = Marked(t, TRUE)
        BY <2>1 DEF Marked
      <3>. QED BY <2>1, <3>1 DEF Mark
    <2>2. CASE job[p].op = "revoke"
      <3>1. Marked(t, job[p].op = "approve") = Marked(t, FALSE)
        BY <2>2 DEF Marked
      <3>. QED BY <2>2, <3>1 DEF Mark
    <2>. QED BY <1>1, <2>1, <2>2
  <1>3. /\ Alone(p) /\ job'[p].at = job[p].op /\ job'[p].op = job[p].op /\ job'[p].tool = t
    BY <1>1, GoesOn
  <1>4. /\ config' \in Server /\ config'.there = config.there /\ Distinct(config'.tools)
        /\ \A e \in config'.tools :
             \/ e \in config.tools /\ e.tool # t
             \/ e.tool = t /\ e.approved = yes /\ \E f \in Find(t) : f.version = e.version
        /\ \A e \in config.tools : e.tool # t => e \in config'.tools
        /\ \E f \in config'.tools : f.tool = t
    <2>. DEFINE m == Marked(t, yes)
    <2>1. /\ m \in Server /\ m.there = config.there /\ Distinct(m.tools)
          /\ \A e \in m.tools :
               \/ e \in config.tools /\ e.tool # t
               \/ e.tool = t /\ e.approved = yes /\ \E f \in Find(t) : f.version = e.version
          /\ \A e \in config.tools : e.tool # t => e \in m.tools
          /\ \A e \in Find(t) : \E f \in m.tools : f.tool = t
      BY <1>1, MarkedFine
    <2>2. config' = m /\ Find(t) # {}
      BY <1>2
    <2>. HIDE DEF m, t
    <2>. QED BY <2>1, <2>2
  <1>. HIDE DEF t
  <1>5. Marking = {} /\ Unsettled = broken
    BY <1>1, HolderMarks DEF Sound
  <1>6. Marking' = {p}
    BY <1>1, <1>3, <1>5 DEF Marking, Alone, Procs
  <1>7. Unsettled' = broken \cup {t}
    BY <1>2, <1>3, <1>6 DEF Unsettled
  <1>8. Data'
    BY <1>1, <1>2, <1>4 DEF Data, Distinct, Same
  <1>9. Fits(p)'
    <2>1. \A e \in config'.tools : e.tool = t => (e.approved <=> job'[p].at = "approve")
      BY <1>1, <1>2, <1>3, <1>4
    <2>2. job'[p].at = "approve" => t \in asked'
      BY <1>2, <1>3
    <2>. QED BY <1>1, <1>3, <1>4, <2>1, <2>2 DEF Fits, Find
  <1>10. \A u \in Procs : Fits(u)'
    BY <1>1, <1>3, <1>9, HeldFits DEF Sound
  <1>11. There' /\ Known'
    <2>1. config.tools # {}
      BY DEF Find
    <2>. QED BY <1>1, <1>2, <1>4, <2>1 DEF Sound, Stands, There, Known
  <1>12. Asked'
    <2>1. \A e \in Approved(stored) : e.tool \in asked'
      BY <1>2 DEF Sound, Stands, Asked
    <2>2. ASSUME NEW e \in config'.tools, e.approved PROVE e.tool \in asked'
      BY <1>2, <1>4, <2>2 DEF Sound, Stands, Asked, Approved
    <2>. QED BY <1>2, <2>1, <2>2 DEF Asked, Approved
  <1>13. RegisteredApproved'
    <2>. SUFFICES ASSUME NEW r \in registry, r.tool \notin broken
                  PROVE  \/ \E e \in config'.tools : e.approved /\ e.tool = r.tool
                         \/ \E u \in Requests : job'[u].at = "revoke" /\ job'[u].tool = r.tool
      BY <1>2 DEF RegisteredApproved, Approved
    <2>1. PICK e \in config.tools : e.approved /\ e.tool = r.tool
      BY <1>5 DEF Sound, Stands, RegisteredApproved, Approved, Marking
    <2>2. CASE e.tool # t
      BY <1>4, <2>1, <2>2
    <2>3. CASE e.tool = t
      BY <1>1, <1>2, <1>3, <1>4, <2>1, <2>3
    <2>. QED BY <2>2, <2>3
  <1>14. CallsKnown'
    BY <1>1, <1>2, <1>3 DEF Sound, Stands, CallsKnown, Alone, Procs
  <1>15. Written'
    BY <1>1, <1>3 DEF Written
  <1>16. Connected'
    <2>. SUFFICES ASSUME conn # "none" PROVE Agrees(registry, config'.tools, broken \cup {t})
      BY <1>2, <1>7 DEF Connected
    <2>1. Agrees(registry, config.tools, broken)
      <3>1. \A u \in Procs : job[u].at \notin {"list", "save"}
        BY <1>1, HolderAlone DEF Sound, Free, Outside
      <3>. QED BY <1>5, <3>1 DEF Sound, Stands, Connected
    <2>2. ASSUME NEW r \in registry, r.tool \notin broken \cup {t}
          PROVE  \E e \in config'.tools : e.approved /\ e.tool = r.tool /\ e.version = r.version
      <3>1. PICK e \in config.tools : e.approved /\ e.tool = r.tool /\ e.version = r.version
        BY <2>1, <2>2 DEF Agrees
      <3>. QED BY <1>4, <2>2, <3>1
    <2>3. ASSUME NEW e \in config'.tools, e.approved, e.tool \notin broken \cup {t}
          PROVE  \E r \in registry : e.tool = r.tool /\ e.version = r.version
      BY <1>4, <2>1, <2>3 DEF Agrees
    <2>. QED BY <2>2, <2>3 DEF Agrees
  <1>. QED BY <1>8, <1>10, <1>11, <1>12, <1>13, <1>14, <1>15, <1>16 DEF Stands

LEMMA MarkFailsSound ==
  ASSUME Sound, NEW p \in Requests, MarkFails(p)
  PROVE  Stands' /\ Data'
  <1>1. /\ job[p].at \in {"approve", "revoke"} /\ Holds(p) /\ p \in Procs /\ p \notin Calls /\ Data /\ There
        /\ job \in [Procs -> Job] /\ Rest(p) /\ job[p].tool \in Tools
        /\ unsaved' = TRUE /\ broken' = broken \cup {job[p].tool}
        /\ UNCHANGED <<config, stored, conn, registry, monitored, asked, stray>>
    BY ProcsAssumption DEF Sound, Stands, Locked, MarkFails, Finish, Free, Outside, Procs, Job
  <1>2. Alone(p) /\ job'[p].at = "idle"
    BY <1>1, Rests
  <1>3. Marking = {p} /\ Marking' = {} /\ Unsettled' = Unsettled
    <2>1. Marking = {p}
      BY <1>1, HolderMarks DEF Sound, Marking
    <2>2. Marking' = {}
      BY <1>2, <2>1 DEF Marking, Alone, Procs
    <2>. QED BY <1>1, <2>1, <2>2 DEF Unsettled
  <1>4. Data'
    BY <1>1 DEF Data, Distinct, Same
  <1>5. \A u \in Procs : Fits(u)'
    BY <1>1, <1>2, HeldFits DEF Sound, Fits
  <1>6. There' /\ Known' /\ Asked'
    BY <1>1 DEF Sound, Stands, There, Known, Asked, Approved
  <1>7. RegisteredApproved'
    BY <1>1, <1>2, <1>3 DEF Sound, Stands, RegisteredApproved, Approved, Marking
  <1>8. CallsKnown'
    BY <1>1, <1>2 DEF Sound, Stands, CallsKnown, Alone, Procs
  <1>9. Written' 
    BY <1>1 DEF Written
  <1>10. Connected'
    <2>. SUFFICES ASSUME conn # "none" PROVE Agrees(registry, config.tools, Unsettled)
      BY <1>1, <1>3 DEF Connected
    <2>1. \A u \in Procs : job[u].at \notin {"list", "save"}
      BY <1>1, HolderAlone DEF Sound, Free, Outside
    <2>. QED BY <2>1 DEF Sound, Stands, Connected
  <1>. QED BY <1>4, <1>5, <1>6, <1>7, <1>8, <1>9, <1>10 DEF Stands

LEMMA MarkSavedSound ==
  ASSUME Sound, NEW p \in Requests, MarkSaved(p)
  PROVE  Stands' /\ Data'
  <1>. DEFINE t == job[p].tool
  <1>1. /\ job[p].at \in {"approve", "revoke"} /\ Holds(p) /\ p \in Procs /\ p \notin Calls /\ Data /\ There
        /\ job \in [Procs -> Job] /\ Rest(p) /\ t \in Tools /\ Fits(p)
        /\ stored' = config /\ unsaved' = FALSE /\ broken' = broken \ {t}
        /\ UNCHANGED <<config, conn, monitored, asked, stray>>
        /\ registry' = IF job[p].at = "approve" THEN Register(registry, Find(t))
                       ELSE Unregister(registry, {job[p]})
    BY ProcsAssumption DEF Sound, Stands, Locked, MarkSaved, Finish, Free, Outside, Procs, Job
  <1>2. Alone(p) /\ job'[p].at = "idle"
    BY <1>1, Rests
  <1>3. Marking = {p} /\ Marking' = {} /\ Unsettled = broken \cup {t} /\ Unsettled' = broken \ {t}
    <2>1. Marking = {p}
      BY <1>1, HolderMarks DEF Sound, Marking
    <2>2. Marking' = {}
      BY <1>2, <2>1 DEF Marking, Alone, Procs
    <2>. QED BY <1>1, <2>1, <2>2 DEF Unsettled
  <1>. HIDE DEF t
  <1>4. /\ Find(t) \subseteq config.tools /\ Find(t) # {} /\ Find(t) \subseteq Entry /\ Distinct(Find(t))
        /\ \A e \in config.tools : e \in Find(t) <=> e.tool = t
        /\ \A e \in Find(t) : e.approved <=> job[p].at = "approve"
        /\ job[p].at = "approve" => t \in asked
    BY <1>1 DEF Data, Server, Find, Fits, Distinct, t
  <1>5. \A r \in registry' : \/ r \in registry /\ r.tool # t /\ \A e \in Find(t) : ~Same(r, e)
                             \/ /\ job[p].at = "approve" /\ r.tool = t
                                /\ \E e \in Find(t) : e.tool = r.tool /\ e.version = r.version
    <2>1. CASE job[p].at = "approve"
      <3>1. ASSUME NEW r \in registry' \ AsRegistered(Find(t))
            PROVE  r \in registry /\ r.tool # t /\ \A e \in Find(t) : ~Same(r, e)
        <4>1. r \in registry /\ \A e \in Find(t) : ~Same(r, e)
          BY <1>1, <2>1, <3>1 DEF Register, Unregister
        <4>. QED BY <1>4, <4>1 DEF Same
      <3>. QED BY <1>4, <2>1, <3>1, RegisteredAre
    <2>2. CASE job[p].at = "revoke"
      <3>1. ASSUME NEW r \in registry' PROVE r \in registry /\ ~Same(r, job[p])
        BY <1>1, <2>2, <3>1 DEF Unregister
      <3>. QED BY <1>4, <3>1 DEF Same, t
    <2>. QED BY <1>1, <2>1, <2>2
  <1>6. registry' \subseteq Registration /\ Distinct(registry')
    BY <1>1, <1>4, RegisterFine, UnregisterFine DEF Data
  <1>7. Data'
    BY <1>1, <1>6 DEF Data, Distinct, Same
  <1>8. \A u \in Procs : Fits(u)'
    BY <1>1, <1>2, HeldFits DEF Sound, Fits
  <1>9. There' /\ Known' /\ Asked'
    BY <1>1, <1>4, <1>5 DEF Sound, Stands, There, Known, Asked, Approved
  <1>10. ASSUME NEW r \in registry', r.tool \notin broken \ {t}
         PROVE  \E e \in config.tools : e.approved /\ e.tool = r.tool
    <2>1. CASE r \in registry /\ r.tool # t
      BY <1>3, <1>10, <2>1 DEF Sound, Stands, RegisteredApproved, Approved, Marking, t
    <2>2. CASE job[p].at = "approve" /\ r.tool = t
      BY <1>4, <2>2
    <2>. QED BY <1>5, <2>1, <2>2
  <1>11. RegisteredApproved'
    BY <1>1, <1>10 DEF RegisteredApproved, Approved
  <1>12. CallsKnown'
    BY <1>1, <1>2 DEF Sound, Stands, CallsKnown, Alone, Procs
  <1>13. Written'
    BY <1>1 DEF Written
  <1>14. Connected'
    <2>. SUFFICES ASSUME conn # "none" PROVE Agrees(registry', config.tools, broken \ {t})
      BY <1>1, <1>3 DEF Connected
    <2>1. Agrees(registry, config.tools, broken \cup {t})
      <3>1. \A u \in Procs : job[u].at \notin {"list", "save"}
        BY <1>1, HolderAlone DEF Sound, Free, Outside
      <3>. QED BY <1>3, <3>1 DEF Sound, Stands, Connected
    <2>2. ASSUME NEW r \in registry', r.tool \notin broken \ {t}
          PROVE  \E e \in config.tools : e.approved /\ e.tool = r.tool /\ e.version = r.version
      <3>1. CASE r \in registry /\ r.tool # t
        BY <2>1, <2>2, <3>1 DEF Agrees
      <3>2. CASE job[p].at = "approve" /\ \E e \in Find(t) : e.tool = r.tool /\ e.version = r.version
        BY <1>4, <3>2
      <3>. QED BY <1>5, <3>1, <3>2
    <2>3. ASSUME NEW e \in config.tools, e.approved, e.tool \notin broken \ {t}
          PROVE  \E r \in registry' : e.tool = r.tool /\ e.version = r.version
      <3>1. CASE e.tool = t
        <4>1. e \in Find(t) /\ job[p].at = "approve"
          BY <1>4, <2>3, <3>1
        <4>. DEFINE x == [tool |-> e.tool, version |-> e.version]
        <4>2. x \in registry' /\ x.tool = e.tool /\ x.version = e.version
          BY <1>1, <1>4, <4>1, RegisteredAre DEF Register
        <4>. QED BY <4>2
      <3>2. CASE e.tool # t
        <4>1. PICK r \in registry : e.tool = r.tool /\ e.version = r.version
          BY <2>1, <2>3, <3>2 DEF Agrees
        <4>2. \A f \in Find(t) : ~Same(r, f)
          <5>. SUFFICES ASSUME NEW f \in Find(t), Same(r, f) PROVE FALSE
            OBVIOUS
          <5>1. Same(e, f)
            BY <4>1 DEF Same
          <5>2. e = f
            BY <1>1, <1>4, <5>1 DEF Data, Distinct
          <5>. QED BY <1>4, <3>2, <5>2
        <4>3. ~Same(r, job[p])
          BY <1>4, <4>2 DEF Same, t
        <4>. QED BY <1>1, <4>1, <4>2, <4>3 DEF Register, Unregister
      <3>. QED BY <3>1, <3>2
    <2>. QED BY <2>2, <2>3 DEF Agrees
  <1>. QED BY <1>7, <1>8, <1>9, <1>11, <1>12, <1>13, <1>14 DEF Stands

LEMMA ErasedSound ==
  ASSUME Sound, NEW p \in Requests, Erased(p)
  PROVE  Stands' /\ Data'
  <1>1. /\ job[p].at = "erase" /\ Holds(p) /\ p \in Procs /\ p \notin Calls /\ Data /\ There
        /\ job \in [Procs -> Job] /\ Rest(p) /\ Fits(p)
        /\ config' = Absent /\ stored' \in {stored, Absent} /\ unsaved' \in BOOLEAN
        /\ UNCHANGED <<conn, registry, monitored, asked, stray, broken>>
    BY ProcsAssumption DEF Sound, Stands, Locked, Erased, At, Finish, Free, Outside, Procs, Data
  <1>2. Alone(p) /\ job'[p].at = "idle"
    BY <1>1, Rests
  <1>3. /\ Absent \in Server /\ ~Absent.there /\ Absent.tools = {} /\ Distinct(Absent.tools)
    BY DEF Absent, Server, Distinct
  <1>4. Data'
    BY <1>1, <1>3 DEF Data, Distinct, Same
  <1>5. \A u \in Procs : Fits(u)'
    BY <1>1, <1>2, HeldFits DEF Sound, Fits
  <1>6. There' /\ Known' /\ Asked'
    BY <1>1, <1>3 DEF Sound, Stands, There, Known, Asked, Approved, Fits
  <1>7. RegisteredApproved' /\ Written' /\ Connected'
    BY <1>1, <1>3 DEF RegisteredApproved, Fits, Written, Connected
  <1>8. CallsKnown'
    BY <1>1, <1>2 DEF Sound, Stands, CallsKnown, Alone, Procs
  <1>. QED BY <1>4, <1>5, <1>6, <1>7, <1>8 DEF Stands

LEMMA CallSound ==
  ASSUME Sound, NEW p \in Calls, Call(p)
  PROVE  Locked' /\ Placed' /\ Stands' /\ Data'
  <1>. USE ProcsAssumption
  <1>1. PICK r \in registry :
          /\ job' = [job EXCEPT ![p].at = "wait", ![p].tool = r.tool]
          /\ stray' = IF r.tool \in broken THEN stray \cup {p} ELSE stray \ {p}
    BY DEF Call
  <1>2. /\ job[p].at = "idle" /\ queue' = Append(queue, p) /\ p \in Procs /\ p \notin Requests /\ Data /\ There
        /\ job \in [Procs -> Job] /\ job[p] \in Job /\ r.tool \in Tools /\ "wait" \in Steps
        /\ UNCHANGED <<config, stored, conn, registry, monitored, asked, broken, unsaved>>
    BY DEF Sound, Stands, Locked, Call, Procs, Steps, Data, Registration
  <1>3. /\ job' \in [Procs -> Job] /\ Alone(p) /\ job'[p].at = "wait"
        /\ job'[p].op = job[p].op /\ job'[p].tool = r.tool
    <2>. DEFINE j == [job[p] EXCEPT !.at = "wait", !.tool = r.tool]
    <2>1. job' = [job EXCEPT ![p] = j]
      BY <1>1
    <2>2. j \in Job /\ j.at = "wait" /\ j.op = job[p].op /\ j.tool = r.tool
      BY <1>2 DEF Job
    <2>. HIDE DEF j
    <2>. QED BY <1>2, <2>1, <2>2 DEF Alone
  <1>4. Locked'
    BY <1>2, <1>3, JoinLocked DEF Sound, Outside
  <1>5. Placed'
    BY <1>2, <1>3 DEF Sound, Placed, Alone, Doing, Procs
  <1>6. Data'
    BY <1>1, <1>2 DEF Data, Distinct, Same
  <1>7. \A u \in Procs : Fits(u)'
    BY <1>2, <1>3 DEF Sound, Stands, Fits, Find, Alone
  <1>8. There' /\ Known' /\ Asked'
    BY <1>2 DEF Sound, Stands, There, Known, Asked, Approved
  <1>9. \A u \in Requests : job'[u] = job[u]
    BY <1>2, <1>3 DEF Alone, Procs
  <1>10. RegisteredApproved'
    BY <1>2, <1>9 DEF Sound, Stands, RegisteredApproved, Approved
  <1>11. CallsKnown'
    BY <1>1, <1>2, <1>3 DEF Sound, Stands, Known, CallsKnown, Alone, Procs
  <1>12. Written'
    BY <1>2, <1>3 DEF Sound, Stands, Written, Alone
  <1>13. Connected'
    <2>1. Marking' = Marking /\ Unsettled' = Unsettled
      BY <1>2, <1>9 DEF Marking, Unsettled
    <2>. QED BY <1>2, <1>3, <2>1 DEF Sound, Stands, Connected, Alone
  <1>. QED BY <1>4, <1>5, <1>6, <1>7, <1>8, <1>10, <1>11, <1>12, <1>13 DEF Stands

LEMMA LinkDiesSound ==
  ASSUME Sound, LinkDies
  PROVE  Sound'
  <1>1. /\ conn = "good" /\ conn' = "bad" /\ Data /\ There
        /\ UNCHANGED <<config, stored, registry, queue, job, monitored, asked, stray, broken, unsaved>>
    BY DEF LinkDies, Sound, Stands
  <1>2. Locked' /\ Placed' /\ Data'
    BY <1>1 DEF Sound, Locked, Placed, Data, Once, Members, Holds, Doing, Distinct, Same
  <1>3. \A u \in Procs : Fits(u)'
    BY <1>1 DEF Sound, Stands, Fits, Find
  <1>4. There' /\ Known' /\ Asked' /\ RegisteredApproved' /\ CallsKnown' /\ Written'
    BY <1>1 DEF Sound, Stands, There, Known, Asked, RegisteredApproved, CallsKnown, Written, Approved
  <1>5. Connected'
    BY <1>1 DEF Sound, Stands, Connected, Unsettled, Marking
  <1>. QED BY <1>2, <1>3, <1>4, <1>5 DEF Sound, Stands

\* The service starts with what the store has.
Started ==
  /\ config \in Server /\ Distinct(config.tools) /\ stored = config
  /\ config.tools # {} => config.there
  /\ conn = "none" /\ registry = {} /\ stray = {} /\ broken = {} /\ unsaved = FALSE
  /\ monitored \in BOOLEAN /\ asked \subseteq Tools /\ Asked
  /\ job = [p \in Procs |-> Booting(p)]
  /\ queue = IF stored.there THEN <<Boot>> ELSE << >>

LEMMA StartSound == Started => Sound
  <1>. SUFFICES ASSUME Started PROVE Sound
    OBVIOUS
  <1>. USE DEF Started
  <1>1. Locked /\ Placed
    BY InitShape
  <1>2. Data
    BY DEF Data, Server, Distinct
  <1>3. \A p \in Procs : job[p].at \in {"wait", "idle"}
    BY DEF Booting, Resting
  <1>4. \A p \in Calls : job[p].at = "idle"
    BY ProcsAssumption DEF Booting, Resting, Procs
  <1>5. \A p \in Procs : Fits(p)
    BY <1>3 DEF Fits
  <1>6. There /\ Known /\ RegisteredApproved /\ CallsKnown /\ Written /\ Connected
    BY <1>4 DEF There, Known, RegisteredApproved, CallsKnown, Written, Connected
  <1>. QED BY <1>1, <1>2, <1>5, <1>6 DEF Sound, Stands

LEMMA StartsAgain == Started' => Sound'
  <1>1. Started => Sound
    BY StartSound
  <1>. QED BY <1>1, PTL

LEMMA SoundInit == Init => Sound
  <1>. SUFFICES ASSUME Init PROVE Started
    BY StartSound
  <1>1. /\ stored \in Server /\ Distinct(stored.tools)
        /\ stored.tools # {} => stored.there
        /\ config = stored
    BY DocumentsAssumption DEF Init, Server
  <1>2. asked = {e.tool : e \in Approved(stored)} /\ Approved(stored) \subseteq Entry
    <2>1. Approved(stored) \subseteq Entry
      BY <1>1 DEF Approved, Server
    <2>. QED BY <2>1 DEF Init
  <1>3. asked \subseteq Tools
    BY <1>2 DEF Entry
  <1>4. Asked
    BY <1>1, <1>2 DEF Asked
  <1>5. /\ conn = "none" /\ registry = {} /\ stray = {} /\ broken = {} /\ unsaved = FALSE
        /\ monitored \in BOOLEAN
        /\ job = [p \in Procs |-> Booting(p)]
        /\ queue = IF stored.there THEN <<Boot>> ELSE << >>
    BY DEF Init
  <1>. QED BY <1>1, <1>3, <1>4, <1>5 DEF Started

LEMMA RestartSound ==
  ASSUME Sound, Restart
  PROVE  Sound'
  <1>1. /\ stored \in Server /\ Distinct(stored.tools) /\ asked \subseteq Tools
        /\ stored.tools # {} => stored.there
        /\ \A e \in Approved(stored) : e.tool \in asked
    BY DEF Sound, Stands, Data, Asked, There
  <1>2. /\ config' = stored /\ stored' = stored /\ asked' = asked /\ conn' = "none" /\ registry' = {}
        /\ stray' = {} /\ broken' = {} /\ unsaved' = FALSE /\ monitored' \in BOOLEAN
        /\ job' = [p \in Procs |-> Booting(p)']
        /\ queue' = IF stored.there THEN <<Boot>> ELSE << >>
    BY DEF Restart, Start, Booting, Resting
  <1>3. Asked'
    BY <1>1, <1>2 DEF Asked, Approved
  <1>4. Started'
    BY <1>1, <1>2, <1>3 DEF Started, Distinct, Same
  <1>. QED BY <1>4, StartsAgain

LEMMA SoundNext == Sound /\ [Next]_vars => Sound'
  <1>. SUFFICES ASSUME Sound, [Next]_vars PROVE Sound'
    OBVIOUS
  <1>. USE ProcsAssumption
  <1>1. CASE UNCHANGED vars
    <2>1. Locked' /\ Placed' /\ Data'
      BY <1>1 DEF vars, Sound, Locked, Placed, Data, Once, Members, Holds, Doing, Distinct, Same
    <2>2. \A u \in Procs : Fits(u)'
      BY <1>1 DEF vars, Sound, Stands, Fits, Find
    <2>3. There' /\ Known' /\ Asked' /\ RegisteredApproved' /\ CallsKnown' /\ Written'
      BY <1>1 DEF vars, Sound, Stands, There, Known, Asked, RegisteredApproved, CallsKnown, Written, Approved
    <2>4. Connected'
      BY <1>1 DEF vars, Sound, Stands, Connected, Unsettled, Marking
    <2>. QED BY <2>1, <2>2, <2>3, <2>4 DEF Sound, Stands
  <1>2. ASSUME NEW p \in Procs,
               \/ Connecting(p)
               \/ p \in Requests /\ Serving(p) /\ ~Created(p)
               \/ p \in Calls /\ Calling(p)
               \/ p = Monitor /\ (Ping \/ Pong \/ Reconnect)
        PROVE  Sound'
    <2>1. Locked' /\ Placed'
      BY <1>2, HeldSteps, HeldShape DEF Sound
    <2>2. CASE Aside(p) /\ Data'
      BY <2>1, <2>2, AsideSound DEF Sound
    <2>3. CASE Clears(p) /\ Data'
      BY <2>1, <2>3, ClearsSound DEF Sound
    <2>4. CASE Connecting(p)
      <3>1. CASE Closed(p) \/ Opened(p) \/ OpenFails(p) \/ Leak(p)
        BY <2>2, <3>1, AsideSteps
      <3>2. CASE Connect(p)
        BY <2>2, <2>3, <3>2, AsideSteps, ClearsSteps
      <3>3. CASE ListFails(p)
        BY <2>2, <2>3, <3>3, AsideSteps, ClearsSteps
      <3>4. CASE Listed(p)
        BY <2>1, <3>4, ListedSound DEF Sound
      <3>5. CASE Saved(p)
        <4>1. Stands' /\ Data'
          <5>1. Saved(p) \/ (SaveFails(p) /\ job[p].op = "refresh")
            BY <3>5
          <5>. QED BY <5>1, SavedSound
        <4>. QED BY <2>1, <4>1 DEF Sound
      <3>6. CASE SaveFails(p)
        BY <2>1, <2>3, <3>6, SavedSound, ClearsSteps DEF Sound
      <3>7. CASE GiveUp(p)
        <4>1. job[p].op # "refresh"
          BY <3>7 DEF GiveUp
        <4>. QED BY <2>3, <3>7, <4>1, ClearsSteps
      <3>. QED BY <2>4, <3>1, <3>2, <3>3, <3>4, <3>5, <3>6, <3>7 DEF Connecting
    <2>5. CASE p \in Requests /\ Serving(p) /\ ~Created(p)
      <3>1. CASE Disconnect(p)
        <4>1. Clears(p) /\ Data'
          <5>1. p \in Requests /\ (Disconnect(p) \/ (Delete(p) /\ config.there))
            BY <2>5, <3>1
          <5>. QED BY <5>1, ClearsSteps
        <4>. QED BY <2>3, <4>1
      <3>2. CASE Refresh(p)
        BY <2>2, <2>5, <3>2, AsideSteps
      <3>3. CASE Mark(p)
        <4>1. CASE Find(job[p].tool) = {}
          <5>1. Aside(p) /\ Data'
            BY <2>5, <3>3, <4>1, NothingSound
          <5>. QED BY <2>2, <5>1
        <4>2. CASE Find(job[p].tool) # {}
          <5>1. Stands' /\ Data'
            BY <2>5, <3>3, <4>2, MarkSound
          <5>. QED BY <2>1, <5>1 DEF Sound
        <4>. QED BY <4>1, <4>2
      <3>4. CASE MarkSaved(p)
        BY <2>1, <2>5, <3>4, MarkSavedSound DEF Sound
      <3>5. CASE MarkFails(p)
        BY <2>1, <2>5, <3>5, MarkFailsSound DEF Sound
      <3>6. CASE Delete(p)
        BY <2>2, <2>3, <2>5, <3>6, ClearsSteps, NothingSound
      <3>7. CASE Erased(p)
        BY <2>1, <2>5, <3>7, ErasedSound DEF Sound
      <3>. QED BY <2>5, <3>1, <3>2, <3>3, <3>4, <3>5, <3>6, <3>7 DEF Serving
    <2>6. CASE p \in Calls /\ Calling(p)
      BY <2>2, <2>6, AsideSteps
    <2>7. CASE p = Monitor /\ (Ping \/ Pong \/ Reconnect)
      BY <2>2, <2>7, AsideSteps
    <2>. QED BY <1>2, <2>4, <2>5, <2>6, <2>7
  <1>3. ASSUME NEW p \in Requests, Request(p) \/ AskCreate(p) PROVE Sound'
    <2>1. p \in Procs /\ p \notin Calls /\ Aside(p) /\ Data'
      BY <1>3, AsideSteps DEF Procs
    <2>2. Stands'
      BY <2>1, AsideSound
    <2>3. CASE Request(p)
      <3>1. PICK op \in Ops, t \in Tools : job' = [job EXCEPT ![p] = [at |-> "wait", op |-> op, tool |-> t]]
        BY <2>3 DEF Request
      <3>2. [at |-> "wait", op |-> op, tool |-> t] \in Job
        BY DEF Job, Steps
      <3>3. /\ job' \in [Procs -> Job] /\ Alone(p) /\ job'[p].at = "wait" /\ job'[p].op = op
            /\ job[p].at = "idle" /\ queue' = Append(queue, p)
        BY <2>1, <2>3, <3>1, <3>2 DEF Request, Alone, Sound, Locked
      <3>4. Locked'
        BY <2>1, <3>3, JoinLocked DEF Sound, Outside
      <3>5. Placed'
        BY <2>1, <3>3 DEF Sound, Placed, Alone, Doing, Procs
      <3>. QED BY <2>1, <2>2, <3>4, <3>5 DEF Sound
    <2>4. CASE AskCreate(p)
      <3>1. /\ job' \in [Procs -> Job] /\ Alone(p) /\ job'[p].at = "create" /\ job'[p].op = job[p].op
            /\ job[p].at = "idle" /\ queue' = queue
        BY <2>1, <2>4, GoesOn DEF AskCreate, Sound, Locked, Steps
      <3>2. Locked'
        BY <2>1, <3>1 DEF Sound, Locked, Alone, Outside, Free, Holds, Once, Members
      <3>3. Placed'
        BY <2>1, <3>1 DEF Sound, Placed, Alone, Doing, Procs, Outside
      <3>. QED BY <2>1, <2>2, <3>2, <3>3 DEF Sound
    <2>. QED BY <1>3, <2>3, <2>4
  <1>4. ASSUME NEW p \in Requests, Created(p) PROVE Sound'
    BY <1>4, CreatedSound DEF Sound
  <1>5. ASSUME NEW p \in Calls, Call(p) PROVE Sound'
    BY <1>5, CallSound DEF Sound
  <1>6. CASE Look \/ Skip \/ NoPong
    <2>0. Monitor \in Procs
      BY DEF Procs
    <2>1. Stands' /\ Data'
      BY <1>6, <2>0, AsideSteps, AsideSound
    <2>2. CASE Look
      <3>1. /\ job' \in [Procs -> Job] /\ Alone(Monitor) /\ job'[Monitor].at = "try" /\ job'[Monitor].op = job[Monitor].op
            /\ job[Monitor].at = "idle" /\ queue' = Append(queue, Monitor)
        BY <2>0, <2>2, GoesOn DEF Look, Sound, Locked, Steps
      <3>2. Locked'
        BY <2>0, <3>1, JoinLocked DEF Sound, Outside
      <3>. QED BY <2>0, <2>1, <3>1, <3>2 DEF Sound, Placed, Alone, Doing, Procs
    <2>3. CASE Skip
      <3>1. /\ job' \in [Procs -> Job] /\ Alone(Monitor) /\ job'[Monitor].at = "idle" /\ job'[Monitor].op = job[Monitor].op
            /\ job[Monitor].at = "try" /\ ~Holds(Monitor) /\ queue' = RemoveFirst(queue, Monitor)
        BY <2>0, <2>3, GoesOn DEF Skip, Sound, Locked, Steps
      <3>2. /\ queue' \in Seq(Procs) /\ Once(queue') /\ Members(queue') = Members(queue) \ {Monitor}
            /\ queue # << >> => queue' # << >> /\ Head(queue') = Head(queue)
        BY <2>0, <3>1, QuitLock DEF Sound, Locked, Holds
      <3>3. Once(queue)'
        BY <3>2 DEF Once
      <3>4. Locked'
        BY <2>0, <3>1, <3>2, <3>3 DEF Sound, Locked, Alone, Outside, Free, Holds
      <3>. QED BY <2>0, <2>1, <3>1, <3>4 DEF Sound, Placed, Alone, Doing, Procs
    <2>4. CASE NoPong
      <3>1. /\ job' \in [Procs -> Job] /\ Alone(Monitor) /\ job'[Monitor].at = "wait" /\ job'[Monitor].op = job[Monitor].op
            /\ job[Monitor].at = "ping" /\ queue' = Append(Tail(queue), Monitor) /\ Holds(Monitor)
        BY <2>0, <2>4, GoesOn DEF NoPong, At, Sound, Locked, Steps, Free, Outside
      <3>. DEFINE q == Tail(queue)
      <3>2. /\ q \in Seq(Procs) /\ Once(q) /\ Members(q) = Members(queue) \ {Monitor}
        BY <2>0, <3>1, LeaveLock DEF Sound, Locked, Holds
      <3>. HIDE DEF q
      <3>3. /\ Append(q, Monitor) \in Seq(Procs) /\ Once(Append(q, Monitor))
            /\ Members(Append(q, Monitor)) = Members(q) \cup {Monitor}
        BY <2>0, <3>2, JoinLock
      <3>4. queue' = Append(q, Monitor) /\ Monitor \in Members(queue)
        BY <2>0, <3>1 DEF q, Sound, Locked, Outside
      <3>5. Once(queue)' /\ queue' \in Seq(Procs) /\ Members(queue') = Members(queue)
        <4>1. Once(queue')
          BY <3>3, <3>4
        <4>2. Once(queue)'
          BY <4>1 DEF Once
        <4>3. queue' \in Seq(Procs)
          BY <3>3, <3>4
        <4>4. Members(queue') = (Members(queue) \ {Monitor}) \cup {Monitor}
          BY <3>2, <3>3, <3>4
        <4>. QED BY <3>4, <4>2, <4>3, <4>4
      <3>6. \A u \in Procs \ {Monitor} : job[u].at \in Free
        BY <2>0, <3>1, HolderAlone DEF Sound
      <3>7. Locked'
        BY <2>0, <3>1, <3>5, <3>6 DEF Sound, Locked, Alone, Outside, Free
      <3>. QED BY <2>0, <2>1, <3>1, <3>7 DEF Sound, Placed, Alone, Doing, Procs, Outside
    <2>. QED BY <1>6, <2>2, <2>3, <2>4
  <1>7. CASE LinkDies
    BY <1>7, LinkDiesSound
  <1>8. CASE Restart
    BY <1>8, RestartSound
  <1>. QED BY <1>1, <1>2, <1>3, <1>4, <1>5, <1>6, <1>7, <1>8 DEF Next, Watching, Procs

LEMMA AlwaysSound == Spec => []Sound
  BY SoundInit, SoundNext, PTL DEF Spec

(* Types; and one name belongs to one tool, listed or registered           *)
(* (mcp.py:847, seen_sanitized).                                           *)
THEOREM ManagerTypes == Spec => []TypeOK
  <1>1. Sound => TypeOK
    BY DEF Sound, Locked, Data, Server, TypeOK, Job
  <1>. QED BY <1>1, AlwaysSound, PTL

(* What is registered is approved, is being revoked, or could not be       *)
(* written, for any tools, names, requests and calls under way (mcp.py).   *)
THEOREM RegisteredWereApproved == Spec => []RegisteredApproved
  <1>1. Sound => RegisteredApproved
    BY DEF Sound, Stands
  <1>. QED BY <1>1, AlwaysSound, PTL

(* A call that reaches the server asks for a tool whose approval was asked *)
(* for, and no approval appears otherwise (mcp.py:1006).                   *)
THEOREM CallsWereAsked == Spec => []CallsAsked
  <1>1. Sound => CallsAsked
    BY DEF Sound, Stands, CallsKnown, Asked, CallsAsked
  <1>. QED BY <1>1, AlwaysSound, PTL

(* At rest, the document is the configuration, and a connection has the    *)
(* approved tools registered as they were last listed.                     *)
THEOREM AgreesAtRest == Spec => []QuietAgrees
  <1>1. Sound => QuietAgrees
    <2>. SUFFICES ASSUME Sound, queue = << >>, config.there
                  PROVE  /\ ~unsaved => stored = config
                         /\ conn # "none" => {r \in registry : r.tool \notin broken}
                              = AsRegistered({e \in Approved(config) : e.tool \notin broken})
      BY DEF QuietAgrees
    <2>1. \A p \in Procs : job[p].at \in Outside
      BY DEF Sound, Locked, Members
    <2>2. ~unsaved => stored = config
      BY <2>1 DEF Sound, Stands, Written, Outside
    <2>3. Unsettled = broken
      BY <2>1 DEF Unsettled, Marking, Outside, Procs
    <2>4. ASSUME conn # "none"
          PROVE {r \in registry : r.tool \notin broken} = AsRegistered({e \in Approved(config) : e.tool \notin broken})
      <3>. DEFINE S == {e \in Approved(config) : e.tool \notin broken}
      <3>1. Agrees(registry, config.tools, broken)
        BY <2>1, <2>3, <2>4 DEF Sound, Stands, Connected, Outside
      <3>2. /\ S \subseteq Entry /\ registry \subseteq Registration
            /\ \A e \in S : e \in config.tools /\ e.approved /\ e.tool \notin broken
            /\ \A e \in config.tools : e.approved /\ e.tool \notin broken => e \in S
        BY DEF Sound, Data, Server, Approved
      <3>3. \A r \in registry : r = [tool |-> r.tool, version |-> r.version]
        BY <3>2 DEF Registration
      <3>. HIDE DEF S
      <3>4. ASSUME NEW r \in registry, r.tool \notin broken PROVE r \in AsRegistered(S)
        <4>1. PICK e \in S : e.tool = r.tool /\ e.version = r.version
          BY <3>1, <3>2, <3>4 DEF Agrees
        <4>. QED BY <3>2, <3>3, <4>1, RegisteredAre
      <3>5. ASSUME NEW x \in AsRegistered(S) PROVE x \in registry /\ x.tool \notin broken
        <4>1. PICK e \in S : e.tool = x.tool /\ x = [tool |-> e.tool, version |-> e.version]
          BY <3>2, RegisteredAre
        <4>2. PICK r \in registry : e.tool = r.tool /\ e.version = r.version
          BY <3>1, <3>2 DEF Agrees
        <4>. QED BY <3>2, <3>3, <4>1, <4>2
      <3>. QED BY <3>4, <3>5 DEF S
    <2>. QED BY <2>2, <2>4
  <1>. QED BY <1>1, AlwaysSound, PTL

-----------------------------------------------------------------------------
(* The notifications: the two locks, the tokens, the books.                  *)

Waits == {"session", "login", "renew", "refresh"}
Asks == Waits \cup {"send"}
Parties == Accounts \cup {Nobody}
FetchJob == [step : Asks \cup {"idle", "turn"}, what : {"page", "mark", "query"},
          who : Parties, mine : [who : Parties, id : Nat], retried : BOOLEAN,
          from : Nat, left : Nat, pages : Nat, reached : BOOLEAN,
          found : SUBSET Refs, pagesOf : SUBSET Accounts]

(* Who is in each lock's queue, and who has the lock.                        *)
Scans(p) == fetch[p].step \in Asks /\ fetch[p].what # "query"
Waiting == {p \in Runs : fetch[p].step \in Waits}
Renewing == {p \in Runs : fetch[p].step \in {"login", "refresh"}}
Scanners == {p \in Runs : Scans(p)}
Lined == Scanners \cup {p \in Runs : StepOf(p, "turn")}

Queue(q, in, first) ==
  q \in Seq(Runs) /\ Once(q) /\ Members(q) = in /\ \A p \in first : First(q, p)

Control ==
  /\ account \in Accounts /\ pairs \in Nat /\ accepted \subseteq 1..pairs /\ unused \subseteq 1..pairs
  /\ session \in {NoSession} \cup [who : Accounts, id : 1..pairs]
  /\ fetch \in [Runs -> FetchJob]
  /\ Queue(sessionLock, Waiting, Renewing)
  /\ Queue(serviceLock, Lined, Scanners)

(* A session of an account, once there was one; refresh by whom it is; a     *)
(* login for cause.                                                          *)
Renewal(f) ==
  /\ f.step \in {"session", "login"} => f.who \in Accounts
  /\ f.step \in {"send", "renew", "refresh"} =>
       f.mine \in [who : Accounts, id : 1..pairs] /\ session.who \in Accounts
  /\ f.step = "refresh" => f.mine = session
  /\ f.step = "login" => session.who # f.who \/ session.id \notin unused
Renewals == \A p \in Runs : Renewal(fetch[p])

(* Returned, or excused; or of the same time as one that is.                 *)
Got(r) == returned[r] > 0 \/ r \in excused
Settled(r) == Got(r) \/ SameTime(r)
WasMarked(r) == returned[r] > 0 /\ r \notin unmarked
WantedOne(r) == inbox[r[1]][r[2]].wanted

Books ==
  /\ now \in Nat /\ seen \in [Accounts -> Nat]
  /\ inbox \in [Accounts -> Seq([time : Nat, wanted : BOOLEAN])]
  /\ \A a \in Accounts : Len(inbox[a]) <= MaxNotifs
  /\ returned \in [Refs -> 0..2] /\ unmarked \subseteq Refs /\ excused \subseteq Refs
  /\ \A r \in Refs : Got(r) => r \in Indexed

(* Notifications are in the order of their times, and a marker is past now   *)
(* only if one of this millisecond was returned or excused.                  *)
Clock ==
  /\ \A q, r \in Indexed : q[1] = r[1] /\ q[2] <= r[2] => TimeOf(q) <= TimeOf(r)
  /\ \A r \in Indexed : TimeOf(r) <= now
  /\ \A a \in Accounts : seen[a] <= now \/ (seen[a] = now + 1 /\ \E q \in Indexed : Got(q) /\ TimeOf(q) = now)

Reads ==
  /\ \A r \in Indexed : WantedOne(r) /\ TimeOf(r) < seen[r[1]] => Settled(r)
  /\ \A r \in Indexed : WasMarked(r) => TimeOf(r) < seen[r[1]]
  /\ \A r \in Refs : returned[r] > 1 => r \in unmarked

(* What a scan of one account's pages knows: all it has passed is found,     *)
(* settled, or no earlier than what it found; all it found is unread; and    *)
(* what was marked before, it began after.                                   *)
Covers(f, a) ==
  /\ f.from <= seen[a]
  /\ \A r \in f.found : f.from <= TimeOf(r)
  /\ \A r \in Indexed : r[1] = a /\ WasMarked(r) => TimeOf(r) < f.from
  /\ \A r \in Indexed : r[1] = a /\ WantedOne(r) /\ (f.reached \/ r[2] > f.left) =>
       r \in f.found \/ Settled(r) \/ \A q \in f.found : TimeOf(q) <= TimeOf(r)

Passing(f) ==
  /\ f.found \subseteq Indexed
  /\ \A r \in f.found : r[1] \in f.pagesOf
  /\ f.pages = 0 <=> f.pagesOf = {}
  /\ \A a \in Accounts : f.pagesOf = {a} => Covers(f, a)

Scanning(f) ==
  /\ Passing(f)
  /\ f.what = "mark" => f.found # {}
  /\ f.what = "page" => ~f.reached

Begun == [Idle EXCEPT !.step = "turn"]
Scannings ==
  \A p \in Runs : /\ Scans(p) => Scanning(fetch[p])
                  /\ StepOf(p, "turn") => fetch[p] = Begun

FetchSound == Control /\ Renewals /\ Books /\ Clock /\ Reads /\ Scannings

LEMMA QueueJoin ==
  ASSUME NEW in, NEW first, NEW q, Queue(q, in, first), NEW p \in Runs, p \notin in
  PROVE  Queue(Append(q, p), in \cup {p}, first)
  <1>1. /\ Append(q, p) \in Seq(Runs) /\ Once(Append(q, p)) /\ Append(q, p) # << >>
        /\ Members(Append(q, p)) = in \cup {p}
        /\ q # << >> => Head(Append(q, p)) = Head(q)
    BY JoinLock DEF Queue
  <1>. QED BY <1>1 DEF Queue, First

LEMMA QueueLeave ==
  ASSUME NEW in, NEW first, NEW q, Queue(q, in, first), NEW p \in Runs, First(q, p)
  PROVE  Queue(Tail(q), in \ {p}, first \ {p})
  <1>1. /\ Tail(q) \in Seq(Runs) /\ Once(Tail(q)) /\ Members(Tail(q)) = in \ {p}
    BY LeaveLock DEF Queue, First
  <1>2. \A u \in first : u = p
    BY DEF Queue, First
  <1>. QED BY <1>1, <1>2 DEF Queue

LEMMA QueueQuit ==
  ASSUME NEW in, NEW first, NEW q, Queue(q, in, first), NEW p \in Runs
  PROVE  Queue(Without(q, p), in \ {p}, first \ {p})
  <1>1. /\ Without(q, p) \in Seq(Runs) /\ Once(Without(q, p)) /\ Members(Without(q, p)) = in \ {p}
        /\ q # << >> /\ Head(q) # p => Without(q, p) # << >> /\ Head(Without(q, p)) = Head(q)
    <2>1. q \in Seq(Runs) /\ Once(q) /\ Members(q) = in /\ Without(q, p) = RemoveFirst(q, p)
      BY DEF Queue, Without
    <2>2. /\ RemoveFirst(q, p) \in Seq(Runs) /\ Once(RemoveFirst(q, p))
          /\ Members(RemoveFirst(q, p)) = Members(q) \ {p}
          /\ q # << >> /\ Head(q) # p => RemoveFirst(q, p) # << >> /\ Head(RemoveFirst(q, p)) = Head(q)
      BY <2>1, QuitLock
    <2>. QED BY <2>1, <2>2
  <1>2. ASSUME NEW u \in first \ {p} PROVE First(Without(q, p), u)
    BY <1>1 DEF Queue, First
  <1>. QED BY <1>1, <1>2 DEF Queue

LEMMA QueueHead ==
  ASSUME NEW in, NEW first, NEW q, Queue(q, in, first), NEW p, First(q, p)
  PROVE  Queue(q, in, first \cup {p}) /\ p \in in
  <1>1. p \in Members(q)
    <2>1. Len(q) \in Nat \ {0} /\ q[1] = p
      BY DEF Queue, First
    <2>. QED BY <2>1 DEF Members
  <1>. QED BY <1>1 DEF Queue

(* What one run's step does to the queues.                                   *)
LEMMA NewStep ==
  ASSUME fetch \in [Runs -> FetchJob], NEW p \in Runs, NEW f \in FetchJob, Becomes(p, f)
  PROVE  /\ fetch' \in [Runs -> FetchJob] /\ fetch'[p] = f
         /\ \A u \in Runs \ {p} : fetch'[u] = fetch[u]
         /\ Waiting' = IF f.step \in Waits THEN Waiting \cup {p} ELSE Waiting \ {p}
         /\ Renewing' = IF f.step \in {"login", "refresh"} THEN Renewing \cup {p} ELSE Renewing \ {p}
         /\ Scanners' = IF f.step \in Asks /\ f.what # "query" THEN Scanners \cup {p} ELSE Scanners \ {p}
         /\ Lined' = IF f.step = "turn" \/ (f.step \in Asks /\ f.what # "query") THEN Lined \cup {p} ELSE Lined \ {p}
  <1>1. /\ fetch' \in [Runs -> FetchJob] /\ fetch'[p] = f
        /\ \A u \in Runs \ {p} : fetch'[u] = fetch[u]
    BY DEF Becomes
  <1>2. Waiting' = IF f.step \in Waits THEN Waiting \cup {p} ELSE Waiting \ {p}
    BY <1>1 DEF Waiting
  <1>3. Renewing' = IF f.step \in {"login", "refresh"} THEN Renewing \cup {p} ELSE Renewing \ {p}
    BY <1>1 DEF Renewing
  <1>4. Scanners' = IF f.step \in Asks /\ f.what # "query" THEN Scanners \cup {p} ELSE Scanners \ {p}
    BY <1>1 DEF Scanners, Scans
  <1>5. Lined' = IF f.step = "turn" \/ (f.step \in Asks /\ f.what # "query") THEN Lined \cup {p} ELSE Lined \ {p}
    BY <1>1 DEF Lined, Scanners, Scans, StepOf
  <1>. QED BY <1>1, <1>2, <1>3, <1>4, <1>5

(* The service's turn is kept through a request, and given up at its end.    *)
LEMMA TurnKept ==
  ASSUME Control, NEW p \in Runs, NEW f \in FetchJob, Becomes(p, f), UNCHANGED serviceLock,
         f.what = fetch[p].what, f.step \in Asks, fetch[p].step \in Asks
  PROVE  Queue(serviceLock', Lined', Scanners')
  <1>1. fetch \in [Runs -> FetchJob] /\ Queue(serviceLock, Lined, Scanners)
    BY DEF Control
  <1>2. /\ Scanners' = IF f.step \in Asks /\ f.what # "query" THEN Scanners \cup {p} ELSE Scanners \ {p}
        /\ Lined' = IF f.step = "turn" \/ (f.step \in Asks /\ f.what # "query") THEN Lined \cup {p} ELSE Lined \ {p}
    BY <1>1, NewStep
  <1>3. p \in Scanners <=> f.what # "query"
    BY DEF Scanners, Scans
  <1>4. p \in Lined <=> f.what # "query"
    BY <1>3 DEF Lined, StepOf, Asks, Waits
  <1>5. Lined' = Lined /\ Scanners' = Scanners
    BY <1>2, <1>3, <1>4 DEF Asks, Waits
  <1>. QED BY <1>1, <1>5

LEMMA TurnEnds ==
  ASSUME Control, NEW p \in Runs, End(p)
  PROVE  /\ Queue(serviceLock', Lined', Scanners') /\ fetch' \in [Runs -> FetchJob]
         /\ Waiting' = Waiting \ {p} /\ Renewing' = Renewing \ {p}
         /\ fetch'[p] = Idle /\ \A u \in Runs \ {p} : fetch'[u] = fetch[u]
  <1>1. Idle \in FetchJob /\ Idle.step = "idle"
    BY DEF Idle, FetchJob, NoSession, Parties, Asks, Waits
  <1>2. Becomes(p, Idle) /\ fetch \in [Runs -> FetchJob] /\ Queue(serviceLock, Lined, Scanners)
    BY DEF End, Control
  <1>3. /\ fetch' \in [Runs -> FetchJob] /\ fetch'[p] = Idle
        /\ \A u \in Runs \ {p} : fetch'[u] = fetch[u]
        /\ Waiting' = Waiting \ {p} /\ Renewing' = Renewing \ {p}
        /\ Scanners' = Scanners \ {p} /\ Lined' = Lined \ {p}
    BY <1>1, <1>2, NewStep DEF Asks, Waits
  <1>4. Queue(serviceLock', Lined', Scanners')
    BY <1>2, <1>3, QueueQuit DEF End
  <1>. QED BY <1>3, <1>4

LEMMA Unqueued ==
  ASSUME Control, NEW p \in Runs, fetch[p].step \notin Waits
  PROVE  p \notin Waiting /\ p \notin Renewing
  BY DEF Waiting, Renewing, Waits

LEMMA Heads ==
  ASSUME Control, NEW p \in Runs, fetch[p].step \in {"login", "refresh"}
  PROVE  First(sessionLock, p) /\ \A u \in Renewing : u = p
  BY DEF Control, Queue, First, Renewing

LEMMA RenewalsKept ==
  ASSUME Control, Renewals, NEW p \in Runs, Renewal(fetch[p])',
         \A u \in Runs \ {p} : fetch'[u] = fetch[u],
         session' = session, pairs' = pairs, unused' \subseteq unused
  PROVE  Renewals'
  BY DEF Renewals, Renewal

(* A request begins: its run waits for the session.                          *)
LEMMA AskSteps ==
  ASSUME Control, Renewals, NEW p \in Runs, NEW f \in FetchJob, NEW what \in {"page", "mark", "query"},
         Ask(p, f, what), fetch[p].step \notin Waits,
         UNCHANGED <<account, session, accepted, unused, pairs, serviceLock>>,
         what # "query" => Scans(p) \/ (StepOf(p, "turn") /\ First(serviceLock, p)),
         what = "query" => StepOf(p, "idle")
  PROVE  Control' /\ Renewals' /\ fetch'[p] = Asking(f, what) /\ \A u \in Runs \ {p} : fetch'[u] = fetch[u]
  <1>. DEFINE g == Asking(f, what)
  <1>1. /\ g \in FetchJob /\ g.step = "session" /\ g.what = what /\ g.who = account
        /\ account \in Accounts
    BY DEF Control, Asking, FetchJob, Asks, Waits, Parties
  <1>. HIDE DEF g
  <1>2. Becomes(p, g) /\ sessionLock' = Append(sessionLock, p)
    BY DEF Ask, g
  <1>3. /\ fetch' \in [Runs -> FetchJob] /\ fetch'[p] = g
        /\ \A u \in Runs \ {p} : fetch'[u] = fetch[u]
        /\ Waiting' = Waiting \cup {p} /\ Renewing' = Renewing \ {p}
        /\ Scanners' = IF what # "query" THEN Scanners \cup {p} ELSE Scanners \ {p}
        /\ Lined' = IF what # "query" THEN Lined \cup {p} ELSE Lined \ {p}
    BY <1>1, <1>2, NewStep DEF Control, Asks, Waits
  <1>4. Queue(sessionLock', Waiting', Renewing')
    <2>1. Queue(sessionLock, Waiting, Renewing) /\ p \notin Waiting /\ p \notin Renewing
      BY Unqueued DEF Control
    <2>2. Queue(Append(sessionLock, p), Waiting \cup {p}, Renewing)
      BY <2>1, QueueJoin
    <2>3. Renewing \ {p} = Renewing
      BY <2>1
    <2>. QED BY <1>2, <1>3, <2>2, <2>3
  <1>5. Queue(serviceLock', Lined', Scanners')
    <2>1. CASE what = "query"
      BY <1>3, <2>1 DEF Control, Lined, Scanners, Scans, StepOf, Asks, Waits
    <2>2. CASE what # "query"
      <3>1. First(serviceLock, p) /\ p \in Lined
        BY <2>2 DEF Control, Queue, Lined, Scanners
      <3>2. Queue(serviceLock, Lined, Scanners \cup {p}) /\ Lined \cup {p} = Lined
        BY <3>1, QueueHead DEF Control
      <3>. QED BY <1>3, <2>2, <3>2
    <2>. QED BY <2>1, <2>2
  <1>6. Renewal(fetch[p])'
    BY <1>1, <1>3 DEF Renewal
  <1>. QED BY <1>1, <1>3, <1>4, <1>5, <1>6, RenewalsKept DEF Control, g

LEMMA OneMore ==
  ASSUME NEW n \in Nat, NEW A \in SUBSET (1..n), NEW B
  PROVE  (A \ B) \cup {n + 1} \subseteq 1..(n + 1) /\ 1..n \subseteq 1..(n + 1) /\ n + 1 \in 1..(n + 1)
  <1>1. \A i \in 1..n : i \in 1..(n + 1)
    OBVIOUS
  <1>2. n + 1 \in 1..(n + 1)
    OBVIOUS
  <1>. QED BY <1>1, <1>2

(* A pair of tokens is taken by who has the lock.                            *)
LEMMA PairSteps ==
  ASSUME Control, Renewals, NEW p \in Runs, NEW who \in Accounts, NEW old, NewPair(p, who, old),
         fetch[p].step \in {"login", "refresh"}, UNCHANGED <<account, serviceLock>>
  PROVE  Control' /\ Renewals' /\ \E s : fetch' = [fetch EXCEPT ![p] = Sending(fetch[p], s)]
  <1>. DEFINE g == Sending(fetch[p], session')
  <1>0. /\ pairs \in Nat /\ pairs' = pairs + 1 /\ session' = [who |-> who, id |-> pairs + 1]
        /\ accepted' = (accepted \ old) \cup {pairs + 1} /\ unused' = (unused \ old) \cup {pairs + 1}
        /\ accepted \subseteq 1..pairs /\ unused \subseteq 1..pairs
        /\ sessionLock' = Tail(sessionLock) /\ fetch \in [Runs -> FetchJob]
    BY DEF Control, NewPair
  <1>1. /\ accepted' \subseteq 1..pairs' /\ unused' \subseteq 1..pairs'
        /\ session' \in [who : Accounts, id : 1..pairs'] /\ pairs' \in Nat
        /\ sessionLock' = Tail(sessionLock)
    <2>1. /\ (accepted \ old) \cup {pairs + 1} \subseteq 1..(pairs + 1)
          /\ (unused \ old) \cup {pairs + 1} \subseteq 1..(pairs + 1)
      BY <1>0, OneMore
    <2>2. pairs + 1 \in Nat /\ pairs + 1 \in 1..(pairs + 1)
      BY <1>0, OneMore
    <2>. QED BY <1>0, <2>1, <2>2
  <1>2. g \in FetchJob /\ g.step = "send" /\ g.what = fetch[p].what /\ g.mine = session'
    <2>1. session' \in [who : Parties, id : Nat]
      BY <1>1 DEF Parties
    <2>2. fetch[p] \in FetchJob
      BY <1>0
    <2>. QED BY <2>1, <2>2 DEF Sending, FetchJob, Asks
  <1>. HIDE DEF g
  <1>3. Becomes(p, g)
    BY DEF NewPair, g
  <1>4. /\ fetch' \in [Runs -> FetchJob] /\ fetch'[p] = g
        /\ \A u \in Runs \ {p} : fetch'[u] = fetch[u]
        /\ Waiting' = Waiting \ {p} /\ Renewing' = Renewing \ {p}
    BY <1>2, <1>3, NewStep DEF Control, Waits
  <1>5. Queue(sessionLock', Waiting', Renewing')
    BY <1>1, <1>4, Heads, QueueLeave DEF Control
  <1>6. Queue(serviceLock', Lined', Scanners')
    BY <1>2, <1>3, TurnKept DEF Asks, Waits
  <1>7. Renewals'
    <2>. SUFFICES ASSUME NEW u \in Runs PROVE Renewal(fetch[u])'
      BY DEF Renewals
    <2>1. CASE u = p
      BY <1>1, <1>2, <1>4, <2>1 DEF Renewal, Waits
    <2>2. CASE u # p
      <3>1. fetch'[u] = fetch[u] /\ fetch[u].step \notin {"login", "refresh"}
        BY <1>4, <2>2, Heads DEF Renewing
      <3>2. Renewal(fetch[u])
        BY DEF Renewals
      <3>3. 1..pairs \subseteq 1..pairs'
        BY <1>0
      <3>. QED BY <1>1, <3>1, <3>2, <3>3 DEF Renewal
    <2>. QED BY <2>1, <2>2
  <1>9. fetch' = [fetch EXCEPT ![p] = Sending(fetch[p], session')]
    BY <1>3 DEF Becomes, g
  <1>. QED BY <1>1, <1>4, <1>5, <1>6, <1>7, <1>9 DEF Control

(* Between two steps of the books: requests, tokens and turns.               *)
SameScan(f, g) ==
  /\ g.what = f.what /\ g.from = f.from /\ g.left = f.left /\ g.pages = f.pages
  /\ g.reached = f.reached /\ g.found = f.found /\ g.pagesOf = f.pagesOf
Calm(p) ==
  /\ UNCHANGED <<now, inbox, seen, returned, unmarked, excused>>
  /\ \A u \in Runs \ {p} : fetch'[u] = fetch[u]
  /\ \/ Scans(p) /\ SameScan(fetch[p], fetch'[p]) /\ fetch'[p].step # "turn"
     \/ fetch'[p] \in {Idle, Begun} \/ fetch'[p] = Asking(Begun, "page")
     \/ fetch'[p].what = "query" /\ fetch'[p].step # "turn"

LEMMA QueueSteps ==
  ASSUME Control, Renewals, Scannings, NEW p \in Runs, Begin(p) \/ Scan(p) \/ Query(p) \/ Told(p)
  PROVE  Control' /\ Renewals' /\ Calm(p)
  <1>1. CASE Begin(p)
    <2>. DEFINE f == Begun
    <2>1. f \in FetchJob /\ f.step = "turn" /\ fetch[p].step = "idle" /\ Becomes(p, f)
      BY <1>1 DEF Begin, StepOf, Begun, Idle, FetchJob, NoSession, Parties, Asks, Waits
    <2>. HIDE DEF f
    <2>2. /\ fetch' \in [Runs -> FetchJob] /\ fetch'[p] = f
          /\ \A u \in Runs \ {p} : fetch'[u] = fetch[u]
          /\ Waiting' = Waiting \ {p} /\ Renewing' = Renewing \ {p}
          /\ Scanners' = Scanners \ {p} /\ Lined' = Lined \cup {p}
      BY <2>1, NewStep DEF Control, Asks, Waits
    <2>3. p \notin Waiting /\ p \notin Renewing /\ p \notin Lined /\ p \notin Scanners
      BY <2>1 DEF Waiting, Renewing, Lined, Scanners, Scans, StepOf, Asks, Waits
    <2>4. Waiting' = Waiting /\ Renewing' = Renewing /\ Scanners' = Scanners
      BY <2>2, <2>3
    <2>5. Queue(Append(serviceLock, p), Lined \cup {p}, Scanners)
      BY <2>3, QueueJoin DEF Control
    <2>6. serviceLock' = Append(serviceLock, p)
          /\ UNCHANGED <<account, session, accepted, unused, sessionLock, pairs>>
      BY <1>1 DEF Begin
    <2>7. Renewal(fetch[p])'
      BY <2>1, <2>2 DEF Renewal
    <2>8. Renewals'
      BY <2>2, <2>6, <2>7, RenewalsKept
    <2>9. Calm(p)
      BY <1>1, <2>2 DEF Calm, Begin, f
    <2>. QED BY <2>2, <2>4, <2>5, <2>6, <2>8, <2>9 DEF Control
  <1>2. CASE Scan(p)
    <2>1. /\ fetch[p] = Begun /\ fetch[p] \in FetchJob /\ StepOf(p, "turn")
          /\ First(serviceLock, p) /\ Ask(p, fetch[p], "page") /\ fetch[p].step = "turn"
          /\ UNCHANGED <<account, session, accepted, unused, serviceLock, pairs>>
      BY <1>2 DEF Scan, Scannings, Control, StepOf
    <2>2. Control' /\ Renewals' /\ fetch'[p] = Asking(fetch[p], "page")
          /\ \A u \in Runs \ {p} : fetch'[u] = fetch[u]
      BY <2>1, AskSteps DEF Waits
    <2>3. Calm(p)
      BY <1>2, <2>1, <2>2 DEF Calm, Scan
    <2>. QED BY <2>2, <2>3
  <1>3. CASE Query(p)
    <2>1. /\ Idle \in FetchJob /\ fetch[p].step = "idle" /\ Ask(p, Idle, "query") /\ StepOf(p, "idle")
          /\ UNCHANGED <<account, session, accepted, unused, serviceLock, pairs>>
      BY <1>3 DEF Query, StepOf, Idle, FetchJob, NoSession, Parties, Asks, Waits
    <2>2. Control' /\ Renewals' /\ fetch'[p] = Asking(Idle, "query")
          /\ \A u \in Runs \ {p} : fetch'[u] = fetch[u]
      BY <2>1, AskSteps DEF Waits
    <2>3. Calm(p)
      BY <1>3, <2>2 DEF Calm, Query, Asking, Idle
    <2>. QED BY <2>2, <2>3
  <1>4. CASE Told(p)
    <2>1. /\ End(p) /\ fetch[p].step = "send"
          /\ UNCHANGED <<account, session, accepted, unused, sessionLock, pairs>>
      BY <1>4 DEF Told, StepOf
    <2>2. /\ Queue(serviceLock', Lined', Scanners') /\ fetch' \in [Runs -> FetchJob]
          /\ Waiting' = Waiting \ {p} /\ Renewing' = Renewing \ {p}
          /\ fetch'[p] = Idle /\ \A u \in Runs \ {p} : fetch'[u] = fetch[u]
      BY <2>1, TurnEnds
    <2>3. Waiting' = Waiting /\ Renewing' = Renewing
      BY <2>1, <2>2, Unqueued DEF Waits
    <2>4. Renewal(fetch[p])'
      BY <2>2 DEF Renewal, Idle
    <2>5. Renewals'
      BY <2>1, <2>2, <2>4, RenewalsKept
    <2>6. Calm(p)
      BY <1>4, <2>2 DEF Calm, Told
    <2>. QED BY <2>1, <2>2, <2>3, <2>5, <2>6 DEF Control
  <1>. QED BY <1>1, <1>2, <1>3, <1>4

(* A step of a request that goes on.                                         *)
LEMMA RequestGoesOn ==
  ASSUME Control, Renewals, NEW p \in Runs, NEW f \in FetchJob, Becomes(p, f),
         fetch[p].step \in Asks, f.step \in Asks, SameScan(fetch[p], f), Renewal(fetch[p])',
         UNCHANGED <<account, session, accepted, unused, serviceLock, pairs>>,
         UNCHANGED <<now, inbox, seen, returned, unmarked, excused>>,
         Queue(sessionLock', Waiting', Renewing')
  PROVE  Control' /\ Renewals' /\ Calm(p)
  <1>1. /\ fetch' \in [Runs -> FetchJob] /\ fetch'[p] = f
        /\ \A u \in Runs \ {p} : fetch'[u] = fetch[u]
    BY NewStep DEF Control
  <1>2. Queue(serviceLock', Lined', Scanners')
    BY TurnKept DEF SameScan
  <1>3. Renewals'
    BY <1>1, RenewalsKept
  <1>4. Calm(p)
    <2>1. CASE fetch[p].what = "query"
      BY <1>1, <2>1 DEF Calm, SameScan, Asks, Waits
    <2>2. CASE fetch[p].what # "query"
      BY <1>1, <2>2 DEF Calm, Scans, Asks, Waits
    <2>. QED BY <2>1, <2>2
  <1>. QED BY <1>1, <1>2, <1>3, <1>4 DEF Control

LEMMA TokenSteps ==
  ASSUME Control, Renewals, NEW p \in Runs,
         \/ GetSession(p) \/ LoggedIn(p) \/ Expired(p)
         \/ Renew(p) \/ Refreshed(p) \/ Refused(p)
  PROVE  Control' /\ Renewals' /\ Calm(p)
  <1>. DEFINE e == fetch[p]
  <1>0. /\ e \in FetchJob /\ fetch \in [Runs -> FetchJob] /\ Renewal(e)
        /\ session \in {NoSession} \cup [who : Accounts, id : 1..pairs] /\ pairs \in Nat
        /\ Queue(sessionLock, Waiting, Renewing)
    BY DEF Control, Renewals
  <1>1. \A s : s \in [who : Accounts, id : 1..pairs] => s \in [who : Parties, id : Nat]
    BY <1>0 DEF Parties
  <1>2. CASE GetSession(p) /\ session.who # e.who
    <2>. DEFINE f == [e EXCEPT !.step = "login"]
    <2>1. /\ f \in FetchJob /\ f.step = "login" /\ e.step = "session" /\ Becomes(p, f) /\ SameScan(e, f)
          /\ f.who = e.who
      BY <1>0, <1>2 DEF GetSession, StepOf, FetchJob, Asks, Waits, SameScan
    <2>. HIDE DEF f
    <2>2. fetch'[p] = f /\ Waiting' = Waiting \cup {p} /\ Renewing' = Renewing \cup {p}
      BY <1>0, <2>1, NewStep DEF Waits
    <2>3. /\ UNCHANGED <<account, session, accepted, unused, sessionLock, serviceLock, pairs>>
          /\ UNCHANGED <<now, inbox, seen, returned, unmarked, excused>> /\ First(sessionLock, p)
      BY <1>2 DEF GetSession
    <2>4. Queue(sessionLock', Waiting', Renewing')
      <3>1. Queue(sessionLock, Waiting, Renewing \cup {p}) /\ Waiting \cup {p} = Waiting
        BY <1>0, <2>3, QueueHead
      <3>. QED BY <2>2, <2>3, <3>1
    <2>5. Renewal(fetch[p])'
      BY <1>0, <1>2, <2>1, <2>2, <2>3 DEF Renewal
    <2>. QED BY <2>1, <2>3, <2>4, <2>5, RequestGoesOn DEF Asks, Waits
  <1>3. CASE \/ GetSession(p) /\ session.who = e.who
             \/ Renew(p) /\ session # e.mine
    <2>. DEFINE f == Sending(e, session)
    <2>1. session \in [who : Accounts, id : 1..pairs]
      <3>1. \/ e.step = "session" /\ session.who = e.who
            \/ e.step = "renew"
        BY <1>3 DEF GetSession, Renew, StepOf
      <3>2. session.who \in Accounts
        BY <1>0, <3>1 DEF Renewal
      <3>. QED BY <1>0, <3>2, FetchAssumption DEF NoSession
    <2>2. /\ e.step \in {"session", "renew"} /\ Becomes(p, f) /\ First(sessionLock, p)
          /\ sessionLock' = Tail(sessionLock)
      BY <1>3 DEF GetSession, Renew, StepOf
    <2>3. f \in FetchJob /\ f.step = "send" /\ SameScan(e, f) /\ f.mine = session
      BY <1>0, <1>1, <2>1 DEF FetchJob, Asks, SameScan, Sending
    <2>. HIDE DEF f
    <2>4. fetch'[p] = f /\ Waiting' = Waiting \ {p} /\ Renewing' = Renewing \ {p}
      BY <1>0, <2>2, <2>3, NewStep DEF Waits
    <2>5. /\ UNCHANGED <<account, session, accepted, unused, serviceLock, pairs>>
          /\ UNCHANGED <<now, inbox, seen, returned, unmarked, excused>>
      BY <1>3 DEF GetSession, Renew
    <2>6. Queue(sessionLock', Waiting', Renewing')
      BY <1>0, <2>2, <2>4, QueueLeave
    <2>7. Renewal(fetch[p])'
      BY <2>1, <2>3, <2>4, <2>5 DEF Renewal
    <2>. QED BY <2>2, <2>3, <2>5, <2>6, <2>7, RequestGoesOn DEF Asks, Waits
  <1>4. CASE Expired(p)
    <2>. DEFINE f == [e EXCEPT !.step = "renew", !.retried = TRUE]
    <2>1. /\ f \in FetchJob /\ f.step = "renew" /\ e.step = "send" /\ Becomes(p, f) /\ SameScan(e, f)
          /\ f.mine = e.mine
      BY <1>0, <1>4 DEF Expired, StepOf, FetchJob, Asks, Waits, SameScan
    <2>. HIDE DEF f
    <2>2. fetch'[p] = f /\ Waiting' = Waiting \cup {p} /\ Renewing' = Renewing \ {p}
      BY <1>0, <2>1, NewStep DEF Waits
    <2>3. /\ UNCHANGED <<account, session, accepted, unused, serviceLock, pairs>>
          /\ UNCHANGED <<now, inbox, seen, returned, unmarked, excused>>
          /\ sessionLock' = Append(sessionLock, p)
      BY <1>4 DEF Expired
    <2>4. Queue(sessionLock', Waiting', Renewing')
      <3>1. p \notin Waiting /\ p \notin Renewing
        BY <2>1, Unqueued DEF Waits
      <3>2. Queue(Append(sessionLock, p), Waiting \cup {p}, Renewing) /\ Renewing \ {p} = Renewing
        BY <1>0, <3>1, QueueJoin
      <3>. QED BY <2>2, <2>3, <3>2
    <2>5. Renewal(fetch[p])'
      BY <1>0, <2>1, <2>2, <2>3 DEF Renewal
    <2>. QED BY <2>1, <2>3, <2>4, <2>5, RequestGoesOn DEF Asks, Waits
  <1>5. CASE Renew(p) /\ session = e.mine
    <2>. DEFINE f == [e EXCEPT !.step = "refresh"]
    <2>1. /\ f \in FetchJob /\ f.step = "refresh" /\ e.step = "renew" /\ Becomes(p, f) /\ SameScan(e, f)
          /\ f.mine = e.mine
      BY <1>0, <1>5 DEF Renew, StepOf, FetchJob, Asks, Waits, SameScan
    <2>. HIDE DEF f
    <2>2. fetch'[p] = f /\ Waiting' = Waiting \cup {p} /\ Renewing' = Renewing \cup {p}
      BY <1>0, <2>1, NewStep DEF Waits
    <2>3. /\ UNCHANGED <<account, session, accepted, unused, sessionLock, serviceLock, pairs>>
          /\ UNCHANGED <<now, inbox, seen, returned, unmarked, excused>> /\ First(sessionLock, p)
      BY <1>5 DEF Renew
    <2>4. Queue(sessionLock', Waiting', Renewing')
      <3>1. Queue(sessionLock, Waiting, Renewing \cup {p}) /\ Waiting \cup {p} = Waiting
        BY <1>0, <2>3, QueueHead
      <3>. QED BY <2>2, <2>3, <3>1
    <2>5. Renewal(fetch[p])'
      BY <1>0, <1>5, <2>1, <2>2, <2>3 DEF Renewal
    <2>. QED BY <2>1, <2>3, <2>4, <2>5, RequestGoesOn DEF Asks, Waits
  <1>6. CASE Refused(p)
    <2>. DEFINE f == [e EXCEPT !.step = "login", !.who = e.mine.who]
    <2>1. e.step = "refresh" /\ e.mine = session /\ e.mine \in [who : Accounts, id : 1..pairs]
          /\ e.mine.id \notin unused /\ Becomes(p, f)
      BY <1>0, <1>6 DEF Refused, StepOf, Renewal
    <2>2. /\ f \in FetchJob /\ f.step = "login" /\ SameScan(e, f) /\ f.who = e.mine.who
      BY <1>0, <2>1 DEF FetchJob, Asks, Waits, SameScan, Parties
    <2>. HIDE DEF f
    <2>3. fetch'[p] = f /\ Waiting' = Waiting \cup {p} /\ Renewing' = Renewing \cup {p}
      BY <1>0, <2>1, <2>2, NewStep DEF Waits
    <2>4. /\ UNCHANGED <<account, session, accepted, unused, sessionLock, serviceLock, pairs>>
          /\ UNCHANGED <<now, inbox, seen, returned, unmarked, excused>> /\ First(sessionLock, p)
      BY <1>6, <2>1, Heads DEF Refused
    <2>5. Queue(sessionLock', Waiting', Renewing')
      <3>1. Queue(sessionLock, Waiting, Renewing \cup {p}) /\ Waiting \cup {p} = Waiting
        BY <1>0, <2>4, QueueHead
      <3>. QED BY <2>3, <2>4, <3>1
    <2>6. Renewal(fetch[p])'
      BY <1>0, <2>1, <2>2, <2>3, <2>4 DEF Renewal
    <2>. QED BY <2>1, <2>2, <2>4, <2>5, <2>6, RequestGoesOn DEF Asks, Waits
  <1>7. CASE LoggedIn(p) \/ Refreshed(p)
    <2>1. PICK who \in Accounts : \E old : NewPair(p, who, old)
      BY <1>0, <1>7 DEF LoggedIn, Refreshed, StepOf, Renewal
    <2>2. /\ e.step \in {"login", "refresh"} /\ UNCHANGED <<account, serviceLock>>
          /\ UNCHANGED <<now, inbox, seen, returned, unmarked, excused>>
      BY <1>7 DEF LoggedIn, Refreshed, StepOf
    <2>o. PICK old : NewPair(p, who, old)
      BY <2>1
    <2>3. Control' /\ Renewals'
      BY <2>o, <2>2, PairSteps
    <2>4. PICK s : fetch' = [fetch EXCEPT ![p] = Sending(e, s)]
      BY <2>o, <2>2, PairSteps
    <2>5. fetch'[p] = Sending(e, s) /\ \A u \in Runs \ {p} : fetch'[u] = fetch[u]
      BY <1>0, <2>4
    <2>6. SameScan(e, fetch'[p]) /\ fetch'[p].step = "send" /\ fetch'[p].what = e.what
      BY <1>0, <2>5 DEF Sending, SameScan, FetchJob
    <2>7. Calm(p)
      BY <2>2, <2>5, <2>6 DEF Calm, Scans, Asks, Waits
    <2>. QED BY <2>3, <2>7
  <1>. QED BY <1>2, <1>3, <1>4, <1>5, <1>6, <1>7

(* A request that fails, a run that is cut off.                              *)
LEMMA LeaveSteps ==
  ASSUME Control, Renewals, NEW p \in Runs, End(p), sessionLock' = Without(sessionLock, p),
         UNCHANGED <<account, session, accepted, pairs>>, unused' \subseteq unused
  PROVE  Control' /\ Renewals'
  <1>1. /\ Queue(serviceLock', Lined', Scanners') /\ fetch' \in [Runs -> FetchJob]
        /\ Waiting' = Waiting \ {p} /\ Renewing' = Renewing \ {p}
        /\ fetch'[p] = Idle /\ \A u \in Runs \ {p} : fetch'[u] = fetch[u]
    BY TurnEnds
  <1>2. Queue(sessionLock', Waiting', Renewing')
    BY <1>1, QueueQuit DEF Control
  <1>3. Renewal(fetch[p])'
    BY <1>1 DEF Renewal, Idle
  <1>4. Renewals'
    BY <1>1, <1>3, RenewalsKept
  <1>. QED BY <1>1, <1>2, <1>4 DEF Control

-----------------------------------------------------------------------------
LEMMA Messages ==
  ASSUME Books, NEW r \in Indexed
  PROVE  /\ r \in Refs /\ r[1] \in Accounts /\ r[2] \in 1..Len(inbox[r[1]]) /\ r[2] \in Nat
         /\ inbox[r[1]][r[2]] \in [time : Nat, wanted : BOOLEAN]
         /\ TimeOf(r) \in Nat /\ WantedOne(r) \in BOOLEAN /\ r = <<r[1], r[2]>>
  <1>1. r \in Refs /\ r[1] \in Accounts /\ r[2] \in 1..MaxNotifs /\ r[2] <= Len(inbox[r[1]]) /\ r = <<r[1], r[2]>>
    BY DEF Indexed, Refs
  <1>2. inbox[r[1]] \in Seq([time : Nat, wanted : BOOLEAN])
    BY <1>1 DEF Books
  <1>3. r[2] \in 1..Len(inbox[r[1]])
    BY <1>1, <1>2, FetchAssumption
  <1>4. inbox[r[1]][r[2]] \in [time : Nat, wanted : BOOLEAN]
    BY <1>2, <1>3, ElementOfSeq
  <1>5. r[2] \in Nat
    BY <1>1
  <1>. QED BY <1>1, <1>3, <1>4, <1>5 DEF TimeOf, WantedOne

LEMMA MessageAt ==
  ASSUME Books, NEW a \in Accounts, NEW i \in 1..Len(inbox[a])
  PROVE  <<a, i>> \in Indexed
  <1>1. Len(inbox[a]) \in Nat /\ Len(inbox[a]) <= MaxNotifs
    BY DEF Books
  <1>2. i \in 1..MaxNotifs
    BY <1>1, FetchAssumption
  <1>. QED BY <1>1, <1>2 DEF Indexed, Refs

LEMMA BatchFacts ==
  ASSUME Books, Clock, NEW f, f.found \subseteq Indexed, f.found # {}
  PROVE  /\ Batch(f) \subseteq f.found
         /\ \E m \in Batch(f) : /\ Target(f) = TimeOf(m) + 1
                                /\ \A r \in Batch(f) : TimeOf(r) <= TimeOf(m)
         /\ \A r \in f.found \ Batch(f), q \in Batch(f) : q[2] < r[2]
  <1>. DEFINE F == f.found  Below(n) == {q \in F : q[2] < n}
  <1>1. IsFiniteSet(F)
    <2>1. IsFiniteSet(1..MaxNotifs)
      BY FetchAssumption, FS_Interval
    <2>2. IsFiniteSet(Refs)
      BY <2>1, FetchAssumption, FS_Product DEF Refs
    <2>3. F \in SUBSET Refs
      BY DEF Indexed
    <2>. QED BY <2>2, <2>3, FS_Subset
  <1>2. Batch(f) = {r \in F : Cardinality(Below(r[2])) < Limit}
    BY DEF Batch
  <1>3. \A r \in F : r[2] \in Nat
    BY Messages
  <1>4. ASSUME NEW r \in F, NEW q \in Batch(f), r[2] <= q[2] PROVE r \in Batch(f)
    <2>1. Below(r[2]) \in SUBSET Below(q[2]) /\ Below(q[2]) \in SUBSET F
      BY <1>2, <1>3, <1>4
    <2>2. IsFiniteSet(Below(q[2])) /\ IsFiniteSet(Below(r[2]))
      BY <1>1, <2>1, FS_Subset
    <2>3. Cardinality(Below(r[2])) <= Cardinality(Below(q[2]))
      BY <2>1, <2>2, FS_Subset
    <2>4. Cardinality(Below(r[2])) \in Nat /\ Cardinality(Below(q[2])) \in Nat
      BY <2>2, FS_CardinalityType
    <2>. HIDE DEF Below
    <2>5. Cardinality(Below(q[2])) < Limit
      BY <1>2
    <2>. QED BY <1>2, <2>3, <2>4, <2>5, FetchAssumption
  <1>5. Batch(f) # {}
    <2>. DEFINE S == {r[2] : r \in F}
    <2>1. S \in SUBSET Nat /\ S # {}
      BY <1>3
    <2>2. PICK n \in S : \A k \in S : n <= k
      BY <2>1, LeastElement
    <2>3. PICK r \in F : r[2] = n
      BY <2>2
    <2>4. Below(r[2]) = {}
      BY <1>3, <2>2, <2>3
    <2>5. Cardinality(Below(r[2])) = 0
      BY <2>4, FS_EmptySet
    <2>. QED BY <1>2, <2>5, FetchAssumption
  <1>6. Batch(f) \subseteq F
    BY <1>2
  <1>7. \E m \in Batch(f) : Target(f) = TimeOf(m) + 1 /\ \A r \in Batch(f) : TimeOf(r) <= TimeOf(m)
    <2>. DEFINE T == {TimeOf(r) : r \in Batch(f)}
    <2>1. T \in SUBSET Nat /\ T # {} /\ \A t \in T : t <= now
      BY <1>5, <1>6, Messages DEF Clock
    <2>2. Max(T) \in T /\ \A t \in T : t <= Max(T)
      BY <2>1, GreatestElement DEF Books
    <2>. QED BY <2>2 DEF Target
  <1>. QED BY <1>3, <1>4, <1>6, <1>7

LEMMA SettledStays ==
  ASSUME Books, \A q \in Refs : Got(q) => Got(q)', \A q \in Indexed : TimeOf(q)' = TimeOf(q),
         NEW r \in Indexed, Settled(r)
  PROVE  Settled(r)'
  <1>1. r \in Refs
    BY Messages
  <1>2. CASE Got(r)
    BY <1>1, <1>2 DEF Settled
  <1>3. CASE SameTime(r)
    <2>1. PICK q \in Refs : Got(q) /\ TimeOf(q) = TimeOf(r)
      BY <1>3 DEF SameTime, Got
    <2>2. q \in Indexed /\ Got(q)'
      BY <2>1 DEF Books
    <2>3. TimeOf(q)' = TimeOf(r)'
      BY <2>1, <2>2
    <2>. QED BY <2>1, <2>2, <2>3 DEF Settled, SameTime, Got
  <1>. QED BY <1>2, <1>3 DEF Settled

(* Scans are one at a time.                                                  *)
LEMMA OneScan ==
  ASSUME Control, NEW p \in Runs, Scans(p), NEW u \in Runs, Scans(u)
  PROVE  u = p
  BY DEF Control, Queue, First, Scanners

LEMMA CalmBooks ==
  ASSUME Books, Clock, Reads, Scannings, NEW p \in Runs, Calm(p)
  PROVE  Books' /\ Clock' /\ Reads' /\ Scannings'
  <1>1. UNCHANGED <<now, inbox, seen, returned, unmarked, excused>>
    BY DEF Calm
  <1>2. Indexed' = Indexed /\ \A r : TimeOf(r)' = TimeOf(r) /\ WantedOne(r)' = WantedOne(r)
    BY <1>1 DEF Indexed, TimeOf, WantedOne
  <1>3. \A r : Got(r)' = Got(r) /\ Settled(r)' = Settled(r) /\ WasMarked(r)' = WasMarked(r)
    BY <1>1 DEF Got, Settled, SameTime, TimeOf, WasMarked
  <1>4. Books'
    BY <1>1, <1>2, <1>3 DEF Books
  <1>5. Clock'
    BY <1>1, <1>2, <1>3 DEF Clock
  <1>6. Reads'
    BY <1>1, <1>2, <1>3 DEF Reads
  <1>7. ASSUME NEW u \in Runs PROVE /\ Scans(u)' => Scanning(fetch[u])'
                                    /\ StepOf(u, "turn")' => fetch'[u] = Begun
    <2>1. CASE fetch'[u] = fetch[u]
      <3>1. /\ Scans(u)' => Scans(u)
            /\ StepOf(u, "turn")' => StepOf(u, "turn")
        BY <2>1 DEF Scans, StepOf
      <3>2. Scans(u) => Scanning(fetch[u])'
        BY <1>1, <1>2, <1>3, <2>1 DEF Scannings, Scanning, Passing, Covers
      <3>. QED BY <2>1, <3>1, <3>2 DEF Scannings
    <2>2. CASE u = p
      <3>1. CASE Scans(p) /\ SameScan(fetch[p], fetch'[p]) /\ fetch'[p].step # "turn"
        <4>1. Scanning(fetch[p])
          BY <3>1 DEF Scannings
        <4>2. Scanning(fetch[u])'
          BY <1>1, <1>2, <1>3, <2>2, <3>1, <4>1 DEF Scanning, Passing, Covers, SameScan
        <4>3. ~StepOf(u, "turn")'
          BY <2>2, <3>1 DEF StepOf
        <4>. QED BY <4>2, <4>3
      <3>2. CASE fetch'[p] = Idle
        BY <2>2, <3>2 DEF Idle, Scans, StepOf, Asks, Waits
      <3>3. CASE fetch'[p] = Begun
        BY <2>2, <3>3 DEF Begun, Idle, Scans, Asks, Waits
      <3>5. CASE fetch'[p] = Asking(Begun, "page")
        <4>1. /\ fetch'[p].step = "session" /\ fetch'[p].what = "page" /\ fetch'[p].found = {}
              /\ fetch'[p].pages = 0 /\ fetch'[p].pagesOf = {} /\ fetch'[p].reached = FALSE
          BY <3>5 DEF Begun, Idle, Asking
        <4>2. Scanning(fetch[u])'
          BY <2>2, <4>1 DEF Scanning, Passing
        <4>. QED BY <2>2, <4>1, <4>2 DEF StepOf
      <3>4. CASE fetch'[p].what = "query" /\ fetch'[p].step # "turn"
        BY <2>2, <3>4 DEF Scans, StepOf
      <3>. QED BY <3>1, <3>2, <3>3, <3>4, <3>5 DEF Calm
    <2>. QED BY <2>1, <2>2 DEF Calm
  <1>. QED BY <1>4, <1>5, <1>6, <1>7 DEF Scannings

(* A page that is read, of the account whose session it was asked with.      *)
LEMMA PagePasses ==
  ASSUME Books, Clock, Reads, NEW e \in FetchJob, Passing(e), ~e.reached, e.mine.who \in Accounts
  PROVE  /\ Scanned(e) \in FetchJob /\ Passing(Scanned(e))
         /\ Scanned(e).what = e.what /\ Scanned(e).mine = e.mine /\ Scanned(e).step = e.step
         /\ e.mine.who \in Scanned(e).pagesOf
  <1>. DEFINE w == e.mine.who
              f == Scanned(e)
              top == IF e.pages = 0 THEN Len(inbox[w]) ELSE e.left
              page == {i \in 1..Len(inbox[w]) : i <= top /\ i + PageSize > top}
              read == {i \in page : inbox[w][i].time < seen[w]}
              new == {i \in page : inbox[w][i].wanted /\ \A j \in read : j < i}
  <1>1. /\ f.from = (IF e.pages = 0 THEN seen[w] ELSE e.from)
        /\ f.left = (IF top > PageSize THEN top - PageSize ELSE 0)
        /\ f.pages = e.pages + 1 /\ f.pagesOf = e.pagesOf \cup {w}
        /\ f.reached = (read # {})
        /\ f.found = e.found \cup {<<w, i>> : i \in new}
        /\ f.what = e.what /\ f.mine = e.mine /\ f.step = e.step
    BY DEF Scanned, FetchJob
  <1>2. /\ Len(inbox[w]) \in Nat /\ top \in Nat /\ seen[w] \in Nat /\ PageSize \in Nat \ {0}
        /\ e.pages \in Nat /\ e.left \in Nat /\ e.from \in Nat
    BY FetchAssumption DEF Books, FetchJob
  <1>3. \A i \in 1..Len(inbox[w]) : <<w, i>> \in Indexed
    BY MessageAt
  <1>4. f.found \subseteq Indexed
    BY <1>1, <1>3 DEF Passing
  <1>5. f \in FetchJob
    <2>1. f.left \in Nat /\ f.from \in Nat /\ f.pages \in Nat
      BY <1>1, <1>2
    <2>2. f.found \in SUBSET Refs /\ f.pagesOf \in SUBSET Accounts
      BY <1>1, <1>4 DEF Indexed, FetchJob
    <2>3. f.reached \in BOOLEAN
      BY <1>1
    <2>4. f = [e EXCEPT !.from = f.from, !.left = f.left, !.pages = f.pages,
                        !.reached = f.reached, !.pagesOf = f.pagesOf, !.found = f.found]
      BY DEF Scanned, FetchJob
    <2>. HIDE DEF f
    <2>. QED BY <2>1, <2>2, <2>3, <2>4 DEF FetchJob
  <1>. HIDE DEF f, top
  <1>6. ASSUME NEW a \in Accounts, f.pagesOf = {a} PROVE Covers(f, a)
    <2>1. a = w /\ (e.pages = 0 => e.found = {}) /\ (e.pages # 0 => Covers(e, a))
      <3>1. a = w /\ (e.pagesOf = {} \/ e.pagesOf = {a})
        BY <1>1, <1>6
      <3>. QED BY <3>1 DEF Passing
    <2>2. f.from <= seen[a]
      BY <1>1, <1>2, <2>1 DEF Covers
    <2>3. \A i \in read : i \in page /\ i \in Nat /\ TimeOf(<<a, i>>) < seen[a]
      BY <2>1 DEF TimeOf
    <2>4. ASSUME NEW i \in new
          PROVE  i \in page /\ TimeOf(<<a, i>>) \in Nat /\ seen[a] <= TimeOf(<<a, i>>)
      <3>1. <<a, i>> \in Indexed /\ i \in Nat /\ i \in page
        BY <1>3, <2>1
      <3>2. i \notin read
        BY <3>1
      <3>3. TimeOf(<<a, i>>) \in Nat /\ seen[a] \in Nat
        BY <1>2, <2>1, <3>1, Messages
      <3>4. ~(TimeOf(<<a, i>>) < seen[a])
        BY <2>1, <3>1, <3>2 DEF TimeOf
      <3>. QED BY <3>1, <3>3, <3>4
    <2>. HIDE DEF read, new
    <2>5. ASSUME NEW r \in f.found PROVE f.from <= TimeOf(r)
      <3>1. CASE r \in e.found
        BY <1>1, <2>1, <3>1 DEF Covers
      <3>2. CASE \E i \in new : r = <<a, i>>
        <4>1. seen[a] <= TimeOf(r) /\ TimeOf(r) \in Nat
          BY <2>4, <3>2
        <4>. QED BY <1>1, <1>2, <2>1, <2>2, <4>1
      <3>. QED BY <1>1, <2>1, <3>1, <3>2
    <2>6. ASSUME NEW r \in Indexed, r[1] = a, WasMarked(r) PROVE TimeOf(r) < f.from
      <3>1. CASE e.pages = 0
        BY <1>1, <2>1, <2>6, <3>1 DEF Reads
      <3>2. CASE e.pages # 0
        BY <1>1, <2>1, <2>6, <3>2 DEF Covers
      <3>. QED BY <3>1, <3>2
    <2>7. ASSUME NEW r \in Indexed, r[1] = a, WantedOne(r), f.reached \/ r[2] > f.left
          PROVE  r \in f.found \/ Settled(r) \/ \A q \in f.found : TimeOf(q) <= TimeOf(r)
      <3>. DEFINE i == r[2]
      <3>1. /\ i \in 1..Len(inbox[w]) /\ i \in Nat /\ r = <<a, i>> /\ TimeOf(r) \in Nat
        BY <2>1, <2>7, Messages
      <3>2. CASE \E j \in read : i <= j
        <4>1. PICK j \in read : i <= j
          BY <3>2
        <4>2. <<a, j>> \in Indexed /\ TimeOf(<<a, j>>) < seen[a]
          BY <1>3, <2>1, <2>3
        <4>3. TimeOf(r) <= TimeOf(<<a, j>>) /\ TimeOf(<<a, j>>) \in Nat
          BY <2>7, <4>1, <4>2, Messages DEF Clock
        <4>4. TimeOf(r) < seen[r[1]]
          BY <1>2, <2>1, <2>7, <3>1, <4>2, <4>3
        <4>. QED BY <2>7, <4>4 DEF Reads
      <3>3. CASE ~ \E j \in read : i <= j
        <4>1. ASSUME NEW j \in read PROVE j < i
          <5>1. ~(i <= j) /\ j \in Nat
            BY <2>3, <3>3
          <5>. QED BY <3>1, <5>1
        <4>2. CASE i \in page
          <5>1. i \in new
            BY <2>1, <2>7, <4>1, <4>2 DEF new, WantedOne
          <5>. QED BY <1>1, <2>1, <3>1, <5>1
        <4>3. CASE i \notin page
          <5>1. i > top
            <6>. SUFFICES ASSUME i + PageSize <= top PROVE FALSE
              BY <1>2, <3>1, <4>3
            <6>1. f.left = top - PageSize /\ ~(i > f.left)
              BY <1>1, <1>2, <3>1
            <6>2. PICK j \in read : TRUE
              BY <1>1, <2>7, <6>1
            <6>3. j + PageSize > top /\ j < i /\ j \in Nat
              BY <2>3, <4>1, <6>2
            <6>. QED BY <1>2, <3>1, <6>3
          <5>2. e.pages # 0 /\ i > e.left /\ top = e.left
            BY <1>2, <3>1, <5>1 DEF top
          <5>3. r \in e.found \/ Settled(r) \/ \A q \in e.found : TimeOf(q) <= TimeOf(r)
            BY <2>1, <2>7, <5>2 DEF Covers
          <5>4. ASSUME NEW q \in f.found, q \notin e.found PROVE TimeOf(q) <= TimeOf(r)
            <6>1. PICK k \in new : q = <<a, k>>
              BY <1>1, <2>1, <5>4
            <6>2. k \in Nat /\ k <= top /\ q \in Indexed /\ q[1] = a /\ q[2] = k
              BY <1>4, <2>4, <6>1
            <6>3. q[2] <= r[2]
              BY <1>2, <3>1, <5>1, <6>2
            <6>. QED BY <2>7, <6>2, <6>3 DEF Clock
          <5>. QED BY <1>1, <5>3, <5>4
        <4>. QED BY <4>2, <4>3
      <3>. QED BY <3>2, <3>3
    <2>. QED BY <2>2, <2>5, <2>6, <2>7 DEF Covers
  <1>7. \A r \in f.found : r[1] \in f.pagesOf
    BY <1>1 DEF Passing
  <1>8. f.pages # 0 /\ f.pagesOf # {} /\ w \in f.pagesOf
    BY <1>1, <1>2
  <1>. QED BY <1>1, <1>4, <1>5, <1>6, <1>7, <1>8 DEF Passing, f

LEMMA Deliveries ==
  ASSUME Books, NEW B, Deliver(B)
  PROVE  /\ returned' \in [Refs -> 0..2]
         /\ \A r \in Refs : returned'[r] > 0 <=> returned[r] > 0 \/ r \in B
         /\ \A r \in Refs : r \notin B => returned'[r] = returned[r]
         /\ \A r \in Refs : returned'[r] > 1 => returned[r] > 1 \/ (r \in B /\ returned[r] > 0)
  <1>1. returned \in [Refs -> 0..2]
    BY DEF Books
  <1>2. \A r \in Refs : returned'[r] = IF r \in B /\ returned[r] < 2 THEN returned[r] + 1 ELSE returned[r]
    BY DEF Deliver
  <1>3. \A r \in Refs : returned'[r] \in 0..2
    BY <1>1, <1>2
  <1>4. returned' \in [Refs -> 0..2]
    BY <1>3 DEF Deliver
  <1>5. ASSUME NEW r \in Refs
        PROVE  /\ returned'[r] > 0 <=> returned[r] > 0 \/ r \in B
               /\ r \notin B => returned'[r] = returned[r]
               /\ returned'[r] > 1 => returned[r] > 1 \/ (r \in B /\ returned[r] > 0)
    <2>1. returned[r] \in 0..2
      BY <1>1
    <2>2. CASE r \in B
      BY <1>2, <2>1, <2>2
    <2>3. CASE r \notin B
      BY <1>2, <2>3
    <2>. QED BY <2>2, <2>3
  <1>. QED BY <1>4, <1>5

(* The scan of p is over, and there is no other.                             *)
LEMMA NoScans ==
  ASSUME Control, Scannings, NEW p \in Runs, Scans(p), fetch'[p] = Idle,
         \A u \in Runs \ {p} : fetch'[u] = fetch[u]
  PROVE  Scannings'
  <1>. SUFFICES ASSUME NEW u \in Runs
                PROVE  ~Scans(u)' /\ (StepOf(u, "turn")' => fetch'[u] = Begun)
    BY DEF Scannings
  <1>1. CASE u = p
    BY <1>1 DEF Scans, StepOf, Idle, Asks, Waits
  <1>2. CASE u # p
    BY <1>2, OneScan DEF Scans, StepOf, Scannings
  <1>. QED BY <1>1, <1>2

(* The marker is moved, and the batch returned, or lost with the run.        *)
LEMMA MarkBooks ==
  ASSUME Control, Books, Clock, Reads, Scannings, NEW p \in Runs, Scans(p),
         fetch[p].what = "mark", fetch[p].mine.who \in Accounts, Move(fetch[p]),
         UNCHANGED <<now, inbox>>,
         \/ /\ Deliver(Batch(fetch[p])) /\ excused' = excused \cup Lost(fetch[p])
            /\ \/ unmarked' = unmarked \cup Unsure(fetch[p]) \cup UnreadAgain(fetch[p])
               \/ unmarked' = unmarked \cup Batch(fetch[p]) \cup UnreadAgain(fetch[p])
         \/ /\ UNCHANGED returned
            /\ excused' = excused \cup Passed(fetch[p]) \cup Batch(fetch[p])
            /\ unmarked' = unmarked \cup UnreadAgain(fetch[p])
  PROVE  Books' /\ Clock' /\ Reads'
  <1>. DEFINE f == fetch[p]  w == f.mine.who  T == Target(f)  B == Batch(f)
  <1>1. /\ f.found \subseteq Indexed /\ f.found # {}
        /\ \A r \in f.found : r[1] \in f.pagesOf
        /\ f.pagesOf = {w} => Covers(f, w)
    BY DEF Scannings, Scanning, Passing
  <1>2. /\ B \subseteq f.found /\ B \subseteq Indexed
        /\ \E m \in B : T = TimeOf(m) + 1 /\ \A r \in B : TimeOf(r) <= TimeOf(m)
        /\ \A r \in f.found \ B, q \in B : q[2] < r[2]
    BY <1>1, BatchFacts
  <1>3. PICK m \in B : T = TimeOf(m) + 1 /\ \A r \in B : TimeOf(r) <= TimeOf(m)
    BY <1>2
  <1>4. m \in Indexed /\ TimeOf(m) \in Nat /\ T \in Nat /\ now \in Nat /\ TimeOf(m) <= now
    <2>1. m \in Indexed /\ TimeOf(m) \in Nat
      BY <1>2, <1>3, Messages
    <2>2. now \in Nat /\ TimeOf(m) <= now
      BY <2>1 DEF Clock, Books
    <2>3. T \in Nat
      BY <1>3, <2>1
    <2>. QED BY <2>1, <2>2, <2>3
  <1>5. /\ Indexed' = Indexed /\ Refs' = Refs /\ Indexed \subseteq Refs
        /\ \A r : TimeOf(r)' = TimeOf(r) /\ WantedOne(r)' = WantedOne(r)
    BY DEF Indexed, TimeOf, WantedOne
  <1>6. seen' = [seen EXCEPT ![w] = T] /\ seen' \in [Accounts -> Nat] /\ seen \in [Accounts -> Nat]
    BY <1>4 DEF Move, Books
  <1>7. \A r \in Indexed : r \in Passed(f) <=> r[1] = w /\ seen[w] <= TimeOf(r) /\ TimeOf(r) < T
    <2>. SUFFICES ASSUME NEW r \in Indexed
                  PROVE  r \in Passed(f) <=> r[1] = w /\ seen[w] <= TimeOf(r) /\ TimeOf(r) < T
      OBVIOUS
    <2>. DEFINE J == {j \in 1..Len(inbox[w]) : seen[w] <= inbox[w][j].time /\ inbox[w][j].time < T}
    <2>1. Passed(f) = {<<w, i>> : i \in J}
      BY DEF Passed, NewlyRead
    <2>2. r = <<r[1], r[2]>> /\ r[2] \in 1..Len(inbox[r[1]])
      BY Messages
    <2>3. r \in Passed(f) <=> r[1] = w /\ r[2] \in J
      BY <2>1, <2>2
    <2>4. r[1] = w => inbox[w][r[2]].time = TimeOf(r)
      BY DEF TimeOf
    <2>. QED BY <2>2, <2>3, <2>4
  <1>8. Passed(f) \subseteq Indexed
    BY MessageAt DEF Passed, NewlyRead
  <1>9. Lost(f) \subseteq Passed(f) /\ Unsure(f) \subseteq B /\ UnreadAgain(f) \subseteq Indexed
    BY DEF Lost, Unsure, UnreadAgain
  <1>. HIDE DEF f, T, B
  <1>10. /\ returned' \in [Refs -> 0..2] /\ returned \in [Refs -> 0..2]
         /\ \A r \in Refs : returned'[r] > 0 <=> returned[r] > 0 \/ (r \in B /\ Deliver(B))
         /\ \A r \in Refs : returned'[r] > 1 => returned[r] > 1 \/ (r \in B /\ returned[r] > 0 /\ Deliver(B))
    BY Deliveries DEF Books, f, B
  <1>11. /\ \A r \in Refs : Got(r) => Got(r)'
         /\ \A r \in B : Got(r)'
         /\ \A r \in Refs : Got(r)' => Got(r) \/ r \in Indexed
    BY <1>2, <1>5, <1>8, <1>9, <1>10 DEF Got, f, B
  <1>12. unmarked \subseteq unmarked' /\ unmarked' \subseteq Refs /\ excused' \subseteq Refs
    BY <1>2, <1>5, <1>8, <1>9 DEF Books, f, B
  <1>13. Books'
    BY <1>5, <1>6, <1>10, <1>11, <1>12 DEF Books
  <1>14. Clock'
    <2>. SUFFICES ASSUME NEW a \in Accounts
                  PROVE  seen'[a] <= now \/ (seen'[a] = now + 1 /\ \E q \in Indexed : Got(q)' /\ TimeOf(q) = now)
      BY <1>5 DEF Clock
    <2>1. CASE a = w
      BY <1>3, <1>4, <1>6, <1>11, <2>1
    <2>2. CASE a # w
      <3>1. seen'[a] = seen[a]
        BY <1>6, <2>2
      <3>. QED BY <1>5, <1>11, <3>1 DEF Clock
    <2>. QED BY <2>1, <2>2
  <1>15. \A r \in Indexed : Settled(r) => Settled(r)'
    BY <1>5, <1>11, SettledStays
  <1>16. ASSUME NEW r \in Indexed, TimeOf(r) = TimeOf(m) PROVE Settled(r)'
    BY <1>3, <1>5, <1>4, <1>11, <1>16 DEF Settled, SameTime, Got
  <1>17. ASSUME NEW r \in Indexed, WantedOne(r), r[1] = w, seen[w] <= TimeOf(r), TimeOf(r) < T
         PROVE  Settled(r)'
    <2>1. r \in Passed(f) /\ TimeOf(r) \in Nat
      BY <1>7, <1>17, Messages
    <2>2. CASE r \in excused'
      BY <2>2 DEF Settled, Got
    <2>3. CASE r \notin excused'
      <3>1. OneAccount(f) /\ (f.reached \/ ~(r[2] <= f.left))
        BY <2>1, <2>3 DEF Lost, f
      <3>2. f.pagesOf = {w} /\ r[2] \in Nat /\ f.left \in Nat
        BY <3>1, Messages DEF OneAccount, f, Control, FetchJob
      <3>3. r \in f.found \/ Settled(r) \/ \A q \in f.found : TimeOf(q) <= TimeOf(r)
        BY <1>1, <1>17, <3>1, <3>2 DEF Covers
      <3>4. TimeOf(m) <= TimeOf(r) => TimeOf(r) = TimeOf(m)
        BY <1>3, <1>4, <1>17, <2>1
      <3>5. CASE r \in B
        BY <1>11, <3>5 DEF Settled
      <3>6. CASE r \in f.found \ B
        <4>1. m[2] < r[2] /\ m[1] = r[1] /\ m[2] \in Nat
          BY <1>1, <1>2, <1>3, <1>4, <1>17, <3>2, <3>6, Messages
        <4>2. TimeOf(m) <= TimeOf(r)
          BY <1>4, <3>2, <4>1 DEF Clock
        <4>. QED BY <1>16, <3>4, <4>2
      <3>7. CASE \A q \in f.found : TimeOf(q) <= TimeOf(r)
        BY <1>2, <1>3, <1>16, <3>4, <3>7
      <3>. QED BY <1>15, <3>3, <3>5, <3>6, <3>7
    <2>. QED BY <2>2, <2>3
  <1>18. ASSUME NEW r \in Indexed, WantedOne(r), TimeOf(r) < seen'[r[1]] PROVE Settled(r)'
    <2>1. CASE TimeOf(r) < seen[r[1]]
      BY <1>15, <1>18, <2>1 DEF Reads
    <2>2. CASE ~(TimeOf(r) < seen[r[1]])
      <3>1. r[1] = w /\ seen'[w] = T /\ seen[w] <= TimeOf(r)
        BY <1>6, <1>18, <2>2, Messages
      <3>. QED BY <1>17, <1>18, <3>1
    <2>. QED BY <2>1, <2>2
  <1>19. ASSUME NEW r \in Indexed, WasMarked(r)' PROVE TimeOf(r) < seen'[r[1]]
    <2>0. r \in Refs /\ TimeOf(r) \in Nat /\ r[1] \in Accounts
      BY Messages
    <2>1. (r \in B /\ OneAccount(f)) \/ WasMarked(r)
      BY <1>10, <1>12, <1>19, <2>0 DEF WasMarked, Unsure, f, B
    <2>2. CASE r[1] # w
      <3>1. ~(r \in B /\ OneAccount(f))
        BY <1>1, <1>2, <2>2 DEF OneAccount, f
      <3>. QED BY <1>6, <2>0, <2>1, <2>2, <3>1 DEF Reads
    <2>3. CASE r[1] = w /\ r \in B
      BY <1>3, <1>4, <1>6, <2>0, <2>3
    <2>4. CASE r[1] = w /\ r \notin B /\ OneAccount(f)
      <3>1. TimeOf(r) < f.from /\ f.from <= TimeOf(m) /\ f.from \in Nat
        BY <1>1, <1>2, <2>1, <2>4 DEF Covers, OneAccount, Control, FetchJob, f
      <3>. QED BY <1>3, <1>4, <1>6, <2>0, <2>4, <3>1
    <2>5. CASE r[1] = w /\ ~OneAccount(f)
      <3>1. r \notin UnreadAgain(f)
        BY <1>19 DEF WasMarked, f
      <3>2. ~(T <= TimeOf(r))
        BY <2>5, <3>1 DEF UnreadAgain, T, f
      <3>. QED BY <1>4, <1>6, <2>0, <2>5, <3>2
    <2>. QED BY <2>2, <2>3, <2>4, <2>5
  <1>20. ASSUME NEW r \in Refs, returned'[r] > 1 PROVE r \in unmarked'
    <2>1. CASE returned[r] > 1
      BY <1>12, <2>1 DEF Reads
    <2>2. CASE r \in B /\ returned[r] > 0 /\ ~(returned[r] > 1)
      <3>1. CASE OneAccount(f)
        <4>1. r[1] = w /\ r \in Indexed /\ r \in f.found /\ TimeOf(r) \in Nat
          BY <1>1, <1>2, <2>2, <3>1, Messages DEF OneAccount, f
        <4>2. ~WasMarked(r)
          <5>1. f.pagesOf = {w} /\ f.from \in Nat
            BY <3>1 DEF OneAccount, Control, FetchJob, f
          <5>2. f.from <= TimeOf(r) /\ (WasMarked(r) => TimeOf(r) < f.from)
            BY <1>1, <4>1, <5>1 DEF Covers
          <5>. QED BY <4>1, <5>1, <5>2
        <4>. QED BY <1>12, <2>2, <4>2 DEF WasMarked
      <3>2. CASE ~OneAccount(f)
        <4>1. Unsure(f) = B
          BY <3>2 DEF Unsure, B
        <4>2. returned' # returned
          BY <1>20, <2>2
        <4>. QED BY <2>2, <4>1, <4>2 DEF f, B
      <3>. QED BY <3>1, <3>2
    <2>. QED BY <1>10, <1>20, <2>1, <2>2
  <1>21. Reads'
    BY <1>5, <1>18, <1>19, <1>20 DEF Reads
  <1>. QED BY <1>13, <1>14, <1>21

(* Notifications that are returned, and not marked read.                     *)
LEMMA ReturnBooks ==
  ASSUME Books, Clock, Reads, NEW B, B \subseteq Indexed, Deliver(B), unmarked' = unmarked \cup B,
         UNCHANGED <<now, inbox, seen, excused>>
  PROVE  Books' /\ Clock' /\ Reads'
  <1>1. /\ Indexed' = Indexed /\ Refs' = Refs /\ Indexed \subseteq Refs
        /\ \A r : TimeOf(r)' = TimeOf(r) /\ WantedOne(r)' = WantedOne(r)
    BY DEF Indexed, TimeOf, WantedOne
  <1>2. /\ returned' \in [Refs -> 0..2]
        /\ \A r \in Refs : returned'[r] > 0 <=> returned[r] > 0 \/ r \in B
        /\ \A r \in Refs : returned'[r] > 1 => returned[r] > 1 \/ (r \in B /\ returned[r] > 0)
    BY Deliveries
  <1>3. /\ \A r \in Refs : Got(r) => Got(r)'
        /\ \A r \in Refs : Got(r)' => Got(r) \/ r \in Indexed
        /\ \A r \in Refs : WasMarked(r)' => WasMarked(r)
    BY <1>2 DEF Got, WasMarked
  <1>4. Books'
    BY <1>1, <1>2, <1>3 DEF Books
  <1>5. Clock'
    BY <1>1, <1>3 DEF Clock
  <1>6. \A r \in Indexed : Settled(r) => Settled(r)'
    BY <1>1, <1>3, SettledStays
  <1>7. Reads'
    BY <1>1, <1>2, <1>3, <1>6 DEF Reads
  <1>. QED BY <1>4, <1>5, <1>7

LEMMA BooksKept ==
  ASSUME Books, Clock, Reads, UNCHANGED <<now, inbox, seen, returned, unmarked, excused>>
  PROVE  Books' /\ Clock' /\ Reads'
  <1>1. Indexed' = Indexed /\ \A r : TimeOf(r)' = TimeOf(r) /\ WantedOne(r)' = WantedOne(r)
    BY DEF Indexed, TimeOf, WantedOne
  <1>2. \A r : Got(r)' = Got(r) /\ Settled(r)' = Settled(r) /\ WasMarked(r)' = WasMarked(r)
    BY DEF Got, Settled, SameTime, TimeOf, WasMarked
  <1>. QED BY <1>1, <1>2 DEF Books, Clock, Reads

LEMMA PageReadSteps ==
  ASSUME FetchSound, NEW p \in Runs, PageRead(p)
  PROVE  FetchSound'
  <1>. DEFINE e == fetch[p]  f == Scanned(e)  B == Batch(f)
  <1>1. /\ e.step = "send" /\ e.what = "page" /\ e \in FetchJob /\ e.mine.who \in Accounts /\ Scans(p)
        /\ Passing(e) /\ ~e.reached
    BY DEF PageRead, StepOf, FetchSound, Control, Renewals, Renewal, Scans, Scannings, Scanning, Asks, Waits
  <1>2. /\ f \in FetchJob /\ Passing(f) /\ f.what = "page" /\ f.mine = e.mine /\ f.step = "send"
        /\ e.mine.who \in f.pagesOf
    BY <1>1, PagePasses DEF FetchSound
  <1>. HIDE DEF f
  <1>3. UNCHANGED <<account, session, accepted, unused, now, inbox, seen, excused, pairs, fetches, trouble>>
    BY DEF PageRead
  <1>4. ASSUME NEW what \in {"page", "mark"}, Ask(p, f, what), UNCHANGED <<serviceLock, returned, unmarked>>,
               what = "mark" => f.found # {}, what = "page" => ~f.reached
        PROVE  FetchSound'
    <2>1. /\ Control' /\ Renewals' /\ fetch'[p] = Asking(f, what)
          /\ \A u \in Runs \ {p} : fetch'[u] = fetch[u]
      BY <1>1, <1>2, <1>3, <1>4, AskSteps DEF FetchSound, Waits
    <2>2. Books' /\ Clock' /\ Reads'
      BY <1>3, <1>4, BooksKept DEF FetchSound
    <2>3. LET g == Asking(f, what)
          IN  /\ g.what = what /\ g.from = f.from /\ g.left = f.left /\ g.pages = f.pages
              /\ g.reached = f.reached /\ g.found = f.found /\ g.pagesOf = f.pagesOf /\ g.step = "session"
      BY <1>2 DEF Asking, FetchJob
    <2>4. Indexed' = Indexed /\ \A r : TimeOf(r)' = TimeOf(r) /\ WantedOne(r)' = WantedOne(r)
      BY <1>3 DEF Indexed, TimeOf, WantedOne
    <2>5. \A r : Settled(r)' = Settled(r) /\ WasMarked(r)' = WasMarked(r)
      BY <1>3, <1>4 DEF Got, Settled, SameTime, TimeOf, WasMarked
    <2>6. Scannings'
      <3>. SUFFICES ASSUME NEW u \in Runs
                    PROVE  /\ Scans(u)' => Scanning(fetch[u])'
                           /\ StepOf(u, "turn")' => fetch'[u] = Begun
        BY DEF Scannings
      <3>1. CASE u = p
        <4>1. ~StepOf(u, "turn")'
          BY <2>1, <2>3, <3>1 DEF StepOf
        <4>2. Scanning(fetch[u])'
          BY <1>2, <1>3, <1>4, <2>1, <2>3, <2>4, <2>5, <3>1 DEF Scanning, Passing, Covers
        <4>. QED BY <4>1, <4>2
      <3>2. CASE u # p
        <4>1. fetch'[u] = fetch[u] /\ ~Scans(u)
          BY <1>1, <2>1, <3>2, OneScan DEF FetchSound
        <4>. QED BY <4>1 DEF Scans, StepOf, Scannings, FetchSound
      <3>. QED BY <3>1, <3>2
    <2>. QED BY <2>1, <2>2, <2>6 DEF FetchSound
  <1>5. ASSUME f.found = {} \/ Target(f) <= f.from, End(p), Deliver(B),
               unmarked' = unmarked \cup Unsure(f), UNCHANGED sessionLock
        PROVE  FetchSound'
    <2>1. /\ Queue(serviceLock', Lined', Scanners') /\ fetch' \in [Runs -> FetchJob]
          /\ Waiting' = Waiting \ {p} /\ Renewing' = Renewing \ {p}
          /\ fetch'[p] = Idle /\ \A u \in Runs \ {p} : fetch'[u] = fetch[u]
      BY <1>5, TurnEnds DEF FetchSound
    <2>2. Waiting' = Waiting /\ Renewing' = Renewing
      BY <1>1, <2>1, Unqueued DEF FetchSound, Waits
    <2>3. Renewal(fetch[p])'
      BY <2>1 DEF Renewal, Idle
    <2>4. Renewals'
      BY <1>3, <2>1, <2>3, RenewalsKept DEF FetchSound
    <2>5. Control'
      BY <1>3, <1>5, <2>1, <2>2 DEF FetchSound, Control
    <2>6. f.found \subseteq Indexed /\ B \subseteq f.found
      BY <1>2 DEF Passing, Batch
    <2>7. Unsure(f) = B
      <3>1. CASE f.found = {}
        BY <2>6, <3>1 DEF Unsure
      <3>2. CASE ~OneAccount(f)
        BY <3>2 DEF Unsure
      <3>3. CASE f.found # {} /\ OneAccount(f)
        <4>1. \A r \in f.found : f.from <= TimeOf(r)
          BY <1>1, <1>2, <3>3 DEF OneAccount, Passing, Covers
        <4>2. PICK m \in B : Target(f) = TimeOf(m) + 1
          BY <2>6, <3>3, BatchFacts DEF FetchSound
        <4>3. TimeOf(m) \in Nat /\ f.from \in Nat /\ f.from <= TimeOf(m)
          BY <1>2, <2>6, <4>1, <4>2, Messages DEF FetchSound, FetchJob
        <4>. QED BY <1>5, <3>3, <4>2, <4>3
      <3>. QED BY <3>1, <3>2, <3>3
    <2>8. Books' /\ Clock' /\ Reads'
      BY <1>3, <1>5, <2>6, <2>7, ReturnBooks DEF FetchSound
    <2>9. Scannings'
      BY <1>1, <2>1, NoScans DEF FetchSound
    <2>. QED BY <2>4, <2>5, <2>8, <2>9 DEF FetchSound
  <1>6. \/ Ask(p, f, "page") /\ UNCHANGED <<serviceLock, returned, unmarked>> /\ ~f.reached
        \/ /\ f.found = {} \/ Target(f) <= f.from
           /\ End(p) /\ Deliver(B) /\ unmarked' = unmarked \cup Unsure(f) /\ UNCHANGED sessionLock
        \/ Ask(p, f, "mark") /\ UNCHANGED <<serviceLock, returned, unmarked>> /\ f.found # {}
    BY DEF PageRead, f
  <1>. QED BY <1>4, <1>5, <1>6

(* A fetch that ends with its mark, or with a failure.                       *)
LEMMA EndSteps ==
  ASSUME FetchSound, NEW p \in Runs, SeenUpdated(p) \/ RequestFails(p) \/ CutOff(p)
  PROVE  FetchSound'
  <1>. DEFINE f == fetch[p]
  <1>1. Control /\ Renewals /\ Books /\ Clock /\ Reads /\ Scannings /\ fetch \in [Runs -> FetchJob]
    BY DEF FetchSound, Control
  <1>2. /\ Becomes(p, Idle) /\ serviceLock' = Without(serviceLock, p) /\ End(p)
    BY DEF SeenUpdated, RequestFails, CutOff, End
  <1>3. fetch'[p] = Idle /\ \A u \in Runs \ {p} : fetch'[u] = fetch[u]
    BY <1>1, <1>2, TurnEnds
  <1>4. Control' /\ Renewals'
    <2>1. CASE SeenUpdated(p)
      <3>1. /\ UNCHANGED <<account, session, accepted, unused, sessionLock, pairs>> /\ f.step = "send"
        BY <2>1 DEF SeenUpdated, StepOf
      <3>2. /\ Queue(serviceLock', Lined', Scanners') /\ fetch' \in [Runs -> FetchJob]
            /\ Waiting' = Waiting /\ Renewing' = Renewing
        BY <1>1, <1>2, <3>1, TurnEnds, Unqueued DEF Waits
      <3>3. Renewal(fetch[p])'
        BY <1>3 DEF Renewal, Idle
      <3>4. Renewals'
        BY <1>1, <1>3, <3>1, <3>3, RenewalsKept
      <3>. QED BY <1>1, <3>1, <3>2, <3>4 DEF Control
    <2>2. CASE RequestFails(p) \/ CutOff(p)
      <3>1. /\ sessionLock' = Without(sessionLock, p) /\ unused' \subseteq unused
            /\ UNCHANGED <<account, session, accepted, pairs>>
        BY <2>2 DEF RequestFails, CutOff
      <3>. QED BY <1>1, <1>2, <3>1, LeaveSteps
    <2>. QED BY <2>1, <2>2
  <1>5. UNCHANGED <<now, inbox>>
    BY DEF SeenUpdated, RequestFails, CutOff
  <1>6. CASE UNCHANGED <<seen, excused, returned, unmarked>>
    <2>1. Calm(p)
      BY <1>3, <1>5, <1>6 DEF Calm
    <2>. QED BY <1>1, <1>4, <2>1, CalmBooks DEF FetchSound
  <1>7. CASE /\ Deliver(Batch(f)) /\ unmarked' = unmarked \cup Batch(f) /\ UNCHANGED <<seen, excused>>
             /\ f.what = "mark" /\ f.step \in Asks
    <2>1. Scans(p) /\ f.found \subseteq Indexed
      BY <1>1, <1>7 DEF Scans, Scannings, Scanning, Passing
    <2>2. Batch(f) \subseteq Indexed
      BY <2>1 DEF Batch
    <2>3. Books' /\ Clock' /\ Reads'
      BY <1>1, <1>5, <1>7, <2>2, ReturnBooks
    <2>4. Scannings'
      BY <1>1, <1>3, <2>1, NoScans
    <2>. QED BY <1>4, <2>3, <2>4 DEF FetchSound
  <1>8. CASE /\ f.step = "send" /\ f.what = "mark" /\ Move(f)
             /\ \/ /\ Deliver(Batch(f)) /\ excused' = excused \cup Lost(f)
                   /\ \/ unmarked' = unmarked \cup Unsure(f) \cup UnreadAgain(f)
                      \/ unmarked' = unmarked \cup Batch(f) \cup UnreadAgain(f)
                \/ /\ UNCHANGED returned
                   /\ excused' = excused \cup Passed(f) \cup Batch(f)
                   /\ unmarked' = unmarked \cup UnreadAgain(f)
    <2>1. Scans(p) /\ f.mine.who \in Accounts
      BY <1>1, <1>8 DEF Scans, Asks, Renewals, Renewal
    <2>2. Books' /\ Clock' /\ Reads'
      BY <1>1, <1>5, <1>8, <2>1, MarkBooks
    <2>3. Scannings'
      BY <1>1, <1>3, <2>1, NoScans
    <2>. QED BY <1>4, <2>2, <2>3 DEF FetchSound
  <1>9. CASE SeenUpdated(p)
    BY <1>8, <1>9 DEF SeenUpdated, StepOf
  <1>10. CASE RequestFails(p)
    <2>1. CASE f.what # "mark"
      BY <1>6, <1>10, <2>1 DEF RequestFails
    <2>2. CASE f.what = "mark"
      <3>1. f.step \in Asks
        BY <1>10 DEF RequestFails, Asks, Waits
      <3>2. \/ Deliver(Batch(f)) /\ unmarked' = unmarked \cup Batch(f) /\ UNCHANGED <<seen, excused>>
            \/ /\ f.step = "send" /\ Move(f) /\ Deliver(Batch(f)) /\ excused' = excused \cup Lost(f)
               /\ unmarked' = unmarked \cup Batch(f) \cup UnreadAgain(f)
        BY <1>10, <2>2 DEF RequestFails, StepOf
      <3>. QED BY <1>7, <1>8, <2>2, <3>1, <3>2
    <2>. QED BY <2>1, <2>2
  <1>11. CASE CutOff(p)
    <2>1. \/ UNCHANGED <<seen, excused, unmarked>> /\ UNCHANGED returned
          \/ /\ f.step = "send" /\ f.what = "mark" /\ Move(f) /\ UNCHANGED returned
             /\ excused' = excused \cup Passed(f) \cup Batch(f)
             /\ unmarked' = unmarked \cup UnreadAgain(f)
      BY <1>11 DEF CutOff, StepOf
    <2>. QED BY <1>6, <1>8, <2>1
  <1>. QED BY <1>9, <1>10, <1>11

(* What others do: nothing here takes a lock or a token.                     *)
LEMMA ControlKept ==
  ASSUME Control, Renewals, UNCHANGED <<session, sessionLock, serviceLock, fetch, pairs>>,
         account' \in Accounts, accepted' \subseteq accepted, unused' \subseteq unused
  PROVE  Control' /\ Renewals'
  <1>1. Waiting' = Waiting /\ Renewing' = Renewing /\ Scanners' = Scanners /\ Lined' = Lined
    BY DEF Waiting, Renewing, Scanners, Lined, Scans, StepOf
  <1>2. Control'
    BY <1>1 DEF Control
  <1>3. Renewals'
    BY DEF Renewals, Renewal
  <1>. QED BY <1>2, <1>3

(* Messages come, markers go forward: what a scan knows stays true.          *)
LEMMA ScansGoOn ==
  ASSUME FetchSound, UNCHANGED <<fetch, returned, unmarked>>,
         \A a \in Accounts : seen[a] <= seen'[a], seen' \in [Accounts -> Nat],
         Indexed \subseteq Indexed', Indexed' \subseteq Refs,
         \A r \in Indexed : TimeOf(r)' = TimeOf(r) /\ WantedOne(r)' = WantedOne(r),
         \A r \in Refs : Got(r) => Got(r)',
         \A r \in Indexed' : r \notin Indexed => \A q \in Indexed : TimeOf(q) <= TimeOf(r)'
  PROVE  Scannings'
  <1>0. Books /\ Clock /\ Scannings /\ fetch \in [Runs -> FetchJob] /\ seen \in [Accounts -> Nat]
    BY DEF FetchSound, Control, Books
  <1>1. \A r \in Indexed : Settled(r) => Settled(r)'
    BY <1>0, SettledStays
  <1>2. \A r \in Indexed' : WasMarked(r)' => r \in Indexed /\ WasMarked(r)
    BY <1>0 DEF WasMarked, Got, Books
  <1>3. ASSUME NEW p \in Runs, Scans(p) PROVE Scanning(fetch[p])'
    <2>. DEFINE f == fetch[p]
    <2>1. Scanning(f) /\ f.found \subseteq Indexed /\ f.from \in Nat
      BY <1>0, <1>3 DEF Scannings, Scanning, Passing, FetchJob
    <2>2. fetch'[p] = f
      OBVIOUS
    <2>. HIDE DEF f
    <2>3. ASSUME NEW a \in Accounts, f.pagesOf = {a} PROVE Covers(fetch[p], a)'
      <3>1. Covers(f, a)
        BY <2>1, <2>3 DEF Scanning, Passing
      <3>2. f.from <= seen'[a]
        <4>1. f.from <= seen[a] /\ seen[a] <= seen'[a] /\ seen[a] \in Nat /\ seen'[a] \in Nat
          BY <1>0, <3>1 DEF Covers
        <4>. QED BY <2>1, <4>1
      <3>3. \A r \in f.found : f.from <= TimeOf(r)'
        BY <2>1, <3>1 DEF Covers
      <3>4. \A r \in Indexed' : r[1] = a /\ WasMarked(r)' => TimeOf(r)' < f.from
        BY <1>2, <3>1 DEF Covers
      <3>5. ASSUME NEW r \in Indexed', r[1] = a, WantedOne(r)', f.reached \/ r[2] > f.left
            PROVE  r \in f.found \/ Settled(r)' \/ \A q \in f.found : TimeOf(q)' <= TimeOf(r)'
        <4>1. CASE r \in Indexed
          <5>1. r \in f.found \/ Settled(r) \/ \A q \in f.found : TimeOf(q) <= TimeOf(r)
            BY <3>1, <3>5, <4>1 DEF Covers
          <5>. QED BY <1>1, <2>1, <4>1, <5>1
        <4>2. CASE r \notin Indexed
          BY <2>1, <4>2
        <4>. QED BY <4>1, <4>2
      <3>. QED BY <2>2, <3>2, <3>3, <3>4, <3>5 DEF Covers
    <2>. QED BY <2>1, <2>2, <2>3 DEF Scanning, Passing
  <1>4. \A p \in Runs : (Scans(p)' => Scans(p)) /\ (StepOf(p, "turn")' => fetch'[p] = Begun)
    BY <1>0 DEF Scans, StepOf, Scannings
  <1>. QED BY <1>3, <1>4 DEF Scannings

LEMMA Room ==
  ASSUME Books, NEW a \in Accounts, Cardinality(Indexed) < MaxNotifs
  PROVE  Len(inbox[a]) < MaxNotifs
  <1>. SUFFICES ASSUME Len(inbox[a]) >= MaxNotifs PROVE FALSE
    BY FetchAssumption DEF Books
  <1>. DEFINE S == {a} \X (1..MaxNotifs)
  <1>1. IsFiniteSet(1..MaxNotifs) /\ Cardinality(1..MaxNotifs) = MaxNotifs
    BY FetchAssumption, FS_Interval
  <1>2. IsFiniteSet({a}) /\ Cardinality({a}) = 1
    BY FS_Singleton
  <1>3. Cardinality(S) = MaxNotifs
    <2>. DEFINE A == {a}  I == 1..MaxNotifs
    <2>1. IsFiniteSet(A) /\ IsFiniteSet(I) /\ Cardinality(A) = 1 /\ Cardinality(I) = MaxNotifs
      BY <1>1, <1>2
    <2>2. S = A \X I
      OBVIOUS
    <2>. HIDE DEF A, I, S
    <2>3. Cardinality(S) = 1 * MaxNotifs
      BY <2>1, <2>2, FS_Product
    <2>. QED BY <2>3, FetchAssumption
  <1>4. IsFiniteSet(Refs)
    BY <1>1, FetchAssumption, FS_Product DEF Refs
  <1>5. Len(inbox[a]) \in Nat
    BY DEF Books
  <1>6. S \subseteq Indexed /\ Indexed \subseteq Refs
    BY <1>5, FetchAssumption DEF Indexed, Refs
  <1>7. IsFiniteSet(Indexed)
    BY <1>4, <1>6, FS_Subset
  <1>8. Cardinality(S) <= Cardinality(Indexed) /\ Cardinality(Indexed) \in Nat
    BY <1>6, <1>7, FS_Subset, FS_CardinalityType
  <1>. QED BY <1>3, <1>8, FetchAssumption

(* What an indexed notification is: it was there, or it has just come.        *)
LEMMA Arrivals ==
  ASSUME Books, NEW a \in Accounts, Arrive(a)
  PROVE  /\ now' \in Nat /\ (now' = now \/ now' = now + 1)
         /\ inbox' \in [Accounts -> Seq([time : Nat, wanted : BOOLEAN])]
         /\ \A b \in Accounts : Len(inbox'[b]) <= MaxNotifs
         /\ \A r \in Indexed : r \in Indexed' /\ TimeOf(r)' = TimeOf(r) /\ WantedOne(r)' = WantedOne(r)
         /\ \A r \in Indexed' : r \notin Indexed =>
              TimeOf(r)' = now' /\ ~Got(r) /\ r[1] = a /\ r[2] = Len(inbox[a]) + 1
  <1>1. now' \in Nat /\ (now' = now \/ now' = now + 1)
    BY DEF Arrive, Books
  <1>2. PICK wanted \in BOOLEAN : inbox' = [inbox EXCEPT ![a] = Append(@, [time |-> now', wanted |-> wanted])]
    BY DEF Arrive
  <1>. DEFINE n == Len(inbox[a])  t == now'  x == [time |-> t, wanted |-> wanted]  s == inbox[a]
  <1>3. n \in Nat /\ n < MaxNotifs
    BY Room DEF Arrive, Books
  <1>4. /\ s \in Seq([time : Nat, wanted : BOOLEAN]) /\ x \in [time : Nat, wanted : BOOLEAN]
        /\ inbox \in [Accounts -> Seq([time : Nat, wanted : BOOLEAN])]
    BY <1>1 DEF Books
  <1>5. /\ Append(s, x) \in Seq([time : Nat, wanted : BOOLEAN]) /\ Len(Append(s, x)) = n + 1
        /\ \A i \in 1..n : Append(s, x)[i] = s[i]
        /\ Append(s, x)[n + 1] = x
    BY <1>4
  <1>6. /\ inbox' \in [Accounts -> Seq([time : Nat, wanted : BOOLEAN])]
        /\ inbox'[a] = Append(s, x) /\ \A b \in Accounts \ {a} : inbox'[b] = inbox[b]
    <2>1. inbox' = [inbox EXCEPT ![a] = Append(s, x)]
      BY <1>2
    <2>. QED BY <1>4, <1>5, <2>1
  <1>x. x.time = t
    OBVIOUS
  <1>n. n = Len(inbox[a])
    OBVIOUS
  <1>. HIDE DEF x, s, t
  <1>7. ASSUME NEW r \in Indexed
        PROVE  r \in Indexed' /\ TimeOf(r)' = TimeOf(r) /\ WantedOne(r)' = WantedOne(r)
    <2>1. r \in Refs /\ r[1] \in Accounts /\ r[2] \in 1..Len(inbox[r[1]]) /\ r[2] \in Nat
      BY Messages
    <2>2. inbox'[r[1]][r[2]] = inbox[r[1]][r[2]] /\ r[2] <= Len(inbox'[r[1]])
      <3>1. CASE r[1] = a
        <4>1. r[2] \in 1..n /\ inbox[a] = s
          BY <2>1, <3>1 DEF s
        <4>2. Append(s, x)[r[2]] = s[r[2]] /\ r[2] <= n + 1
          BY <1>3, <1>5, <4>1
        <4>. QED BY <1>5, <1>6, <3>1, <4>1, <4>2
      <3>2. CASE r[1] # a
        BY <1>4, <1>6, <2>1, <3>2
      <3>. QED BY <3>1, <3>2
    <2>. QED BY <2>1, <2>2 DEF Indexed, Refs, TimeOf, WantedOne
  <1>8. ASSUME NEW r \in Indexed', r \notin Indexed
        PROVE  TimeOf(r)' = t /\ ~Got(r) /\ r[1] = a /\ r[2] = n + 1
    <2>1. /\ r \in Refs /\ r[1] \in Accounts /\ r[2] \in 1..MaxNotifs
          /\ r[2] <= Len(inbox'[r[1]]) /\ ~(r[2] <= Len(inbox[r[1]]))
      BY <1>8 DEF Indexed, Refs
    <2>2. r[1] = a
      BY <1>6, <2>1
    <2>3. r[2] \in Nat
      BY <2>1, FetchAssumption
    <2>4. r[2] <= n + 1 /\ ~(r[2] <= n)
      BY <1>5, <1>6, <2>1, <2>2
    <2>5. r[2] = n + 1
      BY <1>3, <2>3, <2>4
    <2>6. TimeOf(r)' = t
      BY <1>5, <1>6, <1>x, <2>2, <2>5 DEF TimeOf
    <2>7. ~Got(r)
      BY <1>8, <2>1 DEF Books
    <2>. QED BY <2>2, <2>5, <2>6, <2>7
  <1>9. ASSUME NEW b \in Accounts PROVE Len(inbox'[b]) <= MaxNotifs
    <2>1. CASE b = a
      <3>1. Len(inbox'[b]) = n + 1
        BY <1>5, <1>6, <2>1
      <3>. QED BY <1>3, <3>1, FetchAssumption
    <2>2. CASE b # a
      BY <1>6, <2>2 DEF Books
    <2>. QED BY <2>1, <2>2
  <1>. QED BY <1>1, <1>6, <1>7, <1>8, <1>9, <1>n DEF t

LEMMA ArriveSteps ==
  ASSUME FetchSound, NEW a \in Accounts, Arrive(a)
  PROVE  FetchSound'
  <1>0. Control /\ Renewals /\ Books /\ Clock /\ Reads /\ Scannings
    BY DEF FetchSound
  <1>1. UNCHANGED <<account, session, accepted, unused, sessionLock, serviceLock, fetch,
                    seen, returned, unmarked, excused, pairs>>
    BY DEF Arrive
  <1>. DEFINE t == now'  old(r) == TimeOf(r)  at(r) == TimeOf(r)'
  <1>2. /\ t \in Nat /\ (t = now \/ t = now + 1)
        /\ inbox' \in [Accounts -> Seq([time : Nat, wanted : BOOLEAN])]
        /\ \A b \in Accounts : Len(inbox'[b]) <= MaxNotifs
        /\ \A r \in Indexed : r \in Indexed' /\ at(r) = old(r) /\ WantedOne(r)' = WantedOne(r)
        /\ \A r \in Indexed' : r \notin Indexed =>
              at(r) = t /\ ~Got(r) /\ r[1] = a /\ r[2] = Len(inbox[a]) + 1
    BY <1>0, Arrivals
  <1>3. now \in Nat /\ seen \in [Accounts -> Nat] /\ \A r \in Indexed : r \in Refs /\ r[1] \in Accounts
                                                     /\ r[2] \in 1..Len(inbox[r[1]])
    BY <1>0, Messages DEF Books
  <1>4. \A r : (Got(r)' <=> Got(r)) /\ (WasMarked(r)' <=> WasMarked(r))
    BY <1>1 DEF Got, WasMarked
  <1>5. \A r \in Indexed : old(r) <= t /\ old(r) <= now /\ old(r) \in Nat
    <2>1. \A r \in Indexed : old(r) <= now /\ old(r) \in Nat
      BY <1>0, Messages DEF Clock
    <2>. HIDE DEF old, t
    <2>. QED BY <1>2, <1>3, <2>1
  <1>6. \A r \in Indexed : Settled(r) => Settled(r)'
    BY <1>0, <1>2, <1>4, SettledStays
  <1>7. Books'
    <2>1. \A r \in Refs : Got(r)' => r \in Indexed'
      BY <1>0, <1>2, <1>4 DEF Books
    <2>2. returned' \in [Refs -> 0..2] /\ unmarked' \subseteq Refs /\ excused' \subseteq Refs
      BY <1>0, <1>1 DEF Books
    <2>. QED BY <1>1, <1>2, <1>3, <2>1, <2>2 DEF Books, Refs
  <1>8. Clock'
    <2>1. ASSUME NEW q \in Indexed', NEW r \in Indexed', q[1] = r[1], q[2] <= r[2]
          PROVE  at(q) <= at(r)
      <3>1. CASE q \in Indexed /\ r \in Indexed
        <4>1. old(q) <= old(r)
          BY <1>0, <2>1, <3>1 DEF Clock
        <4>. QED BY <1>2, <3>1, <4>1
      <3>2. CASE q \in Indexed /\ r \notin Indexed
        <4>1. at(q) = old(q) /\ at(r) = t /\ old(q) <= t
          BY <1>2, <1>5, <3>2
        <4>. QED BY <4>1
      <3>3. CASE q \notin Indexed /\ r \notin Indexed
        <4>1. at(q) = t /\ at(r) = t
          BY <1>2, <3>3
        <4>. QED BY <1>2, <4>1
      <3>4. CASE q \notin Indexed /\ r \in Indexed
        <4>1. q[1] = a /\ q[2] = Len(inbox[a]) + 1
          BY <1>2, <3>4
        <4>2. r[2] \in 1..Len(inbox[a]) /\ Len(inbox[a]) \in Nat
          <5>1. r[1] = a /\ inbox[a] \in Seq([time : Nat, wanted : BOOLEAN])
            BY <1>0, <2>1, <4>1 DEF Books
          <5>2. r[2] \in 1..Len(inbox[r[1]])
            BY <1>3, <3>4
          <5>. QED BY <5>1, <5>2
        <4>. QED BY <2>1, <4>1, <4>2
      <3>. QED BY <3>1, <3>2, <3>3, <3>4
    <2>2. ASSUME NEW r \in Indexed' PROVE at(r) <= t
      <3>1. CASE r \in Indexed
        BY <1>2, <1>5, <3>1
      <3>2. CASE r \notin Indexed
        BY <1>2, <3>2
      <3>. QED BY <3>1, <3>2
    <2>3. ASSUME NEW b \in Accounts
          PROVE  seen'[b] <= t \/ (seen'[b] = t + 1 /\ \E q \in Indexed' : Got(q)' /\ at(q) = t)
      <3>0. /\ seen[b] \in Nat /\ seen'[b] = seen[b]
            /\ seen[b] <= now \/ (seen[b] = now + 1 /\ \E q \in Indexed : Got(q) /\ old(q) = now)
        BY <1>0, <1>1, <1>3 DEF Clock
      <3>1. CASE seen[b] <= now
        <4>. HIDE DEF t
        <4>. QED BY <1>2, <1>3, <3>0, <3>1
      <3>2. CASE seen[b] = now + 1 /\ \E q \in Indexed : Got(q) /\ old(q) = now
        <4>1. PICK q \in Indexed : Got(q) /\ old(q) = now
          BY <3>2
        <4>2. q \in Indexed' /\ Got(q)' /\ at(q) = now
          BY <1>2, <1>4, <4>1
        <4>. HIDE DEF t, at, old
        <4>. QED BY <1>2, <1>3, <3>0, <3>2, <4>2
      <3>. QED BY <3>0, <3>1, <3>2
    <2>. QED BY <2>1, <2>2, <2>3 DEF Clock
  <1>9. Reads'
    <2>1. ASSUME NEW r \in Indexed', WantedOne(r)', at(r) < seen'[r[1]] PROVE Settled(r)'
      <3>1. CASE r \in Indexed
        <4>1. WantedOne(r) /\ old(r) < seen[r[1]]
          BY <1>1, <1>2, <2>1, <3>1
        <4>. QED BY <1>0, <1>6, <3>1, <4>1 DEF Reads
      <3>2. CASE r \notin Indexed
        <4>1. at(r) = t /\ r[1] = a /\ t < seen[a] /\ seen[a] \in Nat
          BY <1>1, <1>2, <1>3, <2>1, <3>2
        <4>2. seen[a] <= now \/ (seen[a] = now + 1 /\ \E q \in Indexed : Got(q) /\ old(q) = now)
          BY <1>0 DEF Clock
        <4>3. t = now /\ \E q \in Indexed : Got(q) /\ old(q) = now
          <5>. HIDE DEF t, old
          <5>. QED BY <1>2, <1>3, <4>1, <4>2
        <4>4. PICK q \in Indexed : Got(q) /\ old(q) = now
          BY <4>3
        <4>5. q \in Refs /\ Got(q)' /\ TimeOf(q)' = TimeOf(r)'
          BY <1>2, <1>3, <1>4, <4>1, <4>3, <4>4
        <4>6. returned'[q] > 0 \/ q \in excused'
          BY <4>5 DEF Got
        <4>. QED BY <4>5, <4>6 DEF Settled, SameTime, Refs
      <3>. QED BY <3>1, <3>2
    <2>2. ASSUME NEW r \in Indexed', WasMarked(r)' PROVE at(r) < seen'[r[1]]
      <3>1. WasMarked(r) /\ r \in Indexed
        BY <1>0, <1>2, <1>4, <2>2 DEF WasMarked, Got
      <3>2. old(r) < seen[r[1]]
        BY <1>0, <3>1 DEF Reads
      <3>. QED BY <1>1, <1>2, <3>1, <3>2
    <2>3. \A r \in Refs : returned'[r] > 1 => r \in unmarked'
      BY <1>0, <1>1 DEF Reads
    <2>. QED BY <2>1, <2>2, <2>3 DEF Reads, Refs
  <1>10. Scannings'
    <2>1. \A b \in Accounts : seen[b] <= seen'[b]
      BY <1>1, <1>3
    <2>2. Indexed' \subseteq Refs /\ seen' \in [Accounts -> Nat] /\ Indexed \subseteq Indexed'
      BY <1>1, <1>2, <1>3 DEF Indexed, Refs
    <2>3. \A r \in Indexed : TimeOf(r)' = TimeOf(r) /\ WantedOne(r)' = WantedOne(r)
      BY <1>2
    <2>4. ASSUME NEW r \in Indexed', r \notin Indexed, NEW q \in Indexed PROVE TimeOf(q) <= TimeOf(r)'
      <3>1. at(r) = t /\ old(q) <= t
        BY <1>2, <1>5, <2>4
      <3>. QED BY <3>1
    <2>5. \A r \in Refs : Got(r) => Got(r)'
      BY <1>4
    <2>6. UNCHANGED <<fetch, returned, unmarked>>
      BY <1>1
    <2>. QED BY <2>1, <2>2, <2>3, <2>4, <2>5, <2>6, ScansGoOn
  <1>11. account' \in Accounts /\ accepted' \subseteq accepted /\ unused' \subseteq unused
    BY <1>0, <1>1 DEF Control
  <1>12. Control' /\ Renewals'
    BY <1>0, <1>1, <1>11, ControlKept
  <1>. QED BY <1>7, <1>8, <1>9, <1>10, <1>12 DEF FetchSound

LEMMA ReadElsewhereSteps ==
  ASSUME FetchSound, NEW a \in Accounts, ReadElsewhere(a)
  PROVE  FetchSound'
  <1>. DEFINE t == now + 1  N == NewlyRead(a, t)
  <1>0. Control /\ Renewals /\ Books /\ Clock /\ Reads /\ Scannings
    BY DEF FetchSound
  <1>1. /\ UNCHANGED <<account, session, accepted, unused, sessionLock, serviceLock, fetch,
                       inbox, returned, unmarked, pairs>>
        /\ now' = t /\ seen' = [seen EXCEPT ![a] = t] /\ excused' = excused \cup N
    BY DEF ReadElsewhere
  <1>2. now \in Nat /\ seen \in [Accounts -> Nat] /\ \A r \in Indexed : r \in Refs /\ r[1] \in Accounts
                                                                       /\ TimeOf(r) \in Nat
    BY <1>0, Messages DEF Books
  <1>3. Indexed' = Indexed /\ \A r : TimeOf(r)' = TimeOf(r) /\ WantedOne(r)' = WantedOne(r)
    BY <1>1 DEF Indexed, TimeOf, WantedOne
  <1>4. N \subseteq Indexed
    <2>1. \A i \in 1..Len(inbox[a]) : <<a, i>> \in Indexed
      BY <1>0, MessageAt
    <2>. QED BY <2>1 DEF NewlyRead
  <1>5. ASSUME NEW r \in Indexed, r[1] = a, seen[a] <= TimeOf(r), TimeOf(r) < t PROVE r \in N
    <2>1. r = <<a, r[2]>> /\ r[2] \in 1..Len(inbox[a])
      BY <1>0, <1>5, Messages
    <2>. QED BY <1>5, <2>1 DEF NewlyRead, TimeOf
  <1>6. \A r : (Got(r)' <=> Got(r) \/ r \in N) /\ (WasMarked(r)' <=> WasMarked(r))
    BY <1>1 DEF Got, WasMarked
  <1>7. \A r \in Indexed : Settled(r) => Settled(r)'
    BY <1>0, <1>3, <1>6, SettledStays
  <1>8. /\ seen'[a] = t /\ \A b \in Accounts \ {a} : seen'[b] = seen[b]
        /\ \A b \in Accounts : seen[b] <= seen'[b] /\ seen'[b] <= t /\ seen'[b] \in Nat
    <2>1. \A b \in Accounts : seen[b] <= now + 1
      BY <1>0, <1>2 DEF Clock
    <2>. QED BY <1>1, <1>2, <2>1
  <1>9. Books'
    <2>1. \A r \in Refs : Got(r)' => r \in Indexed'
      BY <1>0, <1>3, <1>4, <1>6 DEF Books
    <2>2. excused' \subseteq Refs /\ now' \in Nat /\ seen' \in [Accounts -> Nat]
      BY <1>0, <1>1, <1>2, <1>4 DEF Books
    <2>. QED BY <1>0, <1>1, <2>1, <2>2 DEF Books, Refs
  <1>10. Clock'
    <2>1. \A q, r \in Indexed' : q[1] = r[1] /\ q[2] <= r[2] => TimeOf(q)' <= TimeOf(r)'
      BY <1>0, <1>3 DEF Clock
    <2>2. ASSUME NEW r \in Indexed PROVE TimeOf(r) <= t
      <3>1. TimeOf(r) <= now /\ TimeOf(r) \in Nat
        BY <1>0, <1>2 DEF Clock
      <3>. QED BY <1>2, <3>1
    <2>. QED BY <1>1, <1>3, <1>8, <2>1, <2>2 DEF Clock
  <1>11. Reads'
    <2>1. ASSUME NEW r \in Indexed, WantedOne(r), TimeOf(r) < seen'[r[1]] PROVE Settled(r)'
      <3>1. CASE TimeOf(r) < seen[r[1]]
        BY <1>0, <1>7, <2>1, <3>1 DEF Reads
      <3>2. CASE ~(TimeOf(r) < seen[r[1]])
        <4>1. r[1] = a /\ TimeOf(r) < t
          BY <1>2, <1>8, <2>1, <3>2
        <4>2. seen[a] <= TimeOf(r)
          BY <1>2, <3>2, <4>1
        <4>3. r \in N
          BY <1>5, <4>1, <4>2
        <4>. QED BY <1>6, <4>3 DEF Settled
      <3>. QED BY <3>1, <3>2
    <2>2. ASSUME NEW r \in Indexed, WasMarked(r) PROVE TimeOf(r) < seen'[r[1]]
      <3>1. TimeOf(r) < seen[r[1]]
        BY <1>0, <2>2 DEF Reads
      <3>. QED BY <1>2, <1>8, <3>1
    <2>3. \A r \in Refs : returned'[r] > 1 => r \in unmarked'
      BY <1>0, <1>1 DEF Reads
    <2>. QED BY <1>3, <1>6, <2>1, <2>2, <2>3 DEF Reads, Refs
  <1>12. Scannings'
    <2>1. Indexed \subseteq Indexed' /\ Indexed' \subseteq Refs /\ seen' \in [Accounts -> Nat]
      BY <1>1, <1>2, <1>3
    <2>2. UNCHANGED <<fetch, returned, unmarked>>
      BY <1>1
    <2>3. \A r \in Indexed' : r \notin Indexed => \A q \in Indexed : TimeOf(q) <= TimeOf(r)'
      BY <1>3
    <2>4. \A r \in Indexed : TimeOf(r)' = TimeOf(r) /\ WantedOne(r)' = WantedOne(r)
      BY <1>3
    <2>. QED BY <1>6, <1>8, <2>1, <2>2, <2>3, <2>4, ScansGoOn
  <1>13. account' \in Accounts /\ accepted' \subseteq accepted /\ unused' \subseteq unused
    BY <1>0, <1>1 DEF Control
  <1>14. Control' /\ Renewals'
    BY <1>0, <1>1, <1>13, ControlKept
  <1>. QED BY <1>9, <1>10, <1>11, <1>12, <1>14 DEF FetchSound

(* A token expires; the credentials change; nothing happens.                 *)
LEMMA QuietSteps ==
  ASSUME FetchSound, Expire \/ ChangeAccount \/ UNCHANGED fetchVars
  PROVE  FetchSound'
  <1>0. Control /\ Renewals /\ Books /\ Clock /\ Reads /\ Scannings
    BY DEF FetchSound
  <1>1. UNCHANGED <<session, sessionLock, serviceLock, fetch, pairs, now, inbox, seen, returned,
                    unmarked, excused>>
    BY DEF Expire, ChangeAccount, fetchVars
  <1>2. account' \in Accounts /\ accepted' \subseteq accepted /\ unused' \subseteq unused
    <2>1. CASE Expire
      <3>1. PICK i \in accepted : accepted' = accepted \ {i} /\ unused' \in {unused, unused \ {i}}
        BY <2>1 DEF Expire
      <3>. QED BY <1>0, <2>1, <3>1 DEF Expire, Control
    <2>2. CASE ChangeAccount \/ UNCHANGED fetchVars
      BY <1>0, <2>2 DEF ChangeAccount, fetchVars, Control
    <2>. QED BY <2>1, <2>2
  <1>3. Control' /\ Renewals'
    BY <1>0, <1>1, <1>2, ControlKept
  <1>4. Books' /\ Clock' /\ Reads'
    BY <1>0, <1>1, BooksKept
  <1>5. Scannings'
    <2>1. /\ Indexed \subseteq Indexed' /\ Indexed' \subseteq Refs
          /\ \A r \in Indexed : TimeOf(r)' = TimeOf(r) /\ WantedOne(r)' = WantedOne(r)
          /\ \A r \in Refs : Got(r) => Got(r)'
          /\ \A r \in Indexed' : r \notin Indexed => \A q \in Indexed : TimeOf(q) <= TimeOf(r)'
      BY <1>1 DEF Indexed, TimeOf, WantedOne, Got, Refs
    <2>2. seen' \in [Accounts -> Nat] /\ \A b \in Accounts : seen[b] <= seen'[b]
      BY <1>0, <1>1 DEF Books
    <2>. QED BY <1>1, <2>1, <2>2, ScansGoOn
  <1>. QED BY <1>3, <1>4, <1>5 DEF FetchSound

LEMMA FetchSoundInit == FetchInit => FetchSound
  <1>. SUFFICES ASSUME FetchInit PROVE FetchSound
    OBVIOUS
  <1>1. /\ session = NoSession /\ accepted = {} /\ unused = {} /\ sessionLock = << >> /\ serviceLock = << >>
        /\ fetch = [p \in Runs |-> Idle] /\ now = 1 /\ pairs = 0
        /\ inbox = [a \in Accounts |-> << >>] /\ seen = [a \in Accounts |-> 0]
        /\ returned = [r \in Refs |-> 0] /\ unmarked = {} /\ excused = {}
    BY DEF FetchInit
  <1>2. account \in Accounts
    BY FetchAssumption DEF FetchInit
  <1>3. \A p \in Runs : fetch[p] = Idle
    BY <1>1
  <1>4. Idle \in FetchJob /\ Idle.step = "idle"
    BY DEF Idle, FetchJob, NoSession, Parties, Asks, Waits
  <1>5. fetch \in [Runs -> FetchJob]
    BY <1>1, <1>4
  <1>6. Waiting = {} /\ Renewing = {} /\ Scanners = {} /\ Lined = {}
    BY <1>3, <1>4 DEF Waiting, Renewing, Scanners, Lined, Scans, StepOf, Asks, Waits
  <1>7. Queue(<< >>, {}, {})
    BY DEF Queue, Once, Members
  <1>8. Control
    BY <1>1, <1>2, <1>5, <1>6, <1>7 DEF Control
  <1>9. Renewals
    BY <1>3, <1>4 DEF Renewals, Renewal
  <1>10. \A a \in Accounts : inbox[a] = << >> /\ Len(inbox[a]) = 0
    BY <1>1
  <1>11. Indexed = {}
    <2>1. ASSUME NEW r \in Indexed PROVE FALSE
      <3>1. r[1] \in Accounts /\ r[2] \in 1..MaxNotifs /\ r[2] <= Len(inbox[r[1]])
        BY DEF Indexed, Refs
      <3>. QED BY <1>10, <3>1, FetchAssumption
    <2>. QED BY <2>1
  <1>12. \A r \in Refs : ~Got(r) /\ returned[r] = 0
    BY <1>1 DEF Got
  <1>13. Books
    BY <1>1, <1>10, <1>12, FetchAssumption DEF Books
  <1>14. Clock /\ Reads
    BY <1>1, <1>11, <1>12 DEF Clock, Reads
  <1>15. Scannings
    BY <1>3, <1>4 DEF Scannings, Scans, StepOf, Asks, Waits
  <1>. QED BY <1>8, <1>9, <1>13, <1>14, <1>15 DEF FetchSound

LEMMA FetchSoundNext == FetchSound /\ [FetchNext]_fetchVars => FetchSound'
  <1>. SUFFICES ASSUME FetchSound, [FetchNext]_fetchVars PROVE FetchSound'
    OBVIOUS
  <1>0. Control /\ Renewals /\ Books /\ Clock /\ Reads /\ Scannings
    BY DEF FetchSound
  <1>1. ASSUME NEW p \in Runs, Begin(p) \/ Scan(p) \/ Query(p) \/ Told(p) PROVE FetchSound'
    BY <1>0, <1>1, QueueSteps, CalmBooks DEF FetchSound
  <1>2. ASSUME NEW p \in Runs, GetSession(p) \/ LoggedIn(p) \/ Expired(p) \/ Renew(p) \/ Refreshed(p) \/ Refused(p)
        PROVE  FetchSound'
    BY <1>0, <1>2, TokenSteps, CalmBooks DEF FetchSound
  <1>3. ASSUME NEW p \in Runs, PageRead(p) PROVE FetchSound'
    BY <1>3, PageReadSteps
  <1>4. ASSUME NEW p \in Runs, SeenUpdated(p) \/ RequestFails(p) \/ CutOff(p) PROVE FetchSound'
    BY <1>4, EndSteps
  <1>5. ASSUME NEW a \in Accounts, Arrive(a) PROVE FetchSound'
    BY <1>5, ArriveSteps
  <1>6. ASSUME NEW a \in Accounts, ReadElsewhere(a) PROVE FetchSound'
    BY <1>6, ReadElsewhereSteps
  <1>7. CASE Expire \/ ChangeAccount \/ UNCHANGED fetchVars
    BY <1>7, QuietSteps
  <1>. QED BY <1>1, <1>2, <1>3, <1>4, <1>5, <1>6, <1>7 DEF FetchNext

LEMMA FetchSoundAlways == FetchSpec => []FetchSound
  BY FetchSoundInit, FetchSoundNext, PTL DEF FetchSpec

(* Every fetch, token and record has its shape.                              *)
THEOREM FetchTypes == FetchSpec => []FetchTypeOK
  <1>1. FetchSound => FetchTypeOK
    <2>. SUFFICES ASSUME FetchSound PROVE FetchTypeOK
      OBVIOUS
    <2>1. Control /\ Books
      BY DEF FetchSound
    <2>2. account \in Accounts /\ accepted \subseteq 1..pairs /\ unused \subseteq 1..pairs
      BY <2>1 DEF Control
    <2>3. session \in [who : Accounts \cup {Nobody}, id : 0..pairs]
      <3>1. pairs \in Nat /\ session \in {NoSession} \cup [who : Accounts, id : 1..pairs]
        BY <2>1 DEF Control
      <3>. QED BY <3>1 DEF NoSession
    <2>4. sessionLock \in Seq(Runs) /\ serviceLock \in Seq(Runs)
      BY <2>1 DEF Control, Queue
    <2>5. \A p \in Runs : fetch[p].found \subseteq Refs
      BY <2>1 DEF Control, FetchJob
    <2>6. returned \in [Refs -> 0..2] /\ unmarked \subseteq Refs /\ excused \subseteq Refs
      BY <2>1 DEF Books
    <2>. QED BY <2>2, <2>3, <2>4, <2>5, <2>6 DEF FetchTypeOK
  <1>. QED BY <1>1, FetchSoundAlways, PTL

(* No notification the agent waits for is lost, or returned again, but the   *)
(* ones the books name: for any number of runs, accounts and failures.       *)
THEOREM ReturnedWhatWasRead == FetchSpec => []ReadMeansReturned
  <1>1. FetchSound => ReadMeansReturned
    <2>. SUFFICES ASSUME FetchSound, NEW a \in Accounts, NEW i \in 1..Len(inbox[a])
                  PROVE  LET r == <<a, i>>
                         IN /\ inbox[a][i].wanted /\ inbox[a][i].time < seen[a] =>
                                 returned[r] > 0 \/ r \in excused \/ SameTime(r)
                            /\ returned[r] > 1 => r \in unmarked
      BY DEF ReadMeansReturned
    <2>. DEFINE r == <<a, i>>
    <2>1. Books /\ Reads
      BY DEF FetchSound
    <2>2. r \in Indexed /\ r \in Refs /\ r[1] = a /\ r[2] = i
      BY <2>1, MessageAt, Messages
    <2>3. inbox[a][i].wanted /\ inbox[a][i].time < seen[a] => Settled(r)
      BY <2>1, <2>2 DEF Reads, WantedOne, TimeOf
    <2>4. returned[r] > 1 => r \in unmarked
      BY <2>1, <2>2 DEF Reads
    <2>. QED BY <2>3, <2>4 DEF Settled, Got
  <1>. QED BY <1>1, FetchSoundAlways, PTL

(* Two runs never spend the same refresh token, and no run logs in while the *)
(* session it would replace can still be renewed.                            *)
THEOREM TokensOnce == FetchSpec => []TokensSpentOnce
  <1>1. FetchSound => TokensSpentOnce
    <2>. SUFFICES ASSUME FetchSound, NEW p \in Runs
                  PROVE  /\ StepOf(p, "refresh") => fetch[p].mine = session
                         /\ StepOf(p, "login") => session.who # fetch[p].who \/ session.id \notin unused
                         /\ fetch[p].step \in {"refresh", "login"} => First(sessionLock, p)
      BY DEF TokensSpentOnce
    <2>1. Control /\ Renewal(fetch[p])
      BY DEF FetchSound, Renewals
    <2>2. fetch[p].step \in {"refresh", "login"} => First(sessionLock, p)
      BY <2>1 DEF Control, Queue, Renewing
    <2>. QED BY <2>1, <2>2 DEF Renewal, StepOf
  <1>. QED BY <1>1, FetchSoundAlways, PTL

-----------------------------------------------------------------------------
(* The migrations: where a start is, and what it has before it.              *)

MigrationShape ==
  /\ renamed \in BOOLEAN /\ revived \in BOOLEAN /\ mishaps \in Nat
  /\ schedule \in [Legacy -> {"none", "old", "new"}]
  /\ imports \in [Rkeys -> Nat]
  /\ marked \subseteq Notes

\* Imported when it was marked, and by none but a start that has it to do.
Marks ==
  /\ \A k \in Rkeys : imports[k] = IF k \in marked THEN 1 ELSE 0
  /\ stage = "migrate" => todo \subseteq Notes \ marked
  /\ mishaps = 0 => /\ stage = "migrate" => Notes \subseteq marked \cup todo
                    /\ stage \in {"embed", "up"} => Notes \subseteq marked

\* The file is read by a start that has it, and left behind when it was renamed.
FileOnce ==
  /\ stage = "import" => ~renamed /\ Legacy \subseteq taken \cup refused \cup todo
  /\ renamed => Legacy \subseteq taken \cup refused
  /\ stage # "import" => renamed \/ revived
  /\ dropped # {} => renamed \/ revived

NoteKept(n) ==
  /\ n \in dropped => (n \notin loaded /\ schedule[n] = "none") \/ revived
  /\ n \in renewed => schedule[n] = "new"
Keeps == \A n \in Legacy : NoteKept(n)

MigrationSound == MigrationShape /\ Marks /\ FileOnce /\ Keeps

\* What a step needs of a step before it.
LEMMA MarksKept ==
  ASSUME Marks, UNCHANGED <<marked, imports>>, mishaps' = 0 => mishaps = 0,
         stage' = "migrate" => (stage = "migrate" /\ (todo' = todo \/ mishaps' # 0) /\ todo' \subseteq todo)
                               \/ todo' = Notes \ marked,
         stage' \in {"embed", "up"} => stage \in {"embed", "up"} \/ (stage = "migrate" /\ todo = {})
  PROVE  Marks'
  <1>1. \A k \in Rkeys : imports'[k] = IF k \in marked' THEN 1 ELSE 0
    BY DEF Marks
  <1>2. stage' = "migrate" => todo' \subseteq Notes \ marked'
    BY DEF Marks
  <1>3. mishaps' = 0 /\ stage' = "migrate" => Notes \subseteq marked' \cup todo'
    BY DEF Marks
  <1>4. mishaps' = 0 /\ stage' \in {"embed", "up"} => Notes \subseteq marked'
    BY DEF Marks
  <1>. QED BY <1>1, <1>2, <1>3, <1>4 DEF Marks, Rkeys

LEMMA MigrateSound ==
  ASSUME MigrationSound, NEW k \in Rkeys, Migrate(k)
  PROVE  MigrationSound'
  <1>1. /\ stage = "migrate" /\ k \in todo /\ stage' = stage /\ todo' = todo \ {k}
        /\ imports' = [imports EXCEPT ![k] = imports[k] + 1] /\ marked' = marked \cup {k}
        /\ UNCHANGED <<renamed, schedule, loaded, taken, refused, dropped, renewed, revived, mishaps>>
    BY DEF Migrate, Done, Added
  <1>2. k \in Notes /\ k \notin marked /\ imports[k] = 0
    BY <1>1 DEF MigrationSound, Marks
  <1>3. MigrationShape'
    BY <1>1, <1>2 DEF MigrationSound, MigrationShape, Rkeys
  <1>4. Marks'
    <2>1. ASSUME NEW x \in Rkeys PROVE imports'[x] = IF x \in marked' THEN 1 ELSE 0
      <3>1. imports'[x] = IF x = k THEN imports[k] + 1 ELSE imports[x]
        BY <1>1 DEF MigrationSound, MigrationShape
      <3>. QED BY <1>1, <1>2, <3>1 DEF MigrationSound, Marks
    <2>. QED BY <1>1, <1>2, <2>1 DEF MigrationSound, Marks, Rkeys
  <1>5. FileOnce' /\ Keeps'
    BY <1>1 DEF MigrationSound, FileOnce, Keeps, NoteKept
  <1>. QED BY <1>3, <1>4, <1>5 DEF MigrationSound

\* The loops of a start, but the one that marks.
LEMMA ImportsSound ==
  ASSUME MigrationSound,
         \/ \E n \in Legacy : ImportSchedule(n) \/ ImportFails(n)
         \/ \E k \in Rkeys : MigrateFails(k) \/ Backfill(k)
         \/ RenameFile \/ LoadTasks \/ ListBare \/ Up \/ StopAndStart
  PROVE  MigrationSound'
  <1>0. MigrationShape /\ Marks /\ FileOnce /\ Keeps
    BY DEF MigrationSound
  <1>1. ASSUME NEW n \in Legacy, ImportSchedule(n) PROVE MigrationSound'
    <2>1. /\ stage = "import" /\ stage' = stage /\ todo' = todo \ {n} /\ taken' = taken \cup {n}
          /\ UNCHANGED <<renamed, marked, imports, refused, dropped, renewed, revived, mishaps>>
      BY <1>1 DEF ImportSchedule, Done
    <2>2. /\ schedule' \in [Legacy -> {"none", "old", "new"}]
          /\ schedule[n] # "none" => UNCHANGED <<schedule, loaded>>
          /\ \A x \in Legacy : schedule[x] # "none" => schedule'[x] = schedule[x]
      BY <1>0, <1>1 DEF ImportSchedule, MigrationShape
    <2>3. MigrationShape'
      BY <1>0, <2>1, <2>2 DEF MigrationShape, Rkeys
    <2>4. Marks'
      BY <1>0, <2>1, MarksKept
    <2>5. FileOnce'
      BY <1>0, <2>1 DEF FileOnce
    <2>6. dropped # {} => revived
      BY <1>0, <2>1 DEF FileOnce
    <2>7. Keeps'
      BY <1>0, <2>1, <2>2, <2>6 DEF Keeps, NoteKept
    <2>. QED BY <2>3, <2>4, <2>5, <2>7 DEF MigrationSound
  <1>2. ASSUME NEW n \in Legacy, ImportFails(n) PROVE MigrationSound'
    <2>1. /\ stage = "import" /\ stage' = stage /\ todo' = todo \ {n} /\ refused' = refused \cup {n}
          /\ UNCHANGED <<renamed, schedule, loaded, marked, imports, taken, dropped, renewed, revived>>
          /\ mishaps' = mishaps + 1
      BY <1>2 DEF ImportFails, Done, Mishap
    <2>2. MigrationShape' /\ mishaps' # 0
      BY <1>0, <2>1 DEF MigrationShape, Rkeys
    <2>3. Marks'
      BY <1>0, <2>1, <2>2, MarksKept
    <2>4. FileOnce' /\ Keeps'
      BY <1>0, <2>1 DEF FileOnce, Keeps, NoteKept
    <2>. QED BY <2>2, <2>3, <2>4 DEF MigrationSound
  <1>3. ASSUME NEW k \in Rkeys, MigrateFails(k) PROVE MigrationSound'
    <2>1. /\ stage = "migrate" /\ stage' = stage /\ todo' = todo \ {k}
          /\ UNCHANGED <<renamed, schedule, loaded, marked, imports, taken, refused, dropped, renewed, revived>>
          /\ mishaps' = mishaps + 1
      BY <1>3 DEF MigrateFails, Done, Mishap
    <2>2. MigrationShape' /\ mishaps' # 0
      BY <1>0, <2>1 DEF MigrationShape, Rkeys
    <2>3. Marks'
      BY <1>0, <2>1, <2>2, MarksKept
    <2>4. FileOnce' /\ Keeps'
      BY <1>0, <2>1 DEF FileOnce, Keeps, NoteKept
    <2>. QED BY <2>2, <2>3, <2>4 DEF MigrationSound
  <1>4. ASSUME NEW k \in Rkeys, Backfill(k) PROVE MigrationSound'
    <2>1. /\ stage = "embed" /\ stage' = stage
          /\ UNCHANGED <<renamed, schedule, loaded, marked, imports, taken, refused, dropped, renewed,
                         revived, mishaps>>
      BY <1>4 DEF Backfill, Done
    <2>2. Marks'
      BY <1>0, <2>1, MarksKept
    <2>3. MigrationShape' /\ FileOnce' /\ Keeps'
      BY <1>0, <2>1 DEF MigrationShape, FileOnce, Keeps, NoteKept, Rkeys
    <2>. QED BY <2>2, <2>3 DEF MigrationSound
  <1>5. CASE RenameFile
    <2>1. /\ stage = "import" /\ todo = {} /\ stage' = "load" /\ todo' = todo
          /\ UNCHANGED <<schedule, loaded, marked, imports, taken, refused, dropped, renewed>>
      BY <1>5 DEF RenameFile
    <2>2. \/ renamed' = TRUE /\ UNCHANGED <<revived, mishaps>>
          \/ mishaps' = mishaps + 1 /\ revived' = TRUE /\ UNCHANGED renamed
      BY <1>5 DEF RenameFile, Mishap
    <2>3. MigrationShape' /\ (mishaps' = 0 => mishaps = 0) /\ (revived => revived')
      <3>1. mishaps \in Nat /\ renamed \in BOOLEAN /\ revived \in BOOLEAN
        BY <1>0 DEF MigrationShape
      <3>2. /\ mishaps' \in Nat /\ (mishaps' = 0 => mishaps = 0) /\ (revived => revived')
            /\ renamed' \in BOOLEAN /\ revived' \in BOOLEAN
        <4>1. CASE renamed' = TRUE /\ UNCHANGED <<revived, mishaps>>
          BY <3>1, <4>1
        <4>2. CASE mishaps' = mishaps + 1 /\ revived' = TRUE /\ UNCHANGED renamed
          <5>1. mishaps' \in Nat /\ mishaps' # 0
            BY <3>1, <4>2
          <5>. QED BY <3>1, <4>2, <5>1
        <4>. QED BY <2>2, <4>1, <4>2
      <3>3. /\ schedule' \in [Legacy -> {"none", "old", "new"}] /\ imports' \in [Rkeys -> Nat]
            /\ marked' \subseteq Notes
        BY <1>0, <2>1 DEF MigrationShape
      <3>. QED BY <3>2, <3>3 DEF MigrationShape, Rkeys
    <2>4. Marks'
      BY <1>0, <2>1, <2>3, MarksKept
    <2>5. FileOnce'
      BY <1>0, <2>1, <2>2 DEF FileOnce
    <2>6. Keeps'
      BY <1>0, <2>1, <2>3 DEF Keeps, NoteKept
    <2>. QED BY <2>3, <2>4, <2>5, <2>6 DEF MigrationSound
  <1>6. CASE LoadTasks
    <2>1. /\ stage = "load" /\ stage' = "migrate" /\ todo' = Rkeys \ (Managed \cup marked)
          /\ loaded' = {n \in Legacy : schedule[n] # "none"}
          /\ UNCHANGED <<renamed, schedule, marked, imports, taken, refused, dropped, renewed, revived, mishaps>>
      BY <1>6 DEF LoadTasks
    <2>2. todo' = Notes \ marked
      BY <2>1, MigrationAssumption DEF Rkeys
    <2>3. Marks'
      BY <1>0, <2>1, <2>2, MarksKept
    <2>4. MigrationShape' /\ FileOnce'
      BY <1>0, <2>1 DEF MigrationShape, FileOnce, Rkeys
    <2>5. Keeps'
      BY <1>0, <2>1 DEF Keeps, NoteKept
    <2>. QED BY <2>3, <2>4, <2>5 DEF MigrationSound
  <1>7. CASE ListBare \/ Up
    <2>1. /\ stage' \in {"embed", "up"} /\ (stage = "embed" \/ (stage = "migrate" /\ todo = {}))
          /\ UNCHANGED <<renamed, schedule, loaded, marked, imports, taken, refused, dropped, renewed,
                         revived, mishaps>>
      BY <1>7 DEF ListBare, Up
    <2>2. Marks'
      BY <1>0, <2>1, MarksKept
    <2>3. MigrationShape' /\ FileOnce' /\ Keeps'
      BY <1>0, <2>1 DEF MigrationShape, FileOnce, Keeps, NoteKept, Rkeys
    <2>. QED BY <2>2, <2>3 DEF MigrationSound
  <1>8. CASE StopAndStart
    <2>1. /\ stage' = (IF renamed THEN "load" ELSE "import") /\ todo' = (IF renamed THEN {} ELSE Legacy)
          /\ loaded' = {}
          /\ UNCHANGED <<renamed, schedule, marked, imports, taken, refused, dropped, renewed, revived, mishaps>>
      BY <1>8 DEF StopAndStart, Boots
    <2>2. Marks'
      BY <1>0, <2>1, MarksKept
    <2>3. MigrationShape' /\ FileOnce'
      BY <1>0, <2>1 DEF MigrationShape, FileOnce, Rkeys
    <2>4. Keeps'
      BY <1>0, <2>1 DEF Keeps, NoteKept
    <2>. QED BY <2>2, <2>3, <2>4 DEF MigrationSound
  <1>. QED BY <1>1, <1>2, <1>3, <1>4, <1>5, <1>6, <1>7, <1>8

\* What is done with schedules and entries while the service is up.
LEMMA EditsSound ==
  ASSUME MigrationSound,
         \/ \E n \in Legacy : AddSchedule(n) \/ ChangeSchedule(n) \/ DropSchedule(n)
         \/ \E k \in Rkeys : ChangeEntry(k)
         \/ UNCHANGED migrationVars
  PROVE  MigrationSound'
  <1>0. MigrationShape /\ Marks /\ FileOnce /\ Keeps
    BY DEF MigrationSound
  <1>1. ASSUME NEW n \in Legacy, AddSchedule(n) \/ ChangeSchedule(n) PROVE MigrationSound'
    <2>1. /\ stage = "up" /\ UNCHANGED <<renamed, marked, stage, todo, imports, taken, refused, revived, mishaps>>
          /\ schedule' = [schedule EXCEPT ![n] = "new"] /\ renewed' = renewed \cup {n}
          /\ \/ loaded' = loaded \cup {n} /\ dropped' = dropped \ {n}
             \/ n \in loaded /\ UNCHANGED <<loaded, dropped>>
      BY <1>1 DEF AddSchedule, ChangeSchedule, Edit
    <2>2. /\ schedule' \in [Legacy -> {"none", "old", "new"}] /\ schedule'[n] = "new"
          /\ \A x \in Legacy \ {n} : schedule'[x] = schedule[x]
      BY <1>0, <2>1 DEF MigrationShape
    <2>3. Marks'
      BY <1>0, <2>1, MarksKept
    <2>4. MigrationShape' /\ FileOnce'
      BY <1>0, <2>1, <2>2 DEF MigrationShape, FileOnce, Rkeys
    <2>5. Keeps'
      BY <1>0, <2>1, <2>2 DEF Keeps, NoteKept
    <2>. QED BY <2>3, <2>4, <2>5 DEF MigrationSound
  <1>2. ASSUME NEW n \in Legacy, DropSchedule(n) PROVE MigrationSound'
    <2>1. /\ stage = "up" /\ UNCHANGED <<renamed, marked, stage, todo, imports, taken, refused>>
          /\ loaded' = loaded \ {n} /\ dropped' = dropped \cup {n} /\ renewed' = renewed \ {n}
      BY <1>2 DEF DropSchedule, Edit
    <2>2. \/ schedule' = [schedule EXCEPT ![n] = "none"] /\ UNCHANGED <<revived, mishaps>>
          \/ mishaps' = mishaps + 1 /\ revived' = TRUE /\ UNCHANGED schedule
      BY <1>2 DEF DropSchedule, Mishap
    <2>3. /\ schedule' \in [Legacy -> {"none", "old", "new"}]
          /\ \A x \in Legacy \ {n} : schedule'[x] = schedule[x]
          /\ schedule'[n] = "none" \/ revived'
          /\ mishaps' = 0 => mishaps = 0
          /\ mishaps' \in Nat /\ revived' \in BOOLEAN /\ (revived => revived')
      <3>1. CASE schedule' = [schedule EXCEPT ![n] = "none"] /\ UNCHANGED <<revived, mishaps>>
        BY <1>0, <3>1 DEF MigrationShape
      <3>2. CASE mishaps' = mishaps + 1 /\ revived' = TRUE /\ UNCHANGED schedule
        <4>1. mishaps \in Nat /\ schedule \in [Legacy -> {"none", "old", "new"}]
          BY <1>0 DEF MigrationShape
        <4>2. mishaps' \in Nat /\ mishaps' # 0
          BY <3>2, <4>1
        <4>. QED BY <3>2, <4>1, <4>2
      <3>. QED BY <2>2, <3>1, <3>2
    <2>4. Marks'
      BY <1>0, <2>1, <2>3, MarksKept
    <2>5. MigrationShape' /\ FileOnce'
      BY <1>0, <2>1, <2>3 DEF MigrationShape, FileOnce, Rkeys
    <2>6. Keeps'
      BY <1>0, <2>1, <2>3 DEF Keeps, NoteKept
    <2>. QED BY <2>4, <2>5, <2>6 DEF MigrationSound
  <1>3. CASE (\E k \in Rkeys : ChangeEntry(k)) \/ UNCHANGED migrationVars
    <2>1. UNCHANGED <<renamed, schedule, loaded, marked, stage, todo, imports, taken, refused, dropped,
                      renewed, revived, mishaps>>
      BY <1>3 DEF ChangeEntry, Edit, migrationVars
    <2>. QED BY <1>0, <2>1 DEF MigrationSound, MigrationShape, Marks, FileOnce, Keeps, NoteKept, Rkeys
  <1>. QED BY <1>1, <1>2, <1>3

LEMMA MigrationAlways == MigrationSpec => []MigrationSound
  <1>1. MigrationInit => MigrationSound
    <2>. SUFFICES ASSUME MigrationInit PROVE MigrationSound
      OBVIOUS
    <2>1. /\ renamed = FALSE /\ stage = "import" /\ todo = Legacy /\ marked = {} /\ dropped = {}
          /\ imports = [k \in Rkeys |-> 0] /\ revived = FALSE /\ mishaps = 0
          /\ schedule \in [Legacy -> {"none", "new"}] /\ renewed = {n \in Legacy : schedule[n] = "new"}
      BY DEF MigrationInit
    <2>. QED BY <2>1 DEF MigrationSound, MigrationShape, Marks, FileOnce, Keeps, NoteKept
  <1>2. MigrationSound /\ [MigrationNext]_migrationVars => MigrationSound'
    <2>. SUFFICES ASSUME MigrationSound, [MigrationNext]_migrationVars PROVE MigrationSound'
      OBVIOUS
    <2>1. ASSUME NEW k \in Rkeys, Migrate(k) PROVE MigrationSound'
      BY <2>1, MigrateSound
    <2>2. CASE \/ \E n \in Legacy : ImportSchedule(n) \/ ImportFails(n)
               \/ \E k \in Rkeys : MigrateFails(k) \/ Backfill(k)
               \/ RenameFile \/ LoadTasks \/ ListBare \/ Up \/ StopAndStart
      BY <2>2, ImportsSound
    <2>3. CASE \/ \E n \in Legacy : AddSchedule(n) \/ ChangeSchedule(n) \/ DropSchedule(n)
               \/ \E k \in Rkeys : ChangeEntry(k)
               \/ UNCHANGED migrationVars
      BY <2>3, EditsSound
    <2>. QED BY <2>1, <2>2, <2>3 DEF MigrationNext
  <1>. QED BY <1>1, <1>2, PTL DEF MigrationSpec

(* However often the service starts and wherever a start ends, no document   *)
(* is imported twice, none of a manager is, nothing of a renamed file is     *)
(* left behind, and what was deleted or changed since is not undone.         *)
THEOREM MigratedOnce == MigrationSpec => []BroughtOverOnce
  <1>1. MigrationSound => BroughtOverOnce
    <2>. SUFFICES ASSUME MigrationSound PROVE BroughtOverOnce
      OBVIOUS
    <2>1. \A k \in Rkeys : imports[k] <= (IF k \in Managed THEN 0 ELSE 1)
      BY MigrationAssumption DEF MigrationSound, MigrationShape, Marks
    <2>2. stage = "up" /\ mishaps = 0 => \A k \in Notes : imports[k] = 1
      BY DEF MigrationSound, Marks, Rkeys
    <2>3. renamed => Legacy \subseteq taken \cup refused
      BY DEF MigrationSound, FileOnce
    <2>4. Keeps
      BY DEF MigrationSound
    <2>. QED BY <2>1, <2>2, <2>3, <2>4 DEF BroughtOverOnce, Keeps, NoteKept
  <1>. QED BY <1>1, MigrationAlways, PTL

-----------------------------------------------------------------------------
(* ScheduleTimes: days and weeks, and readings of the clock. *)

LEMMA Product == ASSUME NEW d \in Nat \ {0}, NEW k \in Int, k >= 1 PROVE d * k >= d
  OBVIOUS

LEMMA Division ==
  ASSUME NEW d \in Nat \ {0}, NEW n \in Int
  PROVE  /\ n \div d \in Int /\ n % d \in 0..(d - 1) /\ n = d * (n \div d) + (n % d)
  OBVIOUS

LEMMA Remainder ==
  ASSUME NEW d \in Nat \ {0}, NEW q \in Int, NEW r \in 0..(d - 1), NEW n \in Int, n = d * q + r
  PROVE  n % d = r /\ n \div d = q
  <1>. DEFINE p == n \div d   s == n % d
  <1>1. p \in Int /\ s \in 0..(d - 1) /\ n = d * p + s
    BY Division
  <1>. HIDE DEF p, s
  <1>2. p - q \in Int /\ q - p \in Int /\ d * (p - q) = r - s /\ d * (q - p) = s - r
    BY <1>1
  <1>3. ~(p - q >= 1)
    BY <1>1, <1>2, Product
  <1>4. ~(q - p >= 1)
    BY <1>1, <1>2, Product
  <1>5. p = q
    BY <1>1, <1>3, <1>4
  <1>. QED BY <1>1, <1>5 DEF p, s


LEMMA Truncated ==
  ASSUME NEW d \in Nat \ {0}, NEW n \in Int, NEW a \in 0..(d - 1)
  PROVE  (n - (n % d) + a) % d = a
  <1>. DEFINE q == n \div d   m == n - (n % d) + a
  <1>1. q \in Int /\ m = d * q + a /\ m \in Int
    BY Division
  <1>. HIDE DEF q, m
  <1>2. m % d = a
    BY <1>1, Remainder
  <1>. QED BY <1>2 DEF m

LEMMA Shifted ==
  ASSUME NEW d \in Nat \ {0}, NEW n \in Int, NEW k \in Int, NEW m \in Int, m = n + d * k
  PROVE  m % d = n % d
  <1>. DEFINE q == n \div d   r == n % d
  <1>1. q \in Int /\ r \in 0..(d - 1) /\ n = d * q + r
    BY Division
  <1>. DEFINE p == q + k
  <1>2. d * p = d * q + d * k /\ p \in Int
    BY <1>1
  <1>. HIDE DEF p, q, r
  <1>3. m = d * p + r
    BY <1>1, <1>2
  <1>4. m % d = r
    BY <1>1, <1>2, <1>3, Remainder
  <1>. QED BY <1>4 DEF r

LEMMA Aligned ==
  ASSUME NEW d \in Nat \ {0}, NEW x \in Int, NEW y \in Int, x % d = y % d, x < y
  PROVE  x + d <= y
  <1>. DEFINE p == x \div d   q == y \div d   r == x % d
  <1>1. p \in Int /\ q \in Int /\ r \in 0..(d - 1) /\ x = d * p + r /\ y = d * q + r
    BY Division
  <1>. HIDE DEF p, q, r
  <1>2. q - p \in Int /\ p - q \in Int /\ d * (q - p) = y - x /\ d * (p - q) = x - y
    BY <1>1
  <1>3. ~(p - q >= 1)
    BY <1>2, Product
  <1>4. p # q
    BY <1>1
  <1>5. q - p >= 1
    BY <1>1, <1>2, <1>3, <1>4
  <1>. QED BY <1>2, <1>5, Product

LEMMA SameDay ==
  ASSUME NEW d \in Nat \ {0}, NEW x \in Int, NEW k \in Nat, (x % d) + k <= d,
         NEW y \in Int, x <= y, y < x + k
  PROVE  y - (y % d) = x - (x % d)
  <1>1. x \div d \in Int /\ x % d \in 0..(d - 1) /\ x = d * (x \div d) + (x % d)
    BY Division
  <1>. DEFINE r == (x % d) + (y - x)   q == x \div d
  <1>2. q \in Int /\ r \in 0..(d - 1) /\ y = d * q + r
    BY <1>1
  <1>. HIDE DEF q, r
  <1>3. y % d = r
    BY <1>2, Remainder
  <1>. QED BY <1>1, <1>3 DEF r

LEMMA DayOfWeek ==
  ASSUME NEW d \in Nat \ {0}, NEW n \in Int
  PROVE  /\ (n % (7 * d)) \div d \in 0..6
         /\ n % (7 * d) = d * ((n % (7 * d)) \div d) + (n % d)
  <1>. DEFINE w == 7 * d   m == n % w   p == n \div w   q == m \div d   r == m % d
  <1>1. w \in Nat \ {0}
    OBVIOUS
  <1>. HIDE DEF w
  <1>2. p \in Int /\ m \in 0..(w - 1) /\ n = w * p + m
    BY <1>1, Division
  <1>. HIDE DEF p, m
  <1>3. q \in Int /\ r \in 0..(d - 1) /\ m = d * q + r
    BY <1>1, <1>2, Division
  <1>. HIDE DEF q, r
  <1>4. w * p = d * (7 * p) /\ d * (7 * p + q) = d * (7 * p) + d * q /\ w = 7 * d
    BY <1>2, <1>3 DEF w
  <1>5. n = d * (7 * p + q) + r /\ 7 * p + q \in Int
    BY <1>2, <1>3, <1>4
  <1>6. n % d = r
    <2>. DEFINE k == 7 * p + q
    <2>1. k \in Int /\ n = d * k + r
      BY <1>5
    <2>. HIDE DEF k
    <2>. QED BY <1>3, <2>1, Remainder
  <1>7. ~(q - 6 >= 1)
    <2>1. d * (q - 6) = d * q - 6 * d /\ q - 6 \in Int
      BY <1>3
    <2>. QED BY <2>1, <1>2, <1>3, <1>4, Product
  <1>8. ~(-q >= 1)
    <2>1. d * (-q) = -(d * q) /\ -q \in Int
      BY <1>3
    <2>. QED BY <2>1, <1>2, <1>3, <1>4, Product
  <1>. QED BY <1>3, <1>6, <1>7, <1>8 DEF q, m, w

-----------------------------------------------------------------------------
ClockOK == zone.at \in Nat /\ zone.by \in {-Jump, Jump}

(* A run that is planned for the reading w, at most a period P after that of    *)
(* the last, is on w or where w is skipped; and a first showing between the two *)
(* is of a reading between theirs, or less than P after w.                      *)
LEMMA OnTheClock ==
  ASSUME ClockOK, NEW from \in Nat, NEW w \in Int, NEW f \in {0, Fold(from)},
         NEW P \in Int, Jump < P, Local(from) < w, w <= Local(from) + P
  PROVE  LET n == ToUtc(w, f)
         IN /\ n \in Int
            /\ Local(n) = w \/ (Skipped(n + Week) /\ n + Week = w)
            /\ n > from \/ (Fold(from) = 1 /\ f = 0 /\ w < zone.at + Week)
            /\ \A u \in (from + 1)..(n - 1) :
                 Fold(u) # 1 => \/ Local(from) < Local(u) /\ Local(u) < w
                                \/ w < Local(u) /\ Local(u) < w + P
  <1>. DEFINE z == zone.at   b == zone.by   W == Week   n == ToUtc(w, f)
  <1>1. z \in Nat /\ b \in Int /\ W \in Nat /\ Jump \in Nat /\ Jump >= 1 /\ b \in {-Jump, Jump}
    BY DayAssumption DEF ClockOK, Week
  <1>. HIDE DEF z, b
  <1>2. \A u \in Int : /\ u < z => Local(u) = u + W /\ Fold(u) = 0 /\ ~Jumped(u)
                       /\ u >= z => /\ Local(u) = u + W + b /\ Jumped(u)
                                    /\ Fold(u) = IF b < 0 /\ u < z - b THEN 1 ELSE 0
    BY <1>1 DEF Local, Fold, Jumped, z, b
  <1>3. f = 0 => n = IF w - W >= z /\ w - W - b >= z THEN w - W - b ELSE w - W
    BY <1>1 DEF ToUtc, Jumped, z, b
  <1>4. f # 0 => n = IF w - W >= z \/ w - W - b >= z THEN w - W - b ELSE w - W
    BY <1>1 DEF ToUtc, Jumped, z, b
  <1>5. f = 0 \/ (f = 1 /\ from >= z /\ b < 0 /\ from < z - b)
    BY <1>1, <1>2
  <1>6. \A x : Skipped(x) <=> b > 0 /\ z + W <= x /\ x < z + W + b
    BY DEF Skipped, z, b
  <1>. HIDE DEF W, n
  <1>7. n \in Int
    BY <1>1, <1>3, <1>4, <1>5
  <1>8. Local(n) = w \/ (Skipped(n + W) /\ n + W = w)
    <2>1. CASE b > 0
      BY <2>1, <1>1, <1>2, <1>3, <1>5, <1>6, <1>7
    <2>2. CASE b < 0
      BY <2>2, <1>1, <1>2, <1>3, <1>4, <1>5, <1>6, <1>7
    <2>. QED BY <2>1, <2>2, <1>1
  <1>9. n > from \/ (Fold(from) = 1 /\ f = 0 /\ w < z + W)
    <2>1. CASE b > 0
      BY <2>1, <1>1, <1>2, <1>3, <1>5, <1>7
    <2>2. CASE b < 0
      BY <2>2, <1>1, <1>2, <1>3, <1>4, <1>5, <1>7
    <2>. QED BY <2>1, <2>2, <1>1
  <1>10. ASSUME NEW u \in (from + 1)..(n - 1), Fold(u) # 1
         PROVE  \/ Local(from) < Local(u) /\ Local(u) < w
                \/ w < Local(u) /\ Local(u) < w + P
    <2>0. u \in Int /\ from < u /\ u < n
      BY <1>7
    <2>1. CASE b > 0
      BY <2>0, <2>1, <1>1, <1>2, <1>3, <1>5, <1>7
    <2>2. CASE b < 0 /\ f = 0
      BY <2>0, <2>2, <1>1, <1>2, <1>3, <1>7, <1>10
    <2>3. CASE b < 0 /\ f # 0
      BY <2>0, <2>3, <1>1, <1>2, <1>4, <1>5, <1>7, <1>10
    <2>. QED BY <2>1, <2>2, <2>3, <1>1
  <1>. QED BY <1>7, <1>8, <1>9, <1>10 DEF n, W, z


LEMMA NoReading ==
  ASSUME ClockOK, NEW from \in Nat, NEW w \in Int, NEW f \in {0, Fold(from)},
         NEW P \in Nat \ {0}, Jump < P, Local(from) < w, w <= Local(from) + P
  PROVE  \A u \in (from + 1)..(ToUtc(w, f) - 1) : Local(u) % P = w % P => Fold(u) = 1
  <1>. DEFINE n == ToUtc(w, f)
  <1>1. /\ n \in Int
        /\ \A u \in (from + 1)..(n - 1) :
             Fold(u) # 1 => \/ Local(from) < Local(u) /\ Local(u) < w
                            \/ w < Local(u) /\ Local(u) < w + P
    BY OnTheClock
  <1>2. \A u \in Int : Local(u) \in Int
    BY DayAssumption DEF ClockOK, Local, Week
  <1>. HIDE DEF n
  <1>3. SUFFICES ASSUME NEW u \in (from + 1)..(n - 1), Local(u) % P = w % P, Fold(u) # 1
                 PROVE  FALSE
    BY DEF n
  <1>4. u \in Int /\ from \in Int
    BY <1>1
  <1>5. Local(u) \in Int /\ Local(from) \in Int
    BY <1>2, <1>4
  <1>6. CASE Local(from) < Local(u) /\ Local(u) < w
    <2>1. Local(u) + P <= w
      BY <1>3, <1>5, <1>6, Aligned
    <2>. QED BY <2>1, <1>5, <1>6
  <1>7. CASE w < Local(u) /\ Local(u) < w + P
    <2>1. w + P <= Local(u)
      BY <1>3, <1>5, <1>7, Aligned
    <2>. QED BY <2>1, <1>5, <1>7
  <1>. QED BY <1>1, <1>3, <1>6, <1>7

\* The first reading after clock whose time of day is a.
LocalReading(d, clock, a) ==
  LET naive == clock - (clock % d) + a IN IF naive <= clock THEN naive + d ELSE naive

LEMMA DailyReading ==
  ASSUME NEW d \in Nat \ {0}, NEW clock \in Int, NEW a \in 0..(d - 1)
  PROVE  LET w == LocalReading(d, clock, a)
         IN w \in Int /\ w % d = a /\ clock < w /\ w <= clock + d
  <1>. DEFINE r == clock % d   naive == clock - r + a
  <1>1. r \in 0..(d - 1)
    BY Division
  <1>2. naive % d = a
    BY Truncated
  <1>3. naive \in Int /\ a \in Int /\ d \in Int
    BY <1>1
  <1>. DEFINE w == LocalReading(d, clock, a)
  <1>4. w = IF naive <= clock THEN naive + d ELSE naive
    BY DEF LocalReading
  <1>5. naive = clock - r + a
    OBVIOUS
  <1>. HIDE DEF naive, r, w
  <1>6. CASE naive <= clock
    <2>. DEFINE k == 1
    <2>1. d * k = d /\ k \in Int
      OBVIOUS
    <2>. HIDE DEF k
    <2>2. w = naive + d /\ w \in Int
      BY <1>3, <1>4, <1>6
    <2>3. w % d = naive % d
      <3>1. w = naive + d * k
        BY <2>1, <2>2
      <3>2. w \in Int /\ k \in Int /\ naive \in Int
        BY <2>1, <2>2, <1>3
      <3>. QED BY <3>1, <3>2, Shifted
    <2>4. w % d = a
      BY <2>3, <1>2
    <2>. QED BY <2>2, <2>4, <1>1, <1>3, <1>5, <1>6 DEF w
  <1>7. CASE ~(naive <= clock)
    <2>1. w % d = a /\ w = naive
      BY <1>2, <1>4, <1>7
    <2>. QED BY <2>1, <1>1, <1>3, <1>5, <1>7 DEF w
  <1>. QED BY <1>6, <1>7

\* Within the day of x, the next reading of an earlier time is on the next day.
LEMMA NotToday ==
  ASSUME NEW d \in Nat \ {0}, NEW x \in Int, NEW j \in Nat, (x % d) + j <= d, NEW a \in 0..(d - 1),
         NEW clock \in Int, x + 7 * d <= clock, clock < x + 7 * d + j
  PROVE  x + 7 * d + j <= clock - (clock % d) + a + d
  <1>. DEFINE y == clock - 7 * d
  <1>1. y \in Int /\ x <= y /\ y < x + j
    OBVIOUS
  <1>. DEFINE k == 7
  <1>2. clock = y + d * k /\ k \in Int
    OBVIOUS
  <1>. HIDE DEF y, k
  <1>3. clock % d = y % d
    BY <1>1, <1>2, Shifted
  <1>4. y - (y % d) = x - (x % d)
    BY <1>1, SameDay
  <1>5. x % d \in 0..(d - 1) /\ clock % d \in 0..(d - 1)
    BY Division
  <1>. QED BY <1>1, <1>2, <1>3, <1>4, <1>5

LEMMA DailyNext ==
  ASSUME zone \in Zones, plan \in Plans, plan.kind = "daily", NEW from \in Nat
  PROVE  LET n == DailyRun(from)
         IN /\ n > from
            /\ Shows(Local(n)) \/ (Skipped(n + Week) /\ Shows(n + Week))
            /\ \A u \in (from + 1)..(n - 1) : Shows(Local(u)) => Fold(u) = 1
  <1>. DEFINE clock == Local(from)
              naive == clock - (clock % Day) + plan.at
              w == IF naive <= clock THEN naive + Day ELSE naive
              f == IF naive <= clock THEN 0 ELSE Fold(from)
              n == ToUtc(w, f)
  <1>1. /\ ClockOK
        /\ zone.by < 0 => ((zone.at + zone.by) % Day) + Jump <= Day
        /\ plan.at \in 0..(Day - 1)
        /\ Day \in Nat \ {0} /\ Jump \in 1..(Day - 1) /\ Week = 7 * Day /\ Week \in Nat
    BY DayAssumption, HorizonAssumption DEF Zones, Plans, ClockOK, Week
  <1>2. zone.at \in Nat /\ zone.by \in Int /\ zone.by \in {-Jump, Jump}
    BY <1>1 DEF ClockOK
  <1>3. clock \in Int /\ (Fold(from) = 1 => /\ zone.by < 0 /\ zone.at <= from
                                          /\ from < zone.at - zone.by
                                          /\ clock = from + Week + zone.by)
    BY <1>1, <1>2 DEF Local, Fold, Jumped
  <1>4. f \in {0, Fold(from)} /\ DailyRun(from) = n
    BY DEF DailyRun
  <1>. HIDE DEF clock
  <1>5. clock % Day \in Int
    BY <1>1, <1>3, Division
  <1>6. w = LocalReading(Day, clock, plan.at)
    BY DEF LocalReading
  <1>7. w \in Int /\ w % Day = plan.at /\ clock < w /\ w <= clock + Day
    <2>1. Day \in Nat \ {0} /\ clock \in Int /\ plan.at \in 0..(Day - 1)
      BY <1>1, <1>3
    <2>. HIDE DEF w
    <2>. QED BY <2>1, <1>6, DailyReading
  <1>8. Fold(from) = 1 /\ f = 0 => zone.at + Week <= w
    <2>. SUFFICES ASSUME Fold(from) = 1, f = 0 PROVE zone.at + Week <= w
      OBVIOUS
    <2>1. w = clock - (clock % Day) + plan.at + Day
      OBVIOUS
    <2>. DEFINE x == zone.at + zone.by
    <2>2. zone.by = -Jump
      BY <1>1, <1>2, <1>3
    <2>3. x \in Int /\ x + Week <= clock /\ clock < x + Week + Jump /\ x + Jump = zone.at
      BY <2>2, <1>1, <1>2, <1>3
    <2>4. (x % Day) + Jump <= Day
      BY <1>1, <1>3
    <2>. HIDE DEF x
    <2>5. x + 7 * Day + Jump <= clock - (clock % Day) + plan.at + Day
      <3>1. Day \in Nat \ {0} /\ clock \in Int /\ plan.at \in 0..(Day - 1) /\ Jump \in Nat
        BY <1>1, <1>3
      <3>2. x + 7 * Day <= clock /\ clock < x + 7 * Day + Jump
        BY <2>3, <1>1
      <3>. QED BY <3>1, <3>2, <2>3, <2>4, NotToday
    <2>. QED BY <2>1, <2>3, <2>5, <1>1
  <1>. HIDE DEF w, f
  <1>9. /\ n \in Int
        /\ Local(n) = w \/ (Skipped(n + Week) /\ n + Week = w)
        /\ n > from \/ (Fold(from) = 1 /\ f = 0 /\ w < zone.at + Week)
    BY <1>1, <1>4, <1>7, OnTheClock DEF clock
  <1>10. \A u \in (from + 1)..(n - 1) : Local(u) % Day = w % Day => Fold(u) = 1
    BY <1>1, <1>4, <1>7, NoReading DEF clock
  <1>11. \A v : Shows(v) <=> v % Day = plan.at
    BY DEF Shows
  <1>. HIDE DEF n
  <1>12. n > from
    BY <1>8, <1>9, <1>7, <1>1, <1>2
  <1>. QED BY <1>4, <1>7, <1>9, <1>10, <1>11, <1>12


\* Counted in days of the week, it is the first reading of the week that is a.
LEMMA WeeklyReading ==
  ASSUME NEW d \in Nat \ {0}, NEW clock \in Int, NEW a \in 0..(7 * d - 1)
  PROVE  LET naive == clock - (clock % d) + (a % d)
             days == (a \div d) - ((clock % (7 * d)) \div d)
             until == IF days < 0 \/ (days = 0 /\ naive <= clock) THEN days + 7 ELSE days
         IN naive + until * d = LocalReading(7 * d, clock, a)
  <1>. DEFINE w == 7 * d   m == clock % w   g == m \div d   r == clock % d   e == a \div d   t == a % d
              naive == clock - r + t   days == e - g
              until == IF days < 0 \/ (days = 0 /\ naive <= clock) THEN days + 7 ELSE days
  <1>1. w \in Nat \ {0} /\ w = 7 * d
    OBVIOUS
  <1>2. g \in 0..6 /\ m = d * g + r
    BY DayOfWeek
  <1>3. r \in 0..(d - 1)
    BY Division
  <1>4. e \in Int /\ t \in 0..(d - 1) /\ a = d * e + t
    BY Division
  <1>5. m \in 0..(w - 1)
    <2>. HIDE DEF w
    <2>. QED BY <1>1, Division
  <1>6. LocalReading(w, clock, a) = IF clock - m + a <= clock THEN clock - m + a + w ELSE clock - m + a
    BY DEF LocalReading
  <1>. HIDE DEF w, m, g, r, e, t
  <1>7. /\ e - g \in Int /\ g - e \in Int
        /\ d * (e - g) = a - t - m + r /\ d * (g - e) = t - a + m - r
        /\ (e - g) * d = a - t - m + r /\ (e - g + 7) * d = a - t - m + r + w
        /\ a \in Int
    BY <1>1, <1>2, <1>3, <1>4
  <1>8. CASE days < 0
    <2>1. until = e - g + 7
      BY <1>8
    <2>2. m - r + t - a >= d
      <3>1. e \in Int /\ g \in Int /\ g - e >= 1
        BY <1>2, <1>4, <1>8
      <3>2. d * (g - e) >= d
        BY <1>7, <3>1, Product
      <3>3. /\ d * (g - e) = t - a + m - r
            /\ t \in Int /\ a \in Int /\ m \in Int /\ r \in Int
        BY <1>3, <1>4, <1>5, <1>7
      <3>. QED BY <3>2, <3>3
    <2>3. naive + until * d = clock - m + a + w
      BY <2>1, <1>1, <1>7, <1>3, <1>4, <1>5
    <2>4. clock - m + a <= clock
      BY <2>2, <1>3, <1>4, <1>5, <1>7
    <2>. QED BY <2>3, <2>4, <1>6 DEF w, m, g, r, e, t
  <1>9. CASE days = 0
    <2>1. a - t - m + r = 0
      <3>1. d * 0 = 0
        OBVIOUS
      <3>. QED BY <3>1, <1>7, <1>9
    <2>2. naive = clock - m + a
      BY <2>1, <1>1, <1>3, <1>4, <1>5, <1>7
    <2>3. CASE naive <= clock
      <3>1. until = e - g + 7
        BY <1>7, <1>9, <2>3
      <3>2. naive + until * d = clock - m + a + w
        BY <3>1, <1>1, <1>7, <1>3, <1>4, <1>5
      <3>. QED BY <3>2, <2>2, <2>3, <1>6 DEF w, m, g, r, e, t
    <2>4. CASE ~(naive <= clock)
      <3>1. until = e - g
        BY <1>7, <1>9, <2>4
      <3>2. naive + until * d = clock - m + a
        BY <3>1, <1>7, <1>3, <1>4, <1>5
      <3>. QED BY <3>2, <2>2, <2>4, <1>6 DEF w, m, g, r, e, t
    <2>. QED BY <2>3, <2>4
  <1>10. CASE days > 0
    <2>1. e - g >= 1 /\ until = e - g
      BY <1>7, <1>10
    <2>2. a - t - m + r >= d
      BY <1>7, <2>1, Product
    <2>3. naive + until * d = clock - m + a
      BY <2>1, <1>7, <1>3, <1>4, <1>5
    <2>4. ~(clock - m + a <= clock)
      BY <2>2, <1>3, <1>4, <1>5, <1>7
    <2>. QED BY <2>3, <2>4, <1>6 DEF w, m, g, r, e, t
  <1>. QED BY <1>7, <1>8, <1>9, <1>10

LEMMA WeeklyNext ==
  ASSUME zone \in Zones, plan \in Plans, plan.kind = "weekly", NEW from \in Nat
  PROVE  LET n == WeeklyRun(from)
         IN /\ n > from \/ Fold(from) = 1
            /\ Shows(Local(n)) \/ (Skipped(n + Week) /\ Shows(n + Week))
            /\ \A u \in (from + 1)..(n - 1) : Shows(Local(u)) => Fold(u) = 1
  <1>. DEFINE clock == Local(from)   w == LocalReading(Week, clock, plan.at)   n == ToUtc(w, 0)
  <1>1. /\ ClockOK /\ plan.at \in 0..(Week - 1) /\ Week = 7 * Day
        /\ Day \in Nat \ {0} /\ Jump \in 1..(Day - 1)
    BY DayAssumption, HorizonAssumption DEF Zones, Plans, ClockOK, Week
  <1>2. clock \in Int /\ Week \in Nat \ {0} /\ Jump < Week
    BY <1>1 DEF Local, ClockOK
  <1>. HIDE DEF clock
  <1>3. WeeklyRun(from) = n
    <2>1. LET naive == clock - (clock % Day) + (plan.at % Day)
              days == (plan.at \div Day) - ((clock % Week) \div Day)
              until == IF days < 0 \/ (days = 0 /\ naive <= clock) THEN days + 7 ELSE days
          IN naive + until * Day = w
      BY <1>1, <1>2, WeeklyReading
    <2>. HIDE DEF w
    <2>. QED BY <2>1 DEF WeeklyRun, clock
  <1>4. w \in Int /\ w % Week = plan.at /\ clock < w /\ w <= clock + Week
    <2>. HIDE DEF w
    <2>. QED BY <1>1, <1>2, DailyReading DEF w
  <1>. HIDE DEF w
  <1>5. /\ Local(n) = w \/ (Skipped(n + Week) /\ n + Week = w)
        /\ n > from \/ Fold(from) = 1
    BY <1>1, <1>2, <1>4, OnTheClock DEF clock
  <1>6. \A u \in (from + 1)..(n - 1) : Local(u) % Week = w % Week => Fold(u) = 1
    BY <1>1, <1>2, <1>4, NoReading DEF clock
  <1>7. \A v : Shows(v) <=> v % Week = plan.at
    BY DEF Shows
  <1>. HIDE DEF n
  <1>. QED BY <1>3, <1>4, <1>5, <1>6, <1>7

TimeInv == zone \in Zones /\ plan \in Plans /\ time \in Nat /\ last \in Nat

(* The next run is the next one (next_run, schedule.py:84-137), for any length  *)
(* of day, change of the clock and last run: after the last run, but for a      *)
(* weekly plan in a repeated hour; on the reading the plan names, or where the  *)
(* clock skips it; and no first showing of that reading lies between.           *)
THEOREM NextIsNext == TimeSpec => []NextRunIsNext
  <1>1. TimeInit => TimeInv
    BY DEF TimeInit, TimeInv
  <1>2. TimeInv /\ [TimeNext]_timeVars => TimeInv'
    BY HorizonAssumption DEF TimeInv, TimeNext, timeVars, PassTime, RunDue, RunAsked
  <1>3. TimeInv => NextRunIsNext
    <2>. SUFFICES ASSUME TimeInv PROVE NextRunIsNext
      OBVIOUS
    <2>1. CASE plan.kind = "interval"
      <3>1. plan.every \in Nat \ {0} /\ NextRun(last) = last + plan.every
        BY <2>1, DayAssumption DEF TimeInv, Plans, NextRun
      <3>2. \A v : ~Shows(v)
        BY <2>1 DEF Shows
      <3>. QED BY <2>1, <3>1, <3>2 DEF NextRunIsNext, TimeInv
    <2>2. CASE plan.kind = "daily"
      <3>1. NextRun(last) = DailyRun(last)
        BY <2>2 DEF NextRun
      <3>. QED BY <2>2, <3>1, DailyNext DEF NextRunIsNext, TimeInv
    <2>3. CASE plan.kind = "weekly"
      <3>1. NextRun(last) = WeeklyRun(last)
        BY <2>3 DEF NextRun
      <3>. QED BY <2>3, <3>1, WeeklyNext DEF NextRunIsNext, TimeInv
    <2>4. plan.kind \in {"interval", "daily", "weekly"}
      BY DEF TimeInv, Plans
    <2>. QED BY <2>1, <2>2, <2>3, <2>4
  <1>. QED BY <1>1, <1>2, <1>3, PTL DEF TimeSpec

-----------------------------------------------------------------------------
(* Ranking: lists in order, the shares of a half, and scores. *)

\* A list of which each is no less than the next descends.
LEMMA Descending ==
  ASSUME NEW n \in Nat, NEW f \in [1..n -> Int], \A i \in 1..(n - 1) : f[i] >= f[i + 1]
  PROVE  \A i, j \in 1..n : i <= j => f[i] >= f[j]
  <1>. SUFFICES ASSUME NEW i \in 1..n, NEW k \in 1..n, i <= k, f[i] < f[k] PROVE FALSE
    OBVIOUS
  <1>. DEFINE B == {j \in 1..n : i <= j /\ f[i] < f[j]}
  <1>1. B \in SUBSET Nat /\ B # {}
    <2>1. k \in B /\ B \subseteq 1..n /\ 1..n \subseteq Nat
      OBVIOUS
    <2>. HIDE DEF B
    <2>. QED BY <2>1
  <1>2. PICK m \in B : \A j \in B : m <= j
    BY <1>1, LeastElement
  <1>3. m # i
    OBVIOUS
  <1>4. m - 1 \in 1..n /\ m - 1 \in 1..(n - 1) /\ i <= m - 1 /\ m - 1 + 1 = m
    BY <1>3
  <1>5. m - 1 \notin B
    BY <1>2, <1>4
  <1>6. f[i] >= f[m - 1] /\ f[m - 1] >= f[m]
    BY <1>4, <1>5
  <1>7. f[i] \in Int /\ f[m - 1] \in Int /\ f[m] \in Int /\ f[i] < f[m]
    BY <1>4
  <1>. QED BY <1>6, <1>7

\* Of finitely many, one is the best.
LEMMA FiniteBest ==
  ASSUME NEW S, IsFiniteSet(S), S # {}, NEW g \in [S -> Nat]
  PROVE  \E x \in S : \A y \in S : g[y] <= g[x]
  <1>. DEFINE T == {U \in SUBSET S : U # {} /\ ~ \E x \in U : \A y \in U : g[y] <= g[x]}
              O == StrictSubsetOrdering(S)
  <1>1. SUFFICES ASSUME T # {} PROVE FALSE
    OBVIOUS
  <1>2. T \subseteq FiniteSubsetsOf(S) /\ IsWellFoundedOn(O, FiniteSubsetsOf(S))
    BY FS_FiniteSubsetsOfFinite, FS_StrictSubsetOrderingWellFounded
  <1>. HIDE DEF T
  <1>3. PICK U \in T : \A W \in T : ~ (<<W, U>> \in O)
    BY <1>1, <1>2, WFMin
  <1>4. /\ U \in SUBSET S /\ U # {}
        /\ ~ \E x \in U : \A y \in U : g[y] <= g[x]
    BY DEF T
  <1>5. PICK u \in U : TRUE
    BY <1>4
  <1>. DEFINE W == U \ {u}
  <1>6. W \in SUBSET S /\ <<W, U>> \in O
    BY <1>4 DEF StrictSubsetOrdering
  <1>7. CASE W = {}
    BY <1>4, <1>5, <1>7
  <1>8. CASE W # {}
    <2>1. PICK x \in W : \A y \in W : g[y] <= g[x]
      BY <1>3, <1>6, <1>8 DEF T
    <2>2. x \in S /\ u \in S /\ \A y \in U : y \in S /\ (y = u \/ y \in W)
      BY <1>4
    <2>3. g[x] \in Nat /\ g[u] \in Nat /\ \A y \in U : g[y] \in Nat
      BY <2>2
    <2>4. CASE g[u] <= g[x]
      <3>1. \A y \in U : g[y] <= g[x]
        BY <2>1, <2>2, <2>4
      <3>. QED BY <3>1, <1>4
    <2>5. CASE g[x] <= g[u]
      <3>1. \A y \in U : g[y] <= g[u]
        BY <2>1, <2>2, <2>3, <2>5
      <3>. QED BY <3>1, <1>4
    <2>. QED BY <2>3, <2>4, <2>5
  <1>. QED BY <1>7, <1>8

Worst(S, g) == Min({g[x] : x \in S})
Top(S, g) == Max({g[x] : x \in S})

LEMMA Extremes ==
  ASSUME NEW S, IsFiniteSet(S), S # {}, NEW g, \A x \in S : g[x] \in Nat
  PROVE  /\ Top(S, g) \in Nat /\ Worst(S, g) \in Nat /\ Worst(S, g) <= Top(S, g)
         /\ \A x \in S : Worst(S, g) <= g[x] /\ g[x] <= Top(S, g)
  <1>. DEFINE G == {g[x] : x \in S}   f == [x \in S |-> g[x]]
  <1>1. G \in SUBSET Nat /\ G # {} /\ f \in [S -> Nat]
    OBVIOUS
  <1>2. PICK l \in G : \A n \in G : l <= n
    BY <1>1, LeastElement
  <1>3. PICK h \in S : \A y \in S : f[y] <= f[h]
    BY <1>1, FiniteBest
  <1>4. \E m \in G : \A n \in G : m >= n
    <2>1. \A n \in G : g[h] >= n /\ g[h] \in G
      BY <1>1, <1>3
    <2>. QED BY <2>1
  <1>. HIDE DEF G
  <1>5. Max(G) \in G /\ \A n \in G : Max(G) >= n
    BY <1>4 DEF Max
  <1>6. Min(G) \in G /\ \A n \in G : Min(G) <= n
    BY <1>2 DEF Min
  <1>7. \A x \in S : g[x] \in G
    BY DEF G
  <1>8. Top(S, g) = Max(G) /\ Worst(S, g) = Min(G)
    BY DEF Top, Worst, G
  <1>. QED BY <1>1, <1>5, <1>6, <1>7, <1>8

SearchOK == query \in Searches

LEMMA AskedTypes ==
  ASSUME SearchOK
  PROVE  /\ query.rank \in [Hits -> Nat] /\ query.near \in [Hits -> Nat]
         /\ query.limit \in Nat \ {0} /\ query.pushed \in SUBSET Hits
         /\ \A S \in SUBSET Hits : IsFiniteSet(S)
  BY HitsAssumption, GradesAssumption, FS_Subset DEF SearchOK, Searches

\* What an entry gets of a half that finds it is more the better it matches, and
\* nothing otherwise.
LEMMA KeywordShares ==
  ASSUME SearchOK, NEW K \in SUBSET Hits
  PROVE  /\ \A h : KeywordShare(h, K) \in Nat /\ (h \notin K => KeywordShare(h, K) = 0)
         /\ \A a, b \in K : query.rank[a] < query.rank[b] => KeywordShare(a, K) > KeywordShare(b, K)
         /\ Whole(K, query.rank) \in Nat \ {0}
  <1>. DEFINE r == query.rank
  <1>1. IsFiniteSet(K) /\ \A x \in K : r[x] \in Nat
    BY AskedTypes
  <1>2. CASE K = {}
    BY <1>2 DEF KeywordShare, Whole
  <1>3. CASE K # {}
    <2>1. /\ Top(K, r) \in Nat /\ Worst(K, r) \in Nat /\ Worst(K, r) <= Top(K, r)
          /\ \A x \in K : Worst(K, r) <= r[x] /\ r[x] <= Top(K, r)
      BY <1>1, <1>3, Extremes
    <2>2. Span(K, r) = Top(K, r) - Worst(K, r)
      BY DEF Span, Top, Worst
    <2>3. \A h : KeywordShare(h, K) = IF h \notin K THEN 0
                                      ELSE IF Span(K, r) = 0 THEN 1 ELSE Top(K, r) - r[h]
      BY DEF KeywordShare, Top
    <2>4. Whole(K, r) = IF Span(K, r) = 0 THEN 1 ELSE Span(K, r)
      BY <1>3 DEF Whole
    <2>. HIDE DEF r
    <2>5. Whole(K, r) \in Nat \ {0}
      BY <2>1, <2>2, <2>4
    <2>6. \A h : KeywordShare(h, K) \in Nat /\ (h \notin K => KeywordShare(h, K) = 0)
      BY <1>1, <2>1, <2>3
    <2>7. ASSUME NEW a \in K, NEW b \in K, r[a] < r[b]
          PROVE  KeywordShare(a, K) > KeywordShare(b, K)
      BY <1>1, <2>1, <2>2, <2>3, <2>7
    <2>. QED BY <2>5, <2>6, <2>7 DEF r
  <1>. QED BY <1>2, <1>3

LEMMA VectorShares ==
  ASSUME SearchOK, NEW V \in SUBSET Hits
  PROVE  /\ \A h : VectorShare(h, V) \in Nat /\ (h \notin V => VectorShare(h, V) = 0)
         /\ \A a, b \in V : query.near[a] > query.near[b] => VectorShare(a, V) > VectorShare(b, V)
         /\ Whole(V, query.near) \in Nat \ {0}
  <1>. DEFINE r == query.near
  <1>1. IsFiniteSet(V) /\ \A x \in V : r[x] \in Nat
    BY AskedTypes
  <1>2. CASE V = {}
    BY <1>2 DEF VectorShare, Whole
  <1>3. CASE V # {}
    <2>1. /\ Top(V, r) \in Nat /\ Worst(V, r) \in Nat /\ Worst(V, r) <= Top(V, r)
          /\ \A x \in V : Worst(V, r) <= r[x] /\ r[x] <= Top(V, r)
      BY <1>1, <1>3, Extremes
    <2>2. Span(V, r) = Top(V, r) - Worst(V, r)
      BY DEF Span, Top, Worst
    <2>3. \A h : VectorShare(h, V) = IF h \notin V THEN 0
                                     ELSE IF Span(V, r) = 0 THEN 1 ELSE r[h] - Worst(V, r)
      BY DEF VectorShare, Worst
    <2>4. Whole(V, r) = IF Span(V, r) = 0 THEN 1 ELSE Span(V, r)
      BY <1>3 DEF Whole
    <2>. HIDE DEF r
    <2>5. Whole(V, r) \in Nat \ {0}
      BY <2>1, <2>2, <2>4
    <2>6. \A h : VectorShare(h, V) \in Nat /\ (h \notin V => VectorShare(h, V) = 0)
      BY <1>1, <2>1, <2>3
    <2>7. ASSUME NEW a \in V, NEW b \in V, r[a] > r[b]
          PROVE  VectorShare(a, V) > VectorShare(b, V)
      BY <1>1, <2>1, <2>2, <2>3, <2>7
    <2>. QED BY <2>5, <2>6, <2>7 DEF r
  <1>. QED BY <1>2, <1>3

LEMMA BestOf ==
  ASSUME NEW S, NEW n, NEW worth, NEW T \in Best(S, n, worth)
  PROVE  T \subseteq S /\ \A x \in S \ T, y \in T : worth[x] <= worth[y]
  BY DEF Best, kSubset

\* A half that has an entry has those that match better.
LEMMA KeywordHalf ==
  ASSUME SearchOK, NEW K \in Keywords
  PROVE  /\ K \in SUBSET Hits /\ \A h \in K : query.rank[h] # 0
         /\ \A a \in Hits, b \in K : query.rank[a] # 0 /\ query.rank[a] < query.rank[b] => a \in K
  <1>1. K \subseteq Matches(query.rank) /\ \A x \in Matches(query.rank) \ K, y \in K : ByRank[x] <= ByRank[y]
    BY BestOf DEF Keywords
  <1>2. \A h \in Hits : ByRank[h] = -query.rank[h] /\ query.rank[h] \in Nat
    BY AskedTypes DEF ByRank
  <1>3. Matches(query.rank) = {h \in Hits : query.rank[h] # 0}
    BY DEF Matches
  <1>4. ASSUME NEW a \in Hits, NEW b \in K, query.rank[a] # 0, query.rank[a] < query.rank[b], a \notin K
        PROVE  FALSE
    <2>1. a \in Matches(query.rank) \ K /\ b \in Hits
      BY <1>1, <1>3, <1>4
    <2>2. -query.rank[a] <= -query.rank[b]
      BY <1>1, <1>2, <2>1
    <2>. QED BY <2>1, <2>2, <1>2, <1>4
  <1>. QED BY <1>1, <1>3, <1>4

LEMMA LocalHalf ==
  ASSUME SearchOK, NEW only, NEW V \in LocalVectors(only)
  PROVE  /\ V \in SUBSET (Hits \cap only) /\ \A h \in V : query.near[h] # 0
         /\ \A a \in Hits \cap only, b \in V : query.near[a] > query.near[b] => a \in V
  <1>. DEFINE M == Matches(query.near) \cap only
  <1>1. V \subseteq M /\ \A x \in M \ V, y \in V : query.near[x] <= query.near[y]
    BY BestOf DEF LocalVectors
  <1>2. \A h \in Hits : query.near[h] \in Nat
    BY AskedTypes
  <1>3. M = {h \in Hits : query.near[h] # 0} \cap only
    BY DEF Matches
  <1>. HIDE DEF M
  <1>4. ASSUME NEW a \in Hits \cap only, NEW b \in V, query.near[a] > query.near[b], a \notin V
        PROVE  FALSE
    <2>1. b \in Hits /\ query.near[b] \in Nat /\ query.near[a] \in Nat
      BY <1>1, <1>2, <1>3
    <2>2. a \in M \ V
      BY <2>1, <1>3, <1>4
    <2>3. query.near[a] <= query.near[b]
      BY <1>1, <2>2
    <2>. QED BY <2>1, <2>3, <1>4
  <1>. QED BY <1>1, <1>3, <1>4

LEMMA OfBoth ==
  ASSUME NEW A, NEW B, NEW C, C = {F \cup L : F \in A, L \in B}, NEW x \in C
  PROVE  \E F \in A, L \in B : x = F \cup L
  OBVIOUS

LEMMA MeaningHalf ==
  ASSUME SearchOK, NEW V \in Semantic
  PROVE  /\ V \in SUBSET Hits /\ \A h \in V : query.near[h] # 0
         /\ \A a \in Hits, b \in V : ~Apart(a, b) /\ query.near[a] > query.near[b] => a \in V
  <1>1. CASE ~query.space
    <2>1. V \in LocalVectors(Hits)
      BY <1>1 DEF Semantic
    <2>. QED BY <2>1, LocalHalf
  <1>2. CASE query.space
    <2>1. PICK F \in LocalVectors(query.pushed), L \in LocalVectors(Hits \ query.pushed) : V = F \cup L
      <3>. DEFINE A == LocalVectors(query.pushed)   B == LocalVectors(Hits \ query.pushed)
      <3>1. Semantic = {F \cup L : F \in A, L \in B}
        BY <1>2 DEF Semantic
      <3>. HIDE DEF A, B
      <3>2. \E F \in A, L \in B : V = F \cup L
        BY <3>1, OfBoth
      <3>. QED BY <3>2 DEF A, B
    <2>2. /\ F \in SUBSET (Hits \cap query.pushed) /\ \A h \in F : query.near[h] # 0
          /\ \A a \in Hits \cap query.pushed, b \in F : query.near[a] > query.near[b] => a \in F
      BY LocalHalf
    <2>3. /\ L \in SUBSET (Hits \cap (Hits \ query.pushed)) /\ \A h \in L : query.near[h] # 0
          /\ \A a \in Hits \cap (Hits \ query.pushed), b \in L : query.near[a] > query.near[b] => a \in L
      BY LocalHalf
    <2>4. \A a, b \in Hits : ~Apart(a, b) => (a \in query.pushed <=> b \in query.pushed)
      BY <1>2 DEF Apart
    <2>. QED BY <2>1, <2>2, <2>3, <2>4
  <1>. QED BY <1>1, <1>2

LEMMA Heavier ==
  ASSUME NEW x \in Nat, NEW y \in Nat, NEW w \in Nat \ {0}
  PROVE  /\ x * w \in Nat
         /\ x >= y => x * w >= y * w
         /\ x > y => x * w > y * w
  OBVIOUS

\* Who matches better in every half that finds either has the higher score.
LEMMA ScoresMore ==
  ASSUME SearchOK, NEW K \in Keywords, NEW V \in Semantic, NEW a \in Hits, NEW b \in K \cup V,
         Outranks(a, b), ~Apart(a, b)
  PROVE  a \in K \cup V /\ Score(a, K, V) > Score(b, K, V)
  <1>1. /\ K \in SUBSET Hits /\ \A h \in K : query.rank[h] # 0
        /\ \A c \in Hits, d \in K : query.rank[c] # 0 /\ query.rank[c] < query.rank[d] => c \in K
    BY KeywordHalf
  <1>2. /\ V \in SUBSET Hits /\ \A h \in V : query.near[h] # 0
        /\ \A c \in Hits, d \in V : ~Apart(c, d) /\ query.near[c] > query.near[d] => c \in V
    BY MeaningHalf
  <1>. DEFINE ka == KeywordShare(a, K)   kb == KeywordShare(b, K)
              va == VectorShare(a, V)    vb == VectorShare(b, V)
              wk == Whole(K, query.rank) wv == Whole(V, query.near)
  <1>3. /\ ka \in Nat /\ kb \in Nat /\ va \in Nat /\ vb \in Nat /\ wk \in Nat \ {0} /\ wv \in Nat \ {0}
        /\ b \notin K => kb = 0
        /\ b \notin V => vb = 0
        /\ a \in K /\ b \in K /\ query.rank[a] < query.rank[b] => ka > kb
        /\ a \in V /\ b \in V /\ query.near[a] > query.near[b] => va > vb
    BY <1>1, <1>2, KeywordShares, VectorShares
  <1>4. Score(a, K, V) = ka * wv + va * wk /\ Score(b, K, V) = kb * wv + vb * wk
    BY DEF Score
  <1>. HIDE DEF ka, kb, va, vb, wk, wv
  <1>5. b \in Hits /\ query.rank[a] \in Nat /\ query.rank[b] \in Nat
        /\ query.near[a] \in Nat /\ query.near[b] \in Nat
    BY <1>1, <1>2, AskedTypes
  <1>6. b \in K => a \in K /\ ka > kb
    <2>1. b \in K => query.rank[a] # 0 /\ query.rank[a] < query.rank[b]
      BY <1>1, <1>5 DEF Outranks, ByRank
    <2>. QED BY <2>1, <1>1, <1>3
  <1>7. b \in V => a \in V /\ va > vb
    <2>1. b \in V => query.near[a] > query.near[b]
      BY <1>2, <1>5 DEF Outranks, Nearer
    <2>. QED BY <2>1, <1>2, <1>3
  <1>8. a \in K \cup V /\ ka >= kb /\ va >= vb /\ (ka > kb \/ va > vb)
    BY <1>3, <1>6, <1>7
  <1>9. /\ ka * wv \in Nat /\ kb * wv \in Nat /\ va * wk \in Nat /\ vb * wk \in Nat
        /\ ka * wv >= kb * wv /\ va * wk >= vb * wk
        /\ ka > kb => ka * wv > kb * wv
        /\ va > vb => va * wk > vb * wk
    BY <1>3, <1>8, Heavier
  <1>. QED BY <1>4, <1>8, <1>9

LEMMA MergedInOrder ==
  ASSUME SearchOK, NEW K \in Keywords, NEW V \in Semantic, NEW s \in Merged(K, V),
         NEW a \in Hits, NEW b \in Hits, Outranks(a, b), ~Apart(a, b),
         NEW j \in DOMAIN s, s[j] = b
  PROVE  \E i \in 1..(j - 1) : s[i] = a
  <1>. DEFINE all == K \cup V
              n == IF Cardinality(all) < query.limit THEN Cardinality(all) ELSE query.limit
              score == [i \in 1..n |-> Score(s[i], K, V)]
  <1>1. /\ s \in [1..n -> all]
        /\ \A i \in 1..(n - 1) : Score(s[i], K, V) >= Score(s[i + 1], K, V)
        /\ n > 0 => \A h \in all \ Range(s) : Score(s[n], K, V) >= Score(h, K, V)
    BY DEF Merged, Injection
  <1>2. K \in SUBSET Hits /\ V \in SUBSET Hits
    BY KeywordHalf, MeaningHalf
  <1>3. n \in Nat
    <2>1. IsFiniteSet(all) /\ query.limit \in Nat
      BY <1>2, AskedTypes
    <2>2. Cardinality(all) \in Nat
      BY <2>1, FS_CardinalityType
    <2>. QED BY <2>1, <2>2
  <1>4. j \in 1..n /\ b \in all
    BY <1>1
  <1>5. a \in all /\ Score(a, K, V) > Score(b, K, V)
    BY <1>4, ScoresMore
  <1>6. \A h : Score(h, K, V) \in Nat
    <2>1. \A h : KeywordShare(h, K) \in Nat /\ VectorShare(h, V) \in Nat
      BY <1>2, KeywordShares, VectorShares
    <2>2. Whole(K, query.rank) \in Nat \ {0} /\ Whole(V, query.near) \in Nat \ {0}
      BY <1>2, KeywordShares, VectorShares
    <2>3. \A h : KeywordShare(h, K) * Whole(V, query.near) \in Nat /\ VectorShare(h, V) * Whole(K, query.rank) \in Nat
      BY <2>1, <2>2, Heavier
    <2>. QED BY <2>3 DEF Score
  <1>. HIDE DEF n, all
  <1>7. score \in [1..n -> Int] /\ \A i \in 1..(n - 1) : score[i] >= score[i + 1]
    BY <1>1, <1>3, <1>6
  <1>. HIDE DEF score
  <1>8. \A i, k \in 1..n : i <= k => score[i] >= score[k]
    BY <1>3, <1>7, Descending
  <1>9. \A i, k \in 1..n : i <= k => Score(s[i], K, V) >= Score(s[k], K, V)
    BY <1>8 DEF score
  <1>10. n \in 1..n /\ j <= n /\ n > 0
    BY <1>3, <1>4
  <1>11. a \in Range(s)
    <2>. SUFFICES ASSUME a \notin Range(s) PROVE FALSE
      OBVIOUS
    <2>1. Score(s[n], K, V) >= Score(a, K, V)
      BY <1>1, <1>5, <1>10
    <2>2. Score(b, K, V) >= Score(s[n], K, V)
      BY <1>4, <1>9, <1>10
    <2>. QED BY <2>1, <2>2, <1>5, <1>6
  <1>12. PICK i \in 1..n : s[i] = a
    BY <1>1, <1>11 DEF Range
  <1>13. ~(j <= i)
    <2>1. j <= i => Score(b, K, V) >= Score(a, K, V)
      BY <1>4, <1>9, <1>12
    <2>. QED BY <2>1, <1>5, <1>6
  <1>. QED BY <1>3, <1>4, <1>12, <1>13

RankingInv ==
  /\ SearchOK
  /\ answer = <<>> \/ \E K \in Keywords, V \in Semantic : answer \in Merged(K, V)

(* The better match comes first (search.py:438-550): for any number of entries, *)
(* grades and limits, and for every order of equals.                            *)
THEOREM BetterIsFirst == RankingSpec => []BetterFirst
  <1>1. RankingInit => RankingInv
    BY DEF RankingInit, RankingInv, SearchOK
  <1>2. RankingInv /\ [Search]_rankingVars => RankingInv'
    <2>. SUFFICES ASSUME RankingInv, [Search]_rankingVars PROVE RankingInv'
      OBVIOUS
    <2>1. query' = query
      BY DEF Search, rankingVars
    <2>2. SearchOK' /\ Keywords' = Keywords /\ Semantic' = Semantic
      BY <2>1 DEF RankingInv, SearchOK, Keywords, Semantic, Searches, LocalVectors, ByRank
    <2>3. \A K, V : Merged(K, V)' = Merged(K, V)
      BY <2>1 DEF Merged, Score, KeywordShare, VectorShare
    <2>4. CASE UNCHANGED rankingVars
      BY <2>2, <2>3, <2>4 DEF RankingInv, rankingVars
    <2>5. CASE Search
      <3>1. PICK K \in Keywords, V \in Semantic : answer' \in Merged(K, V)
        BY <2>5 DEF Search
      <3>. QED BY <2>2, <2>3, <3>1 DEF RankingInv
    <2>. QED BY <2>4, <2>5
  <1>3. RankingInv => BetterFirst
    <2>. SUFFICES ASSUME RankingInv, NEW a \in Hits, NEW b \in Hits, Outranks(a, b) /\ ~Apart(a, b),
                         NEW j \in DOMAIN answer, answer[j] = b
                  PROVE  \E i \in 1..(j - 1) : answer[i] = a
      BY DEF BetterFirst
    <2>1. answer # <<>>
      OBVIOUS
    <2>2. PICK K \in Keywords, V \in Semantic : answer \in Merged(K, V)
      BY <2>1 DEF RankingInv
    <2>. QED BY <2>2, MergedInOrder DEF RankingInv
  <1>. QED BY <1>1, <1>2, <1>3, PTL DEF RankingSpec

-----------------------------------------------------------------------------
(* The components side by side: each behaves as it does alone.               *)

allVars == <<focus, vars, customVars, fetchVars, timeVars, migrationVars, memoryVars, rankingVars>>

LEMMA EachMoves ==
  ASSUME [MCNext]_allVars
  PROVE  /\ [Next]_vars /\ [CustomNext]_customVars /\ [FetchNext]_fetchVars
         /\ [TimeNext]_timeVars /\ [MigrationNext]_migrationVars
         /\ [MemoryNext]_memoryVars /\ [Search]_rankingVars
  <1>1. CASE UNCHANGED allVars
    BY <1>1 DEF allVars
  <1>2. CASE MCNext
    BY <1>2 DEF MCNext
  <1>. QED BY <1>1, <1>2

(* A behaviour of the components side by side is one of each of them: whatever *)
(* is proved of a component holds of it in their company.                      *)
THEOREM EachBehaves ==
  MCSpec => /\ Spec /\ CustomSpec /\ FetchSpec /\ TimeSpec
            /\ MigrationSpec /\ MemorySpec /\ RankingSpec
  <1>1. MCInit => /\ Init /\ CustomInit /\ FetchInit /\ TimeInit
                  /\ MigrationInit /\ MemoryInit /\ RankingInit
    BY DEF MCInit
  <1>. QED BY <1>1, EachMoves, PTL
           DEF MCSpec, allVars, Spec, CustomSpec, FetchSpec, TimeSpec, MigrationSpec, MemorySpec, RankingSpec

(* The managers, the notifications and the memory keep their types.            *)
THEOREM TypesOfAll == MCSpec => []TypesOK
  <1>1. TypeOK /\ CustomTypeOK /\ FetchTypeOK /\ MemoryTypeOK => TypesOK
    BY DEF TypesOK
  <1>. QED BY <1>1, EachBehaves, ManagerTypes, CustomTypes, FetchTypes, MemoryTypes, PTL

(* All that the run of MCManagers checks as an invariant holds of its          *)
(* components together, and not only one by one.                               *)
THEOREM SafeTogether ==
  MCSpec => []( /\ TypesOK /\ RegisteredApproved /\ CallsAsked /\ QuietAgrees
                /\ RunsAgreed /\ RevokedStays /\ ReadMeansReturned /\ TokensSpentOnce
                /\ NextRunIsNext /\ BroughtOverOnce /\ FieldsStay /\ CacheServes /\ BetterFirst )
  <1>. QED BY EachBehaves, TypesOfAll, RegisteredWereApproved, CallsWereAsked, AgreesAtRest,
              OnlyAgreedRuns, RevocationsHold, ReturnedWhatWasRead, TokensOnce, NextIsNext,
              MigratedOnce, UpdatesKeepTheRest, CacheAgrees, BetterIsFirst, PTL
===============================================================================

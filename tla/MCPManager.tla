----------------------------- MODULE MCPManager -----------------------------
(* One server of MCPManager: its configuration, its connection, the tools of *)
(* it that the operator approved and the names under which they are          *)
(* registered.  Servers share nothing but the health loop: each has a lock,  *)
(* a document and a prefix of names of its own.  The operator's requests,    *)
(* the calls of the agent's scripts, the health monitor and the start of the *)
(* service meet at the lock, a queue; a step lasts from one await to the     *)
(* next.                                                                     *)
EXTENDS Naturals, Sequences, FiniteSets, SequencesExt

CONSTANTS
  Tools,          \* names the server gives its tools
  Names,          \* identifiers scripts call them by
  Sanitize,       \* the identifier of a tool
  Versions,       \* what a listing can say of a tool: description and schema
  Requests,       \* requests of the web interface under way at once
  Calls,          \* tool calls under way at once
  Documents,      \* what the store may hold of it at first
  Monitor, Boot,  \* the health monitor and connect_all at start
  MaxRequests, MaxCalls, MaxFaults   \* bounds for TLC: requests and restarts, calls, failures

Procs == Requests \cup Calls \cup {Monitor, Boot}

Entry == [tool : Tools, version : Versions, approved : BOOLEAN]
Registration == [tool : Tools, version : Versions]
Same(e, f) == Sanitize[e.tool] = Sanitize[f.tool]
Distinct(S) == \A e, f \in S : Same(e, f) => e = f

ASSUME SanitizeAssumption == Tools # {} /\ Sanitize \in [Tools -> Names]
ASSUME DocumentsAssumption ==
  /\ Documents \subseteq [there : BOOLEAN, tools : SUBSET Entry]
  /\ \A d \in Documents : Distinct(d.tools) /\ (~d.there => d.tools = {})
ASSUME ProcsAssumption ==
  /\ Monitor \notin Requests \cup Calls \cup {Boot}
  /\ Boot \notin Requests \cup Calls /\ Requests \cap Calls = {}

VARIABLES
  config,    \* the server in _servers: is it there, and its tools
  stored,    \* its document
  conn,      \* _connections: "none", "good" or "bad" (the other side is gone)
  registry,  \* the tools registered under this server's prefix
  queue,     \* the holder of the lock, then who waits for it
  job,       \* where each process is, and what it was asked
  monitored, \* the health loop runs
  asked,     \* tools whose approval was asked since the server was created
  stray,     \* calls of a tool that was broken, or made before the server was created
  broken,    \* tools whose approval or revocation was not written
  unsaved,   \* the last write of the document did not land
  requests, calls, faults               \* spent so far

vars == <<config, stored, conn, registry, queue, job, monitored, asked,
          stray, broken, unsaved, requests, calls, faults>>

Absent == [there |-> FALSE, tools |-> {}]
Ops == {"connect", "disconnect", "refresh", "approve", "revoke", "delete"}
Steps == {"idle", "wait", "close", "open", "list", "save", "approve", "revoke",
          "erase", "create", "run", "rerun", "try", "ping"}

Approved(c) == {e \in c.tools : e.approved}
Find(t) == {e \in config.tools : e.tool = t}
AsRegistered(S) == {[tool |-> e.tool, version |-> e.version] : e \in S}

\* register replaces what has the name, unregister drops it.
Unregister(reg, S) == {r \in reg : \A e \in S : ~Same(r, e)}
Register(reg, S) == Unregister(reg, S) \cup AsRegistered(S)
Cleared == Unregister(registry, Approved(config))

\* ---------------------------------------------------------- lock and steps
Anything == CHOOSE t \in Tools : TRUE
Resting(p) == [at |-> "idle", tool |-> Anything,
               op |-> IF p = Boot THEN "boot" ELSE IF p = Monitor THEN "watch" ELSE "call"]
Holds(p) == queue # <<>> /\ Head(queue) = p
At(p, step) == job[p].at = step /\ (step = "wait" => Holds(p))
Goto(p, step) == job' = [job EXCEPT ![p].at = step]
Rest(p) == job' = [job EXCEPT ![p] = Resting(p)]
Finish(p) == Rest(p) /\ queue' = Tail(queue)
Ready == job[Boot].at = "idle"

\* Mutant: names that collide are not looked for.
AnyListing == {l \in SUBSET Registration : \A r, s \in l : r.tool = s.tool => r = s}

\* One of several tools with the same identifier is kept, the first listed.
Listings == {l \in SUBSET Registration : Distinct(l)}

\* ------------------------------------------------------------- connecting
\* connect_server, and connect_all for a server that is there at start.
Connect(p) ==
  /\ At(p, "wait")
  /\ job[p].op \in {"connect", "boot"}
  /\ IF ~config.there THEN Finish(p) /\ UNCHANGED <<conn, registry>>
     ELSE /\ registry' = IF conn = "none" THEN registry ELSE Cleared
          /\ conn' = "none"
          /\ Goto(p, IF conn = "none" THEN "open" ELSE "close")
          /\ UNCHANGED queue
  /\ UNCHANGED <<config, stored, monitored, asked, stray, broken, unsaved,
                 requests, calls, faults>>

Closed(p) ==
  /\ At(p, "close")
  /\ IF job[p].op = "disconnect" THEN Finish(p)
     ELSE Goto(p, "open") /\ UNCHANGED queue
  /\ UNCHANGED <<config, stored, conn, registry, monitored, asked, stray, broken,
                 unsaved, requests, calls, faults>>

Opened(p) ==
  /\ At(p, "open")
  /\ conn' = "good"
  /\ Goto(p, "list")
  /\ UNCHANGED <<config, stored, registry, queue, monitored, asked, stray, broken,
                 unsaved, requests, calls, faults>>

\* A refused connection leaves what was registered before: only a connect
\* that found a connection unregistered it.  connect_all starts the monitor
\* whatever came of its connections.
OpenFails(p) ==
  /\ At(p, "open")
  /\ Finish(p)
  /\ monitored' = (monitored \/ p = Boot)
  /\ UNCHANGED <<config, stored, conn, registry, asked, stray, broken, unsaved,
                 requests, calls, faults>>

\* Mutants: approval goes by identifier; a changed tool stays registered as it
\* was; a vanished one stays registered.
FreshByName(l) == {[tool |-> r.tool, version |-> r.version,
                    approved |-> \E e \in Approved(config) : Same(e, r)] : r \in l}
NotChanged(l) == {}
NotVanished(l) == {}

\* _discover_tools_impl after list_tools: approval goes with the name, a
\* changed tool is registered anew and a vanished one is unregistered.
Fresh(l) == {[tool |-> r.tool, version |-> r.version,
              approved |-> \E e \in Approved(config) : e.tool = r.tool] : r \in l}
Changed(l) == {n \in Fresh(l) : n.approved /\ n \notin config.tools}
Vanished(l) == {e \in Approved(config) : \A r \in l : r.tool # e.tool}

Listed(p) ==
  /\ At(p, "list")
  /\ conn = "good"
  /\ \E l \in Listings :
       /\ registry' = Unregister(Register(registry, Changed(l)), Vanished(l))
       /\ config' = [config EXCEPT !.tools = Fresh(l)]
  /\ Goto(p, "save")
  /\ UNCHANGED <<stored, conn, queue, monitored, asked, stray, broken, unsaved,
                 requests, calls, faults>>

\* The tools approved before are registered once the listing is stored; a call
\* that reconnected goes on to its second try.
Saved(p) ==
  /\ At(p, "save")
  /\ stored' = config
  /\ unsaved' = FALSE
  /\ IF job[p].op = "call" THEN Goto(p, "rerun") /\ UNCHANGED queue
     ELSE Finish(p)
  /\ registry' = IF job[p].op = "refresh" THEN registry
                 ELSE Register(registry, Approved(config))
  /\ monitored' = (monitored \/ job[p].op \in {"connect", "boot"})
  /\ UNCHANGED <<config, conn, asked, stray, broken, requests, calls, faults>>

\* A hung connect lets a CancelledError out that is no cancellation of the
\* task: connect_all swallows it, a script's turn ends with it, and so does the
\* health loop.
Leak(p) ==
  /\ At(p, "open")
  /\ p \notin Requests
  /\ faults < MaxFaults /\ faults' = faults + 1
  /\ Finish(p)
  /\ monitored' = (p # Monitor /\ (monitored \/ p = Boot))
  /\ UNCHANGED <<config, stored, conn, registry, asked, stray, broken, unsaved,
                 requests, calls>>

\* _cleanup_connection, unless the connection was there before the refresh.
CleanUp(p) ==
  /\ IF job[p].op = "refresh" THEN UNCHANGED <<conn, registry>>
     ELSE conn' = "none" /\ registry' = Cleared
  /\ Finish(p)
  /\ monitored' = (monitored \/ p = Boot)
  /\ UNCHANGED <<config, asked, stray, broken, requests, calls>>

ListFails(p) == At(p, "list") /\ CleanUp(p) /\ UNCHANGED <<stored, unsaved, faults>>

SaveFails(p) ==
  /\ At(p, "save")
  /\ faults < MaxFaults /\ faults' = faults + 1
  /\ unsaved' = TRUE
  /\ CleanUp(p)
  /\ UNCHANGED stored

\* The bound on a reconnection or on the start ends while the listing is
\* written, or the turn that called is cancelled: it may be written all the same.
GiveUp(p) ==
  /\ At(p, "save")
  /\ job[p].op \in {"call", "watch", "boot"}
  /\ faults < MaxFaults /\ faults' = faults + 1
  /\ CleanUp(p)
  /\ stored' = config
  /\ unsaved' = FALSE

\* --------------------------------------------------------------- requests
\* The routers answer 404 for a server that is not there.
Request(p) ==
  /\ Ready /\ job[p].at = "idle" /\ config.there
  /\ requests < MaxRequests /\ requests' = requests + 1
  /\ \E op \in Ops, t \in Tools :
       /\ op = "refresh" => conn # "none"
       /\ op \notin {"approve", "revoke"} => t = Anything
       /\ job' = [job EXCEPT ![p] = [at |-> "wait", op |-> op, tool |-> t]]
  /\ queue' = Append(queue, p)
  /\ UNCHANGED <<config, stored, conn, registry, monitored, asked, stray, broken,
                 unsaved, calls, faults>>

\* create_server takes no lock: it looks, writes the document and only then
\* puts the server where others see it.
AskCreate(p) ==
  /\ Ready /\ job[p].at = "idle" /\ ~config.there
  /\ requests < MaxRequests /\ requests' = requests + 1
  /\ Goto(p, "create")
  /\ UNCHANGED <<config, stored, conn, registry, queue, monitored, asked, stray,
                 broken, unsaved, calls, faults>>

Created(p) ==
  /\ job[p].at = "create"
  /\ Rest(p)
  /\ IF stored.there THEN UNCHANGED <<config, stored, asked, stray, unsaved>>
     ELSE /\ stray' = stray \cup {c \in Calls : job[c].at # "idle"}
          /\ stored' = [there |-> TRUE, tools |-> {}]
          /\ config' = stored'
          /\ asked' = {}
          /\ unsaved' = FALSE
  /\ UNCHANGED <<conn, registry, queue, monitored, broken, requests, calls,
                 faults>>

Disconnect(p) ==
  /\ At(p, "wait") /\ job[p].op = "disconnect"
  /\ registry' = Cleared
  /\ conn' = "none"
  /\ IF conn = "none" THEN Finish(p) ELSE Goto(p, "close") /\ UNCHANGED queue
  /\ UNCHANGED <<config, stored, monitored, asked, stray, broken, unsaved,
                 requests, calls, faults>>

Refresh(p) ==
  /\ At(p, "wait") /\ job[p].op = "refresh"
  /\ IF config.there /\ conn # "none" THEN Goto(p, "list") /\ UNCHANGED queue
     ELSE Finish(p)
  /\ UNCHANGED <<config, stored, conn, registry, monitored, asked, stray, broken,
                 unsaved, requests, calls, faults>>

\* approve_tool and revoke_tool mark the tool in memory, write the document and
\* only then change the registry.
Marked(t, yes) ==
  [config EXCEPT !.tools = (config.tools \ Find(t))
                             \cup {[e EXCEPT !.approved = yes] : e \in Find(t)}]

Mark(p) ==
  /\ At(p, "wait") /\ job[p].op \in {"approve", "revoke"}
  /\ LET t == job[p].tool
         yes == job[p].op = "approve"
     IN IF Find(t) = {} THEN Finish(p) /\ UNCHANGED <<config, asked>>
        ELSE /\ config' = Marked(t, yes)
             /\ asked' = IF yes THEN asked \cup {t} ELSE asked
             /\ Goto(p, job[p].op)
             /\ UNCHANGED queue
  /\ UNCHANGED <<stored, stray, conn, registry, monitored, broken, unsaved,
                 requests, calls, faults>>

MarkSaved(p) ==
  /\ job[p].at \in {"approve", "revoke"}
  /\ stored' = config
  /\ unsaved' = FALSE
  /\ registry' = IF job[p].at = "approve" THEN Register(registry, Find(job[p].tool))
                 ELSE Unregister(registry, {job[p]})
  /\ broken' = broken \ {job[p].tool}
  /\ Finish(p)
  /\ UNCHANGED <<config, conn, monitored, asked, stray, requests, calls, faults>>

MarkFails(p) ==
  /\ job[p].at \in {"approve", "revoke"}
  /\ faults < MaxFaults /\ faults' = faults + 1
  /\ unsaved' = TRUE
  /\ broken' = broken \cup {job[p].tool}
  /\ Finish(p)
  /\ UNCHANGED <<config, stored, conn, registry, monitored, asked, stray, requests,
                 calls>>

\* delete_server drops the server from memory even when its document stays.
Delete(p) ==
  /\ At(p, "wait") /\ job[p].op = "delete"
  /\ IF ~config.there THEN Finish(p) /\ UNCHANGED <<conn, registry>>
     ELSE /\ registry' = Cleared
          /\ conn' = "none"
          /\ Goto(p, "erase")
          /\ UNCHANGED queue
  /\ UNCHANGED <<config, stored, monitored, asked, stray, broken, unsaved,
                 requests, calls, faults>>

Erased(p) ==
  /\ At(p, "erase")
  /\ config' = Absent
  /\ \/ stored' = Absent /\ UNCHANGED <<unsaved, faults>>
     \/ /\ faults < MaxFaults /\ faults' = faults + 1
        /\ unsaved' = TRUE
        /\ UNCHANGED stored
  /\ Finish(p)
  /\ UNCHANGED <<conn, registry, monitored, asked, stray, broken, requests, calls>>

\* ------------------------------------------------------------------- calls
\* ToolRegistry.execute finds the handler, which waits for the server's lock.
Call(p) ==
  /\ Ready /\ job[p].at = "idle"
  /\ calls < MaxCalls /\ calls' = calls + 1
  /\ \E r \in registry :
       /\ job' = [job EXCEPT ![p].at = "wait", ![p].tool = r.tool]
       /\ stray' = IF r.tool \in broken THEN stray \cup {p} ELSE stray \ {p}
  /\ queue' = Append(queue, p)
  /\ UNCHANGED <<config, stored, conn, registry, monitored, asked, broken,
                 unsaved, requests, faults>>

Send(p) ==
  /\ At(p, "wait") /\ job[p].op = "call"
  /\ IF conn = "none" THEN Finish(p) ELSE Goto(p, "run") /\ UNCHANGED queue
  /\ UNCHANGED <<config, stored, conn, registry, monitored, asked, stray, broken,
                 unsaved, requests, calls, faults>>

\* An answer, or after _CALL_TIMEOUT an error that leaves the connection; the
\* second try ends in either way.
Answered(p) ==
  /\ job[p].at \in {"run", "rerun"}
  /\ Finish(p)
  /\ UNCHANGED <<config, stored, conn, registry, monitored, asked, stray, broken,
                 unsaved, requests, calls, faults>>

\* Any other failure: the connection is dropped, closed by a task of its own,
\* and one reconnection follows.
CallFails(p) ==
  /\ At(p, "run")
  /\ conn' = "none"
  /\ Goto(p, "open")
  /\ UNCHANGED <<config, stored, registry, queue, monitored, asked, stray, broken,
                 unsaved, requests, calls, faults>>

\* ----------------------------------------------------------------- monitor
\* A round of the health loop: the lock is tried for a second, then a ping.
Look ==
  /\ Ready /\ monitored /\ job[Monitor].at = "idle" /\ conn # "none"
  /\ Goto(Monitor, "try") /\ queue' = Append(queue, Monitor)
  /\ UNCHANGED <<config, stored, conn, registry, monitored, asked, stray, broken,
                 unsaved, requests, calls, faults>>

\* Mutant: the monitor gives up waiting and stays in the queue.
SkipInQueue ==
  /\ job[Monitor].at = "try" /\ ~Holds(Monitor)
  /\ Goto(Monitor, "idle")
  /\ UNCHANGED <<config, stored, conn, registry, queue, monitored, asked, stray, broken,
                 unsaved, requests, calls, faults>>

Skip ==
  /\ job[Monitor].at = "try" /\ ~Holds(Monitor)
  /\ queue' = RemoveFirst(queue, Monitor)
  /\ Goto(Monitor, "idle")
  /\ UNCHANGED <<config, stored, conn, registry, monitored, asked, stray, broken,
                 unsaved, requests, calls, faults>>

Ping ==
  /\ job[Monitor].at = "try" /\ Holds(Monitor)
  /\ IF conn = "none" THEN Finish(Monitor)
     ELSE Goto(Monitor, "ping") /\ UNCHANGED queue
  /\ UNCHANGED <<config, stored, conn, registry, monitored, asked, stray, broken,
                 unsaved, requests, calls, faults>>

Pong ==
  /\ At(Monitor, "ping") /\ conn = "good"
  /\ Finish(Monitor)
  /\ UNCHANGED <<config, stored, conn, registry, monitored, asked, stray, broken,
                 unsaved, requests, calls, faults>>

\* Mutant: a ping without answer is logged.
NoPongLogged ==
  /\ At(Monitor, "ping")
  /\ Finish(Monitor)
  /\ UNCHANGED <<config, stored, conn, registry, monitored, asked, stray, broken,
                 unsaved, requests, calls, faults>>

\* No answer: the lock is let go and taken again to reconnect.
NoPong ==
  /\ At(Monitor, "ping")
  /\ Goto(Monitor, "wait")
  /\ queue' = Append(Tail(queue), Monitor)
  /\ UNCHANGED <<config, stored, conn, registry, monitored, asked, stray, broken,
                 unsaved, requests, calls, faults>>

Reconnect ==
  /\ At(Monitor, "wait")
  /\ conn' = "none"
  /\ IF conn = "none" \/ ~config.there THEN Finish(Monitor)
     ELSE Goto(Monitor, "open") /\ UNCHANGED queue
  /\ UNCHANGED <<config, stored, registry, monitored, asked, stray, broken,
                 unsaved, requests, calls, faults>>

\* ------------------------------------------------------------- environment
LinkDies ==
  /\ conn = "good" /\ conn' = "bad"
  /\ UNCHANGED <<config, stored, registry, queue, job, monitored, asked, stray,
                 broken, unsaved, requests, calls, faults>>

\* load_servers, then connect_all if it found the server.
Booting(p) == IF p = Boot /\ stored.there THEN [Resting(p) EXCEPT !.at = "wait"]
              ELSE Resting(p)
Start ==
  /\ config' = stored
  /\ conn' = "none" /\ registry' = {} /\ stray' = {} /\ broken' = {} /\ unsaved' = FALSE
  /\ job' = [p \in Procs |-> Booting(p)]
  /\ queue' = IF stored.there THEN <<Boot>> ELSE <<>>
  /\ monitored' = ~stored.there

Restart ==
  /\ requests < MaxRequests /\ requests' = requests + 1
  /\ Start
  /\ UNCHANGED <<stored, asked, calls, faults>>

Init ==
  /\ stored \in Documents
  /\ asked = {e.tool : e \in Approved(stored)}
  /\ config = stored
  /\ conn = "none" /\ registry = {} /\ stray = {} /\ broken = {} /\ unsaved = FALSE
  /\ job = [p \in Procs |-> Booting(p)]
  /\ queue = IF stored.there THEN <<Boot>> ELSE <<>>
  /\ monitored = ~stored.there
  /\ requests = 0 /\ calls = 0 /\ faults = 0

Connecting(p) ==
  \/ Connect(p) \/ Closed(p) \/ Opened(p) \/ OpenFails(p) \/ Leak(p)
  \/ Listed(p)
  \/ ListFails(p) \/ Saved(p) \/ SaveFails(p) \/ GiveUp(p)
Serving(p) ==
  \/ Created(p) \/ Disconnect(p) \/ Refresh(p) \/ Mark(p) \/ MarkSaved(p)
  \/ MarkFails(p) \/ Delete(p) \/ Erased(p)
Calling(p) == Send(p) \/ Answered(p) \/ CallFails(p)
Watching == Look \/ Skip \/ Ping \/ Pong \/ NoPong \/ Reconnect

Next ==
  \/ \E p \in Procs : Connecting(p)
  \/ \E p \in Requests : Request(p) \/ AskCreate(p) \/ Serving(p)
  \/ \E p \in Calls : Call(p) \/ Calling(p)
  \/ Watching \/ LinkDies \/ Restart

Spec == Init /\ [][Next]_vars

\* Every await comes back (what the MCP client is asked is bounded, and a
\* transport that is closed is taken to close), so whoever has the lock gets on.
\* The health loop comes round again.
Work ==
  \/ \E p \in Procs : Connecting(p)
  \/ \E p \in Requests : Serving(p)
  \/ \E p \in Calls : Calling(p)
  \/ Ping \/ Pong \/ NoPong \/ Reconnect
FairSpec == Spec /\ WF_vars(Work) /\ WF_vars(\E p \in Requests : Created(p)) /\ WF_vars(Look)

-----------------------------------------------------------------------------
(* Type invariant.  One name belongs to one listed tool, and to one            *)
(* registered: what scripts call is not ambiguous (seen_sanitized).            *)
TypeOK ==
  /\ config.there \in BOOLEAN /\ config.tools \subseteq Entry /\ Distinct(config.tools)
  /\ stored.there \in BOOLEAN /\ stored.tools \subseteq Entry /\ Distinct(stored.tools)
  /\ conn \in {"none", "good", "bad"}
  /\ registry \subseteq Registration /\ Distinct(registry)
  /\ queue \in Seq(Procs)
  /\ job \in [Procs -> [at : Steps, op : Ops \cup {"call", "watch", "boot"}, tool : Tools]]
  /\ monitored \in BOOLEAN /\ unsaved \in BOOLEAN
  /\ asked \subseteq Tools /\ broken \subseteq Tools /\ stray \subseteq Calls

(* What is registered is approved: whatever listings change, collide or drop   *)
(* and whichever connection, reconnection, refresh or deletion fails half way, *)
(* a tool in the registry is one that is approved now, one whose revocation is *)
(* being written, or one whose revocation or approval could not be written.    *)
RegisteredApproved ==
  \A r \in registry :
    \/ \E e \in Approved(config) : e.tool = r.tool
    \/ r.tool \in broken
    \/ \E p \in Requests : job[p].at = "revoke" /\ job[p].tool = r.tool

(* A call that reaches the server asks for a tool whose approval the operator  *)
(* asked for since the server was created, unless its revocation or approval   *)
(* could not be written when it was called, or it waited for the lock while    *)
(* the server was deleted and created anew (it then goes to the new one); and  *)
(* no approval in memory or in the store appears in another way.               *)
CallsAsked ==
  /\ \A p \in Calls \ stray : job[p].at \in {"run", "rerun"} => job[p].tool \in asked
  /\ \A e \in Approved(config) \cup Approved(stored) : e.tool \in asked

(* When nothing is under way on a server, its document is its configuration,   *)
(* and a server that has a connection has all its approved tools registered as *)
(* it last described them (no live session without its tools).                 *)
QuietAgrees ==
  queue = <<>> /\ config.there =>
    /\ ~unsaved => stored = config
    /\ conn # "none" =>
         {r \in registry : r.tool \notin broken}
           = AsRegistered({e \in Approved(config) : e.tool \notin broken})

(* Liveness: the lock of a server comes free again and again: no sequence of   *)
(* timeouts, skipped checks, leaked cancellations and failed reconnections     *)
(* leaves it held or a waiter forgotten, so every request of it ends.          *)
LockComesFree == []<>(queue = <<>>)

(* Liveness: a connection whose other side is gone is replaced or dropped, as  *)
(* long as the health loop runs.                                               *)
DeadLinkNoticed == conn = "bad" ~> conn # "bad" \/ ~monitored

=============================================================================

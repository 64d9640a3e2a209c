---------------------------- MODULE SessionTurns ----------------------------
(***************************************************************************)
(* One chat session and the turns that are taken on it from the three      *)
(* surfaces of victrola: the Discord bot (src/src/discord_bot/bot.py), the *)
(* Signal bot (src/src/signal_bot/bot.py) and the web chat router          *)
(* (src/src/web/routers/chat.py).  A turn loads the history, saves the     *)
(* operator's message, runs the agent and saves what the agent says; each  *)
(* surface has a mechanism of its own against two turns at once.           *)
(*                                                                         *)
(* An action is the code between two awaits.  The history is abstracted to *)
(* who wrote a message and what sort it is; the repair and the trimming    *)
(* the agent does to its own copy are left to module Repair.               *)
(***************************************************************************)
EXTENDS Naturals, Sequences, FiniteSets

CONSTANTS
  Turns,        \* the messages an operator sends
  Surfaces,     \* where the messages may come from ("none": it is never sent)
  Locks,        \* asyncio.Lock objects of the Discord bot
  None,
  MaxRounds,    \* bound: rounds of tool calls in a turn
  MaxErrors,    \* bound: failures of the store
  MaxCrashes    \* bound: restarts of the process

ASSUME SessionAssumption ==
  /\ Surfaces \subseteq [Turns -> {"discord", "signal", "web", "none"}]
  /\ None \notin Turns \cup Locks
  /\ MaxRounds \in Nat /\ MaxErrors \in Nat /\ MaxCrashes \in Nat

VARIABLES
  surface,   \* the surface each message comes from
  log,       \* the session's messages in the store
  pc,        \* where each turn is
  ctx,       \* the conversation each turn's agent works on
  rounds,
  table,     \* Discord: the lock _session_locks has for the thread
  lock,      \* Discord: the lock a turn uses
  holder, waiters,    \* Discord: the state of each lock
  inFlight,  \* web: the session is in _in_flight
  guard,     \* web: the turn that is suspended while it holds _locks_guard
  errors, crashes

vars == <<surface, log, pc, ctx, rounds, table, lock, holder, waiters, inFlight, guard,
          errors, crashes>>

discordVars == <<table, lock, holder, waiters>>
webVars == <<inFlight, guard>>
turnVars == <<log, ctx, rounds>>

Message == [turn : Turns, kind : {"user", "toolUse", "toolResult", "reply"}]
Says(t, k) == [turn |-> t, kind |-> k]

Saving == {"saveUser", "saveUse", "saveResult", "saveReply"}
Running == {"load", "agent", "tools"} \cup Saving
Places == Running \cup {"new", "waiting", "peeked", "refused", "leaving", "done"}

TypeOK ==
  /\ surface \in Surfaces
  /\ log \in Seq(Message)
  /\ pc \in [Turns -> Places]
  /\ ctx \in [Turns -> Seq(Message)]
  /\ rounds \in [Turns -> 0..MaxRounds]
  /\ table \in Locks \cup {None}
  /\ lock \in [Turns -> Locks \cup {None}]
  /\ holder \in [Locks -> Turns \cup {None}]
  /\ waiters \in [Locks -> Seq(Turns)]
  /\ inFlight \in BOOLEAN
  /\ guard \in Turns \cup {None}
  /\ errors \in 0..MaxErrors /\ crashes \in 0..MaxCrashes

Init ==
  /\ surface \in Surfaces
  /\ log = << >>
  /\ pc = [t \in Turns |-> "new"]
  /\ ctx = [t \in Turns |-> << >>]
  /\ rounds = [t \in Turns |-> 0]
  /\ table = None
  /\ lock = [t \in Turns |-> None]
  /\ holder = [l \in Locks |-> None]
  /\ waiters = [l \in Locks |-> << >>]
  /\ inFlight = FALSE /\ guard = None
  /\ errors = 0 /\ crashes = 0

Goto(t, place) == pc' = [pc EXCEPT ![t] = place]

-----------------------------------------------------------------------------
(* Discord: on_message takes the thread's lock from the table, or makes    *)
(* one.  Nobody is suspended while holding _locks_guard there, so finding  *)
(* the lock and joining it is one step.                                    *)

DiscordMessage(t) ==
  /\ surface[t] = "discord" /\ pc[t] = "new"
  /\ \E l \in Locks :
       /\ IF table # None THEN l = table
          ELSE holder[l] = None /\ waiters[l] = << >>     \* a new asyncio.Lock
       /\ table' = l
       /\ lock' = [lock EXCEPT ![t] = l]
       /\ IF holder[l] = None /\ waiters[l] = << >>
          THEN /\ holder' = [holder EXCEPT ![l] = t]
               /\ Goto(t, "saveUser")
               /\ UNCHANGED waiters
          ELSE /\ waiters' = [waiters EXCEPT ![l] = Append(@, t)]
               /\ Goto(t, "waiting")
               /\ UNCHANGED holder
  /\ UNCHANGED <<surface, turnVars, webVars, errors, crashes>>

(* release has set the waiter's future; now the waiter runs and owns it.   *)
DiscordWake(t) ==
  /\ pc[t] = "waiting"
  /\ LET l == lock[t] IN
     /\ holder[l] = None /\ Head(waiters[l]) = t
     /\ holder' = [holder EXCEPT ![l] = t]
     /\ waiters' = [waiters EXCEPT ![l] = Tail(@)]
  /\ Goto(t, "saveUser")
  /\ UNCHANGED <<surface, turnVars, table, lock, webVars, errors, crashes>>

(* Mutant: the lock is not released. *)
DiscordLeaveLocked(t) ==
  /\ surface[t] = "discord" /\ pc[t] = "leaving"
  /\ table' = None
  /\ Goto(t, "done")
  /\ UNCHANGED <<surface, turnVars, lock, holder, waiters, webVars, errors, crashes>>

(* The lock is released and, since no waiter has run yet, locked() is      *)
(* False: the entry is pruned.                                             *)
DiscordLeave(t) ==
  /\ surface[t] = "discord" /\ pc[t] = "leaving"
  /\ holder' = [holder EXCEPT ![lock[t]] = None]
  /\ table' = None
  /\ Goto(t, "done")
  /\ UNCHANGED <<surface, turnVars, lock, waiters, webVars, errors, crashes>>

-----------------------------------------------------------------------------
(* Signal: _poll_once handles a batch message by message under one lock.   *)

(* Mutant: messages of a batch are dispatched without the session lock. *)
SignalMessageUnlocked(t) ==
  /\ surface[t] = "signal" /\ pc[t] = "new"
  /\ Goto(t, "saveUser")
  /\ UNCHANGED <<surface, turnVars, discordVars, webVars, errors, crashes>>

SignalMessage(t) ==
  /\ surface[t] = "signal" /\ pc[t] = "new"
  /\ \A u \in Turns : surface[u] = "signal" => pc[u] \in {"new", "done"}
  /\ Goto(t, "saveUser")
  /\ UNCHANGED <<surface, turnVars, discordVars, webVars, errors, crashes>>

SignalLeave(t) ==
  /\ surface[t] = "signal" /\ pc[t] = "leaving"
  /\ Goto(t, "done")
  /\ UNCHANGED <<surface, turnVars, discordVars, webVars, errors, crashes>>

-----------------------------------------------------------------------------
(* Web: the early peek, then the authoritative check in the generator.     *)

WebPeek(t) ==
  /\ surface[t] = "web" /\ pc[t] = "new" /\ guard = None
  /\ Goto(t, IF inFlight THEN "done" ELSE "peeked")
  /\ UNCHANGED <<surface, turnVars, discordVars, webVars, errors, crashes>>

(* The client leaves before the body is consumed: the generator never runs. *)
WebDrop(t) ==
  /\ pc[t] = "peeked"
  /\ Goto(t, "done")
  /\ UNCHANGED <<surface, turnVars, discordVars, webVars, errors, crashes>>

(* Mutant: the early peek is taken to be enough. *)
WebEnterUnchecked(t) ==
  /\ pc[t] = "peeked" /\ guard = None
  /\ inFlight' = TRUE /\ Goto(t, "load")
  /\ UNCHANGED <<surface, turnVars, discordVars, guard, errors, crashes>>

(* A refusal is a yield inside "async with _locks_guard".                  *)
WebEnter(t) ==
  /\ pc[t] = "peeked" /\ guard = None
  /\ IF inFlight
     THEN guard' = t /\ Goto(t, "refused") /\ UNCHANGED inFlight
     ELSE inFlight' = TRUE /\ Goto(t, "load") /\ UNCHANGED guard
  /\ UNCHANGED <<surface, turnVars, discordVars, errors, crashes>>

WebRefused(t) ==
  /\ pc[t] = "refused"
  /\ guard' = None
  /\ Goto(t, "done")
  /\ UNCHANGED <<surface, turnVars, discordVars, inFlight, errors, crashes>>

WebLeave(t) ==
  /\ surface[t] = "web" /\ pc[t] = "leaving" /\ guard = None
  /\ inFlight' = FALSE
  /\ Goto(t, "done")
  /\ UNCHANGED <<surface, turnVars, discordVars, guard, errors, crashes>>

(* The client goes away.  The generator's finally cancels the agent and    *)
(* takes the guard to discard the marker.  In a cancelled task a wait for  *)
(* the guard is cancelled too, and the marker stays.                       *)
WebDisconnect(t) ==
  /\ surface[t] = "web" /\ pc[t] \in Running
  /\ \/ Goto(t, "leaving")
     \/ guard # None /\ Goto(t, "done")
  /\ UNCHANGED <<surface, turnVars, discordVars, webVars, errors, crashes>>

-----------------------------------------------------------------------------
(* The turn itself.  Web loads before it saves the operator's message, the *)
(* bots save first and drop the message they find at the tail.             *)

SavesFirst(t) == surface[t] # "web"

DropsTail(t) ==
  SavesFirst(t) /\ log # << >> /\ log[Len(log)].kind \in {"user", "toolResult"}

Loaded(t) == IF DropsTail(t) THEN SubSeq(log, 1, Len(log) - 1) ELSE log

AgentStarts(t, history) == ctx' = [ctx EXCEPT ![t] = Append(history, Says(t, "user"))]

Load(t) ==
  /\ pc[t] = "load"
  /\ IF SavesFirst(t)
     THEN AgentStarts(t, Loaded(t)) /\ Goto(t, "agent")
     ELSE ctx' = [ctx EXCEPT ![t] = Loaded(t)] /\ Goto(t, "saveUser")
  /\ UNCHANGED <<surface, log, rounds, discordVars, webVars, errors, crashes>>

(* The web router goes on without a history; the bots give the turn up.    *)
LoadFails(t) ==
  /\ pc[t] = "load" /\ errors < MaxErrors
  /\ errors' = errors + 1
  /\ Goto(t, IF SavesFirst(t) THEN "leaving" ELSE "saveUser")
  /\ UNCHANGED <<surface, turnVars, discordVars, webVars, crashes>>

(* What follows a save. *)
AfterSave(t) ==
  CASE pc[t] = "saveUser"   -> IF SavesFirst(t) THEN "load" ELSE "agent"
    [] pc[t] = "saveUse"    -> "tools"
    [] pc[t] = "saveResult" -> "agent"
    [] pc[t] = "saveReply"  -> "leaving"

BeingSaved(t) == IF pc[t] = "saveUser" THEN Says(t, "user") ELSE ctx[t][Len(ctx[t])]

StartAfterSave(t) ==
  IF pc[t] = "saveUser" /\ ~SavesFirst(t) THEN AgentStarts(t, ctx[t]) ELSE UNCHANGED ctx

Save(t) ==
  /\ pc[t] \in Saving
  /\ log' = Append(log, BeingSaved(t))
  /\ StartAfterSave(t)
  /\ Goto(t, AfterSave(t))
  /\ UNCHANGED <<surface, rounds, discordVars, webVars, errors, crashes>>

(* The bots save the operator's message outside any try; everything else   *)
(* that fails to be saved is logged and the turn goes on.                  *)
SaveFails(t) ==
  /\ pc[t] \in Saving /\ errors < MaxErrors
  /\ errors' = errors + 1
  /\ StartAfterSave(t)
  /\ Goto(t, IF pc[t] = "saveUser" /\ SavesFirst(t) THEN "leaving" ELSE AfterSave(t))
  /\ UNCHANGED <<surface, log, rounds, discordVars, webVars, crashes>>

(* on_message: the Discord bot passes none and saves only the final reply. *)
Persists(t) == surface[t] # "discord"

Said(t, kind) == ctx' = [ctx EXCEPT ![t] = Append(@, Says(t, kind))]

(* Mutant: nothing bounds the iterations. *)
AgentCallsToolsForever(t) ==
  /\ pc[t] = "agent"
  /\ rounds' = [rounds EXCEPT ![t] = @ + 1]
  /\ Said(t, "toolUse")
  /\ Goto(t, IF Persists(t) THEN "saveUse" ELSE "tools")
  /\ UNCHANGED <<surface, log, discordVars, webVars, errors, crashes>>

AgentCallsTools(t) ==
  /\ pc[t] = "agent" /\ rounds[t] < MaxRounds
  /\ rounds' = [rounds EXCEPT ![t] = @ + 1]
  /\ Said(t, "toolUse")
  /\ Goto(t, IF Persists(t) THEN "saveUse" ELSE "tools")
  /\ UNCHANGED <<surface, log, discordVars, webVars, errors, crashes>>

(* Mutant: the results are not handed to on_message. *)
ToolsReturnUnsaved(t) ==
  /\ pc[t] = "tools"
  /\ Said(t, "toolResult")
  /\ Goto(t, "agent")
  /\ UNCHANGED <<surface, log, rounds, discordVars, webVars, errors, crashes>>

ToolsReturn(t) ==
  /\ pc[t] = "tools"
  /\ Said(t, "toolResult")
  /\ Goto(t, IF Persists(t) THEN "saveResult" ELSE "agent")
  /\ UNCHANGED <<surface, log, rounds, discordVars, webVars, errors, crashes>>

AgentReplies(t) ==
  /\ pc[t] = "agent"
  /\ Said(t, "reply")
  /\ Goto(t, "saveReply")
  /\ UNCHANGED <<surface, log, rounds, discordVars, webVars, errors, crashes>>

(* The model's answer is empty, or its client has given up retrying.       *)
AgentGivesNothing(t) ==
  /\ pc[t] = "agent"
  /\ Goto(t, "leaving")
  /\ UNCHANGED <<surface, turnVars, discordVars, webVars, errors, crashes>>

(* Turns under way are lost with the process; the log is not.              *)
Crash ==
  /\ crashes < MaxCrashes
  /\ crashes' = crashes + 1
  /\ pc' = [t \in Turns |-> IF pc[t] = "new" THEN "new" ELSE "done"]
  /\ table' = None
  /\ holder' = [l \in Locks |-> None]
  /\ waiters' = [l \in Locks |-> << >>]
  /\ inFlight' = FALSE /\ guard' = None
  /\ UNCHANGED <<surface, turnVars, lock, errors>>

-----------------------------------------------------------------------------

Arrive(t) == DiscordMessage(t) \/ SignalMessage(t) \/ WebPeek(t)

TurnStep(t) ==
  \/ DiscordWake(t) \/ DiscordLeave(t) \/ SignalLeave(t)
  \/ WebEnter(t) \/ WebRefused(t) \/ WebLeave(t)
  \/ Load(t) \/ LoadFails(t) \/ Save(t) \/ SaveFails(t)
  \/ AgentCallsTools(t) \/ ToolsReturn(t) \/ AgentReplies(t) \/ AgentGivesNothing(t)

Next ==
  \/ \E t \in Turns : Arrive(t) \/ TurnStep(t) \/ WebDrop(t) \/ WebDisconnect(t)
  \/ Crash

Spec == Init /\ [][Next]_vars

(* Handlers run to their end: the LLM client has timeouts and a bounded    *)
(* number of retries, tools have deadlines, a response chunk is sent or    *)
(* its connection fails.  Operators need not write, nor clients stay.      *)
FairSpec == Spec /\ \A t \in Turns : WF_vars(TurnStep(t))

-----------------------------------------------------------------------------
(* Properties. *)

InAgent(t) == pc[t] \in {"agent", "tools", "saveUse", "saveResult", "saveReply"}

(* The first k messages of the log are what t was given; the rest is its   *)
(* own, there and in its conversation, and starts with the operator's.     *)
GivenAndOwn(t, k) ==
  /\ k \in 0..Len(log) /\ k < Len(ctx[t])
  /\ \A i \in 1..k : log[i] = ctx[t][i] /\ log[i].turn # t
  /\ \A i \in (k + 1)..Len(log) : log[i].turn = t
  /\ \A i \in (k + 1)..Len(ctx[t]) :
       ctx[t][i].turn = t /\ (ctx[t][i].kind = "user" <=> i = k + 1)

(* A turn sees, and only it extends, the whole history: while its agent    *)
(* works, the log is what the agent was given and then what the turn       *)
(* saved, and the conversation is the same history, with the operator's    *)
(* message after it, once.                                                 *)
SerialView ==
  errors = 0 => \A t \in Turns : InAgent(t) => \E k \in 0..Len(log) : GivenAndOwn(t, k)

(* No surface takes two turns at once, whatever fails, disconnects or      *)
(* crashes in the others ("two simultaneous requests could interleave      *)
(* save/load/agent calls and corrupt the conversation history").           *)
OneTurnPerSurface ==
  \A t, u \in Turns :
    t # u /\ surface[t] = surface[u] => ~(pc[t] \in Running /\ pc[u] \in Running)

(* A persisted tool call is answered before anything else is persisted, or *)
(* its turn ended there: what Repair has to mend is only ever a cut tail.  *)
OnlyCutTails ==
  errors = 0 =>
    \A i \in 1..Len(log) : log[i].kind = "toolUse" =>
      \/ i = Len(log)
      \/ log[i + 1] = Says(log[i].turn, "toolResult")
      \/ log[i + 1].turn # log[i].turn /\ pc[log[i].turn] \in {"leaving", "done"}

(* Every message that was taken in is handled to the end, also one that    *)
(* waits for a lock whose entry was pruned.                                *)
EveryTurnEnds == \A t \in Turns : pc[t] # "new" ~> pc[t] = "done"

(* load_session_with_ids "drops the trailing user message since the caller *)
(* just saved it": what is dropped is the caller's.                        *)
DropsOnlyItsOwn ==
  [][\A t \in Turns : Load(t) /\ DropsTail(t) => log[Len(log)].turn = t]_vars
=============================================================================

------------------------- MODULE SessionTurnsProofs -------------------------
(***************************************************************************)
(* Turns of a session exclude each other, and so each sees the whole       *)
(* history and leaves at most a cut tail, for any number of messages,      *)
(* rounds, failures and restarts.                                          *)
(***************************************************************************)
EXTENDS SessionTurns, SequenceTheorems, TLAPS

\* A turn that has its session, also while it gives it back.
Busy(t) == pc[t] \in Running \cup {"leaving"}

-----------------------------------------------------------------------------
(* Types *)

\* A turn waits in the queue of its lock; an agent has a message to work on.
Queued(t) == pc[t] = "waiting" =>
  /\ surface[t] = "discord" /\ lock[t] \in Locks
  /\ \E i \in 1..Len(waiters[lock[t]]) : waiters[lock[t]][i] = t
HasMessage(t) == InAgent(t) => ctx[t] # << >>
Typed == TypeOK /\ \A t \in Turns : Queued(t) /\ HasMessage(t)

LEMMA Surfaced == \A s \in Surfaces, t \in Turns : s[t] \in {"discord", "signal", "web", "none"}
  BY SessionAssumption

\* What a turn saves, and what it has said, is a message of its own.
LEMMA SavedTyped ==
  ASSUME Typed, NEW t \in Turns, pc[t] \in Saving
  PROVE  /\ BeingSaved(t) \in Message /\ Append(log, BeingSaved(t)) \in Seq(Message)
         /\ pc[t] # "saveUser" => ctx[t] # << >>
  <1>1. ctx[t] \in Seq(Message) /\ (pc[t] # "saveUser" => ctx[t] # << >>)
    BY DEF Typed, TypeOK, HasMessage, InAgent, Saving
  <1>2. ctx[t] # << >> => Len(ctx[t]) \in 1..Len(ctx[t])
    BY <1>1
  <1>3. BeingSaved(t) \in Message
    BY <1>1, <1>2, ElementOfSeq DEF BeingSaved, Says, Message
  <1>. QED BY <1>1, <1>3, AppendProperties DEF Typed, TypeOK

LEMMA SaidTyped ==
  ASSUME Typed, NEW t \in Turns, NEW h \in Seq(Message),
         NEW k \in {"user", "toolUse", "toolResult", "reply"}
  PROVE  Append(h, Says(t, k)) \in Seq(Message) /\ Append(h, Says(t, k)) # << >>
  <1>1. Says(t, k) \in Message
    BY DEF Says, Message
  <1>. QED BY <1>1, AppendProperties

LEMMA LoadedTyped == ASSUME Typed, NEW t \in Turns PROVE Loaded(t) \in Seq(Message)
  <1>1. log \in Seq(Message)
    BY DEF Typed, TypeOK
  <1>2. CASE log = << >>
    BY <1>1, <1>2 DEF Loaded, DropsTail
  <1>3. CASE log # << >>
    <2>1. \A i \in 1..(Len(log) - 1) : log[i] \in Message
      BY <1>1
    <2>2. SubSeq(log, 1, Len(log) - 1) \in Seq(Message)
      BY <1>1, <1>3, <2>1, SubSeqProperties
    <2>. QED BY <1>1, <2>2 DEF Loaded
  <1>. QED BY <1>2, <1>3

\* The steps of the turn itself move one turn and write the log or its context.
LEMMA TurnTyped ==
  ASSUME Typed, NEW t \in Turns,
         \/ Load(t) \/ LoadFails(t) \/ Save(t) \/ SaveFails(t)
         \/ AgentCallsTools(t) \/ ToolsReturn(t) \/ AgentReplies(t) \/ AgentGivesNothing(t)
  PROVE  Typed'
  <1>1. \A u \in Turns \ {t} : pc'[u] = pc[u] /\ ctx'[u] = ctx[u]
    BY DEF Typed, TypeOK, Load, LoadFails, Save, SaveFails, StartAfterSave, AgentStarts,
           AgentCallsTools, ToolsReturn, AgentReplies, AgentGivesNothing, Goto, Said, turnVars
  <1>2. UNCHANGED <<surface, lock, holder, waiters, table, inFlight, guard, crashes>>
    BY DEF Load, LoadFails, Save, SaveFails, AgentCallsTools, ToolsReturn, AgentReplies,
           AgentGivesNothing, discordVars, webVars
  <1>3. errors' \in 0..MaxErrors
    BY SessionAssumption
       DEF Typed, TypeOK, Load, LoadFails, Save, SaveFails, AgentCallsTools, ToolsReturn,
           AgentReplies, AgentGivesNothing
  <1>4. rounds' \in [Turns -> 0..MaxRounds]
    <2>1. CASE AgentCallsTools(t)
      <3>1. rounds \in [Turns -> 0..MaxRounds] /\ rounds[t] + 1 \in 0..MaxRounds
        BY <2>1, SessionAssumption DEF Typed, TypeOK, AgentCallsTools
      <3>. QED BY <2>1, <3>1 DEF AgentCallsTools
    <2>2. CASE ~AgentCallsTools(t)
      <3>1. rounds' = rounds
        BY <2>2 DEF Load, LoadFails, Save, SaveFails, ToolsReturn, AgentReplies, AgentGivesNothing, turnVars
      <3>. QED BY <3>1 DEF Typed, TypeOK
    <2>. QED BY <2>1, <2>2
  <1>5. log' \in Seq(Message)
    BY SavedTyped
       DEF Typed, TypeOK, Load, LoadFails, Save, SaveFails, AgentCallsTools, ToolsReturn,
           AgentReplies, AgentGivesNothing, turnVars
  <1>6. pc' \in [Turns -> Places] /\ pc'[t] # "waiting"
    BY DEF Typed, TypeOK, Load, LoadFails, Save, SaveFails, AgentCallsTools, ToolsReturn,
           AgentReplies, AgentGivesNothing, Goto, AfterSave, Places, Running, Saving
  <1>7. ctx' \in [Turns -> Seq(Message)] /\ HasMessage(t)'
    <2>0. ctx \in [Turns -> Seq(Message)] /\ pc \in [Turns -> Places] /\ HasMessage(t)
      BY DEF Typed, TypeOK
    <2>1. CASE Load(t)
      BY <2>0, <2>1, LoadedTyped, SaidTyped DEF Load, AgentStarts, Goto, HasMessage, InAgent
    <2>2. CASE LoadFails(t) \/ AgentGivesNothing(t)
      BY <2>0, <2>2 DEF LoadFails, AgentGivesNothing, Goto, HasMessage, InAgent, turnVars
    <2>3. CASE Save(t) \/ SaveFails(t)
      <3>1. pc[t] \in Saving /\ (UNCHANGED ctx \/ AgentStarts(t, ctx[t]))
        BY <2>3 DEF Save, SaveFails, StartAfterSave
      <3>2. pc'[t] = "leaving" \/ pc'[t] = "load" \/ pc[t] # "saveUser" \/ AgentStarts(t, ctx[t])
        BY <2>0, <2>3, <3>1 DEF Save, SaveFails, StartAfterSave, Goto, AfterSave
      <3>3. AgentStarts(t, ctx[t]) => ctx' \in [Turns -> Seq(Message)] /\ ctx'[t] # << >>
        BY <2>0, SaidTyped DEF AgentStarts
      <3>. QED BY <2>0, <3>1, <3>2, <3>3, SavedTyped DEF HasMessage, InAgent
    <2>4. CASE AgentCallsTools(t) \/ ToolsReturn(t) \/ AgentReplies(t)
      <3>1. PICK k \in {"user", "toolUse", "toolResult", "reply"} : Said(t, k)
        BY <2>4 DEF AgentCallsTools, ToolsReturn, AgentReplies
      <3>. QED BY <2>0, <3>1, SaidTyped DEF Said, HasMessage
    <2>. QED BY <2>1, <2>2, <2>3, <2>4
  <1>. QED BY <1>1, <1>2, <1>3, <1>4, <1>5, <1>6, <1>7 DEF Typed, TypeOK, Queued, HasMessage, InAgent

\* The steps of the surfaces write no log and no conversation.
LEMMA SurfaceTyped ==
  ASSUME Typed, NEW t \in Turns,
         \/ SignalMessage(t) \/ SignalLeave(t) \/ WebPeek(t) \/ WebDrop(t)
         \/ WebEnter(t) \/ WebRefused(t) \/ WebLeave(t) \/ WebDisconnect(t)
  PROVE  Typed'
  <1>1. UNCHANGED <<surface, turnVars, lock, holder, waiters, table, errors, crashes>>
    BY DEF SignalMessage, SignalLeave, WebPeek, WebDrop, WebEnter, WebRefused, WebLeave,
           WebDisconnect, discordVars, turnVars
  <1>2. pc' \in [Turns -> Places] /\ pc'[t] \notin {"waiting", "agent", "tools", "saveUse",
                                                   "saveResult", "saveReply"}
        /\ \A u \in Turns \ {t} : pc'[u] = pc[u]
    BY DEF Typed, TypeOK, Goto, Places, Running, Saving, SignalMessage, SignalLeave, WebPeek, WebDrop,
           WebEnter, WebRefused, WebLeave, WebDisconnect
  <1>3. inFlight' \in BOOLEAN /\ guard' \in Turns \cup {None}
    BY DEF Typed, TypeOK, webVars, SignalMessage, SignalLeave, WebPeek, WebDrop,
           WebEnter, WebRefused, WebLeave, WebDisconnect
  <1>. QED BY <1>1, <1>2, <1>3 DEF Typed, TypeOK, Queued, HasMessage, InAgent, turnVars

LEMMA DiscordMessageTyped ==
  ASSUME Typed, NEW t \in Turns, DiscordMessage(t) PROVE Typed'
  <1>1. PICK l \in Locks :
          /\ table' = l /\ lock' = [lock EXCEPT ![t] = l]
          /\ \/ /\ holder' = [holder EXCEPT ![l] = t] /\ UNCHANGED waiters
                /\ Goto(t, "saveUser")
             \/ /\ waiters' = [waiters EXCEPT ![l] = Append(@, t)] /\ UNCHANGED holder
                /\ Goto(t, "waiting")
    BY DEF DiscordMessage
  <1>2. waiters[l] \in Seq(Turns) /\ Append(waiters[l], t) \in Seq(Turns)
        /\ Len(Append(waiters[l], t)) = Len(waiters[l]) + 1
        /\ Append(waiters[l], t)[Len(waiters[l]) + 1] = t
        /\ \A i \in 1..Len(waiters[l]) : Append(waiters[l], t)[i] = waiters[l][i]
    BY DEF Typed, TypeOK
  <1>3. pc' \in [Turns -> Places] /\ holder' \in [Locks -> Turns \cup {None}]
        /\ waiters' \in [Locks -> Seq(Turns)] /\ lock' \in [Turns -> Locks \cup {None}]
        /\ ~InAgent(t)' /\ \A u \in Turns \ {t} : pc'[u] = pc[u] /\ lock'[u] = lock[u]
    BY <1>1, <1>2 DEF Typed, TypeOK, Goto, Places, Running, Saving, InAgent
  <1>4. ASSUME NEW k \in Locks, NEW i \in 1..Len(waiters[k])
        PROVE  i \in 1..Len(waiters'[k]) /\ waiters'[k][i] = waiters[k][i]
    <2>1. CASE UNCHANGED waiters
      BY <1>4, <2>1
    <2>2. CASE waiters' = [waiters EXCEPT ![l] = Append(@, t)]
      <3>1. waiters'[k] = IF k = l THEN Append(waiters[l], t) ELSE waiters[k]
        BY <2>2 DEF Typed, TypeOK
      <3>. QED BY <1>2, <1>4, <3>1
    <2>. QED BY <1>1, <2>1, <2>2
  <1>5. UNCHANGED <<surface, turnVars, webVars, errors, crashes>> /\ surface[t] = "discord"
    BY DEF DiscordMessage
  <1>6. ASSUME NEW u \in Turns PROVE Queued(u)'
    <2>1. CASE u = t
      <3>. SUFFICES ASSUME pc'[t] = "waiting"
                    PROVE  lock'[t] \in Locks
                           /\ \E i \in 1..Len(waiters'[lock'[t]]) : waiters'[lock'[t]][i] = t
        BY <1>5, <2>1 DEF Queued
      <3>1. waiters'[l] = Append(waiters[l], t) /\ lock'[t] = l
        BY <1>1 DEF Typed, TypeOK, Goto
      <3>2. Len(waiters[l]) + 1 \in 1..Len(waiters'[l])
        BY <1>2, <3>1
      <3>. QED BY <1>2, <3>1, <3>2
    <2>2. CASE u # t
      <3>. SUFFICES ASSUME pc[u] = "waiting" PROVE Queued(u)'
        BY <1>3, <2>2 DEF Queued
      <3>1. lock[u] \in Locks /\ surface[u] = "discord"
        BY DEF Typed, Queued
      <3>2. PICK i \in 1..Len(waiters[lock[u]]) : waiters[lock[u]][i] = u
        BY DEF Typed, Queued
      <3>. QED BY <1>3, <1>4, <1>5, <2>2, <3>1, <3>2 DEF Queued
    <2>. QED BY <2>1, <2>2
  <1>. QED BY <1>1, <1>3, <1>5, <1>6 DEF Typed, TypeOK, HasMessage, InAgent, turnVars, webVars

LEMMA DiscordWakeTyped ==
  ASSUME Typed, NEW t \in Turns, DiscordWake(t) PROVE Typed'
  <1>. DEFINE l == lock[t]
  <1>1. /\ l \in Locks /\ waiters[l] \in Seq(Turns) /\ waiters[l] # << >> /\ Head(waiters[l]) = t
    BY DEF Typed, TypeOK, DiscordWake, Queued
  <1>2. /\ Tail(waiters[l]) \in Seq(Turns) /\ Len(Tail(waiters[l])) = Len(waiters[l]) - 1
        /\ \A i \in 1..(Len(waiters[l]) - 1) : Tail(waiters[l])[i] = waiters[l][i + 1]
        /\ waiters[l][1] = t
    BY <1>1
  <1>3. /\ pc' = [pc EXCEPT ![t] = "saveUser"]
        /\ holder' = [holder EXCEPT ![l] = t] /\ waiters' = [waiters EXCEPT ![l] = Tail(@)]
        /\ UNCHANGED <<surface, turnVars, table, lock, webVars, errors, crashes>>
    BY DEF DiscordWake, Goto
  <1>4. ASSUME NEW u \in Turns PROVE Queued(u)'
    <2>. SUFFICES ASSUME pc'[u] = "waiting"
                  PROVE  lock[u] \in Locks /\ surface[u] = "discord"
                         /\ \E i \in 1..Len(waiters'[lock[u]]) : waiters'[lock[u]][i] = u
      BY <1>3 DEF Queued
    <2>1. u # t /\ pc[u] = "waiting"
      BY <1>3 DEF Typed, TypeOK
    <2>2. lock[u] \in Locks /\ surface[u] = "discord"
      BY <2>1 DEF Typed, Queued
    <2>3. PICK i \in 1..Len(waiters[lock[u]]) : waiters[lock[u]][i] = u
      BY <2>1 DEF Typed, Queued
    <2>4. CASE lock[u] # l
      BY <1>1, <1>3, <2>2, <2>3, <2>4 DEF Typed, TypeOK
    <2>5. CASE lock[u] = l
      <3>1. i # 1 /\ i - 1 \in 1..(Len(waiters[l]) - 1)
        BY <1>1, <1>2, <2>1, <2>3, <2>5
      <3>2. waiters'[l] = Tail(waiters[l])
        BY <1>1, <1>3 DEF Typed, TypeOK
      <3>3. i - 1 \in 1..Len(waiters'[l]) /\ waiters'[l][i - 1] = u
        BY <1>2, <2>3, <2>5, <3>1, <3>2
      <3>. QED BY <2>2, <2>5, <3>3
    <2>. QED BY <2>2, <2>4, <2>5
  <1>5. pc' \in [Turns -> Places] /\ holder' \in [Locks -> Turns \cup {None}]
        /\ waiters' \in [Locks -> Seq(Turns)]
    BY <1>1, <1>2, <1>3 DEF Typed, TypeOK, Places, Running, Saving
  <1>. QED BY <1>3, <1>4, <1>5 DEF Typed, TypeOK, HasMessage, InAgent, turnVars, webVars

LEMMA DiscordLeaveTyped ==
  ASSUME Typed, NEW t \in Turns, DiscordLeave(t) PROVE Typed'
  BY DEF Typed, TypeOK, DiscordLeave, Goto, Queued, HasMessage, InAgent, turnVars, webVars, Places, Running, Saving

LEMMA CrashTyped == ASSUME Typed, Crash PROVE Typed'
  <1>1. crashes' \in 0..MaxCrashes
    BY SessionAssumption DEF Typed, TypeOK, Crash
  <1>2. \A t \in Turns : pc'[t] \in {"new", "done"}
    BY DEF Crash
  <1>3. pc' \in [Turns -> Places]
    BY DEF Crash, Places
  <1>4. waiters' \in [Locks -> Seq(Turns)]
    BY DEF Crash
  <1>. QED BY <1>1, <1>2, <1>3, <1>4 DEF Typed, TypeOK, Crash, Queued, HasMessage, InAgent, turnVars

LEMMA TypedInit == Init => Typed
  <1>. SUFFICES ASSUME Init PROVE Typed
    OBVIOUS
  <1>1. \A t \in Turns : pc[t] = "new"
    BY DEF Init
  <1>2. << >> \in Seq(Message) /\ << >> \in Seq(Turns) /\ "new" \in Places
    BY DEF Places
  <1>3. /\ 0 \in 0..MaxRounds /\ 0 \in 0..MaxErrors /\ 0 \in 0..MaxCrashes
    BY SessionAssumption
  <1>4. TypeOK
    BY <1>2, <1>3 DEF Init, TypeOK
  <1>. QED BY <1>1, <1>4 DEF Typed, Queued, HasMessage, InAgent

LEMMA TypedNext == Typed /\ [Next]_vars => Typed'
  <1>. SUFFICES ASSUME Typed, [Next]_vars PROVE Typed'
    OBVIOUS
  <1>1. CASE UNCHANGED vars
    BY <1>1 DEF vars, Typed, TypeOK, Queued, HasMessage, InAgent
  <1>2. CASE Crash
    BY <1>2, CrashTyped
  <1>3. ASSUME NEW t \in Turns, Arrive(t) \/ TurnStep(t) \/ WebDrop(t) \/ WebDisconnect(t) PROVE Typed'
    BY <1>3, TurnTyped, SurfaceTyped, DiscordMessageTyped, DiscordWakeTyped, DiscordLeaveTyped
       DEF Arrive, TurnStep
  <1>. QED BY <1>1, <1>2, <1>3 DEF Next

(* Types, for any turns, surfaces, locks and bounds.                       *)
THEOREM SessionTypes == Spec => []TypeOK
  <1>1. Spec => []Typed
    BY TypedInit, TypedNext, PTL DEF Spec
  <1>. QED BY <1>1, PTL DEF Typed

-----------------------------------------------------------------------------
(* Mutual exclusion.  Three Discord messages may break it (a lock that was *)
(* released and whose waiter has not run is pruned), two may not.          *)

TwoOnDiscord == \A s \in Surfaces : \A t, u, v \in Turns :
  s[t] = "discord" /\ s[u] = "discord" /\ s[v] = "discord" => t = u \/ t = v \/ u = v

Placed(t) == /\ pc[t] \in {"peeked", "refused"} => surface[t] = "web"
             /\ surface[t] = "none" => pc[t] = "new"

\* Two Discord turns under way have one lock, and the table has it for one that
\* is still to come.
UnderWay(t) == Busy(t) \/ pc[t] = "waiting"
Alone(t, u) == Busy(t) => ~Busy(u)
SameLock(t, u) ==
  surface[t] = "discord" /\ UnderWay(t) =>
    /\ UnderWay(u) => lock[t] = lock[u]
    /\ pc[u] = "new" => table = lock[t]
Marked(t) == /\ surface[t] = "web" /\ Busy(t) => inFlight
             /\ surface[t] = "discord" /\ UnderWay(t) => lock[t] \in Locks
             /\ surface[t] = "discord" /\ Busy(t) => holder[lock[t]] = t
Exclusive == /\ \A t, u \in Turns : t # u /\ surface[t] = surface[u] => Alone(t, u) /\ SameLock(t, u)
             /\ \A t \in Turns : Marked(t) /\ Placed(t)

LEMMA PlacedNext ==
  ASSUME Typed, [Next]_vars, \A t \in Turns : Placed(t) PROVE \A t \in Turns : Placed(t)'
  <1>1. CASE UNCHANGED vars
    BY <1>1 DEF vars, Placed
  <1>2. CASE Crash
    BY <1>2 DEF Crash, Placed
  <1>3. ASSUME NEW t \in Turns, Arrive(t) \/ TurnStep(t) \/ WebDrop(t) \/ WebDisconnect(t)
        PROVE  /\ UNCHANGED surface /\ \A u \in Turns \ {t} : pc'[u] = pc[u]
               /\ pc'[t] # "new"
               /\ surface[t] # "none"
               /\ pc'[t] \in {"peeked", "refused"} => surface[t] = "web"
    <2>0. pc \in [Turns -> Places] /\ Placed(t) /\ Queued(t)
      BY DEF Typed, TypeOK
    <2>1. CASE Arrive(t)
      BY <2>0, <2>1 DEF Arrive, DiscordMessage, SignalMessage, WebPeek, Goto
    <2>2. CASE \/ DiscordWake(t) \/ DiscordLeave(t) \/ SignalLeave(t) \/ WebEnter(t) \/ WebRefused(t)
               \/ WebLeave(t) \/ WebDrop(t) \/ WebDisconnect(t)
      BY <2>0, <2>2 DEF DiscordWake, DiscordLeave, SignalLeave, WebEnter, WebRefused, WebLeave, WebDrop,
                        WebDisconnect, Goto, Placed, Queued
    <2>3. CASE \/ Load(t) \/ LoadFails(t) \/ Save(t) \/ SaveFails(t) \/ AgentCallsTools(t)
               \/ ToolsReturn(t) \/ AgentReplies(t) \/ AgentGivesNothing(t)
      BY <2>0, <2>3 DEF Load, LoadFails, Save, SaveFails, AgentCallsTools, ToolsReturn, AgentReplies,
                        AgentGivesNothing, Goto, AfterSave, Placed, Saving
    <2>. QED BY <1>3, <2>1, <2>2, <2>3 DEF TurnStep
  <1>. QED BY <1>1, <1>2, <1>3 DEF Next, Placed

\* A step after which no more turns are under way keeps them apart.
LEMMA FewerTurns ==
  ASSUME Exclusive, UNCHANGED <<surface, lock, holder, table, inFlight>>,
         \A u \in Turns : /\ Busy(u)' => Busy(u)
                          /\ UnderWay(u)' => UnderWay(u)
                          /\ pc'[u] = "new" => pc[u] = "new"
  PROVE  /\ \A t, u \in Turns : t # u /\ surface[t] = surface[u] => Alone(t, u)' /\ SameLock(t, u)'
         /\ \A t \in Turns : Marked(t)'
  BY DEF Exclusive, Alone, SameLock, Marked

LEMMA ExclusiveTurn ==
  ASSUME Typed, Exclusive, NEW t \in Turns,
         \/ Load(t) \/ LoadFails(t) \/ Save(t) \/ SaveFails(t) \/ AgentCallsTools(t)
         \/ ToolsReturn(t) \/ AgentReplies(t) \/ AgentGivesNothing(t)
         \/ SignalLeave(t) \/ WebPeek(t) \/ WebDrop(t) \/ WebRefused(t) \/ WebDisconnect(t)
  PROVE  /\ UNCHANGED <<surface, lock, holder, table, inFlight>>
         /\ \A u \in Turns : /\ Busy(u)' => Busy(u)
                             /\ UnderWay(u)' => UnderWay(u)
                             /\ pc'[u] = "new" => pc[u] = "new"
  <1>0. pc \in [Turns -> Places]
    BY DEF Typed, TypeOK
  <1>1. UNCHANGED <<surface, lock, holder, table, inFlight>>
    BY DEF Load, LoadFails, Save, SaveFails, AgentCallsTools, ToolsReturn, AgentReplies,
           AgentGivesNothing, SignalLeave, WebPeek, WebDrop, WebRefused, WebDisconnect,
           discordVars, webVars
  <1>2. /\ \A u \in Turns \ {t} : pc'[u] = pc[u]
        /\ pc'[t] \notin {"new", "waiting"}
        /\ pc'[t] \in Running \cup {"leaving"} => pc[t] \in Running \cup {"leaving"}
    BY <1>0 DEF Load, LoadFails, Save, SaveFails, AgentCallsTools, ToolsReturn, AgentReplies,
           AgentGivesNothing, SignalLeave, WebPeek, WebDrop, WebRefused, WebDisconnect, Goto, AfterSave,
           Running, Saving
  <1>. QED BY <1>1, <1>2 DEF Busy, UnderWay

LEMMA ExclusiveWeb ==
  ASSUME Typed, Exclusive, NEW t \in Turns, WebEnter(t) \/ WebLeave(t)
  PROVE  /\ \A v, u \in Turns : v # u /\ surface'[v] = surface'[u] => Alone(v, u)' /\ SameLock(v, u)'
         /\ \A v \in Turns : Marked(v)'
  <1>0. pc \in [Turns -> Places] /\ surface[t] = "web"
    BY DEF Typed, TypeOK, WebEnter, WebLeave, Exclusive, Placed
  <1>1. UNCHANGED <<surface, lock, holder, table>> /\ \A u \in Turns \ {t} : pc'[u] = pc[u]
    BY <1>0 DEF WebEnter, WebLeave, discordVars, Goto
  <1>2. CASE WebEnter(t)
    <2>1. pc'[t] \in {"refused", "load"} /\ (Busy(t)' => ~inFlight /\ inFlight') /\ (inFlight => inFlight')
      <3>1. CASE inFlight
        BY <1>0, <1>2, <3>1 DEF WebEnter, Goto, Busy, Running, Saving
      <3>2. CASE ~inFlight
        BY <1>0, <1>2, <3>2 DEF WebEnter, Goto
      <3>. QED BY <3>1, <3>2
    <2>2. Busy(t)' => \A u \in Turns : surface[u] = "web" => ~Busy(u)
      BY <2>1 DEF Exclusive, Marked
    <2>3. \A u \in Turns \ {t} : (Busy(u)' <=> Busy(u)) /\ (UnderWay(u)' <=> UnderWay(u))
      BY <1>1 DEF Busy, UnderWay
    <2>. QED BY <1>0, <1>1, <2>1, <2>2, <2>3 DEF Exclusive, Alone, SameLock, Marked
  <1>3. CASE WebLeave(t)
    <2>1. Busy(t) /\ ~Busy(t)'
      BY <1>0, <1>3 DEF WebLeave, Goto, Busy, Running, Saving
    <2>2. \A u \in Turns : surface[u] = "web" /\ u # t => ~Busy(u)
      BY <1>0, <2>1 DEF Exclusive, Alone
    <2>3. \A u \in Turns \ {t} : (Busy(u)' <=> Busy(u)) /\ (UnderWay(u)' <=> UnderWay(u))
      BY <1>1 DEF Busy, UnderWay
    <2>. QED BY <1>0, <1>1, <2>1, <2>2, <2>3 DEF Exclusive, Alone, SameLock, Marked
  <1>. QED BY <1>2, <1>3

LEMMA ExclusiveSignal ==
  ASSUME Typed, Exclusive, NEW t \in Turns, SignalMessage(t)
  PROVE  /\ \A v, u \in Turns : v # u /\ surface'[v] = surface'[u] => Alone(v, u)' /\ SameLock(v, u)'
         /\ \A v \in Turns : Marked(v)'
  <1>1. /\ UNCHANGED <<surface, lock, holder, table, inFlight>> /\ \A u \in Turns \ {t} : pc'[u] = pc[u]
        /\ surface[t] = "signal"
    BY DEF Typed, TypeOK, SignalMessage, discordVars, webVars, Goto
  <1>2. \A u \in Turns : surface[u] = "signal" => ~Busy(u)
    BY DEF SignalMessage, Busy, Running, Saving
  <1>3. \A u \in Turns \ {t} : (Busy(u)' <=> Busy(u)) /\ (UnderWay(u)' <=> UnderWay(u))
    BY <1>1 DEF Busy, UnderWay
  <1>. QED BY <1>1, <1>2, <1>3 DEF Exclusive, Alone, SameLock, Marked

LEMMA ExclusiveDiscord ==
  ASSUME TwoOnDiscord, Typed, Exclusive, NEW t \in Turns,
         DiscordMessage(t) \/ DiscordWake(t) \/ DiscordLeave(t)
  PROVE  /\ \A v, u \in Turns : v # u /\ surface'[v] = surface'[u] => Alone(v, u)' /\ SameLock(v, u)'
         /\ \A v \in Turns : Marked(v)'
  <1>0. pc \in [Turns -> Places] /\ surface[t] = "discord" /\ surface \in Surfaces
        /\ lock \in [Turns -> Locks \cup {None}] /\ holder \in [Locks -> Turns \cup {None}]
        /\ None \notin Turns
    BY SessionAssumption DEF Typed, TypeOK, DiscordMessage, DiscordWake, DiscordLeave, Queued
  <1>1. UNCHANGED <<surface, inFlight>> /\ \A u \in Turns \ {t} : pc'[u] = pc[u]
    BY <1>0 DEF DiscordMessage, DiscordWake, DiscordLeave, webVars, Goto
  <1>2. \A u \in Turns \ {t} : (Busy(u)' <=> Busy(u)) /\ (UnderWay(u)' <=> UnderWay(u))
    BY <1>1 DEF Busy, UnderWay
  <1>3. \A u, v \in Turns \ {t} : surface[u] = "discord" /\ surface[v] = "discord" => u = v
    BY <1>0 DEF TwoOnDiscord
  <1>4. CASE DiscordMessage(t)
    <2>1. PICK l \in Locks :
            /\ table # None => l = table
            /\ table' = l /\ lock' = [lock EXCEPT ![t] = l]
            /\ \/ holder[l] = None /\ holder' = [holder EXCEPT ![l] = t] /\ pc'[t] = "saveUser"
               \/ UNCHANGED holder /\ pc'[t] = "waiting"
      BY <1>0, <1>4 DEF DiscordMessage, Goto
    <2>2. lock'[t] = l /\ \A u \in Turns \ {t} : lock'[u] = lock[u]
      BY <1>0, <2>1
    <2>3. ASSUME NEW u \in Turns \ {t}, surface[u] = "discord", UnderWay(u) PROVE lock[u] = l
      <3>1. pc[t] = "new"
        BY <1>4 DEF DiscordMessage
      <3>2. table = lock[u]
        BY <1>0, <2>3, <3>1 DEF Exclusive, SameLock
      <3>3. Busy(u) => holder[lock[u]] = u
        BY <2>3 DEF Exclusive, Marked
      <3>4. lock[u] \in Locks
        BY <2>3 DEF Exclusive, Marked
      <3>. QED BY <2>1, <3>2, <3>3, <3>4, SessionAssumption
    <2>4. Busy(t)' => \A u \in Turns \ {t} : surface[u] = "discord" => ~Busy(u)
      <3>. SUFFICES ASSUME Busy(t)', NEW u \in Turns \ {t}, surface[u] = "discord", Busy(u) PROVE FALSE
        OBVIOUS
      <3>1. holder[l] = None
        BY <2>1 DEF Busy, Running, Saving
      <3>2. lock[u] = l /\ holder[lock[u]] = u
        BY <2>3 DEF UnderWay, Exclusive, Marked
      <3>. QED BY <1>0, <3>1, <3>2
    <2>5. \A u \in Turns \ {t} : surface[u] = "discord" /\ Busy(u) => holder'[lock'[u]] = u
      BY <1>0, <2>1, <2>2, <2>3, <2>4 DEF Exclusive, Marked, UnderWay, Busy, Running, Saving
    <2>6. Busy(t)' => holder'[lock'[t]] = t
      BY <1>0, <2>1, <2>2 DEF Busy, Running, Saving
    <2>7. \A v \in Turns : Marked(v)'
      BY <1>0, <1>1, <1>2, <2>2, <2>5, <2>6 DEF Exclusive, Marked
    <2>8. ASSUME NEW v \in Turns, NEW u \in Turns, v # u, surface[v] = surface[u]
          PROVE  Alone(v, u)' /\ SameLock(v, u)'
      <3>1. CASE surface[v] # "discord"
        BY <1>0, <1>1, <1>2, <2>8, <3>1 DEF Exclusive, Alone, SameLock
      <3>2. CASE surface[v] = "discord" /\ u = t
        BY <1>1, <1>2, <2>1, <2>2, <2>3, <2>4, <2>8, <3>2 DEF Alone, SameLock
      <3>3. CASE surface[v] = "discord" /\ v = t
        BY <1>1, <1>2, <2>1, <2>2, <2>3, <2>4, <2>8, <3>3 DEF Alone, SameLock
      <3>. QED BY <1>3, <2>8, <3>1, <3>2, <3>3
    <2>. QED BY <1>1, <2>7, <2>8
  <1>5. CASE DiscordWake(t)
    <2>1. /\ pc[t] = "waiting" /\ pc'[t] = "saveUser" /\ holder[lock[t]] = None /\ lock[t] \in Locks
          /\ holder' = [holder EXCEPT ![lock[t]] = t] /\ UNCHANGED <<lock, table>>
      BY <1>0, <1>5 DEF DiscordWake, Goto, Exclusive, Marked, UnderWay
    <2>2. \A u \in Turns \ {t} : surface[u] = "discord" => ~Busy(u)
      BY <1>0, <2>1 DEF Exclusive, SameLock, Marked, UnderWay
    <2>3. UnderWay(t) /\ UnderWay(t)'
      BY <2>1 DEF UnderWay, Busy, Running, Saving
    <2>. QED BY <1>0, <1>1, <1>2, <2>1, <2>2, <2>3 DEF Exclusive, Alone, SameLock, Marked
  <1>6. CASE DiscordLeave(t)
    <2>1. /\ pc[t] = "leaving" /\ pc'[t] = "done" /\ UNCHANGED lock
          /\ holder' = [holder EXCEPT ![lock[t]] = None]
      BY <1>0, <1>6 DEF DiscordLeave, Goto
    <2>2. Busy(t) /\ ~Busy(t)' /\ ~UnderWay(t)'
      BY <2>1 DEF UnderWay, Busy, Running, Saving
    <2>3. \A u \in Turns \ {t} : surface[u] = "discord" => ~Busy(u)
      BY <1>0, <2>2 DEF Exclusive, Alone
    <2>4. ASSUME NEW v \in Turns, NEW u \in Turns, v # u, surface[v] = surface[u]
          PROVE  Alone(v, u)' /\ SameLock(v, u)'
      <3>1. CASE surface[v] # "discord"
        BY <1>0, <1>1, <1>2, <2>1, <2>4, <3>1 DEF Exclusive, Alone, SameLock
      <3>2. CASE surface[v] = "discord"
        BY <1>0, <1>1, <1>2, <1>3, <2>1, <2>2, <2>3, <2>4, <3>2 DEF Alone, SameLock
      <3>. QED BY <3>1, <3>2
    <2>5. \A v \in Turns : Marked(v)'
      BY <1>0, <1>1, <1>2, <2>1, <2>2, <2>3 DEF Exclusive, Marked
    <2>. QED BY <1>1, <2>4, <2>5
  <1>. QED BY <1>4, <1>5, <1>6

LEMMA ExclusiveNext ==
  ASSUME TwoOnDiscord, Typed, Exclusive, [Next]_vars PROVE Exclusive'
  <1>1. \A t \in Turns : Placed(t)'
    BY PlacedNext DEF Exclusive
  <1>2. UNCHANGED surface
    BY DEF Next, vars, Crash, Arrive, TurnStep, DiscordMessage, DiscordWake, DiscordLeave, SignalMessage,
           SignalLeave, WebPeek, WebDrop, WebEnter, WebRefused, WebLeave, WebDisconnect, Load, LoadFails,
           Save, SaveFails, AgentCallsTools, ToolsReturn, AgentReplies, AgentGivesNothing
  <1>3. /\ \A t, u \in Turns : t # u /\ surface[t] = surface[u] => Alone(t, u)' /\ SameLock(t, u)'
        /\ \A t \in Turns : Marked(t)'
    <2>1. CASE UNCHANGED vars
      BY <2>1 DEF vars, Exclusive, Alone, SameLock, Marked, Busy, UnderWay
    <2>2. CASE Crash
      <3>1. \A t \in Turns : pc'[t] \in {"new", "done"}
        BY <2>2 DEF Crash
      <3>2. \A t \in Turns : ~Busy(t)' /\ ~UnderWay(t)'
        BY <3>1 DEF Busy, UnderWay, Running, Saving
      <3>. QED BY <3>2 DEF Alone, SameLock, Marked
    <2>3. ASSUME NEW t \in Turns, Arrive(t) \/ TurnStep(t) \/ WebDrop(t) \/ WebDisconnect(t)
          PROVE  /\ \A v, u \in Turns : v # u /\ surface[v] = surface[u] => Alone(v, u)' /\ SameLock(v, u)'
                 /\ \A v \in Turns : Marked(v)'
      <3>1. CASE WebEnter(t) \/ WebLeave(t)
        BY <1>2, <3>1, ExclusiveWeb
      <3>2. CASE SignalMessage(t)
        BY <1>2, <3>2, ExclusiveSignal
      <3>3. CASE DiscordMessage(t) \/ DiscordWake(t) \/ DiscordLeave(t)
        BY <1>2, <3>3, ExclusiveDiscord
      <3>4. CASE \/ Load(t) \/ LoadFails(t) \/ Save(t) \/ SaveFails(t) \/ AgentCallsTools(t)
                 \/ ToolsReturn(t) \/ AgentReplies(t) \/ AgentGivesNothing(t)
                 \/ SignalLeave(t) \/ WebPeek(t) \/ WebDrop(t) \/ WebRefused(t) \/ WebDisconnect(t)
        BY <3>4, ExclusiveTurn, FewerTurns
      <3>. QED BY <2>3, <3>1, <3>2, <3>3, <3>4 DEF Arrive, TurnStep
    <2>. QED BY <2>1, <2>2, <2>3 DEF Next
  <1>. QED BY <1>1, <1>2, <1>3 DEF Exclusive

LEMMA ExclusiveInit == Init => Exclusive
  <1>. SUFFICES ASSUME Init PROVE Exclusive
    OBVIOUS
  <1>1. \A t \in Turns : pc[t] = "new"
    BY DEF Init
  <1>2. \A t \in Turns : ~Busy(t) /\ ~UnderWay(t)
    BY <1>1 DEF Busy, UnderWay, Running, Saving
  <1>. QED BY <1>1, <1>2 DEF Exclusive, Alone, SameLock, Marked, Placed

LEMMA AlwaysExclusive == TwoOnDiscord => (Spec => [](Typed /\ Exclusive))
  <1>. SUFFICES ASSUME TwoOnDiscord PROVE Spec => [](Typed /\ Exclusive)
    OBVIOUS
  <1>1. Typed /\ Exclusive /\ [Next]_vars => (Typed /\ Exclusive)'
    BY TypedNext, ExclusiveNext
  <1>. QED BY <1>1, TypedInit, ExclusiveInit, PTL DEF Spec

(* No surface takes two turns at once, whatever fails, disconnects or      *)
(* restarts, with any number of web requests and Signal messages and two   *)
(* Discord messages (bot.py, chat.py).                                     *)
THEOREM TurnsExclude == ASSUME TwoOnDiscord PROVE Spec => []OneTurnPerSurface
  <1>1. Exclusive => OneTurnPerSurface
    BY DEF Exclusive, Alone, OneTurnPerSurface, Busy
  <1>. QED BY <1>1, AlwaysExclusive, PTL

-----------------------------------------------------------------------------
(* What a turn sees and leaves, on a session of one surface.               *)

OneSurface == \A s \in Surfaces : \A t, u \in Turns :
  s[t] # "none" /\ s[u] # "none" => s[t] = s[u]

LEMMA OneAtATime ==
  ASSUME OneSurface, Typed, Exclusive
  PROVE  \A t, u \in Turns : Busy(t) /\ Busy(u) => t = u
  <1>1. \A t \in Turns : Busy(t) => surface[t] # "none"
    BY DEF Exclusive, Placed, Busy, Running, Saving
  <1>2. surface \in Surfaces
    BY DEF Typed, TypeOK
  <1>. QED BY <1>1, <1>2 DEF OneSurface, Exclusive, Alone

\* Nothing of a turn is in the log before it saves; what a bot saved is last
\* when it loads; what web loaded is the log until it saves.
Unwritten(t) == \/ pc[t] \in {"new", "waiting", "peeked", "refused", "saveUser"}
                \/ pc[t] = "load" /\ ~SavesFirst(t)
Fresh(t) == Unwritten(t) => \A i \in 1..Len(log) : log[i].turn # t
OwnLast(t) ==
  SavesFirst(t) /\ pc[t] = "load" =>
    /\ log # << >> /\ log[Len(log)] = Says(t, "user")
    /\ \A i \in 1..(Len(log) - 1) : log[i].turn # t
SameHistory(t) == ~SavesFirst(t) /\ pc[t] = "saveUser" => ctx[t] = log
View(t) == InAgent(t) => \E k \in 0..Len(log) : GivenAndOwn(t, k)

\* What is saved is what was said last.
LastSaid(t) ==
  /\ pc[t] = "saveUse" => ctx[t][Len(ctx[t])] = Says(t, "toolUse") /\ surface[t] # "discord"
  /\ pc[t] = "saveResult" => ctx[t][Len(ctx[t])] = Says(t, "toolResult") /\ surface[t] # "discord"
  /\ pc[t] = "saveReply" => ctx[t][Len(ctx[t])] = Says(t, "reply")

Serial(t) == /\ Fresh(t) /\ OwnLast(t) /\ LastSaid(t)
             /\ errors = 0 => SameHistory(t) /\ View(t)

\* A call at the end of the log is one its turn still answers, or was cut off at.
Answering == {"tools", "saveResult", "leaving", "done"}
OpenCall == log # << >> /\ log[Len(log)].kind = "toolUse" => pc[log[Len(log)].turn] \in Answering
NoDiscordCalls == \A i \in 1..Len(log) : log[i].kind = "toolUse" => surface[log[i].turn] # "discord"
Calls == OnlyCutTails /\ NoDiscordCalls /\ (errors = 0 => OpenCall)

LEMMA SavedIsOwn ==
  ASSUME Typed, NEW t \in Turns, LastSaid(t), pc[t] \in Saving
  PROVE  BeingSaved(t) = Says(t, CASE pc[t] = "saveUser" -> "user" [] pc[t] = "saveUse" -> "toolUse"
                                   [] pc[t] = "saveResult" -> "toolResult" [] pc[t] = "saveReply" -> "reply")
  BY DEF BeingSaved, LastSaid, Saving

\* A step of another turn that leaves the log.
LEMMA SerialStays ==
  ASSUME NEW u \in Turns, Serial(u), pc'[u] = pc[u], ctx'[u] = ctx[u], UNCHANGED <<surface, log, errors>>
  PROVE  Serial(u)'
  <1>1. (SavesFirst(u)' <=> SavesFirst(u)) /\ (InAgent(u)' <=> InAgent(u))
    BY DEF SavesFirst, InAgent
  <1>2. Unwritten(u)' <=> Unwritten(u)
    BY <1>1 DEF Unwritten
  <1>3. \A k : GivenAndOwn(u, k) => GivenAndOwn(u, k)'
    BY DEF GivenAndOwn
  <1>4. Fresh(u)' /\ OwnLast(u)'
    BY <1>1, <1>2 DEF Serial, Fresh, OwnLast
  <1>5. LastSaid(u)'
    BY DEF Serial, LastSaid
  <1>6. errors' = 0 => SameHistory(u)' /\ View(u)'
    BY <1>1, <1>3 DEF Serial, SameHistory, View
  <1>. QED BY <1>4, <1>5, <1>6 DEF Serial

LEMMA LogTyped ==
  ASSUME Typed
  PROVE  /\ \A i \in 1..Len(log) : log[i] \in Message /\ log[i].turn \in Turns
         /\ Len(log) \in Nat /\ (log # << >> => Len(log) \in 1..Len(log))
  <1>1. log \in Seq(Message)
    BY DEF Typed, TypeOK
  <1>2. \A i \in 1..Len(log) : log[i] \in Message
    BY <1>1, ElementOfSeq
  <1>3. \A m \in Message : m.turn \in Turns
    BY DEF Message
  <1>4. Len(log) \in Nat /\ (log # << >> => Len(log) \in 1..Len(log))
    BY <1>1
  <1>. QED BY <1>2, <1>3, <1>4

\* While nothing is written, turns that answer go on to do so, or end.
LEMMA CallsStay ==
  ASSUME Typed, Calls, UNCHANGED <<surface, log>>, errors' = 0 => errors = 0,
         \A u \in Turns : /\ pc[u] \in {"leaving", "done"} => pc'[u] \in {"leaving", "done"}
                          /\ pc[u] \in Answering => pc'[u] \in Answering
  PROVE  Calls'
  <1>1. OnlyCutTails'
    BY LogTyped DEF Calls, OnlyCutTails
  <1>2. NoDiscordCalls'
    BY DEF Calls, NoDiscordCalls
  <1>3. (errors = 0 => OpenCall)'
    BY LogTyped DEF Calls, OpenCall
  <1>. QED BY <1>1, <1>2, <1>3 DEF Calls

\* Steps that write neither the log nor a conversation.
LEMMA AsideSteps ==
  ASSUME Typed, Exclusive, NEW t \in Turns,
         \/ DiscordMessage(t) \/ DiscordWake(t) \/ DiscordLeave(t) \/ SignalMessage(t) \/ SignalLeave(t)
         \/ WebPeek(t) \/ WebDrop(t) \/ WebEnter(t) \/ WebRefused(t) \/ WebLeave(t) \/ WebDisconnect(t)
         \/ LoadFails(t) \/ AgentGivesNothing(t)
  PROVE  /\ UNCHANGED <<surface, log, ctx>> /\ (errors' = 0 => errors = 0)
         /\ \A u \in Turns \ {t} : pc'[u] = pc[u]
         /\ ~InAgent(t)' /\ (Unwritten(t)' => Unwritten(t))
         /\ pc'[t] = "load" => ~SavesFirst(t)
         /\ pc'[t] = "saveUser" => SavesFirst(t) \/ errors' # 0
         /\ pc[t] \in Answering => pc'[t] \in {"leaving", "done"}
  <1>0. /\ pc \in [Turns -> Places] /\ Placed(t) /\ Queued(t)
        /\ surface[t] \in {"discord", "signal", "web", "none"}
        /\ errors \in Nat
    BY Surfaced, SessionAssumption DEF Typed, TypeOK, Exclusive
  <1>1. UNCHANGED <<surface, log, ctx>> /\ (errors' = errors \/ (LoadFails(t) /\ errors' = errors + 1))
    BY DEF DiscordMessage, DiscordWake, DiscordLeave, SignalMessage, SignalLeave, WebPeek, WebDrop, WebEnter,
           WebRefused, WebLeave, WebDisconnect, LoadFails, AgentGivesNothing, turnVars
  <1>2. CASE LoadFails(t)
    BY <1>0, <1>1, <1>2 DEF LoadFails, Goto, InAgent, Unwritten, SavesFirst, Answering, turnVars
  <1>3. CASE WebDisconnect(t) \/ AgentGivesNothing(t) \/ DiscordLeave(t) \/ SignalLeave(t) \/ WebLeave(t)
             \/ WebDrop(t) \/ WebRefused(t)
    <2>1. pc'[t] \in {"leaving", "done"} /\ \A u \in Turns \ {t} : pc'[u] = pc[u]
      BY <1>0, <1>3 DEF DiscordLeave, SignalLeave, WebDrop, WebRefused, WebLeave, WebDisconnect,
                        AgentGivesNothing, Goto
    <2>2. errors' = errors
      BY <1>3 DEF DiscordLeave, SignalLeave, WebDrop, WebRefused, WebLeave, WebDisconnect,
                        AgentGivesNothing
    <2>. QED BY <1>1, <2>1, <2>2 DEF InAgent, Unwritten
  <1>4. CASE WebEnter(t) \/ WebPeek(t)
    <2>1. pc[t] \in {"new", "peeked"} /\ pc'[t] \in {"peeked", "done", "load", "refused"} /\ surface[t] = "web"
          /\ \A u \in Turns \ {t} : pc'[u] = pc[u]
      BY <1>0, <1>4 DEF WebEnter, WebPeek, Goto, Placed
    <2>2. errors' = errors
      BY <1>4 DEF WebEnter, WebPeek
    <2>. QED BY <1>1, <2>1, <2>2 DEF InAgent, Unwritten, SavesFirst, Answering
  <1>5. CASE DiscordMessage(t) \/ DiscordWake(t) \/ SignalMessage(t)
    <2>1. pc[t] \in {"new", "waiting"} /\ pc'[t] \in {"saveUser", "waiting"}
          /\ surface[t] \in {"discord", "signal"} /\ \A u \in Turns \ {t} : pc'[u] = pc[u]
      BY <1>0, <1>5 DEF DiscordMessage, DiscordWake, SignalMessage, Goto, Queued
    <2>2. errors' = errors
      BY <1>5 DEF DiscordMessage, DiscordWake, SignalMessage
    <2>. QED BY <1>1, <2>1, <2>2 DEF InAgent, Unwritten, SavesFirst, Answering
  <1>. QED BY <1>2, <1>3, <1>4, <1>5

LEMMA AsideKeeps ==
  ASSUME Typed, Exclusive, \A u \in Turns : Serial(u), Calls, NEW t \in Turns,
         UNCHANGED <<surface, log, ctx>>, errors' = 0 => errors = 0,
         \A u \in Turns \ {t} : pc'[u] = pc[u],
         ~InAgent(t)', Unwritten(t)' => Unwritten(t),
         pc'[t] = "load" => ~SavesFirst(t),
         pc'[t] = "saveUser" => SavesFirst(t) \/ errors' # 0,
         pc[t] \in Answering => pc'[t] \in {"leaving", "done"}
  PROVE  (\A u \in Turns : Serial(u)') /\ Calls'
  <1>1. ASSUME NEW u \in Turns \ {t} PROVE Serial(u)'
    BY <1>1 DEF Serial, Fresh, OwnLast, LastSaid, SameHistory, View, Unwritten, InAgent, GivenAndOwn, SavesFirst
  <1>2. Serial(t)'
    BY DEF Serial, Fresh, OwnLast, LastSaid, SameHistory, View, InAgent, SavesFirst
  <1>3. Calls'
    BY CallsStay DEF Answering
  <1>. QED BY <1>1, <1>2, <1>3

\* A conversation that is loaded is the log, but for the bots' own message.
LEMMA LoadKeeps ==
  ASSUME Typed, Exclusive, \A u \in Turns : Serial(u), Calls, NEW t \in Turns, Load(t)
  PROVE  (\A u \in Turns : Serial(u)') /\ Calls'
  <1>0. /\ pc \in [Turns -> Places] /\ ctx \in [Turns -> Seq(Message)] /\ log \in Seq(Message)
        /\ surface[t] # "none"
    BY DEF Typed, TypeOK, Exclusive, Placed, Load
  <1>1. /\ UNCHANGED <<surface, log, errors>> /\ pc[t] = "load"
        /\ \A u \in Turns \ {t} : pc'[u] = pc[u] /\ ctx'[u] = ctx[u]
    BY <1>0 DEF Load, AgentStarts, Goto
  <1>2. ASSUME NEW u \in Turns \ {t} PROVE Serial(u)'
    <2>1. pc'[u] = pc[u] /\ ctx'[u] = ctx[u]
      BY <1>1
    <2>2. Fresh(u)' /\ OwnLast(u)' /\ LastSaid(u)'
      BY <1>1, <2>1 DEF Serial, Fresh, OwnLast, LastSaid, Unwritten, SavesFirst
    <2>3. ASSUME errors = 0 PROVE SameHistory(u)' /\ View(u)'
      BY <1>1, <2>1, <2>3 DEF Serial, SameHistory, View, InAgent, GivenAndOwn, SavesFirst
    <2>. QED BY <1>1, <2>2, <2>3 DEF Serial
  <1>3. Serial(t)'
    <2>1. CASE ~SavesFirst(t)
      <3>1. pc'[t] = "saveUser" /\ ctx'[t] = log
        BY <1>0, <2>1 DEF Load, Loaded, DropsTail, Goto
      <3>. QED BY <1>1, <2>1, <3>1 DEF Serial, Fresh, OwnLast, LastSaid, SameHistory, View, InAgent, Unwritten, SavesFirst
    <2>2. CASE SavesFirst(t)
      <3>. DEFINE k == Len(log) - 1  h == SubSeq(log, 1, k)
      <3>1. /\ log # << >> /\ log[Len(log)] = Says(t, "user")
            /\ \A i \in 1..k : log[i].turn # t
        BY <1>1, <2>2 DEF Serial, OwnLast
      <3>2. pc'[t] = "agent" /\ ctx'[t] = Append(h, Says(t, "user"))
        BY <1>0, <2>2, <3>1 DEF Load, Loaded, DropsTail, AgentStarts, Goto, Says
      <3>3. k \in 0..Len(log) /\ Len(h) = k /\ h \in Seq(Message) /\ \A i \in 1..k : h[i] = log[i]
        <4>1. Len(log) \in Nat /\ Len(log) >= 1 /\ \A i \in 1..Len(log) : log[i] \in Message
          BY <3>1, LogTyped
        <4>2. k \in Nat /\ k <= Len(log) /\ k = k - 1 + 1 /\ (1 <= k \/ k = 0)
          <5>1. ASSUME NEW m \in Nat, m >= 1
                PROVE m - 1 \in Nat /\ m - 1 <= m /\ m - 1 = m - 1 - 1 + 1 /\ (1 <= m - 1 \/ m - 1 = 0)
            BY <5>1
          <5>. QED BY <4>1, <5>1
        <4>. HIDE DEF k
        <4>3. h \in Seq(Message) /\ Len(h) = k /\ \A i \in 1..k : h[i] = log[1 + i - 1]
          BY <1>0, <4>1, <4>2, SubSeqProperties
        <4>. QED BY <4>2, <4>3
      <3>4. Len(ctx'[t]) = k + 1 /\ ctx'[t][k + 1] = Says(t, "user") /\ \A i \in 1..k : ctx'[t][i] = log[i]
        <4>. HIDE DEF h, k
        <4>. QED BY <3>2, <3>3
      <3>5. GivenAndOwn(t, k)'
        <4>1. \A i \in (k + 1)..Len(log) : i = Len(log)
          BY <1>0
        <4>2. \A i \in (k + 1)..(k + 1) : i = k + 1
          BY <3>3
        <4>. QED BY <1>1, <3>1, <3>3, <3>4, <4>1, <4>2 DEF GivenAndOwn, Says
      <3>. QED BY <1>1, <3>2, <3>3, <3>5 DEF Serial, Fresh, OwnLast, LastSaid, SameHistory, View, Unwritten, SavesFirst
    <2>. QED BY <2>1, <2>2
  <1>4. Calls'
    BY <1>1, CallsStay DEF Answering
  <1>. QED BY <1>2, <1>3, <1>4

\* What is appended to the log.
LEMMA SaveAppends ==
  ASSUME Typed, NEW t \in Turns, Save(t), LastSaid(t)
  PROVE  /\ Len(log') = Len(log) + 1 /\ Len(log) \in Nat /\ log'[Len(log) + 1] = BeingSaved(t)
         /\ \A i \in 1..Len(log) : log'[i] = log[i]
         /\ BeingSaved(t).turn = t /\ BeingSaved(t) \in Message
  <1>1. log \in Seq(Message) /\ log' = Append(log, BeingSaved(t)) /\ pc[t] \in Saving
    BY DEF Typed, TypeOK, Save
  <1>2. BeingSaved(t).turn = t
    BY <1>1, SavedIsOwn DEF Says
  <1>. QED BY <1>1, <1>2, SavedTyped

\* Nobody else is under way, so what others see does not change.
LEMMA SaveKeepsOthers ==
  ASSUME OneSurface, Typed, Exclusive, \A u \in Turns : Serial(u), NEW t \in Turns, Save(t),
         NEW u \in Turns \ {t}
  PROVE  Serial(u)'
  <1>0. pc \in [Turns -> Places] /\ ctx \in [Turns -> Seq(Message)]
    BY DEF Typed, TypeOK
  <1>1. UNCHANGED <<surface, errors>> /\ pc'[u] = pc[u] /\ ctx'[u] = ctx[u]
    BY <1>0 DEF Save, StartAfterSave, AgentStarts, Goto
  <1>2. Busy(t)
    BY DEF Save, Busy, Running
  <1>3. ~Busy(u)
    BY <1>2, OneAtATime
  <1>4. ~InAgent(u) /\ pc[u] \notin {"load", "saveUser"}
    BY <1>3 DEF Busy, Running, Saving, InAgent
  <1>5. Fresh(u)'
    <2>. SUFFICES ASSUME Unwritten(u), NEW i \in 1..Len(log') PROVE log'[i].turn # u
      BY <1>1 DEF Fresh, Unwritten, SavesFirst
    <2>1. \A j \in 1..Len(log) : log[j].turn # u
      BY DEF Serial, Fresh
    <2>. QED BY <2>1, SaveAppends DEF Serial
  <1>. QED BY <1>1, <1>4, <1>5 DEF Serial, OwnLast, LastSaid, SameHistory, View, InAgent

LEMMA SaveKeepsOwn ==
  ASSUME OneSurface, Typed, Exclusive, \A u \in Turns : Serial(u), NEW t \in Turns, Save(t)
  PROVE  Serial(t)'
  <1>0. /\ pc \in [Turns -> Places] /\ ctx \in [Turns -> Seq(Message)] /\ log \in Seq(Message)
        /\ pc[t] \in Saving
    BY DEF Typed, TypeOK, Save
  <1>. DEFINE n == Len(log)
  <1>1. /\ Len(log') = n + 1 /\ n \in Nat /\ log'[n + 1] = BeingSaved(t)
        /\ \A i \in 1..n : log'[i] = log[i]
        /\ BeingSaved(t).turn = t /\ BeingSaved(t) \in Message
    BY SaveAppends DEF Serial
  <1>2. UNCHANGED <<surface, errors>> /\ pc'[t] = AfterSave(t)
    BY <1>0 DEF Save, Goto
  <1>3. CASE pc[t] = "saveUser" /\ SavesFirst(t)
    <2>1. pc'[t] = "load" /\ BeingSaved(t) = Says(t, "user")
      BY <1>2, <1>3 DEF AfterSave, BeingSaved
    <2>2. \A i \in 1..n : log[i].turn # t
      BY <1>3 DEF Serial, Fresh, Unwritten
    <2>3. log' # << >> /\ log'[Len(log')] = Says(t, "user") /\ \A i \in 1..(Len(log') - 1) : log'[i].turn # t
      <3>1. Len(log') - 1 = n /\ Len(log') # 0
        BY <1>1
      <3>. QED BY <1>1, <2>1, <2>2, <3>1
    <2>. QED BY <1>2, <1>3, <2>1, <2>3 DEF Serial, Fresh, OwnLast, LastSaid, SameHistory, View, Unwritten,
                                           InAgent, SavesFirst
  <1>4. CASE pc[t] = "saveUser" /\ ~SavesFirst(t)
    <2>1. pc'[t] = "agent" /\ BeingSaved(t) = Says(t, "user") /\ ctx'[t] = Append(ctx[t], Says(t, "user"))
      BY <1>0, <1>2, <1>4 DEF AfterSave, BeingSaved, Save, StartAfterSave, AgentStarts
    <2>2. \A i \in 1..n : log[i].turn # t
      BY <1>4 DEF Serial, Fresh, Unwritten
    <2>3. ASSUME errors = 0, NEW k \in Nat, k = n PROVE GivenAndOwn(t, k)'
      <3>1. ctx[t] = log
        BY <1>4, <2>3 DEF Serial, SameHistory
      <3>2. Len(ctx'[t]) = k + 1 /\ ctx'[t][k + 1] = Says(t, "user") /\ \A i \in 1..k : ctx'[t][i] = log[i]
        BY <1>0, <2>1, <2>3, <3>1
      <3>3. \A i \in (k + 1)..(k + 1) : i = k + 1
        BY <2>3
      <3>4. /\ Len(log') = k + 1 /\ k \in 0..Len(log') /\ k < k + 1 /\ log'[k + 1].turn = t
            /\ \A i \in 1..k : log'[i] = log[i] /\ log[i].turn # t
        BY <1>1, <2>2, <2>3
      <3>. QED BY <3>2, <3>3, <3>4 DEF GivenAndOwn, Says
    <2>4. n \in 0..Len(log') /\ n \in Nat
      BY <1>1
    <2>. QED BY <1>2, <1>4, <2>1, <2>3, <2>4 DEF Serial, Fresh, OwnLast, LastSaid, SameHistory, View, Unwritten
  <1>5. CASE pc[t] # "saveUser"
    <2>1. /\ pc'[t] \in {"tools", "agent", "leaving"} /\ ctx' = ctx /\ InAgent(t)
          /\ BeingSaved(t) = ctx[t][Len(ctx[t])]
      BY <1>0, <1>2, <1>5 DEF AfterSave, BeingSaved, Save, StartAfterSave, Saving, InAgent
    <2>2. ASSUME errors = 0, NEW k \in 0..n, GivenAndOwn(t, k) PROVE GivenAndOwn(t, k)' /\ k \in 0..Len(log')
      <3>1. k \in 0..Len(log') /\ \A i \in (k + 1)..Len(log') : i \in (k + 1)..n \/ i = n + 1
        BY <1>1
      <3>2. \A i \in 1..k : i \in 1..n
        BY <1>1
      <3>3. \A i \in (k + 1)..n : i \in 1..n
        BY <1>1
      <3>. QED BY <1>1, <2>1, <2>2, <3>1, <3>2, <3>3 DEF GivenAndOwn
    <2>3. View(t) => View(t)' \/ errors # 0
      BY <2>1, <2>2 DEF View
    <2>. QED BY <1>2, <2>1, <2>3 DEF Serial, Fresh, OwnLast, LastSaid, SameHistory, Unwritten
  <1>. QED BY <1>3, <1>4, <1>5

\* An answer comes right after its call, a cut call before another turn's message.
LEMMA SaveKeepsCalls ==
  ASSUME OneSurface, Typed, Exclusive, \A u \in Turns : Serial(u), Calls, NEW t \in Turns, Save(t)
  PROVE  Calls'
  <1>0. /\ pc \in [Turns -> Places] /\ pc[t] \in Saving
    BY DEF Typed, TypeOK, Save
  <1>. DEFINE n == Len(log)
  <1>1. /\ Len(log') = n + 1 /\ n \in Nat /\ log'[n + 1] = BeingSaved(t)
        /\ \A i \in 1..n : log'[i] = log[i]
        /\ BeingSaved(t).turn = t /\ BeingSaved(t) \in Message
    BY SaveAppends DEF Serial
  <1>2. UNCHANGED <<surface, errors>> /\ pc'[t] = AfterSave(t) /\ \A u \in Turns \ {t} : pc'[u] = pc[u]
    BY <1>0 DEF Save, Goto
  <1>3. BeingSaved(t).kind = "toolUse" => pc[t] = "saveUse" /\ pc'[t] = "tools" /\ surface[t] # "discord"
    <2>1. pc[t] # "saveUse" => BeingSaved(t).kind \in {"user", "toolResult", "reply"}
      BY <1>0, SavedIsOwn DEF Says, Serial, Saving
    <2>2. pc[t] = "saveUse" => pc'[t] = "tools" /\ surface[t] # "discord"
      BY <1>2 DEF AfterSave, Serial, LastSaid
    <2>. QED BY <2>1, <2>2
  <1>4. \A u \in Turns : Busy(u) => u = t
    BY <1>0, OneAtATime DEF Busy, Running
  <1>5. NoDiscordCalls'
    BY <1>1, <1>2, <1>3 DEF Calls, NoDiscordCalls
  <1>6. OpenCall'
    BY <1>1, <1>2, <1>3 DEF OpenCall, Answering
  <1>7. ASSUME errors = 0, NEW i \in 1..Len(log'), log'[i].kind = "toolUse"
        PROVE  \/ i = Len(log') \/ log'[i + 1] = Says(log'[i].turn, "toolResult")
               \/ log'[i + 1].turn # log'[i].turn /\ pc'[log'[i].turn] \in {"leaving", "done"}
    <2>1. CASE i = n + 1
      BY <1>1, <2>1
    <2>2. CASE i < n
      <3>1. i \in 1..n /\ i + 1 \in 1..n /\ log'[i] = log[i] /\ log'[i + 1] = log[i + 1]
        BY <1>1, <2>2
      <3>2. \/ log[i + 1] = Says(log[i].turn, "toolResult")
            \/ log[i + 1].turn # log[i].turn /\ pc[log[i].turn] \in {"leaving", "done"}
        BY <1>1, <1>7, <2>2, <3>1 DEF Calls, OnlyCutTails
      <3>3. pc[log[i].turn] \in {"leaving", "done"} => pc'[log[i].turn] \in {"leaving", "done"}
        BY <1>0, <1>2, <3>1, LogTyped DEF Saving
      <3>. QED BY <3>1, <3>2, <3>3
    <2>3. CASE i = n
      <3>1. n \in 1..n /\ log # << >> /\ log'[i] = log[n] /\ log[n].turn \in Turns
        BY <1>1, <2>3, LogTyped
      <3>2. pc[log[n].turn] \in Answering
        BY <1>7, <2>3, <3>1 DEF Calls, OpenCall
      <3>3. CASE log[n].turn = t
        <4>1. pc[t] = "saveResult"
          BY <1>0, <3>2, <3>3 DEF Answering, Saving
        <4>2. BeingSaved(t) = Says(t, "toolResult")
          BY <1>0, <4>1, SavedIsOwn DEF Serial
        <4>. QED BY <1>1, <2>3, <3>1, <3>3, <4>2
      <3>4. CASE log[n].turn # t
        <4>1. pc[log[n].turn] = "done"
          BY <1>4, <3>1, <3>2, <3>4 DEF Answering, Busy, Running, Saving
        <4>. QED BY <1>1, <1>2, <2>3, <3>1, <3>4, <4>1
      <3>. QED BY <3>3, <3>4
    <2>. QED BY <1>1, <2>1, <2>2, <2>3
  <1>8. OnlyCutTails'
    BY <1>2, <1>7 DEF OnlyCutTails
  <1>. QED BY <1>5, <1>6, <1>8 DEF Calls

\* After a failure of the store nothing is promised of what agents see.
LEMMA SaveFailsKeeps ==
  ASSUME Typed, Exclusive, \A u \in Turns : Serial(u), Calls, NEW t \in Turns, SaveFails(t)
  PROVE  (\A u \in Turns : Serial(u)') /\ Calls'
  <1>0. /\ pc \in [Turns -> Places] /\ ctx \in [Turns -> Seq(Message)] /\ errors \in Nat
        /\ pc[t] \in Saving
    BY SessionAssumption DEF Typed, TypeOK, SaveFails
  <1>1. /\ UNCHANGED <<surface, log>> /\ errors' # 0 /\ pc'[t] \in {"tools", "agent", "leaving"}
        /\ \A u \in Turns \ {t} : pc'[u] = pc[u] /\ ctx'[u] = ctx[u]
        /\ pc[t] = "saveResult" => pc'[t] = "agent"
    BY <1>0 DEF SaveFails, StartAfterSave, AgentStarts, Goto, AfterSave, Saving
  <1>2. ASSUME NEW u \in Turns \ {t} PROVE Serial(u)'
    BY <1>1, <1>2 DEF Serial, Fresh, OwnLast, LastSaid, Unwritten, SavesFirst
  <1>3. Serial(t)'
    BY <1>1 DEF Serial, Fresh, OwnLast, LastSaid, Unwritten, SavesFirst
  <1>4. Calls'
    BY <1>1 DEF Calls, OnlyCutTails, NoDiscordCalls
  <1>. QED BY <1>2, <1>3, <1>4

\* The agent adds to its own conversation.
LEMMA SaidKeeps ==
  ASSUME Typed, Exclusive, \A u \in Turns : Serial(u), Calls, NEW t \in Turns,
         AgentCallsTools(t) \/ ToolsReturn(t) \/ AgentReplies(t)
  PROVE  (\A u \in Turns : Serial(u)') /\ Calls'
  <1>0. /\ pc \in [Turns -> Places] /\ ctx \in [Turns -> Seq(Message)]
    BY DEF Typed, TypeOK
  <1>1. PICK kind \in {"toolUse", "toolResult", "reply"} :
          /\ Said(t, kind) /\ pc[t] \in {"agent", "tools"}
          /\ pc'[t] \in {"tools", "agent", "saveUse", "saveResult", "saveReply"}
          /\ pc'[t] = "saveUse" => kind = "toolUse" /\ surface[t] # "discord"
          /\ pc'[t] = "saveResult" => kind = "toolResult" /\ surface[t] # "discord"
          /\ pc'[t] = "saveReply" => kind = "reply"
          /\ pc[t] = "tools" => pc'[t] = "saveResult" \/ surface[t] = "discord"
    BY <1>0 DEF AgentCallsTools, ToolsReturn, AgentReplies, Goto, Persists
  <1>2. UNCHANGED <<surface, log, errors>>
    BY DEF AgentCallsTools, ToolsReturn, AgentReplies
  <1>3. \A u \in Turns \ {t} : pc'[u] = pc[u] /\ ctx'[u] = ctx[u]
    <2>1. \E place : Goto(t, place)
      BY DEF AgentCallsTools, ToolsReturn, AgentReplies
    <2>2. \A u \in Turns \ {t} : pc'[u] = pc[u]
      BY <1>0, <2>1 DEF Goto
    <2>3. \A u \in Turns \ {t} : ctx'[u] = ctx[u]
      BY <1>0, <1>1 DEF Said
    <2>. QED BY <2>2, <2>3
  <1>4. ASSUME NEW u \in Turns \ {t} PROVE Serial(u)'
    BY <1>2, <1>3, <1>4, SerialStays
  <1>5. Serial(t)'
    <2>. DEFINE n == Len(ctx[t])
    <2>1. /\ Len(ctx'[t]) = n + 1 /\ n \in Nat /\ ctx'[t][n + 1] = Says(t, kind)
          /\ \A i \in 1..n : ctx'[t][i] = ctx[t][i]
      BY <1>0, <1>1 DEF Said
    <2>2. LastSaid(t)'
      BY <1>1, <1>2, <2>1 DEF LastSaid
    <2>3. ASSUME errors = 0 PROVE View(t)'
      <3>1. InAgent(t)
        BY <1>1 DEF InAgent
      <3>2. PICK k \in 0..Len(log) : GivenAndOwn(t, k)
        BY <2>3, <3>1 DEF Serial, View
      <3>3. /\ k < n /\ k < n + 1 /\ n + 1 # k + 1
            /\ \A i \in 1..k : i \in 1..n
            /\ \A i \in (k + 1)..(n + 1) : i \in (k + 1)..n \/ i = n + 1
            /\ \A i \in (k + 1)..n : i \in 1..n
        BY <2>1, <3>2 DEF GivenAndOwn
      <3>4. \A i \in 1..k : log[i] = ctx'[t][i] /\ log[i].turn # t
        BY <2>1, <3>2, <3>3 DEF GivenAndOwn
      <3>5. ASSUME NEW i \in (k + 1)..(n + 1)
            PROVE  ctx'[t][i].turn = t /\ (ctx'[t][i].kind = "user" <=> i = k + 1)
        <4>1. CASE i \in (k + 1)..n
          <5>1. ctx[t][i].turn = t /\ (ctx[t][i].kind = "user" <=> i = k + 1)
            BY <3>2, <4>1 DEF GivenAndOwn
          <5>. QED BY <2>1, <3>3, <4>1, <5>1
        <4>2. CASE i = n + 1
          <5>1. Says(t, kind).turn = t /\ Says(t, kind).kind = kind /\ kind # "user"
            BY DEF Says
          <5>2. i # k + 1
            BY <3>3, <4>2
          <5>. QED BY <2>1, <4>2, <5>1, <5>2
        <4>. QED BY <3>3, <4>1, <4>2
      <3>6. GivenAndOwn(t, k)'
        BY <1>2, <2>1, <3>2, <3>3, <3>4, <3>5 DEF GivenAndOwn
      <3>. QED BY <1>2, <3>6 DEF View
    <2>. QED BY <1>1, <1>2, <2>2, <2>3 DEF Serial, Fresh, OwnLast, SameHistory, Unwritten
  <1>6. Calls'
    <2>1. OnlyCutTails' /\ NoDiscordCalls'
      <3>1. \A u \in Turns : pc[u] \in {"leaving", "done"} => pc'[u] \in {"leaving", "done"}
        BY <1>1, <1>3
      <3>. QED BY <1>2, <3>1, LogTyped DEF Calls, OnlyCutTails, NoDiscordCalls
    <2>2. (errors = 0 => OpenCall)'
      <3>. SUFFICES ASSUME errors = 0, log # << >>, log[Len(log)].kind = "toolUse"
                    PROVE  pc'[log[Len(log)].turn] \in Answering
        BY <1>2 DEF OpenCall
      <3>. DEFINE u == log[Len(log)].turn
      <3>1. u \in Turns /\ surface[u] # "discord" /\ pc[u] \in Answering
        BY LogTyped DEF Calls, NoDiscordCalls, OpenCall
      <3>. QED BY <1>1, <1>3, <3>1 DEF Answering
    <2>. QED BY <2>1, <2>2 DEF Calls
  <1>. QED BY <1>4, <1>5, <1>6

LEMMA CrashKeeps ==
  ASSUME Typed, \A u \in Turns : Serial(u), Calls, Crash
  PROVE  (\A u \in Turns : Serial(u)') /\ Calls'
  <1>1. UNCHANGED <<surface, log, ctx, errors>>
        /\ \A u \in Turns : pc'[u] = IF pc[u] = "new" THEN "new" ELSE "done"
    BY DEF Crash, turnVars
  <1>2. ASSUME NEW u \in Turns PROVE Serial(u)'
    BY <1>1 DEF Serial, Fresh, OwnLast, LastSaid, SameHistory, View, Unwritten, InAgent
  <1>3. Calls'
    BY <1>1, CallsStay DEF Answering
  <1>. QED BY <1>2, <1>3

Wholly == Typed /\ Exclusive /\ Calls /\ \A t \in Turns : Serial(t)

LEMMA WhollyInit == Init => Wholly
  <1>. SUFFICES ASSUME Init PROVE Wholly
    OBVIOUS
  <1>1. log = << >> /\ \A t \in Turns : pc[t] = "new"
    BY DEF Init
  <1>2. Calls
    BY <1>1 DEF Calls, OnlyCutTails, NoDiscordCalls, OpenCall
  <1>3. ASSUME NEW t \in Turns PROVE Serial(t)
    BY <1>1 DEF Serial, Fresh, OwnLast, LastSaid, SameHistory, View, InAgent
  <1>. QED BY <1>2, <1>3, TypedInit, ExclusiveInit DEF Wholly

LEMMA WhollyNext == ASSUME TwoOnDiscord, OneSurface, Wholly, [Next]_vars PROVE Wholly'
  <1>. USE DEF Wholly
  <1>1. (Typed /\ Exclusive)'
    BY TypedNext, ExclusiveNext
  <1>2. CASE UNCHANGED vars
    BY <1>1, <1>2 DEF vars, Serial, Fresh, OwnLast, LastSaid, SameHistory, View, Unwritten, InAgent, GivenAndOwn,
                      SavesFirst, Calls, OnlyCutTails, NoDiscordCalls, OpenCall
  <1>3. CASE Crash
    BY <1>1, <1>3, CrashKeeps
  <1>4. ASSUME NEW t \in Turns, Arrive(t) \/ TurnStep(t) \/ WebDrop(t) \/ WebDisconnect(t)
        PROVE  (\A u \in Turns : Serial(u)') /\ Calls'
    <2>1. CASE \/ DiscordMessage(t) \/ DiscordWake(t) \/ DiscordLeave(t) \/ SignalMessage(t) \/ SignalLeave(t)
               \/ WebPeek(t) \/ WebDrop(t) \/ WebEnter(t) \/ WebRefused(t) \/ WebLeave(t) \/ WebDisconnect(t)
               \/ LoadFails(t) \/ AgentGivesNothing(t)
      BY <2>1, AsideSteps, AsideKeeps
    <2>2. CASE Load(t)
      BY <2>2, LoadKeeps
    <2>3. CASE Save(t)
      BY <2>3, SaveKeepsOthers, SaveKeepsOwn, SaveKeepsCalls
    <2>4. CASE SaveFails(t)
      BY <2>4, SaveFailsKeeps
    <2>5. CASE AgentCallsTools(t) \/ ToolsReturn(t) \/ AgentReplies(t)
      BY <2>5, SaidKeeps
    <2>. QED BY <1>4, <2>1, <2>2, <2>3, <2>4, <2>5 DEF Arrive, TurnStep
  <1>. QED BY <1>1, <1>2, <1>3, <1>4 DEF Next

LEMMA AlwaysWhole == ASSUME TwoOnDiscord, OneSurface PROVE Spec => []Wholly
  <1>1. Wholly /\ [Next]_vars => Wholly'
    BY WhollyNext
  <1>. QED BY <1>1, WhollyInit, PTL DEF Spec

(* While a turn works, the log is the history it was given and then what   *)
(* it saved itself (conversation.py, chat.py, bot.py).                     *)
THEOREM TurnsAreSerial == ASSUME TwoOnDiscord, OneSurface PROVE Spec => []SerialView
  <1>1. Wholly => SerialView
    BY DEF Wholly, Serial, View, SerialView
  <1>. QED BY <1>1, AlwaysWhole, PTL

(* A stored call is answered at once, or its turn ended there (agent.py).  *)
THEOREM CutsAreTails == ASSUME TwoOnDiscord, OneSurface PROVE Spec => []OnlyCutTails
  <1>1. Wholly => OnlyCutTails
    BY DEF Wholly, Calls
  <1>. QED BY <1>1, AlwaysWhole, PTL

(* The message a bot drops when it loads is the one it just saved, also    *)
(* when the store fails now and then (conversation.py:124-131).            *)
THEOREM DropsAreOwn == ASSUME TwoOnDiscord, OneSurface PROVE Spec => DropsOnlyItsOwn
  <1>1. Wholly /\ [Next]_vars
        => [\A t \in Turns : Load(t) /\ DropsTail(t) => log[Len(log)].turn = t]_vars
    <2>. SUFFICES ASSUME Wholly, NEW t \in Turns, Load(t), DropsTail(t) PROVE log[Len(log)].turn = t
      OBVIOUS
    <2>1. pc[t] = "load" /\ SavesFirst(t)
      BY DEF Load, DropsTail
    <2>2. log[Len(log)] = Says(t, "user")
      BY <2>1 DEF Wholly, Serial, OwnLast
    <2>. QED BY <2>2 DEF Says
  <1>. QED BY <1>1, AlwaysWhole, PTL DEF Spec, DropsOnlyItsOwn
=============================================================================

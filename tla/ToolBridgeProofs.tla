-------------------------- MODULE ToolBridgeProofs --------------------------
(***************************************************************************)
(* What holds of an execution for any number of calls and tools, any       *)
(* limits and any size of the pipe.                                        *)
(***************************************************************************)
EXTENDS ToolBridge, TLAPS

LEMMA Products == ASSUME NEW a \in Nat, NEW b \in Nat, NEW p \in Nat \ {0}
                  PROVE  /\ (a + 1) * p = a * p + p /\ a * p \in Nat
                         /\ (a + 1) * p <= b * p => a + 1 <= b
  <1>1. /\ (a + 1) * p = a * p + p /\ a * p \in Nat
    BY SMT
  <1>2. ASSUME a + 1 > b PROVE (a + 1) * p > b * p
    <2>1. PICK d \in Nat : a + 1 = b + d /\ d >= 1
      BY <1>2, a + 1 = b + (a + 1 - b)
    <2>2. (b + d) * p = b * p + d * p /\ d * p >= p /\ d * p \in Nat /\ b * p \in Nat
      BY <2>1, SMT
    <2>. QED BY <2>1, <2>2
  <1>3. (a + 1) * p \in Nat /\ b * p \in Nat
    BY SMT
  <1>. QED BY <1>1, <1>2, <1>3

\* A line whose parts were all written is one of the lines written.
LEMMA Lines ==
    ASSUME taken \in Nat, replies \in Seq(Calls)
    PROVE  /\ Written \in Nat /\ Consumed \in Nat /\ Parts \in Nat \ {0}
           /\ Consumed + Parts <= Written => taken + 1 \in 1..Len(replies)
           /\ Consumed <= Written => taken <= Len(replies)
  <1>1. /\ Written \in Nat /\ Consumed \in Nat /\ Parts \in Nat \ {0}
        /\ Consumed + Parts <= Written => taken + 1 \in 1..Len(replies)
    BY Products, BridgeAssumption DEF Written, Consumed
  <1>2. ASSUME Consumed <= Written, taken # 0 PROVE taken <= Len(replies)
    <2>1. taken - 1 \in Nat /\ (taken - 1) + 1 = taken /\ Len(replies) \in Nat
      BY <1>2
    <2>2. taken * Parts <= Len(replies) * Parts
      BY <1>2 DEF Written, Consumed
    <2>. QED BY <2>1, <2>2, Products, BridgeAssumption
  <1>. QED BY <1>1, <1>2

LEMMA LinesGrow ==
    ASSUME taken \in Nat, replies \in Seq(Calls)
    PROVE  /\ taken' = taken => Consumed' = Consumed
           /\ taken' = taken + 1 => Consumed' = Consumed + Parts
           /\ replies' = replies => Written' = Written
           /\ \A c \in Calls : replies' = Append(replies, c) => Written' = Written + Parts
  BY Products, BridgeAssumption DEF Written, Consumed

-----------------------------------------------------------------------------
(* Types                                                                   *)

\* While a tool runs or its answer is being written, the last line read is its call.
Answering ==
    host \in {"run", "reply"} => nread \in 1..Len(stdout) /\ stdout[nread].kind = "call"

LEMMA AnsweringNext == TypeOK /\ Answering /\ [Next]_vars => Answering'
  <1>. SUFFICES ASSUME TypeOK, Answering, [Next]_vars PROVE Answering'
    OBVIOUS
  <1>1. CASE ReadMessage
    <2>1. nread + 1 \in 1..Len(stdout) /\ nread' = nread + 1 /\ stdout' = stdout
      BY <1>1 DEF TypeOK, ReadMessage
    <2>2. stdout[nread + 1].kind # "call" => host' \notin {"run", "reply"}
      BY <1>1 DEF ReadMessage, Kill
    <2>. QED BY <2>1, <2>2 DEF Answering
  <1>2. ASSUME NEW m, Write(m), host' = host, nread' = nread PROVE Answering'
    <2>1. stdout' = Append(stdout, m) /\ stdout \in Seq(Messages)
      BY <1>2 DEF Write, TypeOK
    <2>2. nread \in 1..Len(stdout) => nread \in 1..Len(stdout') /\ stdout'[nread] = stdout[nread]
      BY <2>1
    <2>. QED BY <1>2, <2>2 DEF Answering
  <1>3. CASE \/ \E c \in Calls, t \in Tools : CallTool(c, t)
             \/ \E kind \in {"output", "number"} : Say(kind)
    BY <1>2, <1>3 DEF CallTool, Say, counterVars
  <1>4. CASE ToolReturns
    BY <1>4 DEF Answering, ToolReturns, scriptVars, counterVars
  <1>5. CASE \/ \E c \in Calls : ReadLine(c)
             \/ \E n \in 1..(Written - received) : Chunk(n)
             \/ CloseStdout
             \/ \E code \in {"exit0", "exit1"} : Exit(code)
             \/ UNCHANGED vars
    BY <1>5 DEF Answering, ReadLine, Chunk, CloseStdout, Exit, vars, scriptVars, counterVars
  <1>6. CASE Refuse \/ ExecuteCode \/ ExecuteConditionCode \/ Reply \/ Timeout
             \/ EndOfOutput \/ Finish \/ Cancel
    <2>1. host' \notin {"run", "reply"}
      BY <1>6 DEF Refuse, ExecuteCode, ExecuteConditionCode, Spawn, Reply, Timeout, Kill,
                  EndOfOutput, Finish, Cancel
    <2>. QED BY <2>1 DEF Answering
  <1>. QED BY <1>1, <1>3, <1>4, <1>5, <1>6 DEF Next, Script, Host, RefuseCode, RefuseWorkspace, ExecuteCode,
                              ExecuteCustomToolCode

LEMMA TypeInit == Init => TypeOK /\ Answering
  <1>. SUFFICES ASSUME Init PROVE TypeOK /\ Answering
    OBVIOUS
  <1>1. Written = 0 /\ Consumed = 0
    BY BridgeAssumption DEF Init, Written, Consumed
  <1>2. stdout \in Seq(Messages) /\ readers \in Seq(Calls) /\ replies \in Seq(Calls)
    BY DEF Init
  <1>3. nread \in 0..Len(stdout) /\ received \in Consumed..Written /\ taken \in Nat
    BY <1>1 DEF Init
  <1>4. /\ call \in [Calls -> {"new", "asked", "reading", "returned"}]
        /\ got \in [Calls -> Calls \cup {None}]
        /\ per_tool_counts \in [Tools -> Nat] /\ ran \in [Tools -> Nat]
    BY DEF Init
  <1>5. TypeOK
    BY <1>2, <1>3, <1>4 DEF Init, TypeOK
  <1>. QED BY <1>5 DEF Init, Answering

LEMMA TypeNext == TypeOK /\ Answering /\ [Next]_vars => TypeOK'
  <1>. SUFFICES ASSUME TypeOK, Answering, [Next]_vars PROVE TypeOK'
    OBVIOUS
  <1>. Written \in Nat /\ Consumed \in Nat /\ Parts \in Nat \ {0}
    BY Lines DEF TypeOK
  <1>0. /\ taken' = taken => Consumed' = Consumed
        /\ replies' = replies => Written' = Written
    BY LinesGrow DEF TypeOK
  <1>1. CASE UNCHANGED vars
    BY <1>0, <1>1 DEF TypeOK, vars, scriptVars, counterVars
  <1>2. CASE Refuse
    BY <1>0, <1>2 DEF TypeOK, Refuse, scriptVars, counterVars
  <1>3. CASE ExecuteCode \/ ExecuteConditionCode
    BY <1>0, <1>3, BridgeAssumption DEF TypeOK, ExecuteCode, ExecuteConditionCode, Spawn, counterVars
  <1>4. ASSUME NEW c \in Calls, NEW t \in Tools, CallTool(c, t) PROVE TypeOK'
    <2>. DEFINE m == [kind |-> "call", call |-> c, tool |-> t]
    <2>1. m \in Messages
      BY DEF Messages
    <2>2. stdout' = Append(stdout, m)
      BY <1>4 DEF CallTool, Write
    <2>3. stdout' \in Seq(Messages) /\ Len(stdout') = Len(stdout) + 1
      BY <2>1, <2>2 DEF TypeOK
    <2>. QED BY <1>0, <1>4, <2>3 DEF TypeOK, CallTool, counterVars
  <1>5. ASSUME NEW c \in Calls, ReadLine(c) PROVE TypeOK'
    <2>1. Consumed <= received /\ received <= Written /\ received \in Nat
      BY DEF TypeOK
    <2>2. CASE Complete(received) /\ TakeLine(c) /\ UNCHANGED readers
      <3>1. taken + 1 \in 1..Len(replies)
        BY <2>1, <2>2, Lines DEF TypeOK, Complete
      <3>2. replies[taken + 1] \in Calls
        BY <3>1 DEF TypeOK
      <3>3. received \in Consumed'..Written'
        BY <1>0, <1>5, <2>1, <2>2, LinesGrow DEF TypeOK, ReadLine, TakeLine, Complete
      <3>. QED BY <1>5, <2>2, <3>2, <3>3 DEF TypeOK, ReadLine, TakeLine, counterVars
    <2>3. CASE /\ readers' = Append(readers, c)
               /\ call' = [call EXCEPT ![c] = "reading"]
               /\ UNCHANGED <<taken, got>>
      <3>1. readers' \in Seq(Calls)
        BY <2>3 DEF TypeOK
      <3>. QED BY <1>0, <1>5, <2>3, <3>1 DEF TypeOK, ReadLine, counterVars
    <2>. QED BY <1>5, <2>2, <2>3 DEF ReadLine
  <1>6. ASSUME NEW n \in 1..(Written - received), Chunk(n) PROVE TypeOK'
    <2>1. /\ Consumed <= received /\ received + n <= Written
          /\ received \in Nat /\ received + n \in Nat /\ n \in Nat
      BY <1>6 DEF TypeOK, Chunk
    <2>2. Head(readers) \in Calls /\ Tail(readers) \in Seq(Calls)
      BY <1>6 DEF TypeOK, Chunk
    <2>3. CASE Complete(received + n) /\ TakeLine(Head(readers)) /\ readers' = Tail(readers)
      <3>1. taken + 1 \in 1..Len(replies)
        BY <2>1, <2>3, Lines DEF TypeOK, Complete
      <3>2. replies[taken + 1] \in Calls
        BY <3>1 DEF TypeOK
      <3>3. received' \in Consumed'..Written'
        BY <1>0, <1>6, <2>1, <2>3, LinesGrow DEF TypeOK, Chunk, TakeLine, Complete
      <3>. QED BY <1>6, <2>2, <2>3, <3>2, <3>3 DEF TypeOK, Chunk, TakeLine, counterVars
    <2>4. CASE /\ readers' = Append(Tail(readers), Head(readers))
               /\ UNCHANGED <<taken, got, call>>
      <3>1. readers' \in Seq(Calls)
        BY <2>2, <2>4 DEF TypeOK
      <3>2. received' \in Consumed'..Written'
        BY <1>0, <1>6, <2>1, <2>4 DEF TypeOK, Chunk
      <3>. QED BY <1>6, <2>4, <3>1, <3>2 DEF TypeOK, Chunk, counterVars
    <2>. QED BY <1>6, <2>3, <2>4 DEF Chunk
  <1>7. ASSUME NEW kind \in {"output", "number"}, Say(kind) PROVE TypeOK'
    <2>1. [kind |-> kind] \in Messages
      BY DEF Messages
    <2>2. stdout' = Append(stdout, [kind |-> kind])
      BY <1>7 DEF Say, Write
    <2>3. stdout' \in Seq(Messages) /\ Len(stdout') = Len(stdout) + 1
      BY <2>1, <2>2 DEF TypeOK
    <2>. QED BY <1>0, <1>7, <2>3 DEF TypeOK, Say, counterVars
  <1>8. CASE CloseStdout \/ \E code \in {"exit0", "exit1"} : Exit(code)
    BY <1>0, <1>8 DEF TypeOK, CloseStdout, Exit, counterVars
  <1>9. CASE ReadMessage
    <2>1. nread + 1 \in 1..Len(stdout)
      BY <1>9 DEF TypeOK, ReadMessage
    <2>2. CASE Kill /\ UNCHANGED <<tool_call_count, per_tool_counts, ran>>
      BY <1>0, <1>9, <2>1, <2>2 DEF TypeOK, ReadMessage, Kill
    <2>3. CASE stdout[nread + 1].kind = "call" /\ HandleCall(stdout[nread + 1].tool)
      <3>1. stdout[nread + 1] \in Messages
        BY <2>1 DEF TypeOK
      <3>2. stdout[nread + 1].tool \in Tools
        BY <3>1, <2>3 DEF Messages
      <3>. DEFINE t == stdout[nread + 1].tool
      <3>3. /\ proc' \in {proc, "killed"} /\ host' \in {"wait", "reply", "run"}
            /\ error' \in {error, TRUE}
            /\ tool_call_count' = tool_call_count + 1
            /\ \/ per_tool_counts' = per_tool_counts
               \/ per_tool_counts' = [per_tool_counts EXCEPT ![t] = @ + 1]
            /\ ran' = ran \/ ran' = [ran EXCEPT ![t] = @ + 1]
        BY <2>3 DEF HandleCall, Kill, Count
      <3>4. per_tool_counts' \in [Tools -> Nat] /\ ran' \in [Tools -> Nat]
        <4>1. per_tool_counts \in [Tools -> Nat] /\ ran \in [Tools -> Nat]
          BY DEF TypeOK
        <4>. HIDE DEF t
        <4>. QED BY <3>2, <3>3, <4>1 DEF t
      <3>5. received' \in Consumed'..Written' /\ nread' \in 0..Len(stdout')
        BY <1>0, <1>9, <2>1 DEF TypeOK, ReadMessage
      <3>6. UNCHANGED <<batch, allowed, stdout, closed, stderr, call, got, readers,
                        received, taken, replies, success>>
        BY <1>9 DEF ReadMessage
      <3>7. /\ proc' \in {"none", "running", "exit0", "exit1", "killed"}
            /\ tool_call_count' \in Nat
        BY <3>3, SMT DEF TypeOK
      <3>8. error' \in BOOLEAN
        BY <3>3, Zenon DEF TypeOK
      <3>. HIDE DEF t
      <3>. QED BY <3>3, <3>4, <3>5, <3>6, <3>7, <3>8 DEF TypeOK
    <2>4. CASE UNCHANGED <<host, proc, error, tool_call_count, per_tool_counts, ran>>
      BY <1>0, <1>9, <2>1, <2>4 DEF TypeOK, ReadMessage
    <2>. QED BY <1>9, <2>2, <2>3, <2>4 DEF ReadMessage
  <1>10. CASE ToolReturns \/ EndOfOutput \/ Cancel
    BY <1>0, <1>10 DEF TypeOK, ToolReturns, EndOfOutput, Cancel, scriptVars, counterVars
  <1>11. CASE Reply
    <2>1. stdout[nread].call \in Calls
      <3>1. stdout[nread] \in Messages /\ stdout[nread].kind = "call"
        BY <1>11 DEF Reply, Answering, TypeOK
      <3>. QED BY <3>1 DEF Messages
    <2>2. CASE replies' = Append(replies, stdout[nread].call) /\ UNCHANGED error
      <3>1. replies' \in Seq(Calls) /\ Len(replies') = Len(replies) + 1
        BY <2>1, <2>2 DEF TypeOK
      <3>2. received' \in Consumed'..Written'
        BY <1>0, <1>11, <2>1, <2>2, LinesGrow DEF TypeOK, Reply, scriptVars
      <3>. QED BY <1>11, <2>2, <3>1, <3>2 DEF TypeOK, Reply, scriptVars, counterVars
    <2>. QED BY <1>0, <1>11, <2>2 DEF TypeOK, Reply, scriptVars, counterVars
  <1>12. CASE Timeout
    BY <1>0, <1>12 DEF TypeOK, Timeout, Kill, counterVars
  <1>13. CASE Finish
    BY <1>0, <1>13 DEF TypeOK, Finish, scriptVars, counterVars
  <1>. QED BY <1>1, <1>2, <1>3, <1>4, <1>5, <1>6, <1>7, <1>8, <1>9, <1>10, <1>11,
              <1>12, <1>13 DEF Next, Script, Host, RefuseCode, RefuseWorkspace, ExecuteCode,
                              ExecuteCustomToolCode

-----------------------------------------------------------------------------
(* Answers                                                                 *)

\* Each call is in one line of stdout.
OneRequest ==
    /\ \A i, j \in 1..Len(stdout) :
          /\ stdout[i].kind = "call" /\ stdout[j].kind = "call"
          /\ stdout[i].call = stdout[j].call
          => i = j
    /\ \A i \in 1..Len(stdout) : stdout[i].kind = "call" => call[stdout[i].call] # "new"

\* Each answer is to a request that was read, and not to the one in hand; no
\* two are to the same.
OneAnswer ==
    /\ \A k \in 1..Len(replies) : \E i \in 1..nread :
          /\ stdout[i].kind = "call" /\ stdout[i].call = replies[k]
          /\ host \in {"run", "reply"} => i < nread
    /\ \A j, k \in 1..Len(replies) : replies[j] = replies[k] => j = k

\* What a call took is among the lines taken.
TakenLines ==
    \A c \in Calls :
        /\ got[c] # None <=> call[c] = "returned"
        /\ got[c] # None => \E k \in 1..taken : replies[k] = got[c]

Waiting ==
    /\ \A i \in 1..Len(readers) : call[readers[i]] = "reading"
    /\ \A i, j \in 1..Len(readers) : readers[i] = readers[j] => i = j

BridgeInv == TypeOK /\ Answering /\ OneRequest /\ OneAnswer /\ TakenLines /\ Waiting

\* The actions that move no line and no call.
Aside ==
    \/ Refuse \/ ExecuteCode \/ ExecuteConditionCode \/ CloseStdout
    \/ \E code \in {"exit0", "exit1"} : Exit(code)
    \/ ToolReturns \/ Timeout \/ EndOfOutput \/ Finish \/ Cancel \/ UNCHANGED vars

LEMMA AsideKeeps ==
    ASSUME TypeOK, Aside
    PROVE  /\ UNCHANGED <<stdout, call, got, readers, received, taken, nread, replies, batch>>
           /\ host' \in {"run", "reply"} => host \in {"run", "reply"}
  BY DEF Aside, Refuse, ExecuteCode, ExecuteConditionCode, Spawn, CloseStdout, Exit, ToolReturns,
         Timeout, Kill, EndOfOutput, Finish, Cancel, vars, scriptVars, counterVars

LEMMA StepCases ==
    ASSUME [Next]_vars
    PROVE  \/ Aside \/ ReadMessage \/ Reply
           \/ \E c \in Calls, t \in Tools : CallTool(c, t)
           \/ \E c \in Calls : ReadLine(c)
           \/ \E n \in 1..(Written - received) : Chunk(n)
           \/ \E kind \in {"output", "number"} : Say(kind)
  BY DEF Next, Script, Host, Aside, RefuseCode, RefuseWorkspace, ExecuteCode, ExecuteCustomToolCode

\* Both ways of taking a line: the call had none, and the line is the next.
LEMMA Taking ==
    ASSUME TypeOK, [Next]_vars, NEW c \in Calls, NEW n \in Nat, Complete(n), TakeLine(c),
           n <= Written
    PROVE  /\ taken + 1 \in 1..Len(replies) /\ replies[taken + 1] \in Calls
           /\ taken' = taken + 1
           /\ got' = [got EXCEPT ![c] = replies[taken + 1]]
           /\ call' = [call EXCEPT ![c] = "returned"]
  <1>1. taken + 1 \in 1..Len(replies)
    BY Lines DEF TypeOK, Complete
  <1>. QED BY <1>1 DEF TypeOK, TakeLine

LEMMA OneRequestNext == BridgeInv /\ [Next]_vars => OneRequest'
  <1>. SUFFICES ASSUME BridgeInv, [Next]_vars PROVE OneRequest'
    OBVIOUS
  <1>. USE DEF BridgeInv
  <1>1. ASSUME stdout' = stdout,
               \A c \in Calls : call[c] # "new" => call'[c] # "new"
        PROVE  OneRequest'
    <2>1. \A i \in 1..Len(stdout) : stdout[i].kind = "call" => stdout[i].call \in Calls
      <3>1. \A i \in 1..Len(stdout) : stdout[i] \in Messages
        BY DEF TypeOK
      <3>. QED BY <3>1 DEF Messages
    <2>. QED BY <1>1, <2>1 DEF OneRequest
  <1>2. CASE Aside
    BY <1>1, <1>2, AsideKeeps
  <1>3. CASE ReadMessage \/ Reply
    BY <1>1, <1>3 DEF ReadMessage, Reply, scriptVars
  <1>4. ASSUME NEW c \in Calls, ReadLine(c) PROVE OneRequest'
    BY <1>1, <1>4 DEF ReadLine, TakeLine, TypeOK
  <1>5. ASSUME NEW n \in 1..(Written - received), Chunk(n) PROVE OneRequest'
    <2>1. Head(readers) \in Calls
      BY <1>5 DEF Chunk, TypeOK
    <2>. QED BY <1>1, <1>5, <2>1 DEF Chunk, TakeLine, TypeOK
  <1>6. ASSUME NEW m, stdout' = Append(stdout, m),
               m.kind = "call" => /\ m.call \in Calls /\ call[m.call] = "new"
                                  /\ call' = [call EXCEPT ![m.call] = "asked"],
               m.kind # "call" => call' = call
        PROVE  OneRequest'
    <2>1. /\ stdout \in Seq(Messages) /\ Len(stdout') = Len(stdout) + 1
          /\ stdout'[Len(stdout) + 1] = m
          /\ \A i \in 1..Len(stdout) : stdout'[i] = stdout[i]
      BY <1>6 DEF TypeOK
    <2>2. \A i \in 1..Len(stdout) : stdout[i].kind = "call" => stdout[i].call \in Calls
      <3>1. \A i \in 1..Len(stdout) : stdout[i] \in Messages
        BY DEF TypeOK
      <3>. QED BY <3>1 DEF Messages
    <2>3. \A i \in 1..Len(stdout) : m.kind = "call" /\ stdout[i].kind = "call" => stdout[i].call # m.call
      BY <1>6 DEF OneRequest
    <2>4. \A i \in 1..Len(stdout') : i \in 1..Len(stdout) \/ i = Len(stdout) + 1
      BY <2>1
    <2>5. \A i \in 1..Len(stdout') : stdout'[i].kind = "call" => call'[stdout'[i].call] # "new"
      BY <1>6, <2>1, <2>2, <2>3, <2>4 DEF OneRequest, TypeOK
    <2>. QED BY <2>1, <2>3, <2>4, <2>5 DEF OneRequest
  <1>7. ASSUME NEW c \in Calls, NEW t \in Tools, CallTool(c, t) PROVE OneRequest'
    BY <1>6, <1>7 DEF CallTool, Write
  <1>8. ASSUME NEW kind \in {"output", "number"}, Say(kind) PROVE OneRequest'
    BY <1>6, <1>8 DEF Say, Write
  <1>. QED BY <1>2, <1>3, <1>4, <1>5, <1>7, <1>8, StepCases

LEMMA OneAnswerNext == BridgeInv /\ [Next]_vars => OneAnswer'
  <1>. SUFFICES ASSUME BridgeInv, [Next]_vars PROVE OneAnswer'
    OBVIOUS
  <1>. USE DEF BridgeInv
  <1>1. ASSUME UNCHANGED <<stdout, replies, nread>>,
               host' \in {"run", "reply"} => host \in {"run", "reply"}
        PROVE  OneAnswer'
    BY <1>1 DEF OneAnswer
  <1>2. CASE Aside
    BY <1>1, <1>2, AsideKeeps
  <1>3. CASE \/ \E c \in Calls : ReadLine(c)
             \/ \E n \in 1..(Written - received) : Chunk(n)
    BY <1>1, <1>3 DEF ReadLine, Chunk, counterVars
  <1>4. ASSUME NEW m, stdout' = Append(stdout, m), UNCHANGED <<replies, nread, host>>
        PROVE  OneAnswer'
    <2>1. nread \in 0..Len(stdout) /\ \A i \in 1..Len(stdout) : stdout'[i] = stdout[i]
      BY <1>4 DEF TypeOK
    <2>2. \A i \in 1..nread : stdout'[i] = stdout[i]
      BY <2>1
    <2>. QED BY <1>4, <2>2 DEF OneAnswer
  <1>5. CASE \/ \E c \in Calls, t \in Tools : CallTool(c, t)
             \/ \E kind \in {"output", "number"} : Say(kind)
    BY <1>4, <1>5 DEF CallTool, Say, Write, counterVars
  <1>6. CASE ReadMessage
    <2>1. nread' = nread + 1 /\ stdout' = stdout /\ replies' = replies /\ nread \in Nat
      BY <1>6 DEF ReadMessage, TypeOK
    <2>2. \A i \in 1..nread : i \in 1..nread' /\ i < nread'
      BY <2>1
    <2>. QED BY <2>1, <2>2 DEF OneAnswer
  <1>7. CASE Reply
    <2>1. CASE replies' = replies
      <3>1. host' \notin {"run", "reply"}
        BY <1>7 DEF Reply
      <3>. QED BY <1>7, <2>1, <3>1 DEF Reply, OneAnswer, scriptVars, counterVars
    <2>2. CASE replies' = Append(replies, stdout[nread].call)
      <3>. DEFINE r == stdout[nread].call
      <3>1. /\ host = "reply" /\ stdout' = stdout /\ nread' = nread
            /\ host' \notin {"run", "reply"}
        BY <1>7 DEF Reply, scriptVars, counterVars
      <3>2. nread \in 1..Len(stdout) /\ stdout[nread].kind = "call"
        BY <3>1 DEF Answering
      <3>3. /\ Len(replies') = Len(replies) + 1 /\ replies'[Len(replies) + 1] = r
            /\ \A k \in 1..Len(replies) : replies'[k] = replies[k]
        BY <2>2 DEF TypeOK
      <3>4. \A k \in 1..Len(replies') : k \in 1..Len(replies) \/ k = Len(replies) + 1
        BY <3>3 DEF TypeOK
      <3>5. ASSUME NEW k \in 1..Len(replies) PROVE replies[k] # r
        <4>1. PICK i \in 1..nread : /\ stdout[i].kind = "call" /\ stdout[i].call = replies[k]
                                    /\ i < nread
          BY <3>1 DEF OneAnswer
        <4>2. i \in 1..Len(stdout) /\ i # nread
          BY <3>2, <4>1
        <4>. QED BY <3>2, <4>1, <4>2 DEF OneRequest
      <3>6. \A j, k \in 1..Len(replies') : replies'[j] = replies'[k] => j = k
        BY <3>3, <3>4, <3>5 DEF OneAnswer
      <3>7. \A k \in 1..Len(replies') : \E i \in 1..nread :
               stdout[i].kind = "call" /\ stdout[i].call = replies'[k]
        BY <3>2, <3>3, <3>4 DEF OneAnswer, TypeOK
      <3>. QED BY <3>1, <3>6, <3>7 DEF OneAnswer
    <2>. QED BY <1>7, <2>1, <2>2 DEF Reply
  <1>. QED BY <1>2, <1>3, <1>5, <1>6, <1>7, StepCases

LEMMA WaitingNext == BridgeInv /\ [Next]_vars => Waiting'
  <1>. SUFFICES ASSUME BridgeInv, [Next]_vars PROVE Waiting'
    OBVIOUS
  <1>. USE DEF BridgeInv
  <1>1. CASE Aside
    BY <1>1, AsideKeeps DEF Waiting
  <1>2. CASE ReadMessage \/ Reply \/ \E kind \in {"output", "number"} : Say(kind)
    BY <1>2 DEF Waiting, ReadMessage, Reply, Say, scriptVars
  <1>3. ASSUME readers' = readers,
               \A c \in Calls : call[c] = "reading" => call'[c] = "reading"
        PROVE  Waiting'
    BY <1>3 DEF Waiting, TypeOK
  <1>4. ASSUME NEW c \in Calls, NEW t \in Tools, CallTool(c, t) PROVE Waiting'
    BY <1>3, <1>4 DEF CallTool, TypeOK
  <1>5. ASSUME NEW c \in Calls, ReadLine(c) PROVE Waiting'
    <2>1. CASE TakeLine(c) /\ UNCHANGED readers
      BY <1>3, <1>5, <2>1 DEF ReadLine, TakeLine, TypeOK
    <2>2. CASE readers' = Append(readers, c) /\ call' = [call EXCEPT ![c] = "reading"]
      <3>1. /\ Len(readers') = Len(readers) + 1 /\ readers'[Len(readers) + 1] = c
            /\ \A i \in 1..Len(readers) : readers'[i] = readers[i] /\ readers[i] \in Calls
        BY <2>2 DEF TypeOK
      <3>2. \A i \in 1..Len(readers') : i \in 1..Len(readers) \/ i = Len(readers) + 1
        BY <3>1 DEF TypeOK
      <3>3. \A i \in 1..Len(readers) : readers[i] # c
        BY <1>5 DEF ReadLine, Waiting
      <3>4. \A i \in 1..Len(readers') : call'[readers'[i]] = "reading"
        BY <2>2, <3>1, <3>2 DEF Waiting, TypeOK
      <3>. QED BY <3>1, <3>2, <3>3, <3>4 DEF Waiting
    <2>. QED BY <1>5, <2>1, <2>2 DEF ReadLine
  <1>6. ASSUME NEW n \in 1..(Written - received), Chunk(n) PROVE Waiting'
    <2>. DEFINE h == Head(readers)
    <2>1. /\ Len(readers) \in Nat \ {0} /\ h = readers[1] /\ h \in Calls
          /\ Len(Tail(readers)) = Len(readers) - 1 /\ Tail(readers) \in Seq(Calls)
          /\ \A i \in 1..(Len(readers) - 1) : Tail(readers)[i] = readers[i + 1]
          /\ \A i \in 1..Len(readers) : readers[i] \in Calls
      BY <1>6 DEF Chunk, TypeOK
    <2>2. \A i \in 1..(Len(readers) - 1) : /\ i + 1 \in 1..Len(readers) /\ 1 \in 1..Len(readers)
                                           /\ i + 1 # 1
      BY <2>1
    <2>3. \A i \in 1..(Len(readers) - 1) : Tail(readers)[i] # h
      BY <2>1, <2>2 DEF Waiting
    <2>4. \A i, j \in 1..(Len(readers) - 1) : Tail(readers)[i] = Tail(readers)[j] => i = j
      BY <2>1, <2>2 DEF Waiting
    <2>5. \A i \in 1..(Len(readers) - 1) : call[Tail(readers)[i]] = "reading"
      BY <2>1, <2>2 DEF Waiting
    <2>6. call[h] = "reading"
      BY <2>1 DEF Waiting
    <2>7. CASE TakeLine(h) /\ readers' = Tail(readers)
      <3>1. call' = [call EXCEPT ![h] = "returned"]
        BY <2>7 DEF TakeLine
      <3>2. \A i \in 1..Len(readers') : i \in 1..(Len(readers) - 1) /\ readers'[i] \in Calls
        BY <2>1, <2>2, <2>7
      <3>. HIDE DEF h
      <3>3. \A i \in 1..Len(readers') : call'[readers'[i]] = "reading"
        BY <2>3, <2>5, <2>7, <3>1, <3>2 DEF TypeOK
      <3>. QED BY <2>4, <2>7, <3>2, <3>3 DEF Waiting
    <2>8. CASE readers' = Append(Tail(readers), h) /\ call' = call
      <3>1. /\ Len(readers') = Len(readers) /\ readers'[Len(readers)] = h
            /\ \A i \in 1..(Len(readers) - 1) : readers'[i] = Tail(readers)[i]
        BY <2>1, <2>8
      <3>2. \A i \in 1..Len(readers') : i \in 1..(Len(readers) - 1) \/ i = Len(readers)
        <4>1. Len(readers') = Len(readers) /\ Len(readers) \in Nat \ {0}
          BY <2>1, <3>1
        <4>. QED BY <4>1
      <3>. HIDE DEF h
      <3>. QED BY <2>3, <2>4, <2>5, <2>6, <2>8, <3>1, <3>2 DEF Waiting
    <2>. QED BY <1>6, <2>7, <2>8 DEF Chunk
  <1>. QED BY <1>1, <1>2, <1>4, <1>5, <1>6, StepCases

\* A call that takes a line had none, and nobody has that answer.
LEMMA FreshAnswer ==
    ASSUME BridgeInv, taken + 1 \in 1..Len(replies)
    PROVE  /\ \A c \in Calls : got[c] # replies[taken + 1]
           /\ replies[taken + 1] # None /\ call[replies[taken + 1]] # "new"
  <1>. USE DEF BridgeInv
  <1>1. replies[taken + 1] \in Calls
    BY DEF TypeOK
  <1>2. replies[taken + 1] # None
    BY <1>1 DEF Calls, None
  <1>3. ASSUME NEW c \in Calls, got[c] = replies[taken + 1] PROVE FALSE
    <2>1. PICK k \in 1..taken : replies[k] = got[c]
      BY <1>2, <1>3 DEF TakenLines
    <2>2. k \in 1..Len(replies) /\ k # taken + 1
      BY <2>1 DEF TypeOK
    <2>. QED BY <1>3, <2>1, <2>2 DEF OneAnswer
  <1>4. PICK i \in 1..nread : stdout[i].kind = "call" /\ stdout[i].call = replies[taken + 1]
    BY DEF OneAnswer
  <1>5. i \in 1..Len(stdout)
    BY <1>4 DEF TypeOK
  <1>. QED BY <1>2, <1>3, <1>4, <1>5 DEF OneRequest

\* What a step means to the calls.
TakeStep(c) ==
    /\ call[c] \in {"asked", "reading"} /\ got[c] = None
    /\ taken + 1 \in 1..Len(replies) /\ taken' = taken + 1
    /\ got' = [got EXCEPT ![c] = replies[taken + 1]]
    /\ call' = [call EXCEPT ![c] = "returned"]
    /\ UNCHANGED <<replies, batch>>

AskStep(c) ==
    /\ call[c] = "new" /\ call' = [call EXCEPT ![c] = "asked"]
    /\ batch \/ InFlight = {}
    /\ UNCHANGED <<got, taken, replies, batch>>

WaitStep(c) ==
    /\ call[c] = "asked" /\ call' = [call EXCEPT ![c] = "reading"]
    /\ UNCHANGED <<got, taken, replies, batch>>

OtherStep ==
    /\ UNCHANGED <<call, got, taken, batch>>
    /\ replies' = replies \/ Reply

LEMMA CallSteps ==
    ASSUME BridgeInv, [Next]_vars
    PROVE  \/ \E c \in Calls : TakeStep(c) \/ AskStep(c) \/ WaitStep(c)
           \/ OtherStep
  <1>. USE DEF BridgeInv
  <1>1. CASE Aside
    BY <1>1, AsideKeeps DEF OtherStep
  <1>2. CASE ReadMessage \/ Reply \/ \E kind \in {"output", "number"} : Say(kind)
    BY <1>2 DEF ReadMessage, Say, Reply, OtherStep, scriptVars
  <1>3. ASSUME NEW c \in Calls, NEW t \in Tools, CallTool(c, t) PROVE AskStep(c)
    BY <1>3 DEF CallTool, AskStep
  <1>4. ASSUME NEW c \in Calls, NEW n \in Nat, n <= Written, Complete(n), TakeLine(c),
               call[c] \in {"asked", "reading"}, UNCHANGED <<replies, batch>>
        PROVE  TakeStep(c)
    <2>1. got[c] = None
      BY <1>4 DEF TakenLines
    <2>. QED BY <1>4, <2>1, Taking DEF TakeStep
  <1>5. ASSUME NEW c \in Calls, ReadLine(c) PROVE TakeStep(c) \/ WaitStep(c)
    <2>1. received \in Nat /\ received <= Written
      BY Lines DEF TypeOK
    <2>. QED BY <1>4, <1>5, <2>1 DEF ReadLine, WaitStep
  <1>6. ASSUME NEW n \in 1..(Written - received), Chunk(n)
        PROVE  TakeStep(Head(readers)) \/ OtherStep
    <2>1. received + n \in Nat /\ received + n <= Written
      BY <1>6, Lines DEF TypeOK, Chunk
    <2>2. Head(readers) \in Calls /\ call[Head(readers)] = "reading"
      BY <1>6 DEF Chunk, TypeOK, Waiting
    <2>. QED BY <1>4, <1>6, <2>1, <2>2 DEF Chunk, OtherStep
  <1>7. ASSUME NEW n \in 1..(Written - received), Chunk(n) PROVE Head(readers) \in Calls
    BY <1>7 DEF Chunk, TypeOK
  <1>. QED BY <1>1, <1>2, <1>3, <1>5, <1>6, <1>7, StepCases

LEMMA TakenLinesNext == BridgeInv /\ [Next]_vars => TakenLines'
  <1>. SUFFICES ASSUME BridgeInv, [Next]_vars PROVE TakenLines'
    OBVIOUS
  <1>. USE DEF BridgeInv
  <1>1. taken \in Nat /\ taken <= Len(replies)
    BY Lines DEF TypeOK
  <1>2. ASSUME NEW c \in Calls, TakeStep(c) PROVE TakenLines'
    <2>1. replies[taken + 1] # None /\ taken + 1 \in 1..taken'
      BY <1>1, <1>2, FreshAnswer DEF TakeStep
    <2>2. \A k \in 1..taken : k \in 1..taken'
      BY <1>1, <1>2 DEF TakeStep
    <2>. QED BY <1>2, <2>1, <2>2 DEF TakeStep, TakenLines, TypeOK
  <1>3. ASSUME NEW c \in Calls, AskStep(c) \/ WaitStep(c) PROVE TakenLines'
    BY <1>3 DEF AskStep, WaitStep, TakenLines, TypeOK
  <1>4. CASE OtherStep
    <2>1. \A k \in 1..taken : replies'[k] = replies[k]
      <3>1. CASE replies' = replies
        BY <3>1
      <3>2. CASE \E r : replies' = Append(replies, r)
        BY <1>1, <3>2 DEF TypeOK
      <3>. QED BY <1>4, <3>1, <3>2 DEF OtherStep, Reply
    <2>. QED BY <1>4, <2>1 DEF OtherStep, TakenLines
  <1>. QED BY <1>2, <1>3, <1>4, CallSteps

LEMMA BridgeInvInit == Init => BridgeInv
  <1>. SUFFICES ASSUME Init PROVE BridgeInv
    OBVIOUS
  <1>1. OneRequest /\ OneAnswer /\ TakenLines /\ Waiting
    BY DEF Init, OneRequest, OneAnswer, TakenLines, Waiting
  <1>. QED BY <1>1, TypeInit DEF BridgeInv

LEMMA BridgeInvNext == BridgeInv /\ [Next]_vars => BridgeInv'
  BY TypeNext, AnsweringNext, OneRequestNext, OneAnswerNext, TakenLinesNext, WaitingNext
  DEF BridgeInv

LEMMA BridgeAlways == Spec => []BridgeInv
  BY BridgeInvInit, BridgeInvNext, PTL DEF Spec

\* The types of the execution, for any number of calls, tools and limits: no
\* call ever takes a line that has not arrived whole.
THEOREM BridgeTypes == Spec => []TypeOK
  <1>1. BridgeInv => TypeOK
    BY DEF BridgeInv
  <1>. QED BY <1>1, BridgeAlways, PTL

-----------------------------------------------------------------------------
(* The abstract specification                                              *)

\* However many calls are in flight and however their reads interleave, a call
\* that returns took an answer to a request, and nobody else takes it.
THEOREM BridgeKeepsAnswers == Spec => AnswersKept
  <1>. DEFINE Asked == {c \in Calls : call[c] # "new"}
  <1>1. Init => Promise!Init
    BY DEF Init, Promise!Init
  <1>2. BridgeInv /\ [Next]_vars => [Promise!Next]_(Promise!answersVars)
    <2>. SUFFICES ASSUME BridgeInv, [Next]_vars
                  PROVE  Promise!Next \/ UNCHANGED <<Asked, got>>
      BY DEF Promise!answersVars
    <2>1. ASSUME NEW c \in Calls, TakeStep(c) PROVE Promise!Take(c)
      <3>1. Asked' = Asked /\ c \in Asked
        BY <2>1 DEF TakeStep, BridgeInv, TypeOK
      <3>2. replies[taken + 1] \in Asked \ Promise!Taken
        <4>1. replies[taken + 1] \in Calls
          BY <2>1 DEF TakeStep, BridgeInv, TypeOK
        <4>. QED BY <2>1, <4>1, FreshAnswer DEF TakeStep, Promise!Taken
      <3>. QED BY <2>1, <3>1, <3>2 DEF TakeStep, Promise!Take
    <2>2. ASSUME NEW c \in Calls, AskStep(c) PROVE Promise!Ask(c)
      BY <2>2 DEF AskStep, Promise!Ask, BridgeInv, TypeOK
    <2>3. ASSUME NEW c \in Calls, WaitStep(c) PROVE UNCHANGED <<Asked, got>>
      BY <2>3 DEF WaitStep, BridgeInv, TypeOK
    <2>4. CASE OtherStep
      BY <2>4 DEF OtherStep
    <2>. QED BY <2>1, <2>2, <2>3, <2>4, CallSteps DEF Promise!Next
  <1>. QED BY <1>1, <1>2, BridgeAlways, PTL DEF Spec, AnswersKept, Promise!Spec

-----------------------------------------------------------------------------
(* Scripts that await each call                                            *)

AwaitedInv ==
    ~batch => /\ \A c, d \in InFlight : c = d
              /\ Promise!Own
              /\ readers # <<>> => ~Complete(received)

LEMMA AwaitedNext == BridgeInv /\ AwaitedInv /\ [Next]_vars => AwaitedInv'
  <1>. SUFFICES ASSUME BridgeInv, AwaitedInv, [Next]_vars, ~batch' PROVE AwaitedInv'
    BY DEF AwaitedInv
  <1>1. batch' = batch
    BY CallSteps DEF TakeStep, AskStep, WaitStep, OtherStep
  <1>2. /\ \A c, d \in InFlight : c = d
        /\ \A c \in Calls : got[c] \in {c, None}
        /\ readers # <<>> => ~Complete(received)
    BY <1>1 DEF AwaitedInv, Promise!Own
  <1>3. \A c, d \in InFlight' : c = d
    <2>1. ASSUME NEW c \in Calls, TakeStep(c) PROVE \A d \in InFlight' : d \in InFlight
      BY <2>1 DEF TakeStep, InFlight, BridgeInv, TypeOK
    <2>2. ASSUME NEW c \in Calls, AskStep(c) PROVE \A d \in InFlight' : d = c
      BY <1>1, <2>2 DEF AskStep, InFlight, BridgeInv, TypeOK
    <2>3. ASSUME NEW c \in Calls, WaitStep(c) PROVE \A d \in InFlight' : d \in InFlight
      BY <2>3 DEF WaitStep, InFlight, BridgeInv, TypeOK
    <2>4. CASE OtherStep
      BY <1>2, <2>4 DEF OtherStep, InFlight
    <2>. QED BY <1>2, <2>1, <2>2, <2>3, <2>4, CallSteps
  <1>4. \A c \in Calls : got'[c] \in {c, None}
    <2>1. ASSUME NEW c \in Calls, TakeStep(c) PROVE \A d \in Calls : got'[d] \in {d, None}
      <3>. DEFINE r == replies[taken + 1]
      <3>1. /\ r \in Calls /\ r # None /\ call[r] # "new"
            /\ \A d \in Calls : got[d] # r
        BY <2>1, FreshAnswer DEF TakeStep, BridgeInv, TypeOK
      <3>2. call[r] # "returned"
        <4>1. call[r] = "returned" => got[r] # None
          BY <3>1 DEF BridgeInv, TakenLines
        <4>. QED BY <1>2, <3>1, <4>1
      <3>3. r \in InFlight
        BY <3>1, <3>2 DEF InFlight, BridgeInv, TypeOK
      <3>4. c \in InFlight
        BY <2>1 DEF TakeStep, InFlight
      <3>5. r = c
        BY <1>2, <3>3, <3>4
      <3>. QED BY <1>2, <2>1, <3>5 DEF TakeStep, BridgeInv, TypeOK
    <2>. QED BY <1>2, <2>1, CallSteps DEF AskStep, WaitStep, OtherStep
  <1>5. readers' # <<>> => ~Complete(received)'
    <2>1. ASSUME UNCHANGED <<readers, received, taken>> PROVE readers' # <<>> => ~Complete(received)'
      BY <1>2, <2>1 DEF Complete, Consumed
    <2>2. CASE Aside
      BY <2>1, <2>2, AsideKeeps DEF BridgeInv
    <2>3. CASE \/ ReadMessage \/ Reply
               \/ \E c \in Calls, t \in Tools : CallTool(c, t)
               \/ \E kind \in {"output", "number"} : Say(kind)
      BY <2>1, <2>3 DEF ReadMessage, Reply, CallTool, Say, scriptVars
    <2>4. ASSUME NEW c \in Calls, ReadLine(c) PROVE readers' # <<>> => ~Complete(received)'
      BY <1>2, <2>4 DEF ReadLine, Complete, Consumed
    <2>5. ASSUME NEW n \in 1..(Written - received), Chunk(n)
          PROVE  readers' # <<>> => ~Complete(received)'
      <3>1. CASE readers' = Tail(readers)
        <4>1. \A i \in 1..Len(readers) : readers[i] \in InFlight
          BY DEF BridgeInv, Waiting, TypeOK, InFlight
        <4>2. \A i, j \in 1..Len(readers) : i = j
          BY <1>2, <4>1 DEF BridgeInv, Waiting
        <4>3. Len(readers) \in Nat /\ (Len(readers) > 1 => 1 \in 1..Len(readers) /\ 2 \in 1..Len(readers))
          BY DEF BridgeInv, TypeOK
        <4>4. Len(readers) <= 1
          BY <4>2, <4>3
        <4>5. Tail(readers) = <<>>
          BY <2>5, <4>4 DEF Chunk, BridgeInv, TypeOK
        <4>. QED BY <3>1, <4>5
      <3>2. CASE ~Complete(received + n) /\ taken' = taken
        BY <2>5, <3>2 DEF Chunk, Complete, Consumed
      <3>. QED BY <2>5, <3>1, <3>2 DEF Chunk
    <2>. QED BY <2>2, <2>3, <2>4, <2>5, StepCases
  <1>. QED BY <1>3, <1>4, <1>5 DEF AwaitedInv, Promise!Own

\* A script that awaits each call gets the answer to that call, whatever fails,
\* is refused or printed in between.
THEOREM AwaitedCallsGetTheirOwn == Spec => []AwaitedCallsOwn
  <1>1. Init => AwaitedInv
    BY DEF Init, AwaitedInv, InFlight, Promise!Own
  <1>2. AwaitedInv => AwaitedCallsOwn
    BY DEF AwaitedInv, AwaitedCallsOwn
  <1>. QED BY <1>1, <1>2, AwaitedNext, BridgeAlways, PTL DEF Spec

-----------------------------------------------------------------------------
(* Limits                                                                  *)

CapsInv ==
    /\ \A t \in Tools : /\ ran[t] <= per_tool_counts[t]
                        /\ per_tool_counts[t] <= tool_call_count
                        /\ per_tool_counts[t] <= MaxToolCalls
                        /\ t \notin allowed \/ host = "start" => ran[t] = 0
    /\ \A t \in Capped : ran[t] <= Cap
    /\ tool_call_count <= MaxToolCalls + 1
    /\ host \in {"start", "read"} => tool_call_count <= MaxToolCalls
    /\ host \in {"run", "reply"} => tool_call_count <= MaxToolCalls

LEMMA CapsNext == BridgeInv /\ CapsInv /\ [Next]_vars => CapsInv'
  <1>. SUFFICES ASSUME BridgeInv, CapsInv, [Next]_vars PROVE CapsInv'
    OBVIOUS
  <1>1. ASSUME UNCHANGED <<ran, per_tool_counts, tool_call_count, allowed, host>> PROVE CapsInv'
    BY <1>1 DEF CapsInv
  <1>2. CASE \/ \E c \in Calls, t \in Tools : CallTool(c, t)
             \/ \E c \in Calls : ReadLine(c)
             \/ \E n \in 1..(Written - received) : Chunk(n)
             \/ \E kind \in {"output", "number"} : Say(kind)
             \/ CloseStdout
             \/ \E code \in {"exit0", "exit1"} : Exit(code)
             \/ UNCHANGED vars
    BY <1>1, <1>2 DEF CallTool, ReadLine, Chunk, Say, CloseStdout, Exit, vars, counterVars
  <1>3. CASE \/ Refuse \/ ToolReturns \/ Reply \/ Timeout \/ EndOfOutput \/ Finish \/ Cancel
    <2>1. /\ UNCHANGED <<ran, per_tool_counts, tool_call_count, allowed>>
          /\ host' # "start"
          /\ host' \in {"read", "run", "reply"} => host \in {"run", "reply"}
      BY <1>3 DEF Refuse, ToolReturns, Reply, Timeout, Kill, EndOfOutput, Finish, Cancel, counterVars
    <2>. QED BY <2>1 DEF CapsInv
  <1>4. CASE ExecuteCode \/ ExecuteConditionCode
    <2>1. /\ UNCHANGED <<ran, per_tool_counts, tool_call_count>>
          /\ host = "start" /\ host' = "read"
      BY <1>4 DEF ExecuteCode, ExecuteConditionCode, Spawn, counterVars
    <2>. QED BY <2>1 DEF CapsInv
  <1>5. CASE ReadMessage
    <2>1. /\ host = "read" /\ allowed' = allowed /\ tool_call_count <= MaxToolCalls
          /\ tool_call_count \in Nat /\ MaxToolCalls \in Nat /\ Cap \in Nat
          /\ ran \in [Tools -> Nat] /\ per_tool_counts \in [Tools -> Nat] /\ Capped \subseteq Tools
      BY <1>5, BridgeAssumption DEF ReadMessage, CapsInv, BridgeInv, TypeOK
    <2>2. CASE /\ UNCHANGED <<tool_call_count, per_tool_counts, ran>>
               /\ host' \in {"read", "wait"}
      BY <2>1, <2>2 DEF CapsInv
    <2>3. ASSUME NEW t \in Tools, HandleCall(t) PROVE CapsInv'
      <3>1. CASE tool_call_count + 1 > MaxToolCalls
        <4>1. /\ host' = "wait" /\ tool_call_count' = tool_call_count + 1
              /\ UNCHANGED <<per_tool_counts, ran>>
          BY <2>3, <3>1 DEF HandleCall, Kill
        <4>. QED BY <2>1, <4>1 DEF CapsInv
      <3>2. CASE ~(tool_call_count + 1 > MaxToolCalls)
        <4>1. /\ tool_call_count' = tool_call_count + 1
              /\ per_tool_counts' = [per_tool_counts EXCEPT ![t] = @ + 1]
              /\ host' \in {"wait", "run", "reply"}
          BY <2>3, <3>2 DEF HandleCall, Count, Kill
        <4>2. CASE ran' = ran
          BY <2>1, <3>2, <4>1, <4>2 DEF CapsInv
        <4>3. CASE /\ ran' = [ran EXCEPT ![t] = @ + 1] /\ t \in allowed
                   /\ ~(t \in Capped /\ per_tool_counts[t] + 1 > Cap)
          BY <2>1, <3>2, <4>1, <4>3 DEF CapsInv
        <4>. QED BY <2>3, <3>2, <4>2, <4>3 DEF HandleCall
      <3>. QED BY <3>1, <3>2
    <2>4. nread + 1 \in 1..Len(stdout)
      BY <1>5 DEF ReadMessage, BridgeInv, TypeOK
    <2>5. stdout[nread + 1].kind = "call" => stdout[nread + 1].tool \in Tools
      <3>1. stdout[nread + 1] \in Messages
        BY <2>4 DEF BridgeInv, TypeOK
      <3>. QED BY <3>1 DEF Messages
    <2>. QED BY <1>5, <2>1, <2>2, <2>3, <2>5 DEF ReadMessage, Kill
  <1>. QED BY <1>2, <1>3, <1>4, <1>5 DEF Next, Script, Host, RefuseCode, RefuseWorkspace, ExecuteCode,
                              ExecuteCustomToolCode

\* No mix of calls, refusals and failures runs more tools than the limits allow.
THEOREM LimitsHold == Spec => []CapsHold
  <1>1. Init => CapsInv
    BY BridgeAssumption DEF Init, CapsInv
  <1>2. BridgeInv /\ CapsInv => CapsHold
    BY BridgeAssumption DEF BridgeInv, TypeOK, CapsInv, CapsHold
  <1>. QED BY <1>1, <1>2, CapsNext, BridgeAlways, PTL DEF Spec

-----------------------------------------------------------------------------
(* Success                                                                 *)

WholeInv ==
    /\ host = "wait" /\ ~error => nread = Len(stdout) /\ (closed \/ proc # "running")
    /\ success => host = "done" /\ proc = "exit0" /\ ~stderr /\ nread = Len(stdout)

LEMMA WholeNext == BridgeInv /\ WholeInv /\ [Next]_vars => WholeInv'
  <1>. SUFFICES ASSUME BridgeInv, WholeInv, [Next]_vars PROVE WholeInv'
    OBVIOUS
  <1>1. CASE Script
    <2>1. proc = "running" /\ UNCHANGED <<host, error, success, nread>>
      BY <1>1 DEF Script, CallTool, ReadLine, Chunk, Say, Write, CloseStdout, Exit, counterVars
    <2>2. UNCHANGED <<stdout>> \/ ~closed
      BY <1>1 DEF Script, CallTool, ReadLine, Chunk, Say, Write, CloseStdout, Exit
    <2>3. closed' = closed \/ closed'
      BY <1>1 DEF Script, CallTool, ReadLine, Chunk, Say, CloseStdout, Exit
    <2>. QED BY <2>1, <2>2, <2>3 DEF WholeInv
  <1>2. CASE Refuse \/ ExecuteCode \/ ExecuteConditionCode
    BY <1>2 DEF WholeInv, Refuse, ExecuteCode, ExecuteConditionCode, Spawn, scriptVars, counterVars
  <1>3. CASE ReadMessage
    <2>1. host = "read" /\ success' = success /\ (host' = "wait" => error')
      BY <1>3 DEF ReadMessage, HandleCall, Kill
    <2>. QED BY <2>1 DEF WholeInv
  <1>4. CASE ToolReturns \/ Reply \/ Timeout \/ Cancel
    <2>1. host # "done" /\ success' = success /\ (host' = "wait" => error')
      BY <1>4 DEF ToolReturns, Reply, Timeout, Kill, Cancel
    <2>. QED BY <2>1 DEF WholeInv
  <1>5. CASE EndOfOutput
    BY <1>5 DEF WholeInv, EndOfOutput, scriptVars, counterVars
  <1>6. CASE Finish
    BY <1>6 DEF WholeInv, Finish, scriptVars, counterVars
  <1>7. CASE UNCHANGED vars
    BY <1>7 DEF WholeInv, vars, scriptVars, counterVars
  <1>. QED BY <1>1, <1>2, <1>3, <1>4, <1>5, <1>6, <1>7 DEF Next, Host, RefuseCode, RefuseWorkspace, ExecuteCode, ExecuteCustomToolCode

\* A success is never reported over a line the script wrote and nobody read.
THEOREM SuccessIsOfTheWhole == Spec => []SuccessIsWhole
  <1>1. Init => WholeInv
    BY DEF Init, WholeInv
  <1>2. WholeInv => SuccessIsWhole
    BY DEF WholeInv, SuccessIsWhole
  <1>. QED BY <1>1, <1>2, WholeNext, BridgeAlways, PTL DEF Spec
=============================================================================

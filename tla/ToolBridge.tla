----------------------------- MODULE ToolBridge -----------------------------
(***************************************************************************)
(* One execution of TypeScript in a Deno subprocess: the script calls      *)
(* tools by writing a line to its stdout and reading a line from its       *)
(* stdin, the host (_process_deno_output) reads a line at a time, runs the *)
(* tool and writes the answer.  A line carries no number: who reads it     *)
(* owns it.                                                                *)
(*                                                                         *)
(* A line of stdin is cut into Parts parts, the pieces a read may return;  *)
(* `received' counts the parts read so far, and `taken' the lines handed   *)
(* to calls, so the string stdinBuffer holds the parts from taken * Parts  *)
(* up to received.                                                         *)
(***************************************************************************)
EXTENDS Integers, Sequences, FiniteSets

CONSTANTS
    NumCalls,       \* the callTool()s the script makes
    Tools,          \* the registered tools,
    Safe,           \*   those a condition may call (condition_safe),
    Capped,         \*   those of PER_TOOL_CALL_LIMITS
    Cap,            \* the limit of a capped tool
    MaxToolCalls,   \* MAX_TOOL_CALLS
    MaxOutput,      \* MAX_OUTPUT_SIZE, in lines
    Parts,          \* the parts of an answer
    Room            \* the parts the stdin pipe and its buffer hold

ASSUME BridgeAssumption ==
    /\ Safe \subseteq Tools /\ Capped \subseteq Tools
    /\ Cap \in Nat /\ MaxToolCalls \in Nat /\ MaxOutput \in Nat
    /\ NumCalls \in Nat /\ Parts \in Nat \ {0} /\ Room \in Nat

\* The calls, numbered in the order in which the script makes them.
Calls == 1..NumCalls
None == 0

VARIABLES
    batch,          \* does the script have several calls in flight at a time?
    allowed,        \* allowed_tools
    proc,           \* the Deno process
    stdout,         \* the lines the script wrote,
    closed,         \*   and whether it closed the stream
    stderr,         \* did it write to stderr?
    call,           \* how far each call is
    got,            \* the call whose answer each call took
    readers,        \* the calls waiting in Deno.stdin.read, in their order
    received, taken,
    host,           \* where _process_deno_output is
    nread,          \* the lines of stdout it read
    replies,        \* the calls answered, in the order of the lines on stdin
    tool_call_count, per_tool_counts,
    ran,            \* how often each tool was executed
    error, success

scriptVars == <<proc, stdout, closed, stderr, call, got, readers, received, taken>>
counterVars == <<nread, tool_call_count, per_tool_counts, ran>>
vars == <<batch, allowed, scriptVars, host, counterVars, replies, error, success>>

Messages == [kind : {"call"}, call : Calls, tool : Tools] \cup
            [kind : {"output", "number"}]

Init ==
    /\ batch \in BOOLEAN
    /\ allowed = {}
    /\ proc = "none" /\ stdout = <<>> /\ closed = FALSE /\ stderr = FALSE
    /\ call = [c \in Calls |-> "new"] /\ got = [c \in Calls |-> None]
    /\ readers = <<>> /\ received = 0 /\ taken = 0
    /\ host = "start" /\ nread = 0 /\ replies = <<>>
    /\ tool_call_count = 0
    /\ per_tool_counts = [t \in Tools |-> 0] /\ ran = [t \in Tools |-> 0]
    /\ error = FALSE /\ success = FALSE

-----------------------------------------------------------------------------
(* Starting an execution.                                                  *)

\* An execution that ends with an error before there is a process.
Refuse ==
    /\ host = "start"
    /\ host' = "done" /\ error' = TRUE
    /\ UNCHANGED <<batch, allowed, scriptVars, counterVars, replies, success>>

\* The code is too large.
RefuseCode == Refuse

\* _scan_workspace_or_raise found a symlink, a special file, a hardlink to the
\* outside, a directory it cannot read, or too much.
RefuseWorkspace == Refuse

Spawn(tools) ==
    /\ host = "start"
    /\ host' = "read" /\ proc' = "running" /\ allowed' = tools
    /\ UNCHANGED <<batch, stdout, closed, stderr, call, got, readers, received,
                   taken, counterVars, replies, error, success>>

\* execute_code and execute_custom_tool_code may call every tool.
ExecuteCode == Spawn(Tools)
ExecuteCustomToolCode == Spawn(Tools)

\* execute_condition_code may call the read-only ones.
ExecuteConditionCode == Spawn(Safe)

-----------------------------------------------------------------------------
(* The script (runtime.ts).                                                *)

InFlight == {c \in Calls : call[c] \in {"asked", "reading"}}

\* Bound: a line past MaxOutput is where the host stops reading.
MaxLines == MaxOutput + 1

Write(m) ==
    /\ proc = "running" /\ ~closed /\ Len(stdout) < MaxLines
    /\ stdout' = Append(stdout, m)

\* callTool writes the request; a script that awaits its calls has no other
\* in flight.
CallTool(c, t) ==
    /\ Write([kind |-> "call", call |-> c, tool |-> t])
    /\ call[c] = "new" /\ \A d \in 1..(c - 1) : call[d] # "new"
    /\ batch \/ InFlight = {}
    /\ call' = [call EXCEPT ![c] = "asked"]
    /\ UNCHANGED <<batch, allowed, proc, closed, stderr, got, readers, received,
                   taken, host, counterVars, replies, error, success>>

\* The parts written to the script, and those that were taken out of stdinBuffer.
Written == Len(replies) * Parts
Consumed == taken * Parts

Complete(n) == n >= Consumed + Parts

PeekLine(c) ==
    /\ UNCHANGED taken
    /\ got' = [got EXCEPT ![c] = replies[taken + 1]]
    /\ call' = [call EXCEPT ![c] = "returned"]

\* A line leaves stdinBuffer and is the result of call c.
TakeLine(c) ==
    /\ taken' = taken + 1
    /\ got' = [got EXCEPT ![c] = replies[taken + 1]]
    /\ call' = [call EXCEPT ![c] = "returned"]

\* readLine takes a line that is already in the buffer, or waits for data.
\* Deno completes writes, and serves reads, in the order they were made.
ReadLine(c) ==
    /\ proc = "running" /\ call[c] = "asked" /\ \A d \in 1..(c - 1) : call[d] # "asked"
    /\ \/ Complete(received) /\ TakeLine(c) /\ UNCHANGED readers
       \/ /\ ~Complete(received)
          /\ readers' = Append(readers, c)
          /\ call' = [call EXCEPT ![c] = "reading"]
          /\ UNCHANGED <<taken, got>>
    /\ UNCHANGED <<batch, allowed, proc, stdout, closed, stderr, received, host,
                   counterVars, replies, error, success>>

\* The first pending read returns some of what is in the pipe.  Its call takes
\* the first line of the buffer if there is a whole one, and reads again if not.
Chunk(n) ==
    /\ proc = "running" /\ readers # <<>>
    /\ received + n <= Written
    /\ received' = received + n
    /\ \/ Complete(received + n) /\ TakeLine(Head(readers)) /\ readers' = Tail(readers)
       \/ /\ ~Complete(received + n)
          /\ readers' = Append(Tail(readers), Head(readers))
          /\ UNCHANGED <<taken, got, call>>
    /\ UNCHANGED <<batch, allowed, proc, stdout, closed, stderr, host, counterVars,
                   replies, error, success>>

\* output() and debug() write a message of their own, and console.log a line
\* that may happen to be JSON: a bare number, for one.
Say(kind) ==
    /\ Write([kind |-> kind])
    /\ UNCHANGED <<batch, allowed, proc, closed, stderr, call, got, readers,
                   received, taken, host, counterVars, replies, error, success>>

CloseStdout ==
    /\ proc = "running" /\ closed' = TRUE
    /\ UNCHANGED <<batch, allowed, proc, stdout, stderr, call, got, readers,
                   received, taken, host, counterVars, replies, error, success>>

\* The script ends, fails or leaves with Deno.exit, at any point, having written
\* to stderr or not.
Exit(code) ==
    /\ proc = "running" /\ proc' = code
    /\ stderr' \in BOOLEAN
    /\ UNCHANGED <<batch, allowed, stdout, closed, call, got, readers,
                   received, taken, host, counterVars, replies, error, success>>

-----------------------------------------------------------------------------
(* The host (_process_deno_output).                                        *)

\* The process is killed, if it still runs, and the loop left with an error.
Kill ==
    /\ proc' = IF proc = "running" THEN "killed" ELSE proc
    /\ host' = "wait" /\ error' = TRUE

Count(t) ==
    /\ tool_call_count' = tool_call_count + 1
    /\ per_tool_counts' = [per_tool_counts EXCEPT ![t] = @ + 1]

HandleCallThenCount(t) ==
    /\ Count(t)
    /\ \/ t \in Capped /\ per_tool_counts[t] > Cap /\ host' = "reply" /\ UNCHANGED ran
       \/ ~(t \in Capped /\ per_tool_counts[t] > Cap) /\ host' = "run"
          /\ ran' = [ran EXCEPT ![t] = @ + 1]
    /\ UNCHANGED <<proc, error>>

\* A call past the limit on calls, or past the cap of its tool, or to a tool
\* outside allowed_tools is not run; the second of these goes on with a refusal.
HandleCall(t) ==
    IF tool_call_count + 1 > MaxToolCalls
    THEN /\ Kill
         /\ tool_call_count' = tool_call_count + 1
         /\ UNCHANGED <<per_tool_counts, ran>>
    ELSE /\ Count(t)
         /\ \/ /\ t \in Capped /\ per_tool_counts[t] + 1 > Cap
               /\ host' = "reply"
               /\ UNCHANGED <<proc, ran, error>>
            \/ /\ ~(t \in Capped /\ per_tool_counts[t] + 1 > Cap)
               /\ \/ t \notin allowed /\ Kill /\ UNCHANGED ran
                  \/ /\ t \in allowed
                     /\ host' = "run" /\ ran' = [ran EXCEPT ![t] = @ + 1]
                     /\ UNCHANGED <<proc, error>>

\* One line: too much output in all, or a JSON value `in' cannot look into, kills.
ReadMessage ==
    /\ host = "read" /\ nread < Len(stdout)
    /\ nread' = nread + 1
    /\ LET m == stdout[nread + 1]
       IN  IF nread + 1 > MaxOutput \/ m.kind = "number"
           THEN Kill /\ UNCHANGED <<tool_call_count, per_tool_counts, ran>>
           ELSE IF m.kind = "call" THEN HandleCall(m.tool)
           ELSE UNCHANGED <<host, proc, error, tool_call_count, per_tool_counts, ran>>
    /\ UNCHANGED <<batch, allowed, stdout, closed, stderr, call, got, readers,
                   received, taken, replies, success>>

\* registry.execute returns or raises: there is an answer either way.
ToolReturns ==
    /\ host = "run" /\ host' = "reply"
    /\ UNCHANGED <<batch, allowed, scriptVars, counterVars, replies, error, success>>

PipeFull == Written - received > Room

ReplyTwice ==
    /\ host = "reply" /\ proc = "running" /\ host' = "read"
    /\ replies' = replies \o <<stdout[nread].call, stdout[nread].call>>
    /\ UNCHANGED <<batch, allowed, scriptVars, counterVars, error, success>>

\* The answer is written and drained.  When the process is gone the write may
\* or may not notice.
Reply ==
    /\ host = "reply"
    /\ \/ /\ proc = "running" /\ ~PipeFull
          /\ replies' = Append(replies, stdout[nread].call)
          /\ host' = "read" /\ UNCHANGED error
       \/ /\ proc # "running" /\ UNCHANGED replies
          /\ \/ host' = "read" /\ UNCHANGED error
             \/ host' = "wait" /\ error' = TRUE
    /\ UNCHANGED <<batch, allowed, scriptVars, counterVars, success>>

TimeoutBetweenLines ==
    /\ host = "read" /\ nread < Len(stdout) /\ Kill
    /\ UNCHANGED <<batch, allowed, stdout, closed, stderr, call, got, readers,
                   received, taken, counterVars, replies, success>>

\* No line within thirty seconds, or the deadline passed: both are looked at
\* while the host waits for a line and nowhere else.
Timeout ==
    /\ host = "read" /\ Kill
    /\ UNCHANGED <<batch, allowed, stdout, closed, stderr, call, got, readers,
                   received, taken, counterVars, replies, success>>

EndWithProcess ==
    /\ host = "read" /\ proc # "running" /\ host' = "wait"
    /\ UNCHANGED <<batch, allowed, scriptVars, counterVars, replies, error, success>>

\* readline returns nothing once the script closed its end and all was read.
EndOfOutput ==
    /\ host = "read" /\ nread = Len(stdout)
    /\ closed \/ proc # "running"
    /\ host' = "wait"
    /\ UNCHANGED <<batch, allowed, scriptVars, counterVars, replies, error, success>>

\* process.wait() returned: success means exit code 0, no error, a clean stderr.
Finish ==
    /\ host = "wait" /\ proc # "running"
    /\ host' = "done"
    /\ error' = (error \/ stderr \/ proc # "exit0")
    /\ success' = ~error'
    /\ UNCHANGED <<batch, allowed, scriptVars, counterVars, replies>>

\* The turn is cancelled: CancelledError passes by every handler, and nobody
\* kills the process.
Cancel ==
    /\ host \in {"read", "run", "reply", "wait"}
    /\ host' = "cancelled"
    /\ UNCHANGED <<batch, allowed, scriptVars, counterVars, replies, error, success>>

-----------------------------------------------------------------------------
Script ==
    \/ \E c \in Calls, t \in Tools : CallTool(c, t)
    \/ \E c \in Calls : ReadLine(c)
    \/ \E n \in 1..(Written - received) : Chunk(n)
    \/ \E kind \in {"output", "number"} : Say(kind)
    \/ CloseStdout
    \/ \E code \in {"exit0", "exit1"} : Exit(code)

Host == ReadMessage \/ ToolReturns \/ Reply \/ Timeout \/ EndOfOutput \/ Finish

Next ==
    \/ RefuseCode
    \/ RefuseWorkspace
    \/ ExecuteCode
    \/ ExecuteCustomToolCode
    \/ ExecuteConditionCode
    \/ Script
    \/ Host
    \/ Cancel

Spec == Init /\ [][Next]_vars

\* The event loop runs the host whenever it can, and the two timeouts expire; nothing is
\* assumed of the script, of the tools, or of the pipe.
Fairness ==
    /\ WF_vars(ReadMessage \/ Timeout \/ EndOfOutput)
    /\ WF_vars(Reply)
    /\ WF_vars(Finish)

FairSpec == Spec /\ Fairness

-----------------------------------------------------------------------------
\* Type correctness; a line is taken when all of it has been read, and read
\* when it was written.
TypeOK ==
    /\ batch \in BOOLEAN /\ allowed \subseteq Tools
    /\ proc \in {"none", "running", "exit0", "exit1", "killed"}
    /\ stdout \in Seq(Messages) /\ closed \in BOOLEAN /\ stderr \in BOOLEAN
    /\ call \in [Calls -> {"new", "asked", "reading", "returned"}]
    /\ got \in [Calls -> Calls \cup {None}]
    /\ readers \in Seq(Calls) /\ taken \in Nat
    /\ received \in Consumed..Written
    /\ host \in {"start", "read", "run", "reply", "wait", "done", "cancelled"}
    /\ nread \in 0..Len(stdout) /\ replies \in Seq(Calls)
    /\ tool_call_count \in Nat
    /\ per_tool_counts \in [Tools -> Nat] /\ ran \in [Tools -> Nat]
    /\ error \in BOOLEAN /\ success \in BOOLEAN

\* What callTool and the host promise together: every call that returns took
\* an answer to a request, and no answer is taken twice, however the reads of
\* one stdin interleave (readLine, runtime.ts:7-36).
Promise == INSTANCE Answers WITH asked <- {c \in Calls : call[c] # "new"}

AnswersKept == Promise!Spec

\* A script that awaits each call gets the answer to that call, and does not
\* wait for more data while the answer lies in stdinBuffer.
AwaitedCallsOwn ==
    ~batch => Promise!Own /\ (readers # <<>> => ~Complete(received))

\* The same of Promise.allSettled, which the description of execute_code
\* advises for independent calls (executor.py:944).
BatchedCallsOwn == Promise!Own

\* No mix of calls, refusals and failures runs more tools than the limits of
\* one execution allow, or one outside the execution's set.
CapsHold ==
    /\ \A t \in Tools : ran[t] <= MaxToolCalls /\ (t \notin allowed => ran[t] = 0)
    /\ \A t \in Capped : ran[t] <= Cap
    /\ tool_call_count <= MaxToolCalls + 1

\* A success is never reported over something the script said: every line was
\* read, every call it made was run or refused, and it ended by itself.
SuccessIsWhole ==
    success => proc = "exit0" /\ ~stderr /\ nread = Len(stdout)

\* Every execution ends, but for three waits no deadline covers: for a tool,
\* for a script that does not read its answers, and for a process that closed
\* its stdout and runs on.
Unbounded ==
    \/ host = "run"
    \/ host = "reply" /\ proc = "running" /\ PipeFull
    \/ host = "wait" /\ proc = "running" /\ closed

EveryExecutionEnds == <>[](host \in {"start", "done", "cancelled"} \/ Unbounded)
=============================================================================

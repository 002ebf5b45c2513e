----------------------------- MODULE AsyncCalls -----------------------------
(***************************************************************************)
(* Awaitable calls: an asyncio loop, the tokio task that waits for each    *)
(* call, and the runtime's thread with its queue of jobs and the loop that *)
(* the code it runs may use ("task locals").                               *)
(*                                                                         *)
(* A call creates a future on the running loop and spawns a task, which    *)
(* sends the command, waits for the answer or for the future to be         *)
(* cancelled, and posts a callback to the loop; the callback converts the  *)
(* answer and resolves the future.  A Runtime belongs to the Python thread *)
(* that created it, so the loop's own thread also makes the blocking       *)
(* calls, and runs nothing else until they return.  A module loader may be *)
(* a coroutine function: the thread then waits for the loop.               *)
(*                                                                         *)
(* Timeouts, watchdogs and a thread that never leaves JavaScript are in    *)
(* RuntimeHandle; here a call takes as long as it takes.                   *)
(***************************************************************************)
EXTENDS Sequences, FiniteSets, SequencesExt

CONSTANTS Calls, Mixes,     \* calls; of what kinds they may be together
          Loops, Loaders,   \* event loops; kinds of module loaders
          NoCall, NoLoop

\* eval_async and JsFunction.call_async; eval_module_async; JsFunction.__call__;
\* JsStream.__anext__.
Kinds == {"promise", "module", "function", "read"}

ASSUME AsyncCallsAssumption ==
  /\ NoCall \notin Calls /\ NoLoop \notin Loops
  /\ Mixes \subseteq [Calls -> Kinds]
  /\ Loaders \subseteq {"plain", "coroutine"}

VARIABLES
  kind,                 \* of each call
  current, closed,      \* the running loop; the loops that have ended
  waiting,              \* the loop's thread waits for a blocking call
  future, loopOf,       \* the future of each call and its loop
  posted,     \* setters on the loop
  task, told,           \* the task of each call; those told of a cancellation
  answer,               \* what the runtime answered
  channel,              \* commands to the runtime's thread
  thread,               \* what it does: a turn, or a wait for a coroutine that
                        \* loads a job's module or the one of a blocking call
  queue, active, begun, \* jobs that wait, the one that runs, whether it began
  locals,               \* the loop that JavaScript and the loader may use
  pendingCalls,         \* promises of function calls, not yet resumed
  loader                \* the Python loader

pythonVars == <<kind, current, closed, waiting, future, loopOf, posted>>
taskVars == <<task, told, answer>>
jobVars == <<queue, active, begun, locals>>
vars == <<pythonVars, taskVars, channel, thread, jobVars, pendingCalls, loader>>

Init ==
  /\ kind \in Mixes
  /\ current = NoLoop /\ closed = {} /\ waiting = FALSE
  /\ future = [c \in Calls |-> "new"] /\ loopOf = [c \in Calls |-> NoLoop]
  /\ posted = {}
  /\ task = [c \in Calls |-> "none"] /\ told = {}
  /\ answer = [c \in Calls |-> "none"]
  /\ channel = <<>> /\ thread = "turn"
  /\ queue = <<>> /\ active = NoCall /\ begun = FALSE /\ locals = NoLoop
  /\ pendingCalls = {}
  /\ loader = "unset"

-----------------------------------------------------------------------------
(* The loop's thread.                                                      *)

Running == current # NoLoop /\ ~waiting

StartLoop(l) ==
  /\ current = NoLoop /\ ~waiting /\ l \notin closed
  /\ current' = l
  /\ UNCHANGED <<kind, closed, waiting, future, loopOf, posted, taskVars,
                 channel, thread, jobVars, pendingCalls, loader>>

\* asyncio.run returns: it has cancelled what its tasks still awaited; what
\* nobody awaited stays unresolved.
CloseLoop ==
  /\ Running
  /\ current' = NoLoop /\ closed' = closed \cup {current}
  /\ \E awaited \in SUBSET {c \in Calls : future[c] \in {"pending", "unresolved"}
                                          /\ loopOf[c] = current} :
       /\ future' = [c \in Calls |-> IF c \in awaited THEN "cancelled" ELSE future[c]]
       /\ told' = told \cup awaited
  /\ posted' = {}
  /\ UNCHANGED <<kind, waiting, loopOf, task, answer, channel, thread, jobVars,
                 pendingCalls, loader>>

\* bridge_js_future: a future on the running loop and a task.
Bridge(c) ==
  /\ future' = [future EXCEPT ![c] = "pending"]
  /\ loopOf' = [loopOf EXCEPT ![c] = current]
  /\ task' = [task EXCEPT ![c] = "spawned"]

\* Without a running loop get_current_locals raises before anything is done.
CallAsync(c) ==
  /\ Running /\ kind[c] # "function" /\ future[c] = "new"
  /\ Bridge(c)
  /\ UNCHANGED <<kind, current, closed, waiting, posted, told, answer,
                 channel, thread, jobVars, pendingCalls, loader>>

\* A blocking call: evaluation, or setting the module loader.
Message(op, arg) == [op |-> op, arg |-> arg]
Blocks(op, arg) ==
  /\ ~waiting /\ thread # "exited"
  /\ waiting' = TRUE /\ channel' = Append(channel, Message(op, arg))
  /\ UNCHANGED <<kind, current, closed, future, loopOf, posted, taskVars,
                 thread, jobVars, pendingCalls, loader>>

\* JsFunction.__call__: a blocking call first, with or without a loop.
CallFunction(c) ==
  /\ ~waiting /\ thread # "exited" /\ kind[c] = "function" /\ future[c] = "new"
  /\ waiting' = TRUE /\ channel' = Append(channel, Message("call", c))
  /\ future' = [future EXCEPT ![c] = "calling"]
  /\ UNCHANGED <<kind, current, closed, loopOf, posted, taskVars, thread,
                 jobVars, pendingCalls, loader>>

\* It returned a promise, which is resumed as an awaitable call; without a
\* running loop it raises, and the promise stays stored.
AwaitFunction(c) ==
  /\ ~waiting /\ future[c] = "promised"
  /\ IF current # NoLoop THEN Bridge(c)
     ELSE /\ future' = [future EXCEPT ![c] = "raised"]
          /\ UNCHANGED <<loopOf, task>>
  /\ UNCHANGED <<kind, current, closed, waiting, posted, told, answer,
                 channel, thread, jobVars, pendingCalls, loader>>

\* The caller gives up (asyncio.wait_for, task.cancel): in the same turn of the
\* loop JsAsyncCancelCallback tells the task.
Cancel(c) ==
  /\ Running /\ loopOf[c] = current /\ future[c] \in {"pending", "unresolved"}
  /\ future' = [future EXCEPT ![c] = "cancelled"]
  /\ told' = told \cup {c}
  /\ UNCHANGED <<kind, current, closed, waiting, loopOf, posted, task, answer, channel,
                 thread, jobVars, pendingCalls, loader>>

\* JsAsyncResultSetter: a value that cannot be converted raises out of the
\* callback, and the future is never resolved.
RunSetter(c) ==
  /\ Running /\ c \in posted
  /\ posted' = posted \ {c}
  /\ \/ future[c] = "pending" /\ future' = [future EXCEPT ![c] = "done"]
     \/ /\ future[c] = "pending" /\ answer[c] = "value"
        /\ future' = [future EXCEPT ![c] = "unresolved"]
     \/ future[c] # "pending" /\ UNCHANGED future
  /\ UNCHANGED <<kind, current, closed, waiting, loopOf, taskVars, channel,
                 thread, jobVars, pendingCalls, loader>>

-----------------------------------------------------------------------------
(* The task of a call.                                                     *)

\* It sends the command, or learns that the runtime is gone.
Send(c) ==
  /\ task[c] = "spawned" /\ task' = [task EXCEPT ![c] = "sent"]
  /\ IF thread = "exited"
     THEN answer' = [answer EXCEPT ![c] = "error"] /\ UNCHANGED channel
     ELSE /\ channel' = Append(channel,
               Message(IF kind[c] = "function" THEN "resume" ELSE "submit", c))
          /\ UNCHANGED answer
  /\ UNCHANGED <<pythonVars, told, thread, jobVars, pendingCalls, loader>>

\* The answer has come: it posts the setter; a loop that has ended refuses it,
\* and the future gets the exception at once.
Post(c) ==
  /\ task[c] = "sent" /\ answer[c] # "none"
  /\ task' = [task EXCEPT ![c] = "ended"]
  /\ IF loopOf[c] \in closed
     THEN /\ future' = [future EXCEPT ![c] = IF @ = "pending" THEN "done" ELSE @]
          /\ UNCHANGED posted
     ELSE posted' = posted \cup {c} /\ UNCHANGED future
  /\ UNCHANGED <<kind, current, closed, waiting, loopOf, told, answer,
                 channel, thread, jobVars, pendingCalls, loader>>

\* The cancellation has come, perhaps before the command was sent: the answer
\* goes nowhere.
GiveUp(c) ==
  /\ task[c] \in {"spawned", "sent"} /\ c \in told
  /\ task' = [task EXCEPT ![c] = "ended"]
  /\ UNCHANGED <<pythonVars, told, answer, channel, thread, jobVars,
                 pendingCalls, loader>>

-----------------------------------------------------------------------------
(* Modules.                                                                *)

\* What a specifier resolves to, by the answer of the Python resolver and the
\* static modules.
Resolutions == {"static", "url", "denied"}

\* A coroutine is awaited on the loop of the locals, and refused without one.
Load(resolved, loop) ==
  CASE resolved = "static" -> "source"
    [] resolved = "denied" \/ loader = "unset" -> "denied"
    [] loader = "plain" -> "source"
    [] OTHER -> IF loop = NoLoop THEN "refused" ELSE "awaits"

-----------------------------------------------------------------------------
(* The runtime's thread.                                                   *)

\* The loop of a job's code: a read of a stream is given none.
LocalsOf(c) == IF kind[c] = "read" THEN NoLoop ELSE loopOf[c]

Returns == waiting' = FALSE
Submit(c) ==
  IF active = NoCall THEN active' = c /\ UNCHANGED <<queue, begun, locals>>
  ELSE queue' = Append(queue, c) /\ UNCHANGED <<active, begun, locals>>

Takes(op) ==
  /\ thread = "turn" /\ channel # <<>> /\ Head(channel).op = op
  /\ channel' = Tail(channel)
  /\ UNCHANGED <<kind, current, closed, loopOf, posted, taskVars>>

HandleSubmit ==
  /\ Takes("submit") /\ Submit(Head(channel).arg)
  /\ UNCHANGED <<waiting, future, thread, pendingCalls, loader>>

HandleResume ==
  /\ Takes("resume") /\ Submit(Head(channel).arg)
  /\ pendingCalls' = pendingCalls \ {Head(channel).arg}
  /\ UNCHANGED <<waiting, future, thread, loader>>

\* The function returns a value, or a promise that is not settled.
HandleCall ==
  /\ Takes("call") /\ Returns
  /\ LET c == Head(channel).arg IN
     \/ future' = [future EXCEPT ![c] = "done"] /\ UNCHANGED pendingCalls
     \/ /\ future' = [future EXCEPT ![c] = "promised"]
        /\ pendingCalls' = pendingCalls \cup {c}
  /\ UNCHANGED <<thread, jobVars, loader>>

\* Evaluation, and every other command that only answers (add_static_module,
\* set_module_resolver, those of HostOps).
HandleEval ==
  /\ Takes("eval") /\ Returns
  /\ UNCHANGED <<future, thread, jobVars, pendingCalls, loader>>

HandleEvalModule ==
  /\ Takes("eval_module")
  /\ \E resolved \in Resolutions :
       IF Load(resolved, locals) = "awaits"
       THEN thread' = "evaluating" /\ UNCHANGED waiting
       ELSE Returns /\ UNCHANGED thread
  /\ UNCHANGED <<future, jobVars, pendingCalls, loader>>

HandleSetModuleLoader ==
  /\ Takes("set_module_loader") /\ Returns
  /\ loader' = Head(channel).arg
  /\ UNCHANGED <<future, thread, jobVars, pendingCalls>>

\* Seeded fault: the locals stay when a job has ended.
FinishKeepingLocals(a) ==
  /\ answer' = [answer EXCEPT ![active] = a]
  /\ UNCHANGED locals /\ begun' = FALSE
  /\ active' = IF queue = <<>> THEN NoCall ELSE Head(queue)
  /\ queue' = IF queue = <<>> THEN <<>> ELSE Tail(queue)

\* The job is answered, the locals are cleared, and the next job is activated.
Finish(a) ==
  /\ answer' = [answer EXCEPT ![active] = a]
  /\ locals' = NoLoop /\ begun' = FALSE
  /\ active' = IF queue = <<>> THEN NoCall ELSE Head(queue)
  /\ queue' = IF queue = <<>> THEN <<>> ELSE Tail(queue)

\* The first poll of a job installs its locals, then runs its script or loads
\* its module; a load that awaits the loop holds up the thread.
Begin ==
  /\ thread = "turn" /\ active # NoCall /\ ~begun
  /\ locals' = IF LocalsOf(active) # NoLoop THEN LocalsOf(active) ELSE locals
  /\ begun' = TRUE
  /\ \/ kind[active] # "module" /\ UNCHANGED thread
     \/ /\ kind[active] = "module"
        /\ \E resolved \in Resolutions :
             \/ Load(resolved, locals') = "source" /\ UNCHANGED thread
             \/ Load(resolved, locals') = "awaits" /\ thread' = "loading"
  /\ UNCHANGED <<pythonVars, taskVars, channel, queue, active, pendingCalls, loader>>

\* The module is denied, or the script throws.
BeginFails ==
  /\ thread = "turn" /\ active # NoCall /\ ~begun
  /\ Finish("error")
  /\ UNCHANGED <<pythonVars, task, told, channel, thread, pendingCalls, loader>>

Settle ==
  /\ thread = "turn" /\ active # NoCall /\ begun
  /\ \E a \in {"value", "error"} : Finish(a)
  /\ UNCHANGED <<pythonVars, task, told, channel, thread, pendingCalls, loader>>

\* Seeded fault: the active job is dropped without an answer.
LoopFailsSilently ==
  /\ thread = "turn" /\ active # NoCall
  /\ locals' = NoLoop /\ begun' = FALSE /\ active' = NoCall
  /\ UNCHANGED <<pythonVars, taskVars, channel, thread, queue, pendingCalls, loader>>

\* The event loop fails (an unhandled rejection): the active job is answered,
\* begun or not.
LoopFails ==
  /\ thread = "turn" /\ active # NoCall
  /\ Finish("error")
  /\ UNCHANGED <<pythonVars, task, told, channel, thread, pendingCalls, loader>>

\* The loader's coroutine runs on the loop and returns; for a blocking call it
\* never runs, because the loop's thread waits.
LoaderReturns ==
  /\ thread = "loading" /\ Running /\ current = locals
  /\ thread' = "turn"
  /\ UNCHANGED <<pythonVars, taskVars, channel, jobVars, pendingCalls, loader>>

\* Seeded fault: the end of a load answers the blocking call that waits.
LoaderFailsForWaiter ==
  /\ thread \in {"loading", "evaluating"} /\ locals \in closed
  /\ thread' = "turn"
  /\ IF waiting THEN Returns /\ UNCHANGED <<answer, jobVars>>
     ELSE Finish("error") /\ UNCHANGED waiting
  /\ UNCHANGED <<kind, current, closed, future, loopOf, posted, task, told,
                 channel, pendingCalls, loader>>

\* Its loop has ended: the load fails, for the blocking call or the job.
LoaderFails ==
  /\ locals \in closed
  /\ \/ thread = "evaluating" /\ Returns /\ UNCHANGED <<answer, jobVars>>
     \/ thread = "loading" /\ Finish("error") /\ UNCHANGED waiting
  /\ thread' = "turn"
  /\ UNCHANGED <<kind, current, closed, future, loopOf, posted, task, told,
                 channel, pendingCalls, loader>>

\* The runtime's thread has the job of a call: as a command, in its queue, or
\* running.
Held(c) ==
  \/ c = active \/ c \in ToSet(queue)
  \/ \E op \in {"submit", "resume"} : Message(op, c) \in ToSet(channel)

\* Termination, shutdown: every job and every command is answered.
Exit ==
  /\ thread = "turn" /\ thread' = "exited"
  /\ answer' = [c \in Calls |-> IF Held(c) THEN "error" ELSE answer[c]]
  /\ future' = [c \in Calls |-> IF future[c] = "calling" THEN "raised" ELSE future[c]]
  /\ channel' = <<>> /\ waiting' = FALSE
  /\ queue' = <<>> /\ active' = NoCall /\ begun' = FALSE /\ locals' = NoLoop
  /\ pendingCalls' = {}
  /\ UNCHANGED <<kind, current, closed, loopOf, posted, task, told, loader>>

-----------------------------------------------------------------------------
PythonStep ==
  \/ \E l \in Loops : StartLoop(l)
  \/ CloseLoop
  \/ \E c \in Calls : \/ CallAsync(c) \/ CallFunction(c) \/ AwaitFunction(c)
                      \/ Cancel(c) \/ RunSetter(c)
  \/ \E op \in {"eval", "eval_module"} : Blocks(op, NoCall)
  \/ \E python \in Loaders : Blocks("set_module_loader", python)

TaskStep == \E c \in Calls : Send(c) \/ Post(c) \/ GiveUp(c)

ThreadStep ==
  \/ HandleSubmit \/ HandleResume \/ HandleCall \/ HandleEval
  \/ HandleEvalModule \/ HandleSetModuleLoader
  \/ Begin \/ BeginFails \/ Settle \/ LoopFails
  \/ LoaderReturns \/ LoaderFails \/ Exit

Next == PythonStep \/ TaskStep \/ ThreadStep

Handle == HandleSubmit \/ HandleResume \/ HandleCall \/ HandleEval
          \/ HandleEvalModule \/ HandleSetModuleLoader

\* Tasks and the thread's dispatcher run; the loop runs its callbacks in the
\* order they were posted, so one that stays posted has its turn, however many
\* blocking calls come before it.  Nothing makes a script finish.
Fairness ==
  /\ WF_vars(Handle) /\ WF_vars(Begin) /\ WF_vars(LoaderFails)
  /\ \A c \in Calls : /\ WF_vars(Send(c)) /\ WF_vars(Post(c)) /\ WF_vars(GiveUp(c))
                      /\ SF_vars(RunSetter(c))

Spec == Init /\ [][Next]_vars /\ Fairness

-----------------------------------------------------------------------------
(* Properties.                                                             *)

\* JavaScript and the module loader use the loop of the call they work for:
\* there is one exactly while a job that has one is running, so code that runs
\* between jobs, or for a read, never reaches a loop of another call
\* (install_task_locals, clear_task_locals).
LocalsBelongToJob ==
  locals = IF active # NoCall /\ begun THEN LocalsOf(active) ELSE NoLoop

\* A thread that waits for the answer of a blocking call waits for something
\* the runtime has, the command or the module it loads, and for one call: no
\* answer is given to another call than the one that waits, and none is missed,
\* whatever ends the jobs meanwhile (eval_module, load, finalize_termination).
BlockingOps == {"call", "eval", "eval_module", "set_module_loader"}
Commands(ops) == {i \in DOMAIN channel : channel[i].op \in ops}
WaitsForRuntime ==
  /\ \A i, j \in Commands(BlockingOps) : i = j
  /\ waiting <=> (thread = "evaluating" \/ Commands(BlockingOps) # {})
  /\ ~(thread = "evaluating" /\ Commands(BlockingOps) # {})

\* The loop's thread waits for the runtime's, which waits for the loop.
Deadlocked ==
  waiting /\ thread \in {"loading", "evaluating"} /\ locals \notin closed

\* The runtime owes the answer of every call that was sent and has not been
\* answered, and of no other: whatever ends a job, and wherever the job is when
\* the runtime ends, its call is answered, and only once (RuntimeJob::finish,
\* submit_job, cancel_all_jobs).
AnswersAreOwed ==
  \A c \in Calls : task[c] = "sent" => (Held(c) <=> answer[c] = "none")

\* A call that was sent and that the runtime is done with, however its job
\* ended, does not stay awaited: its future is resolved or cancelled, its loop
\* has ended, or the answer could not be converted; the loop may also be in a
\* deadlock with a coroutine loader (bridge_js_future, RuntimeJob::finish).
AwaitSettles ==
  \A c \in Calls :
    (task[c] = "sent" /\ ~Held(c))
      ~> (future[c] # "pending" \/ loopOf[c] \in closed \/ Deadlocked)

\* The same, with an answer that cannot be converted told to the caller.
AwaitReturns ==
  \A c \in Calls :
    (task[c] = "sent" /\ ~Held(c))
      ~> (future[c] \in {"done", "cancelled"} \/ loopOf[c] \in closed \/ Deadlocked)
=============================================================================

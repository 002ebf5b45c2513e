-------------------------- MODULE AsyncCallsProofs --------------------------
(***************************************************************************)
(* Theorems about AsyncCalls, for every set of calls, of loops and every   *)
(* mix of kinds.                                                           *)
(***************************************************************************)
EXTENDS AsyncCalls, SequenceLemmas

-----------------------------------------------------------------------------
(* Types. *)

\* The commands that may be in the channel.
CallOps == {"submit", "resume", "call"}
Messages == [op : CallOps, arg : Calls]
            \cup [op : {"eval", "eval_module"}, arg : {NoCall}]
            \cup [op : {"set_module_loader"}, arg : Loaders]
BlockingMessages == {m \in Messages : m.op \in BlockingOps}

Futures == {"new", "calling", "promised", "raised", "pending", "unresolved",
            "cancelled", "done"}
Tasks == {"none", "spawned", "sent", "ended"}
Answers == {"none", "value", "error"}

LoopTypes ==
  /\ current \in Loops \cup {NoLoop} /\ closed \subseteq Loops
  /\ waiting \in BOOLEAN
  /\ loader \in Loaders \cup {"unset"}

CallTypes ==
  /\ kind \in [Calls -> Kinds]
  /\ future \in [Calls -> Futures] /\ loopOf \in [Calls -> Loops \cup {NoLoop}]
  /\ posted \subseteq Calls
  /\ task \in [Calls -> Tasks] /\ told \subseteq Calls
  /\ answer \in [Calls -> Answers]
  /\ pendingCalls \subseteq Calls

JobTypes ==
  /\ channel \in Seq(Messages)
  /\ thread \in {"turn", "loading", "evaluating", "exited"}
  /\ queue \in Seq(Calls) /\ active \in Calls \cup {NoCall} /\ begun \in BOOLEAN
  /\ locals \in Loops \cup {NoLoop}

TypeOK == LoopTypes /\ CallTypes /\ JobTypes

\* A command about a call has a call, and the loader's command a loader.
LEMMA MessageForms ==
  ASSUME NEW m \in Messages
  PROVE  /\ m = Message(m.op, m.arg)
         /\ m.op \in CallOps => m.arg \in Calls
         /\ m.op = "set_module_loader" => m.arg \in Loaders
<1>1. CASE m \in [op : CallOps, arg : Calls]
  BY <1>1 DEF Message, CallOps
<1>2. CASE m \in [op : {"eval", "eval_module"}, arg : {NoCall}]
  BY <1>2 DEF Message, CallOps
<1>3. CASE m \in [op : {"set_module_loader"}, arg : Loaders]
  BY <1>3 DEF Message, CallOps
<1>4. QED
  BY <1>1, <1>2, <1>3 DEF Messages

\* What a command that is sent does to the channel.
LEMMA Sent ==
  ASSUME TypeOK, NEW m \in Messages, channel' = Append(channel, m)
  PROVE  /\ channel' \in Seq(Messages)
         /\ ToSet(channel') = ToSet(channel) \cup {m}
         /\ (/\ AtMostOne(channel, BlockingMessages)
             /\ m \notin BlockingMessages \/ ToSet(channel) \cap BlockingMessages = {})
            => AtMostOne(channel', BlockingMessages)
<1>1. channel \in Seq(Messages)
  BY DEF TypeOK, JobTypes
<1>2. QED
  BY <1>1, Appended, AppendedAtMostOne

\* What a command that is taken does to it.
LEMMA TakenCommand ==
  ASSUME TypeOK, NEW op, Takes(op)
  PROVE  /\ channel' \in Seq(Messages) /\ Head(channel) \in Messages
         /\ Head(channel) = Message(op, Head(channel).arg)
         /\ ToSet(channel) = {Head(channel)} \cup ToSet(channel')
         /\ op \in CallOps => Head(channel).arg \in Calls
         /\ op = "set_module_loader" => Head(channel).arg \in Loaders
         /\ AtMostOne(channel, BlockingMessages) =>
              /\ AtMostOne(channel', BlockingMessages)
              /\ op \in BlockingOps => ToSet(channel') \cap BlockingMessages = {}
<1>1. /\ channel \in Seq(Messages) /\ channel # << >> /\ Head(channel).op = op
      /\ channel' = Tail(channel)
  BY DEF Takes, TypeOK, JobTypes
<1>2. /\ Tail(channel) \in Seq(Messages) /\ Head(channel) \in Messages
      /\ ToSet(channel) = {Head(channel)} \cup ToSet(Tail(channel))
  BY <1>1, Taken
<1>3. /\ Head(channel) = Message(op, Head(channel).arg)
      /\ op \in CallOps => Head(channel).arg \in Calls
      /\ op = "set_module_loader" => Head(channel).arg \in Loaders
  BY <1>1, <1>2, MessageForms
<1>4. op \in BlockingOps => Head(channel) \in BlockingMessages
  BY <1>1, <1>2 DEF BlockingMessages
<1>5. AtMostOne(channel, BlockingMessages) =>
        /\ AtMostOne(Tail(channel), BlockingMessages)
        /\ Head(channel) \in BlockingMessages =>
             ToSet(Tail(channel)) \cap BlockingMessages = {}
  BY <1>1, TakenAtMostOne
<1>6. QED
  BY <1>1, <1>2, <1>3, <1>4, <1>5

\* The commands that are sent are commands.
LEMMA SentAreMessages ==
  /\ \A c \in Calls, op \in CallOps : Message(op, c) \in Messages
  /\ \A op \in {"eval", "eval_module"} : Message(op, NoCall) \in Messages
  /\ \A python \in Loaders : Message("set_module_loader", python) \in Messages
  /\ << >> \in Seq(Messages)
BY DEF Messages, Message

\* The first job of the queue becomes the active one.
LEMMA FinishTypes ==
  ASSUME TypeOK, NEW a \in Answers, Finish(a)
  PROVE  /\ queue' \in Seq(Calls) /\ active' \in Calls \cup {NoCall}
         /\ begun' = FALSE /\ locals' = NoLoop
         /\ answer' \in [Calls -> Answers]
         /\ ToSet(queue') \subseteq ToSet(queue)
         /\ active' = NoCall \/ active' \in ToSet(queue)
<1>1. queue \in Seq(Calls) /\ answer \in [Calls -> Answers]
  BY DEF TypeOK, JobTypes, CallTypes
<1>2. CASE queue = << >>
  BY <1>1, <1>2 DEF Finish
<1>3. CASE queue # << >>
  <2>1. /\ Head(queue) \in Calls /\ Tail(queue) \in Seq(Calls)
        /\ ToSet(queue) = {Head(queue)} \cup ToSet(Tail(queue))
    BY <1>1, <1>3, Taken
  <2>2. QED
    BY <1>1, <1>3, <2>1 DEF Finish
<1>4. QED
  BY <1>2, <1>3

\* A job that is submitted becomes the active one or waits.
LEMMA SubmitTypes ==
  ASSUME TypeOK, NEW c \in Calls, Submit(c)
  PROVE  /\ queue' \in Seq(Calls) /\ active' \in Calls \cup {NoCall}
         /\ begun' = begun /\ locals' = locals
         /\ ToSet(queue') \subseteq ToSet(queue) \cup {c}
         /\ active' \in {active, c}
         /\ active # NoCall => active' = active
<1>1. queue \in Seq(Calls) /\ active \in Calls \cup {NoCall}
  BY DEF TypeOK, JobTypes
<1>2. CASE active = NoCall
  BY <1>1, <1>2 DEF Submit
<1>3. CASE active # NoCall
  <2>1. Append(queue, c) \in Seq(Calls) /\ ToSet(Append(queue, c)) = ToSet(queue) \cup {c}
    BY <1>1, Appended
  <2>2. QED
    BY <1>1, <1>3, <2>1 DEF Submit
<1>4. QED
  BY <1>2, <1>3

-----------------------------------------------------------------------------
(* Every step keeps the types. *)

LEMMA TypeInit == ASSUME Init PROVE TypeOK
<1>1. kind \in [Calls -> Kinds]
  BY AsyncCallsAssumption DEF Init
<1>2. LoopTypes
  BY DEF Init, LoopTypes
<1>3. CallTypes
  BY <1>1 DEF Init, CallTypes, Futures, Tasks, Answers
<1>4. JobTypes
  <2>1. << >> \in Seq(Messages) /\ << >> \in Seq(Calls)
    OBVIOUS
  <2>2. QED
    BY <2>1 DEF Init, JobTypes
<1>5. QED
  BY <1>2, <1>3, <1>4 DEF TypeOK

LEMMA PythonTypes == ASSUME TypeOK, PythonStep PROVE TypeOK'
<1>1. ASSUME NEW l \in Loops, StartLoop(l) PROVE TypeOK'
  BY <1>1 DEF StartLoop, TypeOK, LoopTypes, CallTypes, JobTypes, taskVars, jobVars
<1>2. CASE CloseLoop
  <2>1. current \in Loops
    BY <1>2 DEF CloseLoop, Running, TypeOK, LoopTypes
  <2>2. LoopTypes'
    BY <1>2, <2>1 DEF CloseLoop, TypeOK, LoopTypes
  <2>3. PICK awaited \in SUBSET Calls :
          /\ future' = [c \in Calls |-> IF c \in awaited THEN "cancelled" ELSE future[c]]
          /\ told' = told \cup awaited
    BY <1>2 DEF CloseLoop
  <2>4. CallTypes'
    BY <1>2, <2>3 DEF CloseLoop, TypeOK, CallTypes, Futures
  <2>5. JobTypes'
    BY <1>2 DEF CloseLoop, TypeOK, JobTypes, jobVars
  <2>6. QED
    BY <2>2, <2>4, <2>5 DEF TypeOK
<1>3. ASSUME NEW c \in Calls, Bridge(c)
      PROVE  /\ future' \in [Calls -> Futures] /\ loopOf' \in [Calls -> Loops \cup {NoLoop}]
             /\ task' \in [Calls -> Tasks]
  BY <1>3 DEF Bridge, TypeOK, CallTypes, LoopTypes, Futures, Tasks
<1>4. ASSUME NEW c \in Calls, CallAsync(c) PROVE TypeOK'
  BY <1>3, <1>4 DEF CallAsync, TypeOK, LoopTypes, CallTypes, JobTypes, jobVars
<1>5. ASSUME NEW c \in Calls, CallFunction(c) PROVE TypeOK'
  <2>1. channel' \in Seq(Messages)
    BY <1>5, Sent, SentAreMessages DEF CallFunction, CallOps
  <2>2. future' \in [Calls -> Futures]
    BY <1>5 DEF CallFunction, TypeOK, CallTypes, Futures
  <2>3. QED
    BY <1>5, <2>1, <2>2
    DEF CallFunction, TypeOK, LoopTypes, CallTypes, JobTypes, taskVars, jobVars
<1>6. ASSUME NEW c \in Calls, AwaitFunction(c) PROVE TypeOK'
  <2>1. /\ future' \in [Calls -> Futures] /\ loopOf' \in [Calls -> Loops \cup {NoLoop}]
        /\ task' \in [Calls -> Tasks]
    <3>1. CASE current # NoLoop
      BY <1>3, <1>6, <3>1 DEF AwaitFunction
    <3>2. CASE current = NoLoop
      BY <1>6, <3>2 DEF AwaitFunction, TypeOK, CallTypes, Futures
    <3>3. QED
      BY <3>1, <3>2
  <2>2. QED
    BY <1>6, <2>1 DEF AwaitFunction, TypeOK, LoopTypes, CallTypes, JobTypes, jobVars
<1>7. ASSUME NEW c \in Calls, Cancel(c) PROVE TypeOK'
  BY <1>7
  DEF Cancel, TypeOK, LoopTypes, CallTypes, JobTypes, jobVars, Futures
<1>8. ASSUME NEW c \in Calls, RunSetter(c) PROVE TypeOK'
  BY <1>8
  DEF RunSetter, TypeOK, LoopTypes, CallTypes, JobTypes, taskVars, jobVars, Futures
<1>9. ASSUME NEW op, NEW arg, Message(op, arg) \in Messages, Blocks(op, arg) PROVE TypeOK'
  <2>1. channel' \in Seq(Messages)
    BY <1>9, Sent DEF Blocks
  <2>2. QED
    BY <1>9, <2>1
    DEF Blocks, TypeOK, LoopTypes, CallTypes, JobTypes, taskVars, jobVars
<1>10. QED
  BY <1>1, <1>2, <1>4, <1>5, <1>6, <1>7, <1>8, <1>9, SentAreMessages DEF PythonStep

LEMMA TaskTypes == ASSUME TypeOK, TaskStep PROVE TypeOK'
<1>1. ASSUME NEW c \in Calls, Send(c) PROVE TypeOK'
  <2>1. channel' \in Seq(Messages)
    <3>1. CASE thread = "exited"
      BY <1>1, <3>1 DEF Send, TypeOK, JobTypes
    <3>2. CASE thread # "exited"
      <4>1. PICK op \in CallOps : channel' = Append(channel, Message(op, c))
        BY <1>1, <3>2 DEF Send, CallOps
      <4>2. QED
        BY <4>1, Sent, SentAreMessages
    <3>3. QED
      BY <3>1, <3>2
  <2>2. task' \in [Calls -> Tasks] /\ answer' \in [Calls -> Answers]
    BY <1>1 DEF Send, TypeOK, CallTypes, Tasks, Answers
  <2>3. QED
    BY <1>1, <2>1, <2>2
    DEF Send, TypeOK, LoopTypes, CallTypes, JobTypes, pythonVars, jobVars
<1>2. ASSUME NEW c \in Calls, Post(c) PROVE TypeOK'
  <2>1. task' \in [Calls -> Tasks]
    BY <1>2 DEF Post, TypeOK, CallTypes, Tasks
  <2>2. future' \in [Calls -> Futures] /\ posted' \subseteq Calls
    BY <1>2 DEF Post, TypeOK, CallTypes, Futures
  <2>3. QED
    BY <1>2, <2>1, <2>2 DEF Post, TypeOK, LoopTypes, CallTypes, JobTypes, jobVars
<1>3. ASSUME NEW c \in Calls, GiveUp(c) PROVE TypeOK'
  BY <1>3
  DEF GiveUp, TypeOK, LoopTypes, CallTypes, JobTypes, pythonVars, jobVars, Tasks
<1>4. QED
  BY <1>1, <1>2, <1>3 DEF TaskStep

LEMMA ThreadTypes == ASSUME TypeOK, ThreadStep PROVE TypeOK'
<1> USE DEF TypeOK
<1>1. CASE HandleSubmit
  <2>1. Takes("submit") /\ Submit(Head(channel).arg)
    BY <1>1 DEF HandleSubmit
  <2>2. channel' \in Seq(Messages) /\ Head(channel).arg \in Calls
    BY <2>1, TakenCommand DEF CallOps
  <2>3. /\ queue' \in Seq(Calls) /\ active' \in Calls \cup {NoCall}
        /\ begun' = begun /\ locals' = locals
    BY <2>1, <2>2, SubmitTypes
  <2>4. QED
    BY <1>1, <2>1, <2>2, <2>3
    DEF HandleSubmit, Takes, LoopTypes, CallTypes, JobTypes, taskVars
<1>2. CASE HandleResume
  <2>1. Takes("resume") /\ Submit(Head(channel).arg)
    BY <1>2 DEF HandleResume
  <2>2. channel' \in Seq(Messages) /\ Head(channel).arg \in Calls
    BY <2>1, TakenCommand DEF CallOps
  <2>3. /\ queue' \in Seq(Calls) /\ active' \in Calls \cup {NoCall}
        /\ begun' = begun /\ locals' = locals
    BY <2>1, <2>2, SubmitTypes
  <2>4. QED
    BY <1>2, <2>1, <2>2, <2>3
    DEF HandleResume, Takes, LoopTypes, CallTypes, JobTypes, taskVars
<1>3. CASE HandleCall
  <2>1. Takes("call") /\ Returns
    BY <1>3 DEF HandleCall
  <2>2. channel' \in Seq(Messages) /\ Head(channel).arg \in Calls
    BY <2>1, TakenCommand DEF CallOps
  <2>3. future' \in [Calls -> Futures] /\ pendingCalls' \subseteq Calls
    BY <1>3, <2>2 DEF HandleCall, CallTypes, Futures
  <2>4. QED
    BY <1>3, <2>1, <2>2, <2>3
    DEF HandleCall, Takes, Returns, LoopTypes, CallTypes, JobTypes, taskVars, jobVars
<1>4. CASE HandleEval
  <2>1. Takes("eval")
    BY <1>4 DEF HandleEval
  <2>2. channel' \in Seq(Messages)
    BY <2>1, TakenCommand
  <2>3. QED
    BY <1>4, <2>1, <2>2
    DEF HandleEval, Takes, Returns, LoopTypes, CallTypes, JobTypes, taskVars, jobVars
<1>5. CASE HandleEvalModule
  <2>1. Takes("eval_module")
    BY <1>5 DEF HandleEvalModule
  <2>2. channel' \in Seq(Messages)
    BY <2>1, TakenCommand
  <2>3. /\ thread' \in {thread, "evaluating"} /\ waiting' \in {waiting, FALSE}
    BY <1>5 DEF HandleEvalModule, Returns
  <2>4. QED
    BY <1>5, <2>1, <2>2, <2>3
    DEF HandleEvalModule, Takes, LoopTypes, CallTypes, JobTypes, taskVars, jobVars
<1>6. CASE HandleSetModuleLoader
  <2>1. Takes("set_module_loader") /\ Returns /\ loader' = Head(channel).arg
    BY <1>6 DEF HandleSetModuleLoader
  <2>2. channel' \in Seq(Messages) /\ Head(channel).arg \in Loaders
    BY <2>1, TakenCommand
  <2>3. QED
    BY <1>6, <2>1, <2>2
    DEF HandleSetModuleLoader, Takes, Returns, LoopTypes, CallTypes, JobTypes, taskVars, jobVars
<1>7. CASE Begin
  <2>1. LocalsOf(active) \in Loops \cup {NoLoop}
    BY <1>7 DEF Begin, LocalsOf, CallTypes, JobTypes
  <2>2. thread' \in {"turn", "loading"}
    BY <1>7 DEF Begin
  <2>3. QED
    BY <1>7, <2>1, <2>2
    DEF Begin, LoopTypes, CallTypes, JobTypes, pythonVars, taskVars
<1>8. ASSUME NEW a \in Answers, Finish(a), thread' = thread \/ thread' = "turn",
             UNCHANGED <<pythonVars, task, told, channel, pendingCalls, loader>>
      PROVE  TypeOK'
  <2>1. /\ queue' \in Seq(Calls) /\ active' \in Calls \cup {NoCall}
        /\ begun' = FALSE /\ locals' = NoLoop
        /\ answer' \in [Calls -> Answers]
    BY <1>8, FinishTypes
  <2>2. QED
    BY <1>8, <2>1 DEF LoopTypes, CallTypes, JobTypes, pythonVars
<1>9. CASE BeginFails \/ Settle \/ LoopFails
  <2>1. PICK a \in Answers : Finish(a)
    BY <1>9 DEF BeginFails, Settle, LoopFails, Answers
  <2>2. UNCHANGED <<pythonVars, task, told, channel, thread, pendingCalls, loader>>
    BY <1>9 DEF BeginFails, Settle, LoopFails
  <2>3. QED
    BY <1>8, <2>1, <2>2
<1>10. CASE LoaderReturns
  BY <1>10 DEF LoaderReturns, LoopTypes, CallTypes, JobTypes, pythonVars, taskVars, jobVars
<1>11. CASE LoaderFails
  <2>1. CASE thread = "evaluating"
    BY <1>11, <2>1
    DEF LoaderFails, Returns, LoopTypes, CallTypes, JobTypes, jobVars
  <2>2. CASE thread # "evaluating"
    <3>1. "error" \in Answers /\ Finish("error")
      BY <1>11, <2>2 DEF LoaderFails, Answers
    <3>2. UNCHANGED <<pythonVars, task, told, channel, pendingCalls, loader>>
      BY <1>11, <2>2 DEF LoaderFails, pythonVars
    <3>3. QED
      BY <1>8, <1>11, <3>1, <3>2 DEF LoaderFails
  <2>3. QED
    BY <2>1, <2>2
<1>12. CASE Exit
  <2>1. future' \in [Calls -> Futures] /\ answer' \in [Calls -> Answers]
    BY <1>12 DEF Exit, CallTypes, Futures, Answers
  <2>2. << >> \in Seq(Messages) /\ << >> \in Seq(Calls)
    OBVIOUS
  <2>3. JobTypes'
    BY <1>12, <2>2 DEF Exit, JobTypes
  <2>4. LoopTypes' /\ CallTypes'
    BY <1>12, <2>1 DEF Exit, LoopTypes, CallTypes
  <2>5. QED
    BY <2>3, <2>4
<1>13. QED
  BY <1>1, <1>2, <1>3, <1>4, <1>5, <1>6, <1>7, <1>9, <1>10, <1>11, <1>12 DEF ThreadStep

LEMMA TypeStep == ASSUME TypeOK, [Next]_vars PROVE TypeOK'
<1>1. CASE UNCHANGED vars
  BY <1>1 DEF vars, pythonVars, taskVars, jobVars, TypeOK, LoopTypes, CallTypes, JobTypes
<1>2. QED
  BY <1>1, PythonTypes, TaskTypes, ThreadTypes DEF Next

\* Every variable keeps its type, whatever the calls and their kinds.
THEOREM Types == Spec => []TypeOK
BY TypeInit, TypeStep, PTL DEF Spec

-----------------------------------------------------------------------------
(* A thread that waits, waits for one command that the runtime has. *)

\* The same as WaitsForRuntime, in terms of the set of commands.
Blocked == ToSet(channel) \cap BlockingMessages # {}
WaitInv ==
  /\ AtMostOne(channel, BlockingMessages)
  /\ waiting <=> (thread = "evaluating" \/ Blocked)
  /\ ~(thread = "evaluating" /\ Blocked)

LEMMA WaitForms == ASSUME TypeOK PROVE WaitsForRuntime <=> WaitInv
<1>1. channel \in Seq(Messages)
  BY DEF TypeOK, JobTypes
<1>2. \A i \in DOMAIN channel : channel[i] \in Messages
  BY <1>1
<1>3. Commands(BlockingOps) = {i \in DOMAIN channel : channel[i] \in BlockingMessages}
  BY <1>2 DEF Commands, BlockingMessages
<1>4. (Commands(BlockingOps) # {}) <=> Blocked
  BY <1>3 DEF Blocked, ToSet
<1>5. (\A i, j \in Commands(BlockingOps) : i = j) <=> AtMostOne(channel, BlockingMessages)
  BY <1>3 DEF AtMostOne
<1>6. QED
  BY <1>4, <1>5 DEF WaitsForRuntime, WaitInv

\* A step that neither sends nor takes a blocking command, and that leaves the
\* wait of the thread as it is.
LEMMA WaitKept ==
  ASSUME WaitInv, waiting' = waiting,
         (thread' = "evaluating") <=> (thread = "evaluating"),
         AtMostOne(channel', BlockingMessages),
         ToSet(channel') \cap BlockingMessages = ToSet(channel) \cap BlockingMessages
  PROVE  WaitInv'
BY DEF WaitInv, Blocked

\* The thread that does not wait sends a blocking command.
LEMMA WaitBegins ==
  ASSUME TypeOK, WaitInv, NEW m \in BlockingMessages, ~waiting, waiting' = TRUE,
         channel' = Append(channel, m), thread' = thread
  PROVE  WaitInv'
<1>1. m \in Messages
  BY DEF BlockingMessages
<1>2. ToSet(channel) \cap BlockingMessages = {} /\ thread # "evaluating"
  BY DEF WaitInv, Blocked
<1>3. /\ ToSet(channel') = ToSet(channel) \cup {m}
      /\ AtMostOne(channel', BlockingMessages)
  BY <1>1, <1>2, Sent DEF WaitInv
<1>4. QED
  BY <1>2, <1>3 DEF WaitInv, Blocked

\* The runtime takes the one that the thread waits for, and answers it or loads
\* its module.
LEMMA WaitEnds ==
  ASSUME TypeOK, WaitInv, NEW op \in BlockingOps, Takes(op),
         \/ waiting' = FALSE /\ thread' = thread
         \/ waiting' = waiting /\ thread' = "evaluating"
  PROVE  WaitInv'
<1>1. /\ Head(channel) \in Messages /\ Head(channel) \in ToSet(channel)
      /\ AtMostOne(channel', BlockingMessages)
      /\ ToSet(channel') \cap BlockingMessages = {}
  BY TakenCommand DEF WaitInv
<1>2. Head(channel).op = op /\ thread = "turn"
  BY DEF Takes
<1>3. waiting
  BY <1>1, <1>2 DEF WaitInv, Blocked, BlockingMessages
<1>4. QED
  BY <1>1, <1>2, <1>3 DEF WaitInv, Blocked

LEMMA WaitInit == ASSUME Init PROVE WaitInv
BY DEF Init, WaitInv, Blocked, AtMostOne, ToSet

LEMMA WaitStep == ASSUME TypeOK, WaitInv, [Next]_vars PROVE WaitInv'
<1>1. ASSUME UNCHANGED <<waiting, channel>>,
             (thread' = "evaluating") <=> (thread = "evaluating")
      PROVE  WaitInv'
  BY <1>1, WaitKept DEF WaitInv
<1>2. CASE UNCHANGED vars
  BY <1>1, <1>2 DEF vars, pythonVars
<1>3. CASE PythonStep
  <2>1. ASSUME NEW c \in Calls, CallFunction(c) PROVE WaitInv'
    <3>1. Message("call", c) \in BlockingMessages
      BY SentAreMessages DEF CallOps, BlockingMessages, BlockingOps, Message
    <3>2. QED
      BY <2>1, <3>1, WaitBegins DEF CallFunction
  <2>2. ASSUME NEW op \in BlockingOps, NEW arg, Message(op, arg) \in Messages, Blocks(op, arg)
        PROVE  WaitInv'
    <3>1. Message(op, arg) \in BlockingMessages
      BY <2>2 DEF BlockingMessages, Message
    <3>2. QED
      BY <2>2, <3>1, WaitBegins DEF Blocks
  <2>3. ASSUME NEW op \in {"eval", "eval_module"}, Blocks(op, NoCall) PROVE WaitInv'
    BY <2>2, <2>3, SentAreMessages DEF BlockingOps
  <2>4. ASSUME NEW python \in Loaders, Blocks("set_module_loader", python) PROVE WaitInv'
    BY <2>2, <2>4, SentAreMessages DEF BlockingOps
  <2>5. ASSUME NEW c \in Calls, CallAsync(c) \/ AwaitFunction(c) \/ Cancel(c) \/ RunSetter(c)
        PROVE  WaitInv'
    BY <1>1, <2>5 DEF CallAsync, AwaitFunction, Cancel, RunSetter
  <2>6. ASSUME NEW l \in Loops, StartLoop(l) PROVE WaitInv'
    BY <1>1, <2>6 DEF StartLoop
  <2>7. CASE CloseLoop
    BY <1>1, <2>7 DEF CloseLoop
  <2>8. QED
    BY <1>3, <2>1, <2>3, <2>4, <2>5, <2>6, <2>7 DEF PythonStep
<1>4. CASE TaskStep
  <2>1. ASSUME NEW c \in Calls, Send(c) PROVE WaitInv'
    <3>1. waiting' = waiting /\ thread' = thread
      BY <2>1 DEF Send, pythonVars
    <3>2. CASE thread = "exited"
      BY <1>1, <2>1, <3>1, <3>2 DEF Send
    <3>3. CASE thread # "exited"
      <4>1. PICK op \in {"submit", "resume"} : channel' = Append(channel, Message(op, c))
        BY <2>1, <3>3 DEF Send
      <4>2. Message(op, c) \in Messages
        BY SentAreMessages DEF CallOps
      <4>3. Message(op, c) \notin BlockingMessages
        BY DEF BlockingMessages, BlockingOps, Message
      <4>4. /\ ToSet(channel') = ToSet(channel) \cup {Message(op, c)}
            /\ AtMostOne(channel', BlockingMessages)
        BY <4>1, <4>2, <4>3, Sent DEF WaitInv
      <4>5. QED
        BY <3>1, <4>3, <4>4, WaitKept
    <3>4. QED
      BY <3>2, <3>3
  <2>2. ASSUME NEW c \in Calls, Post(c) \/ GiveUp(c) PROVE WaitInv'
    BY <1>1, <2>2 DEF Post, GiveUp, pythonVars
  <2>3. QED
    BY <1>4, <2>1, <2>2 DEF TaskStep
<1>5. CASE ThreadStep
  <2>1. CASE HandleSubmit \/ HandleResume
    <3>1. PICK op \in {"submit", "resume"} : Takes(op)
      BY <2>1 DEF HandleSubmit, HandleResume
    <3>2. /\ Head(channel).op = op /\ UNCHANGED <<waiting, thread>>
      BY <2>1, <3>1 DEF HandleSubmit, HandleResume, Takes
    <3>3. Head(channel) \notin BlockingMessages
      BY <3>2 DEF BlockingMessages, BlockingOps
    <3>4. /\ ToSet(channel) = {Head(channel)} \cup ToSet(channel')
          /\ AtMostOne(channel', BlockingMessages)
      BY <3>1, TakenCommand DEF WaitInv
    <3>5. QED
      BY <3>2, <3>3, <3>4, WaitKept
  <2>2. CASE HandleCall \/ HandleEval \/ HandleEvalModule \/ HandleSetModuleLoader
    <3>1. PICK op \in BlockingOps : Takes(op)
      BY <2>2 DEF HandleCall, HandleEval, HandleEvalModule, HandleSetModuleLoader, BlockingOps
    <3>2. \/ waiting' = FALSE /\ thread' = thread
          \/ waiting' = waiting /\ thread' = "evaluating"
      BY <2>2
      DEF HandleCall, HandleEval, HandleEvalModule, HandleSetModuleLoader, Returns
    <3>3. QED
      BY <3>1, <3>2, WaitEnds
  <2>3. CASE Begin \/ BeginFails \/ Settle \/ LoopFails \/ LoaderReturns
    BY <1>1, <2>3
    DEF Begin, BeginFails, Settle, LoopFails, LoaderReturns, pythonVars
  <2>4. CASE LoaderFails
    <3>1. CASE thread = "evaluating"
      BY <2>4, <3>1 DEF LoaderFails, Returns, WaitInv, Blocked
    <3>2. CASE thread # "evaluating"
      BY <1>1, <2>4, <3>2 DEF LoaderFails
    <3>3. QED
      BY <3>1, <3>2
  <2>5. CASE Exit
    BY <2>5 DEF Exit, WaitInv, Blocked, AtMostOne, ToSet
  <2>6. QED
    BY <1>5, <2>1, <2>2, <2>3, <2>4, <2>5 DEF ThreadStep
<1>6. QED
  BY <1>2, <1>3, <1>4, <1>5 DEF Next

-----------------------------------------------------------------------------
(* A call that has a job keeps its loop. *)

\* A call has its future before its task, its task before its job; a function
\* that is called has neither until it has returned.
CallOrder(c) ==
  /\ task[c] # "none" => future[c] \notin {"new", "calling", "promised"}
  /\ Held(c) => task[c] # "none"
  /\ Message("call", c) \in ToSet(channel) => future[c] = "calling"

\* A step that gives the call no job and no command, and leaves its future and
\* its task.
LEMMA OrderKept ==
  ASSUME NEW c \in Calls, CallOrder(c),
         Held(c)' => Held(c),
         Message("call", c) \in ToSet(channel') => Message("call", c) \in ToSet(channel),
         task'[c] = task[c], future'[c] = future[c]
  PROVE  CallOrder(c)'
BY DEF CallOrder

\* A future that exists goes on, and so does a task.
LEMMA OrderGoesOn ==
  ASSUME NEW c \in Calls, CallOrder(c),
         Held(c)' => Held(c),
         Message("call", c) \in ToSet(channel') => Message("call", c) \in ToSet(channel),
         task'[c] = task[c] \/ (task[c] # "none" /\ task'[c] # "none"),
         \/ future'[c] = future[c]
         \/ /\ future[c] \notin {"new", "calling", "promised"}
            /\ future'[c] \notin {"new", "calling", "promised"}
  PROVE  CallOrder(c)'
BY DEF CallOrder

\* A call that gets a future and a task had no job and no command.
LEMMA OrderBridged ==
  ASSUME TypeOK, NEW c \in Calls, NEW d \in Calls, CallOrder(c), Bridge(d),
         Message("call", d) \notin ToSet(channel),
         UNCHANGED <<queue, active, channel>>
  PROVE  CallOrder(c)'
<1>1. Held(c)' <=> Held(c)
  BY DEF Held
<1>2. /\ future'[c] = IF c = d THEN "pending" ELSE future[c]
      /\ task'[c] = IF c = d THEN "spawned" ELSE task[c]
  BY DEF Bridge, TypeOK, CallTypes
<1>3. QED
  BY <1>1, <1>2 DEF CallOrder

\* The end of a job, and the start of the next one, give no call a job.
LEMMA OrderFinished ==
  ASSUME TypeOK, NEW c \in Calls, NEW a \in Answers, CallOrder(c), Finish(a),
         UNCHANGED <<future, task, channel>>
  PROVE  CallOrder(c)'
<1>1. ToSet(queue') \subseteq ToSet(queue) /\ (active' = NoCall \/ active' \in ToSet(queue))
  BY FinishTypes
<1>2. c # NoCall
  BY AsyncCallsAssumption
<1>3. Held(c)' => Held(c)
  BY <1>1, <1>2 DEF Held
<1>4. QED
  BY <1>3, OrderKept

\* A command becomes a job of the call it is about.
LEMMA OrderSubmitted ==
  ASSUME TypeOK, NEW c \in Calls, NEW op \in {"submit", "resume"}, CallOrder(c),
         Takes(op), Submit(Head(channel).arg), UNCHANGED <<future, task>>
  PROVE  CallOrder(c)'
<1>1. /\ Head(channel).arg \in Calls
      /\ Head(channel) = Message(op, Head(channel).arg)
      /\ ToSet(channel) = {Head(channel)} \cup ToSet(channel')
  BY TakenCommand DEF CallOps
<1>2. /\ ToSet(queue') \subseteq ToSet(queue) \cup {Head(channel).arg}
      /\ active' \in {active, Head(channel).arg}
  BY <1>1, SubmitTypes
<1>3. Held(c)' => Held(c)
  BY <1>1, <1>2 DEF Held
<1>4. QED
  BY <1>1, <1>3, OrderKept

LEMMA OrderInit == ASSUME Init PROVE \A c \in Calls : CallOrder(c)
BY AsyncCallsAssumption DEF Init, CallOrder, Held, ToSet

LEMMA OrderPython ==
  ASSUME TypeOK, WaitInv, \A d \in Calls : CallOrder(d), PythonStep, NEW c \in Calls
  PROVE  CallOrder(c)'
<1> USE DEF TypeOK, CallTypes
<1>1. ASSUME UNCHANGED <<queue, active, channel>> PROVE Held(c)' <=> Held(c)
  BY <1>1 DEF Held
<1>2. ASSUME NEW l \in Loops, StartLoop(l) PROVE CallOrder(c)'
  BY <1>1, <1>2, OrderKept DEF StartLoop, taskVars, jobVars
<1>3. CASE CloseLoop
  <2>1. PICK awaited \in SUBSET {d \in Calls : future[d] \in {"pending", "unresolved"}} :
          future' = [d \in Calls |-> IF d \in awaited THEN "cancelled" ELSE future[d]]
    BY <1>3 DEF CloseLoop
  <2>2. \/ future'[c] = future[c]
        \/ future[c] \in {"pending", "unresolved"} /\ future'[c] = "cancelled"
    BY <2>1
  <2>3. QED
    BY <1>1, <1>3, <2>2, OrderGoesOn DEF CloseLoop, jobVars
<1>4. ASSUME NEW d \in Calls, CallAsync(d) PROVE CallOrder(c)'
  <2>1. Message("call", d) \notin ToSet(channel)
    BY <1>4 DEF CallAsync, CallOrder
  <2>2. QED
    BY <1>4, <2>1, OrderBridged DEF CallAsync, jobVars
<1>5. ASSUME NEW d \in Calls, CallFunction(d) PROVE CallOrder(c)'
  <2>1. Message("call", d) \in Messages
    BY SentAreMessages DEF CallOps
  <2>2. ToSet(channel') = ToSet(channel) \cup {Message("call", d)}
    BY <1>5, <2>1, Sent DEF CallFunction
  <2>3. /\ Message("submit", c) # Message("call", d) /\ Message("resume", c) # Message("call", d)
        /\ Message("call", c) = Message("call", d) => c = d
    BY DEF Message
  <2>4. Held(c)' => Held(c)
    BY <1>5, <2>2, <2>3 DEF Held, CallFunction, jobVars
  <2>5. /\ future'[c] = IF c = d THEN "calling" ELSE future[c]
        /\ task' = task /\ future[d] = "new"
    BY <1>5 DEF CallFunction, taskVars
  <2>6. QED
    BY <2>2, <2>3, <2>4, <2>5 DEF CallOrder
<1>6. ASSUME NEW d \in Calls, AwaitFunction(d) PROVE CallOrder(c)'
  <2>1. Message("call", d) \notin ToSet(channel)
    <3>1. Message("call", d) \in BlockingMessages
      BY SentAreMessages DEF CallOps, BlockingMessages, BlockingOps, Message
    <3>2. QED
      BY <1>6, <3>1 DEF AwaitFunction, WaitInv, Blocked
  <2>2. CASE current # NoLoop
    BY <1>6, <2>1, <2>2, OrderBridged DEF AwaitFunction, jobVars
  <2>3. CASE current = NoLoop
    <3>1. /\ future'[c] = IF c = d THEN "raised" ELSE future[c]
          /\ task' = task
      BY <1>6, <2>3 DEF AwaitFunction
    <3>2. Held(c)' <=> Held(c)
      BY <1>1, <1>6 DEF AwaitFunction, jobVars
    <3>3. channel' = channel
      BY <1>6 DEF AwaitFunction
    <3>4. QED
      BY <2>1, <3>1, <3>2, <3>3 DEF CallOrder
  <2>4. QED
    BY <2>2, <2>3
<1>7. ASSUME NEW d \in Calls, Cancel(d) PROVE CallOrder(c)'
  <2>1. \/ future'[c] = future[c]
        \/ future[c] \in {"pending", "unresolved"} /\ future'[c] = "cancelled"
    BY <1>7 DEF Cancel
  <2>2. QED
    BY <1>1, <1>7, <2>1, OrderGoesOn DEF Cancel, jobVars
<1>8. ASSUME NEW d \in Calls, RunSetter(d) PROVE CallOrder(c)'
  <2>1. \/ future'[c] = future[c]
        \/ future[c] = "pending" /\ future'[c] \in {"done", "unresolved"}
    BY <1>8 DEF RunSetter
  <2>2. QED
    BY <1>1, <1>8, <2>1, OrderGoesOn DEF RunSetter, taskVars, jobVars
<1>9. ASSUME NEW op \in BlockingOps \ {"call"}, NEW arg, Message(op, arg) \in Messages,
             Blocks(op, arg)
      PROVE  CallOrder(c)'
  <2>1. ToSet(channel') = ToSet(channel) \cup {Message(op, arg)}
    BY <1>9, Sent DEF Blocks
  <2>2. \A o \in CallOps : Message(op, arg) # Message(o, c)
    BY <1>9 DEF Message, BlockingOps, CallOps
  <2>3. Held(c)' => Held(c)
    BY <1>9, <2>1, <2>2 DEF Held, Blocks, jobVars, CallOps
  <2>4. QED
    BY <1>9, <2>1, <2>2, <2>3, OrderKept DEF Blocks, taskVars, CallOps
<1>10. ASSUME NEW op \in {"eval", "eval_module"}, Blocks(op, NoCall) PROVE CallOrder(c)'
  BY <1>9, <1>10, SentAreMessages DEF BlockingOps
<1>11. ASSUME NEW python \in Loaders, Blocks("set_module_loader", python) PROVE CallOrder(c)'
  BY <1>9, <1>11, SentAreMessages DEF BlockingOps
<1>12. QED
  BY <1>2, <1>3, <1>4, <1>5, <1>6, <1>7, <1>8, <1>10, <1>11 DEF PythonStep

LEMMA OrderTask ==
  ASSUME TypeOK, NEW c \in Calls, CallOrder(c), TaskStep
  PROVE  CallOrder(c)'
<1> USE DEF TypeOK, CallTypes
<1>1. ASSUME NEW d \in Calls, Send(d) PROVE CallOrder(c)'
  <2>1. /\ task'[c] = IF c = d THEN "sent" ELSE task[c]
        /\ task[d] = "spawned" /\ UNCHANGED <<future, queue, active>>
    BY <1>1 DEF Send, pythonVars, jobVars
  <2>2. CASE thread = "exited"
    BY <1>1, <2>1, <2>2, OrderGoesOn DEF Send, Held
  <2>3. CASE thread # "exited"
    <3>1. PICK op \in {"submit", "resume"} : channel' = Append(channel, Message(op, d))
      BY <1>1, <2>3 DEF Send
    <3>2. ToSet(channel') = ToSet(channel) \cup {Message(op, d)}
      BY <3>1, Sent, SentAreMessages DEF CallOps
    <3>3. /\ Message("call", c) # Message(op, d)
          /\ \A o : Message(o, c) = Message(op, d) => c = d
      BY DEF Message
    <3>4. Held(c)' => Held(c) \/ c = d
      BY <2>1, <3>2, <3>3 DEF Held
    <3>5. QED
      BY <2>1, <3>2, <3>3, <3>4 DEF CallOrder
  <2>4. QED
    BY <2>2, <2>3
<1>2. ASSUME NEW d \in Calls, Post(d) PROVE CallOrder(c)'
  <2>1. /\ task'[c] = task[c] \/ (task[c] # "none" /\ task'[c] # "none")
        /\ UNCHANGED <<queue, active, channel>>
    BY <1>2 DEF Post, jobVars
  <2>2. \/ future'[c] = future[c]
        \/ future[c] = "pending" /\ future'[c] = "done"
    BY <1>2 DEF Post
  <2>3. QED
    BY <2>1, <2>2, OrderGoesOn DEF Held
<1>3. ASSUME NEW d \in Calls, GiveUp(d) PROVE CallOrder(c)'
  <2>1. /\ task'[c] = task[c] \/ (task[c] # "none" /\ task'[c] # "none")
        /\ UNCHANGED <<queue, active, channel, future>>
    BY <1>3 DEF GiveUp, jobVars, pythonVars
  <2>2. QED
    BY <2>1, OrderGoesOn DEF Held
<1>4. QED
  BY <1>1, <1>2, <1>3 DEF TaskStep

LEMMA OrderThread ==
  ASSUME TypeOK, WaitInv, NEW c \in Calls, CallOrder(c), ThreadStep
  PROVE  CallOrder(c)'
<1>1. CASE HandleSubmit
  <2>1. Takes("submit") /\ Submit(Head(channel).arg) /\ UNCHANGED <<future, task>>
    BY <1>1 DEF HandleSubmit, Takes, taskVars
  <2>2. QED
    BY <2>1, OrderSubmitted
<1>2. CASE HandleResume
  <2>1. Takes("resume") /\ Submit(Head(channel).arg) /\ UNCHANGED <<future, task>>
    BY <1>2 DEF HandleResume, Takes, taskVars
  <2>2. QED
    BY <2>1, OrderSubmitted
<1>3. ASSUME NEW op, Takes(op), UNCHANGED <<queue, active>>
      PROVE  /\ Held(c)' => Held(c)
             /\ Message("call", c) \in ToSet(channel') => Message("call", c) \in ToSet(channel)
  <2>1. ToSet(channel) = {Head(channel)} \cup ToSet(channel')
    BY <1>3, TakenCommand
  <2>2. QED
    BY <1>3, <2>1 DEF Held
<1>4. CASE HandleCall
  <2> DEFINE d == Head(channel).arg
  <2>1. Takes("call") /\ UNCHANGED <<queue, active, task>>
    BY <1>4 DEF HandleCall, Takes, taskVars, jobVars
  <2>2. /\ d \in Calls /\ ToSet(channel') \cap BlockingMessages = {}
        /\ Message("call", d) \in ToSet(channel)
    BY <2>1, TakenCommand DEF CallOps, BlockingOps, WaitInv
  <2>3. Message("call", c) \notin ToSet(channel')
    <3>1. Message("call", c) \in BlockingMessages
      BY SentAreMessages DEF CallOps, BlockingMessages, BlockingOps, Message
    <3>2. QED
      BY <2>2, <3>1
  <2>4. \/ future'[c] = future[c]
        \/ c = d /\ future'[c] \in {"done", "promised"}
    BY <1>4, <2>2 DEF HandleCall, TypeOK, CallTypes
  <2>5. Held(c)' => Held(c)
    BY <1>3, <2>1
  <2>6. QED
    BY <2>1, <2>2, <2>3, <2>4, <2>5 DEF CallOrder
<1>5. CASE HandleEval \/ HandleEvalModule \/ HandleSetModuleLoader
  <2>1. PICK op : Takes(op)
    BY <1>5 DEF HandleEval, HandleEvalModule, HandleSetModuleLoader
  <2>2. UNCHANGED <<queue, active, task, future>>
    BY <1>5
    DEF HandleEval, HandleEvalModule, HandleSetModuleLoader, Takes, taskVars, jobVars
  <2>3. QED
    BY <1>3, <2>1, <2>2, OrderKept
<1>6. CASE Begin \/ LoaderReturns
  <2>1. UNCHANGED <<queue, active, task, future, channel>>
    BY <1>6 DEF Begin, LoaderReturns, pythonVars, taskVars, jobVars
  <2>2. QED
    BY <2>1, OrderKept DEF Held
<1>7. CASE BeginFails \/ Settle \/ LoopFails
  <2>1. PICK a \in Answers : Finish(a)
    BY <1>7 DEF BeginFails, Settle, LoopFails, Answers
  <2>2. UNCHANGED <<future, task, channel>>
    BY <1>7 DEF BeginFails, Settle, LoopFails, pythonVars
  <2>3. QED
    BY <2>1, <2>2, OrderFinished
<1>8. CASE LoaderFails
  <2>1. UNCHANGED <<future, task, channel>>
    BY <1>8 DEF LoaderFails
  <2>2. CASE thread = "evaluating"
    <3>1. UNCHANGED <<queue, active>>
      BY <1>8, <2>2 DEF LoaderFails, jobVars
    <3>2. QED
      BY <2>1, <3>1, OrderKept DEF Held
  <2>3. CASE thread # "evaluating"
    <3>1. "error" \in Answers /\ Finish("error")
      BY <1>8, <2>3 DEF LoaderFails, Answers
    <3>2. QED
      BY <2>1, <3>1, OrderFinished
  <2>4. QED
    BY <2>2, <2>3
<1>9. CASE Exit
  <2>1. ~Held(c)' /\ Message("call", c) \notin ToSet(channel')
    BY <1>9, AsyncCallsAssumption DEF Exit, Held, ToSet
  <2>2. /\ task' = task
        /\ future'[c] = IF future[c] = "calling" THEN "raised" ELSE future[c]
    BY <1>9 DEF Exit
  <2>3. QED
    BY <2>1, <2>2 DEF CallOrder
<1>10. QED
  BY <1>1, <1>2, <1>4, <1>5, <1>6, <1>7, <1>8, <1>9 DEF ThreadStep

LEMMA OrderStep ==
  ASSUME TypeOK, WaitInv, \A c \in Calls : CallOrder(c), [Next]_vars
  PROVE  \A c \in Calls : CallOrder(c)'
<1>1. CASE UNCHANGED vars
  BY <1>1 DEF vars, pythonVars, taskVars, jobVars, CallOrder, Held
<1>2. QED
  BY <1>1, OrderPython, OrderTask, OrderThread DEF Next

-----------------------------------------------------------------------------
(* A call is answered once. *)

\* The commands that make a job of the call.
JobMessages(c) == {Message("submit", c), Message("resume", c)}

\* A call has one job at most, in one place; it has none before its command is
\* sent, one until it is answered, and none after that.
OneJob(c) ==
  /\ AtMostOne(channel, JobMessages(c)) /\ AtMostOne(queue, {c})
  /\ c = active => c \notin ToSet(queue)
  /\ c = active \/ c \in ToSet(queue) => ToSet(channel) \cap JobMessages(c) = {}
  /\ Held(c) => answer[c] = "none"
  /\ task[c] \in {"none", "spawned"} => ~Held(c) /\ answer[c] = "none"
  /\ task[c] = "sent" => Held(c) \/ answer[c] # "none"

\* Held, in terms of sets.
LEMMA HeldForms ==
  ASSUME NEW c
  PROVE  /\ Held(c) <=> \/ c = active \/ c \in ToSet(queue)
                        \/ ToSet(channel) \cap JobMessages(c) # {}
         /\ Held(c)' <=> \/ c = active' \/ c \in ToSet(queue')
                         \/ ToSet(channel') \cap JobMessages(c) # {}
BY DEF Held, JobMessages

\* A command of another call, or of another kind, is none of this call's jobs.
LEMMA OtherMessages ==
  ASSUME NEW c, NEW d, NEW op, op \notin {"submit", "resume"} \/ c # d
  PROVE  Message(op, d) \notin JobMessages(c)
BY DEF Message, JobMessages

\* A command that is no job of the call is sent.
LEMMA OtherSent ==
  ASSUME TypeOK, NEW c, NEW m \in Messages, m \notin JobMessages(c),
         channel' = Append(channel, m), AtMostOne(channel, JobMessages(c))
  PROVE  /\ AtMostOne(channel', JobMessages(c))
         /\ ToSet(channel') \cap JobMessages(c) = ToSet(channel) \cap JobMessages(c)
<1>1. channel \in Seq(Messages)
  BY DEF TypeOK, JobTypes
<1>2. AtMostOne(channel', JobMessages(c))
  BY <1>1, AppendedAtMostOne
<1>3. ToSet(channel') = ToSet(channel) \cup {m}
  BY Sent
<1>4. QED
  BY <1>2, <1>3

\* A command is taken.
LEMMA JobTaken ==
  ASSUME TypeOK, NEW c, NEW op, Takes(op), AtMostOne(channel, JobMessages(c))
  PROVE  /\ AtMostOne(channel', JobMessages(c))
         /\ Head(channel) \in JobMessages(c) => ToSet(channel') \cap JobMessages(c) = {}
         /\ Head(channel) \notin JobMessages(c) =>
              ToSet(channel') \cap JobMessages(c) = ToSet(channel) \cap JobMessages(c)
<1>1. channel \in Seq(Messages) /\ channel # << >> /\ channel' = Tail(channel)
  BY DEF Takes, TypeOK, JobTypes
<1>2. /\ AtMostOne(Tail(channel), JobMessages(c))
      /\ Head(channel) \in JobMessages(c) => ToSet(Tail(channel)) \cap JobMessages(c) = {}
  BY <1>1, TakenAtMostOne
<1>3. ToSet(channel) = {Head(channel)} \cup ToSet(channel')
  BY TakenCommand
<1>4. QED
  BY <1>1, <1>2, <1>3

\* A step that leaves the job of the call where it is.
LEMMA OneJobKept ==
  ASSUME NEW c \in Calls, OneJob(c), UNCHANGED <<queue, active>>,
         answer'[c] = answer[c],
         \/ task'[c] = task[c]
         \/ task[c] = "none" /\ task'[c] = "spawned"
         \/ task'[c] = "ended",
         AtMostOne(channel', JobMessages(c)),
         ToSet(channel') \cap JobMessages(c) = ToSet(channel) \cap JobMessages(c)
  PROVE  OneJob(c)'
<1>1. Held(c)' <=> Held(c)
  BY HeldForms
<1>2. QED
  BY <1>1 DEF OneJob

\* The same, when no command is sent or taken.
LEMMA OneJobStays ==
  ASSUME NEW c \in Calls, OneJob(c), UNCHANGED <<queue, active, channel>>,
         answer'[c] = answer[c],
         \/ task'[c] = task[c]
         \/ task[c] = "none" /\ task'[c] = "spawned"
         \/ task'[c] = "ended"
  PROVE  OneJob(c)'
BY OneJobKept DEF OneJob

\* The same, when the command that is taken makes no job.
LEMMA OneJobBeside ==
  ASSUME TypeOK, NEW c \in Calls, OneJob(c), NEW op, Takes(op),
         op \notin {"submit", "resume"}, UNCHANGED <<queue, active, answer, task>>
  PROVE  OneJob(c)'
<1>1. Head(channel) \notin JobMessages(c)
  BY TakenCommand, OtherMessages
<1>2. QED
  BY <1>1, JobTaken, OneJobKept DEF OneJob

\* The job of a call that is submitted goes from the channel to the queue, or
\* becomes the active one.
LEMMA OneJobSubmitted ==
  ASSUME TypeOK, NEW c \in Calls, OneJob(c), NEW op \in {"submit", "resume"}, Takes(op),
         Submit(Head(channel).arg), UNCHANGED <<answer, task>>
  PROVE  OneJob(c)'
<1> DEFINE d == Head(channel).arg
<1>1. /\ d \in Calls /\ Head(channel) = Message(op, d)
      /\ ToSet(channel) = {Head(channel)} \cup ToSet(channel')
  BY TakenCommand DEF CallOps
<1>2. queue \in Seq(Calls) /\ active \in Calls \cup {NoCall} /\ c # NoCall
  BY AsyncCallsAssumption DEF TypeOK, JobTypes
<1>3. /\ AtMostOne(channel', JobMessages(c))
      /\ Head(channel) \in JobMessages(c) => ToSet(channel') \cap JobMessages(c) = {}
      /\ Head(channel) \notin JobMessages(c) =>
           ToSet(channel') \cap JobMessages(c) = ToSet(channel) \cap JobMessages(c)
  BY JobTaken DEF OneJob
<1>4. \/ active = NoCall /\ active' = d /\ queue' = queue
      \/ active # NoCall /\ active' = active /\ queue' = Append(queue, d)
  BY DEF Submit
<1>5. ToSet(queue') \subseteq ToSet(queue) \cup {d} /\ ToSet(queue) \subseteq ToSet(queue')
  <2>1. ToSet(Append(queue, d)) = ToSet(queue) \cup {d}
    BY <1>1, <1>2, Appended
  <2>2. QED
    BY <1>4, <2>1
<1>6. CASE c = d
  <2>1. Head(channel) \in JobMessages(c)
    BY <1>1, <1>6 DEF JobMessages
  <2>2. c # active /\ c \notin ToSet(queue) /\ Held(c)
    BY <1>1, <2>1, HeldForms DEF OneJob
  <2>3. AtMostOne(queue', {c})
    <3>1. AtMostOne(Append(queue, d), {c})
      BY <1>1, <1>2, <2>2, AppendedAtMostOne DEF OneJob
    <3>2. QED
      BY <1>4, <3>1 DEF OneJob
  <2>4. \/ c = active' /\ c \notin ToSet(queue')
        \/ c # active' /\ c \in ToSet(queue')
    <3>1. ToSet(Append(queue, d)) = ToSet(queue) \cup {d}
      BY <1>1, <1>2, Appended
    <3>2. QED
      BY <1>4, <1>6, <2>2, <3>1
  <2>5. Held(c)'
    BY <2>4, HeldForms
  <2>6. QED
    BY <1>3, <2>1, <2>2, <2>3, <2>4, <2>5 DEF OneJob
<1>7. CASE c # d
  <2>1. Head(channel) \notin JobMessages(c)
    BY <1>1, <1>7, OtherMessages
  <2>2. AtMostOne(queue', {c})
    <3>1. AtMostOne(Append(queue, d), {c})
      BY <1>1, <1>2, <1>7, AppendedAtMostOne DEF OneJob
    <3>2. QED
      BY <1>4, <3>1 DEF OneJob
  <2>3. /\ (c = active') <=> (c = active)
        /\ (c \in ToSet(queue')) <=> (c \in ToSet(queue))
    BY <1>2, <1>4, <1>5, <1>7
  <2>4. Held(c)' <=> Held(c)
    BY <1>3, <2>1, <2>3, HeldForms
  <2>5. QED
    BY <1>3, <2>1, <2>2, <2>3, <2>4 DEF OneJob
<1>8. QED
  BY <1>6, <1>7

\* The active job is answered and leaves; the next one moves up.
LEMMA OneJobFinished ==
  ASSUME TypeOK, NEW c \in Calls, OneJob(c), NEW a \in {"value", "error"}, Finish(a),
         UNCHANGED <<channel, task>>
  PROVE  OneJob(c)'
<1>1. /\ queue \in Seq(Calls) /\ answer \in [Calls -> Answers] /\ c # NoCall
  BY AsyncCallsAssumption DEF TypeOK, JobTypes, CallTypes
<1>2. answer'[c] = IF c = active THEN a ELSE answer[c]
  BY <1>1 DEF Finish
<1>3. /\ AtMostOne(queue', {c})
      /\ c \in ToSet(queue) <=> (c = active' \/ c \in ToSet(queue'))
      /\ c = active' => c \notin ToSet(queue')
  <2>1. CASE queue = << >>
    BY <1>1, <2>1 DEF Finish, AtMostOne, ToSet
  <2>2. CASE queue # << >>
    <3>1. active' = Head(queue) /\ queue' = Tail(queue)
      BY <2>2 DEF Finish
    <3>2. ToSet(queue) = {Head(queue)} \cup ToSet(Tail(queue))
      BY <1>1, <2>2, Taken
    <3>3. /\ AtMostOne(Tail(queue), {c})
          /\ Head(queue) \in {c} => ToSet(Tail(queue)) \cap {c} = {}
      BY <1>1, <2>2, TakenAtMostOne DEF OneJob
    <3>4. QED
      BY <3>1, <3>2, <3>3
  <2>3. QED
    BY <2>1, <2>2
<1>4. CASE c = active
  <2>1. Held(c) /\ ~Held(c)'
    BY <1>3, <1>4, HeldForms DEF OneJob
  <2>2. QED
    BY <1>2, <1>3, <1>4, <2>1 DEF OneJob
<1>5. CASE c # active
  <2>1. Held(c)' <=> Held(c)
    BY <1>3, <1>5, HeldForms
  <2>2. QED
    BY <1>2, <1>3, <1>5, <2>1 DEF OneJob
<1>6. QED
  BY <1>4, <1>5

LEMMA OneJobInit == ASSUME Init PROVE \A c \in Calls : OneJob(c)
BY AsyncCallsAssumption DEF Init, OneJob, Held, AtMostOne, ToSet

\* The loop's thread makes no jobs.
LEMMA OneJobPython ==
  ASSUME TypeOK, NEW c \in Calls, OneJob(c), \A d \in Calls : CallOrder(d), PythonStep
  PROVE  OneJob(c)'
<1>1. ASSUME NEW m \in Messages, m.op \notin {"submit", "resume"},
             channel' = Append(channel, m), UNCHANGED <<queue, active, answer, task>>
      PROVE  OneJob(c)'
  <2>1. m \notin JobMessages(c)
    BY <1>1 DEF JobMessages, Message
  <2>2. QED
    BY <1>1, <2>1, OtherSent, OneJobKept DEF OneJob
<1>2. ASSUME NEW d \in Calls, Bridge(d), future[d] \in {"new", "promised"}
      PROVE  task'[c] = task[c] \/ (task[c] = "none" /\ task'[c] = "spawned")
  <2>1. task[d] = "none"
    BY <1>2 DEF CallOrder, TypeOK, CallTypes
  <2>2. QED
    BY <1>2, <2>1 DEF Bridge, TypeOK, CallTypes
<1>3. ASSUME NEW d \in Calls, CallAsync(d) \/ AwaitFunction(d) PROVE OneJob(c)'
  <2>1. task'[c] = task[c] \/ (task[c] = "none" /\ task'[c] = "spawned")
    BY <1>2, <1>3 DEF CallAsync, AwaitFunction
  <2>2. UNCHANGED <<queue, active, channel, answer>>
    BY <1>3 DEF CallAsync, AwaitFunction, jobVars
  <2>3. QED
    BY <2>1, <2>2, OneJobStays
<1>4. ASSUME NEW d \in Calls, CallFunction(d) PROVE OneJob(c)'
  <2>1. Message("call", d) \in Messages /\ Message("call", d).op = "call"
    BY SentAreMessages DEF CallOps, Message
  <2>2. QED
    BY <1>1, <1>4, <2>1 DEF CallFunction, taskVars, jobVars
<1>5. ASSUME NEW op, op \notin {"submit", "resume"}, NEW arg,
             Message(op, arg) \in Messages, Blocks(op, arg)
      PROVE  OneJob(c)'
  <2>1. Message(op, arg).op = op
    BY DEF Message
  <2>2. QED
    BY <1>1, <1>5, <2>1 DEF Blocks, taskVars, jobVars
<1>6. ASSUME NEW op \in {"eval", "eval_module"}, Blocks(op, NoCall) PROVE OneJob(c)'
  BY <1>5, <1>6, SentAreMessages
<1>7. ASSUME NEW python \in Loaders, Blocks("set_module_loader", python) PROVE OneJob(c)'
  BY <1>5, <1>7, SentAreMessages
<1>8. ASSUME NEW d \in Calls, Cancel(d) \/ RunSetter(d) PROVE OneJob(c)'
  BY <1>8, OneJobStays DEF Cancel, RunSetter, taskVars, jobVars
<1>9. ASSUME NEW l \in Loops, StartLoop(l) PROVE OneJob(c)'
  BY <1>9, OneJobStays DEF StartLoop, taskVars, jobVars
<1>10. CASE CloseLoop
  BY <1>10, OneJobStays DEF CloseLoop, jobVars
<1>11. QED
  BY <1>3, <1>4, <1>6, <1>7, <1>8, <1>9, <1>10 DEF PythonStep

\* A task sends its command once.
LEMMA OneJobTask ==
  ASSUME TypeOK, NEW c \in Calls, OneJob(c), TaskStep
  PROVE  OneJob(c)'
<1> USE DEF TypeOK, CallTypes
<1>1. ASSUME NEW d \in Calls, Send(d) PROVE OneJob(c)'
  <2>1. /\ task'[c] = IF c = d THEN "sent" ELSE task[c]
        /\ task[d] = "spawned" /\ UNCHANGED <<queue, active>>
    BY <1>1 DEF Send, jobVars
  <2>2. CASE thread = "exited"
    <3>1. /\ channel' = channel
          /\ answer'[c] = IF c = d THEN "error" ELSE answer[c]
      BY <1>1, <2>2 DEF Send
    <3>2. Held(c)' <=> Held(c)
      BY <2>1, <3>1, HeldForms
    <3>3. QED
      BY <2>1, <3>1, <3>2 DEF OneJob
  <2>3. CASE thread # "exited"
    <3>1. PICK op \in {"submit", "resume"} : channel' = Append(channel, Message(op, d))
      BY <1>1, <2>3 DEF Send
    <3>2. answer' = answer
      BY <1>1, <2>3 DEF Send
    <3>3. Message(op, d) \in Messages
      BY SentAreMessages DEF CallOps
    <3>4. CASE c # d
      <4>1. Message(op, d) \notin JobMessages(c)
        BY <3>4, OtherMessages
      <4>2. QED
        BY <2>1, <3>1, <3>2, <3>3, <3>4, <4>1, OtherSent, OneJobKept DEF OneJob
    <3>5. CASE c = d
      <4>1. ~Held(c) /\ answer[c] = "none"
        BY <2>1, <3>5 DEF OneJob
      <4>2. /\ c # active /\ c \notin ToSet(queue)
            /\ ToSet(channel) \cap JobMessages(c) = {}
        BY <4>1, HeldForms
      <4>3. channel \in Seq(Messages)
        BY DEF JobTypes
      <4>4. AtMostOne(channel', JobMessages(c))
        BY <3>1, <3>3, <4>2, <4>3, AppendedAtMostOne DEF OneJob
      <4>5. Message(op, c) \in ToSet(channel') /\ Message(op, c) \in JobMessages(c)
        BY <3>1, <3>3, <3>5, Sent DEF JobMessages
      <4>6. Held(c)'
        BY <4>5, HeldForms
      <4>7. QED
        BY <2>1, <3>2, <3>5, <4>1, <4>2, <4>4, <4>6 DEF OneJob
    <3>6. QED
      BY <3>4, <3>5
  <2>4. QED
    BY <2>2, <2>3
<1>2. ASSUME NEW d \in Calls, Post(d) \/ GiveUp(d) PROVE OneJob(c)'
  <2>1. /\ task'[c] = task[c] \/ task'[c] = "ended"
        /\ UNCHANGED <<queue, active, channel, answer>>
    BY <1>2 DEF Post, GiveUp, jobVars
  <2>2. QED
    BY <2>1, OneJobStays
<1>3. QED
  BY <1>1, <1>2 DEF TaskStep

\* The runtime moves jobs on, and answers those that leave.
LEMMA OneJobThread ==
  ASSUME TypeOK, NEW c \in Calls, OneJob(c), ThreadStep
  PROVE  OneJob(c)'
<1>1. CASE HandleSubmit
  <2>1. Takes("submit") /\ Submit(Head(channel).arg) /\ UNCHANGED <<answer, task>>
    BY <1>1 DEF HandleSubmit, Takes, taskVars
  <2>2. QED
    BY <2>1, OneJobSubmitted
<1>2. CASE HandleResume
  <2>1. Takes("resume") /\ Submit(Head(channel).arg) /\ UNCHANGED <<answer, task>>
    BY <1>2 DEF HandleResume, Takes, taskVars
  <2>2. QED
    BY <2>1, OneJobSubmitted
<1>3. CASE HandleCall \/ HandleEval \/ HandleEvalModule \/ HandleSetModuleLoader
  <2>1. PICK op \in BlockingOps : Takes(op)
    BY <1>3 DEF HandleCall, HandleEval, HandleEvalModule, HandleSetModuleLoader, BlockingOps
  <2>2. UNCHANGED <<queue, active, answer, task>>
    BY <1>3
    DEF HandleCall, HandleEval, HandleEvalModule, HandleSetModuleLoader, Takes, taskVars,
        jobVars
  <2>3. op \notin {"submit", "resume"}
    BY DEF BlockingOps
  <2>4. QED
    BY <2>1, <2>2, <2>3, OneJobBeside
<1>4. CASE Begin \/ LoaderReturns
  BY <1>4, OneJobStays DEF Begin, LoaderReturns, taskVars, jobVars
<1>5. CASE BeginFails \/ Settle \/ LoopFails
  <2>1. PICK a \in {"value", "error"} : Finish(a)
    BY <1>5 DEF BeginFails, Settle, LoopFails
  <2>2. UNCHANGED <<channel, task>>
    BY <1>5 DEF BeginFails, Settle, LoopFails
  <2>3. QED
    BY <2>1, <2>2, OneJobFinished
<1>6. CASE LoaderFails
  <2>1. UNCHANGED <<channel, task>>
    BY <1>6 DEF LoaderFails
  <2>2. CASE thread = "evaluating"
    BY <1>6, <2>1, <2>2, OneJobStays DEF LoaderFails, jobVars
  <2>3. CASE thread # "evaluating"
    <3>1. Finish("error")
      BY <1>6, <2>3 DEF LoaderFails
    <3>2. QED
      BY <2>1, <3>1, OneJobFinished
  <2>4. QED
    BY <2>2, <2>3
<1>7. CASE Exit
  <2>1. queue' = << >> /\ channel' = << >> /\ active' = NoCall /\ task' = task
    BY <1>7 DEF Exit
  <2>2. /\ AtMostOne(channel', JobMessages(c)) /\ AtMostOne(queue', {c})
        /\ c # active' /\ ToSet(queue') = {} /\ ToSet(channel') = {}
    BY <2>1, AsyncCallsAssumption DEF AtMostOne, ToSet
  <2>3. ~Held(c)'
    BY <2>2, HeldForms
  <2>4. answer'[c] = IF Held(c) THEN "error" ELSE answer[c]
    BY <1>7 DEF Exit
  <2>5. QED
    BY <2>1, <2>2, <2>3, <2>4 DEF OneJob
<1>8. QED
  BY <1>1, <1>2, <1>3, <1>4, <1>5, <1>6, <1>7 DEF ThreadStep

LEMMA OneJobStep ==
  ASSUME TypeOK, \A c \in Calls : CallOrder(c), \A c \in Calls : OneJob(c), [Next]_vars
  PROVE  \A c \in Calls : OneJob(c)'
<1>1. CASE UNCHANGED vars
  BY <1>1, OneJobStays DEF vars, taskVars, jobVars
<1>2. QED
  BY <1>1, OneJobPython, OneJobTask, OneJobThread DEF Next

-----------------------------------------------------------------------------
(* The loop that JavaScript may use. *)

\* A loop is in use only while a job runs, and it is the one of that job.
LocalsInv ==
  /\ begun => active # NoCall
  /\ LocalsBelongToJob

\* The loop of a call that has a job is settled.
LEMMA LoopStays ==
  ASSUME TypeOK, NEW c \in Calls, CallOrder(c), Held(c), Next
  PROVE  LocalsOf(c)' = LocalsOf(c)
<1>1. future[c] \notin {"new", "calling", "promised"}
  BY DEF CallOrder
<1>2. kind' = kind
  BY DEF Next, PythonStep, TaskStep, ThreadStep, StartLoop, CloseLoop, CallAsync,
         CallFunction, AwaitFunction, Cancel, RunSetter, Blocks, Send, Post, GiveUp,
         HandleSubmit, HandleResume, HandleCall, HandleEval, HandleEvalModule,
         HandleSetModuleLoader, Takes, Begin, BeginFails, Settle, LoopFails,
         LoaderReturns, LoaderFails, Exit, pythonVars
<1>3. \/ loopOf' = loopOf
      \/ \E d \in Calls : future[d] \in {"new", "promised"} /\ Bridge(d)
  BY DEF Next, PythonStep, TaskStep, ThreadStep, StartLoop, CloseLoop, CallAsync,
         CallFunction, AwaitFunction, Cancel, RunSetter, Blocks, Send, Post, GiveUp,
         HandleSubmit, HandleResume, HandleCall, HandleEval, HandleEvalModule,
         HandleSetModuleLoader, Takes, Begin, BeginFails, Settle, LoopFails,
         LoaderReturns, LoaderFails, Exit, pythonVars
<1>4. loopOf'[c] = loopOf[c]
  BY <1>1, <1>3 DEF Bridge, TypeOK, CallTypes
<1>5. QED
  BY <1>2, <1>4 DEF LocalsOf

LEMMA LocalsInit == ASSUME Init PROVE LocalsInv
BY DEF Init, LocalsInv, LocalsBelongToJob

LEMMA LocalsStep ==
  ASSUME TypeOK, \A c \in Calls : CallOrder(c), LocalsInv, [Next]_vars
  PROVE  LocalsInv'
<1>1. CASE UNCHANGED vars
  BY <1>1 DEF vars, pythonVars, jobVars, LocalsInv, LocalsBelongToJob, LocalsOf
<1> SUFFICES ASSUME Next PROVE LocalsInv'
  BY <1>1
<1>2. active \in Calls => LocalsOf(active)' = LocalsOf(active) \/ active' # active
  <2>1. ASSUME NEW c \in Calls, c = active, active' = active
        PROVE  LocalsOf(active)' = LocalsOf(active)
    <3>1. LocalsOf(c)' = LocalsOf(c)
      BY <2>1, LoopStays DEF Held
    <3>2. QED
      BY <2>1, <3>1 DEF LocalsOf
  <2>2. QED
    BY <2>1
<1>3. active \in Calls \cup {NoCall}
  BY DEF TypeOK, JobTypes
<1>4. ASSUME UNCHANGED <<active, begun, locals>> PROVE LocalsInv'
  BY <1>2, <1>3, <1>4 DEF LocalsInv, LocalsBelongToJob
<1>5. ASSUME NEW a, Finish(a) PROVE LocalsInv'
  BY <1>5 DEF Finish, LocalsInv, LocalsBelongToJob
<1>6. CASE HandleSubmit \/ HandleResume
  <2>1. CASE active = NoCall
    BY <1>6, <2>1
    DEF HandleSubmit, HandleResume, Submit, LocalsInv, LocalsBelongToJob
  <2>2. CASE active # NoCall
    BY <1>4, <1>6, <2>2 DEF HandleSubmit, HandleResume, Submit
  <2>3. QED
    BY <2>1, <2>2
<1>7. CASE Begin
  <2>1. /\ active # NoCall /\ active' = active /\ begun' = TRUE /\ locals = NoLoop
        /\ locals' = IF LocalsOf(active) # NoLoop THEN LocalsOf(active) ELSE locals
    BY <1>7 DEF Begin, LocalsInv, LocalsBelongToJob
  <2>2. locals' = LocalsOf(active)
    BY <2>1
  <2>3. QED
    BY <1>2, <1>3, <2>1, <2>2 DEF LocalsInv, LocalsBelongToJob
<1>8. CASE BeginFails \/ Settle \/ LoopFails
  BY <1>5, <1>8 DEF BeginFails, Settle, LoopFails
<1>9. CASE LoaderFails
  BY <1>4, <1>5, <1>9 DEF LoaderFails, jobVars
<1>10. CASE Exit
  BY <1>10 DEF Exit, LocalsInv, LocalsBelongToJob
<1>11. CASE PythonStep \/ TaskStep
  BY <1>4, <1>11
  DEF PythonStep, TaskStep, StartLoop, CloseLoop, CallAsync, CallFunction, AwaitFunction,
      Cancel, RunSetter, Blocks, Send, Post, GiveUp, jobVars
<1>12. CASE HandleCall \/ HandleEval \/ HandleEvalModule \/ HandleSetModuleLoader
            \/ LoaderReturns
  BY <1>4, <1>12
  DEF HandleCall, HandleEval, HandleEvalModule, HandleSetModuleLoader, LoaderReturns, jobVars
<1>13. QED
  BY <1>6, <1>7, <1>8, <1>9, <1>10, <1>11, <1>12 DEF Next, ThreadStep

-----------------------------------------------------------------------------
(* The invariant, and what follows from it. *)

AsyncInv ==
  /\ TypeOK /\ WaitInv
  /\ \A c \in Calls : CallOrder(c)
  /\ \A c \in Calls : OneJob(c)
  /\ LocalsInv

\* A call has its future before its task, its task before its job, and one job
\* at most until it is answered; so the loop of a job that runs never changes
\* (bridge_js_future, submit_job, RuntimeJob::finish).
THEOREM AsyncInvariant == Spec => []AsyncInv
<1>1. Init => AsyncInv
  BY TypeInit, WaitInit, OrderInit, OneJobInit, LocalsInit DEF AsyncInv
<1>2. AsyncInv /\ [Next]_vars => AsyncInv'
  BY TypeStep, WaitStep, OrderStep, OneJobStep, LocalsStep DEF AsyncInv
<1>3. QED
  BY <1>1, <1>2, PTL DEF Spec

\* Code in JavaScript, and the module loader, use the loop of the call they work
\* for and no other (install_task_locals, clear_task_locals).
THEOREM LocalsAreTheJobs == Spec => []LocalsBelongToJob
<1>1. AsyncInv => LocalsBelongToJob
  BY DEF AsyncInv, LocalsInv
<1>2. QED
  BY <1>1, AsyncInvariant, PTL

\* A thread that waits for a blocking call waits for a command that the runtime
\* has or for the module it loads, and for one call: no other answer can wake
\* it, and none that it waits for is missed.
THEOREM WaitersAwaitTheRuntime == Spec => []WaitsForRuntime
<1>1. AsyncInv => WaitsForRuntime
  BY WaitForms DEF AsyncInv
<1>2. QED
  BY <1>1, AsyncInvariant, PTL

\* A call that was sent is answered exactly when the runtime has no job of it:
\* no answer is lost and none is given twice, whatever ends a job (submit_job,
\* RuntimeJob::finish, cancel_all_jobs).
THEOREM CallsAreAnsweredOnce == Spec => []AnswersAreOwed
<1>1. AsyncInv => AnswersAreOwed
  BY DEF AsyncInv, OneJob, AnswersAreOwed
<1>2. QED
  BY <1>1, AsyncInvariant, PTL
=============================================================================

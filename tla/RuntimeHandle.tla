---------------------------- MODULE RuntimeHandle ----------------------------
(***************************************************************************)
(* RuntimeHandle and TerminationHandle: the host threads around one        *)
(* runtime thread.                                                         *)
(*                                                                         *)
(* The owner is the Python thread that created the Runtime; it makes the   *)
(* synchronous calls, terminate() and close().  An asynchronous call is a  *)
(* future on another thread, which checks the handle and sends on its own. *)
(* Killers are threads holding a TerminationHandle.                        *)
(***************************************************************************)
EXTENDS RuntimeThread

CONSTANTS
  Killers,  \* threads holding a TerminationHandle
  Grace     \* whether force_kill_grace is configured

ASSUME GraceAssumption == Grace \in BOOLEAN

VARIABLES
  owner,       \* what the owning thread is doing
  termResult,  \* what terminate() returned to the owner
  shutdown,    \* RuntimeHandle.shutdown
  killer       \* per killer: its place in TerminationHandle.terminate()

ownerVars == << owner, termResult >>
handleVars == << owner, termResult, shutdown, killer >>
vars == << threadVars, handleVars >>

InFlight == {"issued", "checked", "sent"}

HandleTypeOK ==
  /\ owner \in {"free", "calling", "reasoned", "joining", "sending", "latching",
                "confirming", "closing", "dropped"}
  /\ termResult \in {"none", "ok", "failed", "forceKilled"}
  /\ shutdown \in BOOLEAN
  /\ killer \in [Killers -> {"idle", "reasoned", "requested", "done"}]

\* Types, for the thread and for the threads around it.
TypeOK == ThreadTypeOK /\ HandleTypeOK

Init ==
  /\ ThreadInit
  /\ owner = "free" /\ termResult = "none" /\ shutdown = FALSE
  /\ killer = [k \in Killers |-> "idle"]

-----------------------------------------------------------------------------
(* Calls.  sender() is read first, the command is sent later. *)

\* close() holds the shutdown mutex while it waits for its confirmation.
LockFree == owner # "closing"

\* A JsFunction carries a handle of its own and outlives Runtime.close().
Issue(c) ==
  /\ call[c] = "new"
  /\ owner = "free" \/ (owner = "dropped" /\ c \in FunctionCalls)
  /\ call' = [call EXCEPT ![c] = "issued"]
  /\ owner' = IF c \in SyncCalls THEN "calling" ELSE owner
  /\ UNCHANGED << terminationVars, timerVars, positionVars, jobVars,
                  channelVars, termResult, shutdown, killer >>

CheckSender(c) ==
  /\ call[c] = "issued"
  /\ IF status # "running"
       THEN call' = [call EXCEPT ![c] = "terminated"]
       ELSE /\ LockFree
            /\ call' = [call EXCEPT ![c] = IF shutdown THEN "refused" ELSE "checked"]
  /\ UNCHANGED << terminationVars, timerVars, positionVars, jobVars,
                  channelVars, handleVars >>

Send(c) ==
  /\ call[c] = "checked"
  /\ IF rxOpen
       THEN /\ queue' = Append(queue, c)
            /\ call' = [call EXCEPT ![c] = "sent"]
       ELSE /\ call' = [call EXCEPT ![c] = "refused"]
            /\ UNCHANGED queue
  /\ UNCHANGED << terminationVars, timerVars, positionVars, jobVars, rxOpen,
                  reply, handleVars >>

\* Seeded fault: the handle is shut down and the status is left as it was.
ForceShutdownOnly ==
  /\ Grace /\ status # "running"
  /\ UNCHANGED status
  /\ shutdown' = TRUE

\* Seeded fault: only a termination nobody has acknowledged is escalated.
ForceRequestedOnly ==
  /\ Grace /\ status = "requested"
  /\ status' = "terminated"
  /\ shutdown' = TRUE

\* The force-kill escalation: mark the runtime dead from the host's side.
ForceTerminated ==
  /\ Grace /\ status # "running"
  /\ status' = "terminated"
  /\ shutdown' = TRUE

\* recv_result gives up on a synchronous call.
ForceKill(c) ==
  /\ c \in SyncCalls /\ call[c] = "sent"
  /\ ForceTerminated
  /\ call' = [call EXCEPT ![c] = "forceKilled"]
  /\ UNCHANGED << reason, latch, wake, coreTerminated, timerVars, positionVars,
                  jobVars, channelVars, ownerVars, killer >>

CallReturns ==
  /\ owner = "calling"
  /\ \A c \in SyncCalls : call[c] \notin InFlight
  /\ owner' = "free"
  /\ UNCHANGED << threadVars, termResult, shutdown, killer >>

-----------------------------------------------------------------------------
(* RuntimeHandle::terminate, once. *)

TerminateBegins ==
  /\ "noTerminate" \notin Env
  /\ owner = "free" /\ termResult = "none"
  /\ IF status = "terminated"
       THEN termResult' = "ok" /\ UNCHANGED << reason, owner >>
       ELSE EnsureReason("host") /\ owner' = "reasoned" /\ UNCHANGED termResult
  /\ UNCHANGED << status, latch, wake, coreTerminated, timerVars, positionVars,
                  jobVars, channelVars, call, shutdown, killer >>

\* Only the first to request a termination sends the command.
TerminateRequests ==
  /\ owner = "reasoned"
  /\ Request
  /\ owner' = IF status = "running" THEN "sending" ELSE "joining"
  /\ UNCHANGED << reason, latch, coreTerminated, timerVars, positionVars,
                  jobVars, channelVars, call, termResult, shutdown, killer >>

TerminateSends ==
  /\ owner = "sending"
  /\ IF rxOpen
       THEN queue' = Append(queue, "terminate") /\ owner' = "latching"
            /\ UNCHANGED termResult
       ELSE termResult' = "failed" /\ owner' = "free" /\ UNCHANGED queue
  /\ UNCHANGED << terminationVars, timerVars, positionVars, jobVars, rxOpen,
                  reply, call, shutdown, killer >>

TerminateLatches ==
  /\ owner = "latching"
  /\ latch' = TRUE
  /\ owner' = "confirming"
  /\ UNCHANGED << status, reason, wake, coreTerminated, timerVars,
                  positionVars, jobVars, channelVars, call, termResult,
                  shutdown, killer >>

TerminateConfirmed ==
  /\ owner = "confirming" /\ reply # "none"
  /\ termResult' = IF reply = "ok" THEN "ok" ELSE "failed"
  /\ shutdown' = (shutdown \/ reply = "ok")
  /\ owner' = "free"
  /\ UNCHANGED << threadVars, killer >>

\* Somebody else is terminating: poll until they have finished.
TerminateJoined ==
  /\ owner = "joining" /\ status = "terminated"
  /\ termResult' = "ok" /\ owner' = "free"
  /\ UNCHANGED << threadVars, shutdown, killer >>

\* Seeded fault: waiting for somebody else's termination is not bounded.
TerminateForcesConfirming ==
  /\ owner = "confirming"
  /\ ForceTerminated
  /\ termResult' = "forceKilled" /\ owner' = "free"
  /\ UNCHANGED << reason, latch, wake, coreTerminated, timerVars, positionVars,
                  jobVars, channelVars, call, killer >>

TerminateForces ==
  /\ owner \in {"joining", "confirming"}
  /\ ForceTerminated
  /\ termResult' = "forceKilled" /\ owner' = "free"
  /\ UNCHANGED << reason, latch, wake, coreTerminated, timerVars, positionVars,
                  jobVars, channelVars, call, killer >>

-----------------------------------------------------------------------------
(* RuntimeHandle::close. *)

\* Python takes the handle out of the Runtime before anything else, so the
\* owner keeps nothing whatever close() finds.
CloseBegins ==
  /\ owner = "free"
  /\ IF shutdown \/ status # "running"
       THEN shutdown' = TRUE /\ owner' = "dropped" /\ UNCHANGED queue
       ELSE /\ UNCHANGED shutdown
            /\ IF rxOpen
                 THEN queue' = Append(queue, "shutdown") /\ owner' = "closing"
                 ELSE owner' = "dropped" /\ UNCHANGED queue
  /\ UNCHANGED << terminationVars, timerVars, positionVars, jobVars, rxOpen,
                  reply, call, termResult, killer >>

CloseConfirmed ==
  /\ owner = "closing" /\ reply # "none"
  /\ shutdown' = (shutdown \/ reply = "ok")
  /\ owner' = "dropped"
  /\ UNCHANGED << threadVars, termResult, killer >>

\* The last reference to the Runtime goes away without close().
OwnerDrops ==
  /\ owner = "free"
  /\ owner' = "dropped"
  /\ UNCHANGED << threadVars, termResult, shutdown, killer >>

\* The channel is open while any handle holds a sender.
SendersAlive ==
  \/ owner # "dropped"
  \/ \E c \in Calls : call[c] \in InFlight
  \/ \E c \in FunctionCalls : call[c] = "new"

-----------------------------------------------------------------------------
(* TerminationHandle::terminate. *)

KillerReasons(k) ==
  /\ killer[k] = "idle"
  /\ EnsureReason("handle")
  /\ killer' = [killer EXCEPT ![k] = "reasoned"]
  /\ UNCHANGED << status, latch, wake, coreTerminated, timerVars, positionVars,
                  jobVars, channelVars, call, ownerVars, shutdown >>

KillerRequests(k) ==
  /\ killer[k] = "reasoned"
  /\ Request
  /\ killer' = [killer EXCEPT ![k] = "requested"]
  /\ UNCHANGED << reason, latch, coreTerminated, timerVars, positionVars,
                  jobVars, channelVars, call, ownerVars, shutdown >>

KillerLatches(k) ==
  /\ killer[k] = "requested"
  /\ latch' = TRUE
  /\ killer' = [killer EXCEPT ![k] = "done"]
  /\ UNCHANGED << status, reason, wake, coreTerminated, timerVars,
                  positionVars, jobVars, channelVars, call, ownerVars,
                  shutdown >>

-----------------------------------------------------------------------------
\* Every blocking method but this one detaches from the interpreter first:
\* Runtime.terminate() keeps the lock until RuntimeHandle::terminate returns.
InterpreterHeld ==
  "gil" \in Env /\ owner \in {"reasoned", "joining", "sending", "latching", "confirming"}

\* A host function runs under Python::attach, so it comes back only to a
\* thread that can take the interpreter lock.
HostReturns == Unwedge /\ ~InterpreterHeld

ThreadStep ==
  /\ \/ DispatcherStep
     \/ HandleChannelClosed /\ ~SendersAlive
     \/ (WakeUp \/ Tick) /\ SendersAlive
  /\ UNCHANGED handleVars

\* Steps a thread takes once it has begun, and will not put off for ever.
CallStep(c) == CheckSender(c) \/ Send(c)
OwnerStep ==
  \/ CallReturns
  \/ TerminateRequests \/ TerminateSends \/ TerminateLatches
  \/ TerminateConfirmed \/ TerminateJoined \/ TerminateForces
  \/ CloseConfirmed
KillerStep(k) == KillerRequests(k) \/ KillerLatches(k)

\* Steps the application decides to take, or not.
HostDecides ==
  \/ \E c \in Calls : Issue(c)
  \/ TerminateBegins \/ CloseBegins \/ OwnerDrops
  \/ \E k \in Killers : KillerReasons(k)

Next ==
  \/ ThreadStep
  \/ (GuestStep \/ HostReturns) /\ UNCHANGED handleVars
  \/ \E c \in Calls : TimerStep(c) /\ UNCHANGED handleVars
  \/ \E c \in Calls : CallStep(c) \/ ForceKill(c)
  \/ OwnerStep
  \/ \E k \in Killers : KillerStep(k)
  \/ HostDecides

Spec == Init /\ [][Next]_vars

\* The runtime thread runs, V8 honours its latch, timers expire, and a host
\* thread that has begun an operation carries on.  Nothing is assumed of guest
\* code, which need not return, nor of host functions, which need not come
\* back, nor of the application.
Fairness ==
  /\ WF_vars(ThreadStep)
  /\ \A c \in Calls : WF_vars(CallStep(c)) /\ WF_vars(ForceKill(c))
                      /\ WF_vars(TimerStep(c) /\ UNCHANGED handleVars)
  /\ WF_vars(OwnerStep)
  /\ \A k \in Killers : WF_vars(KillerStep(k))

FairSpec == Spec /\ Fairness

\* Host functions come back as soon as they can, and V8 unwinds even
\* JavaScript that keeps calling them.
HostFairSpec ==
  /\ FairSpec
  /\ WF_vars(HostReturns /\ UNCHANGED handleVars)
  /\ SF_vars((LoopJsUnwinds \/ StartJsUnwinds \/ EvalUnwinds) /\ UNCHANGED handleVars)

-----------------------------------------------------------------------------
(* Safety. *)

\* A call the runtime has accepted is in exactly one place that will answer
\* it: the channel, the job list or the running evaluation.  So no path of
\* the dispatcher drops a responder silently or answers a caller twice.
LiveCallHeld ==
  /\ IsInjective(queue) /\ IsInjective(jobs)
  /\ ToSet(queue) \cap (JobSet \cup {evaluating}) = {}
  /\ \A c \in Calls : call[c] = "sent" =>
       c \in ToSet(queue) \cup JobSet \cup {evaluating}

\* A watchdog never outlives the call that armed it while the runtime goes on:
\* one that did would terminate whatever the isolate runs next.
WatchdogBelongsToCall ==
  pc \notin {"dropping", "gone"} =>
    \A c \in Calls : watchdog[c] \in {"armed", "firing"} =>
      evaluating = c \/ c \in JobSet

\* A timeout is reported only to a call that asked for one and whose own
\* timer ran out, whoever else was terminated meanwhile.
TimeoutHonest ==
  \A c \in Calls : call[c] = "timeout" =>
    c \in Timed /\ (c \in due \/ watchdog[c] = "fired")

\* Every termination has a reason to report, whichever of the owner, a
\* TerminationHandle, the heap limit or the closed channel started it.
ReasonKnown == status # "running" => reason # "none"

\* What the threads know of a termination agrees: the thread's own mark with the
\* shared status, that with the reason on record, and a call is told the runtime
\* was terminated only when a termination had been requested.
TerminationAgrees ==
  /\ ReasonKnown
  /\ coreTerminated => status = "terminated"
  /\ \A c \in Calls : call[c] \in {"terminated", "forceKilled"} =>
       status # "running"

\* However terminate() returns, an error included, the runtime is dead by then.
TerminateTakesEffect == termResult # "none" => status = "terminated"

\* The thread leaves its loop only for a termination that has taken effect or
\* for a command it has answered.
ExitExplained ==
  pc \in {"dropping", "gone"} => status = "terminated" \/ reply # "none"

\* Refinement: the calls and the lifecycle behave as CallContract says.
AbstractAnswer(c) ==
  CASE call[c] = "new" -> "none"
    [] call[c] \in InFlight -> "waiting"
    [] OTHER -> call[c]

Promise == INSTANCE CallContract WITH
  Answers <- Outcomes,
  TerminationAnswers <- {"terminated", "forceKilled"},
  lifecycle <- status,
  answer <- [c \in Calls |-> AbstractAnswer(c)]

KeepsContract == Promise!Contract

-----------------------------------------------------------------------------
(* Liveness. *)

\* JavaScript that no termination stops any more: the event loop entered it, or
\* started a job, after V8's latch had been taken back, by the unwinding that
\* finalized the termination or by the answer to a call whose watchdog fired.
\* The loop drives its jobs before it looks at the flag.
OutOfReach ==
  /\ pc \in {"loopjs", "startjs"} /\ ~latch
  /\ coreTerminated \/ \E c \in Calls : watchdog[c] = "fired"

\* Once a termination is requested, every call in flight is answered, unless
\* the thread ends up in JavaScript that no termination stops and that never
\* returns.
TerminationSettlesCalls ==
  \/ <>[]OutOfReach
  \/ \A c \in Calls :
       (status # "running" /\ call[c] \in InFlight) ~> call[c] \notin InFlight

\* With force_kill_grace set, a blocking call returns once a termination is
\* requested, even from a thread wedged in a host function.
GraceBoundsBlockingCalls ==
  \A c \in SyncCalls :
    (status # "running" /\ call[c] \in InFlight) ~> call[c] \notin InFlight

\* No timer ends what the thread is busy with: a script without a timeout, a job
\* without one at the head of the list, or JavaScript of a job that has only a
\* deadline left, which nobody looks at inside V8.  That is a resumed call, or
\* an evaluation whose watchdog was spent on some other script.
Untimed ==
  \/ pc = "evaljs" /\ evaluating \notin Timed
  \/ jobs # << >> /\ Active \notin Timed
  \/ /\ pc \in {"loopjs", "startjs"} /\ ~latch
     /\ jobs # << >> => Active \in FunctionCalls \/ watchdog[Active] = "fired"

\* A call that carries a timeout is answered, unless the thread ends up busy
\* for ever with something that no timer ends.
TimedCallsSettle ==
  \/ <>[]Untimed
  \/ \A c \in Timed : call[c] \in InFlight ~> call[c] \notin InFlight

\* terminate() returns.
TerminateReturns == owner = "reasoned" ~> termResult # "none"

-----------------------------------------------------------------------------
(* What the documentation says and the code does not keep. *)

\* A call that has no timer of its own running out, in a runtime nobody
\* terminates, is not interrupted by somebody else's timeout.
NoCollateralInterrupt ==
  \A c \in Calls : call[c] = "interrupted" => c \in due \/ watchdog[c] = "fired"
=============================================================================

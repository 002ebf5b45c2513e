--------------------------- MODULE RuntimeThread ---------------------------
(***************************************************************************)
(* The runtime thread: the termination controller and its V8 latch, the    *)
(* timeout watchdogs, the dispatcher loop of RuntimeDispatcher::run, the   *)
(* async-job state machine and the commands that carry JavaScript calls.   *)
(* Module RuntimeHandle adds the threads that talk to it.                  *)
(*                                                                         *)
(* A call is one command that answers through a responder.  Its JavaScript *)
(* is abstract: once entered it returns, throws or runs forever, and V8's  *)
(* termination latch is the only thing that stops it from outside.         *)
(***************************************************************************)
EXTENDS Naturals, Sequences, SequencesExt

CONSTANTS
  SyncCalls,      \* Runtime.eval: JavaScript runs inside the command
  EvalCalls,      \* eval_async / eval_module_async: a job with a watchdog
  FunctionCalls,  \* JsFunction.call_async, resumed calls: a job with none
  Timed,          \* the calls that carry a timeout
  Env,            \* which behaviours of guest code and host are explored
  NoCall

Calls == SyncCalls \cup EvalCalls \cup FunctionCalls
JobCalls == EvalCalls \cup FunctionCalls

\* "stray": a finished call left async work behind, so the event loop may
\* enter JavaScript nobody waits for.  "unhandled": the event loop reports a
\* non-termination error.  "wedge": JavaScript calls synchronous host functions,
\* which may never return.
\* "heap": the near-heap-limit callback runs.  "noTick": PENDING_WORK_TICK is
\* taken away, to see whether anything depends on it.  "noTerminate": the owner
\* leaves terminating to the TerminationHandles.  "gil": host functions
\* need Python's interpreter lock (they do not on a free-threaded build).
ASSUME CallsAssumption ==
  /\ SyncCalls \cap JobCalls = {}
  /\ EvalCalls \cap FunctionCalls = {}
  /\ Timed \subseteq Calls
  /\ {"terminate", "shutdown"} \cap Calls = {}
  /\ NoCall \notin Calls \cup {"terminate", "shutdown"}
  /\ Env \subseteq {"stray", "unhandled", "wedge", "heap", "noTick",
                   "noTerminate", "gil"}

VARIABLES
  status,          \* TerminationState.status
  reason,          \* TerminationState.reason
  latch,           \* V8's pending terminate_execution()
  wake,            \* the dispatcher_wake permit
  watchdog,        \* per call: its SyncWatchdog thread
  due,             \* jobs whose deadline has passed
  pc,              \* where the runtime thread is
  wedged,          \* the thread is inside a host function
  coreTerminated,  \* RuntimeCoreState.terminated
  jobs,            \* active_job (the head) and pending_jobs (the tail)
  promise,         \* the active job's state: "none" is Init
  justActivated,   \* job_just_activated
  evaluating,      \* the synchronous call whose script is running
  queue,           \* the command channel
  rxOpen,          \* the receiving half accepts commands
  reply,           \* the responder of Terminate / Shutdown
  call             \* per call: what its caller knows

terminationVars == << status, reason, latch, wake, coreTerminated >>
timerVars == << watchdog, due >>
positionVars == << pc, wedged, evaluating >>
jobVars == << jobs, promise, justActivated >>
channelVars == << queue, rxOpen, reply >>
threadVars == << terminationVars, timerVars, positionVars, jobVars,
                 channelVars, call >>

Outcomes == {"ok", "error", "timeout", "interrupted", "terminated",
             "lost", "refused", "forceKilled"}
Js == {"loopjs", "startjs", "evaljs"}

JobSet == ToSet(jobs)
Active == Head(jobs)

ThreadTypeOK ==
  /\ status \in {"running", "requested", "terminated"}
  /\ reason \in {"none", "host", "handle", "timeout", "heap", "channel"}
  /\ latch \in BOOLEAN /\ wake \in BOOLEAN /\ wedged \in BOOLEAN
  /\ watchdog \in [Calls -> {"none", "armed", "firing", "fired", "cancelled"}]
  /\ due \subseteq JobCalls
  /\ pc \in Js \cup {"poll", "job", "flag", "wait", "dropping", "gone"}
  /\ coreTerminated \in BOOLEAN
  /\ jobs \in Seq(JobCalls)
  /\ promise \in {"none", "pending", "fulfilled", "rejected"}
  /\ justActivated \in BOOLEAN
  /\ evaluating \in SyncCalls \cup {NoCall}
  /\ queue \in Seq(Calls \cup {"terminate", "shutdown"})
  /\ rxOpen \in BOOLEAN
  /\ reply \in {"none", "ok", "lost"}
  /\ call \in [Calls -> {"new", "issued", "checked", "sent"} \cup Outcomes]

ThreadInit ==
  /\ status = "running" /\ reason = "none"
  /\ latch = FALSE /\ wake = FALSE /\ wedged = FALSE
  /\ watchdog = [c \in Calls |-> "none"]
  /\ due = {}
  /\ pc = "poll" /\ coreTerminated = FALSE
  /\ jobs = << >> /\ promise = "none" /\ justActivated = FALSE
  /\ evaluating = NoCall
  /\ queue = << >> /\ rxOpen = TRUE /\ reply = "none"
  /\ call = [c \in Calls |-> "new"]

-----------------------------------------------------------------------------
(* TerminationController *)

EnsureReason(r) == reason' = IF reason = "none" THEN r ELSE reason

\* Seeded fault: the flag is raised and the dispatcher is left asleep.
RequestSilently ==
  /\ status' = IF status = "running" THEN "requested" ELSE status
  /\ UNCHANGED wake

\* request(): the compare-and-swap, then the wake-up either way.
Request ==
  /\ status' = IF status = "running" THEN "requested" ELSE status
  /\ wake' = TRUE

ShouldReject == coreTerminated \/ status # "running"

\* Seeded fault: only the thread's own mark is set.
MarkFinalUnshared == coreTerminated' = TRUE /\ UNCHANGED status

\* finalize_termination() on a V8 latch that stands at l: idempotent, and the
\* first call also takes the latch back.
MarkFinal ==
  /\ coreTerminated' = TRUE
  /\ status' = IF coreTerminated THEN status ELSE "terminated"
FinalLatch(l) == coreTerminated /\ l

-----------------------------------------------------------------------------
(* Timeouts: the watchdog threads and the jobs' own deadlines.  Time is not *)
(* modelled; a timer that is running may expire at any moment.              *)

\* The watchdog reaches its deadline before it is cancelled.  A job's own
\* deadline is taken in the same command, so it has passed by then too.
WatchdogFires(c) ==
  /\ watchdog[c] = "armed"
  /\ watchdog' = [watchdog EXCEPT ![c] = "firing"]
  /\ due' = due \cup ({c} \cap JobCalls)
  /\ UNCHANGED << terminationVars, positionVars, jobVars, channelVars, call >>

\* Having dropped its lock, it terminates whatever V8 is running.
WatchdogTerminates(c) ==
  /\ watchdog[c] = "firing"
  /\ watchdog' = [watchdog EXCEPT ![c] = "fired"]
  /\ EnsureReason("timeout")
  /\ latch' = TRUE
  /\ UNCHANGED << status, wake, coreTerminated, due, positionVars, jobVars,
                  channelVars, call >>

\* A job's deadline runs from its construction, queued or not.
DeadlinePasses(c) ==
  /\ c \in Timed \cap JobSet /\ c \notin due
  /\ due' = due \cup {c}
  /\ UNCHANGED << terminationVars, watchdog, positionVars, jobVars,
                  channelVars, call >>

\* Seeded fault: somebody's watchdog fired, so this is a timeout.
ResolvedByAnyWatchdog(c, result) ==
  IF (\E d \in Calls : watchdog[d] = "fired")
       /\ result \in {"ok", "interrupted", "terminated"}
    THEN "timeout" ELSE result

\* apply_watchdog_result: a watchdog that fired turns success and
\* termination errors into a timeout and leaves other errors alone.
Resolved(c, result) ==
  IF watchdog[c] = "fired" /\ result \in {"ok", "interrupted", "terminated"}
    THEN "timeout" ELSE result

\* Seeded fault: the call is answered and its watchdog is left running.
SettleUncancelled(S, result) ==
  /\ \A c \in S : watchdog[c] # "firing"
  /\ call' = [c \in Calls |-> IF c \in S /\ call[c] = "sent"
                                THEN Resolved(c, result) ELSE call[c]]
  /\ UNCHANGED watchdog

\* Seeded fault: an answer reaches a caller that has already given up.
SettleLate(S, result) ==
  /\ \A c \in S : watchdog[c] # "firing"
  /\ call' = [c \in Calls |-> IF c \in S THEN Resolved(c, result) ELSE call[c]]
  /\ watchdog' = [c \in Calls |-> IF c \in S /\ watchdog[c] = "armed"
                                    THEN "cancelled" ELSE watchdog[c]]

\* Answer the calls in S: stand their watchdogs down (a join, so one that is
\* firing is waited for) and send.  A receiver that is gone ignores the send.
Settle(S, result) ==
  /\ \A c \in S : watchdog[c] # "firing"
  /\ call' = [c \in Calls |-> IF c \in S /\ call[c] = "sent"
                                THEN Resolved(c, result) ELSE call[c]]
  /\ watchdog' = [c \in Calls |-> IF c \in S /\ watchdog[c] = "armed"
                                    THEN "cancelled" ELSE watchdog[c]]

\* resolve_sync_watchdog takes the latch back only for a watchdog that fired.
LatchAfter(S, l) == l /\ \A c \in S : watchdog[c] # "fired"

\* The active job is done: answer it and activate the next pending one.
FinishJob(result, l) ==
  /\ Settle({Active}, result)
  /\ latch' = LatchAfter({Active}, l)
  /\ jobs' = Tail(jobs)
  /\ promise' = "none"
  /\ justActivated' = (justActivated \/ Tail(jobs) # << >>)

\* Seeded fault: the pending jobs are forgotten.
AbortActiveOnly ==
  /\ Settle(IF jobs = << >> THEN {} ELSE {Active}, "terminated")
  /\ latch' = FinalLatch(LatchAfter(JobSet, latch))
  /\ MarkFinal
  /\ jobs' = << >> /\ promise' = "none"

\* Seeded fault: the jobs are cancelled and the termination is left open.
AbortUnfinalized ==
  /\ Settle(JobSet, "terminated")
  /\ latch' = LatchAfter(JobSet, latch)
  /\ UNCHANGED << status, coreTerminated >>
  /\ jobs' = << >> /\ promise' = "none"

\* cancel_all_jobs followed by finalize_termination.
AbortJobs ==
  /\ Settle(JobSet, "terminated")
  /\ latch' = FinalLatch(LatchAfter(JobSet, latch))
  /\ MarkFinal
  /\ jobs' = << >> /\ promise' = "none"

-----------------------------------------------------------------------------
(* 1. Drive the event loop. *)

PollQuiet ==
  /\ pc = "poll"
  /\ pc' = "job"
  /\ UNCHANGED << terminationVars, timerVars, wedged, evaluating, jobVars,
                  channelVars, call >>

\* A host operation completed, or microtasks settled the active promise.
PollSettles(p) ==
  /\ pc = "poll" /\ promise = "pending"
  /\ promise' = p
  /\ pc' = "job"
  /\ UNCHANGED << terminationVars, timerVars, wedged, evaluating, jobs,
                  justActivated, channelVars, call >>

\* The loop enters JavaScript: the active job's continuation, or stray work.
PollEntersJs ==
  /\ pc = "poll"
  /\ promise = "pending" \/ "stray" \in Env
  /\ pc' = "loopjs"
  /\ UNCHANGED << terminationVars, timerVars, wedged, evaluating, jobVars,
                  channelVars, call >>

LoopJsReturns ==
  /\ pc = "loopjs" /\ ~wedged
  /\ pc' = "job"
  /\ UNCHANGED << terminationVars, timerVars, wedged, evaluating, jobVars,
                  channelVars, call >>

\* V8 unwinds.  translate_core_error finalizes when a termination was
\* requested; the error itself is left to the job.  Whether V8's latch is
\* still set after an unwinding is V8's business: either.
LoopJsUnwinds ==
  /\ pc = "loopjs" /\ ~wedged /\ latch
  /\ pc' = "job"
  /\ \E l \in BOOLEAN :
       IF ShouldReject THEN MarkFinal /\ latch' = FinalLatch(l)
       ELSE latch' = l /\ UNCHANGED << status, coreTerminated >>
  /\ UNCHANGED << reason, wake, timerVars, wedged, evaluating, jobVars,
                  channelVars, call >>

\* Any other event-loop error fails the active job and restarts the loop.
LoopFails ==
  /\ pc = "poll" /\ "unhandled" \in Env /\ jobs # << >>
  /\ FinishJob("error", latch)
  /\ UNCHANGED << status, reason, wake, coreTerminated, due, positionVars,
                  channelVars >>

-----------------------------------------------------------------------------
(* 2. Poll the active job. *)

NoActiveJob ==
  /\ pc = "job" /\ jobs = << >>
  /\ pc' = "flag"
  /\ UNCHANGED << terminationVars, timerVars, wedged, evaluating, jobVars,
                  channelVars, call >>

\* JobCommon::expired: latch V8, then report the timeout.
JobExpires ==
  /\ pc = "job" /\ jobs # << >> /\ Active \in due
  /\ EnsureReason("timeout")
  /\ FinishJob("timeout", TRUE)
  /\ pc' = "flag"
  /\ UNCHANGED << status, wake, coreTerminated, due, wedged, evaluating,
                  channelVars >>

\* Init: run the script, or call the function.
JobStarts ==
  /\ pc = "job" /\ jobs # << >> /\ Active \notin due
  /\ promise = "none"
  /\ pc' = "startjs"
  /\ UNCHANGED << terminationVars, timerVars, wedged, evaluating, jobVars,
                  channelVars, call >>

StartJsReturns ==
  /\ pc = "startjs" /\ ~wedged
  /\ promise' = "pending"
  /\ pc' = "flag"
  /\ UNCHANGED << terminationVars, timerVars, wedged, evaluating, jobs,
                  justActivated, channelVars, call >>

StartJsThrows ==
  /\ pc = "startjs" /\ ~wedged
  /\ FinishJob("error", latch)
  /\ pc' = "flag"
  /\ UNCHANGED << status, reason, wake, coreTerminated, due, wedged,
                  evaluating, channelVars >>

StartJsUnwinds ==
  /\ pc = "startjs" /\ ~wedged /\ latch
  /\ \E l \in BOOLEAN :
       IF ShouldReject
         THEN MarkFinal /\ FinishJob("terminated", FinalLatch(l))
         ELSE FinishJob("interrupted", l) /\ UNCHANGED << status, coreTerminated >>
  /\ pc' = "flag"
  /\ UNCHANGED << reason, wake, due, wedged, evaluating, channelVars >>

JobWaits ==
  /\ pc = "job" /\ jobs # << >> /\ Active \notin due
  /\ promise = "pending"
  /\ pc' = "flag"
  /\ UNCHANGED << terminationVars, timerVars, wedged, evaluating, jobVars,
                  channelVars, call >>

JobCompletes ==
  /\ pc = "job" /\ jobs # << >> /\ Active \notin due
  /\ promise \in {"fulfilled", "rejected"}
  /\ FinishJob(IF promise = "fulfilled" THEN "ok" ELSE "error", latch)
  /\ pc' = "flag"
  /\ UNCHANGED << status, reason, wake, coreTerminated, due, wedged,
                  evaluating, channelVars >>

-----------------------------------------------------------------------------
(* 2b. Honour a termination requested from another thread. *)

\* The loop is left; the channel stays open until the dispatcher is dropped.
FlagAborts ==
  /\ pc = "flag" /\ ShouldReject /\ jobs # << >>
  /\ AbortJobs
  /\ pc' = "dropping"
  /\ UNCHANGED << reason, wake, due, wedged, evaluating, justActivated,
                  channelVars >>

\* A job that was just activated gets one iteration without waiting.
FlagPasses ==
  /\ pc = "flag" /\ ~(ShouldReject /\ jobs # << >>)
  /\ pc' = IF justActivated THEN "poll" ELSE "wait"
  /\ justActivated' = FALSE
  /\ UNCHANGED << terminationVars, timerVars, wedged, evaluating, jobs,
                  promise, channelVars, call >>

-----------------------------------------------------------------------------
(* 3. Wait for a command, the waker or the tick; commands come first. *)

Receives(S) ==
  /\ pc = "wait" /\ queue # << >> /\ Head(queue) \in S
  /\ queue' = Tail(queue)

Command == Head(queue)

\* Seeded fault: the timeout is recorded and no watchdog is started.
ArmNothing(c) == UNCHANGED watchdog

Arm(c) ==
  watchdog' = IF c \in Timed THEN [watchdog EXCEPT ![c] = "armed"] ELSE watchdog

\* Work that arrives once a termination was requested is answered with it.
CallRejected ==
  /\ Receives(Calls) /\ ShouldReject
  /\ Settle({Command}, "terminated")
  /\ pc' = "poll"
  /\ UNCHANGED << terminationVars, due, wedged, evaluating, jobVars, rxOpen,
                  reply >>

\* Seeded fault: an asynchronous command is evaluated on the spot.
EvalStartsAny ==
  /\ Receives(Calls) /\ ~ShouldReject
  /\ Arm(Command)
  /\ evaluating' = Command
  /\ pc' = "evaljs"
  /\ UNCHANGED << terminationVars, due, wedged, jobVars, rxOpen, reply, call >>

EvalStarts ==
  /\ Receives(SyncCalls) /\ ~ShouldReject
  /\ Arm(Command)
  /\ evaluating' = Command
  /\ pc' = "evaljs"
  /\ UNCHANGED << terminationVars, due, wedged, jobVars, rxOpen, reply,
                  call >>

\* The script returned or threw; the watchdog still has a say in the answer.
EvalReturns(result) ==
  /\ pc = "evaljs" /\ ~wedged
  /\ Settle({evaluating}, result)
  /\ latch' = LatchAfter({evaluating}, latch)
  /\ evaluating' = NoCall
  /\ pc' = "poll"
  /\ UNCHANGED << status, reason, wake, coreTerminated, due, wedged, jobVars,
                  channelVars >>

EvalUnwinds ==
  /\ pc = "evaljs" /\ ~wedged /\ latch
  /\ \E l \in BOOLEAN :
       IF ShouldReject
         THEN /\ MarkFinal
              /\ Settle({evaluating}, "terminated")
              /\ latch' = LatchAfter({evaluating}, FinalLatch(l))
         ELSE /\ Settle({evaluating}, "interrupted")
              /\ latch' = LatchAfter({evaluating}, l)
              /\ UNCHANGED << status, coreTerminated >>
  /\ evaluating' = NoCall
  /\ pc' = "poll"
  /\ UNCHANGED << reason, wake, due, wedged, jobVars, channelVars >>

\* submit_job; only an evaluation arms a watchdog, and at submission.
JobSubmitted ==
  /\ Receives(JobCalls) /\ ~ShouldReject
  /\ IF Command \in EvalCalls THEN Arm(Command) ELSE UNCHANGED watchdog
  /\ jobs' = Append(jobs, Command)
  /\ justActivated' = (justActivated \/ jobs = << >>)
  /\ pc' = "poll"
  /\ UNCHANGED << terminationVars, due, wedged, evaluating, promise, rxOpen,
                  reply, call >>

HandleTerminate ==
  /\ Receives({"terminate"})
  /\ AbortJobs
  /\ reply' = "ok" /\ rxOpen' = FALSE
  /\ pc' = "dropping"
  /\ UNCHANGED << reason, wake, due, wedged, evaluating, justActivated >>

\* A shutdown answers its caller and leaves the jobs to be dropped.
HandleShutdown ==
  /\ Receives({"shutdown"})
  /\ reply' = "ok" /\ rxOpen' = FALSE
  /\ pc' = "dropping"
  /\ UNCHANGED << terminationVars, timerVars, wedged, evaluating, jobVars,
                  call >>

\* recv() returned None: every sender is gone.
HandleChannelClosed ==
  /\ pc = "wait" /\ queue = << >>
  /\ EnsureReason("channel")
  /\ AbortJobs
  /\ pc' = "dropping"
  /\ UNCHANGED << wake, due, wedged, evaluating, justActivated, channelVars >>

WakeUp ==
  /\ pc = "wait" /\ queue = << >> /\ wake
  /\ wake' = FALSE
  /\ pc' = "poll"
  /\ UNCHANGED << status, reason, latch, coreTerminated, timerVars, wedged,
                  evaluating, jobVars, channelVars, call >>

\* deno_core signals the DispatcherWaker: a host operation completed.
HostCompletes ==
  /\ promise = "pending" /\ ~wake
  /\ wake' = TRUE
  /\ UNCHANGED << status, reason, latch, coreTerminated, timerVars,
                  positionVars, jobVars, channelVars, call >>

\* The active job's deadline, or PENDING_WORK_TICK while work is outstanding.
Tick ==
  /\ pc = "wait" /\ queue = << >> /\ ~wake
  /\ \/ jobs # << >> /\ Active \in due
     \/ "noTick" \notin Env /\ (jobs # << >> \/ "stray" \in Env)
  /\ pc' = "poll"
  /\ UNCHANGED << terminationVars, timerVars, wedged, evaluating, jobVars,
                  channelVars, call >>

\* The dispatcher is dropped: whatever it still holds loses its responder.
DropDispatcher ==
  /\ pc = "dropping"
  /\ call' = [c \in Calls |-> IF call[c] = "sent" /\ c \in JobSet \cup ToSet(queue)
                                THEN "lost" ELSE call[c]]
  /\ reply' = IF ToSet(queue) \cap {"terminate", "shutdown"} # {}
                 THEN "lost" ELSE reply
  /\ jobs' = << >> /\ promise' = "none"
  /\ queue' = << >> /\ rxOpen' = FALSE
  /\ pc' = "gone"
  /\ UNCHANGED << terminationVars, timerVars, wedged, evaluating,
                  justActivated >>

-----------------------------------------------------------------------------
(* What happens to a thread that is inside JavaScript. *)

\* JavaScript calls a bound host function, which blocks the thread.
Wedge ==
  /\ pc \in Js /\ ~wedged /\ "wedge" \in Env
  /\ wedged' = TRUE
  /\ UNCHANGED << terminationVars, timerVars, pc, evaluating, jobVars,
                  channelVars, call >>

\* The host function comes back; RuntimeHandle says when it can.
Unwedge ==
  /\ wedged
  /\ wedged' = FALSE
  /\ UNCHANGED << terminationVars, timerVars, pc, evaluating, jobVars,
                  channelVars, call >>

\* V8 calls the near-heap-limit callback from inside an allocation.
HeapLimit ==
  /\ pc \in Js /\ ~wedged /\ "heap" \in Env
  /\ EnsureReason("heap")
  /\ Request
  /\ latch' = TRUE
  /\ UNCHANGED << coreTerminated, timerVars, positionVars, jobVars,
                  channelVars, call >>

-----------------------------------------------------------------------------
\* What the guest program and the host functions decide.
GuestStep ==
  \/ PollEntersJs \/ LoopJsReturns \/ LoopFails
  \/ \E p \in {"fulfilled", "rejected"} : PollSettles(p)
  \/ StartJsReturns \/ StartJsThrows \/ HostCompletes
  \/ \E r \in {"ok", "error"} : EvalReturns(r)
  \/ Wedge \/ HeapLimit

\* What the dispatcher and V8 do on their own.  The arms that wait without a
\* command (HandleChannelClosed, WakeUp, Tick) also look at the senders, which
\* are RuntimeHandle's, and so is the lock that a returning Unwedge may need.
DispatcherStep ==
  \/ PollQuiet \/ LoopJsUnwinds
  \/ NoActiveJob \/ JobExpires \/ JobStarts \/ StartJsUnwinds \/ JobWaits
  \/ JobCompletes
  \/ FlagAborts \/ FlagPasses
  \/ CallRejected \/ EvalStarts \/ EvalUnwinds \/ JobSubmitted
  \/ HandleTerminate \/ HandleShutdown
  \/ DropDispatcher

TimerStep(c) == WatchdogFires(c) \/ WatchdogTerminates(c) \/ DeadlinePasses(c)
=============================================================================

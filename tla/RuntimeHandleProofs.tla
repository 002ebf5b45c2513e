------------------------ MODULE RuntimeHandleProofs ------------------------
(***************************************************************************)
(* Theorems about RuntimeHandle, for every set of calls and of killers,    *)
(* every choice of timed calls, environment and grace.                     *)
(***************************************************************************)
EXTENDS RuntimeHandle, SequenceLemmas

-----------------------------------------------------------------------------
(* Type correctness. *)

\* Answering calls keeps the types of the calls and of the watchdogs.
LEMMA SettleTypes ==
  ASSUME ThreadTypeOK, NEW S, NEW result \in Outcomes, Settle(S, result)
  PROVE  /\ call' \in [Calls -> {"new", "issued", "checked", "sent"} \cup Outcomes]
         /\ watchdog' \in [Calls -> {"none", "armed", "firing", "fired", "cancelled"}]
<1>1. "timeout" \in Outcomes
  BY DEF Outcomes
<1>2. \A c \in Calls : Resolved(c, result) \in Outcomes
  BY <1>1 DEF Resolved
<1>3. QED
  BY <1>2 DEF Settle, ThreadTypeOK

\* The tail of a job list holds jobs, and the head of one is a job.
LEMMA JobListTypes ==
  ASSUME ThreadTypeOK
  PROVE  /\ JobSet \subseteq JobCalls
         /\ jobs # << >> => Tail(jobs) \in Seq(JobCalls) /\ Active \in JobCalls
BY DEF ThreadTypeOK, JobSet, ToSet, Active

\* The answers the dispatcher gives are answers.
LEMMA AnswerTypes ==
  /\ "ok" \in Outcomes /\ "error" \in Outcomes /\ "timeout" \in Outcomes
  /\ "interrupted" \in Outcomes /\ "terminated" \in Outcomes
  /\ "lost" \in Outcomes /\ "refused" \in Outcomes /\ "forceKilled" \in Outcomes
BY DEF Outcomes

\* Where the thread is says what it holds: a job being started is the active
\* one, an evaluation is running only inside its script, and only an active
\* job has a promise.
Located ==
  /\ pc = "startjs" => jobs # << >>
  /\ pc = "evaljs" <=> evaluating # NoCall
  /\ promise # "none" => jobs # << >>

\* The initial state is well typed.
LEMMA TypeInit == Init => TypeOK
<1> SUFFICES ASSUME Init PROVE TypeOK
  OBVIOUS
<1>1. jobs \in Seq(JobCalls) /\ queue \in Seq(Calls \cup {"terminate", "shutdown"})
  BY DEF Init, ThreadInit
<1>2. /\ watchdog \in [Calls -> {"none", "armed", "firing", "fired", "cancelled"}]
      /\ call \in [Calls -> {"new", "issued", "checked", "sent"} \cup Outcomes]
  BY DEF Init, ThreadInit
<1>3. ThreadTypeOK
  BY <1>1, <1>2 DEF Init, ThreadInit, ThreadTypeOK, Js
<1>4. HandleTypeOK
  BY DEF Init, HandleTypeOK
<1>5. QED
  BY <1>3, <1>4 DEF TypeOK

\* Finishing a job (complete_active_job) keeps the types of what it assigns.
LEMMA FinishJobTypes ==
  ASSUME ThreadTypeOK, jobs # << >>, NEW result \in Outcomes, NEW l \in BOOLEAN,
         FinishJob(result, l)
  PROVE  /\ call' \in [Calls -> {"new", "issued", "checked", "sent"} \cup Outcomes]
         /\ watchdog' \in [Calls -> {"none", "armed", "firing", "fired", "cancelled"}]
         /\ latch' \in BOOLEAN /\ jobs' \in Seq(JobCalls)
         /\ promise' = "none" /\ justActivated' \in BOOLEAN
<1>1. Settle({Active}, result)
  BY DEF FinishJob
<1>2. QED
  BY <1>1, SettleTypes, JobListTypes DEF FinishJob, LatchAfter

\* So does cancelling all jobs and finalizing the termination.
LEMMA AbortJobsTypes ==
  ASSUME ThreadTypeOK, AbortJobs
  PROVE  /\ call' \in [Calls -> {"new", "issued", "checked", "sent"} \cup Outcomes]
         /\ watchdog' \in [Calls -> {"none", "armed", "firing", "fired", "cancelled"}]
         /\ latch' \in BOOLEAN /\ jobs' \in Seq(JobCalls) /\ promise' = "none"
         /\ coreTerminated' \in BOOLEAN
         /\ status' \in {"running", "requested", "terminated"}
<1>1. Settle(JobSet, "terminated")
  BY DEF AbortJobs
<1>2. QED
  BY <1>1, SettleTypes, AnswerTypes
  DEF AbortJobs, FinalLatch, LatchAfter, MarkFinal, ThreadTypeOK

\* The dispatcher's own steps, and the waits it leaves without a command.
LEMMA DispatcherTypes ==
  ASSUME ThreadTypeOK, Located,
         DispatcherStep \/ HandleChannelClosed \/ WakeUp \/ Tick
  PROVE  ThreadTypeOK'
<1> USE CallsAssumption DEF terminationVars, timerVars, positionVars, jobVars, channelVars
<1>1. CASE PollQuiet \/ NoActiveJob \/ JobStarts \/ JobWaits \/ FlagPasses \/ WakeUp \/ Tick
  <2>1. pc' \in {"job", "startjs", "flag", "poll", "wait"}
    BY <1>1 DEF PollQuiet, NoActiveJob, JobStarts, JobWaits, FlagPasses, WakeUp, Tick
  <2>2. wake' \in BOOLEAN /\ justActivated' \in BOOLEAN
    BY <1>1 DEF PollQuiet, NoActiveJob, JobStarts, JobWaits, FlagPasses, WakeUp,
                Tick, ThreadTypeOK
  <2>3. UNCHANGED << status, reason, latch, coreTerminated, timerVars, wedged,
                     evaluating, jobs, promise, channelVars, call >>
    BY <1>1 DEF PollQuiet, NoActiveJob, JobStarts, JobWaits, FlagPasses, WakeUp, Tick
  <2>4. QED
    BY <2>1, <2>2, <2>3 DEF ThreadTypeOK, Js
<1>2. CASE LoopJsUnwinds
  <2>1. status' \in {"running", "requested", "terminated"}
        /\ coreTerminated' \in BOOLEAN /\ latch' \in BOOLEAN
    BY <1>2 DEF LoopJsUnwinds, MarkFinal, FinalLatch, ThreadTypeOK
  <2>2. QED
    BY <1>2, <2>1 DEF LoopJsUnwinds, ThreadTypeOK, Js
<1>3. CASE JobExpires
  <2>1. FinishJob("timeout", TRUE) /\ jobs # << >>
    BY <1>3 DEF JobExpires
  <2>2. QED
    BY <1>3, <2>1, FinishJobTypes, AnswerTypes, ZenonT(80)
    DEF JobExpires, EnsureReason, ThreadTypeOK, Js
<1>4. CASE StartJsUnwinds
  <2>1. PICK r \in Outcomes, l \in BOOLEAN : FinishJob(r, l)
    BY <1>4, AnswerTypes DEF StartJsUnwinds, FinalLatch, ThreadTypeOK
  <2>2. jobs # << >>
    BY <1>4 DEF StartJsUnwinds, Located
  <2>3. QED
    BY <1>4, <2>1, <2>2, FinishJobTypes, ZenonT(80)
    DEF StartJsUnwinds, MarkFinal, ThreadTypeOK, Js
<1>5. CASE JobCompletes
  <2>1. \E r \in Outcomes : FinishJob(r, latch)
    BY <1>5, AnswerTypes DEF JobCompletes
  <2>2. QED
    BY <1>5, <2>1, FinishJobTypes DEF JobCompletes, ThreadTypeOK, Js
<1>6. CASE FlagAborts \/ HandleTerminate \/ HandleChannelClosed
  <2>1. AbortJobs
    BY <1>6 DEF FlagAborts, HandleTerminate, HandleChannelClosed
  <2>2. Receives({"terminate"}) => queue' \in Seq(Calls \cup {"terminate", "shutdown"})
    BY DEF Receives, ThreadTypeOK
  <2>3. QED
    BY <1>6, <2>1, <2>2, AbortJobsTypes, ZenonT(80)
    DEF FlagAborts, HandleTerminate, HandleChannelClosed, EnsureReason,
        ThreadTypeOK, Js
<1>7. ASSUME NEW S, Receives(S)
      PROVE  Command \in S /\ queue' \in Seq(Calls \cup {"terminate", "shutdown"})
  BY <1>7 DEF Receives, Command, ThreadTypeOK
<1>8. CASE CallRejected
  <2>1. Settle({Command}, "terminated")
    BY <1>8 DEF CallRejected
  <2>2. QED
    BY <1>7, <1>8, <2>1, SettleTypes, AnswerTypes DEF CallRejected, ThreadTypeOK, Js
<1>9. ASSUME NEW c \in Calls, Arm(c)
      PROVE  watchdog' \in [Calls -> {"none", "armed", "firing", "fired", "cancelled"}]
  BY <1>9 DEF Arm, ThreadTypeOK
<1>10. CASE EvalStarts
  BY <1>7, <1>9, <1>10 DEF EvalStarts, ThreadTypeOK, Js, Calls
<1>11. CASE EvalUnwinds
  <2>1. \E r \in Outcomes : Settle({evaluating}, r)
    BY <1>11, AnswerTypes DEF EvalUnwinds
  <2>2. status' \in {"running", "requested", "terminated"}
        /\ coreTerminated' \in BOOLEAN /\ latch' \in BOOLEAN
    BY <1>11 DEF EvalUnwinds, MarkFinal, LatchAfter, FinalLatch, ThreadTypeOK
  <2>3. QED
    BY <1>11, <2>1, <2>2, SettleTypes DEF EvalUnwinds, ThreadTypeOK, Js
<1>12. CASE JobSubmitted
  <2>1. Command \in JobCalls /\ Command \in Calls
    BY <1>7, <1>12 DEF JobSubmitted, Calls, JobCalls
  <2>2. watchdog' \in [Calls -> {"none", "armed", "firing", "fired", "cancelled"}]
    BY <1>9, <1>12, <2>1 DEF JobSubmitted, ThreadTypeOK
  <2>3. jobs' \in Seq(JobCalls)
    BY <1>12, <2>1 DEF JobSubmitted, ThreadTypeOK
  <2>4. QED
    BY <1>7, <1>12, <2>2, <2>3 DEF JobSubmitted, ThreadTypeOK, Js
<1>13. CASE HandleShutdown
  <2>1. queue' \in Seq(Calls \cup {"terminate", "shutdown"})
    BY <1>7, <1>13 DEF HandleShutdown
  <2>2. QED
    BY <1>13, <2>1, ZenonT(80) DEF HandleShutdown, ThreadTypeOK, Js
<1>14. CASE DropDispatcher
  <2>1. call' \in [Calls -> {"new", "issued", "checked", "sent"} \cup Outcomes]
    BY <1>14, AnswerTypes DEF DropDispatcher, ThreadTypeOK
  <2>2. jobs' \in Seq(JobCalls) /\ queue' \in Seq(Calls \cup {"terminate", "shutdown"})
    BY <1>14 DEF DropDispatcher
  <2>3. reply' \in {"none", "ok", "lost"}
    BY <1>14 DEF DropDispatcher, ThreadTypeOK
  <2>4. /\ promise' = "none" /\ pc' = "gone" /\ rxOpen' = FALSE
        /\ UNCHANGED << terminationVars, timerVars, wedged, evaluating, justActivated >>
    BY <1>14 DEF DropDispatcher
  <2>5. /\ latch' \in BOOLEAN /\ wake' \in BOOLEAN /\ wedged' \in BOOLEAN
        /\ coreTerminated' \in BOOLEAN /\ justActivated' \in BOOLEAN
        /\ rxOpen' \in BOOLEAN
    BY <2>4, Zenon DEF ThreadTypeOK
  <2>6. /\ status' \in {"running", "requested", "terminated"}
        /\ reason' \in {"none", "host", "handle", "timeout", "heap", "channel"}
        /\ watchdog' \in [Calls -> {"none", "armed", "firing", "fired", "cancelled"}]
        /\ due' \subseteq JobCalls /\ evaluating' \in SyncCalls \cup {NoCall}
    BY <2>4, Zenon DEF ThreadTypeOK
  <2>7. QED
    BY <2>1, <2>2, <2>3, <2>4, <2>5, <2>6, Zenon DEF ThreadTypeOK
<1>15. QED
  BY <1>1, <1>2, <1>3, <1>4, <1>5, <1>6, <1>8, <1>10, <1>11, <1>12, <1>13, <1>14
  DEF DispatcherStep

\* Guest code, host functions and the heap limit.
LEMMA GuestTypes ==
  ASSUME ThreadTypeOK, Located, GuestStep \/ Unwedge
  PROVE  ThreadTypeOK'
<1> USE DEF terminationVars, timerVars, positionVars, jobVars, channelVars
<1>1. CASE PollEntersJs \/ LoopJsReturns
  BY <1>1 DEF PollEntersJs, LoopJsReturns, ThreadTypeOK, Js
<1>2. CASE LoopFails
  <2>1. FinishJob("error", latch) /\ jobs # << >> /\ latch \in BOOLEAN
    BY <1>2 DEF LoopFails, ThreadTypeOK
  <2>2. QED
    BY <1>2, <2>1, FinishJobTypes, AnswerTypes DEF LoopFails, ThreadTypeOK, Js
<1>3. CASE \E p \in {"fulfilled", "rejected"} : PollSettles(p)
  BY <1>3 DEF PollSettles, ThreadTypeOK, Js
<1>4. CASE StartJsReturns
  BY <1>4 DEF StartJsReturns, ThreadTypeOK, Js
<1>5. CASE StartJsThrows
  <2>1. FinishJob("error", latch) /\ jobs # << >> /\ latch \in BOOLEAN
    BY <1>5 DEF StartJsThrows, Located, ThreadTypeOK
  <2>2. QED
    BY <1>5, <2>1, FinishJobTypes, AnswerTypes DEF StartJsThrows, ThreadTypeOK, Js
<1>6. CASE \E r \in {"ok", "error"} : EvalReturns(r)
  <2>1. PICK r \in Outcomes : EvalReturns(r)
    BY <1>6, AnswerTypes
  <2>2. Settle({evaluating}, r) /\ latch' \in BOOLEAN
    BY <2>1 DEF EvalReturns, LatchAfter, ThreadTypeOK
  <2>3. QED
    BY <2>1, <2>2, SettleTypes DEF EvalReturns, ThreadTypeOK, Js
<1>7. CASE Wedge \/ Unwedge
  <2>1. wedged' \in BOOLEAN
    BY <1>7 DEF Wedge, Unwedge
  <2>2. UNCHANGED << terminationVars, timerVars, pc, evaluating, jobVars,
                     channelVars, call >>
    BY <1>7 DEF Wedge, Unwedge
  <2>3. QED
    BY <2>1, <2>2 DEF ThreadTypeOK
<1>8. CASE HeapLimit
  <2>1. /\ reason' \in {"none", "host", "handle", "timeout", "heap", "channel"}
        /\ status' \in {"running", "requested", "terminated"}
        /\ latch' \in BOOLEAN /\ wake' \in BOOLEAN
    BY <1>8 DEF HeapLimit, EnsureReason, Request, ThreadTypeOK
  <2>2. QED
    BY <1>8, <2>1 DEF HeapLimit, ThreadTypeOK
<1>9. CASE HostCompletes
  BY <1>9 DEF HostCompletes, ThreadTypeOK, Js
<1>10. QED
  BY <1>1, <1>2, <1>3, <1>4, <1>5, <1>6, <1>7, <1>8, <1>9 DEF GuestStep

\* The watchdogs and the deadlines keep the types.
LEMMA TimerTypes ==
  ASSUME ThreadTypeOK, NEW c \in Calls, TimerStep(c)
  PROVE  ThreadTypeOK'
<1> USE DEF terminationVars, timerVars, positionVars, jobVars, channelVars
<1>1. CASE WatchdogFires(c)
  BY <1>1 DEF WatchdogFires, ThreadTypeOK, Js
<1>2. CASE WatchdogTerminates(c)
  BY <1>2 DEF WatchdogTerminates, EnsureReason, ThreadTypeOK, Js
<1>3. CASE DeadlinePasses(c)
  <2>1. c \in JobCalls
    BY <1>3, JobListTypes DEF DeadlinePasses
  <2>2. QED
    BY <1>3, <2>1 DEF DeadlinePasses, ThreadTypeOK, Js
<1>4. QED
  BY <1>1, <1>2, <1>3 DEF TimerStep

\* The calls, as the host threads make them.
LEMMA CallTypes ==
  ASSUME TypeOK, NEW c \in Calls, Issue(c) \/ CallStep(c) \/ ForceKill(c)
  PROVE  TypeOK'
<1> USE DEF terminationVars, timerVars, positionVars, jobVars, channelVars,
            ownerVars, handleVars, TypeOK
<1>1. ASSUME NEW a \in {"issued", "checked", "sent"} \cup Outcomes,
             call' = [call EXCEPT ![c] = a]
      PROVE  call' \in [Calls -> {"new", "issued", "checked", "sent"} \cup Outcomes]
  BY <1>1 DEF ThreadTypeOK
<1>2. CASE Issue(c)
  <2>1. call' \in [Calls -> {"new", "issued", "checked", "sent"} \cup Outcomes]
    BY <1>1, <1>2 DEF Issue
  <2>2. QED
    BY <1>2, <2>1 DEF Issue, ThreadTypeOK, HandleTypeOK, Js
<1>3. CASE CheckSender(c)
  <2>1. call' \in [Calls -> {"new", "issued", "checked", "sent"} \cup Outcomes]
    BY <1>1, <1>3, AnswerTypes DEF CheckSender
  <2>2. QED
    BY <1>3, <2>1 DEF CheckSender, ThreadTypeOK, HandleTypeOK, Js
<1>4. CASE Send(c)
  <2>1. call' \in [Calls -> {"new", "issued", "checked", "sent"} \cup Outcomes]
    BY <1>1, <1>4, AnswerTypes DEF Send
  <2>2. queue' \in Seq(Calls \cup {"terminate", "shutdown"})
    <3>1. queue \in Seq(Calls \cup {"terminate", "shutdown"})
      BY DEF ThreadTypeOK
    <3>2. Append(queue, c) \in Seq(Calls \cup {"terminate", "shutdown"})
      BY <3>1
    <3>3. QED
      BY <1>4, <3>1, <3>2 DEF Send
  <2>3. HandleTypeOK'
    BY <1>4 DEF Send, HandleTypeOK
  <2>4. ThreadTypeOK'
    BY <1>4, <2>1, <2>2 DEF Send, ThreadTypeOK, Js
  <2>5. QED
    BY <2>3, <2>4
<1>5. CASE ForceKill(c)
  <2>1. call' \in [Calls -> {"new", "issued", "checked", "sent"} \cup Outcomes]
    BY <1>1, <1>5, AnswerTypes DEF ForceKill
  <2>2. QED
    BY <1>5, <2>1 DEF ForceKill, ForceTerminated, ThreadTypeOK, HandleTypeOK, Js
<1>6. QED
  BY <1>2, <1>3, <1>4, <1>5 DEF CallStep

\* terminate(), close() and the killers.
LEMMA HandleTypes ==
  ASSUME TypeOK,
         \/ OwnerStep \/ TerminateBegins \/ CloseBegins \/ OwnerDrops
         \/ \E k \in Killers : KillerReasons(k) \/ KillerStep(k)
  PROVE  TypeOK'
<1> USE DEF terminationVars, timerVars, positionVars, jobVars, channelVars,
            threadVars, ownerVars, TypeOK
<1>1. CASE CallReturns \/ TerminateConfirmed \/ TerminateJoined \/ CloseConfirmed
             \/ OwnerDrops
  <2>1. HandleTypeOK'
    BY <1>1 DEF CallReturns, TerminateConfirmed, TerminateJoined, CloseConfirmed,
                OwnerDrops, HandleTypeOK
  <2>2. UNCHANGED threadVars
    BY <1>1 DEF CallReturns, TerminateConfirmed, TerminateJoined, CloseConfirmed,
                OwnerDrops
  <2>3. QED
    BY <2>1, <2>2 DEF ThreadTypeOK, Js
<1>2. CASE TerminateBegins
  BY <1>2 DEF TerminateBegins, EnsureReason, ThreadTypeOK, HandleTypeOK, Js
<1>3. CASE TerminateRequests
  BY <1>3, SMTT(40) DEF TerminateRequests, Request, ThreadTypeOK, HandleTypeOK, Js
<1>4. CASE TerminateSends
  <2>1. queue' \in Seq(Calls \cup {"terminate", "shutdown"})
    <3>1. queue \in Seq(Calls \cup {"terminate", "shutdown"})
      BY DEF ThreadTypeOK
    <3>2. queue' = Append(queue, "terminate") \/ queue' = queue
      BY <1>4 DEF TerminateSends
    <3>3. QED
      BY <3>1, <3>2
  <2>2. QED
    BY <1>4, <2>1, SMTT(40) DEF TerminateSends, ThreadTypeOK, HandleTypeOK, Js
<1>5. CASE TerminateLatches
  BY <1>5 DEF TerminateLatches, ThreadTypeOK, HandleTypeOK, Js
<1>6. CASE TerminateForces
  BY <1>6 DEF TerminateForces, ForceTerminated, ThreadTypeOK, HandleTypeOK, Js
<1>7. CASE CloseBegins
  <2>1. queue' \in Seq(Calls \cup {"terminate", "shutdown"})
    <3>1. queue \in Seq(Calls \cup {"terminate", "shutdown"})
      BY DEF ThreadTypeOK
    <3>2. Append(queue, "shutdown") \in Seq(Calls \cup {"terminate", "shutdown"})
      BY <3>1
    <3>3. QED
      BY <1>7, <3>1, <3>2 DEF CloseBegins
  <2>2. owner' \in {"dropped", "closing"} /\ shutdown' \in BOOLEAN
    BY <1>7 DEF CloseBegins, HandleTypeOK
  <2>3. UNCHANGED << terminationVars, timerVars, positionVars, jobVars, rxOpen,
                     reply, call, termResult, killer >>
    BY <1>7 DEF CloseBegins
  <2>4. QED
    BY <2>1, <2>2, <2>3 DEF ThreadTypeOK, HandleTypeOK
<1>8. CASE \E k \in Killers : KillerReasons(k)
  BY <1>8 DEF KillerReasons, EnsureReason, ThreadTypeOK, HandleTypeOK, Js
<1>9. CASE \E k \in Killers : KillerRequests(k)
  BY <1>9 DEF KillerRequests, Request, ThreadTypeOK, HandleTypeOK, Js
<1>10. CASE \E k \in Killers : KillerLatches(k)
  BY <1>10 DEF KillerLatches, ThreadTypeOK, HandleTypeOK, Js
<1>11. QED
  BY <1>1, <1>2, <1>3, <1>4, <1>5, <1>6, <1>7, <1>8, <1>9, <1>10
  DEF OwnerStep, KillerStep

\* The threads around the runtime thread, and the timers, leave its place, its
\* jobs, its own termination mark and its responder of Terminate alone.
HostStep ==
  \/ \E c \in Calls : Issue(c) \/ CallStep(c) \/ ForceKill(c)
  \/ OwnerStep \/ TerminateBegins \/ CloseBegins \/ OwnerDrops
  \/ \E k \in Killers : KillerReasons(k) \/ KillerStep(k)

\* None of them moves the runtime thread or touches its jobs.
LEMMA HostLeavesThread ==
  ASSUME HostStep \/ \E c \in Calls : TimerStep(c)
  PROVE  UNCHANGED << pc, wedged, evaluating, jobs, promise, justActivated,
                      coreTerminated, rxOpen, reply >>
<1> USE DEF terminationVars, timerVars, positionVars, jobVars, channelVars,
            threadVars
<1>1. CASE \E c \in Calls : TimerStep(c)
  BY <1>1 DEF TimerStep, WatchdogFires, WatchdogTerminates, DeadlinePasses
<1>2. CASE \E c \in Calls : Issue(c) \/ CallStep(c) \/ ForceKill(c)
  BY <1>2 DEF Issue, CallStep, CheckSender, Send, ForceKill
<1>3. CASE OwnerStep \/ TerminateBegins \/ CloseBegins \/ OwnerDrops
  BY <1>3 DEF OwnerStep, CallReturns, TerminateRequests, TerminateSends,
     TerminateLatches, TerminateConfirmed, TerminateJoined, TerminateForces,
     CloseConfirmed, TerminateBegins, CloseBegins, OwnerDrops
<1>4. CASE \E k \in Killers : KillerReasons(k) \/ KillerStep(k)
  BY <1>4 DEF KillerReasons, KillerStep, KillerRequests, KillerLatches
<1>5. QED
  BY <1>1, <1>2, <1>3, <1>4 DEF HostStep

\* Every step is the runtime thread's, its guest's or host functions', a timer's or the host's.
LEMMA NextCases ==
  ASSUME Next
  PROVE  \/ ThreadStep
         \/ (GuestStep \/ Unwedge) /\ UNCHANGED handleVars
         \/ \E c \in Calls : TimerStep(c) /\ UNCHANGED handleVars
         \/ HostStep
BY DEF Next, HostStep, HostDecides, HostReturns

\* The dispatcher's steps keep the thread's place and its jobs in agreement.
LEMMA DispatcherLocated ==
  ASSUME ThreadTypeOK, Located,
         DispatcherStep \/ HandleChannelClosed \/ WakeUp \/ Tick
  PROVE  Located'
<1> USE CallsAssumption DEF terminationVars, timerVars, positionVars, jobVars,
        channelVars
<1>1. CASE PollQuiet \/ NoActiveJob \/ JobWaits \/ FlagPasses \/ WakeUp \/ Tick
             \/ LoopJsUnwinds
  <2>1. /\ pc \notin {"startjs", "evaljs"} /\ pc' \notin {"startjs", "evaljs"}
        /\ UNCHANGED << jobs, promise, evaluating >>
    BY <1>1 DEF PollQuiet, NoActiveJob, JobWaits, FlagPasses, WakeUp, Tick,
                LoopJsUnwinds
  <2>2. QED
    BY <2>1 DEF Located
<1>2. CASE JobStarts
  BY <1>2 DEF JobStarts, Located
<1>3. CASE JobExpires \/ StartJsUnwinds \/ JobCompletes
  BY <1>3 DEF JobExpires, StartJsUnwinds, JobCompletes, FinishJob, Located
<1>4. CASE FlagAborts \/ HandleTerminate \/ HandleChannelClosed \/ DropDispatcher
             \/ HandleShutdown
  <2>1. /\ pc \in {"flag", "wait", "dropping"} /\ pc' \in {"dropping", "gone"}
        /\ UNCHANGED evaluating
    BY <1>4 DEF FlagAborts, HandleTerminate, HandleChannelClosed, DropDispatcher,
                HandleShutdown, Receives
  <2>2. promise' = "none" \/ UNCHANGED << jobs, promise >>
    BY <1>4 DEF FlagAborts, HandleTerminate, HandleChannelClosed, DropDispatcher,
                HandleShutdown, AbortJobs
  <2>3. QED
    BY <2>1, <2>2 DEF Located
<1>5. CASE CallRejected
  BY <1>5 DEF CallRejected, Receives, Located
<1>6. CASE EvalStarts
  <2>1. Command \in SyncCalls
    BY <1>6 DEF EvalStarts, Receives, Command
  <2>2. QED
    BY <1>6, <2>1 DEF EvalStarts, Receives, Calls, Located
<1>7. CASE EvalUnwinds
  BY <1>7 DEF EvalUnwinds, Located
<1>8. CASE JobSubmitted
  <2>1. Command \in JobCalls
    BY <1>8 DEF JobSubmitted, Receives, Command
  <2>2. jobs' # << >>
    BY <1>8, <2>1 DEF JobSubmitted, ThreadTypeOK
  <2>3. QED
    BY <1>8, <2>2 DEF JobSubmitted, Receives, Located
<1>9. QED
  BY <1>1, <1>2, <1>3, <1>4, <1>5, <1>6, <1>7, <1>8 DEF DispatcherStep

\* So do the guest's steps and returning host functions.
LEMMA GuestLocated ==
  ASSUME ThreadTypeOK, Located, GuestStep \/ Unwedge
  PROVE  Located'
<1> USE DEF terminationVars, timerVars, positionVars, jobVars, channelVars
<1>1. CASE PollEntersJs \/ LoopJsReturns \/ Wedge \/ Unwedge \/ HeapLimit
             \/ HostCompletes
  BY <1>1 DEF PollEntersJs, LoopJsReturns, Wedge, Unwedge, HeapLimit,
              HostCompletes, Located
<1>2. CASE LoopFails \/ StartJsThrows
  BY <1>2 DEF LoopFails, StartJsThrows, FinishJob, Located
<1>3. CASE StartJsReturns \/ \E p \in {"fulfilled", "rejected"} : PollSettles(p)
  BY <1>3 DEF StartJsReturns, PollSettles, Located
<1>4. CASE \E r \in {"ok", "error"} : EvalReturns(r)
  BY <1>4 DEF EvalReturns, Located
<1>5. QED
  BY <1>1, <1>2, <1>3, <1>4 DEF GuestStep

\* Type correctness, of the runtime thread and of the threads around it, for
\* any number of calls and killers.
THEOREM TypeCorrect == Spec => [](TypeOK /\ Located)
<1>1. Init => TypeOK /\ Located
  <2>1. Init => Located
    BY CallsAssumption DEF Init, ThreadInit, Located
  <2>2. QED
    BY <2>1, TypeInit
<1>2. TypeOK /\ Located /\ [Next]_vars => (TypeOK /\ Located)'
  <2> SUFFICES ASSUME TypeOK, Located, [Next]_vars
               PROVE  TypeOK' /\ Located'
    OBVIOUS
  <2>1. ASSUME UNCHANGED handleVars PROVE ThreadTypeOK' => TypeOK'
    BY <2>1 DEF handleVars, TypeOK, HandleTypeOK
  <2>2. CASE ThreadStep
    BY <2>1, <2>2, DispatcherTypes, DispatcherLocated DEF ThreadStep, TypeOK
  <2>3. CASE (GuestStep \/ Unwedge) /\ UNCHANGED handleVars
    BY <2>1, <2>3, GuestTypes, GuestLocated DEF TypeOK
  <2>4. CASE \E c \in Calls : TimerStep(c) /\ UNCHANGED handleVars
    <3>1. Located'
      BY <2>4, HostLeavesThread DEF Located
    <3>2. QED
      BY <2>1, <2>4, <3>1, TimerTypes DEF TypeOK
  <2>5. CASE HostStep
    <3>1. Located'
      BY <2>5, HostLeavesThread DEF Located
    <3>2. QED
      BY <2>5, <3>1, CallTypes, HandleTypes DEF HostStep
  <2>6. CASE UNCHANGED vars
    BY <2>6 DEF vars, threadVars, handleVars, terminationVars, timerVars,
       positionVars, jobVars, channelVars, TypeOK, ThreadTypeOK, HandleTypeOK,
       Located
  <2>7. QED
    BY <2>2, <2>3, <2>4, <2>5, <2>6, NextCases
<1>3. QED
  BY <1>1, <1>2, PTL DEF Spec

-----------------------------------------------------------------------------
(* Termination. *)

\* What makes the termination properties inductive: a reason is on record
\* before anybody requests, the commands in the channel say what their senders
\* had done, and the channel closes only with the loop.
TerminationInv ==
  /\ owner = "reasoned" => reason # "none"
  /\ \A k \in Killers : killer[k] = "reasoned" => reason # "none"
  /\ TerminationAgrees
  /\ owner \in {"sending", "latching", "confirming", "joining"} => status # "running"
  /\ "terminate" \in ToSet(queue) => status # "running"
  /\ "shutdown" \in ToSet(queue) => owner \in {"closing", "dropped"}
  /\ reply # "none" => status = "terminated" \/ owner \in {"closing", "dropped"}
  /\ rxOpen = FALSE => pc \in {"dropping", "gone"}
  /\ ExitExplained
  /\ TerminateTakesEffect

\* Answers that say "terminated" are given as such: no other answer turns
\* into one, and a call that is not answered keeps what it knew.
LEMMA SettleHonest ==
  ASSUME NEW S, NEW result \in Outcomes, Settle(S, result), NEW c \in Calls,
         call'[c] \in {"terminated", "forceKilled"}
  PROVE  call[c] \in {"terminated", "forceKilled"} \/ result \in {"terminated", "forceKilled"}
BY DEF Settle, Resolved

\* finalize_termination leaves the runtime terminated.
LEMMA FinalMeansTerminated ==
  ASSUME coreTerminated => status = "terminated", MarkFinal
  PROVE  coreTerminated' /\ status' = "terminated"
BY DEF MarkFinal

\* What one step of the runtime thread may do to the termination state.
ThreadTermination ==
  /\ status = "terminated" => status' = "terminated"
  /\ status # "running" => status' # "running"
  /\ status' # "running" => reason' # "none"
  /\ reason # "none" => reason' # "none"
  /\ coreTerminated' => status' = "terminated"
  /\ \A c \in Calls : call'[c] \in {"terminated", "forceKilled"} => status' # "running"
  /\ ToSet(queue') \subseteq ToSet(queue)
  /\ reply' # "none" => reply # "none" \/ status' = "terminated"
                                      \/ owner \in {"closing", "dropped"}
  /\ rxOpen' = FALSE => pc' \in {"dropping", "gone"}
  /\ pc' \in {"dropping", "gone"} => status' = "terminated" \/ reply' # "none"

\* A step that leaves the termination state, the channel and the answers alone.
LEMMA QuietTermination ==
  ASSUME TypeOK, TerminationInv,
         UNCHANGED << status, coreTerminated, reply, rxOpen >>,
         reason # "none" => reason' # "none",
         ToSet(queue') \subseteq ToSet(queue),
         pc \notin {"dropping", "gone"}, pc' \notin {"dropping", "gone"},
         \A c \in Calls : call'[c] \in {"terminated", "forceKilled"} => status # "running"
  PROVE  ThreadTermination
BY DEF TerminationInv, ReasonKnown, TerminationAgrees, ThreadTermination

\* The same, for a step that only answers.
LEMMA AnsweringTermination ==
  ASSUME TypeOK, TerminationInv, NEW S, NEW result \in Outcomes,
         Settle(S, result), result \notin {"terminated", "forceKilled"}
  PROVE  \A c \in Calls : call'[c] \in {"terminated", "forceKilled"} => status # "running"
BY SettleHonest DEF TerminationInv, TerminationAgrees

\* And for one that aborts the jobs on its way out of the loop.
LEMMA AbortingTermination ==
  ASSUME TypeOK, TerminationInv, AbortJobs,
         status # "running" \/ reason' # "none",
         reason # "none" => reason' # "none",
         ToSet(queue') \subseteq ToSet(queue), pc' = "dropping"
  PROVE  ThreadTermination
<1>1. coreTerminated' /\ status' = "terminated"
  BY FinalMeansTerminated DEF AbortJobs, TerminationInv, TerminationAgrees
<1>2. QED
  BY <1>1 DEF TerminationInv, TerminationAgrees, ReasonKnown, ThreadTermination

\* What the dispatcher does to the termination state, action by action.
LEMMA DispatcherTermination ==
  ASSUME TypeOK, Located, TerminationInv,
         DispatcherStep \/ HandleChannelClosed \/ WakeUp \/ Tick
  PROVE  ThreadTermination
<1> USE DEF terminationVars, timerVars, positionVars, jobVars, channelVars, TypeOK
<1>1. queue \in Seq(Calls \cup {"terminate", "shutdown"})
  BY DEF ThreadTypeOK
<1>2. ASSUME NEW S, Receives(S)
      PROVE  /\ Command \in S /\ Command \in ToSet(queue)
             /\ ToSet(queue') \subseteq ToSet(queue)
             /\ pc = "wait"
  BY <1>1, <1>2, SequenceMembers DEF Receives, Command
<1>3. CASE PollQuiet \/ NoActiveJob \/ JobStarts \/ JobWaits \/ FlagPasses \/ WakeUp \/ Tick
  <2>1. /\ UNCHANGED << status, reason, coreTerminated, reply, rxOpen, queue, call >>
        /\ pc \notin {"dropping", "gone"} /\ pc' \notin {"dropping", "gone"}
    BY <1>3 DEF PollQuiet, NoActiveJob, JobStarts, JobWaits, FlagPasses, WakeUp, Tick
  <2>2. QED
    BY <2>1, QuietTermination DEF TerminationInv, TerminationAgrees
<1>4. CASE JobExpires \/ JobCompletes
  <2>1. PICK r \in {"timeout", "ok", "error"}, l \in BOOLEAN : FinishJob(r, l)
    BY <1>4 DEF JobExpires, JobCompletes, ThreadTypeOK
  <2>2. Settle({Active}, r) /\ r \in Outcomes
    BY <2>1, AnswerTypes DEF FinishJob
  <2>3. /\ UNCHANGED << status, coreTerminated, reply, rxOpen, queue >>
        /\ pc \notin {"dropping", "gone"} /\ pc' \notin {"dropping", "gone"}
        /\ reason # "none" => reason' # "none"
    BY <1>4 DEF JobExpires, JobCompletes, EnsureReason
  <2>4. QED
    BY <2>2, <2>3, AnsweringTermination, QuietTermination
<1>5. CASE LoopJsUnwinds
  <2>1. /\ UNCHANGED << reason, reply, rxOpen, queue, call >>
        /\ pc \notin {"dropping", "gone"} /\ pc' \notin {"dropping", "gone"}
    BY <1>5 DEF LoopJsUnwinds
  <2>2. CASE ShouldReject
    <3>1. MarkFinal /\ status # "running"
      BY <1>5, <2>2 DEF LoopJsUnwinds, ShouldReject, TerminationInv, TerminationAgrees
    <3>2. QED
      BY <2>1, <3>1, FinalMeansTerminated
      DEF TerminationInv, TerminationAgrees, ReasonKnown, ThreadTermination
  <2>3. CASE ~ShouldReject
    BY <1>5, <2>1, <2>3, QuietTermination
    DEF LoopJsUnwinds, TerminationInv, TerminationAgrees
  <2>4. QED
    BY <2>2, <2>3
<1>6. CASE StartJsUnwinds \/ EvalUnwinds
  <2>1. /\ UNCHANGED << reason, reply, rxOpen, queue >>
        /\ pc \notin {"dropping", "gone"} /\ pc' \notin {"dropping", "gone"}
    BY <1>6 DEF StartJsUnwinds, EvalUnwinds
  <2>2. CASE ShouldReject
    <3>1. MarkFinal /\ status # "running"
      BY <1>6, <2>2 DEF StartJsUnwinds, EvalUnwinds, ShouldReject, TerminationInv,
         TerminationAgrees
    <3>2. QED
      BY <2>1, <3>1, FinalMeansTerminated
      DEF TerminationInv, TerminationAgrees, ReasonKnown, ThreadTermination
  <2>3. CASE ~ShouldReject
    <3>1. UNCHANGED << status, coreTerminated >>
      BY <1>6, <2>3 DEF StartJsUnwinds, EvalUnwinds
    <3>2. \E S : Settle(S, "interrupted")
      BY <1>6, <2>3 DEF StartJsUnwinds, EvalUnwinds, FinishJob
    <3>3. QED
      BY <2>1, <3>1, <3>2, AnswerTypes, AnsweringTermination, QuietTermination
  <2>4. QED
    BY <2>2, <2>3
<1>7. CASE FlagAborts
  <2>1. status # "running"
    BY <1>7 DEF FlagAborts, ShouldReject, TerminationInv, TerminationAgrees
  <2>2. QED
    BY <1>7, <2>1, AbortingTermination DEF FlagAborts
<1>8. CASE HandleTerminate
  <2>1. "terminate" \in ToSet(queue) /\ ToSet(queue') \subseteq ToSet(queue)
    BY <1>2, <1>8 DEF HandleTerminate
  <2>2. QED
    BY <1>8, <2>1, AbortingTermination DEF HandleTerminate, TerminationInv
<1>9. CASE HandleChannelClosed
  <2>1. reason' # "none"
    BY <1>9 DEF HandleChannelClosed, EnsureReason
  <2>2. QED
    BY <1>9, <2>1, AbortingTermination DEF HandleChannelClosed
<1>10. CASE CallRejected
  <2>1. status # "running"
    BY <1>10 DEF CallRejected, ShouldReject, TerminationInv, TerminationAgrees
  <2>2. QED
    BY <1>2, <1>10, <2>1, QuietTermination DEF CallRejected
<1>11. CASE EvalStarts \/ JobSubmitted
  BY <1>2, <1>11, QuietTermination
  DEF EvalStarts, JobSubmitted, TerminationInv, TerminationAgrees
<1>12. CASE HandleShutdown
  <2>1. "shutdown" \in ToSet(queue) /\ ToSet(queue') \subseteq ToSet(queue)
    BY <1>2, <1>12 DEF HandleShutdown
  <2>2. QED
    BY <1>12, <2>1
    DEF HandleShutdown, TerminationInv, TerminationAgrees, ReasonKnown, ThreadTermination
<1>13. CASE DropDispatcher
  <2>1. UNCHANGED << status, reason, coreTerminated >> /\ pc = "dropping" /\ pc' = "gone"
    BY <1>13 DEF DropDispatcher
  <2>2. \A c \in Calls : call'[c] \in {"terminated", "forceKilled"} => status # "running"
    BY <1>13 DEF DropDispatcher, TerminationInv, TerminationAgrees
  <2>3. ToSet(queue') = {}
    BY <1>13, SequenceMembers DEF DropDispatcher, ToSet
  <2>4. status = "terminated" \/ reply # "none"
    BY <2>1 DEF TerminationInv, ExitExplained
  <2>5. reply # "none" => reply' # "none"
    BY <1>13 DEF DropDispatcher
  <2>6. QED
    BY <2>1, <2>2, <2>3, <2>4, <2>5
    DEF TerminationInv, TerminationAgrees, ReasonKnown, ThreadTermination
<1>14. QED
  BY <1>3, <1>4, <1>5, <1>6, <1>7, <1>8, <1>9, <1>10, <1>11, <1>12, <1>13
  DEF DispatcherStep

\* The guest decides nothing about a termination, the heap limit apart.
LEMMA GuestTermination ==
  ASSUME TypeOK, Located, TerminationInv, GuestStep \/ Unwedge
  PROVE  ThreadTermination
<1> USE DEF terminationVars, timerVars, positionVars, jobVars, channelVars, TypeOK
<1>1. CASE PollEntersJs \/ LoopJsReturns \/ StartJsReturns
             \/ \E p \in {"fulfilled", "rejected"} : PollSettles(p)
  <2>1. /\ UNCHANGED << status, reason, coreTerminated, reply, rxOpen, queue, call >>
        /\ pc \notin {"dropping", "gone"} /\ pc' \notin {"dropping", "gone"}
    BY <1>1 DEF PollEntersJs, LoopJsReturns, StartJsReturns, PollSettles
  <2>2. QED
    BY <2>1, QuietTermination DEF TerminationInv, TerminationAgrees
<1>2. CASE LoopFails \/ StartJsThrows \/ \E r \in {"ok", "error"} : EvalReturns(r)
  <2>1. \E S : \E r \in {"ok", "error"} : Settle(S, r)
    BY <1>2 DEF LoopFails, StartJsThrows, EvalReturns, FinishJob
  <2>2. /\ UNCHANGED << status, reason, coreTerminated, reply, rxOpen, queue >>
        /\ pc \notin {"dropping", "gone"} /\ pc' \notin {"dropping", "gone"}
    BY <1>2 DEF LoopFails, StartJsThrows, EvalReturns
  <2>3. QED
    BY <2>1, <2>2, AnswerTypes, AnsweringTermination, QuietTermination
<1>3. CASE HeapLimit
  <2>1. /\ UNCHANGED << coreTerminated, pc, call, queue, reply, rxOpen >>
        /\ pc \notin {"dropping", "gone"} /\ reason' # "none"
        /\ status' = status \/ status = "running"
        /\ status' # "running"
    BY <1>3 DEF HeapLimit, EnsureReason, Request, Js
  <2>2. QED
    BY <2>1 DEF TerminationInv, TerminationAgrees, ThreadTermination
<1>4. CASE Wedge \/ Unwedge \/ HostCompletes
  <2>1. UNCHANGED << status, reason, coreTerminated, reply, rxOpen, queue, call, pc >>
    BY <1>4 DEF Wedge, Unwedge, HostCompletes
  <2>2. QED
    BY <2>1 DEF TerminationInv, TerminationAgrees, ReasonKnown, ExitExplained,
                ThreadTermination
<1>5. QED
  BY <1>1, <1>2, <1>3, <1>4 DEF GuestStep

\* A thread step that keeps to ThreadTermination keeps the invariant.
LEMMA ThreadKeepsTermination ==
  ASSUME TerminationInv, ThreadTermination, UNCHANGED handleVars
  PROVE  TerminationInv'
BY DEF TerminationInv, ThreadTermination, ReasonKnown, TerminationAgrees,
   ExitExplained, TerminateTakesEffect, handleVars

\* Sending a command adds it to the channel and nothing else.
LEMMA ChannelMembers ==
  ASSUME ThreadTypeOK, NEW m \in Calls \cup {"terminate", "shutdown"},
         queue' = Append(queue, m)
  PROVE  ToSet(queue') = ToSet(queue) \cup {m}
<1>1. queue \in Seq(Calls \cup {"terminate", "shutdown"})
  BY DEF ThreadTypeOK
<1>2. QED
  BY <1>1, SequenceMembers

\* A call being made, sent or given up keeps the invariant.
LEMMA CallTermination ==
  ASSUME TypeOK, TerminationInv, NEW c \in Calls,
         Issue(c) \/ CallStep(c) \/ ForceKill(c)
  PROVE  TerminationInv'
<1> USE DEF terminationVars, timerVars, positionVars, jobVars, channelVars,
            ownerVars, handleVars, TypeOK
<1>1. CASE Issue(c)
  <2>1. /\ UNCHANGED << status, reason, coreTerminated, pc, rxOpen, reply, queue,
                        termResult, killer >>
        /\ owner' \in {"calling", owner} /\ owner \in {"free", "dropped"}
        /\ owner' = "calling" => owner = "free"
    BY <1>1, CallsAssumption DEF Issue, Calls, JobCalls
  <2>2. \A d \in Calls : call'[d] \in {"terminated", "forceKilled"} => call'[d] = call[d]
    BY <1>1 DEF Issue, ThreadTypeOK
  <2>3. QED
    BY <2>1, <2>2 DEF TerminationInv, ReasonKnown, TerminationAgrees,
                      ExitExplained, TerminateTakesEffect
<1>2. CASE CheckSender(c)
  <2>1. UNCHANGED << status, reason, coreTerminated, pc, rxOpen, reply, queue,
                     owner, termResult, killer >>
    BY <1>2 DEF CheckSender
  <2>2. \A d \in Calls : call'[d] \in {"terminated", "forceKilled"} =>
          call'[d] = call[d] \/ status # "running"
    BY <1>2 DEF CheckSender, ThreadTypeOK
  <2>3. QED
    BY <2>1, <2>2 DEF TerminationInv, ReasonKnown, TerminationAgrees,
                      ExitExplained, TerminateTakesEffect
<1>3. CASE Send(c)
  <2>1. UNCHANGED << status, reason, coreTerminated, pc, rxOpen, reply, owner,
                     termResult, killer >>
    BY <1>3 DEF Send
  <2>2. \A d \in Calls : call'[d] \in {"terminated", "forceKilled"} => call'[d] = call[d]
    BY <1>3 DEF Send, ThreadTypeOK
  <2>3. ToSet(queue') \subseteq ToSet(queue) \cup {c}
    BY <1>3, ChannelMembers DEF Send
  <2>4. c \notin {"terminate", "shutdown"}
    BY CallsAssumption
  <2>5. QED
    BY <2>1, <2>2, <2>3, <2>4
    DEF TerminationInv, ReasonKnown, TerminationAgrees, ExitExplained,
        TerminateTakesEffect
<1>4. CASE ForceKill(c)
  <2>1. /\ UNCHANGED << reason, coreTerminated, pc, rxOpen, reply, queue, owner,
                        termResult, killer >>
        /\ status # "running" /\ status' = "terminated"
    BY <1>4 DEF ForceKill, ForceTerminated
  <2>2. QED
    BY <2>1 DEF TerminationInv, ReasonKnown, TerminationAgrees, ExitExplained,
                TerminateTakesEffect
<1>5. QED
  BY <1>1, <1>2, <1>3, <1>4 DEF CallStep

\* The owner's terminate() and close() keep it, whichever way they end.
LEMMA OwnerTermination ==
  ASSUME TypeOK, TerminationInv,
         OwnerStep \/ TerminateBegins \/ CloseBegins \/ OwnerDrops
  PROVE  TerminationInv'
<1> USE DEF terminationVars, timerVars, positionVars, jobVars, channelVars,
            threadVars, TypeOK
<1>1. CASE CallReturns \/ OwnerDrops
  BY <1>1 DEF CallReturns, OwnerDrops, TerminationInv, ReasonKnown,
     TerminationAgrees, ExitExplained, TerminateTakesEffect
<1>2. CASE TerminateBegins
  BY <1>2 DEF TerminateBegins, EnsureReason, TerminationInv, ReasonKnown,
     TerminationAgrees, ExitExplained, TerminateTakesEffect
<1>3. CASE TerminateRequests
  BY <1>3 DEF TerminateRequests, Request, TerminationInv, ReasonKnown,
     TerminationAgrees, ExitExplained, TerminateTakesEffect
<1>4. CASE TerminateSends
  <2>1. CASE rxOpen
    <3>1. ToSet(queue') = ToSet(queue) \cup {"terminate"}
      BY <1>4, <2>1, ChannelMembers DEF TerminateSends
    <3>2. QED
      BY <1>4, <2>1, <3>1 DEF TerminateSends, TerminationInv, ReasonKnown,
         TerminationAgrees, ExitExplained, TerminateTakesEffect
  <2>2. CASE ~rxOpen
    <3>1. status = "terminated"
      BY <1>4, <2>2 DEF TerminateSends, TerminationInv, ExitExplained, ThreadTypeOK
    <3>2. QED
      BY <1>4, <2>2, <3>1 DEF TerminateSends, TerminationInv, ReasonKnown,
         TerminationAgrees, ExitExplained, TerminateTakesEffect
  <2>3. QED
    BY <2>1, <2>2
<1>5. CASE TerminateLatches
  BY <1>5 DEF TerminateLatches, TerminationInv, ReasonKnown,
     TerminationAgrees, ExitExplained, TerminateTakesEffect
<1>6. CASE TerminateConfirmed \/ TerminateJoined
  <2>1. /\ status = "terminated" /\ owner' = "free"
        /\ owner \notin {"closing", "dropped"} /\ UNCHANGED << threadVars, killer >>
    BY <1>6 DEF TerminateConfirmed, TerminateJoined, TerminationInv
  <2>2. QED
    BY <2>1 DEF TerminationInv, ReasonKnown, TerminationAgrees, ExitExplained,
                TerminateTakesEffect
<1>7. CASE TerminateForces
  BY <1>7 DEF TerminateForces, ForceTerminated, TerminationInv, ReasonKnown,
     TerminationAgrees, ExitExplained, TerminateTakesEffect
<1>8. CASE CloseBegins
  <2>1. /\ UNCHANGED << status, reason, coreTerminated, pc, rxOpen, reply, call,
                        termResult, killer >>
        /\ owner = "free" /\ owner' \in {"closing", "dropped"}
    BY <1>8 DEF CloseBegins
  <2>2. ToSet(queue') \subseteq ToSet(queue) \cup {"shutdown"}
    BY <1>8, ChannelMembers DEF CloseBegins
  <2>3. QED
    BY <2>1, <2>2 DEF TerminationInv, ReasonKnown, TerminationAgrees,
       ExitExplained, TerminateTakesEffect
<1>9. CASE CloseConfirmed
  BY <1>9 DEF CloseConfirmed, TerminationInv, ReasonKnown,
     TerminationAgrees, ExitExplained, TerminateTakesEffect
<1>10. QED
  BY <1>1, <1>2, <1>3, <1>4, <1>5, <1>6, <1>7, <1>8, <1>9 DEF OwnerStep

\* A TerminationHandle gives its reason before it requests.
LEMMA KillerTermination ==
  ASSUME TypeOK, TerminationInv, NEW k \in Killers,
         KillerReasons(k) \/ KillerStep(k)
  PROVE  TerminationInv'
<1> USE DEF terminationVars, timerVars, positionVars, jobVars, channelVars,
            ownerVars, TypeOK
<1>1. CASE KillerReasons(k)
  BY <1>1 DEF KillerReasons, EnsureReason, TerminationInv, ReasonKnown,
     TerminationAgrees, ExitExplained, TerminateTakesEffect
<1>2. CASE KillerRequests(k)
  BY <1>2 DEF KillerRequests, Request, HandleTypeOK, TerminationInv, ReasonKnown,
     TerminationAgrees, ExitExplained, TerminateTakesEffect
<1>3. CASE KillerLatches(k)
  BY <1>3 DEF KillerLatches, HandleTypeOK, TerminationInv, ReasonKnown,
     TerminationAgrees, ExitExplained, TerminateTakesEffect
<1>4. QED
  BY <1>1, <1>2, <1>3 DEF KillerStep

\* A timer gives a reason and never a status.
LEMMA TimerTermination ==
  ASSUME TypeOK, TerminationInv, NEW c \in Calls, TimerStep(c), UNCHANGED handleVars
  PROVE  TerminationInv'
<1> USE DEF terminationVars, timerVars, positionVars, jobVars, channelVars
<1>1. /\ UNCHANGED << status, coreTerminated, pc, rxOpen, reply, queue, call >>
      /\ reason # "none" => reason' # "none"
  BY DEF TimerStep, WatchdogFires, WatchdogTerminates, DeadlinePasses, EnsureReason
<1>2. QED
  BY <1>1 DEF TerminationInv, ReasonKnown, TerminationAgrees, ExitExplained,
     TerminateTakesEffect, handleVars

\* The invariant above, for every instance.
THEOREM TerminationInvariant == Spec => []TerminationInv
<1>1. Init => TerminationInv
  BY SequenceMembers DEF Init, ThreadInit, TerminationInv, ReasonKnown,
     TerminationAgrees, ExitExplained, TerminateTakesEffect, ToSet
<1>2. TypeOK /\ Located /\ TerminationInv /\ [Next]_vars => TerminationInv'
  <2> SUFFICES ASSUME TypeOK, Located, TerminationInv, [Next]_vars
               PROVE  TerminationInv'
    OBVIOUS
  <2>1. CASE ThreadStep
    BY <2>1, DispatcherTermination, ThreadKeepsTermination DEF ThreadStep
  <2>2. CASE (GuestStep \/ Unwedge) /\ UNCHANGED handleVars
    BY <2>2, GuestTermination, ThreadKeepsTermination
  <2>3. CASE \E c \in Calls : TimerStep(c) /\ UNCHANGED handleVars
    BY <2>3, TimerTermination
  <2>4. CASE HostStep
    BY <2>4, CallTermination, OwnerTermination, KillerTermination DEF HostStep
  <2>5. CASE UNCHANGED vars
    BY <2>5 DEF vars, threadVars, handleVars, terminationVars, timerVars,
       positionVars, jobVars, channelVars, TerminationInv, ReasonKnown,
       TerminationAgrees, ExitExplained, TerminateTakesEffect
  <2>6. QED
    BY <2>1, <2>2, <2>3, <2>4, <2>5, NextCases
<1>3. QED
  BY <1>1, <1>2, TypeCorrect, PTL DEF Spec

\* Whoever starts a termination, it has a reason to report; the thread's own mark
\* implies the shared one, and no call is told
\* "terminated" or "force-killed" in a runtime nobody asked to terminate.
THEOREM TerminationIsAgreed == Spec => []TerminationAgrees
BY TerminationInvariant, PTL DEF TerminationInv

\* When terminate() has returned, in whatever way, the runtime is terminated.
THEOREM TerminateIsEffective == Spec => []TerminateTakesEffect
BY TerminationInvariant, PTL DEF TerminationInv

\* The runtime thread leaves its loop only after a termination took effect or
\* a shutdown was answered.
THEOREM ThreadExitIsExplained == Spec => []ExitExplained
BY TerminationInvariant, PTL DEF TerminationInv

-----------------------------------------------------------------------------
(* The calls: where a call is, whose its watchdog is, and what its answer  *)
(* says.                                                                   *)


Unsent == {"new", "issued", "checked"}

\* The runtime thread works on the call, or will without another command.
Underway(c) == c \in JobSet \/ evaluating = c

\* The thread has left its loop.
LeftLoop == pc \in {"dropping", "gone"}

\* Each command is in the channel once, each job in the list once, and what
\* is in the channel is not underway yet.
OnePlace ==
  /\ IsInjective(queue) /\ IsInjective(jobs)
  /\ ToSet(queue) \cap (JobSet \cup {evaluating}) = {}

\* What a call's place, its timers and its answer say of one another.  A call
\* that was sent and not answered has a place; one that was not sent has none;
\* a watchdog is armed when the command is taken, never earlier.
CallInv(c) ==
  /\ call[c] = "sent" => c \in ToSet(queue) \/ Underway(c)
  /\ call[c] \in Unsent => c \notin ToSet(queue) /\ ~Underway(c)
  /\ call[c] \in Unsent \/ c \in ToSet(queue) => watchdog[c] = "none"
  /\ watchdog[c] \in {"armed", "firing"} => Underway(c) \/ LeftLoop
  /\ watchdog[c] # "none" \/ c \in due => c \in Timed
  /\ call[c] = "timeout" => c \in Timed /\ (c \in due \/ watchdog[c] = "fired")

\* The owner, about to send its Terminate, has none in the channel.
SendsTerminateOnce == owner = "sending" => "terminate" \notin ToSet(queue)

CallsInv ==
  /\ OnePlace
  /\ \A c \in Calls : CallInv(c)
  /\ SendsTerminateOnce

\* The invariant is at least what the runs check.
LEMMA CallsInvImplies ==
  ASSUME TypeOK, CallsInv
  PROVE  LiveCallHeld /\ WatchdogBelongsToCall /\ TimeoutHonest
<1>1. LiveCallHeld
  BY DEF CallsInv, OnePlace, CallInv, Underway, LiveCallHeld
<1>2. WatchdogBelongsToCall
  BY DEF CallsInv, CallInv, Underway, LeftLoop, WatchdogBelongsToCall
<1>3. TimeoutHonest
  BY DEF CallsInv, CallInv, TimeoutHonest
<1>4. QED
  BY <1>1, <1>2, <1>3

-----------------------------------------------------------------------------
(* The runtime thread. *)

\* What a step of the runtime thread owes the calls.
ThreadKeepsCalls ==
  /\ OnePlace'
  /\ \A c \in Calls : CallInv(c)'
  /\ ToSet(queue') \subseteq ToSet(queue)

\* No command is the absence of a call.
LEMMA NoCallIsNoCommand ==
  ASSUME ThreadTypeOK
  PROVE  NoCall \notin ToSet(queue)
<1>1. ToSet(queue) \subseteq Calls \cup {"terminate", "shutdown"}
  BY DEF ThreadTypeOK, ToSet
<1>2. QED
  BY <1>1, CallsAssumption

\* A step that touches neither the channel nor the jobs nor the calls.
LEMMA QuietKeepsCalls ==
  ASSUME CallsInv, UNCHANGED << call, watchdog, due, queue, jobs, evaluating >>,
         LeftLoop => LeftLoop'
  PROVE  ThreadKeepsCalls
BY DEF CallsInv, OnePlace, CallInv, Underway, JobSet, ThreadKeepsCalls

\* The calls in S are answered and leave, the others stay where they are.
LEMMA AnsweringKeepsCall ==
  ASSUME NEW c \in Calls, CallInv(c),
         NEW S, NEW result \in Outcomes, Settle(S, result), UNCHANGED due,
         c \in S /\ result = "timeout" => c \in due,
         c \in ToSet(queue') => c \in ToSet(queue),
         Underway(c)' => Underway(c),
         c \notin S /\ c \in ToSet(queue) => c \in ToSet(queue'),
         c \notin S /\ Underway(c) => Underway(c)',
         LeftLoop => LeftLoop'
  PROVE  CallInv(c)'
<1>1. call'[c] = IF c \in S /\ call[c] = "sent" THEN Resolved(c, result) ELSE call[c]
  BY DEF Settle
<1>2. /\ watchdog'[c] = IF c \in S /\ watchdog[c] = "armed" THEN "cancelled" ELSE watchdog[c]
      /\ c \in S => watchdog[c] # "firing"
  BY DEF Settle
<1>3. Resolved(c, result) \in Outcomes
  BY DEF Resolved, Outcomes
<1>4. Outcomes \cap (Unsent \cup {"sent"}) = {}
  BY DEF Outcomes, Unsent
<1>5. Resolved(c, result) = "timeout" => result = "timeout" \/ watchdog[c] = "fired"
  BY DEF Resolved
<1>6. call'[c] = "sent" => c \in ToSet(queue') \/ Underway(c)'
  BY <1>1, <1>3, <1>4 DEF CallInv
<1>7. /\ call'[c] \in Unsent => c \notin ToSet(queue') /\ ~Underway(c)'
      /\ call'[c] \in Unsent \/ c \in ToSet(queue') => watchdog'[c] = "none"
  BY <1>1, <1>2, <1>3, <1>4 DEF CallInv
<1>8. watchdog'[c] \in {"armed", "firing"} => Underway(c)' \/ LeftLoop'
  BY <1>2 DEF CallInv
<1>9. watchdog'[c] # "none" \/ c \in due' => c \in Timed
  BY <1>2 DEF CallInv
<1>10. call'[c] = "timeout" => c \in Timed /\ (c \in due' \/ watchdog'[c] = "fired")
  BY <1>1, <1>2, <1>5 DEF CallInv
<1>11. QED
  BY <1>6, <1>7, <1>8, <1>9, <1>10 DEF CallInv

\* The active job is answered and the next one becomes active.
LEMMA FinishingKeepsCalls ==
  ASSUME ThreadTypeOK, CallsInv, jobs # << >>,
         NEW result \in Outcomes, NEW l, FinishJob(result, l),
         result = "timeout" => Active \in due,
         UNCHANGED << due, queue, evaluating >>, LeftLoop => LeftLoop'
  PROVE  ThreadKeepsCalls
<1>1. jobs \in Seq(JobCalls) /\ jobs' = Tail(jobs) /\ Settle({Active}, result)
  BY DEF ThreadTypeOK, FinishJob
<1>2. JobSet = {Active} \cup JobSet'
  BY <1>1, SequenceMembers DEF JobSet, Active
<1>3. IsInjective(jobs') /\ Active \notin JobSet'
  BY <1>1, TakenOnce DEF CallsInv, OnePlace, JobSet, Active
<1>4. OnePlace'
  BY <1>2, <1>3 DEF CallsInv, OnePlace
<1>5. ASSUME NEW c \in Calls PROVE CallInv(c)'
  <2>1. CallInv(c)
    BY DEF CallsInv
  <2>2. /\ Underway(c)' => Underway(c)
        /\ c \notin {Active} /\ Underway(c) => Underway(c)'
    BY <1>2 DEF Underway
  <2>3. QED
    BY <1>1, <2>1, <2>2, AnsweringKeepsCall
<1>6. QED
  BY <1>4, <1>5 DEF ThreadKeepsCalls

\* All jobs are answered and the loop is left; the calls in the channel stay.
LEMMA AbortingKeepsCalls ==
  ASSUME ThreadTypeOK, CallsInv, AbortJobs, UNCHANGED << due, evaluating >>,
         IsInjective(queue'), ToSet(queue') \subseteq ToSet(queue),
         \A c \in Calls : c \in ToSet(queue) => c \in ToSet(queue'),
         LeftLoop'
  PROVE  ThreadKeepsCalls
<1>1. Settle(JobSet, "terminated") /\ jobs' = << >>
  BY DEF AbortJobs
<1>2. JobSet' = {} /\ IsInjective(jobs')
  BY <1>1, EmptyOnce DEF JobSet, ToSet
<1>3. OnePlace'
  BY <1>2 DEF CallsInv, OnePlace
<1>4. ASSUME NEW c \in Calls PROVE CallInv(c)'
  <2>1. CallInv(c)
    BY DEF CallsInv
  <2>2. /\ Underway(c)' => Underway(c)
        /\ c \notin JobSet /\ Underway(c) => Underway(c)'
    BY <1>2 DEF Underway
  <2>3. QED
    BY <1>1, <2>1, <2>2, AnswerTypes, AnsweringKeepsCall
<1>5. QED
  BY <1>3, <1>4 DEF ThreadKeepsCalls

\* A command is taken from the channel.
LEMMA ReceivingTakes ==
  ASSUME ThreadTypeOK, OnePlace, NEW S, Receives(S)
  PROVE  /\ Command \in S /\ pc = "wait"
         /\ ToSet(queue) = {Command} \cup ToSet(queue')
         /\ Command \notin ToSet(queue') /\ IsInjective(queue')
<1>1. /\ queue \in Seq(Calls \cup {"terminate", "shutdown"}) /\ queue # << >>
      /\ queue' = Tail(queue) /\ Command = Head(queue)
      /\ Command \in S /\ pc = "wait"
  BY DEF ThreadTypeOK, Receives, Command
<1>2. IsInjective(queue)
  BY DEF OnePlace
<1>3. IsInjective(queue') /\ Command \notin ToSet(queue')
  BY <1>1, <1>2, TakenOnce
<1>4. ToSet(queue) = {Command} \cup ToSet(queue')
  BY <1>1, SequenceMembers
<1>5. QED
  BY <1>1, <1>3, <1>4

\* The synchronous script ends, with its answer.
LEMMA EvalEndKeepsCalls ==
  ASSUME ThreadTypeOK, Located, CallsInv, pc = "evaljs", pc' = "poll",
         NEW result \in Outcomes \ {"timeout"}, Settle({evaluating}, result),
         evaluating' = NoCall, UNCHANGED << due, queue, jobs >>
  PROVE  ThreadKeepsCalls
<1>1. OnePlace'
  BY NoCallIsNoCommand DEF CallsInv, OnePlace, JobSet
<1>2. ASSUME NEW c \in Calls PROVE CallInv(c)'
  <2>1. CallInv(c)
    BY DEF CallsInv
  <2>2. c # NoCall
    BY CallsAssumption
  <2>3. /\ Underway(c)' => Underway(c)
        /\ c \notin {evaluating} /\ Underway(c) => Underway(c)'
    BY <2>2 DEF Underway, JobSet
  <2>4. LeftLoop => LeftLoop'
    BY DEF LeftLoop
  <2>5. QED
    BY <2>1, <2>3, <2>4, AnsweringKeepsCall
<1>3. QED
  BY <1>1, <1>2 DEF ThreadKeepsCalls

\* An evaluation begins: its command leaves the channel, its watchdog is armed.
LEMMA EvalStartKeepsCalls ==
  ASSUME ThreadTypeOK, Located, CallsInv, EvalStarts
  PROVE  ThreadKeepsCalls
<1> USE DEF timerVars, jobVars
<1>1. /\ Command \in SyncCalls /\ pc = "wait"
      /\ ToSet(queue) = {Command} \cup ToSet(queue')
      /\ Command \notin ToSet(queue') /\ IsInjective(queue')
  BY ReceivingTakes DEF EvalStarts, CallsInv
<1>2. /\ evaluating' = Command /\ evaluating = NoCall /\ pc' = "evaljs"
      /\ UNCHANGED << due, jobs, call >> /\ Command \in Calls
  BY <1>1 DEF EvalStarts, Located, Calls
<1>3. /\ watchdog'[Command] = IF Command \in Timed THEN "armed" ELSE watchdog[Command]
      /\ \A c \in Calls \ {Command} : watchdog'[c] = watchdog[c]
  BY <1>2 DEF EvalStarts, Arm, ThreadTypeOK
<1>4. OnePlace'
  BY <1>1, <1>2 DEF CallsInv, OnePlace, JobSet
<1>5. ASSUME NEW c \in Calls PROVE CallInv(c)'
  <2>1. CallInv(c) /\ c # NoCall
    BY CallsAssumption DEF CallsInv
  <2>2. CASE c = Command
    <3>1. c \in ToSet(queue) /\ c \notin ToSet(queue') /\ Underway(c)'
      BY <1>1, <1>2, <2>2 DEF Underway
    <3>2. QED
      BY <1>2, <1>3, <2>1, <2>2, <3>1 DEF CallInv
  <2>3. CASE c # Command
    <3>1. /\ c \in ToSet(queue) <=> c \in ToSet(queue')
          /\ Underway(c) <=> Underway(c)'
          /\ watchdog'[c] = watchdog[c] /\ ~LeftLoop
      BY <1>1, <1>2, <1>3, <2>1, <2>3 DEF Underway, JobSet, LeftLoop
    <3>2. QED
      BY <1>2, <2>1, <3>1 DEF CallInv
  <2>4. QED
    BY <2>2, <2>3
<1>6. QED
  BY <1>1, <1>4, <1>5 DEF ThreadKeepsCalls

\* A job is submitted: from the channel to the end of the list.
LEMMA SubmitKeepsCalls ==
  ASSUME ThreadTypeOK, Located, CallsInv, JobSubmitted
  PROVE  ThreadKeepsCalls
<1> USE DEF timerVars, jobVars
<1>1. /\ Command \in JobCalls /\ pc = "wait"
      /\ ToSet(queue) = {Command} \cup ToSet(queue')
      /\ Command \notin ToSet(queue') /\ IsInjective(queue')
  BY ReceivingTakes DEF JobSubmitted, CallsInv
<1>2. /\ jobs \in Seq(JobCalls) /\ jobs' = Append(jobs, Command) /\ pc' = "poll"
      /\ UNCHANGED << due, evaluating, call >> /\ Command \in Calls
  BY <1>1 DEF JobSubmitted, Calls, JobCalls, ThreadTypeOK
<1>3. /\ watchdog'[Command] = "armed" => Command \in Timed
      /\ watchdog'[Command] \in {"armed", watchdog[Command]}
      /\ \A c \in Calls \ {Command} : watchdog'[c] = watchdog[c]
  <2>1. \/ watchdog' = watchdog
        \/ Command \in Timed /\ watchdog' = [watchdog EXCEPT ![Command] = "armed"]
    BY DEF JobSubmitted, Arm
  <2>2. watchdog[Command] # "none" => Command \in Timed
    BY <1>2 DEF CallsInv, CallInv
  <2>3. QED
    BY <1>2, <2>1, <2>2 DEF ThreadTypeOK
<1>4. Command \notin JobSet /\ Command # evaluating
  BY <1>1 DEF CallsInv, OnePlace
<1>5. JobSet' = JobSet \cup {Command} /\ IsInjective(jobs')
  BY <1>1, <1>2, <1>4, SequenceMembers, AppendedOnce DEF CallsInv, OnePlace, JobSet
<1>6. OnePlace'
  BY <1>1, <1>2, <1>5 DEF CallsInv, OnePlace
<1>7. ASSUME NEW c \in Calls PROVE CallInv(c)'
  <2>1. CallInv(c)
    BY DEF CallsInv
  <2>2. CASE c = Command
    <3>1. c \in ToSet(queue) /\ c \notin ToSet(queue') /\ Underway(c)'
      BY <1>1, <1>5, <2>2 DEF Underway
    <3>2. QED
      BY <1>2, <1>3, <2>1, <2>2, <3>1 DEF CallInv
  <2>3. CASE c # Command
    <3>1. /\ c \in ToSet(queue) <=> c \in ToSet(queue')
          /\ Underway(c) <=> Underway(c)'
          /\ watchdog'[c] = watchdog[c] /\ ~LeftLoop
      BY <1>1, <1>2, <1>3, <1>5, <2>3 DEF Underway, LeftLoop
    <3>2. QED
      BY <1>2, <2>1, <3>1 DEF CallInv
  <2>4. QED
    BY <2>2, <2>3
<1>8. QED
  BY <1>1, <1>6, <1>7 DEF ThreadKeepsCalls

\* The dispatcher is dropped, and what it held is lost.
LEMMA DropKeepsCalls ==
  ASSUME ThreadTypeOK, Located, CallsInv, DropDispatcher
  PROVE  ThreadKeepsCalls
<1> USE DEF timerVars
<1>1. /\ jobs' = << >> /\ queue' = << >> /\ pc = "dropping" /\ pc' = "gone"
      /\ UNCHANGED << watchdog, due, evaluating >>
      /\ \A c \in Calls : call'[c] =
           IF call[c] = "sent" /\ c \in JobSet \cup ToSet(queue) THEN "lost" ELSE call[c]
  BY DEF DropDispatcher
<1>2. JobSet' = {} /\ ToSet(queue') = {} /\ IsInjective(jobs') /\ IsInjective(queue')
  BY <1>1, EmptyOnce DEF JobSet, ToSet
<1>3. OnePlace'
  BY <1>2 DEF OnePlace
<1>4. ASSUME NEW c \in Calls PROVE CallInv(c)'
  <2>1. CallInv(c)
    BY DEF CallsInv
  <2>2. evaluating # c
    BY <1>1, CallsAssumption DEF Located
  <2>3. c \notin ToSet(queue') /\ ~Underway(c)' /\ LeftLoop'
    BY <1>1, <1>2, <2>2 DEF Underway, LeftLoop
  <2>4. call'[c] # "sent" /\ (call'[c] = call[c] \/ call'[c] = "lost")
    BY <1>1, <2>1, <2>2 DEF CallInv, Underway
  <2>5. QED
    BY <1>1, <2>1, <2>3, <2>4 DEF CallInv, Unsent
<1>5. QED
  BY <1>2, <1>3, <1>4 DEF ThreadKeepsCalls

\* The dispatcher, action by action.
LEMMA DispatcherCalls ==
  ASSUME ThreadTypeOK, Located, CallsInv,
         DispatcherStep \/ HandleChannelClosed \/ WakeUp \/ Tick
  PROVE  ThreadKeepsCalls
<1> USE DEF terminationVars, timerVars, positionVars, jobVars, channelVars
<1>1. CASE PollQuiet \/ NoActiveJob \/ JobStarts \/ JobWaits \/ FlagPasses
             \/ WakeUp \/ Tick \/ LoopJsUnwinds
  <2>1. /\ UNCHANGED << call, watchdog, due, queue, jobs, evaluating >> /\ ~LeftLoop
    BY <1>1 DEF PollQuiet, NoActiveJob, JobStarts, JobWaits, FlagPasses, WakeUp,
                Tick, LoopJsUnwinds, LeftLoop
  <2>2. QED
    BY <2>1, QuietKeepsCalls
<1>2. CASE JobExpires \/ StartJsUnwinds \/ JobCompletes
  <2>1. \E r \in Outcomes : \E l : FinishJob(r, l) /\ (r = "timeout" => Active \in due)
    BY <1>2, AnswerTypes DEF JobExpires, StartJsUnwinds, JobCompletes
  <2>2. /\ jobs # << >> /\ ~LeftLoop
        /\ UNCHANGED << due, queue, evaluating >>
    BY <1>2 DEF JobExpires, StartJsUnwinds, JobCompletes, Located, LeftLoop
  <2>3. QED
    BY <2>1, <2>2, FinishingKeepsCalls
<1>3. CASE FlagAborts \/ HandleChannelClosed
  <2>1. AbortJobs /\ UNCHANGED << due, evaluating, queue >> /\ LeftLoop'
    BY <1>3 DEF FlagAborts, HandleChannelClosed, LeftLoop
  <2>2. QED
    BY <2>1, AbortingKeepsCalls DEF CallsInv, OnePlace
<1>4. CASE HandleTerminate
  <2>1. AbortJobs /\ UNCHANGED << due, evaluating >> /\ LeftLoop'
    BY <1>4 DEF HandleTerminate, LeftLoop
  <2>2. /\ Command = "terminate" /\ IsInjective(queue')
        /\ ToSet(queue) = {Command} \cup ToSet(queue')
    BY <1>4, ReceivingTakes DEF HandleTerminate, CallsInv
  <2>3. QED
    BY <2>1, <2>2, CallsAssumption, AbortingKeepsCalls
<1>5. CASE CallRejected
  <2>1. /\ ToSet(queue) = {Command} \cup ToSet(queue')
        /\ Command \notin ToSet(queue') /\ IsInjective(queue')
    BY <1>5, ReceivingTakes DEF CallRejected, CallsInv
  <2>2. /\ Settle({Command}, "terminated") /\ ~LeftLoop
        /\ UNCHANGED << due, evaluating, jobs >>
    BY <1>5 DEF CallRejected, Receives, LeftLoop
  <2>3. OnePlace'
    BY <2>1, <2>2 DEF CallsInv, OnePlace, JobSet
  <2>4. ASSUME NEW c \in Calls PROVE CallInv(c)'
    <3>1. CallInv(c)
      BY DEF CallsInv
    <3>2. Underway(c)' <=> Underway(c)
      BY <2>2 DEF Underway, JobSet
    <3>3. /\ c \in ToSet(queue') => c \in ToSet(queue)
          /\ c \notin {Command} /\ c \in ToSet(queue) => c \in ToSet(queue')
      BY <2>1
    <3>4. QED
      BY <2>2, <3>1, <3>2, <3>3, AnswerTypes, AnsweringKeepsCall
  <2>5. QED
    BY <2>1, <2>3, <2>4 DEF ThreadKeepsCalls
<1>6. CASE EvalStarts
  BY <1>6, EvalStartKeepsCalls
<1>7. CASE EvalUnwinds
  <2>1. \E r \in Outcomes \ {"timeout"} : Settle({evaluating}, r)
    BY <1>7, AnswerTypes DEF EvalUnwinds
  <2>2. /\ pc = "evaljs" /\ pc' = "poll" /\ evaluating' = NoCall
        /\ UNCHANGED << due, queue, jobs >>
    BY <1>7 DEF EvalUnwinds
  <2>3. QED
    BY <2>1, <2>2, EvalEndKeepsCalls
<1>8. CASE JobSubmitted
  BY <1>8, SubmitKeepsCalls
<1>9. CASE HandleShutdown
  <2>1. /\ Command = "shutdown" /\ IsInjective(queue')
        /\ ToSet(queue) = {Command} \cup ToSet(queue')
    BY <1>9, ReceivingTakes DEF HandleShutdown, CallsInv
  <2>2. UNCHANGED << call, watchdog, due, jobs, evaluating >> /\ LeftLoop'
    BY <1>9 DEF HandleShutdown, LeftLoop
  <2>3. OnePlace'
    BY <2>1, <2>2 DEF CallsInv, OnePlace, JobSet
  <2>4. ASSUME NEW c \in Calls PROVE CallInv(c)'
    <3>1. CallInv(c) /\ c # "shutdown"
      BY CallsAssumption DEF CallsInv
    <3>2. /\ Underway(c)' <=> Underway(c)
          /\ c \in ToSet(queue') <=> c \in ToSet(queue)
      BY <2>1, <2>2, <3>1 DEF Underway, JobSet
    <3>3. QED
      BY <2>2, <3>1, <3>2 DEF CallInv
  <2>5. QED
    BY <2>1, <2>3, <2>4 DEF ThreadKeepsCalls
<1>10. CASE DropDispatcher
  BY <1>10, DropKeepsCalls
<1>11. QED
  BY <1>1, <1>2, <1>3, <1>4, <1>5, <1>6, <1>7, <1>8, <1>9, <1>10 DEF DispatcherStep

\* Guest code: it fails, returns, throws, or settles a promise.
LEMMA GuestCalls ==
  ASSUME ThreadTypeOK, Located, CallsInv, GuestStep \/ Unwedge
  PROVE  ThreadKeepsCalls
<1> USE DEF terminationVars, timerVars, positionVars, jobVars, channelVars
<1>1. CASE \/ PollEntersJs \/ LoopJsReturns \/ StartJsReturns \/ HostCompletes
           \/ Wedge \/ Unwedge \/ HeapLimit
           \/ \E p \in {"fulfilled", "rejected"} : PollSettles(p)
  <2>1. /\ UNCHANGED << call, watchdog, due, queue, jobs, evaluating >>
        /\ LeftLoop => LeftLoop'
    BY <1>1 DEF PollEntersJs, LoopJsReturns, StartJsReturns, HostCompletes,
                Wedge, Unwedge, HeapLimit, PollSettles, LeftLoop
  <2>2. QED
    BY <2>1, QuietKeepsCalls
<1>2. CASE LoopFails \/ StartJsThrows
  <2>1. /\ FinishJob("error", latch) /\ jobs # << >> /\ ~LeftLoop
        /\ UNCHANGED << due, queue, evaluating >>
    BY <1>2 DEF LoopFails, StartJsThrows, Located, LeftLoop
  <2>2. QED
    BY <2>1, AnswerTypes, FinishingKeepsCalls
<1>3. CASE \E r \in {"ok", "error"} : EvalReturns(r)
  <2>1. \E r \in Outcomes \ {"timeout"} : Settle({evaluating}, r)
    BY <1>3, AnswerTypes DEF EvalReturns
  <2>2. /\ pc = "evaljs" /\ pc' = "poll" /\ evaluating' = NoCall
        /\ UNCHANGED << due, queue, jobs >>
    BY <1>3 DEF EvalReturns
  <2>3. QED
    BY <2>1, <2>2, EvalEndKeepsCalls
<1>4. QED
  BY <1>1, <1>2, <1>3 DEF GuestStep

\* A step of the thread leaves the owner where it is.
LEMMA ThreadCallsInv ==
  ASSUME CallsInv, ThreadKeepsCalls, UNCHANGED handleVars
  PROVE  CallsInv'
BY DEF CallsInv, ThreadKeepsCalls, SendsTerminateOnce, handleVars

-----------------------------------------------------------------------------
(* The timers and the host threads. *)

\* A timer touches the call it belongs to, which is underway.
LEMMA TimerCalls ==
  ASSUME ThreadTypeOK, CallsInv, NEW c \in Calls, TimerStep(c), UNCHANGED handleVars
  PROVE  CallsInv'
<1> USE DEF terminationVars, timerVars, positionVars, jobVars, channelVars
<1>1. /\ UNCHANGED << call, queue, jobs, evaluating, pc, owner >>
  BY DEF TimerStep, WatchdogFires, WatchdogTerminates, DeadlinePasses, handleVars
<1>2. OnePlace' /\ SendsTerminateOnce'
  BY <1>1 DEF CallsInv, OnePlace, JobSet, SendsTerminateOnce
<1>3. ASSUME NEW d \in Calls, d # c
      PROVE  watchdog'[d] = watchdog[d] /\ (d \in due' <=> d \in due)
  BY <1>3 DEF TimerStep, WatchdogFires, WatchdogTerminates, DeadlinePasses, ThreadTypeOK
<1>4. \/ /\ watchdog[c] = "armed" /\ watchdog'[c] = "firing"
         /\ c \in due => c \in due'
      \/ /\ watchdog[c] = "firing" /\ watchdog'[c] = "fired"
         /\ c \in due <=> c \in due'
      \/ /\ watchdog'[c] = watchdog[c] /\ c \in Timed /\ c \in due'
  BY DEF TimerStep, WatchdogFires, WatchdogTerminates, DeadlinePasses, ThreadTypeOK
<1>5. ASSUME NEW d \in Calls PROVE CallInv(d)'
  <2>1. CallInv(d)
    BY DEF CallsInv
  <2>2. /\ Underway(d)' <=> Underway(d)
        /\ LeftLoop' <=> LeftLoop
    BY <1>1 DEF Underway, JobSet, LeftLoop
  <2>3. CASE d # c
    BY <1>1, <1>3, <2>1, <2>2, <2>3 DEF CallInv
  <2>4. CASE d = c
    BY <1>1, <1>4, <2>1, <2>2, <2>4 DEF CallInv
  <2>5. QED
    BY <2>3, <2>4
<1>6. QED
  BY <1>2, <1>5 DEF CallsInv

\* A call is made, checked, sent or given up.
LEMMA CallCalls ==
  ASSUME TypeOK, CallsInv, NEW c \in Calls, Issue(c) \/ CallStep(c) \/ ForceKill(c)
  PROVE  CallsInv'
<1> USE DEF terminationVars, timerVars, positionVars, jobVars, channelVars,
            ownerVars, handleVars, TypeOK
<1>1. /\ UNCHANGED << watchdog, due, jobs, evaluating, pc >>
      /\ owner' = "sending" => owner = "sending"
  BY DEF Issue, CallStep, CheckSender, Send, ForceKill
<1>2. \A d \in Calls \ {c} : call'[d] = call[d]
  BY DEF Issue, CallStep, CheckSender, Send, ForceKill, ThreadTypeOK
<1>3. \A d \in Calls : Underway(d)' <=> Underway(d)
  BY <1>1 DEF Underway, JobSet
<1>4. LeftLoop' <=> LeftLoop
  BY <1>1 DEF LeftLoop
<1>5. CASE queue' = queue
  <2>1. OnePlace' /\ SendsTerminateOnce'
    BY <1>1, <1>5 DEF CallsInv, OnePlace, JobSet, SendsTerminateOnce
  <2>2. \/ call[c] \in Unsent /\ call'[c] \notin {"sent", "timeout"}
        \/ call[c] = "sent" /\ call'[c] = "forceKilled"
    <3>1. CASE Issue(c)
      BY <3>1 DEF Issue, Unsent, ThreadTypeOK
    <3>2. CASE CheckSender(c)
      BY <3>2 DEF CheckSender, Unsent, ThreadTypeOK
    <3>3. CASE Send(c)
      <4>1. CASE rxOpen
        <5>1. queue \in Seq(Calls \cup {"terminate", "shutdown"})
          BY DEF ThreadTypeOK
        <5>2. queue' = Append(queue, c) /\ Len(queue') = Len(queue) + 1
          BY <3>3, <4>1, <5>1, Appended DEF Send
        <5>3. QED
          BY <1>5, <5>1, <5>2
      <4>2. CASE ~rxOpen
        BY <3>3, <4>2 DEF Send, Unsent, ThreadTypeOK
      <4>3. QED
        BY <4>1, <4>2
    <3>4. CASE ForceKill(c)
      BY <3>4 DEF ForceKill, ThreadTypeOK
    <3>5. QED
      BY <3>1, <3>2, <3>3, <3>4 DEF CallStep
  <2>3. ASSUME NEW d \in Calls PROVE CallInv(d)'
    <3>1. CallInv(d)
      BY DEF CallsInv
    <3>2. CASE d # c
      BY <1>1, <1>2, <1>3, <1>4, <1>5, <3>1, <3>2 DEF CallInv
    <3>3. CASE d = c
      BY <1>1, <1>3, <1>4, <1>5, <2>2, <3>1, <3>3 DEF CallInv, Unsent
    <3>4. QED
      BY <3>2, <3>3
  <2>4. QED
    BY <2>1, <2>3 DEF CallsInv
<1>6. CASE Send(c) /\ rxOpen
  <2>1. /\ queue \in Seq(Calls \cup {"terminate", "shutdown"})
        /\ queue' = Append(queue, c) /\ call[c] = "checked" /\ call'[c] = "sent"
    BY <1>6 DEF Send, ThreadTypeOK
  <2>2. CallInv(c)
    BY DEF CallsInv
  <2>3. c \notin ToSet(queue) /\ ~Underway(c) /\ watchdog[c] = "none"
    BY <2>1, <2>2 DEF CallInv, Unsent
  <2>4. ToSet(queue') = ToSet(queue) \cup {c} /\ IsInjective(queue')
    BY <2>1, <2>3, ChannelMembers, AppendedOnce DEF CallsInv, OnePlace
  <2>5. OnePlace'
    BY <1>1, <2>3, <2>4 DEF CallsInv, OnePlace, Underway, JobSet
  <2>6. SendsTerminateOnce'
    BY <1>1, <2>4, CallsAssumption DEF CallsInv, SendsTerminateOnce
  <2>7. ASSUME NEW d \in Calls PROVE CallInv(d)'
    <3>1. CallInv(d)
      BY DEF CallsInv
    <3>2. CASE d # c
      BY <1>1, <1>2, <1>3, <1>4, <2>4, <3>1, <3>2 DEF CallInv
    <3>3. CASE d = c
      BY <1>1, <1>3, <1>4, <2>1, <2>3, <2>4, <3>1, <3>3 DEF CallInv, Unsent
    <3>4. QED
      BY <3>2, <3>3
  <2>8. QED
    BY <2>5, <2>6, <2>7 DEF CallsInv
<1>7. QED
  BY <1>5, <1>6 DEF Issue, CallStep, CheckSender, Send, ForceKill

\* A command that is not a call joins the channel.
LEMMA CommandCalls ==
  ASSUME ThreadTypeOK, CallsInv, NEW m \in {"terminate", "shutdown"},
         m \notin ToSet(queue), queue' = Append(queue, m),
         UNCHANGED << call, watchdog, due, jobs, evaluating, pc >>,
         owner' # "sending"
  PROVE  CallsInv'
<1>1. m \in Calls \cup {"terminate", "shutdown"} /\ m \notin Calls
  BY CallsAssumption
<1>2. ToSet(queue') = ToSet(queue) \cup {m} /\ IsInjective(queue')
  BY <1>1, ChannelMembers, AppendedOnce DEF ThreadTypeOK, CallsInv, OnePlace
<1>3. m \notin JobSet \cup {evaluating}
  <2>1. JobSet \subseteq Calls
    BY JobListTypes DEF Calls, JobCalls
  <2>2. evaluating \in Calls \cup {NoCall}
    BY DEF ThreadTypeOK, Calls
  <2>3. QED
    BY <1>1, <2>1, <2>2, CallsAssumption
<1>4. OnePlace'
  BY <1>2, <1>3 DEF CallsInv, OnePlace, JobSet
<1>5. ASSUME NEW c \in Calls PROVE CallInv(c)'
  <2>1. CallInv(c)
    BY DEF CallsInv
  <2>2. /\ c \in ToSet(queue') <=> c \in ToSet(queue)
        /\ Underway(c)' <=> Underway(c)
        /\ LeftLoop' <=> LeftLoop
    BY <1>1, <1>2 DEF Underway, JobSet, LeftLoop
  <2>3. QED
    BY <2>1, <2>2 DEF CallInv
<1>6. QED
  BY <1>4, <1>5 DEF CallsInv, SendsTerminateOnce

\* terminate(), close() and the killers.
LEMMA HandleCalls ==
  ASSUME TypeOK, TerminationInv, CallsInv,
         \/ OwnerStep \/ TerminateBegins \/ CloseBegins \/ OwnerDrops
         \/ \E k \in Killers : KillerReasons(k) \/ KillerStep(k)
  PROVE  CallsInv'
<1> USE DEF terminationVars, timerVars, positionVars, jobVars, channelVars,
            threadVars, ownerVars, TypeOK
<1>1. ASSUME UNCHANGED << call, watchdog, due, queue, jobs, evaluating, pc >>,
             owner' = "sending" => owner = "sending" \/ "terminate" \notin ToSet(queue)
      PROVE  CallsInv'
  <2>1. ThreadKeepsCalls
    BY <1>1, QuietKeepsCalls DEF LeftLoop
  <2>2. QED
    BY <1>1, <2>1 DEF CallsInv, ThreadKeepsCalls, SendsTerminateOnce
<1>2. CASE TerminateSends /\ rxOpen
  BY <1>2, CommandCalls DEF TerminateSends, CallsInv, SendsTerminateOnce
<1>3. CASE CloseBegins /\ queue' = Append(queue, "shutdown")
  <2>1. /\ owner = "free" /\ owner' # "sending"
        /\ UNCHANGED << call, watchdog, due, jobs, evaluating, pc >>
    BY <1>3 DEF CloseBegins
  <2>2. "shutdown" \notin ToSet(queue)
    BY <2>1 DEF TerminationInv
  <2>3. QED
    BY <1>3, <2>1, <2>2, CommandCalls
<1>4. CASE CloseBegins /\ queue' = queue
  BY <1>1, <1>4 DEF CloseBegins
<1>5. CASE TerminateSends /\ ~rxOpen
  BY <1>1, <1>5 DEF TerminateSends
<1>6. CASE TerminateRequests
  <2>1. owner' = "sending" => "terminate" \notin ToSet(queue)
    BY <1>6 DEF TerminateRequests, TerminationInv
  <2>2. QED
    BY <1>1, <1>6, <2>1 DEF TerminateRequests
<1>7. CASE CallReturns \/ TerminateLatches \/ TerminateConfirmed \/ TerminateJoined
             \/ TerminateForces \/ CloseConfirmed \/ TerminateBegins \/ OwnerDrops
  BY <1>1, <1>7 DEF CallReturns, TerminateLatches, TerminateConfirmed,
     TerminateJoined, TerminateForces, CloseConfirmed, TerminateBegins, OwnerDrops
<1>8. CASE \E k \in Killers : KillerReasons(k) \/ KillerStep(k)
  BY <1>1, <1>8 DEF KillerReasons, KillerStep, KillerRequests, KillerLatches
<1>9. QED
  BY <1>2, <1>3, <1>4, <1>5, <1>6, <1>7, <1>8 DEF OwnerStep, CloseBegins

-----------------------------------------------------------------------------
(* The theorems. *)

\* The invariant above, for every instance.
THEOREM CallsInvariant == Spec => []CallsInv
<1>1. Init => CallsInv
  <2> SUFFICES ASSUME Init PROVE CallsInv
    OBVIOUS
  <2>1. ToSet(queue) = {} /\ JobSet = {} /\ IsInjective(queue) /\ IsInjective(jobs)
    BY EmptyOnce DEF Init, ThreadInit, ToSet, JobSet
  <2>2. OnePlace /\ SendsTerminateOnce
    BY <2>1 DEF OnePlace, SendsTerminateOnce
  <2>3. ASSUME NEW c \in Calls PROVE CallInv(c)
    BY <2>1, CallsAssumption DEF Init, ThreadInit, CallInv, Underway, Unsent
  <2>4. QED
    BY <2>2, <2>3 DEF CallsInv
<1>2. TypeOK /\ Located /\ TerminationInv /\ CallsInv /\ [Next]_vars => CallsInv'
  <2> SUFFICES ASSUME TypeOK, Located, TerminationInv, CallsInv, [Next]_vars
               PROVE  CallsInv'
    OBVIOUS
  <2>1. CASE ThreadStep
    BY <2>1, DispatcherCalls, ThreadCallsInv DEF ThreadStep, TypeOK
  <2>2. CASE (GuestStep \/ Unwedge) /\ UNCHANGED handleVars
    BY <2>2, GuestCalls, ThreadCallsInv DEF TypeOK
  <2>3. CASE \E c \in Calls : TimerStep(c) /\ UNCHANGED handleVars
    BY <2>3, TimerCalls DEF TypeOK
  <2>4. CASE HostStep
    BY <2>4, CallCalls, HandleCalls DEF HostStep
  <2>5. CASE UNCHANGED vars
    <3>1. UNCHANGED << call, watchdog, due, queue, jobs, evaluating, pc >>
          /\ UNCHANGED handleVars
      BY <2>5 DEF vars, threadVars, handleVars, terminationVars, timerVars,
         positionVars, jobVars, channelVars
    <3>2. QED
      BY <3>1, QuietKeepsCalls, ThreadCallsInv DEF LeftLoop
  <2>6. QED
    BY <2>1, <2>2, <2>3, <2>4, <2>5, NextCases
<1>3. QED
  BY <1>1, <1>2, TypeCorrect, TerminationInvariant, PTL DEF Spec

\* A call that was sent is in one place that will answer it: the channel, the
\* job list or the running evaluation.  The dispatcher drops no responder
\* silently on any path, and answers nobody twice.
THEOREM LiveCallsAreHeld == Spec => []LiveCallHeld
BY CallsInvariant, CallsInvImplies, TypeCorrect, PTL

\* Every path that answers a call stands its watchdog down first, so that none
\* terminates what the isolate runs next.
THEOREM WatchdogsBelongToCalls == Spec => []WatchdogBelongsToCall
BY CallsInvariant, CallsInvImplies, TypeCorrect, PTL

\* A call is told that it timed out only when it asked for a timeout and its
\* own watchdog or deadline ran out.
THEOREM TimeoutsAreHonest == Spec => []TimeoutHonest
BY CallsInvariant, CallsInvImplies, TypeCorrect, PTL

-----------------------------------------------------------------------------
(* The contract: RuntimeHandle implements CallContract. *)

\* What a step that makes no call may do to the calls and to the lifecycle.
ContractShape ==
  /\ \A c \in Calls : \/ call'[c] = call[c]
                      \/ call[c] \in InFlight /\ call'[c] \in InFlight \cup Outcomes
  /\ \/ status' \in {status, "terminated"}
     \/ status = "running" /\ status' = "requested" /\ UNCHANGED call

\* Answering keeps to it.
LEMMA SettleShape ==
  ASSUME NEW S, NEW result \in Outcomes, Settle(S, result), NEW c \in Calls
  PROVE  \/ call'[c] = call[c]
         \/ call[c] \in InFlight /\ call'[c] \in InFlight \cup Outcomes
<1>1. Resolved(c, result) \in Outcomes
  BY DEF Resolved, Outcomes
<1>2. QED
  BY <1>1 DEF Settle, InFlight

\* The runtime thread and its guest.
LEMMA ThreadShape ==
  ASSUME ThreadTypeOK,
         DispatcherStep \/ HandleChannelClosed \/ WakeUp \/ Tick \/ GuestStep \/ Unwedge
  PROVE  ContractShape
<1> USE DEF terminationVars, timerVars, positionVars, jobVars, channelVars
<1>1. CASE \/ PollQuiet \/ LoopJsUnwinds \/ NoActiveJob \/ JobStarts \/ JobWaits
           \/ FlagPasses \/ EvalStarts \/ JobSubmitted \/ HandleShutdown \/ WakeUp
           \/ Tick \/ PollEntersJs \/ LoopJsReturns \/ StartJsReturns \/ HostCompletes
           \/ Wedge \/ Unwedge \/ HeapLimit
           \/ \E p \in {"fulfilled", "rejected"} : PollSettles(p)
  <2>1. call' = call
    BY <1>1 DEF PollQuiet, LoopJsUnwinds, NoActiveJob, JobStarts, JobWaits,
       FlagPasses, EvalStarts, JobSubmitted, HandleShutdown, WakeUp, Tick,
       PollEntersJs, LoopJsReturns, StartJsReturns, HostCompletes, Wedge, Unwedge,
       HeapLimit, PollSettles
  <2>2. \/ status' \in {status, "terminated"}
        \/ status = "running" /\ status' = "requested"
    BY <1>1 DEF PollQuiet, LoopJsUnwinds, MarkFinal, NoActiveJob, JobStarts,
       JobWaits, FlagPasses, EvalStarts, JobSubmitted, HandleShutdown, WakeUp,
       Tick, PollEntersJs, LoopJsReturns, StartJsReturns, HostCompletes, Wedge,
       Unwedge, HeapLimit, Request, PollSettles
  <2>3. QED
    BY <2>1, <2>2 DEF ContractShape
<1>2. CASE \/ JobExpires \/ StartJsUnwinds \/ JobCompletes \/ FlagAborts
           \/ CallRejected \/ EvalUnwinds \/ HandleTerminate \/ HandleChannelClosed
           \/ LoopFails \/ StartJsThrows \/ \E r \in {"ok", "error"} : EvalReturns(r)
  <2>1. \E S : \E r \in Outcomes : Settle(S, r)
    <3>1. CASE \/ JobExpires \/ StartJsUnwinds \/ JobCompletes \/ LoopFails
               \/ StartJsThrows
      <4>1. \E r \in Outcomes : \E l : FinishJob(r, l)
        BY <3>1, AnswerTypes DEF JobExpires, StartJsUnwinds, JobCompletes,
           LoopFails, StartJsThrows
      <4>2. QED
        BY <4>1 DEF FinishJob
    <3>2. CASE FlagAborts \/ HandleTerminate \/ HandleChannelClosed
      <4>1. AbortJobs
        BY <3>2 DEF FlagAborts, HandleTerminate, HandleChannelClosed
      <4>2. QED
        BY <4>1, AnswerTypes DEF AbortJobs
    <3>3. CASE CallRejected \/ EvalUnwinds \/ \E r \in {"ok", "error"} : EvalReturns(r)
      BY <3>3, AnswerTypes DEF CallRejected, EvalUnwinds, EvalReturns
    <3>4. QED
      BY <1>2, <3>1, <3>2, <3>3
  <2>2. status' \in {status, "terminated"}
    BY <1>2 DEF JobExpires, StartJsUnwinds, JobCompletes, FlagAborts, CallRejected,
       EvalUnwinds, HandleTerminate, HandleChannelClosed, LoopFails, StartJsThrows,
       EvalReturns, AbortJobs, MarkFinal
  <2>3. QED
    BY <2>1, <2>2, SettleShape DEF ContractShape
<1>3. CASE DropDispatcher
  <2>1. \A c \in Calls : call'[c] = call[c] \/ (call[c] = "sent" /\ call'[c] = "lost")
    BY <1>3 DEF DropDispatcher
  <2>2. status' = status
    BY <1>3 DEF DropDispatcher
  <2>3. QED
    BY <2>1, <2>2, AnswerTypes DEF ContractShape, InFlight
<1>4. QED
  BY <1>1, <1>2, <1>3 DEF DispatcherStep, GuestStep

\* The timers and the threads around it, a new call apart.
LEMMA HostShape ==
  ASSUME TypeOK,
         \/ \E c \in Calls : TimerStep(c) \/ CallStep(c) \/ ForceKill(c)
         \/ OwnerStep \/ TerminateBegins \/ CloseBegins \/ OwnerDrops
         \/ \E k \in Killers : KillerReasons(k) \/ KillerStep(k)
  PROVE  ContractShape
<1> USE DEF terminationVars, timerVars, positionVars, jobVars, channelVars,
            threadVars, ownerVars, TypeOK
<1>1. CASE \E c \in Calls : CallStep(c) \/ ForceKill(c)
  <2>1. PICK c \in Calls : CallStep(c) \/ ForceKill(c)
    BY <1>1
  <2>2. /\ call[c] \in InFlight /\ call'[c] \in InFlight \cup Outcomes
        /\ \A d \in Calls \ {c} : call'[d] = call[d]
    BY <2>1, AnswerTypes DEF CallStep, CheckSender, Send, ForceKill, InFlight,
       ThreadTypeOK
  <2>3. status' \in {status, "terminated"}
    BY <2>1 DEF CallStep, CheckSender, Send, ForceKill, ForceTerminated
  <2>4. QED
    BY <2>2, <2>3 DEF ContractShape
<1>2. CASE \/ \E c \in Calls : TimerStep(c)
           \/ OwnerStep \/ TerminateBegins \/ CloseBegins \/ OwnerDrops
           \/ \E k \in Killers : KillerReasons(k) \/ KillerStep(k)
  <2>1. call' = call
    BY <1>2 DEF TimerStep, WatchdogFires, WatchdogTerminates, DeadlinePasses,
       OwnerStep, CallReturns, TerminateRequests, TerminateSends, TerminateLatches,
       TerminateConfirmed, TerminateJoined, TerminateForces, CloseConfirmed,
       TerminateBegins, CloseBegins, OwnerDrops, KillerReasons, KillerStep,
       KillerRequests, KillerLatches
  <2>2. \/ status' \in {status, "terminated"}
        \/ status = "running" /\ status' = "requested"
    BY <1>2 DEF TimerStep, WatchdogFires, WatchdogTerminates, DeadlinePasses,
       OwnerStep, CallReturns, TerminateRequests, TerminateSends, TerminateLatches,
       TerminateConfirmed, TerminateJoined, TerminateForces, ForceTerminated,
       CloseConfirmed, TerminateBegins, CloseBegins, OwnerDrops, KillerReasons,
       KillerStep, KillerRequests, KillerLatches, Request
  <2>3. QED
    BY <2>1, <2>2 DEF ContractShape
<1>3. QED
  BY <1>1, <1>2

\* What the contract sees of a call, before and after a step.
LEMMA AbstractAnswers ==
  ASSUME TypeOK, TypeOK', NEW c \in Calls
  PROVE  /\ call[c] \in {"new"} \cup InFlight \cup Outcomes
         /\ call'[c] \in {"new"} \cup InFlight \cup Outcomes
         /\ AbstractAnswer(c) = IF call[c] = "new" THEN "none"
                                ELSE IF call[c] \in InFlight THEN "waiting" ELSE call[c]
         /\ AbstractAnswer(c)' = IF call'[c] = "new" THEN "none"
                                 ELSE IF call'[c] \in InFlight THEN "waiting" ELSE call'[c]
<1>1. /\ call[c] \in {"new"} \cup InFlight \cup Outcomes
      /\ call'[c] \in {"new"} \cup InFlight \cup Outcomes
  BY DEF TypeOK, ThreadTypeOK, InFlight
<1>2. "new" \notin InFlight
  BY DEF InFlight
<1>3. AbstractAnswer(c) = IF call[c] = "new" THEN "none"
                          ELSE IF call[c] \in InFlight THEN "waiting" ELSE call[c]
  BY <1>2 DEF AbstractAnswer
<1>4. AbstractAnswer(c)' = IF call'[c] = "new" THEN "none"
                           ELSE IF call'[c] \in InFlight THEN "waiting" ELSE call'[c]
  BY <1>2 DEF AbstractAnswer, InFlight
<1>5. QED
  BY <1>1, <1>3, <1>4

\* The answers of the contract, and the kinds of value they are.
answers == [c \in Calls |-> AbstractAnswer(c)]

LEMMA OutcomesApart ==
  /\ InFlight \cap Outcomes = {} /\ "new" \notin InFlight \cup Outcomes
  /\ "none" \notin Outcomes /\ "waiting" \notin Outcomes
BY DEF InFlight, Outcomes

\* A step of that shape is one of the contract: some calls are answered, a
\* termination is requested or takes effect, or nothing is seen of it.
LEMMA ShapeKeepsContract ==
  ASSUME TypeOK, TypeOK', TerminationAgrees', ContractShape
  PROVE  [Promise!ContractNext]_(Promise!contractVars)
<1> DEFINE S == {c \in Calls : answers'[c] # answers[c]}
<1>1. \A c \in Calls : answers[c] = AbstractAnswer(c) /\ answers'[c] = AbstractAnswer(c)'
  BY DEF answers
<1>2. \A c \in Calls : answers'[c] \in {"none", "waiting"} \cup Outcomes
  BY <1>1, AbstractAnswers
<1>3. answers' \in [Calls -> {"none", "waiting"} \cup Outcomes]
  BY <1>1, <1>2 DEF answers
<1>4. ASSUME NEW c \in S
      PROVE  /\ c \in Calls /\ answers[c] = "waiting" /\ answers'[c] \in Outcomes
             /\ answers'[c] = call'[c] /\ call'[c] # call[c]
  BY <1>1, AbstractAnswers, OutcomesApart DEF ContractShape
<1>5. ASSUME S = {} PROVE answers' = answers
  <2>1. \A c \in Calls : AbstractAnswer(c)' = AbstractAnswer(c)
    BY <1>1, <1>5
  <2>2. QED
    BY <2>1 DEF answers
<1>6. CASE S # {}
  <2>1. status' \in {status, "terminated"}
    <3>1. \E c \in Calls : call'[c] # call[c]
      BY <1>4, <1>6
    <3>2. QED
      BY <3>1 DEF ContractShape
  <2>2. (\E c \in S : answers'[c] \in {"terminated", "forceKilled"}) => status' # "running"
    BY <1>4 DEF TerminationAgrees
  <2>3. Promise!Answer(S)
    BY <1>3, <1>4, <1>6, <2>1, <2>2 DEF Promise!Answer, answers
  <2>4. S \in SUBSET Calls
    OBVIOUS
  <2>5. QED
    BY <2>3, <2>4 DEF Promise!ContractNext
<1>7. CASE S = {}
  <2>1. answers' = answers
    BY <1>5, <1>7
  <2>2. CASE status' = status
    BY <2>1, <2>2 DEF Promise!contractVars, answers
  <2>3. CASE status' = "terminated" /\ status # "terminated"
    BY <2>1, <2>3 DEF Promise!ContractNext, Promise!Terminate, answers
  <2>4. CASE status = "running" /\ status' = "requested"
    BY <2>1, <2>4 DEF Promise!ContractNext, Promise!RequestTermination, answers
  <2>5. QED
    BY <2>2, <2>3, <2>4 DEF ContractShape
<1>8. QED
  BY <1>6, <1>7

\* A call that is made is the contract's Make.
LEMMA IssueMakes ==
  ASSUME TypeOK, TypeOK', NEW c \in Calls, Issue(c)
  PROVE  Promise!ContractNext
<1>1. /\ call[c] = "new" /\ call' = [call EXCEPT ![c] = "issued"] /\ status' = status
  BY DEF Issue, terminationVars
<1>2. answers[c] = "none"
  BY <1>1, AbstractAnswers DEF answers
<1>3. AbstractAnswer(c)' = "waiting"
  BY <1>1, AbstractAnswers DEF TypeOK, ThreadTypeOK, InFlight
<1>4. \A d \in Calls \ {c} : AbstractAnswer(d)' = AbstractAnswer(d)
  BY <1>1, AbstractAnswers DEF TypeOK, ThreadTypeOK
<1>5. answers' = [answers EXCEPT ![c] = "waiting"]
  BY <1>3, <1>4 DEF answers
<1>6. Promise!Make(c)
  BY <1>1, <1>2, <1>5 DEF Promise!Make, answers
<1>7. QED
  BY <1>6 DEF Promise!ContractNext

\* Every call is answered at most once and its answer never changes, it is
\* answered "terminated" or "force-killed" only once a termination is under
\* way, and the lifecycle only moves forward: every step of the handle, of the
\* runtime thread, of a timer or of the guest is one step of CallContract or
\* none that it sees.
THEOREM ContractIsKept == Spec => KeepsContract
<1>1. Init => Promise!ContractInit
  <2> SUFFICES ASSUME Init PROVE Promise!ContractInit
    OBVIOUS
  <2>1. \A c \in Calls : call[c] = "new"
    BY DEF Init, ThreadInit
  <2>2. \A c \in Calls : AbstractAnswer(c) = "none"
    BY <2>1, OutcomesApart DEF AbstractAnswer
  <2>3. QED
    BY <2>2 DEF Init, ThreadInit, Promise!ContractInit
<1>2. TypeOK /\ TypeOK' /\ TerminationAgrees' /\ [Next]_vars
        => [Promise!ContractNext]_(Promise!contractVars)
  <2> SUFFICES ASSUME TypeOK, TypeOK', TerminationAgrees', [Next]_vars
               PROVE  [Promise!ContractNext]_(Promise!contractVars)
    OBVIOUS
  <2>1. CASE ThreadStep \/ (GuestStep \/ Unwedge)
    BY <2>1, ThreadShape, ShapeKeepsContract DEF ThreadStep, TypeOK
  <2>2. CASE \E c \in Calls : TimerStep(c) /\ UNCHANGED handleVars
    BY <2>2, HostShape, ShapeKeepsContract
  <2>3. CASE HostStep
    BY <2>3, HostShape, ShapeKeepsContract, IssueMakes DEF HostStep
  <2>4. CASE UNCHANGED vars
    <3>1. UNCHANGED << status, call >>
      BY <2>4 DEF vars, threadVars, terminationVars
    <3>2. ContractShape
      BY <3>1 DEF ContractShape
    <3>3. QED
      BY <3>2, ShapeKeepsContract
  <2>5. QED
    BY <2>1, <2>2, <2>3, <2>4, NextCases
<1>3. QED
  BY <1>1, <1>2, TypeCorrect, TerminationIsAgreed, PTL
  DEF Spec, KeepsContract, Promise!Contract
=============================================================================

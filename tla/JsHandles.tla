----------------------------- MODULE JsHandles -----------------------------
(***************************************************************************)
(* Python proxies of JavaScript objects: JsFunction and JsStream.          *)
(*                                                                         *)
(* The runtime thread registers an object when a value that holds it is    *)
(* converted; the proxy is made, and its id tracked, when the value reaches *)
(* Python.  From then on four actors may release it: close() on the proxy, *)
(* the finalizer of the proxy, Runtime.close(), and the end of the stream. *)
(* Each is a round trip to the runtime thread, which may be terminated.    *)
(***************************************************************************)
EXTENDS FiniteSets, Sequences, SequencesExt

CONSTANTS Functions, Streams

Ids == Functions \cup Streams

\* "close" is JsFunction.close's future or JsStream.close, "finalizer" the
\* weakref.finalize callback, "owner" Runtime.close, "read" JsStream.__anext__.
Actors == {"close", "finalizer", "owner", "read"}

\* How far a request can be, and which of these an actor's can reach: functions
\* are not read, and only a read finds the end of a stream.
Stages == {"idle", "called", "begun", "sent", "ok", "ended", "failed", "done"}
StagesOf(a, i) ==
  IF a # "read" THEN Stages \ {"ended"}
  ELSE IF i \in Functions THEN {"idle"}
  ELSE {"idle", "begun", "sent", "ended", "done"}

ASSUME HandlesAssumption ==
  /\ Functions \cap Streams = {}
  /\ IsFiniteSet(Ids)

VARIABLES
  status,    \* TerminationState.status: running, or requested and after
  thread,    \* the runtime thread: in its loop, or gone
  queue,     \* the command channel: << actor, id >> and the shutdown
  registry,  \* fn_registry and JsStreamRegistry.entries
  jobs,      \* streams with a read that is a job of the thread
  tracked,   \* tracked_functions and tracked_js_streams
  shutdown,  \* RuntimeHandle.shutdown
  proxy,     \* per id: the Python object, and before that the answer with the id
  over,      \* streams whose StreamSharedState is closed
  at,        \* per actor and id: how far its request is
  owner,     \* Runtime.close()
  drained    \* the ids Runtime.close() has taken out of tracked

threadVars == << status, thread, queue, registry, jobs >>
handleVars == << tracked, shutdown >>
pythonVars == << proxy, over, owner, drained >>
vars == << threadVars, handleVars, pythonVars, at >>

ShutdownCommand == << "owner", "shutdown" >>

StateTypes ==
  /\ status \in {"running", "terminating"}
  /\ thread \in {"running", "gone"}
  /\ queue \in Seq((Actors \X Ids) \cup {ShutdownCommand})
  /\ registry \subseteq Ids /\ tracked \subseteq Ids /\ drained \subseteq Ids
  /\ jobs \subseteq Streams /\ over \subseteq Streams
  /\ shutdown \in BOOLEAN
  /\ proxy \in [Ids -> {"unborn", "answered", "open", "closed", "collected"}]
  /\ owner \in {"open", "streams", "functions", "stopping", "waiting", "closed"}

RequestTypes ==
  /\ at \in [Actors -> [Ids -> Stages]]
  /\ \A a \in Actors, i \in Ids : at[a][i] \in StagesOf(a, i)

\* Types, with the progress that each actor can make.
TypeOK == StateTypes /\ RequestTypes

Init ==
  /\ status = "running" /\ thread = "running" /\ queue = << >>
  /\ registry = {} /\ jobs = {} /\ tracked = {} /\ shutdown = FALSE
  /\ proxy = [i \in Ids |-> "unborn"] /\ over = {}
  /\ at = [a \in Actors |-> [i \in Ids |-> "idle"]]
  /\ owner = "open" /\ drained = {}

IsShutdown == status # "running" \/ shutdown

-----------------------------------------------------------------------------
(* The runtime thread. *)

\* A result or an argument of a host function holds the object, and
\* value_to_js_value registers it.
Converts(i) ==
  /\ thread # "gone" /\ proxy[i] = "unborn"
  /\ registry' = registry \cup {i}
  /\ proxy' = [proxy EXCEPT ![i] = "answered"]
  /\ UNCHANGED << status, thread, queue, jobs, handleVars, over, owner,
                  drained, at >>

\* The answer of a request, to an actor that may have stopped waiting.
Answered(a, i, result) ==
  at' = IF at[a][i] = "sent" THEN [at EXCEPT ![a][i] = result] ELSE at

\* What an error makes of a request; __anext__ raises it and is done with it.
Refused(a) == IF a = "read" THEN "idle" ELSE "failed"

Command == Head(queue)

Receives(a, i) ==
  /\ thread = "running" /\ queue # << >> /\ Command = << a, i >>
  /\ queue' = Tail(queue)

\* A terminating runtime releases no function: it is about to drop them all.
ReleaseFunction(a, f) ==
  /\ Receives(a, f)
  /\ IF status = "running"
       THEN registry' = registry \ {f} /\ Answered(a, f, "ok")
       ELSE Answered(a, f, "failed") /\ UNCHANGED registry
  /\ UNCHANGED << status, thread, jobs, handleVars, pythonVars >>

\* StreamRelease and StreamCancel do not look at the termination.
ReleaseStream(a, s) ==
  /\ a # "read" /\ Receives(a, s)
  /\ registry' = registry \ {s}
  /\ Answered(a, s, "ok")
  /\ UNCHANGED << status, thread, jobs, handleVars, pythonVars >>

\* Seeded fault: a read that is refused ends the iteration with the error.
StreamReadFailing(s) ==
  /\ Receives("read", s)
  /\ IF status = "running" /\ s \in registry
       THEN jobs' = jobs \cup {s} /\ UNCHANGED at
       ELSE Answered("read", s, "failed") /\ UNCHANGED jobs
  /\ UNCHANGED << status, thread, registry, handleVars, pythonVars >>

StreamRead(s) ==
  /\ Receives("read", s)
  /\ IF status = "running" /\ s \in registry
       THEN jobs' = jobs \cup {s} /\ UNCHANGED at
       ELSE Answered("read", s, "idle") /\ UNCHANGED jobs
  /\ UNCHANGED << status, thread, registry, handleVars, pythonVars >>

\* Seeded fault: the entry goes with the first chunk.
ReadSettlesOnce(s, result) ==
  /\ thread = "running" /\ s \in jobs
  /\ jobs' = jobs \ {s}
  /\ Answered("read", s, result)
  /\ registry' = registry \ {s}
  /\ UNCHANGED << status, thread, queue, handleVars, pythonVars >>

\* The fulfilled hook of the read: the last chunk takes the entry with it.
ReadSettles(s, result) ==
  /\ thread = "running" /\ s \in jobs
  /\ jobs' = jobs \ {s}
  /\ Answered("read", s, result)
  /\ registry' = IF result = "ended" THEN registry \ {s} ELSE registry
  /\ UNCHANGED << status, thread, queue, handleVars, pythonVars >>

\* Seeded fault: only the commands still in the channel lose their responders.
DropsQueue ==
  /\ thread' = "gone" /\ queue' = << >> /\ registry' = {} /\ jobs' = {}
  /\ at' = [a \in Actors |-> [i \in Ids |->
       IF at[a][i] = "sent" /\ << a, i >> \in ToSet(queue) THEN Refused(a) ELSE at[a][i]]]

\* The dispatcher is dropped with everything it holds, and whoever still
\* waits for it finds the responder gone.
Drops ==
  /\ thread' = "gone" /\ queue' = << >> /\ registry' = {} /\ jobs' = {}
  /\ at' = [a \in Actors |-> [i \in Ids |->
       IF at[a][i] = "sent" THEN Refused(a) ELSE at[a][i]]]

\* finalize_termination, on a path that leaves the loop or one that does not:
\* the functions go, the streams stay.
Finalizes ==
  /\ thread # "gone" /\ status = "terminating"
  /\ \/ Drops
     \/ registry' = registry \cap Streams /\ UNCHANGED << thread, queue, jobs, at >>
  /\ UNCHANGED << status, handleVars, pythonVars >>

ShutsDown ==
  /\ thread = "running" /\ queue # << >> /\ Command = ShutdownCommand
  /\ Drops
  /\ owner' = "closed" /\ shutdown' = TRUE
  /\ UNCHANGED << status, tracked, proxy, over, drained >>

\* terminate(), a TerminationHandle, or the heap limit.
Terminated ==
  /\ status = "running"
  /\ status' = "terminating"
  /\ UNCHANGED << thread, queue, registry, jobs, handleVars, pythonVars, at >>

-----------------------------------------------------------------------------
(* Requests.  sender() and the send are one step here: what comes between  *)
(* them is answered like what comes before.                                *)

\* Seeded fault: Runtime.close() takes the mutex before its releases.
SenderReadableOutsideClose == status # "running" \/ owner \in {"open", "closed"}

\* Runtime.close() holds the shutdown mutex while it waits for the thread.
SenderReadable == status # "running" \/ owner # "waiting"

Asks(a, i) ==
  /\ at[a][i] = "begun" /\ SenderReadable
  /\ IF IsShutdown \/ thread = "gone"
       THEN at' = [at EXCEPT ![a][i] = Refused(a)] /\ UNCHANGED queue
       ELSE /\ at' = [at EXCEPT ![a][i] = "sent"]
            /\ queue' = Append(queue, << a, i >>)
  /\ UNCHANGED << status, thread, registry, jobs, handleVars, pythonVars >>

Becomes(a, i, where) == at' = [at EXCEPT ![a][i] = where]

-----------------------------------------------------------------------------
(* Proxies. *)

\* js_value_to_python makes the proxy and tracks its id.  It need not come to
\* this: the rest of the conversion fails, a timeout takes the place of the
\* result, or the future that waits for it is cancelled.
Delivers(i) ==
  /\ proxy[i] = "answered"
  /\ proxy' = [proxy EXCEPT ![i] = "open"]
  /\ tracked' = tracked \cup {i}
  /\ UNCHANGED << threadVars, shutdown, over, owner, drained, at >>

\* Proxies belong to the thread that is inside Runtime.close() meanwhile.
OwnerFree == owner \in {"open", "closed"}

\* Seeded fault: the function is forgotten before it is released.
ClosesFunctionEarly(f) ==
  /\ OwnerFree /\ proxy[f] = "open"
  /\ proxy' = [proxy EXCEPT ![f] = "closed"]
  /\ \E begun \in {"begun", "done"} : Becomes("close", f, begun)
  /\ tracked' = tracked \ {f}
  /\ UNCHANGED << threadVars, shutdown, over, owner, drained >>

\* The proxy is closed at once; the release is a future, which is not even
\* made when no event loop runs.
ClosesFunction(f) ==
  /\ OwnerFree /\ proxy[f] = "open"
  /\ proxy' = [proxy EXCEPT ![f] = "closed"]
  /\ \E begun \in {"begun", "done"} : Becomes("close", f, begun)
  /\ UNCHANGED << threadVars, handleVars, over, owner, drained >>

\* Seeded fault: a cancelled close() untracks the function all the same.
CloseCancelledUntracking(f) ==
  /\ at["close"][f] \in {"begun", "sent"}
  /\ Becomes("close", f, "done")
  /\ tracked' = tracked \ {f}
  /\ UNCHANGED << threadVars, shutdown, pythonVars >>

\* The future of close() is cancelled where it stands.
CloseCancelled(f) ==
  /\ at["close"][f] \in {"begun", "sent"}
  /\ Becomes("close", f, "done")
  /\ UNCHANGED << threadVars, handleVars, pythonVars >>

\* Released or not, the function is untracked.
FunctionUntracked(a, f) ==
  /\ a \in {"close", "finalizer"} /\ at[a][f] \in {"ok", "failed"}
  /\ Becomes(a, f, "done")
  /\ tracked' = tracked \ {f}
  /\ UNCHANGED << threadVars, shutdown, pythonVars >>

\* Closing a stream cancels it, unless its shared state is closed already.
CancelsStream(a, s) ==
  /\ over' = over \cup {s}
  /\ IF s \in over THEN UNCHANGED at ELSE Becomes(a, s, "begun")

ClosesStream(s) ==
  /\ OwnerFree /\ proxy[s] = "open"
  /\ proxy' = [proxy EXCEPT ![s] = "closed"]
  /\ CancelsStream("close", s)
  /\ UNCHANGED << threadVars, handleVars, owner, drained >>

\* stream_cancel and stream_release untrack what they have released.
StreamUntracked(a, s) ==
  /\ a # "read" /\ at[a][s] \in {"ok", "failed"}
  /\ Becomes(a, s, "done")
  /\ tracked' = IF at[a][s] = "ok" THEN tracked \ {s} ELSE tracked
  /\ UNCHANGED << threadVars, shutdown, pythonVars >>

\* The collector finds the proxy and calls its finalizer, on any thread; a
\* stream is in use until its close() has returned.
Collects(i) ==
  /\ proxy[i] \in {"open", "closed"}
  /\ i \in Streams => at["close"][i] \in {"idle", "done"}
  /\ proxy' = [proxy EXCEPT ![i] = "collected"]
  /\ IF i \in Functions
       THEN Becomes("finalizer", i, "called") /\ UNCHANGED over
       ELSE CancelsStream("finalizer", i)
  /\ UNCHANGED << threadVars, handleVars, owner, drained >>

\* A function that is not tracked was released by somebody else.
FinalizerChecks(f) ==
  /\ at["finalizer"][f] = "called"
  /\ f \notin tracked \/ SenderReadable
  /\ Becomes("finalizer", f, IF f \in tracked /\ ~IsShutdown THEN "begun" ELSE "done")
  /\ tracked' = IF IsShutdown THEN tracked \ {f} ELSE tracked
  /\ UNCHANGED << threadVars, shutdown, pythonVars >>

-----------------------------------------------------------------------------
(* JsStream.__anext__, one read at a time; one that is cancelled is the last. *)

Reads(s) ==
  /\ OwnerFree /\ proxy[s] = "open" /\ s \notin over
  /\ at["read"][s] = "idle"
  /\ Becomes("read", s, "begun")
  /\ UNCHANGED << threadVars, handleVars, pythonVars >>

\* The stream is untracked, then marked closed.
ReadEnds(s) ==
  /\ at["read"][s] = "ended"
  /\ Becomes("read", s, "done")
  /\ tracked' = tracked \ {s}
  /\ over' = over \cup {s}
  /\ UNCHANGED << threadVars, shutdown, proxy, owner, drained >>

ReadCancelled(s) ==
  /\ at["read"][s] \in {"sent", "ended"}
  /\ Becomes("read", s, "done")
  /\ UNCHANGED << threadVars, handleVars, pythonVars >>

-----------------------------------------------------------------------------
(* Runtime.close(): the streams, the functions, then the thread. *)

Drains(kind, stage) ==
  /\ drained' = tracked \cap kind
  /\ tracked' = tracked \ kind
  /\ owner' = stage

CloseBegins ==
  /\ owner = "open"
  /\ Drains(Streams, "streams")
  /\ UNCHANGED << threadVars, shutdown, proxy, over, at >>

OwnerWaits == \E i \in Ids : at["owner"][i] \in {"begun", "sent", "ok", "failed"}

CloseReleases(i) ==
  /\ owner \in {"streams", "functions"} /\ ~OwnerWaits
  /\ ~IsShutdown /\ i \in drained
  /\ drained' = drained \ {i}
  /\ Becomes("owner", i, "begun")
  /\ UNCHANGED << threadVars, handleVars, proxy, over, owner >>

FunctionReleased(f) ==
  /\ at["owner"][f] \in {"ok", "failed"}
  /\ Becomes("owner", f, "done")
  /\ UNCHANGED << threadVars, handleVars, pythonVars >>

\* The loop is over, or the runtime was shut down under it.
CloseMovesOn ==
  /\ ~OwnerWaits /\ (drained = {} \/ IsShutdown)
  /\ \/ owner = "streams" /\ Drains(Functions, "functions")
     \/ owner = "functions" /\ owner' = "stopping" /\ drained' = {} /\ UNCHANGED tracked
  /\ UNCHANGED << threadVars, shutdown, proxy, over, at >>

CloseStops ==
  /\ owner = "stopping"
  /\ IF IsShutdown
       THEN shutdown' = TRUE /\ owner' = "closed" /\ UNCHANGED queue
       ELSE IF thread = "gone" THEN owner' = "closed" /\ UNCHANGED << queue, shutdown >>
       ELSE /\ queue' = Append(queue, ShutdownCommand)
            /\ owner' = "waiting" /\ UNCHANGED shutdown
  /\ UNCHANGED << status, thread, registry, jobs, tracked, proxy, over, drained, at >>

\* The thread went away without an answer.
CloseFails ==
  /\ owner = "waiting" /\ thread = "gone"
  /\ owner' = "closed"
  /\ UNCHANGED << threadVars, handleVars, proxy, over, drained, at >>

-----------------------------------------------------------------------------
\* Commands, served when the loop gets to them.
Serves ==
  \/ \E a \in Actors, f \in Functions : ReleaseFunction(a, f)
  \/ \E a \in Actors, s \in Streams : ReleaseStream(a, s)
  \/ \E s \in Streams : StreamRead(s)
  \/ ShutsDown

\* What the code behind one actor does next, in any of its rounds.
Carries(a) ==
  \/ \E i \in Ids : Asks(a, i)
  \/ \E f \in Functions : FunctionUntracked(a, f)
  \/ \E s \in Streams : StreamUntracked(a, s)

OwnerCarries ==
  \/ Carries("owner")
  \/ \E f \in Functions : FunctionReleased(f)
  \/ \E i \in Ids : CloseReleases(i)
  \/ CloseMovesOn \/ CloseStops \/ CloseFails

FinalizerCarries == Carries("finalizer") \/ \E f \in Functions : FinalizerChecks(f)

Progress ==
  \/ Carries("close") \/ Carries("read") \/ FinalizerCarries \/ OwnerCarries
  \/ \E s \in Streams : ReadEnds(s)

Guest ==
  \/ \E i \in Ids : Converts(i)
  \/ \E s \in Streams, r \in {"idle", "ended"} : ReadSettles(s, r)

Application ==
  \/ \E i \in Ids : Delivers(i) \/ Collects(i)
  \/ \E f \in Functions : ClosesFunction(f) \/ CloseCancelled(f)
  \/ \E s \in Streams : ClosesStream(s) \/ Reads(s) \/ ReadCancelled(s)
  \/ CloseBegins \/ Terminated

Next == Serves \/ Finalizes \/ Progress \/ Guest \/ Application

Spec == Init /\ [][Next]_vars

\* Scripts end, so that the thread gets back to its commands; actors carry on.
FairSpec ==
  /\ Spec
  /\ WF_vars(Serves)
  /\ WF_vars(Carries("close")) /\ WF_vars(FinalizerCarries) /\ WF_vars(OwnerCarries)

-----------------------------------------------------------------------------
(* Safety *)

InProgress(i) == \E a \in Actors \ {"read"} : at[a][i] \in {"called", "begun", "sent"}

\* An object that JavaScript cannot drop because the registry holds it has
\* somebody left who will release it: its id is tracked or drained, or a release
\* is on its way.  Objects whose answer never becomes a proxy stay until the end.
LeakFree ==
  status = "running" =>
    \A i \in registry :
      proxy[i] = "answered" \/ i \in tracked \cup drained \/ InProgress(i)

\* A proxy that is open works: until the runtime is terminated or closed nobody
\* releases a function, and only the end of its iteration releases a stream.
OpenIsUsable ==
  (status = "running" /\ owner = "open") =>
    \A i \in Ids : proxy[i] = "open" =>
      i \in registry \/ (i \in Streams /\ at["read"][i] \in {"ended", "done"})

\* Whoever waits for the runtime thread, some of them with no time limit, has
\* a request in the channel or a read among the thread's jobs.
WaiterServed ==
  \A a \in Actors, i \in Ids : at[a][i] = "sent" =>
    /\ thread # "gone"
    /\ << a, i >> \in ToSet(queue) \/ (a = "read" /\ i \in jobs)

-----------------------------------------------------------------------------
(* Liveness *)

Released(i) ==
  /\ i \notin registry \/ status # "running"
  /\ i \in Functions => i \notin tracked

\* What the collector has found leaves the registry, although close() may have
\* been cancelled halfway or never begun, and no function stays tracked.
CollectedIsReleased == \A i \in Ids : proxy[i] = "collected" ~> Released(i)

\* Runtime.close() comes to its end, with finalizers beside it and a
\* termination in any of its stages.
CloseReturns == owner = "streams" ~> owner = "closed"
=============================================================================

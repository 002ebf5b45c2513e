---------------------------- MODULE IsolatePool ----------------------------
(***************************************************************************)
(* IsolatePool: V8 isolates kept warm, each pinned to a worker thread that *)
(* is driven over a channel, and handed out one checkout at a time.        *)
(*                                                                         *)
(* The Python threads share the checkouts.  eval() detaches from the       *)
(* interpreter and then locks the checkout; release() keeps the interpreter *)
(* lock while it waits for the same mutex.                                 *)
(***************************************************************************)
EXTENDS Naturals, Sequences, SequencesExt

CONSTANTS
  Workers,    \* the worker threads there can be
  Checkouts,  \* the PooledIsolate objects there can be
  Threads,    \* Python threads
  Size,       \* the pool's size
  Nobody

ASSUME PoolAssumption ==
  /\ Size \in Nat \ {0}
  /\ {"reclaim", "shutdown"} \cap Threads = {}
  /\ Nobody \notin Workers \cup Checkouts \cup Threads

VARIABLES
  idle,     \* PoolInner.idle
  pool,     \* the Python IsolatePool object: "open", "closed" or "dropped"
  worker,   \* per worker: its thread
  queue,    \* per worker: its channel; a thread stands for its Eval command
  running,  \* per worker: the thread whose script it runs
  heap,     \* per worker: checkouts whose contexts were not collected yet
  holds,    \* per checkout: PooledIsolate.worker
  object,   \* per checkout: the Python object
  lock,     \* per checkout: who has its mutex
  doing,    \* per thread: where it is in eval() or release()
  on        \* per thread: the checkout it does that on

workerVars == << worker, queue, running, heap >>
checkoutVars == << holds, object, lock >>
pythonVars == << doing, on >>
vars == << idle, pool, workerVars, checkoutVars, pythonVars >>

Spawned == {w \in Workers : worker[w] # "unspawned"}
Held == {w \in Workers : \E h \in Checkouts : holds[h] = w}

\* The types; a channel never holds more than the commands there can be.
TypeOK ==
  /\ idle \in Seq(Workers)
  /\ pool \in {"open", "closed", "dropped"}
  /\ worker \in [Workers -> {"unspawned", "receiving", "evaluating", "exited"}]
  /\ queue \in [Workers -> Seq(Threads \cup {"reclaim", "shutdown"})]
  /\ running \in [Workers -> Threads \cup {Nobody}]
  /\ heap \in [Workers -> SUBSET Checkouts]
  /\ holds \in [Checkouts -> Workers \cup {Nobody}]
  /\ object \in [Checkouts -> {"none", "live", "gone"}]
  /\ lock \in [Checkouts -> Threads \cup {Nobody}]
  /\ doing \in [Threads -> {"nothing", "locking", "waiting", "raising",
                            "attaching", "releasing"}]
  /\ on \in [Threads -> Checkouts \cup {Nobody}]

\* new(size) spawns the workers it puts in the idle queue.
Init ==
  /\ idle \in {s \in [1 .. Size -> Workers] : IsInjective(s)}
  /\ pool = "open"
  /\ worker = [w \in Workers |-> IF w \in ToSet(idle) THEN "receiving" ELSE "unspawned"]
  /\ queue = [w \in Workers |-> << >>]
  /\ running = [w \in Workers |-> Nobody]
  /\ heap = [w \in Workers |-> {}]
  /\ holds = [h \in Checkouts |-> Nobody]
  /\ object = [h \in Checkouts |-> "none"]
  /\ lock = [h \in Checkouts |-> Nobody]
  /\ doing = [t \in Threads |-> "nothing"]
  /\ on = [t \in Threads |-> Nobody]

\* A thread that waits for a checkout's mutex in release() is attached.  Every
\* other attached stretch is short and is one step below.
InterpreterFree == \A t \in Threads : doing[t] # "releasing"

-----------------------------------------------------------------------------
(* The pool, called from Python with the interpreter lock. *)

\* Seeded fault: the isolate stays in the queue it was taken from.
CheckoutPeeks(h) ==
  /\ InterpreterFree
  /\ pool # "dropped" /\ object[h] = "none" /\ idle # << >>
  /\ object' = [object EXCEPT ![h] = "live"]
  /\ holds' = [holds EXCEPT ![h] = Head(idle)]
  /\ UNCHANGED << idle, pool, worker, queue, running, heap, lock, pythonVars >>

\* Take the isolate that has been idle longest, or spawn one.
Checkout(h) ==
  /\ InterpreterFree
  /\ pool # "dropped" /\ object[h] = "none"
  /\ object' = [object EXCEPT ![h] = "live"]
  /\ IF idle # << >>
       THEN /\ holds' = [holds EXCEPT ![h] = Head(idle)]
            /\ idle' = Tail(idle)
            /\ UNCHANGED worker
       ELSE /\ \E w \in Workers \ Spawned :
                 /\ holds' = [holds EXCEPT ![h] = w]
                 /\ worker' = [worker EXCEPT ![w] = "receiving"]
            /\ UNCHANGED idle
  /\ UNCHANGED << pool, queue, running, heap, lock, pythonVars >>

\* Seeded fault: the isolate goes back with the heap its checkout left.
ReturnUncollected(h) ==
  LET w == holds[h] IN
  /\ holds' = [holds EXCEPT ![h] = Nobody]
  /\ idle' = IF w # Nobody /\ Len(idle) < Size THEN Append(idle, w) ELSE idle
  /\ queue' = IF w = Nobody \/ Len(idle) < Size THEN queue
              ELSE [queue EXCEPT ![w] = Append(@, "shutdown")]

\* Seeded fault: an isolate the full pool stops is queued all the same.
ReturnStopped(h) ==
  LET w == holds[h] IN
  /\ holds' = [holds EXCEPT ![h] = Nobody]
  /\ IF w = Nobody THEN UNCHANGED << idle, queue >>
     ELSE /\ idle' = Append(idle, w)
          /\ queue' = [queue EXCEPT
               ![w] = Append(@, IF Len(idle) < Size THEN "reclaim" ELSE "shutdown")]

\* Seeded fault: a checkout that holds no isolate any more returns one again.
ReturnBlindly(h) ==
  LET w == holds[h] IN
  /\ holds' = [holds EXCEPT ![h] = Nobody]
  /\ idle' = IF Len(idle) < Size THEN Append(idle, w) ELSE idle
  /\ queue' = [queue EXCEPT ![w] = Append(@, "reclaim")]

\* PooledIsolate::release: reclaim and re-queue, or shut down when full.
Return(h) ==
  LET w == holds[h] IN
  /\ holds' = [holds EXCEPT ![h] = Nobody]
  /\ IF w = Nobody THEN UNCHANGED << idle, queue >>
     ELSE IF Len(idle) < Size
       THEN /\ idle' = Append(idle, w)
            /\ queue' = [queue EXCEPT ![w] = Append(@, "reclaim")]
       ELSE /\ UNCHANGED idle
            /\ queue' = [queue EXCEPT ![w] = Append(@, "shutdown")]

\* close(), as often as it is called, and once more when the Python object goes
\* away: isolates that came back after a close are stopped by the next.
Drain(p) ==
  /\ InterpreterFree
  /\ pool # "dropped"
  /\ pool' = p
  /\ idle' = << >>
  /\ queue' = [w \in Workers |-> IF w \in ToSet(idle)
                                   THEN Append(queue[w], "shutdown") ELSE queue[w]]
  /\ UNCHANGED << worker, running, heap, checkoutVars, pythonVars >>

-----------------------------------------------------------------------------
(* A checkout, used from several threads. *)

\* eval() detaches and goes for the mutex.
EvalBegins(t, h) ==
  /\ InterpreterFree
  /\ doing[t] = "nothing" /\ object[h] = "live"
  /\ doing' = [doing EXCEPT ![t] = "locking"]
  /\ on' = [on EXCEPT ![t] = h]
  /\ UNCHANGED << idle, pool, workerVars, checkoutVars >>

\* Seeded fault: the mutex is not kept while the answer is awaited.
EvalUnlocked(t) ==
  /\ doing[t] = "locking" /\ lock[on[t]] = Nobody
  /\ LET w == holds[on[t]] IN
     IF w = Nobody
       THEN doing' = [doing EXCEPT ![t] = "attaching"] /\ UNCHANGED queue
       ELSE /\ queue' = [queue EXCEPT ![w] = Append(@, t)]
            /\ doing' = [doing EXCEPT ![t] = "waiting"]
  /\ UNCHANGED << idle, pool, worker, running, heap, holds, object, lock, on >>

\* A checkout that was released already answers with an error of its own.
EvalLocks(t) ==
  /\ doing[t] = "locking" /\ lock[on[t]] = Nobody
  /\ LET w == holds[on[t]] IN
     IF w = Nobody
       THEN /\ doing' = [doing EXCEPT ![t] = "attaching"]
            /\ UNCHANGED << queue, lock >>
       ELSE /\ lock' = [lock EXCEPT ![on[t]] = t]
            /\ queue' = [queue EXCEPT ![w] = Append(@, t)]
            /\ doing' = [doing EXCEPT ![t] = "waiting"]
  /\ UNCHANGED << idle, pool, worker, running, heap, holds, object, on >>

\* The error becomes a Python exception, attached, before the mutex is dropped.
EvalRaises(t) ==
  /\ doing[t] = "raising" /\ InterpreterFree
  /\ lock' = [lock EXCEPT ![on[t]] = Nobody]
  /\ doing' = [doing EXCEPT ![t] = "attaching"]
  /\ UNCHANGED << idle, pool, workerVars, holds, object, on >>

EvalReturns(t) ==
  /\ doing[t] = "attaching" /\ InterpreterFree
  /\ doing' = [doing EXCEPT ![t] = "nothing"]
  /\ on' = [on EXCEPT ![t] = Nobody]
  /\ UNCHANGED << idle, pool, workerVars, checkoutVars >>

ReleaseBegins(t, h) ==
  /\ InterpreterFree
  /\ doing[t] = "nothing" /\ object[h] = "live"
  /\ doing' = [doing EXCEPT ![t] = "releasing"]
  /\ on' = [on EXCEPT ![t] = h]
  /\ UNCHANGED << idle, pool, workerVars, checkoutVars >>

\* Seeded fault: release() does not wait for the mutex.
ReleaseUnlocked(t) ==
  /\ doing[t] = "releasing"
  /\ Return(on[t])
  /\ doing' = [doing EXCEPT ![t] = "nothing"]
  /\ on' = [on EXCEPT ![t] = Nobody]
  /\ UNCHANGED << pool, worker, running, heap, object, lock >>

ReleaseReturns(t) ==
  /\ doing[t] = "releasing" /\ lock[on[t]] = Nobody
  /\ Return(on[t])
  /\ doing' = [doing EXCEPT ![t] = "nothing"]
  /\ on' = [on EXCEPT ![t] = Nobody]
  /\ UNCHANGED << pool, worker, running, heap, object, lock >>

\* The last reference to the checkout goes away.
DropCheckout(h) ==
  /\ InterpreterFree
  /\ object[h] = "live" /\ \A t \in Threads : on[t] # h
  /\ object' = [object EXCEPT ![h] = "gone"]
  /\ Return(h)
  /\ UNCHANGED << pool, worker, running, heap, lock, pythonVars >>

-----------------------------------------------------------------------------
(* The worker thread. *)

Takes(w, command) ==
  /\ worker[w] = "receiving" /\ queue[w] # << >> /\ Head(queue[w]) = command
  /\ queue' = [queue EXCEPT ![w] = Tail(@)]

\* eval_in_fresh_context: a new context, thrown away afterwards.
WorkerEvaluates(w, t) ==
  /\ Takes(w, t)
  /\ worker' = [worker EXCEPT ![w] = "evaluating"]
  /\ running' = [running EXCEPT ![w] = t]
  /\ heap' = [heap EXCEPT ![w] = @ \cup {on[t]}]
  /\ UNCHANGED << idle, pool, checkoutVars, pythonVars >>

WorkerReclaims(w) ==
  /\ Takes(w, "reclaim")
  /\ heap' = [heap EXCEPT ![w] = {}]
  /\ UNCHANGED << idle, pool, worker, running, checkoutVars, pythonVars >>

WorkerExits(w) ==
  /\ worker[w] = "receiving" /\ queue[w] # << >> /\ Head(queue[w]) = "shutdown"
  /\ worker' = [worker EXCEPT ![w] = "exited"]
  /\ queue' = [queue EXCEPT ![w] = << >>]
  /\ UNCHANGED << idle, pool, running, heap, checkoutVars, pythonVars >>

\* The script ends; a conversion failure is an error like an exception.
WorkerAnswers(w, result) ==
  /\ worker[w] = "evaluating"
  /\ worker' = [worker EXCEPT ![w] = "receiving"]
  /\ running' = [running EXCEPT ![w] = Nobody]
  /\ LET t == running[w] IN
     IF result = "ok"
       THEN /\ doing' = [doing EXCEPT ![t] = "attaching"]
            /\ lock' = [lock EXCEPT ![on[t]] = Nobody]
       ELSE /\ doing' = [doing EXCEPT ![t] = "raising"]
            /\ UNCHANGED lock
  /\ UNCHANGED << idle, pool, queue, heap, holds, object, on >>

\* Seeded fault: the worker thread keeps a sender of its own channel.
SenderLeaked(w) == w \in Spawned

\* A sender of w's channel is in the idle queue, while somebody holds the
\* pool's inner part, or in a checkout.
PoolInnerAlive == pool # "dropped" \/ Held # {}
SenderAlive(w) == w \in Held \/ (w \in ToSet(idle) /\ PoolInnerAlive)

WorkerHangsUp(w) ==
  /\ worker[w] = "receiving" /\ queue[w] = << >> /\ ~SenderAlive(w)
  /\ worker' = [worker EXCEPT ![w] = "exited"]
  /\ UNCHANGED << idle, pool, queue, running, heap, checkoutVars, pythonVars >>

-----------------------------------------------------------------------------
WorkerStep(w) ==
  \/ \E t \in Threads : WorkerEvaluates(w, t)
  \/ WorkerReclaims(w) \/ WorkerExits(w) \/ WorkerHangsUp(w)

ThreadStep(t) ==
  EvalLocks(t) \/ EvalRaises(t) \/ EvalReturns(t) \/ ReleaseReturns(t)

Next ==
  \/ \E w \in Workers : WorkerStep(w)
  \/ \E w \in Workers, r \in {"ok", "error"} : WorkerAnswers(w, r)
  \/ \E t \in Threads : ThreadStep(t)
  \/ \E t \in Threads, h \in Checkouts : EvalBegins(t, h) \/ ReleaseBegins(t, h)
  \/ \E h \in Checkouts : Checkout(h) \/ DropCheckout(h)
  \/ \E p \in {"closed", "dropped"} : Drain(p)

Spec == Init /\ [][Next]_vars

\* Workers and threads carry on with what they began.  Scripts need not end.
FairSpec ==
  /\ Spec
  /\ \A w \in Workers : WF_vars(WorkerStep(w))
  /\ \A t \in Threads : SF_vars(ThreadStep(t))

-----------------------------------------------------------------------------
(* Safety. *)

\* An isolate has one user: it is in the idle queue once, or in one checkout.
OneUserPerIsolate ==
  /\ IsInjective(idle)
  /\ ToSet(idle) \cap Held = {}
  /\ \A g, h \in Checkouts : holds[g] = holds[h] /\ holds[g] # Nobody => g = h

\* The worker behind a checkout, or waiting in a pool, is alive and has not
\* been told to stop, however close() and release() interleave; and the pool
\* keeps no more of them idle than its size.
UsableWorkersLive ==
  /\ \A w \in Workers : SenderAlive(w) =>
       /\ worker[w] \in {"receiving", "evaluating"}
       /\ "shutdown" \notin ToSet(queue[w])
  /\ Len(idle) <= Size

\* A script runs on a heap with no context of another checkout in it.
HeapBelongsToCheckout ==
  \A w \in Workers : worker[w] = "evaluating" => heap[w] = {on[running[w]]}

\* A thread that waits for an answer holds the mutex of a checkout whose
\* worker has its command or runs its script: nobody else gets the answer.
WaiterIsServed ==
  \A t \in Threads : doing[t] = "waiting" =>
    /\ lock[on[t]] = t
    /\ \E w \in Workers : holds[on[t]] = w /\ (running[w] = t \/ t \in ToSet(queue[w]))

\* Refinement: the pool does what PoolContract says.  A thread has asked for a
\* script from the command to the answer.
AbstractScript(t) ==
  IF doing[t] # "waiting" THEN [at |-> "none", of |-> Nobody]
  ELSE [at |-> IF \E w \in Workers : running[w] = t THEN "runs" ELSE "asked",
        of |-> on[t]]

Promise == INSTANCE PoolContract WITH
  Isolates <- Workers,
  made <- {h \in Checkouts : object[h] # "none"},
  isolate <- holds,
  script <- [t \in Threads |-> AbstractScript(t)],
  contexts <- heap,
  stopped <- {w \in Workers : worker[w] = "exited"}

KeepsPromise == Promise!Contract

-----------------------------------------------------------------------------
(* Liveness. *)

\* No worker thread outlives the pool and its checkouts.
WorkersExit ==
  (pool = "dropped" /\ Held = {}) ~>
    \A w \in Workers : worker[w] \in {"unspawned", "exited"}
=============================================================================

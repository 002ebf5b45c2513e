------------------------- MODULE IsolatePoolProofs -------------------------
(***************************************************************************)
(* Theorems about IsolatePool, for all workers, checkouts and threads, and *)
(* every size.                                                             *)
(***************************************************************************)
EXTENDS IsolatePool, SequenceLemmas

Commands == Threads \cup {"reclaim", "shutdown"}

\* A thread that is inside eval() or release() is so on a checkout, and has its
\* mutex from the command to the exception.
ThreadsPlaced ==
  \A t \in Threads :
    /\ doing[t] # "nothing" => on[t] \in Checkouts
    /\ doing[t] \in {"waiting", "raising"} => lock[on[t]] = t

\* The isolates in use have been spawned; one that has not is clean.
UsersSpawned ==
  /\ ToSet(idle) \cup Held \subseteq Spawned
  /\ \A w \in Workers \ Spawned : queue[w] = << >> /\ heap[w] = {}

\* A worker runs a script exactly while it evaluates.
RunsWhileEvaluating ==
  \A w \in Workers : running[w] # Nobody <=> worker[w] = "evaluating"

\* A thread whose script is queued or runs waits, for the worker that its
\* checkout holds, and in one place.
ScriptsAwaited ==
  \A w \in Workers, t \in Threads :
    /\ t \in ToSet(queue[w]) \/ running[w] = t =>
         doing[t] = "waiting" /\ holds[on[t]] = w
    /\ running[w] = t => t \notin ToSet(queue[w])

QueuedOnce ==
  \A w \in Workers : \A i, j \in DOMAIN queue[w] :
    queue[w][i] \in Threads /\ queue[w][i] = queue[w][j] => i = j

\* The contexts of a checkout that was returned are collected before the next
\* script: the command to do so is ahead of it.
ReclaimFirst ==
  \A w \in Workers : \A i, j \in DOMAIN queue[w] :
    queue[w][i] \in Threads /\ queue[w][j] = "reclaim" => j < i

\* With nothing left to collect, a heap has the contexts of its checkout only,
\* and an idle one none.
HeapsClean ==
  \A w \in Workers : "reclaim" \notin ToSet(queue[w]) =>
    /\ \A h \in Checkouts : holds[h] = w => heap[w] \subseteq {h}
    /\ w \in ToSet(idle) => heap[w] = {}

\* Who has been told to stop has no user, nor has a checkout that is gone an
\* isolate.
ToldAreUnused ==
  \A w \in Workers : "shutdown" \in ToSet(queue[w]) => w \notin ToSet(idle) \cup Held

OnlyLiveHold ==
  \A h \in Checkouts : object[h] # "live" => holds[h] = Nobody

PoolInv ==
  /\ TypeOK /\ OneUserPerIsolate /\ UsableWorkersLive /\ WaiterIsServed
  /\ HeapBelongsToCheckout
  /\ ThreadsPlaced /\ UsersSpawned /\ RunsWhileEvaluating /\ ScriptsAwaited
  /\ QueuedOnce /\ ReclaimFirst /\ HeapsClean /\ ToldAreUnused /\ OnlyLiveHold

-----------------------------------------------------------------------------
(* Channels.                                                               *)

\* Some workers are sent a command.
Sends(W, c) ==
  queue' = [w \in Workers |-> IF w \in W THEN Append(queue[w], c) ELSE queue[w]]

LEMMA SendsInOrder ==
  ASSUME PoolInv, NEW W \in SUBSET Workers, NEW c \in Commands, Sends(W, c),
         \A w \in W : /\ c \in Threads => c \notin ToSet(queue[w])
                      /\ c = "reclaim" => ToSet(queue[w]) \cap Threads = {}
  PROVE  /\ queue' \in [Workers -> Seq(Commands)]
         /\ \A w \in Workers : ToSet(queue'[w]) =
              IF w \in W THEN ToSet(queue[w]) \cup {c} ELSE ToSet(queue[w])
         /\ QueuedOnce' /\ ReclaimFirst'
<1>1. queue \in [Workers -> Seq(Commands)]
  BY DEF PoolInv, TypeOK, Commands
<1>2. \A w \in Workers :
        queue'[w] = IF w \in W THEN Append(queue[w], c) ELSE queue[w]
  BY DEF Sends
<1>3. \A w \in Workers : Append(queue[w], c) \in Seq(Commands)
  BY <1>1, Appended
<1>4. queue' \in [Workers -> Seq(Commands)]
  BY <1>1, <1>3 DEF Sends
<1>5. \A w \in Workers : ToSet(queue'[w]) =
        IF w \in W THEN ToSet(queue[w]) \cup {c} ELSE ToSet(queue[w])
  <2> SUFFICES ASSUME NEW w \in Workers
               PROVE  ToSet(queue'[w]) =
                        IF w \in W THEN ToSet(queue[w]) \cup {c} ELSE ToSet(queue[w])
    OBVIOUS
  <2>1. CASE w \in W
    <3>1. queue[w] \in Seq(Commands) /\ queue'[w] = Append(queue[w], c)
      BY <1>1, <1>2, <2>1
    <3>2. ToSet(Append(queue[w], c)) = ToSet(queue[w]) \cup {c}
      BY <3>1, Appended
    <3>3. QED
      BY <2>1, <3>1, <3>2
  <2>2. CASE w \notin W
    BY <1>2, <2>2
  <2>3. QED
    BY <2>1, <2>2
<1>6. QueuedOnce'
  <2> SUFFICES ASSUME NEW w \in W,
                      NEW i \in DOMAIN queue'[w], NEW j \in DOMAIN queue'[w],
                      queue'[w][i] \in Threads, queue'[w][i] = queue'[w][j]
               PROVE  i = j
    BY <1>2 DEF PoolInv, QueuedOnce
  <2> DEFINE s == queue[w]
  <2>1. s \in Seq(Commands) /\ queue'[w] = Append(s, c)
    BY <1>1, <1>2
  <2>2. /\ \/ i \in DOMAIN s /\ queue'[w][i] = s[i]
           \/ i \notin DOMAIN s /\ queue'[w][i] = c
        /\ \/ j \in DOMAIN s /\ queue'[w][j] = s[j]
           \/ j \notin DOMAIN s /\ queue'[w][j] = c
        /\ \A k \in DOMAIN s : s[k] \in ToSet(s)
        /\ i \notin DOMAIN s /\ j \notin DOMAIN s => i = j
    BY <2>1, Appended
  <2>3. c \in Threads => c \notin ToSet(s)
    OBVIOUS
  <2>4. \A k, l \in DOMAIN s : s[k] \in Threads /\ s[k] = s[l] => k = l
    BY DEF PoolInv, QueuedOnce
  <2>5. QED
    BY <2>2, <2>3, <2>4
<1>7. ReclaimFirst'
  <2> SUFFICES ASSUME NEW w \in W,
                      NEW i \in DOMAIN queue'[w], NEW j \in DOMAIN queue'[w],
                      queue'[w][i] \in Threads, queue'[w][j] = "reclaim"
               PROVE  j < i
    BY <1>2 DEF PoolInv, ReclaimFirst
  <2> DEFINE s == queue[w]
  <2>1. s \in Seq(Commands) /\ queue'[w] = Append(s, c)
    BY <1>1, <1>2
  <2>2. /\ i \in Nat /\ j \in Nat
        /\ \/ i \in DOMAIN s /\ queue'[w][i] = s[i] /\ s[i] \in ToSet(s)
           \/ queue'[w][i] = c /\ j <= i
        /\ \/ j \in DOMAIN s /\ queue'[w][j] = s[j]
           \/ queue'[w][j] = c
    BY <2>1, Appended
  <2>3. queue'[w][i] # queue'[w][j]
    BY PoolAssumption
  <2>4. c = "reclaim" => ToSet(s) \cap Threads = {}
    OBVIOUS
  <2>5. \A k, l \in DOMAIN s : s[k] \in Threads /\ s[l] = "reclaim" => l < k
    BY DEF PoolInv, ReclaimFirst
  <2>6. QED
    BY <2>2, <2>3, <2>4, <2>5
<1>8. QED
  BY <1>4, <1>5, <1>6, <1>7

\* A worker takes its next command.
LEMMA TakesInOrder ==
  ASSUME PoolInv, NEW w \in Workers, NEW c, Takes(w, c)
  PROVE  /\ queue' \in [Workers -> Seq(Commands)]
         /\ \A v \in Workers \ {w} : queue'[v] = queue[v]
         /\ ToSet(queue[w]) = {c} \cup ToSet(queue'[w])
         /\ c \in Threads => /\ c \notin ToSet(queue'[w])
                             /\ "reclaim" \notin ToSet(queue[w])
         /\ QueuedOnce' /\ ReclaimFirst'
<1>1. queue \in [Workers -> Seq(Commands)]
  BY DEF PoolInv, TypeOK, Commands
<1> DEFINE s == queue[w]
<1>2. /\ s \in Seq(Commands) /\ s # << >> /\ Head(s) = c
      /\ queue' = [queue EXCEPT ![w] = Tail(s)]
  BY <1>1 DEF Takes
<1>3. /\ Tail(s) \in Seq(Commands) /\ ToSet(s) = {c} \cup ToSet(Tail(s))
      /\ 1 \in DOMAIN s /\ s[1] = c
      /\ \A i \in DOMAIN Tail(s) :
           i \in Nat \ {0} /\ i + 1 \in DOMAIN s /\ Tail(s)[i] = s[i + 1]
  BY <1>2, Taken
<1>4. /\ queue' \in [Workers -> Seq(Commands)] /\ queue'[w] = Tail(s)
      /\ \A v \in Workers \ {w} : queue'[v] = queue[v]
  BY <1>1, <1>2, <1>3
<1>5. \A i, j \in DOMAIN s : s[i] \in Threads /\ s[i] = s[j] => i = j
  BY DEF PoolInv, QueuedOnce
<1>6. \A i, j \in DOMAIN s : s[i] \in Threads /\ s[j] = "reclaim" => j < i
  BY DEF PoolInv, ReclaimFirst
<1> HIDE DEF s
<1>7. QueuedOnce'
  <2> SUFFICES ASSUME NEW i \in DOMAIN Tail(s), NEW j \in DOMAIN Tail(s),
                      Tail(s)[i] \in Threads, Tail(s)[i] = Tail(s)[j]
               PROVE  i = j
    BY <1>4 DEF PoolInv, QueuedOnce
  <2>1. i + 1 = j + 1
    BY <1>3, <1>5
  <2>2. QED
    BY <1>3, <2>1
<1>8. ReclaimFirst'
  <2> SUFFICES ASSUME NEW i \in DOMAIN Tail(s), NEW j \in DOMAIN Tail(s),
                      Tail(s)[i] \in Threads, Tail(s)[j] = "reclaim"
               PROVE  j < i
    BY <1>4 DEF PoolInv, ReclaimFirst
  <2>1. j + 1 < i + 1
    BY <1>3, <1>6
  <2>2. QED
    BY <1>3, <2>1
<1>9. ASSUME c \in Threads
      PROVE  c \notin ToSet(Tail(s)) /\ "reclaim" \notin ToSet(s)
  <2>1. \A i \in DOMAIN Tail(s) : Tail(s)[i] # c
    <3> SUFFICES ASSUME NEW i \in DOMAIN Tail(s), Tail(s)[i] = c PROVE FALSE
      OBVIOUS
    <3>1. i + 1 = 1 /\ i \in Nat \ {0}
      BY <1>3, <1>5, <1>9
    <3>2. QED
      BY <3>1
  <2>2. DOMAIN s \subseteq Nat \ {0}
    BY <1>2, LenProperties
  <2>3. \A j \in DOMAIN s : s[j] # "reclaim"
    BY <1>3, <1>6, <1>9, <2>2
  <2>4. QED
    BY <2>1, <2>3 DEF ToSet
<1>10. QED
  BY <1>3, <1>4, <1>7, <1>8, <1>9 DEF s

-----------------------------------------------------------------------------
(* Steps of a thread.                                                      *)

\* The pool and its workers stay as they are, and so do the threads that wait.
LEMMA WaitersStay ==
  ASSUME PoolInv, TypeOK', ThreadsPlaced', OnlyLiveHold',
         \A u \in Threads : doing[u] = "waiting" \/ doing'[u] = "waiting" =>
           /\ doing'[u] = doing[u] /\ on'[u] = on[u]
           /\ lock'[on[u]] = lock[on[u]],
         UNCHANGED << idle, pool, worker, queue, running, heap, holds >>
  PROVE  PoolInv'
<1>1. WaiterIsServed'
  BY DEF PoolInv, WaiterIsServed
<1>2. ScriptsAwaited'
  BY DEF PoolInv, ScriptsAwaited
<1>3. HeapBelongsToCheckout'
  <2> SUFFICES ASSUME NEW w \in Workers, worker[w] = "evaluating"
               PROVE  heap[w] = {on'[running[w]]}
    BY DEF HeapBelongsToCheckout
  <2>1. heap[w] = {on[running[w]]} /\ running[w] # Nobody
    BY DEF PoolInv, HeapBelongsToCheckout, RunsWhileEvaluating
  <2>2. running[w] \in Threads
    BY <2>1 DEF PoolInv, TypeOK
  <2>3. doing[running[w]] = "waiting"
    BY <2>2 DEF PoolInv, ScriptsAwaited
  <2>4. QED
    BY <2>1, <2>2, <2>3
<1>4. OneUserPerIsolate' /\ UsableWorkersLive' /\ UsersSpawned' /\ ToldAreUnused'
  BY DEF PoolInv, OneUserPerIsolate, UsableWorkersLive, UsersSpawned,
         ToldAreUnused, Held, Spawned, SenderAlive, PoolInnerAlive
<1>5. RunsWhileEvaluating' /\ QueuedOnce' /\ ReclaimFirst' /\ HeapsClean'
  BY DEF PoolInv, RunsWhileEvaluating, QueuedOnce, ReclaimFirst, HeapsClean
<1>6. QED
  BY <1>1, <1>2, <1>3, <1>4, <1>5 DEF PoolInv

\* One that neither waits for a script nor starts to moves on.
LEMMA ThreadMoves ==
  ASSUME PoolInv, TypeOK', ThreadsPlaced', NEW t \in Threads,
         doing[t] # "waiting", doing'[t] # "waiting",
         \A u \in Threads \ {t} :
           /\ doing'[u] = doing[u] /\ on'[u] = on[u]
           /\ doing[u] = "waiting" => lock'[on[u]] = lock[on[u]],
         UNCHANGED << idle, pool, workerVars, holds, object >>
  PROVE  PoolInv'
<1>1. UNCHANGED << idle, pool, worker, queue, running, heap, holds, object >>
  BY DEF workerVars
<1>2. \A u \in Threads : doing[u] = "waiting" \/ doing'[u] = "waiting" =>
        /\ doing'[u] = doing[u] /\ on'[u] = on[u]
        /\ lock'[on[u]] = lock[on[u]]
  OBVIOUS
<1>3. OnlyLiveHold'
  BY <1>1 DEF PoolInv, OnlyLiveHold
<1>4. QED
  BY <1>1, <1>2, <1>3, WaitersStay

LEMMA EvalBeginsStep ==
  ASSUME PoolInv, NEW t \in Threads, NEW h \in Checkouts, EvalBegins(t, h)
  PROVE  PoolInv'
<1>1. /\ doing[t] = "nothing" /\ doing' = [doing EXCEPT ![t] = "locking"]
      /\ on' = [on EXCEPT ![t] = h]
      /\ UNCHANGED << idle, pool, worker, queue, running, heap, holds, object, lock >>
  BY DEF EvalBegins, workerVars, checkoutVars
<1>2. TypeOK'
  BY <1>1 DEF PoolInv, TypeOK
<1>3. ThreadsPlaced'
  BY <1>1 DEF PoolInv, TypeOK, ThreadsPlaced
<1>4. doing'[t] = "locking"
      /\ \A u \in Threads \ {t} : doing'[u] = doing[u] /\ on'[u] = on[u]
  BY <1>1 DEF PoolInv, TypeOK
<1>5. QED
  BY <1>1, <1>2, <1>3, <1>4, ThreadMoves DEF workerVars

LEMMA ReleaseBeginsStep ==
  ASSUME PoolInv, NEW t \in Threads, NEW h \in Checkouts, ReleaseBegins(t, h)
  PROVE  PoolInv'
<1>1. /\ doing[t] = "nothing" /\ doing' = [doing EXCEPT ![t] = "releasing"]
      /\ on' = [on EXCEPT ![t] = h]
      /\ UNCHANGED << idle, pool, worker, queue, running, heap, holds, object, lock >>
  BY DEF ReleaseBegins, workerVars, checkoutVars
<1>2. TypeOK'
  BY <1>1 DEF PoolInv, TypeOK
<1>3. ThreadsPlaced'
  BY <1>1 DEF PoolInv, TypeOK, ThreadsPlaced
<1>4. doing'[t] = "releasing"
      /\ \A u \in Threads \ {t} : doing'[u] = doing[u] /\ on'[u] = on[u]
  BY <1>1 DEF PoolInv, TypeOK
<1>5. QED
  BY <1>1, <1>2, <1>3, <1>4, ThreadMoves DEF workerVars

LEMMA EvalReturnsStep ==
  ASSUME PoolInv, NEW t \in Threads, EvalReturns(t)
  PROVE  PoolInv'
<1>1. /\ doing[t] = "attaching" /\ doing' = [doing EXCEPT ![t] = "nothing"]
      /\ on' = [on EXCEPT ![t] = Nobody]
      /\ UNCHANGED << idle, pool, worker, queue, running, heap, holds, object, lock >>
  BY DEF EvalReturns, workerVars, checkoutVars
<1>2. TypeOK'
  BY <1>1 DEF PoolInv, TypeOK
<1>3. ThreadsPlaced'
  BY <1>1 DEF PoolInv, TypeOK, ThreadsPlaced
<1>4. doing'[t] = "nothing"
      /\ \A u \in Threads \ {t} : doing'[u] = doing[u] /\ on'[u] = on[u]
  BY <1>1 DEF PoolInv, TypeOK
<1>5. QED
  BY <1>1, <1>2, <1>3, <1>4, ThreadMoves DEF workerVars

\* It held the mutex: no waiting thread did.
LEMMA EvalRaisesStep ==
  ASSUME PoolInv, NEW t \in Threads, EvalRaises(t)
  PROVE  PoolInv'
<1>1. /\ doing[t] = "raising" /\ doing' = [doing EXCEPT ![t] = "attaching"]
      /\ lock' = [lock EXCEPT ![on[t]] = Nobody]
      /\ UNCHANGED << idle, pool, worker, queue, running, heap, holds, object, on >>
  BY DEF EvalRaises, workerVars
<1>2. on[t] \in Checkouts /\ lock[on[t]] = t
  BY <1>1 DEF PoolInv, TypeOK, ThreadsPlaced
<1>3. TypeOK'
  BY <1>1 DEF PoolInv, TypeOK
<1>4. doing'[t] = "attaching" /\ \A u \in Threads \ {t} : doing'[u] = doing[u]
  BY <1>1 DEF PoolInv, TypeOK
<1>5. \A u \in Threads \ {t} : doing[u] \in {"waiting", "raising"} =>
        lock'[on[u]] = lock[on[u]]
  <2> SUFFICES ASSUME NEW u \in Threads \ {t}, doing[u] \in {"waiting", "raising"}
               PROVE  lock'[on[u]] = lock[on[u]]
    OBVIOUS
  <2>1. on[u] \in Checkouts /\ lock[on[u]] = u
    BY DEF PoolInv, ThreadsPlaced
  <2>2. lock \in [Checkouts -> Threads \cup {Nobody}]
    BY DEF PoolInv, TypeOK
  <2>3. QED
    BY <1>1, <1>2, <2>1, <2>2
<1>6. ThreadsPlaced'
  BY <1>1, <1>2, <1>4, <1>5 DEF PoolInv, ThreadsPlaced
<1>7. QED
  BY <1>1, <1>3, <1>4, <1>5, <1>6, ThreadMoves DEF workerVars

\* The command goes to the worker its checkout holds; the mutex was free, so no
\* waiting thread had it.
LEMMA EvalLocksStep ==
  ASSUME PoolInv, NEW t \in Threads, EvalLocks(t)
  PROVE  PoolInv'
<1> DEFINE its == holds[on[t]]
<1>1. /\ doing[t] = "locking" /\ lock[on[t]] = Nobody
      /\ UNCHANGED << idle, pool, worker, running, heap, holds, object, on >>
  BY DEF EvalLocks
<1>2. /\ on[t] \in Checkouts /\ its \in Workers \cup {Nobody}
      /\ t \in Commands /\ t \notin {"reclaim", "shutdown", Nobody}
  BY <1>1, PoolAssumption DEF PoolInv, TypeOK, ThreadsPlaced, Commands
<1>3. CASE its = Nobody
  <2>1. doing' = [doing EXCEPT ![t] = "attaching"] /\ UNCHANGED << queue, lock >>
    BY <1>3 DEF EvalLocks
  <2>2. TypeOK'
    BY <1>1, <2>1 DEF PoolInv, TypeOK
  <2>3. doing'[t] = "attaching"
        /\ \A u \in Threads \ {t} : doing'[u] = doing[u]
    BY <2>1 DEF PoolInv, TypeOK
  <2>4. ThreadsPlaced'
    BY <1>1, <1>2, <2>1, <2>3 DEF PoolInv, ThreadsPlaced
  <2>5. QED
    BY <1>1, <2>1, <2>2, <2>3, <2>4, ThreadMoves DEF workerVars
<1>4. CASE its # Nobody
  <2>1. /\ lock' = [lock EXCEPT ![on[t]] = t]
        /\ queue' = [queue EXCEPT ![its] = Append(queue[its], t)]
        /\ doing' = [doing EXCEPT ![t] = "waiting"]
        /\ its \in Workers
    BY <1>2, <1>4 DEF EvalLocks
  <2>2. \A v \in Workers : t \notin ToSet(queue[v]) /\ running[v] # t
    BY <1>1 DEF PoolInv, ScriptsAwaited
  <2>3. Sends({its}, t)
    BY <2>1 DEF Sends, PoolInv, TypeOK
  <2>4. /\ queue' \in [Workers -> Seq(Commands)]
        /\ \A v \in Workers : ToSet(queue'[v]) =
             IF v \in {its} THEN ToSet(queue[v]) \cup {t} ELSE ToSet(queue[v])
        /\ QueuedOnce' /\ ReclaimFirst'
    <3>1. {its} \in SUBSET Workers
      BY <2>1
    <3>2. \A w \in {its} :
            /\ t \in Threads => t \notin ToSet(queue[w])
            /\ t = "reclaim" => ToSet(queue[w]) \cap Threads = {}
      BY <1>2, <2>1, <2>2
    <3>3. QED
      BY <1>2, <2>3, <3>1, <3>2, SendsInOrder
  <2>5. \A v \in Workers :
          /\ "reclaim" \in ToSet(queue'[v]) <=> "reclaim" \in ToSet(queue[v])
          /\ "shutdown" \in ToSet(queue'[v]) <=> "shutdown" \in ToSet(queue[v])
          /\ \A u \in Threads \ {t} : u \in ToSet(queue'[v]) <=> u \in ToSet(queue[v])
          /\ t \in ToSet(queue'[v]) <=> v = its
    BY <1>2, <2>2, <2>4
  <2>6. doing'[t] = "waiting" /\ \A u \in Threads \ {t} : doing'[u] = doing[u]
    BY <2>1 DEF PoolInv, TypeOK
  <2>7. lock'[on[t]] = t /\ \A h \in Checkouts \ {on[t]} : lock'[h] = lock[h]
    BY <1>2, <2>1 DEF PoolInv, TypeOK
  <2>8. TypeOK'
    BY <1>1, <1>2, <2>1, <2>4 DEF PoolInv, TypeOK, Commands
  <2>9. ThreadsPlaced'
    <3> SUFFICES ASSUME NEW u \in Threads \ {t}, doing[u] \in {"waiting", "raising"}
                 PROVE  lock'[on[u]] = u
      BY <1>1, <1>2, <2>6, <2>7 DEF PoolInv, ThreadsPlaced
    <3>1. on[u] \in Checkouts /\ lock[on[u]] = u /\ u # Nobody
      BY PoolAssumption DEF PoolInv, ThreadsPlaced
    <3>2. QED
      BY <1>1, <2>7, <3>1
  <2>10. WaiterIsServed'
    <3> SUFFICES ASSUME NEW u \in Threads, doing'[u] = "waiting"
                 PROVE  /\ lock'[on'[u]] = u
                        /\ \E v \in Workers :
                             /\ holds'[on'[u]] = v
                             /\ running'[v] = u \/ u \in ToSet(queue'[v])
      BY DEF WaiterIsServed
    <3>1. CASE u = t
      BY <1>1, <2>1, <2>5, <2>7, <3>1
    <3>2. CASE u # t
      <4>1. lock'[on[u]] = u
        BY <1>1, <2>9 DEF ThreadsPlaced
      <4>2. PICK v \in Workers :
              /\ holds[on[u]] = v
              /\ running[v] = u \/ u \in ToSet(queue[v])
        BY <2>6, <3>2 DEF PoolInv, WaiterIsServed
      <4>3. QED
        BY <1>1, <2>5, <3>2, <4>1, <4>2
    <3>3. QED
      BY <3>1, <3>2
  <2>11. ScriptsAwaited'
    <3> SUFFICES ASSUME NEW v \in Workers, NEW u \in Threads
                 PROVE  /\ u \in ToSet(queue'[v]) \/ running[v] = u =>
                             doing'[u] = "waiting" /\ holds[on[u]] = v
                        /\ running[v] = u => u \notin ToSet(queue'[v])
      BY <1>1 DEF ScriptsAwaited
    <3>1. CASE u = t
      BY <2>2, <2>5, <2>6, <3>1
    <3>2. CASE u # t
      BY <2>5, <2>6, <3>2 DEF PoolInv, ScriptsAwaited
    <3>3. QED
      BY <3>1, <3>2
  <2>12. OneUserPerIsolate' /\ UsableWorkersLive' /\ ToldAreUnused'
    BY <1>1, <2>5 DEF PoolInv, OneUserPerIsolate, UsableWorkersLive,
                      ToldAreUnused, Held, SenderAlive, PoolInnerAlive
  <2>13. UsersSpawned'
    <3>1. its \in Spawned
      BY <1>2, <2>1 DEF PoolInv, UsersSpawned, Held
    <3>2. \A v \in Workers \ Spawned : queue'[v] = queue[v]
      BY <2>1, <3>1 DEF PoolInv, TypeOK
    <3>3. QED
      BY <1>1, <3>2 DEF PoolInv, UsersSpawned, Spawned, Held
  <2>14. RunsWhileEvaluating' /\ HeapBelongsToCheckout' /\ OnlyLiveHold'
    BY <1>1 DEF PoolInv, RunsWhileEvaluating, HeapBelongsToCheckout, OnlyLiveHold
  <2>15. HeapsClean'
    BY <1>1, <2>5 DEF PoolInv, HeapsClean
  <2>16. QED
    BY <2>4, <2>8, <2>9, <2>10, <2>11, <2>12, <2>13, <2>14, <2>15 DEF PoolInv
<1>5. QED
  BY <1>3, <1>4

-----------------------------------------------------------------------------
(* An isolate comes back.                                                  *)

\* Nobody waits on the checkout that is released: its mutex is free, or it has
\* no user left.
LEMMA ReturnKeeps ==
  ASSUME PoolInv, ThreadsPlaced', OnlyLiveHold',
         NEW h \in Checkouts, Return(h),
         object' \in [Checkouts -> {"none", "live", "gone"}],
         doing' \in [Threads -> {"nothing", "locking", "waiting", "raising",
                                "attaching", "releasing"}],
         on' \in [Threads -> Checkouts \cup {Nobody}],
         \A t \in Threads : doing[t] = "waiting" => on[t] # h,
         \A t \in Threads : doing[t] = "waiting" \/ doing'[t] = "waiting" =>
           doing'[t] = doing[t] /\ on'[t] = on[t],
         UNCHANGED << pool, worker, running, heap, lock >>
  PROVE  PoolInv'
<1> DEFINE its == holds[h]
<1>1. /\ holds \in [Checkouts -> Workers \cup {Nobody}]
      /\ its \in Workers \cup {Nobody}
      /\ holds' = [holds EXCEPT ![h] = Nobody]
  BY DEF PoolInv, TypeOK, Return
<1>2. CASE its = Nobody
  <2>1. holds' = holds /\ UNCHANGED << idle, queue >>
    BY <1>1, <1>2 DEF Return
  <2>2. TypeOK'
    BY <2>1 DEF PoolInv, TypeOK
  <2>3. QED
    BY <2>1, <2>2, WaitersStay
<1>3. CASE its # Nobody
  <2>1. its \in Workers /\ its \in Held /\ its # Nobody
    BY <1>1, <1>3 DEF Held
  <2>2. /\ \A v \in Workers : v \in Held' <=> v \in Held /\ v # its
        /\ \A g \in Checkouts : IF g = h THEN holds'[g] = Nobody
                                         ELSE holds'[g] = holds[g] /\ holds[g] # its
    <3>1. /\ holds'[h] = Nobody
          /\ \A g \in Checkouts \ {h} : holds'[g] = holds[g]
      BY <1>1
    <3>2. \A g \in Checkouts \ {h} : holds[g] # its
      BY <2>1 DEF PoolInv, OneUserPerIsolate
    <3>3. \A v \in Workers : v # Nobody
      BY PoolAssumption
    <3>4. \A v \in Workers : v \in Held' => v \in Held /\ v # its
      BY <3>1, <3>2, <3>3 DEF Held
    <3>5. \A v \in Workers : v \in Held /\ v # its => v \in Held'
      BY <3>1 DEF Held
    <3>6. QED
      BY <3>1, <3>2, <3>4, <3>5
  <2>3. /\ \A t \in Threads : t \notin ToSet(queue[its]) /\ running[its] # t
        /\ its \notin ToSet(idle) /\ its \in Spawned
    <3>1. \A t \in Threads : t \in ToSet(queue[its]) \/ running[its] = t => on[t] = h
      <4> SUFFICES ASSUME NEW t \in Threads,
                          t \in ToSet(queue[its]) \/ running[its] = t
                   PROVE  on[t] = h
        OBVIOUS
      <4>1. doing[t] = "waiting" /\ holds[on[t]] = its
        BY <2>1 DEF PoolInv, ScriptsAwaited
      <4>2. on[t] \in Checkouts
        BY <4>1 DEF PoolInv, ThreadsPlaced
      <4>3. QED
        BY <2>1, <4>1, <4>2 DEF PoolInv, OneUserPerIsolate
    <3>2. \A t \in Threads : t \in ToSet(queue[its]) \/ running[its] = t =>
            doing[t] = "waiting"
      BY <2>1 DEF PoolInv, ScriptsAwaited
    <3>3. QED
      BY <2>1, <3>1, <3>2 DEF PoolInv, OneUserPerIsolate, UsersSpawned
  <2>4. PICK c \in {"reclaim", "shutdown"} :
          /\ queue' = [queue EXCEPT ![its] = Append(queue[its], c)]
          /\ c = "reclaim" => Len(idle) < Size /\ idle' = Append(idle, its)
          /\ c = "shutdown" => idle' = idle
    BY <1>3 DEF Return
  <2>5. c \in Commands /\ c \notin Threads
    BY <2>4, PoolAssumption DEF Commands
  <2>6. /\ queue' \in [Workers -> Seq(Commands)]
        /\ \A v \in Workers : ToSet(queue'[v]) =
             IF v \in {its} THEN ToSet(queue[v]) \cup {c} ELSE ToSet(queue[v])
        /\ QueuedOnce' /\ ReclaimFirst'
    <3>1. Sends({its}, c)
      BY <2>1, <2>4 DEF Sends, PoolInv, TypeOK
    <3>2. \A w \in {its} :
            /\ c \in Threads => c \notin ToSet(queue[w])
            /\ c = "reclaim" => ToSet(queue[w]) \cap Threads = {}
      BY <2>3, <2>5
    <3>3. {its} \in SUBSET Workers
      BY <2>1
    <3>4. QED
      BY <2>5, <3>1, <3>2, <3>3, SendsInOrder
  <2>7. \A v \in Workers :
          /\ v # its => ToSet(queue'[v]) = ToSet(queue[v])
          /\ c \in ToSet(queue'[its])
          /\ \A t \in Threads : t \in ToSet(queue'[v]) <=> t \in ToSet(queue[v])
          /\ "reclaim" \in ToSet(queue[v]) => "reclaim" \in ToSet(queue'[v])
          /\ c = "reclaim" => ("shutdown" \in ToSet(queue'[v]) <=> "shutdown" \in ToSet(queue[v]))
    BY <2>1, <2>5, <2>6
  <2>8. /\ idle' \in Seq(Workers) /\ IsInjective(idle') /\ Len(idle') <= Size
        /\ \A v \in Workers : v \in ToSet(idle') <=>
             v \in ToSet(idle) \/ (v = its /\ c = "reclaim")
        /\ ToSet(idle') \subseteq Workers
    <3>1. idle \in Seq(Workers) /\ IsInjective(idle) /\ Len(idle) <= Size
      BY DEF PoolInv, TypeOK, OneUserPerIsolate, UsableWorkersLive
    <3>2. ToSet(idle) \subseteq Workers
      BY <3>1, LenProperties DEF ToSet
    <3>3. CASE c = "shutdown"
      BY <2>4, <3>1, <3>2, <3>3
    <3>4. CASE c = "reclaim"
      <4>1. idle' = Append(idle, its) /\ Len(idle) < Size
        BY <2>4, <3>4
      <4>2. /\ idle' \in Seq(Workers) /\ ToSet(idle') = ToSet(idle) \cup {its}
            /\ Len(idle') = Len(idle) + 1 /\ Len(idle) \in Nat
        BY <2>1, <3>1, <4>1, Appended
      <4>3. IsInjective(idle')
        BY <2>1, <2>3, <3>1, <4>1, AppendedOnce
      <4>4. QED
        BY <2>1, <3>1, <3>2, <3>4, <4>1, <4>2, <4>3, PoolAssumption
    <3>5. QED
      BY <2>4, <3>3, <3>4
  <2>9. TypeOK'
    BY <1>1, <2>6, <2>8 DEF PoolInv, TypeOK, Commands
  <2>10. OneUserPerIsolate'
    <3>1. ToSet(idle') \cap Held' = {}
      BY <2>2, <2>8 DEF PoolInv, OneUserPerIsolate
    <3>2. QED
      BY <2>2, <2>8, <3>1 DEF PoolInv, OneUserPerIsolate
  <2>11. UsableWorkersLive'
    <3> SUFFICES ASSUME NEW v \in Workers, SenderAlive(v)'
                 PROVE  /\ worker[v] \in {"receiving", "evaluating"}
                        /\ "shutdown" \notin ToSet(queue'[v])
      BY <2>8 DEF UsableWorkersLive
    <3>1. PoolInnerAlive' => PoolInnerAlive
      BY <2>2 DEF PoolInnerAlive, Held
    <3>2. SenderAlive(v) /\ (v = its => c = "reclaim")
      BY <2>1, <2>2, <2>3, <2>4, <2>8, <3>1 DEF SenderAlive
    <3>3. QED
      BY <2>4, <2>7, <3>2 DEF PoolInv, UsableWorkersLive
  <2>12. ToldAreUnused'
    BY <2>1, <2>2, <2>3, <2>4, <2>7, <2>8 DEF PoolInv, ToldAreUnused
  <2>13. UsersSpawned'
    <3>1. \A v \in Workers \ Spawned : queue'[v] = queue[v]
      BY <2>3, <2>4 DEF PoolInv, TypeOK
    <3>2. Spawned' = Spawned /\ Held' \subseteq Held
      BY <2>2 DEF Spawned, Held
    <3>3. ToSet(idle') \subseteq Spawned
      BY <2>3, <2>8 DEF PoolInv, UsersSpawned
    <3>4. QED
      BY <3>1, <3>2, <3>3 DEF PoolInv, UsersSpawned
  <2>14. ScriptsAwaited'
    <3> SUFFICES ASSUME NEW v \in Workers, NEW t \in Threads
                 PROVE  /\ t \in ToSet(queue'[v]) \/ running[v] = t =>
                             doing'[t] = "waiting" /\ holds'[on'[t]] = v
                        /\ running[v] = t => t \notin ToSet(queue'[v])
      BY DEF ScriptsAwaited
    <3>1. doing[t] = "waiting" =>
            /\ on[t] \in Checkouts /\ holds'[on'[t]] = holds[on[t]]
            /\ doing'[t] = "waiting"
      BY <2>2 DEF PoolInv, ThreadsPlaced
    <3>2. QED
      BY <2>7, <3>1 DEF PoolInv, ScriptsAwaited
  <2>15. WaiterIsServed'
    <3> SUFFICES ASSUME NEW t \in Threads, doing'[t] = "waiting"
                 PROVE  /\ lock[on'[t]] = t
                        /\ \E v \in Workers :
                             /\ holds'[on'[t]] = v
                             /\ running[v] = t \/ t \in ToSet(queue'[v])
      BY DEF WaiterIsServed
    <3>1. /\ doing[t] = "waiting" /\ on'[t] = on[t] /\ on[t] \in Checkouts
          /\ holds'[on'[t]] = holds[on[t]]
      BY <2>2 DEF PoolInv, ThreadsPlaced
    <3>2. QED
      BY <2>7, <3>1 DEF PoolInv, WaiterIsServed
  <2>16. RunsWhileEvaluating' /\ HeapBelongsToCheckout'
    <3>1. \A v \in Workers : worker[v] = "evaluating" => running[v] \in Threads
      BY DEF PoolInv, RunsWhileEvaluating, TypeOK
    <3>2. \A v \in Workers : worker[v] = "evaluating" => on'[running[v]] = on[running[v]]
      BY <3>1 DEF PoolInv, ScriptsAwaited
    <3>3. QED
      BY <3>2 DEF PoolInv, RunsWhileEvaluating, HeapBelongsToCheckout
  <2>17. HeapsClean'
    <3> SUFFICES ASSUME NEW v \in Workers, "reclaim" \notin ToSet(queue'[v])
                 PROVE  /\ \A g \in Checkouts : holds'[g] = v => heap[v] \subseteq {g}
                        /\ v \in ToSet(idle') => heap[v] = {}
      BY DEF HeapsClean
    <3>1. "reclaim" \notin ToSet(queue[v]) /\ v # Nobody
      BY <2>7, PoolAssumption
    <3>2. v \in ToSet(idle') => v \in ToSet(idle)
      BY <2>7, <2>8
    <3>3. \A g \in Checkouts : holds'[g] = v => holds[g] = v
      BY <2>2, <3>1
    <3>4. QED
      BY <3>1, <3>2, <3>3 DEF PoolInv, HeapsClean
  <2>18. QED
    BY <2>6, <2>9, <2>10, <2>11, <2>12, <2>13, <2>14, <2>15, <2>16, <2>17 DEF PoolInv
<1>4. QED
  BY <1>2, <1>3

LEMMA ReleaseReturnsStep ==
  ASSUME PoolInv, NEW t \in Threads, ReleaseReturns(t)
  PROVE  PoolInv'
<1>1. /\ doing[t] = "releasing" /\ lock[on[t]] = Nobody /\ Return(on[t])
      /\ doing' = [doing EXCEPT ![t] = "nothing"]
      /\ on' = [on EXCEPT ![t] = Nobody]
      /\ UNCHANGED << pool, worker, running, heap, object, lock >>
  BY DEF ReleaseReturns
<1>2. on[t] \in Checkouts
  BY <1>1 DEF PoolInv, ThreadsPlaced
<1>3. /\ doing'[t] = "nothing"
      /\ \A u \in Threads \ {t} : doing'[u] = doing[u] /\ on'[u] = on[u]
  BY <1>1 DEF PoolInv, TypeOK
<1>4. \A u \in Threads : doing[u] = "waiting" => on[u] # on[t]
  BY <1>1, PoolAssumption DEF PoolInv, ThreadsPlaced
<1>5. ThreadsPlaced'
  BY <1>1, <1>3 DEF PoolInv, ThreadsPlaced
<1>6. OnlyLiveHold'
  <2>1. holds' = [holds EXCEPT ![on[t]] = Nobody]
    BY <1>1 DEF Return
  <2>2. QED
    BY <1>1, <1>2, <2>1 DEF PoolInv, TypeOK, OnlyLiveHold
<1>7. /\ object' \in [Checkouts -> {"none", "live", "gone"}]
      /\ doing' \in [Threads -> {"nothing", "locking", "waiting", "raising",
                                "attaching", "releasing"}]
      /\ on' \in [Threads -> Checkouts \cup {Nobody}]
  BY <1>1 DEF PoolInv, TypeOK
<1>8. QED
  BY <1>1, <1>2, <1>3, <1>4, <1>5, <1>6, <1>7, ReturnKeeps

LEMMA DropCheckoutStep ==
  ASSUME PoolInv, NEW h \in Checkouts, DropCheckout(h)
  PROVE  PoolInv'
<1>1. /\ \A t \in Threads : on[t] # h
      /\ object' = [object EXCEPT ![h] = "gone"] /\ Return(h)
      /\ UNCHANGED << pool, worker, running, heap, lock, doing, on >>
  BY DEF DropCheckout, pythonVars
<1>2. ThreadsPlaced'
  BY <1>1 DEF PoolInv, ThreadsPlaced
<1>3. OnlyLiveHold'
  <2>1. holds' = [holds EXCEPT ![h] = Nobody]
    BY <1>1 DEF Return
  <2>2. QED
    BY <1>1, <2>1 DEF PoolInv, TypeOK, OnlyLiveHold
<1>4. /\ object' \in [Checkouts -> {"none", "live", "gone"}]
      /\ doing' \in [Threads -> {"nothing", "locking", "waiting", "raising",
                                "attaching", "releasing"}]
      /\ on' \in [Threads -> Checkouts \cup {Nobody}]
  BY <1>1 DEF PoolInv, TypeOK
<1>5. QED
  BY <1>1, <1>2, <1>3, <1>4, ReturnKeeps

-----------------------------------------------------------------------------
(* The pool.                                                               *)

\* The isolate handed out had no user, runs nothing, and is clean once its
\* queue is.
LEMMA CheckoutStep ==
  ASSUME PoolInv, NEW h \in Checkouts, Checkout(h)
  PROVE  PoolInv'
<1>1. /\ pool # "dropped" /\ object[h] = "none"
      /\ object' = [object EXCEPT ![h] = "live"]
      /\ UNCHANGED << pool, queue, running, heap, lock, doing, on >>
  BY DEF Checkout, pythonVars
<1>2. holds[h] = Nobody
  BY <1>1 DEF PoolInv, OnlyLiveHold
<1>3. PICK x \in Workers :
        /\ holds' = [holds EXCEPT ![h] = x] /\ x \notin Held
        /\ \/ /\ idle # << >> /\ x = Head(idle) /\ idle' = Tail(idle)
              /\ worker' = worker
           \/ /\ x \notin Spawned /\ idle' = idle
              /\ worker' = [worker EXCEPT ![x] = "receiving"]
  <2>1. CASE idle # << >>
    <3>1. Head(idle) \in Workers /\ Head(idle) \in ToSet(idle)
      BY <2>1, Taken DEF PoolInv, TypeOK
    <3>2. Head(idle) \notin Held
      BY <3>1 DEF PoolInv, OneUserPerIsolate
    <3>3. QED
      BY <2>1, <3>1, <3>2 DEF Checkout
  <2>2. CASE idle = << >>
    BY <2>2 DEF Checkout, PoolInv, UsersSpawned
  <2>3. QED
    BY <2>1, <2>2
<1>4. /\ idle' \in Seq(Workers) /\ IsInjective(idle') /\ Len(idle') <= Size
      /\ ToSet(idle') \subseteq ToSet(idle) /\ x \notin ToSet(idle')
  <2>1. idle \in Seq(Workers) /\ IsInjective(idle) /\ Len(idle) <= Size
    BY DEF PoolInv, TypeOK, OneUserPerIsolate, UsableWorkersLive
  <2>2. CASE x = Head(idle) /\ idle' = Tail(idle) /\ idle # << >>
    <3>1. /\ idle' \in Seq(Workers) /\ ToSet(idle) = {x} \cup ToSet(idle')
          /\ Len(idle') = Len(idle) - 1 /\ Len(idle) \in Nat
      BY <2>1, <2>2, Taken
    <3>2. IsInjective(idle') /\ x \notin ToSet(idle')
      BY <2>1, <2>2, TakenOnce
    <3>3. QED
      BY <2>1, <3>1, <3>2, PoolAssumption
  <2>3. CASE x \notin Spawned /\ idle' = idle
    BY <2>1, <2>3 DEF PoolInv, UsersSpawned
  <2>4. QED
    BY <1>3, <2>2, <2>3
<1>5. /\ holds'[h] = x
      /\ \A g \in Checkouts \ {h} : holds'[g] = holds[g] /\ holds[g] # x
      /\ x # Nobody
  BY <1>3, PoolAssumption DEF PoolInv, TypeOK, Held
<1>6. \A v \in Workers : v \in Held' <=> v \in Held \/ v = x
  <2>1. \A v \in Workers : v # Nobody
    BY PoolAssumption
  <2>2. QED
    BY <1>2, <1>5, <2>1 DEF Held
<1>7. \A v \in Workers : v # x => worker'[v] = worker[v]
  BY <1>3 DEF PoolInv, TypeOK
<1>8. /\ worker'[x] = worker[x] \/ (worker[x] = "unspawned" /\ worker'[x] = "receiving")
      /\ worker'[x] \in {"receiving", "evaluating"}
      /\ "shutdown" \notin ToSet(queue[x])
      /\ "reclaim" \notin ToSet(queue[x]) => heap[x] = {}
  <2>1. CASE x \in ToSet(idle) /\ worker' = worker
    <3>1. SenderAlive(x)
      BY <1>1, <2>1 DEF SenderAlive, PoolInnerAlive
    <3>2. QED
      BY <2>1, <3>1 DEF PoolInv, UsableWorkersLive, HeapsClean
  <2>2. CASE x \notin Spawned /\ worker' = [worker EXCEPT ![x] = "receiving"]
    <3>1. ToSet(queue[x]) = {}
      <4>1. queue[x] = << >>
        BY <2>2 DEF PoolInv, UsersSpawned
      <4>2. QED
        BY <4>1 DEF ToSet
    <3>2. worker[x] = "unspawned" /\ heap[x] = {}
      BY <2>2 DEF PoolInv, UsersSpawned, Spawned
    <3>3. QED
      BY <2>2, <3>1, <3>2 DEF PoolInv, TypeOK
  <2>3. idle # << >> => Head(idle) \in ToSet(idle)
    BY Taken DEF PoolInv, TypeOK
  <2>4. QED
    BY <1>3, <2>1, <2>2, <2>3
<1>9. \A t \in Threads : doing[t] = "waiting" =>
        on[t] \in Checkouts /\ on[t] # h /\ holds'[on[t]] = holds[on[t]]
  <2>1. \A t \in Threads : doing[t] = "waiting" =>
          on[t] \in Checkouts /\ holds[on[t]] \in Workers
    BY DEF PoolInv, WaiterIsServed, ThreadsPlaced
  <2>2. QED
    BY <1>2, <1>5, <2>1, PoolAssumption
<1>10. TypeOK'
  BY <1>1, <1>3, <1>4 DEF PoolInv, TypeOK
<1>11. OneUserPerIsolate'
  <2>1. ToSet(idle') \cap Held' = {}
    BY <1>4, <1>6 DEF PoolInv, OneUserPerIsolate, Held
  <2>2. \A f, g \in Checkouts : holds'[f] = holds'[g] /\ holds'[f] # Nobody => f = g
    BY <1>5 DEF PoolInv, OneUserPerIsolate
  <2>3. QED
    BY <1>4, <2>1, <2>2 DEF OneUserPerIsolate
<1>12. UsableWorkersLive'
  <2> SUFFICES ASSUME NEW v \in Workers, v # x, SenderAlive(v)'
               PROVE  /\ worker'[v] \in {"receiving", "evaluating"}
                      /\ "shutdown" \notin ToSet(queue[v])
    BY <1>1, <1>4, <1>8 DEF UsableWorkersLive
  <2>1. SenderAlive(v)
    BY <1>1, <1>4, <1>6 DEF SenderAlive, PoolInnerAlive
  <2>2. QED
    BY <1>7, <2>1 DEF PoolInv, UsableWorkersLive
<1>13. ToldAreUnused'
  BY <1>1, <1>4, <1>6, <1>8 DEF PoolInv, ToldAreUnused
<1>14. UsersSpawned'
  <2>1. \A v \in Workers : v \in Spawned' <=> v \in Spawned \/ v = x
    BY <1>7, <1>8 DEF Spawned
  <2>2. Held' \subseteq Workers /\ Spawned' \subseteq Workers /\ ToSet(idle) \subseteq Spawned
    BY DEF Held, Spawned, PoolInv, UsersSpawned
  <2>3. ToSet(idle') \cup Held' \subseteq Spawned'
    BY <1>4, <1>6, <2>1, <2>2 DEF PoolInv, UsersSpawned, Spawned
  <2>4. QED
    BY <1>1, <2>1, <2>3 DEF PoolInv, UsersSpawned
<1>15. ThreadsPlaced' /\ QueuedOnce' /\ ReclaimFirst'
  BY <1>1 DEF PoolInv, ThreadsPlaced, QueuedOnce, ReclaimFirst
<1>16. RunsWhileEvaluating'
  BY <1>1, <1>7, <1>8 DEF PoolInv, RunsWhileEvaluating
<1>17. ScriptsAwaited'
  BY <1>1, <1>9 DEF PoolInv, ScriptsAwaited
<1>18. WaiterIsServed'
  <2> SUFFICES ASSUME NEW t \in Threads, doing[t] = "waiting"
               PROVE  /\ lock'[on'[t]] = t
                      /\ \E v \in Workers :
                           /\ holds'[on'[t]] = v
                           /\ running'[v] = t \/ t \in ToSet(queue'[v])
    BY <1>1 DEF WaiterIsServed
  <2>1. PICK v \in Workers :
          /\ lock[on[t]] = t /\ holds[on[t]] = v
          /\ running[v] = t \/ t \in ToSet(queue[v])
    BY DEF PoolInv, WaiterIsServed
  <2>2. QED
    BY <1>1, <1>9, <2>1
<1>19. HeapBelongsToCheckout'
  BY <1>1, <1>7, <1>8 DEF PoolInv, HeapBelongsToCheckout
<1>20. HeapsClean'
  <2> SUFFICES ASSUME NEW v \in Workers, "reclaim" \notin ToSet(queue[v])
               PROVE  /\ \A g \in Checkouts : holds'[g] = v => heap[v] \subseteq {g}
                      /\ v \in ToSet(idle') => heap[v] = {}
    BY <1>1 DEF HeapsClean
  <2>1. CASE v = x
    BY <1>4, <1>8, <2>1
  <2>2. CASE v # x
    BY <1>4, <1>5, <2>2 DEF PoolInv, HeapsClean
  <2>3. QED
    BY <2>1, <2>2
<1>21. OnlyLiveHold'
  BY <1>1, <1>5 DEF PoolInv, TypeOK, OnlyLiveHold
<1>22. QED
  BY <1>10, <1>11, <1>12, <1>13, <1>14, <1>15, <1>16, <1>17, <1>18, <1>19,
     <1>20, <1>21 DEF PoolInv

\* The isolates that are stopped are in no checkout.
LEMMA DrainStep ==
  ASSUME PoolInv, NEW p \in {"closed", "dropped"}, Drain(p)
  PROVE  PoolInv'
<1>1. /\ pool # "dropped" /\ pool' = p /\ idle' = << >>
      /\ queue' = [v \in Workers |-> IF v \in ToSet(idle)
                                       THEN Append(queue[v], "shutdown") ELSE queue[v]]
      /\ UNCHANGED << worker, running, heap, holds, object, lock, doing, on >>
  BY DEF Drain, checkoutVars, pythonVars
<1>2. ToSet(idle) \subseteq Workers
  BY LenProperties DEF PoolInv, TypeOK, ToSet
<1>3. /\ queue' \in [Workers -> Seq(Commands)]
      /\ \A v \in Workers : ToSet(queue'[v]) =
           IF v \in ToSet(idle) THEN ToSet(queue[v]) \cup {"shutdown"} ELSE ToSet(queue[v])
      /\ QueuedOnce' /\ ReclaimFirst'
  <2>1. "shutdown" \in Commands /\ "shutdown" \notin Threads
    BY PoolAssumption DEF Commands
  <2>2. Sends(ToSet(idle), "shutdown")
    BY <1>1 DEF Sends
  <2>3. \A w \in ToSet(idle) :
          /\ "shutdown" \in Threads => "shutdown" \notin ToSet(queue[w])
          /\ "shutdown" = "reclaim" => ToSet(queue[w]) \cap Threads = {}
    BY <2>1
  <2>4. QED
    BY <1>2, <2>1, <2>2, <2>3, SendsInOrder
<1>4. \A v \in Workers :
        /\ \A c \in Threads \cup {"reclaim"} : c \in ToSet(queue'[v]) <=> c \in ToSet(queue[v])
        /\ "shutdown" \in ToSet(queue'[v]) =>
             "shutdown" \in ToSet(queue[v]) \/ v \in ToSet(idle)
        /\ v \notin ToSet(idle) => queue'[v] = queue[v]
  BY <1>1, <1>3, PoolAssumption
<1>5. ToSet(idle') = {} /\ Len(idle') = 0 /\ idle' \in Seq(Workers) /\ IsInjective(idle')
  BY <1>1 DEF ToSet, IsInjective
<1>6. Held' = Held
  BY <1>1 DEF Held
<1>7. TypeOK'
  BY <1>1, <1>3, <1>5 DEF PoolInv, TypeOK, Commands
<1>8. OneUserPerIsolate'
  BY <1>1, <1>5 DEF PoolInv, OneUserPerIsolate
<1>9. UsableWorkersLive'
  <2> SUFFICES ASSUME NEW v \in Workers, SenderAlive(v)'
               PROVE  /\ worker'[v] \in {"receiving", "evaluating"}
                      /\ "shutdown" \notin ToSet(queue'[v])
    BY <1>5, PoolAssumption DEF UsableWorkersLive
  <2>1. v \in Held /\ v \notin ToSet(idle)
    BY <1>5, <1>6 DEF SenderAlive, PoolInv, OneUserPerIsolate
  <2>2. SenderAlive(v)
    BY <2>1 DEF SenderAlive
  <2>3. QED
    BY <1>1, <1>4, <2>1, <2>2 DEF PoolInv, UsableWorkersLive
<1>10. ToldAreUnused'
  BY <1>4, <1>5, <1>6 DEF PoolInv, ToldAreUnused, OneUserPerIsolate
<1>11. UsersSpawned'
  <2>1. Spawned' = Spawned
    BY <1>1 DEF Spawned
  <2>2. QED
    BY <1>1, <1>4, <1>5, <1>6, <2>1 DEF PoolInv, UsersSpawned
<1>12. ThreadsPlaced' /\ RunsWhileEvaluating' /\ HeapBelongsToCheckout' /\ OnlyLiveHold'
  BY <1>1 DEF PoolInv, ThreadsPlaced, RunsWhileEvaluating, HeapBelongsToCheckout,
              OnlyLiveHold
<1>13. ScriptsAwaited'
  BY <1>1, <1>4 DEF PoolInv, ScriptsAwaited
<1>14. WaiterIsServed'
  <2> SUFFICES ASSUME NEW t \in Threads, doing[t] = "waiting"
               PROVE  /\ lock'[on'[t]] = t
                      /\ \E v \in Workers :
                           /\ holds'[on'[t]] = v
                           /\ running'[v] = t \/ t \in ToSet(queue'[v])
    BY <1>1 DEF WaiterIsServed
  <2>1. PICK v \in Workers :
          /\ lock[on[t]] = t /\ holds[on[t]] = v
          /\ running[v] = t \/ t \in ToSet(queue[v])
    BY DEF PoolInv, WaiterIsServed
  <2>2. QED
    BY <1>1, <1>4, <2>1
<1>15. HeapsClean'
  BY <1>1, <1>4, <1>5 DEF PoolInv, HeapsClean
<1>16. QED
  BY <1>3, <1>7, <1>8, <1>9, <1>10, <1>11, <1>12, <1>13, <1>14, <1>15 DEF PoolInv

-----------------------------------------------------------------------------
(* The worker threads.                                                     *)

\* The queue of an isolate's worker gets shorter, and the isolate's user, if it
\* has one, keeps a live worker.
LEMMA WorkersStayUsable ==
  ASSUME PoolInv, NEW w \in Workers,
         UNCHANGED << idle, pool, holds, object >>,
         queue' \in [Workers -> Seq(Commands)],
         \A v \in Workers \ {w} : queue'[v] = queue[v] /\ worker'[v] = worker[v],
         ToSet(queue'[w]) \subseteq ToSet(queue[w]),
         worker[w] # "unspawned", worker'[w] # "unspawned",
         SenderAlive(w) => worker'[w] \in {"receiving", "evaluating"},
         \A v \in Workers \ {w} : heap'[v] = heap[v]
  PROVE  /\ OneUserPerIsolate' /\ UsableWorkersLive' /\ ToldAreUnused'
         /\ UsersSpawned' /\ OnlyLiveHold'
<1>1. Held' = Held /\ Spawned' = Spawned
  BY DEF Held, Spawned
<1>2. OneUserPerIsolate' /\ OnlyLiveHold'
  BY <1>1 DEF PoolInv, OneUserPerIsolate, OnlyLiveHold
<1>3. \A v \in Workers : SenderAlive(v)' <=> SenderAlive(v)
  BY <1>1 DEF SenderAlive, PoolInnerAlive
<1>4. \A v \in Workers : "shutdown" \in ToSet(queue'[v]) => "shutdown" \in ToSet(queue[v])
  OBVIOUS
<1>5. UsableWorkersLive'
  <2> SUFFICES ASSUME NEW v \in Workers, SenderAlive(v)'
               PROVE  /\ worker'[v] \in {"receiving", "evaluating"}
                      /\ "shutdown" \notin ToSet(queue'[v])
    BY DEF UsableWorkersLive, PoolInv
  <2>1. /\ worker[v] \in {"receiving", "evaluating"}
        /\ "shutdown" \notin ToSet(queue[v])
    BY <1>3 DEF PoolInv, UsableWorkersLive
  <2>2. QED
    BY <1>3, <1>4, <2>1
<1>6. ToldAreUnused'
  BY <1>1, <1>4 DEF PoolInv, ToldAreUnused
<1>7. UsersSpawned'
  <2>1. w \in Spawned
    BY DEF Spawned
  <2>2. QED
    BY <1>1, <2>1 DEF PoolInv, UsersSpawned
<1>8. QED
  BY <1>2, <1>5, <1>6, <1>7

LEMMA WorkerReclaimsStep ==
  ASSUME PoolInv, NEW w \in Workers, WorkerReclaims(w)
  PROVE  PoolInv'
<1>1. /\ Takes(w, "reclaim") /\ worker[w] = "receiving"
      /\ heap' = [heap EXCEPT ![w] = {}]
      /\ UNCHANGED << idle, pool, worker, running, holds, object, lock, doing, on >>
  BY DEF WorkerReclaims, Takes, checkoutVars, pythonVars
<1>2. /\ queue' \in [Workers -> Seq(Commands)]
      /\ \A v \in Workers \ {w} : queue'[v] = queue[v]
      /\ ToSet(queue[w]) = {"reclaim"} \cup ToSet(queue'[w])
      /\ QueuedOnce' /\ ReclaimFirst'
  BY <1>1, TakesInOrder
<1>3. /\ \A v \in Workers \ {w} : heap'[v] = heap[v]
      /\ heap'[w] = {}
  BY <1>1 DEF PoolInv, TypeOK
<1>4. \A v \in Workers, t \in Threads : t \in ToSet(queue'[v]) <=> t \in ToSet(queue[v])
  BY <1>2, PoolAssumption
<1>5. /\ OneUserPerIsolate' /\ UsableWorkersLive' /\ ToldAreUnused'
      /\ UsersSpawned' /\ OnlyLiveHold'
  BY <1>1, <1>2, <1>3, WorkersStayUsable
<1>6. TypeOK'
  BY <1>1, <1>2 DEF PoolInv, TypeOK, Commands
<1>7. ThreadsPlaced' /\ RunsWhileEvaluating'
  BY <1>1 DEF PoolInv, ThreadsPlaced, RunsWhileEvaluating
<1>8. HeapBelongsToCheckout'
  BY <1>1, <1>3 DEF PoolInv, HeapBelongsToCheckout
<1>9. ScriptsAwaited'
  BY <1>1, <1>4 DEF PoolInv, ScriptsAwaited
<1>10. WaiterIsServed'
  BY <1>1, <1>4 DEF PoolInv, WaiterIsServed
<1>11. HeapsClean'
  BY <1>1, <1>2, <1>3 DEF PoolInv, HeapsClean
<1>12. QED
  BY <1>2, <1>5, <1>6, <1>7, <1>8, <1>9, <1>10, <1>11 DEF PoolInv

\* It has no user: who would wait for it holds it.
LEMMA WorkerStopsStep ==
  ASSUME PoolInv, NEW w \in Workers, WorkerExits(w) \/ WorkerHangsUp(w)
  PROVE  PoolInv'
<1>1. /\ worker[w] = "receiving" /\ worker' = [worker EXCEPT ![w] = "exited"]
      /\ queue' = [queue EXCEPT ![w] = << >>]
      /\ UNCHANGED << idle, pool, running, heap, holds, object, lock, doing, on >>
  <2>1. CASE WorkerExits(w)
    BY <2>1 DEF WorkerExits, checkoutVars, pythonVars
  <2>2. CASE WorkerHangsUp(w)
    BY <2>2 DEF WorkerHangsUp, checkoutVars, pythonVars, PoolInv, TypeOK
  <2>3. QED
    BY <2>1, <2>2
<1>2. w \notin Held /\ ~SenderAlive(w)
      /\ (w \in ToSet(idle) => "reclaim" \notin ToSet(queue[w]))
  <2>1. CASE WorkerExits(w)
    <3>1. /\ queue[w] \in Seq(Commands) /\ queue[w] # << >>
          /\ Head(queue[w]) = "shutdown"
      BY <2>1 DEF WorkerExits, PoolInv, TypeOK, Commands
    <3>2. "shutdown" \in ToSet(queue[w])
      BY <3>1, Taken
    <3>3. QED
      BY <3>2 DEF PoolInv, ToldAreUnused, SenderAlive
  <2>2. CASE WorkerHangsUp(w)
    BY <2>2 DEF WorkerHangsUp, SenderAlive, ToSet
  <2>3. QED
    BY <2>1, <2>2
<1>3. /\ queue'[w] = << >> /\ DOMAIN queue'[w] = {} /\ ToSet(queue'[w]) = {}
      /\ \A v \in Workers \ {w} : queue'[v] = queue[v] /\ worker'[v] = worker[v]
      /\ worker'[w] = "exited"
      /\ queue' \in [Workers -> Seq(Commands)]
  BY <1>1 DEF PoolInv, TypeOK, ToSet, Commands
<1>4. /\ OneUserPerIsolate' /\ UsableWorkersLive' /\ ToldAreUnused'
      /\ UsersSpawned' /\ OnlyLiveHold'
  BY <1>1, <1>2, <1>3, WorkersStayUsable
<1>5. TypeOK'
  BY <1>1, <1>3 DEF PoolInv, TypeOK, Commands
<1>6. ThreadsPlaced' /\ QueuedOnce' /\ ReclaimFirst'
  BY <1>1, <1>3 DEF PoolInv, ThreadsPlaced, QueuedOnce, ReclaimFirst
<1>7. RunsWhileEvaluating' /\ HeapBelongsToCheckout'
  BY <1>1, <1>3 DEF PoolInv, RunsWhileEvaluating, HeapBelongsToCheckout
<1>8. ScriptsAwaited'
  BY <1>1, <1>3 DEF PoolInv, ScriptsAwaited
<1>9. WaiterIsServed'
  <2> SUFFICES ASSUME NEW t \in Threads, doing[t] = "waiting"
               PROVE  /\ lock'[on'[t]] = t
                      /\ \E v \in Workers :
                           /\ holds'[on'[t]] = v
                           /\ running'[v] = t \/ t \in ToSet(queue'[v])
    BY <1>1 DEF WaiterIsServed
  <2>1. PICK v \in Workers :
          /\ lock[on[t]] = t /\ holds[on[t]] = v
          /\ running[v] = t \/ t \in ToSet(queue[v])
    BY DEF PoolInv, WaiterIsServed
  <2>2. v # w
    BY <1>2, <2>1 DEF Held, PoolInv, ThreadsPlaced
  <2>3. QED
    BY <1>1, <1>3, <2>1, <2>2
<1>10. HeapsClean'
  <2> SUFFICES ASSUME NEW v \in Workers, "reclaim" \notin ToSet(queue'[v])
               PROVE  /\ \A g \in Checkouts : holds[g] = v => heap[v] \subseteq {g}
                      /\ v \in ToSet(idle) => heap[v] = {}
    BY <1>1 DEF HeapsClean
  <2>1. CASE v = w
    BY <1>2, <2>1 DEF Held, PoolInv, HeapsClean
  <2>2. CASE v # w
    BY <1>3, <2>2 DEF PoolInv, HeapsClean
  <2>3. QED
    BY <2>1, <2>2
<1>11. QED
  BY <1>4, <1>5, <1>6, <1>7, <1>8, <1>9, <1>10 DEF PoolInv

\* No collection is pending behind the script, so the heap has its checkout's
\* contexts only.
LEMMA WorkerEvaluatesStep ==
  ASSUME PoolInv, NEW w \in Workers, NEW t \in Threads, WorkerEvaluates(w, t)
  PROVE  PoolInv'
<1>1. /\ Takes(w, t) /\ worker[w] = "receiving"
      /\ worker' = [worker EXCEPT ![w] = "evaluating"]
      /\ running' = [running EXCEPT ![w] = t]
      /\ heap' = [heap EXCEPT ![w] = heap[w] \cup {on[t]}]
      /\ UNCHANGED << idle, pool, holds, object, lock, doing, on >>
  BY DEF WorkerEvaluates, Takes, checkoutVars, pythonVars
<1>2. /\ queue' \in [Workers -> Seq(Commands)]
      /\ \A v \in Workers \ {w} : queue'[v] = queue[v]
      /\ ToSet(queue[w]) = {t} \cup ToSet(queue'[w])
      /\ t \notin ToSet(queue'[w]) /\ "reclaim" \notin ToSet(queue[w])
      /\ QueuedOnce' /\ ReclaimFirst'
  BY <1>1, TakesInOrder
<1>3. /\ worker'[w] = "evaluating" /\ running'[w] = t
      /\ heap'[w] = heap[w] \cup {on[t]}
      /\ \A v \in Workers \ {w} :
           worker'[v] = worker[v] /\ running'[v] = running[v] /\ heap'[v] = heap[v]
  BY <1>1 DEF PoolInv, TypeOK
<1>4. /\ doing[t] = "waiting" /\ holds[on[t]] = w /\ on[t] \in Checkouts
      /\ running[w] = Nobody /\ t # Nobody
      /\ \A v \in Workers : running[v] # t
      /\ \A v \in Workers \ {w} : t \notin ToSet(queue[v])
  <2>1. t \in ToSet(queue[w])
    BY <1>2
  <2>2. doing[t] = "waiting" /\ holds[on[t]] = w
    BY <2>1 DEF PoolInv, ScriptsAwaited
  <2>3. \A v \in Workers : running[v] = t \/ t \in ToSet(queue[v]) => v = w
    BY <2>2 DEF PoolInv, ScriptsAwaited
  <2>4. running[w] # t
    BY <2>1 DEF PoolInv, ScriptsAwaited
  <2>5. QED
    BY <1>1, <2>2, <2>3, <2>4, PoolAssumption
       DEF PoolInv, ThreadsPlaced, RunsWhileEvaluating
<1>5. heap[w] \subseteq {on[t]}
  BY <1>2, <1>4 DEF PoolInv, HeapsClean
<1>6. /\ OneUserPerIsolate' /\ UsableWorkersLive' /\ ToldAreUnused'
      /\ UsersSpawned' /\ OnlyLiveHold'
  BY <1>1, <1>2, <1>3, WorkersStayUsable
<1>7. TypeOK'
  BY <1>1, <1>2, <1>4 DEF PoolInv, TypeOK, Commands
<1>8. ThreadsPlaced'
  BY <1>1 DEF PoolInv, ThreadsPlaced
<1>9. RunsWhileEvaluating'
  BY <1>3, <1>4 DEF PoolInv, RunsWhileEvaluating
<1>10. HeapBelongsToCheckout'
  BY <1>1, <1>3, <1>5 DEF PoolInv, HeapBelongsToCheckout
<1>11. ScriptsAwaited'
  <2> SUFFICES ASSUME NEW v \in Workers, NEW u \in Threads
               PROVE  /\ u \in ToSet(queue'[v]) \/ running'[v] = u =>
                           doing[u] = "waiting" /\ holds[on[u]] = v
                      /\ running'[v] = u => u \notin ToSet(queue'[v])
    BY <1>1 DEF ScriptsAwaited
  <2>1. u \in ToSet(queue'[v]) => u \in ToSet(queue[v])
    BY <1>2
  <2>2. CASE u = t
    BY <1>2, <1>3, <1>4, <2>2
  <2>3. CASE u # t
    <3>1. running'[v] = u => running[v] = u
      BY <1>3, <2>3
    <3>2. QED
      BY <2>1, <3>1 DEF PoolInv, ScriptsAwaited
  <2>4. QED
    BY <2>2, <2>3
<1>12. WaiterIsServed'
  <2> SUFFICES ASSUME NEW u \in Threads, doing[u] = "waiting"
               PROVE  /\ lock'[on'[u]] = u
                      /\ \E v \in Workers :
                           /\ holds'[on'[u]] = v
                           /\ running'[v] = u \/ u \in ToSet(queue'[v])
    BY <1>1 DEF WaiterIsServed
  <2>1. PICK v \in Workers :
          /\ lock[on[u]] = u /\ holds[on[u]] = v
          /\ running[v] = u \/ u \in ToSet(queue[v])
    BY DEF PoolInv, WaiterIsServed
  <2>2. running'[v] = u \/ u \in ToSet(queue'[v])
    <3>1. CASE v # w
      BY <1>2, <1>3, <2>1, <3>1
    <3>2. CASE v = w
      <4>1. running[w] # u
        BY <1>4, PoolAssumption
      <4>2. QED
        BY <1>2, <1>3, <2>1, <3>2, <4>1
    <3>3. QED
      BY <3>1, <3>2
  <2>3. QED
    BY <1>1, <2>1, <2>2
<1>13. HeapsClean'
  <2> SUFFICES ASSUME NEW v \in Workers, "reclaim" \notin ToSet(queue'[v])
               PROVE  /\ \A g \in Checkouts : holds[g] = v => heap'[v] \subseteq {g}
                      /\ v \in ToSet(idle) => heap'[v] = {}
    BY <1>1 DEF HeapsClean
  <2>1. CASE v = w
    <3>1. w \in Held
      BY <1>4 DEF Held
    <3>2. \A g \in Checkouts : holds[g] = w => g = on[t]
      BY <1>4, PoolAssumption DEF PoolInv, OneUserPerIsolate
    <3>3. QED
      BY <1>3, <1>5, <2>1, <3>1, <3>2 DEF PoolInv, OneUserPerIsolate
  <2>2. CASE v # w
    BY <1>2, <1>3, <2>2 DEF PoolInv, HeapsClean
  <2>3. QED
    BY <2>1, <2>2
<1>14. QED
  BY <1>2, <1>6, <1>7, <1>8, <1>9, <1>10, <1>11, <1>12, <1>13 DEF PoolInv

\* The thread whose script ends was the only one to wait on its checkout.
LEMMA WorkerAnswersStep ==
  ASSUME PoolInv, NEW w \in Workers, NEW result \in {"ok", "error"},
         WorkerAnswers(w, result)
  PROVE  PoolInv'
<1> DEFINE t == running[w]
<1>1. /\ worker[w] = "evaluating" /\ worker' = [worker EXCEPT ![w] = "receiving"]
      /\ running' = [running EXCEPT ![w] = Nobody]
      /\ UNCHANGED << idle, pool, queue, heap, holds, object, on >>
  BY DEF WorkerAnswers
<1>2. /\ t \in Threads /\ t # Nobody /\ doing[t] = "waiting"
      /\ on[t] \in Checkouts /\ lock[on[t]] = t
  <2>1. t \in Threads /\ t # Nobody
    BY <1>1 DEF PoolInv, TypeOK, RunsWhileEvaluating
  <2>2. QED
    BY <2>1 DEF PoolInv, ScriptsAwaited, ThreadsPlaced
<1>3. PICK d \in {"attaching", "raising"} :
        /\ doing' = [doing EXCEPT ![t] = d]
        /\ \/ d = "attaching" /\ lock' = [lock EXCEPT ![on[t]] = Nobody]
           \/ d = "raising" /\ lock' = lock
  BY DEF WorkerAnswers
<1>4. /\ worker'[w] = "receiving" /\ running'[w] = Nobody
      /\ \A v \in Workers \ {w} : worker'[v] = worker[v] /\ running'[v] = running[v]
  BY <1>1 DEF PoolInv, TypeOK
<1>5. /\ doing'[t] = d /\ \A u \in Threads \ {t} : doing'[u] = doing[u]
      /\ \A v \in Workers : t \notin ToSet(queue[v]) /\ running'[v] # t
  <2>1. doing \in [Threads -> {"nothing", "locking", "waiting", "raising",
                              "attaching", "releasing"}]
    BY DEF PoolInv, TypeOK
  <2>2. \A v \in Workers : running[v] = t \/ t \in ToSet(queue[v]) => v = w
    BY <1>2 DEF PoolInv, ScriptsAwaited
  <2>3. t \notin ToSet(queue[w])
    BY <1>2 DEF PoolInv, ScriptsAwaited
  <2>4. QED
    BY <1>2, <1>3, <1>4, <2>1, <2>2, <2>3
<1>6. \A u \in Threads \ {t} : doing[u] \in {"waiting", "raising"} =>
        lock'[on[u]] = u
  <2> SUFFICES ASSUME NEW u \in Threads \ {t}, doing[u] \in {"waiting", "raising"}
               PROVE  lock'[on[u]] = u
    OBVIOUS
  <2>1. on[u] \in Checkouts /\ lock[on[u]] = u
    BY DEF PoolInv, ThreadsPlaced
  <2>2. lock \in [Checkouts -> Threads \cup {Nobody}]
    BY DEF PoolInv, TypeOK
  <2>3. QED
    BY <1>2, <1>3, <2>1, <2>2
<1>7. /\ OneUserPerIsolate' /\ UsableWorkersLive' /\ ToldAreUnused'
      /\ UsersSpawned' /\ OnlyLiveHold'
  <2>1. queue' \in [Workers -> Seq(Commands)]
    BY <1>1 DEF PoolInv, TypeOK, Commands
  <2>2. QED
    BY <1>1, <1>4, <2>1, WorkersStayUsable
<1>8. TypeOK'
  BY <1>1, <1>2, <1>3 DEF PoolInv, TypeOK
<1>9. ThreadsPlaced'
  <2>1. d = "raising" => lock'[on[t]] = t
    BY <1>2, <1>3
  <2>2. QED
    BY <1>1, <1>2, <1>5, <1>6, <2>1 DEF PoolInv, ThreadsPlaced
<1>10. RunsWhileEvaluating' /\ HeapBelongsToCheckout'
  BY <1>1, <1>4 DEF PoolInv, RunsWhileEvaluating, HeapBelongsToCheckout
<1>11. QueuedOnce' /\ ReclaimFirst' /\ HeapsClean'
  BY <1>1 DEF PoolInv, QueuedOnce, ReclaimFirst, HeapsClean
<1>12. ScriptsAwaited'
  <2> SUFFICES ASSUME NEW v \in Workers, NEW u \in Threads
               PROVE  /\ u \in ToSet(queue[v]) \/ running'[v] = u =>
                           doing'[u] = "waiting" /\ holds[on[u]] = v
                      /\ running'[v] = u => u \notin ToSet(queue[v])
    BY <1>1 DEF ScriptsAwaited
  <2>1. CASE u = t
    BY <1>5, <2>1
  <2>2. CASE u # t
    <3>1. running'[v] = u => running[v] = u
      BY <1>4, PoolAssumption
    <3>2. QED
      BY <1>5, <2>2, <3>1 DEF PoolInv, ScriptsAwaited
  <2>3. QED
    BY <2>1, <2>2
<1>13. WaiterIsServed'
  <2> SUFFICES ASSUME NEW u \in Threads, doing'[u] = "waiting"
               PROVE  /\ lock'[on'[u]] = u
                      /\ \E v \in Workers :
                           /\ holds'[on'[u]] = v
                           /\ running'[v] = u \/ u \in ToSet(queue'[v])
    BY DEF WaiterIsServed
  <2>1. u # t /\ doing[u] = "waiting"
    BY <1>3, <1>5
  <2>2. PICK v \in Workers :
          /\ holds[on[u]] = v
          /\ running[v] = u \/ u \in ToSet(queue[v])
    BY <2>1 DEF PoolInv, WaiterIsServed
  <2>3. running'[v] = u \/ u \in ToSet(queue[v])
    BY <1>4, <2>1, <2>2
  <2>4. QED
    BY <1>1, <1>6, <2>1, <2>2, <2>3
<1>14. QED
  BY <1>7, <1>8, <1>9, <1>10, <1>11, <1>12, <1>13 DEF PoolInv

-----------------------------------------------------------------------------
(* The specification.                                                      *)

LEMMA PoolInit ==
  ASSUME Init
  PROVE  PoolInv
<1>1. /\ idle \in [1 .. Size -> Workers] /\ IsInjective(idle)
      /\ pool = "open"
      /\ worker = [w \in Workers |-> IF w \in ToSet(idle) THEN "receiving" ELSE "unspawned"]
      /\ queue = [w \in Workers |-> << >>]
      /\ running = [w \in Workers |-> Nobody]
      /\ heap = [w \in Workers |-> {}]
      /\ holds = [h \in Checkouts |-> Nobody]
      /\ object = [h \in Checkouts |-> "none"]
      /\ lock = [h \in Checkouts |-> Nobody]
      /\ doing = [t \in Threads |-> "nothing"]
      /\ on = [t \in Threads |-> Nobody]
  BY DEF Init
<1>2. idle \in Seq(Workers) /\ Len(idle) = Size /\ ToSet(idle) \subseteq Workers
  <2>1. idle \in Seq(Workers) /\ Len(idle) = Size
    BY <1>1, PoolAssumption
  <2>2. QED
    BY <2>1, LenProperties DEF ToSet
<1>3. /\ Held = {} /\ \A w \in Workers : w \in Spawned <=> w \in ToSet(idle)
      /\ Spawned \subseteq Workers
  BY <1>1, PoolAssumption DEF Held, Spawned
<1>4. \A w \in Workers : queue[w] = << >> /\ ToSet(queue[w]) = {} /\ DOMAIN queue[w] = {}
  BY <1>1 DEF ToSet
<1>5. TypeOK
  BY <1>1, <1>2, <1>4 DEF TypeOK
<1>6. OneUserPerIsolate
  BY <1>1, <1>3 DEF OneUserPerIsolate
<1>7. UsableWorkersLive
  BY <1>1, <1>2, <1>3, <1>4, PoolAssumption DEF UsableWorkersLive, SenderAlive
<1>8. WaiterIsServed /\ HeapBelongsToCheckout /\ ThreadsPlaced
  BY <1>1 DEF WaiterIsServed, HeapBelongsToCheckout, ThreadsPlaced
<1>9. UsersSpawned
  BY <1>1, <1>2, <1>3, <1>4 DEF UsersSpawned
<1>10. RunsWhileEvaluating /\ OnlyLiveHold
  BY <1>1 DEF RunsWhileEvaluating, OnlyLiveHold
<1>11. ScriptsAwaited
  BY <1>1, <1>4, PoolAssumption DEF ScriptsAwaited
<1>12. QueuedOnce /\ ReclaimFirst /\ ToldAreUnused
  BY <1>4 DEF QueuedOnce, ReclaimFirst, ToldAreUnused
<1>13. HeapsClean
  BY <1>1 DEF HeapsClean
<1>14. QED
  BY <1>5, <1>6, <1>7, <1>8, <1>9, <1>10, <1>11, <1>12, <1>13 DEF PoolInv

LEMMA PoolStep ==
  ASSUME PoolInv, [Next]_vars
  PROVE  PoolInv'
<1>1. ASSUME NEW w \in Workers, WorkerStep(w) PROVE PoolInv'
  BY <1>1, WorkerEvaluatesStep, WorkerReclaimsStep, WorkerStopsStep DEF WorkerStep
<1>2. ASSUME NEW w \in Workers, NEW r \in {"ok", "error"}, WorkerAnswers(w, r)
      PROVE  PoolInv'
  BY <1>2, WorkerAnswersStep
<1>3. ASSUME NEW t \in Threads, ThreadStep(t) PROVE PoolInv'
  BY <1>3, EvalLocksStep, EvalRaisesStep, EvalReturnsStep, ReleaseReturnsStep
     DEF ThreadStep
<1>4. ASSUME NEW t \in Threads, NEW h \in Checkouts,
             EvalBegins(t, h) \/ ReleaseBegins(t, h)
      PROVE  PoolInv'
  BY <1>4, EvalBeginsStep, ReleaseBeginsStep
<1>5. ASSUME NEW h \in Checkouts, Checkout(h) \/ DropCheckout(h) PROVE PoolInv'
  BY <1>5, CheckoutStep, DropCheckoutStep
<1>6. ASSUME NEW p \in {"closed", "dropped"}, Drain(p) PROVE PoolInv'
  BY <1>6, DrainStep
<1>7. CASE UNCHANGED vars
  <2>1. UNCHANGED << idle, pool, worker, queue, running, heap, holds, object, lock, doing, on >>
    BY <1>7 DEF vars, workerVars, checkoutVars, pythonVars
  <2>2. TypeOK' /\ ThreadsPlaced' /\ OnlyLiveHold'
    BY <2>1 DEF PoolInv, TypeOK, ThreadsPlaced, OnlyLiveHold
  <2>3. QED
    BY <2>1, <2>2, WaitersStay
<1>8. QED
  BY <1>1, <1>2, <1>3, <1>4, <1>5, <1>6, <1>7 DEF Next

\* What the pool's invariants rest on: where threads wait, which commands a
\* channel can have in which order, and what is in a heap.
THEOREM PoolInvariant == Spec => []PoolInv
<1>1. Init => PoolInv
  BY PoolInit
<1>2. PoolInv /\ [Next]_vars => PoolInv'
  BY PoolStep
<1>3. QED
  BY <1>1, <1>2, PTL DEF Spec

\* Every variable keeps its type.
THEOREM TypeCorrect == Spec => []TypeOK
<1>1. PoolInv => TypeOK
  BY DEF PoolInv
<1>2. QED
  BY <1>1, PoolInvariant, PTL

\* checkout(), release() and the drop of a checkout never give an isolate to two
\* users, whatever close() and other threads do.
THEOREM IsolatesHaveOneUser == Spec => []OneUserPerIsolate
<1>1. PoolInv => OneUserPerIsolate
  BY DEF PoolInv
<1>2. QED
  BY <1>1, PoolInvariant, PTL

\* What is handed out, or waits to be, has a worker that runs and goes on.
THEOREM UsersHaveLiveWorkers == Spec => []UsableWorkersLive
<1>1. PoolInv => UsableWorkersLive
  BY DEF PoolInv
<1>2. QED
  BY <1>1, PoolInvariant, PTL

\* A script runs on a heap without another checkout's contexts: the command to
\* collect them is ahead of it.
THEOREM HeapsAreNotShared == Spec => []HeapBelongsToCheckout
<1>1. PoolInv => HeapBelongsToCheckout
  BY DEF PoolInv
<1>2. QED
  BY <1>1, PoolInvariant, PTL

\* eval() waits under the mutex of a checkout whose worker has its command.
THEOREM WaitersAreServed == Spec => []WaiterIsServed
<1>1. PoolInv => WaiterIsServed
  BY DEF PoolInv
<1>2. QED
  BY <1>1, PoolInvariant, PTL

-----------------------------------------------------------------------------
(* The pool keeps its contract.                                            *)

\* What the contract sees.
checkouts == {h \in Checkouts : object[h] # "none"}
scripts == [t \in Threads |-> AbstractScript(t)]
exited == {w \in Workers : worker[w] = "exited"}
seen == << checkouts, holds, scripts, heap, exited >>

Asks(t) == doing[t] = "waiting"
Runs(t) == \E w \in Workers : running[w] = t

\* A thread has the script that it had if it waits as it did.
LEMMA SameScript ==
  ASSUME NEW t \in Threads, Asks(t)' <=> Asks(t),
         Asks(t) => on'[t] = on[t] /\ (Runs(t)' <=> Runs(t))
  PROVE  AbstractScript(t)' = AbstractScript(t)
<1>1. CASE Asks(t)
  <2>1. AbstractScript(t) = [at |-> IF Runs(t) THEN "runs" ELSE "asked", of |-> on[t]]
    BY <1>1 DEF AbstractScript, Asks, Runs
  <2>2. AbstractScript(t)' = [at |-> IF Runs(t)' THEN "runs" ELSE "asked", of |-> on'[t]]
    BY <1>1 DEF AbstractScript, Asks, Runs
  <2>3. QED
    BY <1>1, <2>1, <2>2
<1>2. CASE ~Asks(t)
  BY <1>2 DEF AbstractScript, Asks
<1>3. QED
  BY <1>1, <1>2

\* A step in which no script starts or ends.
LEMMA SameScripts ==
  ASSUME UNCHANGED running,
         \A t \in Threads : doing[t] = "waiting" \/ doing'[t] = "waiting" =>
           doing'[t] = doing[t] /\ on'[t] = on[t]
  PROVE  scripts' = scripts
<1>1. ASSUME NEW t \in Threads PROVE AbstractScript(t)' = AbstractScript(t)
  <2>1. /\ Asks(t)' <=> Asks(t)
        /\ Asks(t) => on'[t] = on[t] /\ (Runs(t)' <=> Runs(t))
    BY DEF Asks, Runs
  <2>2. QED
    BY <2>1, SameScript
<1>2. QED
  BY <1>1 DEF scripts

\* A checkout whose mutex is free, or that no thread is on, has no script.
LEMMA NoScripts ==
  ASSUME PoolInv, NEW h \in Checkouts,
         lock[h] = Nobody \/ \A t \in Threads : on[t] # h
  PROVE  Promise!Scripts(h) = {}
<1>1. ASSUME NEW t \in Threads, doing[t] = "waiting", on[t] = h PROVE FALSE
  BY <1>1, PoolAssumption DEF PoolInv, WaiterIsServed
<1>2. ASSUME NEW t \in Threads, scripts[t].at # "none", scripts[t].of = h PROVE FALSE
  <2>1. scripts[t] = AbstractScript(t)
    BY DEF scripts
  <2>2. doing[t] = "waiting" /\ on[t] = h
    BY <1>2, <2>1 DEF AbstractScript
  <2>3. QED
    BY <1>1, <2>2
<1>3. QED
  BY <1>2 DEF Promise!Scripts, scripts

\* A checkout that is returned, by whatever way.
LEMMA ReturnGivesBack ==
  ASSUME PoolInv, NEW h \in Checkouts, Return(h), Promise!Scripts(h) = {},
         UNCHANGED << checkouts, scripts, heap, exited >>
  PROVE  [Promise!ContractNext]_seen
<1>1. holds \in [Checkouts -> Workers \cup {Nobody}]
  BY DEF PoolInv, TypeOK
<1>2. holds' = [holds EXCEPT ![h] = Nobody]
  BY DEF Return
<1>3. CASE holds[h] = Nobody
  <2>1. holds' = holds
    BY <1>1, <1>2, <1>3
  <2>2. QED
    BY <2>1 DEF seen
<1>4. CASE holds[h] \in Workers
  <2>1. Promise!GiveBack(h)
    BY <1>2, <1>4 DEF Promise!GiveBack, checkouts, scripts, exited
  <2>2. QED
    BY <2>1 DEF Promise!ContractNext
<1>5. QED
  BY <1>1, <1>3, <1>4

\* The steps of a thread.
LEMMA ThreadKeepsPromise ==
  ASSUME PoolInv, NEW t \in Threads, ThreadStep(t)
  PROVE  [Promise!ContractNext]_seen
<1>1. CASE EvalRaises(t) \/ EvalReturns(t)
  <2>1. /\ UNCHANGED << running, heap, holds, object, worker >>
        /\ \A u \in Threads : doing[u] = "waiting" \/ doing'[u] = "waiting" =>
             doing'[u] = doing[u] /\ on'[u] = on[u]
    BY <1>1 DEF EvalRaises, EvalReturns, workerVars, checkoutVars, PoolInv, TypeOK
  <2>2. scripts' = scripts
    BY <2>1, SameScripts
  <2>3. QED
    BY <2>1, <2>2 DEF seen, checkouts, exited
<1>2. CASE ReleaseReturns(t)
  <2>1. /\ UNCHANGED << running, heap, object, worker >>
        /\ doing[t] = "releasing" /\ lock[on[t]] = Nobody /\ Return(on[t])
        /\ \A u \in Threads : doing[u] = "waiting" \/ doing'[u] = "waiting" =>
             doing'[u] = doing[u] /\ on'[u] = on[u]
    BY <1>2 DEF ReleaseReturns, PoolInv, TypeOK
  <2>2. on[t] \in Checkouts
    BY <2>1 DEF PoolInv, ThreadsPlaced
  <2>3. Promise!Scripts(on[t]) = {}
    BY <2>1, <2>2, NoScripts
  <2>4. UNCHANGED << checkouts, scripts, heap, exited >>
    BY <2>1, SameScripts DEF checkouts, exited
  <2>5. QED
    BY <2>1, <2>2, <2>3, <2>4, ReturnGivesBack
<1>3. CASE EvalLocks(t)
  <2>1. /\ UNCHANGED << running, heap, holds, object, worker, on >>
        /\ doing[t] = "locking" /\ lock[on[t]] = Nobody
    BY <1>3 DEF EvalLocks
  <2>2. on[t] \in Checkouts /\ holds[on[t]] \in Workers \cup {Nobody}
    BY <2>1 DEF PoolInv, ThreadsPlaced, TypeOK
  <2>3. CASE holds[on[t]] = Nobody
    <3>1. \A u \in Threads : doing[u] = "waiting" \/ doing'[u] = "waiting" =>
            doing'[u] = doing[u] /\ on'[u] = on[u]
      BY <1>3, <2>1, <2>3 DEF EvalLocks, PoolInv, TypeOK
    <3>2. scripts' = scripts
      BY <2>1, <3>1, SameScripts
    <3>3. QED
      BY <2>1, <3>2 DEF seen, checkouts, exited
  <2>4. CASE holds[on[t]] \in Workers
    <3>1. doing' = [doing EXCEPT ![t] = "waiting"] /\ DOMAIN doing = Threads
      <4>1. holds[on[t]] # Nobody
        BY <2>4, PoolAssumption
      <4>2. doing' = [doing EXCEPT ![t] = "waiting"]
        BY <1>3, <4>1 DEF EvalLocks
      <4>3. QED
        BY <4>2 DEF PoolInv, TypeOK
    <3>2. \A w \in Workers : running[w] # t
      BY <2>1 DEF PoolInv, ScriptsAwaited
    <3>3. AbstractScript(t) = Promise!NoScript
      BY <2>1 DEF AbstractScript, Promise!NoScript
    <3>4. AbstractScript(t)' = [at |-> "asked", of |-> on[t]]
      BY <2>1, <3>1, <3>2 DEF AbstractScript
    <3>5. ASSUME NEW u \in Threads \ {t} PROVE AbstractScript(u)' = AbstractScript(u)
      <4>1. /\ Asks(u)' <=> Asks(u)
            /\ on'[u] = on[u] /\ (Runs(u)' <=> Runs(u))
        BY <2>1, <3>1, <3>5 DEF Asks, Runs
      <4>2. QED
        BY <4>1, SameScript
    <3>6. scripts' = [scripts EXCEPT ![t] = [at |-> "asked", of |-> on[t]]]
      BY <3>4, <3>5 DEF scripts
    <3>7. scripts[t] = Promise!NoScript
      BY <3>3 DEF scripts
    <3>8. Promise!Scripts(on[t]) = {}
      BY <2>1, <2>2, NoScripts
    <3>9. UNCHANGED << checkouts, holds, heap, exited >>
      BY <2>1 DEF checkouts, exited
    <3>10. Promise!Ask(t, on[t])
      BY <2>4, <3>6, <3>7, <3>8, <3>9 DEF Promise!Ask, checkouts, scripts, exited
    <3>11. QED
      BY <2>2, <3>10 DEF Promise!ContractNext
  <2>5. QED
    BY <2>2, <2>3, <2>4
<1>4. QED
  BY <1>1, <1>2, <1>3 DEF ThreadStep

\* A script starts, for the thread that asked for it, in a heap without other
\* checkouts' contexts.
LEMMA EvaluatesStarts ==
  ASSUME PoolInv, NEW w \in Workers, NEW t \in Threads, WorkerEvaluates(w, t)
  PROVE  [Promise!ContractNext]_seen
<1>1. /\ Takes(w, t) /\ worker[w] = "receiving"
      /\ worker' = [worker EXCEPT ![w] = "evaluating"]
      /\ running' = [running EXCEPT ![w] = t]
      /\ heap' = [heap EXCEPT ![w] = heap[w] \cup {on[t]}]
      /\ UNCHANGED << holds, object, doing, on >>
  BY DEF WorkerEvaluates, Takes, checkoutVars, pythonVars, PoolInv, TypeOK
<1>2. t \in ToSet(queue[w]) /\ "reclaim" \notin ToSet(queue[w])
  BY <1>1, TakesInOrder
<1>3. doing[t] = "waiting" /\ holds[on[t]] = w /\ on[t] \in Checkouts
  BY <1>2 DEF PoolInv, ScriptsAwaited, ThreadsPlaced
<1>4. \A v \in Workers : running[v] # t
  <2> SUFFICES ASSUME NEW v \in Workers, running[v] = t PROVE FALSE
    OBVIOUS
  <2>1. v = w
    BY <1>3 DEF PoolInv, ScriptsAwaited
  <2>2. QED
    BY <1>2, <2>1 DEF PoolInv, ScriptsAwaited
<1>5. heap[w] \subseteq {on[t]} /\ heap' = [heap EXCEPT ![w] = {on[t]}]
  BY <1>1, <1>2, <1>3 DEF PoolInv, HeapsClean
<1>6. /\ running \in [Workers -> Threads \cup {Nobody}] /\ running[w] = Nobody
      /\ worker \in [Workers -> {"unspawned", "receiving", "evaluating", "exited"}]
  BY <1>1 DEF PoolInv, TypeOK, RunsWhileEvaluating
<1>7. /\ AbstractScript(t) = [at |-> "asked", of |-> on[t]]
      /\ AbstractScript(t)' = [at |-> "runs", of |-> on[t]]
  BY <1>1, <1>3, <1>4, <1>6 DEF AbstractScript
<1>8. ASSUME NEW u \in Threads \ {t} PROVE AbstractScript(u)' = AbstractScript(u)
  <2>1. \A v \in Workers : running'[v] = u <=> running[v] = u
    BY <1>1, <1>6, <1>8, PoolAssumption
  <2>2. /\ Asks(u)' <=> Asks(u)
        /\ on'[u] = on[u] /\ (Runs(u)' <=> Runs(u))
    BY <1>1, <2>1 DEF Asks, Runs
  <2>3. QED
    BY <2>2, SameScript
<1>9. /\ scripts[t] = [at |-> "asked", of |-> on[t]]
      /\ scripts' = [scripts EXCEPT ![t] = [at |-> "runs", of |-> on[t]]]
  BY <1>7, <1>8 DEF scripts
<1>10. UNCHANGED << checkouts, exited >>
  BY <1>1, <1>6 DEF checkouts, exited
<1>11. Promise!Start(t, on[t])
  BY <1>1, <1>3, <1>5, <1>9, <1>10
  DEF Promise!Start, checkouts, scripts, exited
<1>12. QED
  BY <1>3, <1>11 DEF Promise!ContractNext

\* The answer goes to the thread whose script it is.
LEMMA AnswersAnswer ==
  ASSUME PoolInv, NEW w \in Workers, NEW r \in {"ok", "error"}, WorkerAnswers(w, r)
  PROVE  [Promise!ContractNext]_seen
<1>1. /\ worker[w] = "evaluating"
      /\ worker' = [worker EXCEPT ![w] = "receiving"]
      /\ running' = [running EXCEPT ![w] = Nobody]
      /\ \E to \in {"attaching", "raising"} : doing' = [doing EXCEPT ![running[w]] = to]
      /\ UNCHANGED << heap, holds, object, on >>
  BY DEF WorkerAnswers
<1>2. /\ running \in [Workers -> Threads \cup {Nobody}]
      /\ worker \in [Workers -> {"unspawned", "receiving", "evaluating", "exited"}]
      /\ DOMAIN doing = Threads
  BY DEF PoolInv, TypeOK
<1> PICK t \in Threads : running[w] = t
  BY <1>1, <1>2 DEF PoolInv, RunsWhileEvaluating
<1>3. doing[t] = "waiting" /\ doing'[t] # "waiting"
  BY <1>1, <1>2 DEF PoolInv, ScriptsAwaited
<1>4. AbstractScript(t).at = "runs" /\ AbstractScript(t)' = Promise!NoScript
  BY <1>1, <1>3 DEF AbstractScript, Promise!NoScript
<1>5. ASSUME NEW u \in Threads \ {t} PROVE AbstractScript(u)' = AbstractScript(u)
  <2>1. \A v \in Workers : running'[v] = u <=> running[v] = u
    BY <1>1, <1>2, <1>5, PoolAssumption
  <2>2. /\ Asks(u)' <=> Asks(u)
        /\ on'[u] = on[u] /\ (Runs(u)' <=> Runs(u))
    BY <1>1, <1>2, <1>5, <2>1 DEF Asks, Runs
  <2>3. QED
    BY <2>2, SameScript
<1>6. /\ scripts[t].at = "runs"
      /\ scripts' = [scripts EXCEPT ![t] = Promise!NoScript]
  BY <1>3, <1>4, <1>5 DEF scripts
<1>7. UNCHANGED << checkouts, exited >>
  BY <1>1, <1>2 DEF checkouts, exited
<1>8. Promise!Answer(t)
  BY <1>1, <1>6, <1>7 DEF Promise!Answer, checkouts, scripts, exited
<1>9. QED
  BY <1>3, <1>8 DEF Promise!ContractNext

\* Contexts are collected between scripts.
LEMMA ReclaimsCollect ==
  ASSUME PoolInv, NEW w \in Workers, WorkerReclaims(w)
  PROVE  [Promise!ContractNext]_seen
<1>1. /\ worker[w] = "receiving" /\ heap' = [heap EXCEPT ![w] = {}]
      /\ UNCHANGED << worker, running, holds, object, doing, on >>
  BY DEF WorkerReclaims, Takes, checkoutVars, pythonVars
<1>2. ~Promise!IsRunning(w)
  <2> SUFFICES ASSUME NEW t \in Threads, NEW h \in Checkouts, holds[h] = w,
                      AbstractScript(t) = [at |-> "runs", of |-> h]
               PROVE  FALSE
    BY DEF Promise!IsRunning
  <2>1. AbstractScript(t).at = "runs" /\ AbstractScript(t).of = h
    OBVIOUS
  <2>2. on[t] = h /\ \E v \in Workers : running[v] = t
    BY <2>1 DEF AbstractScript
  <2>3. running[w] = t
    BY <2>2 DEF PoolInv, ScriptsAwaited
  <2>4. QED
    BY <1>1, <2>3, PoolAssumption DEF PoolInv, RunsWhileEvaluating
<1>3. UNCHANGED << checkouts, holds, scripts, exited >>
  BY <1>1, SameScripts DEF checkouts, exited
<1>4. Promise!Collect(w)
  BY <1>1, <1>2, <1>3 DEF Promise!Collect, checkouts, scripts, exited
<1>5. QED
  BY <1>4 DEF Promise!ContractNext

\* A worker that stops has no user.
LEMMA StopsUnused ==
  ASSUME PoolInv, NEW w \in Workers, WorkerExits(w) \/ WorkerHangsUp(w)
  PROVE  [Promise!ContractNext]_seen
<1>1. /\ worker[w] = "receiving" /\ worker' = [worker EXCEPT ![w] = "exited"]
      /\ UNCHANGED << running, heap, holds, object, doing, on >>
  BY DEF WorkerExits, WorkerHangsUp, checkoutVars, pythonVars
<1>2. w \notin Held
  <2>1. CASE WorkerExits(w)
    <3>1. /\ queue[w] \in Seq(Commands) /\ queue[w] # << >>
          /\ Head(queue[w]) = "shutdown"
      BY <2>1 DEF WorkerExits, PoolInv, TypeOK, Commands
    <3>2. "shutdown" \in ToSet(queue[w])
      BY <3>1, Taken
    <3>3. QED
      BY <3>2 DEF PoolInv, ToldAreUnused
  <2>2. CASE WorkerHangsUp(w)
    BY <2>2 DEF WorkerHangsUp, SenderAlive
  <2>3. QED
    BY <2>1, <2>2
<1>3. w \notin Promise!InUse /\ w \notin exited
  BY <1>1, <1>2 DEF Promise!InUse, Held, exited
<1>4. exited' = exited \cup {w}
  BY <1>1 DEF exited, PoolInv, TypeOK
<1>5. UNCHANGED << checkouts, holds, scripts, heap >>
  BY <1>1, SameScripts DEF checkouts
<1>6. Promise!Stop(w)
  BY <1>3, <1>4, <1>5 DEF Promise!Stop, checkouts, scripts, exited
<1>7. QED
  BY <1>6 DEF Promise!ContractNext

\* What is checked out is nobody else's, and lives.
LEMMA CheckoutTakes ==
  ASSUME PoolInv, NEW h \in Checkouts, Checkout(h)
  PROVE  [Promise!ContractNext]_seen
<1>1. /\ object[h] = "none" /\ object' = [object EXCEPT ![h] = "live"]
      /\ UNCHANGED << running, heap, doing, on >>
  BY DEF Checkout, pythonVars
<1>2. PICK w \in Workers :
        /\ holds' = [holds EXCEPT ![h] = w]
        /\ w \notin Held /\ worker[w] # "exited"
        /\ UNCHANGED worker \/ worker' = [worker EXCEPT ![w] = "receiving"]
  <2>1. CASE idle # << >>
    <3>1. Head(idle) \in Workers /\ Head(idle) \in ToSet(idle)
      BY <2>1, Taken DEF PoolInv, TypeOK
    <3>2. SenderAlive(Head(idle))
      BY <3>1 DEF Checkout, SenderAlive, PoolInnerAlive
    <3>3. Head(idle) \notin Held /\ worker[Head(idle)] # "exited"
      BY <3>1, <3>2 DEF PoolInv, OneUserPerIsolate, UsableWorkersLive
    <3>4. QED
      BY <2>1, <3>1, <3>3 DEF Checkout
  <2>2. CASE idle = << >>
    <3>1. PICK w \in Workers \ Spawned :
            /\ holds' = [holds EXCEPT ![h] = w]
            /\ worker' = [worker EXCEPT ![w] = "receiving"]
      BY <2>2 DEF Checkout
    <3>2. w \notin Held /\ worker[w] # "exited"
      BY <3>1 DEF Spawned, PoolInv, UsersSpawned
    <3>3. QED
      BY <3>1, <3>2
  <2>3. QED
    BY <2>1, <2>2
<1>3. h \notin checkouts /\ checkouts' = checkouts \cup {h}
  BY <1>1 DEF checkouts, PoolInv, TypeOK
<1>4. w \notin exited /\ exited' = exited
  BY <1>2 DEF exited, PoolInv, TypeOK
<1>5. w \notin Promise!InUse
  BY <1>2 DEF Promise!InUse, Held
<1>6. UNCHANGED << scripts, heap >>
  BY <1>1, SameScripts
<1>7. Promise!Take(h, w)
  BY <1>2, <1>3, <1>4, <1>5, <1>6 DEF Promise!Take, checkouts, scripts, exited
<1>8. QED
  BY <1>2, <1>7 DEF Promise!ContractNext

\* The contract is kept: from checkout to release an isolate is one checkout's,
\* scripts run one at a time, for who asked, in a heap of their own, and a stopped
\* isolate stays so (checkout, eval, release, drop, close and the worker's loop).
THEOREM PromiseIsKept == Spec => KeepsPromise
<1>1. Init => Promise!ContractInit
  <2> SUFFICES ASSUME Init PROVE Promise!ContractInit
    OBVIOUS
  <2>1. /\ \A w \in Workers : worker[w] # "exited"
        /\ \A t \in Threads : doing[t] # "waiting"
        /\ \A h \in Checkouts : object[h] = "none"
        /\ holds = [h \in Checkouts |-> Nobody] /\ heap = [w \in Workers |-> {}]
    BY DEF Init
  <2>2. \A t \in Threads : AbstractScript(t) = Promise!NoScript
    BY <2>1 DEF AbstractScript, Promise!NoScript
  <2>3. QED
    BY <2>1, <2>2 DEF Promise!ContractInit
<1>2. PoolInv /\ [Next]_vars => [Promise!ContractNext]_seen
  <2> SUFFICES ASSUME PoolInv, [Next]_vars PROVE [Promise!ContractNext]_seen
    OBVIOUS
  <2>1. ASSUME UNCHANGED << running, heap, holds, object, worker >>,
               \A t \in Threads : doing[t] = "waiting" \/ doing'[t] = "waiting" =>
                 doing'[t] = doing[t] /\ on'[t] = on[t]
        PROVE  UNCHANGED seen
    BY <2>1, SameScripts DEF seen, checkouts, exited
  <2>2. CASE \E w \in Workers : WorkerStep(w)
    BY <2>2, EvaluatesStarts, ReclaimsCollect, StopsUnused DEF WorkerStep
  <2>3. CASE \E w \in Workers, r \in {"ok", "error"} : WorkerAnswers(w, r)
    BY <2>3, AnswersAnswer
  <2>4. CASE \E t \in Threads : ThreadStep(t)
    BY <2>4, ThreadKeepsPromise
  <2>5. ASSUME NEW t \in Threads, NEW h \in Checkouts,
               EvalBegins(t, h) \/ ReleaseBegins(t, h)
        PROVE  UNCHANGED seen
    BY <2>1, <2>5
    DEF EvalBegins, ReleaseBegins, workerVars, checkoutVars, PoolInv, TypeOK
  <2>6. ASSUME NEW h \in Checkouts, DropCheckout(h) PROVE [Promise!ContractNext]_seen
    <3>1. /\ object[h] = "live" /\ object' = [object EXCEPT ![h] = "gone"]
          /\ Return(h) /\ \A t \in Threads : on[t] # h
          /\ UNCHANGED << worker, running, heap, doing, on >>
      BY <2>6 DEF DropCheckout, pythonVars
    <3>2. Promise!Scripts(h) = {}
      BY <3>1, NoScripts
    <3>3. checkouts' = checkouts
      BY <3>1 DEF checkouts, PoolInv, TypeOK
    <3>4. UNCHANGED << scripts, heap, exited >>
      BY <3>1, SameScripts DEF exited
    <3>5. QED
      BY <3>1, <3>2, <3>3, <3>4, ReturnGivesBack
  <2>7. ASSUME NEW p \in {"closed", "dropped"}, Drain(p) PROVE UNCHANGED seen
    BY <2>1, <2>7 DEF Drain, checkoutVars, pythonVars
  <2>8. CASE UNCHANGED vars
    BY <2>1, <2>8 DEF vars, workerVars, checkoutVars, pythonVars
  <2>9. QED
    BY <2>2, <2>3, <2>4, <2>5, <2>6, <2>7, <2>8, CheckoutTakes DEF Next
<1>3. UNCHANGED seen => UNCHANGED Promise!contractVars
  BY DEF seen, Promise!contractVars, checkouts, scripts, exited
<1>4. PoolInv /\ [Next]_vars => [Promise!ContractNext]_(Promise!contractVars)
  BY <1>2, <1>3
<1>5. QED
  BY <1>1, <1>4, PoolInvariant, PTL DEF Spec, KeepsPromise, Promise!Contract
=============================================================================

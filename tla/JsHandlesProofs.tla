-------------------------- MODULE JsHandlesProofs --------------------------
(***************************************************************************)
(* Theorems about JsHandles, for every set of functions and of streams.    *)
(***************************************************************************)
EXTENDS JsHandles, SequenceLemmas

-----------------------------------------------------------------------------
(* Steps in terms of single requests. *)

\* One request moves, and no other does.
LEMMA RequestMoves ==
  ASSUME TypeOK, NEW a \in Actors, NEW i \in Ids, NEW v \in Stages,
         at' = [at EXCEPT ![a][i] = v], v \in StagesOf(a, i)
  PROVE  /\ RequestTypes'
         /\ \A b \in Actors, j \in Ids :
              at'[b][j] = IF b = a /\ j = i THEN v ELSE at[b][j]
<1>1. at \in [Actors -> [Ids -> Stages]]
  BY DEF TypeOK, RequestTypes
<1>2. [at[a] EXCEPT ![i] = v] \in [Ids -> Stages]
  BY <1>1
<1>3. /\ at' \in [Actors -> [Ids -> Stages]]
      /\ \A b \in Actors, j \in Ids :
           at'[b][j] = IF b = a /\ j = i THEN v ELSE at[b][j]
  BY <1>1, <1>2
<1>4. QED
  BY <1>3 DEF TypeOK, RequestTypes

\* What the end of the thread makes of each request.
LEMMA DropsRequests ==
  ASSUME TypeOK, Drops
  PROVE  /\ RequestTypes'
         /\ \A a \in Actors, i \in Ids :
              at'[a][i] = IF at[a][i] = "sent" THEN Refused(a) ELSE at[a][i]
<1>1. \A a \in Actors : Refused(a) \in Stages
  BY DEF Refused, Stages
<1>2. at' \in [Actors -> [Ids -> Stages]]
  BY <1>1 DEF Drops, TypeOK, RequestTypes
<1>3. \A a \in Actors, i \in Ids :
        at'[a][i] = IF at[a][i] = "sent" THEN Refused(a) ELSE at[a][i]
  BY DEF Drops
<1>4. \A a \in Actors, i \in Ids : Refused(a) \in StagesOf(a, i)
  BY DEF Refused, StagesOf, Stages
<1>5. QED
  BY <1>2, <1>3, <1>4 DEF TypeOK, RequestTypes

\* What an answer makes of each request.
LEMMA AnsweredRequests ==
  ASSUME TypeOK, NEW a \in Actors, NEW i \in Ids, NEW v \in Stages,
         Answered(a, i, v), at[a][i] = "sent" => v \in StagesOf(a, i)
  PROVE  /\ RequestTypes'
         /\ \A b \in Actors, j \in Ids :
              at'[b][j] = IF b = a /\ j = i /\ at[a][i] = "sent" THEN v ELSE at[b][j]
<1>1. CASE at[a][i] = "sent"
  <2>1. at' = [at EXCEPT ![a][i] = v] /\ v \in StagesOf(a, i)
    BY <1>1 DEF Answered
  <2>2. /\ RequestTypes'
        /\ \A b \in Actors, j \in Ids :
             at'[b][j] = IF b = a /\ j = i THEN v ELSE at[b][j]
    BY <2>1, RequestMoves
  <2>3. QED
    BY <1>1, <2>2
<1>2. CASE at[a][i] # "sent"
  BY <1>2 DEF Answered, TypeOK, RequestTypes
<1>3. QED
  BY <1>1, <1>2

\* A received command leaves the rest of the channel.
LEMMA ReceivesRest ==
  ASSUME TypeOK, NEW a, NEW i, Receives(a, i)
  PROVE  /\ queue' \in Seq((Actors \X Ids) \cup {ShutdownCommand})
         /\ \A x \in ToSet(queue) : x # << a, i >> => x \in ToSet(queue')
<1> DEFINE Commands == (Actors \X Ids) \cup {ShutdownCommand}
<1>1. queue \in Seq(Commands) /\ queue # << >> /\ queue' = Tail(queue)
      /\ Head(queue) = << a, i >>
  BY DEF Receives, Command, TypeOK, StateTypes
<1> HIDE DEF Commands
<1>2. queue' \in Seq(Commands)
  BY <1>1
<1>3. ToSet(queue) = {<< a, i >>} \cup ToSet(queue')
  BY <1>1, SequenceMembers
<1>4. QED
  BY <1>2, <1>3 DEF Commands

\* A command that is sent joins the channel, behind the others.
LEMMA SendsBehind ==
  ASSUME TypeOK, NEW x \in (Actors \X Ids) \cup {ShutdownCommand},
         queue' = Append(queue, x)
  PROVE  /\ queue' \in Seq((Actors \X Ids) \cup {ShutdownCommand})
         /\ x \in ToSet(queue') /\ ToSet(queue) \subseteq ToSet(queue')
<1> DEFINE Commands == (Actors \X Ids) \cup {ShutdownCommand}
<1>1. queue \in Seq(Commands) /\ x \in Commands
  BY DEF TypeOK, StateTypes
<1> HIDE DEF Commands
<1>2. queue' \in Seq(Commands) /\ x \in ToSet(queue') /\ ToSet(queue) \subseteq ToSet(queue')
  BY <1>1, SequenceMembers
<1>3. QED
  BY <1>2 DEF Commands

-----------------------------------------------------------------------------
(* Type correctness *)

\* A new runtime has converted nothing, and no request has begun.
LEMMA TypeInit == Init => TypeOK
<1> SUFFICES ASSUME Init PROVE TypeOK
  OBVIOUS
<1>1. queue \in Seq((Actors \X Ids) \cup {ShutdownCommand})
  BY DEF Init
<1>2. /\ at \in [Actors -> [Ids -> Stages]]
      /\ \A a \in Actors, i \in Ids : at[a][i] = "idle"
  BY DEF Init, Stages
<1>3. QED
  BY <1>1, <1>2
  DEF Init, TypeOK, StateTypes, RequestTypes, StagesOf, Stages, Actors, Ids

\* A request moves in one step to a stage that its actor can reach.
Moves(a, i) == \E v \in Stages \cap StagesOf(a, i) : at' = [at EXCEPT ![a][i] = v]

\* A move keeps every actor within the stages it can reach.
LEMMA MovesTypes ==
  ASSUME TypeOK, NEW a \in Actors, NEW i \in Ids, Moves(a, i)
  PROVE  RequestTypes'
BY RequestMoves DEF Moves

\* Every step moves one request as its actor may, or drops them all, or none.
LEMMA RequestTypesStep ==
  ASSUME TypeOK, Next PROVE RequestTypes'
<1> USE DEF threadVars, handleVars, pythonVars
<1> DEFINE MovesOne == \E a \in Actors, i \in Ids : Moves(a, i)
<1>1. UNCHANGED at \/ Drops \/ MovesOne => RequestTypes'
  BY DropsRequests, MovesTypes DEF TypeOK, RequestTypes
<1>2. ASSUME NEW a \in Actors, NEW f \in Functions,
             ReleaseFunction(a, f) \/ FunctionUntracked(a, f)
      PROVE  UNCHANGED at \/ Moves(a, f)
  <2>1. a = "read" => at[a][f] = "idle"
    BY DEF TypeOK, RequestTypes, StagesOf, Ids
  <2>2. QED
    BY <1>2, <2>1 DEF ReleaseFunction, FunctionUntracked, Answered, Becomes, Moves,
                      StagesOf, Stages
<1>3. ASSUME NEW a \in Actors, NEW s \in Streams,
             ReleaseStream(a, s) \/ StreamUntracked(a, s)
      PROVE  UNCHANGED at \/ Moves(a, s)
  BY <1>3 DEF ReleaseStream, StreamUntracked, Answered, Becomes, Moves, StagesOf, Stages
<1>4. ASSUME NEW s \in Streams, NEW r \in {"idle", "ended"},
             StreamRead(s) \/ ReadSettles(s, r) \/ ReadEnds(s) \/ Reads(s)
               \/ ReadCancelled(s)
      PROVE  UNCHANGED at \/ Moves("read", s)
  BY <1>4, HandlesAssumption
  DEF StreamRead, ReadSettles, ReadEnds, Reads, ReadCancelled, Answered, Becomes,
      Moves, StagesOf, Stages
<1>5. ASSUME NEW a \in Actors, NEW i \in Ids, Asks(a, i) PROVE Moves(a, i)
  <2>1. a = "read" => i \notin Functions
    BY <1>5 DEF Asks, TypeOK, RequestTypes, StagesOf
  <2>2. QED
    BY <1>5, <2>1 DEF Asks, Refused, Moves, StagesOf, Stages
<1>6. ASSUME NEW i \in Ids, CloseReleases(i) \/ FunctionReleased(i)
      PROVE  Moves("owner", i)
  BY <1>6 DEF CloseReleases, FunctionReleased, Becomes, Moves, StagesOf, Stages
<1>7. ASSUME NEW i \in Ids, Collects(i) \/ FinalizerChecks(i)
      PROVE  UNCHANGED at \/ Moves("finalizer", i)
  BY <1>7 DEF Collects, CancelsStream, FinalizerChecks, Becomes, Moves, StagesOf, Stages
<1>8. ASSUME NEW i \in Ids, ClosesFunction(i) \/ CloseCancelled(i) \/ ClosesStream(i)
      PROVE  UNCHANGED at \/ Moves("close", i)
  BY <1>8 DEF ClosesFunction, CloseCancelled, ClosesStream, CancelsStream, Becomes,
              Moves, StagesOf, Stages
<1>9. ASSUME ShutsDown \/ Finalizes \/ CloseMovesOn \/ CloseStops \/ CloseFails
               \/ CloseBegins \/ Terminated \/ (\E i \in Ids : Converts(i) \/ Delivers(i))
      PROVE  UNCHANGED at \/ Drops
  BY <1>9 DEF ShutsDown, Finalizes, CloseMovesOn, CloseStops, CloseFails, CloseBegins,
              Terminated, Converts, Delivers
<1>10. Functions \subseteq Ids /\ Streams \subseteq Ids
       /\ {"read", "owner", "finalizer", "close"} \subseteq Actors
  BY DEF Ids, Actors
<1>11. UNCHANGED at \/ Drops \/ MovesOne
  BY <1>2, <1>3, <1>4, <1>5, <1>6, <1>7, <1>8, <1>9, <1>10
  DEF Next, Serves, Progress, Carries, OwnerCarries, FinalizerCarries, Guest, Application
<1>12. QED
  BY <1>1, <1>11

\* Every step keeps the types of the channel, the registries and the proxies.
LEMMA StateTypesStep ==
  ASSUME TypeOK, Next PROVE StateTypes'
<1> USE DEF threadVars, handleVars, pythonVars, Ids, StateTypes
<1> StateTypes
  BY DEF TypeOK
<1>1. ASSUME NEW a \in Actors, NEW i \in Ids, Receives(a, i),
             UNCHANGED << status, thread, shutdown, proxy, owner, tracked, over, drained >>,
             registry' \subseteq registry, jobs' \subseteq jobs \cup (Streams \cap {i})
      PROVE  StateTypes'
  BY <1>1, ReceivesRest
<1>2. ASSUME NEW a \in Actors, NEW f \in Functions,
             ReleaseFunction(a, f) \/ FunctionUntracked(a, f)
      PROVE  StateTypes'
  BY <1>1, <1>2 DEF ReleaseFunction, FunctionUntracked
<1>3. ASSUME NEW a \in Actors, NEW s \in Streams,
             ReleaseStream(a, s) \/ StreamUntracked(a, s)
      PROVE  StateTypes'
  BY <1>1, <1>3 DEF ReleaseStream, StreamUntracked
<1>4. ASSUME NEW s \in Streams, NEW r \in {"idle", "ended"},
             StreamRead(s) \/ ReadSettles(s, r) \/ ReadEnds(s) \/ Reads(s)
               \/ ReadCancelled(s)
      PROVE  StateTypes'
  <2>1. CASE StreamRead(s)
    BY <1>1, <2>1 DEF StreamRead, Actors
  <2>2. QED
    BY <1>4, <2>1 DEF ReadSettles, ReadEnds, Reads, ReadCancelled
<1>5. ASSUME NEW a \in Actors, NEW i \in Ids, Asks(a, i) PROVE StateTypes'
  <2>1. CASE UNCHANGED queue
    BY <1>5, <2>1 DEF Asks
  <2>2. CASE queue' = Append(queue, << a, i >>)
    BY <1>5, <2>2, SendsBehind DEF Asks
  <2>3. QED
    BY <1>5, <2>1, <2>2 DEF Asks
<1>6. ASSUME NEW i \in Ids, CloseReleases(i) \/ FunctionReleased(i)
      PROVE  StateTypes'
  BY <1>6 DEF CloseReleases, FunctionReleased
<1>7. ASSUME NEW i \in Ids,
             Collects(i) \/ FinalizerChecks(i) \/ Converts(i) \/ Delivers(i)
      PROVE  StateTypes'
  <2>1. CASE Collects(i)
    BY <2>1 DEF Collects, CancelsStream
  <2>2. QED
    BY <1>7, <2>1 DEF FinalizerChecks, Converts, Delivers
<1>8. ASSUME NEW f \in Functions, ClosesFunction(f) \/ CloseCancelled(f)
      PROVE  StateTypes'
  BY <1>8 DEF ClosesFunction, CloseCancelled
<1>9. ASSUME NEW s \in Streams, ClosesStream(s) PROVE StateTypes'
  BY <1>9 DEF ClosesStream, CancelsStream
<1>10. CASE ShutsDown \/ Finalizes
  <2>1. Drops => queue' \in Seq((Actors \X Ids) \cup {ShutdownCommand})
    BY DEF Drops
  <2>2. QED
    BY <1>10, <2>1 DEF ShutsDown, Finalizes, Drops
<1>11. CASE CloseMovesOn \/ CloseStops \/ CloseFails \/ CloseBegins \/ Terminated
  <2>1. CASE UNCHANGED queue
    BY <1>11, <2>1 DEF CloseMovesOn, CloseStops, CloseFails, CloseBegins, Drains,
                       Terminated
  <2>2. CASE CloseStops /\ queue' = Append(queue, ShutdownCommand)
    BY <2>2, SendsBehind DEF CloseStops
  <2>3. QED
    BY <1>11, <2>1, <2>2 DEF CloseMovesOn, CloseStops, CloseFails, CloseBegins,
                             Terminated
<1>12. QED
  BY <1>2, <1>3, <1>4, <1>5, <1>6, <1>7, <1>8, <1>9, <1>10, <1>11
  DEF Next, Serves, Progress, Carries, OwnerCarries, FinalizerCarries, Guest,
      Application, Actors

\* Every variable keeps its type, and each actor its own progress: functions
\* are never read, and only a read finds the end of a stream.
THEOREM TypeCorrect == Spec => []TypeOK
<1>1. TypeOK /\ [Next]_vars => TypeOK'
  <2>1. TypeOK /\ UNCHANGED vars => TypeOK'
    BY DEF vars, threadVars, handleVars, pythonVars, TypeOK, StateTypes, RequestTypes
  <2>2. QED
    BY <2>1, StateTypesStep, RequestTypesStep DEF TypeOK
<1>2. QED
  BY <1>1, TypeInit, PTL DEF Spec

-----------------------------------------------------------------------------
(* Nothing leaks *)

\* Who will release a registered object: it is still an answer, or tracked, or
\* Runtime.close() is at it.  close() and the finalizer do not count, since they
\* may give up.
Accounted(i) ==
  \/ proxy[i] = "answered"
  \/ i \in tracked \cup drained
  \/ at["owner"][i] \in {"begun", "sent"}

\* The answer a request got is still true.
AnswersHold ==
  \A a \in Actors, i \in Ids :
    /\ at[a][i] \in {"ok", "ended"} => i \notin registry
    /\ at[a][i] = "failed" => status # "running" \/ thread = "gone"

\* What LeakFree needs in order to be inductive: untracking comes after a release
\* that succeeded, or could not, and then there is no registry left.
LeakInv ==
  /\ status = "running" => \A i \in registry : Accounted(i)
  /\ \A i \in Ids : proxy[i] = "unborn" =>
       i \notin registry \cup tracked \cup drained /\ \A a \in Actors : at[a][i] = "idle"
  /\ AnswersHold
  /\ thread = "gone" => registry = {}
  /\ shutdown => status # "running" \/ thread = "gone"
  /\ owner = "open" => drained = {}

\* Nothing is registered at first.
LEMMA LeakInit == Init => LeakInv
BY DEF Init, LeakInv, AnswersHold

\* Who is accounted for by the invariant is accounted for by the property.
LEMMA LeakImplied == TypeOK /\ LeakInv => LeakFree
BY DEF LeakInv, Accounted, LeakFree, InProgress, Actors

\* Steps that keep the proxies and the lifecycle, and move one request at most.
LEMMA RequestKeepsAccounts ==
  ASSUME LeakInv, NEW a \in Actors, NEW i \in Ids, NEW v,
         \A b \in Actors, j \in Ids :
           \/ at'[b][j] = at[b][j]
           \/ b = a /\ j = i /\ at'[b][j] = v /\ proxy[i] # "unborn",
         UNCHANGED << status, thread, proxy, shutdown, owner >>,
         registry' \subseteq registry, registry \subseteq Ids, drained' \subseteq drained,
         \A j \in Ids : (j \in tracked' \cup drained') => (j \in tracked \cup drained),
         \A j \in Ids \ {i} : (j \in tracked \cup drained) => (j \in tracked' \cup drained'),
         v \in {"ok", "ended"} => i \notin registry',
         v = "failed" => status # "running" \/ thread = "gone",
         (status = "running" /\ i \in registry') => Accounted(i)'
  PROVE  LeakInv'
<1>1. ASSUME status' = "running", NEW j \in registry' PROVE Accounted(j)'
  <2>1. CASE j = i
    BY <1>1, <2>1
  <2>2. CASE j # i
    <3>1. Accounted(j) /\ j \in Ids
      BY <1>1 DEF LeakInv
    <3>2. at'["owner"][j] = at["owner"][j]
      BY <2>2, <3>1 DEF Actors
    <3>3. QED
      BY <2>2, <3>1, <3>2 DEF Accounted
  <2>3. QED
    BY <2>1, <2>2
<1>2. ASSUME NEW j \in Ids, proxy'[j] = "unborn"
      PROVE  j \notin registry' \cup tracked' \cup drained' /\ \A b \in Actors : at'[b][j] = "idle"
  BY <1>2 DEF LeakInv
<1>3. AnswersHold'
  BY DEF LeakInv, AnswersHold
<1>4. QED
  BY <1>1, <1>2, <1>3 DEF LeakInv

\* Steps that change no request.
LEMMA QuietKeepsAccounts ==
  ASSUME LeakInv, NEW i \in Ids, UNCHANGED << status, thread, registry, tracked, drained,
           shutdown, owner >>,
         \A b \in Actors, j \in Ids :
           \/ at'[b][j] = at[b][j]
           \/ j = i /\ b # "owner" /\ at'[b][j] \in {"called", "begun", "done"},
         proxy[i] \in {"open", "closed"}, proxy'[i] \in {"open", "closed", "collected"},
         \A j \in Ids \ {i} : proxy'[j] = proxy[j],
         registry \subseteq Ids
  PROVE  LeakInv'
<1>1. ASSUME status' = "running", NEW j \in registry' PROVE Accounted(j)'
  <2>1. Accounted(j) /\ j \in Ids /\ at'["owner"][j] = at["owner"][j]
    BY <1>1 DEF LeakInv, Actors
  <2>2. proxy[j] = "answered" => proxy'[j] = "answered"
    BY <2>1
  <2>3. QED
    BY <2>1, <2>2 DEF Accounted
<1>2. AnswersHold'
  BY DEF LeakInv, AnswersHold
<1>3. ASSUME NEW j \in Ids, proxy'[j] = "unborn"
      PROVE  j \notin registry' \cup tracked' \cup drained' /\ \A b \in Actors : at'[b][j] = "idle"
  BY <1>3 DEF LeakInv
<1>4. QED
  BY <1>1, <1>2, <1>3 DEF LeakInv

\* With the thread gone, or the runtime terminating, there is nothing to leak.
LEMMA DropsKeepsAccounts ==
  ASSUME TypeOK, LeakInv, Drops, UNCHANGED << status, proxy, tracked, drained >>,
         owner' = owner \/ owner' = "closed"
  PROVE  LeakInv'
<1>1. \A a \in Actors, i \in Ids :
        at'[a][i] = IF at[a][i] = "sent" THEN Refused(a) ELSE at[a][i]
  BY DropsRequests
<1>2. thread' = "gone" /\ registry' = {}
  BY DEF Drops
<1>3. AnswersHold'
  BY <1>1, <1>2 DEF LeakInv, AnswersHold, Refused
<1>4. QED
  BY <1>1, <1>2, <1>3 DEF LeakInv

\* A request that moves without the thread, from one stage to the next.
LEMMA BecomesRequests ==
  ASSUME TypeOK, NEW a \in Actors, NEW i \in Ids, NEW v \in Stages, Becomes(a, i, v),
         v \in StagesOf(a, i)
  PROVE  \A b \in Actors, j \in Ids : at'[b][j] = IF b = a /\ j = i THEN v ELSE at[b][j]
<1>1. at' = [at EXCEPT ![a][i] = v]
  BY DEF Becomes
<1>2. QED
  BY <1>1, RequestMoves, ZenonT(80)

\* An actor that has got an answer, or moves at all, has an object.
LEMMA BusyIsBorn ==
  ASSUME LeakInv, NEW a \in Actors, NEW i \in Ids, at[a][i] # "idle"
  PROVE  proxy[i] # "unborn"
BY DEF LeakInv

\* No step loses the last one who would release a registered object.
LEMMA LeakStep ==
  ASSUME TypeOK, LeakInv, Next PROVE LeakInv'
<1> USE DEF threadVars, handleVars, pythonVars
<1>1. Functions \subseteq Ids /\ Streams \subseteq Ids /\ Functions \cap Streams = {}
      /\ Actors = {"close", "finalizer", "owner", "read"} /\ registry \subseteq Ids
  BY HandlesAssumption DEF Ids, Actors, TypeOK, StateTypes
<1>2. ASSUME NEW a \in Actors, NEW f \in Functions, ReleaseFunction(a, f)
      PROVE  LeakInv'
  <2>1. a = "read" => at[a][f] = "idle"
    BY <1>1 DEF TypeOK, RequestTypes, StagesOf
  <2>2. CASE status = "running"
    <3>1. Answered(a, f, "ok") /\ registry' = registry \ {f}
      BY <1>2, <2>2 DEF ReleaseFunction
    <3>2. \A b \in Actors, j \in Ids :
            at'[b][j] = IF b = a /\ j = f /\ at[a][f] = "sent" THEN "ok" ELSE at[b][j]
      BY <1>1, <2>1, <3>1, AnsweredRequests DEF StagesOf, Stages
    <3>3. at[a][f] = "sent" => proxy[f] # "unborn"
      BY <1>1, BusyIsBorn
    <3>4. QED
      BY <1>1, <1>2, <3>1, <3>2, <3>3, RequestKeepsAccounts DEF ReleaseFunction
  <2>3. CASE status # "running"
    <3>1. Answered(a, f, "failed") /\ registry' = registry
      BY <1>2, <2>3 DEF ReleaseFunction
    <3>2. \A b \in Actors, j \in Ids :
            at'[b][j] = IF b = a /\ j = f /\ at[a][f] = "sent" THEN "failed" ELSE at[b][j]
      BY <1>1, <2>1, <3>1, AnsweredRequests DEF StagesOf, Stages
    <3>3. at[a][f] = "sent" => proxy[f] # "unborn"
      BY <1>1, BusyIsBorn
    <3>4. QED
      BY <1>1, <1>2, <2>3, <3>1, <3>2, <3>3, RequestKeepsAccounts DEF ReleaseFunction
  <2>4. QED
    BY <2>2, <2>3
<1>3. ASSUME NEW a \in Actors, NEW s \in Streams, ReleaseStream(a, s)
      PROVE  LeakInv'
  <2>1. Answered(a, s, "ok") /\ a # "read" /\ registry' = registry \ {s}
    BY <1>3 DEF ReleaseStream
  <2>2. \A b \in Actors, j \in Ids :
          at'[b][j] = IF b = a /\ j = s /\ at[a][s] = "sent" THEN "ok" ELSE at[b][j]
    BY <1>1, <2>1, AnsweredRequests DEF StagesOf, Stages
  <2>3. at[a][s] = "sent" => proxy[s] # "unborn"
    BY <1>1, BusyIsBorn
  <2>4. QED
    BY <1>1, <1>3, <2>1, <2>2, <2>3, RequestKeepsAccounts DEF ReleaseStream
<1>4. ASSUME NEW s \in Streams, NEW r \in {"idle", "ended"},
             (StreamRead(s) /\ r = "idle") \/ ReadSettles(s, r)
      PROVE  LeakInv'
  <2>1. UNCHANGED at \/ Answered("read", s, r)
    BY <1>4 DEF StreamRead, ReadSettles
  <2>2. Answered("read", s, r) =>
          \A b \in Actors, j \in Ids :
            at'[b][j] = IF b = "read" /\ j = s /\ at["read"][s] = "sent" THEN r ELSE at[b][j]
    BY <1>1, AnsweredRequests DEF StagesOf, Stages
  <2>3. at["read"][s] = "sent" => proxy[s] # "unborn"
    BY <1>1, BusyIsBorn
  <2>4. /\ registry' \subseteq registry /\ registry \ {s} \subseteq registry'
        /\ r = "ended" => s \notin registry'
        /\ UNCHANGED << status, thread, proxy, shutdown, owner, tracked, drained >>
    BY <1>4 DEF StreamRead, ReadSettles
  <2>5. (status = "running" /\ s \in registry') => Accounted(s)'
    <3>1. at'["owner"][s] = at["owner"][s]
      BY <1>1, <2>1, <2>2
    <3>2. QED
      BY <2>4, <3>1 DEF LeakInv, Accounted
  <2>6. QED
    BY <1>1, <2>1, <2>2, <2>3, <2>4, <2>5, RequestKeepsAccounts
<1>5. CASE ShutsDown
  BY <1>5, DropsKeepsAccounts DEF ShutsDown
<1>6. CASE Finalizes
  <2>1. CASE Drops
    BY <1>6, <2>1, DropsKeepsAccounts DEF Finalizes
  <2>2. CASE registry' = registry \cap Streams /\ UNCHANGED << thread, queue, jobs, at >>
    BY <1>6, <2>2 DEF Finalizes, LeakInv, AnswersHold
  <2>3. QED
    BY <1>6, <2>1, <2>2 DEF Finalizes
<1>7. ASSUME NEW a \in Actors, NEW i \in Ids, Asks(a, i) PROVE LeakInv'
  <2>1. PICK v \in {Refused(a), "sent"} :
          /\ at' = [at EXCEPT ![a][i] = v]
          /\ v # "sent" => IsShutdown \/ thread = "gone"
    BY <1>7 DEF Asks
  <2>2. at[a][i] = "begun" /\ UNCHANGED << status, thread, registry, handleVars, pythonVars >>
    BY <1>7 DEF Asks
  <2>3. v \in StagesOf(a, i) /\ v \in Stages
    BY <2>1, <2>2, ZenonT(80) DEF TypeOK, RequestTypes, StagesOf, Stages, Refused
  <2>4. \A b \in Actors, j \in Ids : at'[b][j] = IF b = a /\ j = i THEN v ELSE at[b][j]
    BY <2>1, <2>3, RequestMoves, ZenonT(80)
  <2>5. v # "sent" => status # "running" \/ thread = "gone"
    BY <2>1 DEF IsShutdown, LeakInv
  <2>6. v \notin {"ok", "ended"} /\ proxy[i] # "unborn"
    BY <2>1, <2>2, BusyIsBorn DEF Refused
  <2>7. (status = "running" /\ i \in registry') => Accounted(i)'
    <3>1. ASSUME status = "running", i \in registry PROVE v = "sent"
      BY <2>5, <3>1 DEF LeakInv
    <3>2. v = "sent" => (Accounted(i) => Accounted(i)')
      BY <1>1, <2>2, <2>4 DEF Accounted
    <3>3. QED
      BY <2>2, <3>1, <3>2 DEF LeakInv
  <2>8. v = "failed" => status # "running" \/ thread = "gone"
    BY <2>5
  <2>9. QED
    BY <1>1, <2>2, <2>4, <2>6, <2>7, <2>8, RequestKeepsAccounts
<1>8. ASSUME NEW a \in Actors, NEW i \in Ids,
             (i \in Functions /\ FunctionUntracked(a, i))
               \/ (i \in Streams /\ StreamUntracked(a, i))
      PROVE  LeakInv'
  <2>1. Becomes(a, i, "done") /\ a # "read" /\ at[a][i] \in {"ok", "failed"}
    BY <1>8 DEF FunctionUntracked, StreamUntracked
  <2>2. \A b \in Actors, j \in Ids :
          at'[b][j] = IF b = a /\ j = i THEN "done" ELSE at[b][j]
    BY <2>1, BecomesRequests DEF StagesOf, Stages
  <2>3. status = "running" => i \notin registry
    BY <2>1 DEF LeakInv, AnswersHold
  <2>4. /\ tracked \ {i} \subseteq tracked' /\ tracked' \subseteq tracked
        /\ UNCHANGED << threadVars, shutdown, pythonVars >>
    BY <1>8 DEF FunctionUntracked, StreamUntracked
  <2>5. proxy[i] # "unborn"
    BY <2>1, BusyIsBorn
  <2>6. QED
    BY <1>1, <2>2, <2>3, <2>4, <2>5, RequestKeepsAccounts
<1>9. ASSUME NEW f \in Functions, FinalizerChecks(f) PROVE LeakInv'
  <2>1. PICK v \in {"begun", "done"} : Becomes("finalizer", f, v)
    BY <1>9 DEF FinalizerChecks
  <2>2. \A b \in Actors, j \in Ids :
          at'[b][j] = IF b = "finalizer" /\ j = f THEN v ELSE at[b][j]
    BY <1>1, <2>1, BecomesRequests DEF StagesOf, Stages
  <2>3. /\ tracked \ {f} \subseteq tracked' /\ tracked' \subseteq tracked
        /\ UNCHANGED << threadVars, shutdown, pythonVars >>
        /\ (IsShutdown \/ tracked' = tracked)
    BY <1>9 DEF FinalizerChecks
  <2>4. proxy[f] # "unborn"
    BY <1>1, <1>9, BusyIsBorn DEF FinalizerChecks
  <2>5. (status = "running" /\ f \in registry') => Accounted(f)'
    <3>1. ASSUME status = "running", f \in registry PROVE tracked' = tracked
      BY <2>3, <3>1 DEF IsShutdown, LeakInv
    <3>2. at'["owner"][f] = at["owner"][f]
      BY <1>1, <2>2
    <3>3. QED
      BY <2>3, <3>1, <3>2 DEF LeakInv, Accounted
  <2>6. QED
    BY <1>1, <2>2, <2>3, <2>4, <2>5, RequestKeepsAccounts
<1>10. ASSUME NEW f \in Functions, FunctionReleased(f) PROVE LeakInv'
  <2>1. at["owner"][f] \in {"ok", "failed"} /\ Becomes("owner", f, "done")
    BY <1>10 DEF FunctionReleased
  <2>2. \A b \in Actors, j \in Ids :
          at'[b][j] = IF b = "owner" /\ j = f THEN "done" ELSE at[b][j]
    BY <1>1, <2>1, BecomesRequests DEF StagesOf, Stages
  <2>3. proxy[f] # "unborn" /\ (status = "running" => f \notin registry)
    BY <1>1, <2>1, BusyIsBorn DEF LeakInv, AnswersHold
  <2>4. QED
    BY <1>1, <1>10, <2>2, <2>3, RequestKeepsAccounts DEF FunctionReleased
<1>11. ASSUME NEW i \in Ids, CloseReleases(i) PROVE LeakInv'
  <2>1. Becomes("owner", i, "begun") /\ i \in drained /\ drained' = drained \ {i}
    BY <1>11 DEF CloseReleases
  <2>2. \A b \in Actors, j \in Ids :
          at'[b][j] = IF b = "owner" /\ j = i THEN "begun" ELSE at[b][j]
    BY <1>1, <2>1, BecomesRequests DEF StagesOf, Stages
  <2>3. proxy[i] # "unborn" /\ Accounted(i)'
    BY <1>1, <2>1, <2>2 DEF LeakInv, Accounted
  <2>4. QED
    BY <1>1, <1>11, <2>1, <2>2, <2>3, RequestKeepsAccounts DEF CloseReleases
<1>12. CASE CloseMovesOn \/ CloseBegins
  <2>1. /\ UNCHANGED << threadVars, shutdown, proxy, over, at >>
        /\ (drained = {} \/ IsShutdown)
        /\ owner' # "open" /\ drained' \cup tracked' \subseteq tracked \cup drained
        /\ tracked \subseteq drained' \cup tracked'
    BY <1>12 DEF CloseMovesOn, CloseBegins, Drains, LeakInv, IsShutdown
  <2>2. \A i \in registry : (status = "running" /\ Accounted(i)) => Accounted(i)'
    BY <2>1 DEF Accounted, IsShutdown, LeakInv
  <2>3. AnswersHold'
    BY <2>1 DEF LeakInv, AnswersHold
  <2>4. QED
    BY <2>1, <2>2, <2>3 DEF LeakInv
<1>13. CASE CloseStops \/ CloseFails \/ Terminated
  <2>1. /\ UNCHANGED << thread, registry, tracked, proxy, over, drained, at >>
        /\ (status' = status \/ status' = "terminating")
        /\ (shutdown' = shutdown \/ IsShutdown)
        /\ owner' = "open" => owner = "open"
    BY <1>13 DEF CloseStops, CloseFails, Terminated
  <2>2. AnswersHold'
    BY <2>1 DEF LeakInv, AnswersHold
  <2>3. QED
    BY <2>1, <2>2 DEF LeakInv, Accounted, IsShutdown
<1>14. ASSUME NEW i \in Ids, Converts(i) PROVE LeakInv'
  <2>1. /\ UNCHANGED << status, thread, tracked, drained, shutdown, owner, at >>
        /\ thread # "gone" /\ proxy[i] = "unborn" /\ registry' = registry \cup {i}
        /\ proxy'[i] = "answered" /\ \A j \in Ids \ {i} : proxy'[j] = proxy[j]
    BY <1>14 DEF Converts, TypeOK, StateTypes
  <2>2. AnswersHold'
    BY <2>1 DEF LeakInv, AnswersHold
  <2>3. QED
    BY <1>1, <2>1, <2>2 DEF LeakInv, Accounted
<1>15. ASSUME NEW i \in Ids, Delivers(i) PROVE LeakInv'
  <2>1. /\ UNCHANGED << threadVars, drained, shutdown, owner, at >>
        /\ tracked' = tracked \cup {i}
        /\ proxy'[i] = "open" /\ \A j \in Ids \ {i} : proxy'[j] = proxy[j]
    BY <1>15 DEF Delivers, TypeOK, StateTypes
  <2>2. AnswersHold'
    BY <2>1 DEF LeakInv, AnswersHold
  <2>3. QED
    BY <1>1, <2>1, <2>2 DEF LeakInv, Accounted
<1>16. ASSUME NEW s \in Streams, ReadEnds(s) \/ Reads(s) \/ ReadCancelled(s)
       PROVE  LeakInv'
  <2>1. PICK v \in {"begun", "done"} : Becomes("read", s, v)
    BY <1>16 DEF ReadEnds, Reads, ReadCancelled
  <2>2. \A b \in Actors, j \in Ids :
          at'[b][j] = IF b = "read" /\ j = s THEN v ELSE at[b][j]
    BY <1>1, <2>1, BecomesRequests DEF StagesOf, Stages
  <2>3. proxy[s] # "unborn"
    BY <1>1, <1>16, BusyIsBorn DEF ReadEnds, Reads, ReadCancelled
  <2>4. /\ tracked \ {s} \subseteq tracked' /\ tracked' \subseteq tracked
        /\ UNCHANGED << threadVars, shutdown, proxy, owner, drained >>
        /\ (tracked' = tracked \/ s \notin registry)
    BY <1>1, <1>16 DEF ReadEnds, Reads, ReadCancelled, LeakInv, AnswersHold
  <2>5. (status = "running" /\ s \in registry') => Accounted(s)'
    BY <1>1, <2>2, <2>4 DEF LeakInv, Accounted
  <2>6. QED
    BY <1>1, <2>2, <2>3, <2>4, <2>5, RequestKeepsAccounts
\* Proxies are closed and collected; their requests begin.
<1>17. ASSUME NEW i \in Ids, NEW a \in {"close", "finalizer"},
              UNCHANGED at \/ (\E v \in {"called", "begun", "done"} : Becomes(a, i, v)),
              proxy[i] \in {"open", "closed"},
              UNCHANGED proxy \/ (\E c \in {"closed", "collected"} : proxy' = [proxy EXCEPT ![i] = c]),
              UNCHANGED << threadVars, handleVars, owner, drained >>
       PROVE  LeakInv'
  <2>1. \A b \in Actors, j \in Ids :
          \/ at'[b][j] = at[b][j]
          \/ j = i /\ b # "owner" /\ at'[b][j] \in {"called", "begun", "done"}
    <3>1. ASSUME NEW v \in {"called", "begun", "done"}, Becomes(a, i, v)
          PROVE  \A b \in Actors, j \in Ids :
                   at'[b][j] = IF b = a /\ j = i THEN v ELSE at[b][j]
      BY <1>1, <3>1, BecomesRequests DEF StagesOf, Stages
    <3>2. QED
      BY <1>17, <3>1
  <2>2. proxy'[i] \in {"open", "closed", "collected"}
        /\ \A j \in Ids \ {i} : proxy'[j] = proxy[j]
    BY <1>17 DEF TypeOK, StateTypes
  <2>3. QED
    BY <1>1, <1>17, <2>1, <2>2, QuietKeepsAccounts
<1>18. ASSUME NEW i \in Ids, Collects(i) PROVE LeakInv'
  BY <1>17, <1>18 DEF Collects, CancelsStream
<1>19. ASSUME NEW f \in Functions, ClosesFunction(f) PROVE LeakInv'
  BY <1>1, <1>17, <1>19 DEF ClosesFunction
<1>20. ASSUME NEW f \in Functions, CloseCancelled(f) PROVE LeakInv'
  <2>1. at["close"][f] \in {"begun", "sent"} /\ Becomes("close", f, "done")
    BY <1>20 DEF CloseCancelled
  <2>2. \A b \in Actors, j \in Ids :
          at'[b][j] = IF b = "close" /\ j = f THEN "done" ELSE at[b][j]
    BY <1>1, <2>1, BecomesRequests DEF StagesOf, Stages
  <2>3. proxy[f] # "unborn"
    BY <1>1, <2>1, BusyIsBorn
  <2>4. (status = "running" /\ f \in registry') => Accounted(f)'
    BY <1>1, <1>20, <2>2 DEF CloseCancelled, LeakInv, Accounted
  <2>5. QED
    BY <1>1, <1>20, <2>2, <2>3, <2>4, RequestKeepsAccounts DEF CloseCancelled
<1>21. ASSUME NEW s \in Streams, ClosesStream(s) PROVE LeakInv'
  BY <1>1, <1>17, <1>21 DEF ClosesStream, CancelsStream
<1>22. QED
  BY <1>1, <1>2, <1>3, <1>4, <1>5, <1>6, <1>7, <1>8, <1>9, <1>10, <1>11, <1>12, <1>13,
     <1>14, <1>15, <1>16, <1>18, <1>19, <1>20, <1>21
  DEF Next, Serves, Progress, Carries, OwnerCarries, FinalizerCarries, Guest, Application

\* Every object that the registry keeps alive will be released by somebody, in
\* every order of close(), finalizers, Runtime.close(), reads and terminations.
THEOREM NothingLeaks == Spec => []LeakFree
<1>1. LeakInv /\ UNCHANGED vars => LeakInv'
  BY DEF vars, threadVars, handleVars, pythonVars, LeakInv, AnswersHold, Accounted
<1>2. TypeOK /\ LeakInv /\ [Next]_vars => LeakInv'
  BY <1>1, LeakStep
<1>3. QED
  BY <1>2, LeakInit, LeakImplied, TypeCorrect, PTL DEF Spec
-----------------------------------------------------------------------------
(* Requests are served, and open proxies work *)

\* The proxies that nobody has closed or collected.
Early == {"unborn", "answered", "open"}

\* A stream has one read at a time: in the channel, or among the jobs, and its
\* caller waits for it or has been cancelled.
QueuedOnce(i) ==
  \A k, l \in DOMAIN queue :
    queue[k] = << "read", i >> /\ queue[l] = << "read", i >> => k = l

ReadOnce(i) ==
  /\ QueuedOnce(i)
  /\ << "read", i >> \in ToSet(queue) => i \notin jobs
  /\ << "read", i >> \in ToSet(queue) \/ i \in jobs => at["read"][i] \in {"sent", "done"}

\* Releases are asked for by those who have closed, collected or drained.
ReleasedAfter(i) ==
  /\ \A a \in {"close", "finalizer"} :
       /\ << a, i >> \in ToSet(queue) => at[a][i] # "idle"
       /\ proxy[i] \in Early => at[a][i] = "idle"
  /\ owner = "open" => at["owner"][i] = "idle" /\ << "owner", i >> \notin ToSet(queue)

\* What is on its way to Python, or there, works as OpenIsUsable says.
Usable(i) ==
  (status = "running" /\ owner = "open" /\ proxy[i] \in {"answered", "open"}) =>
    i \in registry \/ (i \in Streams /\ at["read"][i] \in {"ended", "done"})

Served(i) ==
  \A a \in Actors : at[a][i] = "sent" =>
    /\ thread # "gone"
    /\ << a, i >> \in ToSet(queue) \/ (a = "read" /\ i \in jobs)

ObjectInv(i) == ReadOnce(i) /\ ReleasedAfter(i) /\ Usable(i) /\ Served(i)

ServeInv == \A i \in Ids : ObjectInv(i)

\* The invariant is at least what the runs check.
LEMMA ServeImplied == ServeInv => WaiterServed /\ OpenIsUsable
BY DEF ServeInv, ObjectInv, Served, Usable, WaiterServed, OpenIsUsable

\* The command that is received leaves the channel, and the others stay.
LEMMA ReceivesOnce ==
  ASSUME TypeOK, NEW a \in Actors, NEW i \in Ids, Receives(a, i)
  PROVE  /\ << a, i >> \in ToSet(queue)
         /\ ToSet(queue) = {<< a, i >>} \cup ToSet(queue')
         /\ \A j \in Ids : QueuedOnce(j) => QueuedOnce(j)'
         /\ a = "read" /\ QueuedOnce(i) => << "read", i >> \notin ToSet(queue')
<1> DEFINE Commands == (Actors \X Ids) \cup {ShutdownCommand}
<1>1. queue \in Seq(Commands) /\ queue # << >> /\ queue' = Tail(queue)
      /\ Head(queue) = << a, i >>
  BY DEF Receives, Command, TypeOK, StateTypes
<1> HIDE DEF Commands
<1>2. /\ ToSet(queue) = {<< a, i >>} \cup ToSet(queue')
      /\ 1 \in DOMAIN queue /\ queue[1] = << a, i >>
      /\ \A k \in DOMAIN queue' :
           k \in Nat \ {0} /\ k + 1 \in DOMAIN queue /\ queue'[k] = queue[k + 1]
  BY <1>1, Taken
<1>3. ASSUME NEW j \in Ids, QueuedOnce(j) PROVE QueuedOnce(j)'
  <2> SUFFICES ASSUME NEW k \in DOMAIN queue', NEW l \in DOMAIN queue',
                      queue'[k] = << "read", j >>, queue'[l] = << "read", j >>
               PROVE  k = l
    BY DEF QueuedOnce
  <2>1. k + 1 = l + 1
    BY <1>2, <1>3 DEF QueuedOnce
  <2>2. QED
    BY <1>2, <2>1
<1>4. ASSUME a = "read", QueuedOnce(i), << "read", i >> \in ToSet(queue') PROVE FALSE
  <2>1. PICK k \in DOMAIN queue' : queue'[k] = << "read", i >>
    BY <1>4 DEF ToSet
  <2>2. k + 1 = 1 /\ k \in Nat \ {0}
    BY <1>2, <1>4, <2>1 DEF QueuedOnce
  <2>3. QED
    BY <2>2
<1>5. QED
  BY <1>2, <1>3, <1>4

\* A command that is sent joins the channel; a read does so once.
LEMMA SendsOnce ==
  ASSUME TypeOK, NEW x \in (Actors \X Ids) \cup {ShutdownCommand},
         queue' = Append(queue, x)
  PROVE  /\ ToSet(queue') = ToSet(queue) \cup {x}
         /\ \A j \in Ids : QueuedOnce(j) /\ (x = << "read", j >> => x \notin ToSet(queue))
                             => QueuedOnce(j)'
<1> DEFINE Commands == (Actors \X Ids) \cup {ShutdownCommand}
<1>1. queue \in Seq(Commands) /\ x \in Commands
  BY DEF TypeOK, StateTypes
<1> HIDE DEF Commands
<1>2. /\ ToSet(queue') = ToSet(queue) \cup {x}
      /\ \A k \in DOMAIN queue' :
           \/ k \in DOMAIN queue /\ queue'[k] = queue[k]
           \/ k \notin DOMAIN queue /\ queue'[k] = x
      /\ \A k \in DOMAIN queue : queue[k] \in ToSet(queue)
      /\ \A k, l \in DOMAIN queue' : k \notin DOMAIN queue /\ l \notin DOMAIN queue => k = l
  BY <1>1, Appended
<1>3. ASSUME NEW j \in Ids, QueuedOnce(j), x = << "read", j >> => x \notin ToSet(queue)
      PROVE  QueuedOnce(j)'
  <2> SUFFICES ASSUME NEW k \in DOMAIN queue', NEW l \in DOMAIN queue',
                      queue'[k] = << "read", j >>, queue'[l] = << "read", j >>
               PROVE  k = l
    BY DEF QueuedOnce
  <2>1. k \in DOMAIN queue <=> l \in DOMAIN queue
    BY <1>2, <1>3
  <2>2. QED
    BY <1>2, <1>3, <2>1 DEF QueuedOnce
<1>4. QED
  BY <1>2, <1>3

\* An object that a step does not touch.
LEMMA UntouchedKeeps ==
  ASSUME NEW j \in Ids, ObjectInv(j), QueuedOnce(j)',
         \A a \in Actors : /\ at'[a][j] = at[a][j]
                           /\ << a, j >> \in ToSet(queue') <=> << a, j >> \in ToSet(queue),
         UNCHANGED << status, thread, owner >>, proxy'[j] = proxy[j],
         j \in registry => j \in registry', j \in jobs <=> j \in jobs'
  PROVE  ObjectInv(j)'
<1> USE DEF ObjectInv, Actors
<1>1. ReadOnce(j)' /\ Served(j)'
  BY DEF ReadOnce, Served
<1>2. ReleasedAfter(j)' /\ Usable(j)'
  BY DEF ReleasedAfter, Usable
<1>3. QED
  BY <1>1, <1>2

\* A release is served: the answer is given, and the object may go.
LEMMA ReleaseKeeps ==
  ASSUME TypeOK, ServeInv, NEW a \in Actors, NEW i \in Ids, NEW v \in {"ok", "failed"},
         Receives(a, i), Answered(a, i, v), a # "read" \/ i \in Functions,
         registry \ {i} \subseteq registry',
         UNCHANGED << status, thread, jobs, proxy, owner >>
  PROVE  ServeInv'
<1>1. /\ << a, i >> \in ToSet(queue) /\ ToSet(queue) = {<< a, i >>} \cup ToSet(queue')
      /\ \A j \in Ids : QueuedOnce(j) => QueuedOnce(j)'
  BY ReceivesOnce
<1>2. a # "read"
  <2>1. i \in Functions => at["read"][i] = "idle"
    BY DEF TypeOK, RequestTypes, StagesOf, Actors
  <2>2. << "read", i >> \in ToSet(queue) => at["read"][i] \in {"sent", "done"}
    BY DEF ServeInv, ObjectInv, ReadOnce
  <2>3. QED
    BY <1>1, <2>1, <2>2
<1>3. \A b \in Actors, j \in Ids :
        at'[b][j] = IF b = a /\ j = i /\ at[a][i] = "sent" THEN v ELSE at[b][j]
  BY <1>2, AnsweredRequests DEF StagesOf, Stages
<1>4. ASSUME NEW j \in Ids, j # i PROVE ObjectInv(j)'
  <2>1. ObjectInv(j) /\ QueuedOnce(j)'
    BY <1>1 DEF ServeInv, ObjectInv, ReadOnce
  <2>2. \A b \in Actors : /\ at'[b][j] = at[b][j]
                          /\ << b, j >> \in ToSet(queue') <=> << b, j >> \in ToSet(queue)
    BY <1>1, <1>3, <1>4
  <2>3. QED
    BY <1>4, <2>1, <2>2, UntouchedKeeps
<1>5. ObjectInv(i)'
  <2>1. ObjectInv(i)
    BY DEF ServeInv
  <2>2. /\ at'["read"][i] = at["read"][i]
        /\ << "read", i >> \in ToSet(queue') <=> << "read", i >> \in ToSet(queue)
    BY <1>1, <1>2, <1>3 DEF Actors
  <2>3. ReadOnce(i)'
    BY <1>1, <2>1, <2>2 DEF ObjectInv, ReadOnce
  <2>4. ReleasedAfter(i)'
    BY <1>1, <1>3, <2>1 DEF ObjectInv, ReleasedAfter, Actors
  <2>5. proxy[i] \notin Early \/ owner # "open"
    BY <1>1, <1>2, <2>1 DEF ObjectInv, ReleasedAfter, Actors
  <2>6. Usable(i)'
    BY <2>5 DEF Usable, Early
  <2>7. Served(i)'
    BY <1>1, <1>2, <1>3, <2>1 DEF ObjectInv, Served
  <2>8. QED
    BY <2>3, <2>4, <2>6, <2>7 DEF ObjectInv
<1>6. QED
  BY <1>4, <1>5 DEF ServeInv

\* A read is served: it becomes a job, or is refused.
LEMMA ReadKeeps ==
  ASSUME TypeOK, ServeInv, NEW s \in Streams, StreamRead(s)
  PROVE  ServeInv'
<1> USE DEF pythonVars, handleVars
<1>1. s \in Ids /\ "read" \in Actors /\ s \notin Functions
  BY HandlesAssumption DEF Ids, Actors
<1>2. Receives("read", s) /\ UNCHANGED << status, thread, registry, proxy, owner >>
  BY DEF StreamRead
<1>3. /\ << "read", s >> \in ToSet(queue) /\ << "read", s >> \notin ToSet(queue')
      /\ ToSet(queue) = {<< "read", s >>} \cup ToSet(queue')
      /\ \A j \in Ids : QueuedOnce(j) => QueuedOnce(j)'
  BY <1>1, <1>2, ReceivesOnce DEF ServeInv, ObjectInv, ReadOnce
<1>4. \/ jobs' = jobs \cup {s} /\ UNCHANGED at
      \/ /\ jobs' = jobs
         /\ \A b \in Actors, j \in Ids : at'[b][j] =
              IF b = "read" /\ j = s /\ at["read"][s] = "sent" THEN "idle" ELSE at[b][j]
  BY <1>1, AnsweredRequests DEF StreamRead, StagesOf, Stages
<1>5. ASSUME NEW j \in Ids, j # s PROVE ObjectInv(j)'
  <2>1. ObjectInv(j) /\ QueuedOnce(j)'
    BY <1>3 DEF ServeInv, ObjectInv, ReadOnce
  <2>2. \A b \in Actors : /\ at'[b][j] = at[b][j]
                          /\ << b, j >> \in ToSet(queue') <=> << b, j >> \in ToSet(queue)
    BY <1>3, <1>4, <1>5
  <2>3. j \in jobs' <=> j \in jobs
    BY <1>4, <1>5
  <2>4. QED
    BY <1>2, <2>1, <2>2, <2>3, UntouchedKeeps
<1>6. ObjectInv(s)'
  <2>1. ObjectInv(s)
    BY <1>1 DEF ServeInv
  <2>2. at["read"][s] \in {"sent", "done"} /\ s \notin jobs
    BY <1>3, <2>1 DEF ObjectInv, ReadOnce
  <2>3. ReadOnce(s)'
    BY <1>1, <1>3, <1>4, <2>1, <2>2 DEF ObjectInv, ReadOnce
  <2>4. \A b \in Actors \ {"read"} : at'[b][s] = at[b][s]
    BY <1>1, <1>4
  <2>5. ReleasedAfter(s)'
    BY <1>2, <1>3, <2>1, <2>4 DEF ObjectInv, ReleasedAfter, Actors
  <2>6. at'["read"][s] \in {at["read"][s], "idle"}
        /\ (at["read"][s] = "done" => at'["read"][s] = "done")
    BY <1>1, <1>4
  <2>7. Usable(s)'
    BY <1>2, <2>1, <2>2, <2>6 DEF ObjectInv, Usable
  <2>8. at'["read"][s] = "sent" => s \in jobs'
    BY <1>1, <1>4
  <2>9. \A b \in Actors \ {"read"} :
          << b, s >> \in ToSet(queue') <=> << b, s >> \in ToSet(queue)
    BY <1>3
  <2>10. at'["read"][s] = "sent" => at["read"][s] = "sent"
    BY <2>6
  <2>11. Served(s)'
    BY <1>1, <1>2, <2>1, <2>4, <2>8, <2>9, <2>10 DEF ObjectInv, Served
  <2>12. QED
    BY <2>3, <2>5, <2>7, <2>11 DEF ObjectInv
<1>7. QED
  BY <1>5, <1>6 DEF ServeInv

\* A read settles: its caller is answered, and the last chunk takes the entry.
LEMMA SettleKeeps ==
  ASSUME TypeOK, ServeInv, NEW s \in Streams, NEW r \in {"idle", "ended"},
         ReadSettles(s, r)
  PROVE  ServeInv'
<1> USE DEF pythonVars, handleVars
<1>1. s \in Ids /\ "read" \in Actors /\ s \notin Functions
  BY HandlesAssumption DEF Ids, Actors
<1>2. /\ s \in jobs /\ jobs' = jobs \ {s}
      /\ registry' = IF r = "ended" THEN registry \ {s} ELSE registry
      /\ UNCHANGED << status, thread, queue, proxy, owner >>
  BY DEF ReadSettles
<1>3. \A b \in Actors, j \in Ids : at'[b][j] =
        IF b = "read" /\ j = s /\ at["read"][s] = "sent" THEN r ELSE at[b][j]
  BY <1>1, AnsweredRequests DEF ReadSettles, StagesOf, Stages
<1>4. \A j \in Ids : QueuedOnce(j) => QueuedOnce(j)'
  BY <1>2 DEF QueuedOnce
<1>5. ASSUME NEW j \in Ids, j # s PROVE ObjectInv(j)'
  <2>1. ObjectInv(j) /\ QueuedOnce(j)'
    BY <1>4 DEF ServeInv, ObjectInv, ReadOnce
  <2>2. \A b \in Actors : at'[b][j] = at[b][j]
    BY <1>3, <1>5
  <2>3. QED
    BY <1>2, <1>5, <2>1, <2>2, UntouchedKeeps
<1>6. ObjectInv(s)'
  <2>1. ObjectInv(s)
    BY <1>1 DEF ServeInv
  <2>2. at["read"][s] \in {"sent", "done"} /\ << "read", s >> \notin ToSet(queue)
    BY <1>2, <2>1 DEF ObjectInv, ReadOnce
  <2>3. ReadOnce(s)'
    BY <1>1, <1>2, <1>4, <2>1, <2>2 DEF ObjectInv, ReadOnce
  <2>4. \A b \in Actors \ {"read"} : at'[b][s] = at[b][s]
    BY <1>1, <1>3
  <2>5. ReleasedAfter(s)'
    BY <1>2, <2>1, <2>4 DEF ObjectInv, ReleasedAfter, Actors
  <2>6. at'["read"][s] \in {r, "done"} /\ at'["read"][s] # "sent"
    BY <1>1, <1>3, <2>2
  <2>7. Usable(s)'
    <3>1. CASE r = "ended"
      BY <2>6, <3>1 DEF Usable
    <3>2. CASE r = "idle"
      <4>1. at["read"][s] = "done" => at'["read"][s] = "done"
        BY <1>1, <1>3
      <4>2. QED
        BY <1>2, <2>1, <2>2, <3>2, <4>1 DEF ObjectInv, Usable
    <3>3. QED
      BY <3>1, <3>2
  <2>8. Served(s)'
    BY <1>1, <1>2, <2>1, <2>4, <2>6 DEF ObjectInv, Served
  <2>9. QED
    BY <2>3, <2>5, <2>7, <2>8 DEF ObjectInv
<1>7. QED
  BY <1>5, <1>6 DEF ServeInv

\* The thread is gone: nobody waits for it any more.
LEMMA DropsKeeps ==
  ASSUME TypeOK, ServeInv, Drops, UNCHANGED << status, proxy >>,
         owner' = owner \/ owner' = "closed",
         status # "running" \/ owner' # "open"
  PROVE  ServeInv'
<1>1. \A a \in Actors, i \in Ids :
        at'[a][i] = IF at[a][i] = "sent" THEN Refused(a) ELSE at[a][i]
  BY DropsRequests
<1>2. queue' = << >> /\ jobs' = {}
  BY DEF Drops
<1>3. ToSet(queue') = {} /\ \A i \in Ids : QueuedOnce(i)'
  BY <1>2 DEF ToSet, QueuedOnce
<1>4. ASSUME NEW i \in Ids PROVE ObjectInv(i)'
  <2>1. ObjectInv(i)
    BY DEF ServeInv
  <2>2. ReadOnce(i)'
    BY <1>2, <1>3 DEF ReadOnce
  <2>3. \A a \in Actors : at[a][i] = "idle" => at'[a][i] = "idle"
    BY <1>1
  <2>4. ReleasedAfter(i)'
    BY <1>3, <2>1, <2>3 DEF ObjectInv, ReleasedAfter, Actors
  <2>5. Usable(i)'
    BY DEF Usable
  <2>6. Served(i)'
    BY <1>1 DEF Served, Refused
  <2>7. QED
    BY <2>2, <2>4, <2>5, <2>6 DEF ObjectInv
<1>5. QED
  BY <1>4 DEF ServeInv

\* A request is sent, or refused at once.
LEMMA AsksKeeps ==
  ASSUME TypeOK, ServeInv, NEW a \in Actors, NEW i \in Ids, Asks(a, i)
  PROVE  ServeInv'
<1> USE DEF pythonVars, handleVars
<1>1. PICK v \in {Refused(a), "sent"} :
        /\ at' = [at EXCEPT ![a][i] = v]
        /\ v = "sent" => thread # "gone" /\ queue' = Append(queue, << a, i >>)
        /\ v # "sent" => queue' = queue
  BY DEF Asks, Refused
<1>2. at[a][i] = "begun" /\ UNCHANGED << status, thread, registry, jobs, proxy, owner >>
  BY DEF Asks
<1>3. v \in StagesOf(a, i) /\ v \in Stages
  BY <1>1, <1>2, ZenonT(80) DEF TypeOK, RequestTypes, StagesOf, Stages, Refused
<1>4. \A b \in Actors, j \in Ids : at'[b][j] = IF b = a /\ j = i THEN v ELSE at[b][j]
  BY <1>1, <1>3, RequestMoves, ZenonT(80)
<1>5. ObjectInv(i) /\ (a = "read" => << "read", i >> \notin ToSet(queue) /\ i \notin jobs)
  BY <1>2 DEF ServeInv, ObjectInv, ReadOnce
<1>6. /\ ToSet(queue') = ToSet(queue) \cup (IF v = "sent" THEN {<< a, i >>} ELSE {})
      /\ \A j \in Ids : QueuedOnce(j) => QueuedOnce(j)'
  <2>1. CASE v = "sent"
    <3>1. \A j \in Ids : << a, i >> = << "read", j >> => << a, i >> \notin ToSet(queue)
      BY <1>5
    <3>2. QED
      BY <1>1, <2>1, <3>1, SendsOnce
  <2>2. CASE v # "sent"
    BY <1>1, <2>2 DEF QueuedOnce
  <2>3. QED
    BY <2>1, <2>2
<1>7. ASSUME NEW j \in Ids, j # i PROVE ObjectInv(j)'
  <2>1. ObjectInv(j) /\ QueuedOnce(j)'
    BY <1>6 DEF ServeInv, ObjectInv, ReadOnce
  <2>2. \A b \in Actors : /\ at'[b][j] = at[b][j]
                          /\ << b, j >> \in ToSet(queue') <=> << b, j >> \in ToSet(queue)
    BY <1>4, <1>6, <1>7
  <2>3. QED
    BY <1>2, <2>1, <2>2, UntouchedKeeps
<1>8. ObjectInv(i)'
  <2>1. v # "begun" /\ (a # "read" => v # "idle")
    BY DEF Refused
  <2>2. ReadOnce(i)'
    <3>1. CASE a = "read"
      BY <1>2, <1>4, <1>5, <1>6, <3>1 DEF ObjectInv, ReadOnce
    <3>2. CASE a # "read"
      <4>1. /\ at'["read"][i] = at["read"][i]
            /\ << "read", i >> \in ToSet(queue') <=> << "read", i >> \in ToSet(queue)
        BY <1>4, <1>6, <3>2 DEF Actors
      <4>2. QED
        BY <1>2, <1>5, <1>6, <4>1 DEF ObjectInv, ReadOnce
    <3>3. QED
      BY <3>1, <3>2
  <2>3. ReleasedAfter(i)'
    BY <1>2, <1>4, <1>5, <1>6, <2>1 DEF ObjectInv, ReleasedAfter, Actors
  <2>4. Usable(i)'
    BY <1>2, <1>4, <1>5 DEF ObjectInv, Usable, Actors
  <2>5. Served(i)'
    BY <1>1, <1>2, <1>4, <1>5, <1>6 DEF ObjectInv, Served
  <2>6. QED
    BY <2>2, <2>3, <2>4, <2>5 DEF ObjectInv
<1>9. QED
  BY <1>7, <1>8 DEF ServeInv

\* A request begins, is cancelled, or is done with, and a proxy may be closed
\* or collected: neither the channel nor the registry is touched.
LEMMA MoveKeeps ==
  ASSUME TypeOK, ServeInv, NEW a \in Actors, NEW i \in Ids,
         NEW v \in {"called", "begun", "done"},
         \/ UNCHANGED at
         \/ at' = [at EXCEPT ![a][i] = v] /\ v \in StagesOf(a, i),
         \A j \in Ids \ {i} : proxy'[j] = proxy[j],
         \/ a \in {"close", "finalizer"} /\ proxy'[i] \notin Early
         \/ a = "owner" /\ owner # "open" /\ proxy'[i] = proxy[i]
         \/ /\ a = "read" /\ proxy'[i] = proxy[i]
            /\ v = "done" \/ (v = "begun" /\ at["read"][i] = "idle")
            /\ i \in Streams,
         UNCHANGED << threadVars, owner >>
  PROVE  ServeInv'
<1> USE DEF threadVars
<1>1. \A b \in Actors, j \in Ids :
        \/ at'[b][j] = at[b][j]
        \/ b = a /\ j = i /\ at'[b][j] = v
  BY RequestMoves DEF Stages
<1>2. \A j \in Ids : QueuedOnce(j) => QueuedOnce(j)'
  BY DEF QueuedOnce
<1>3. ASSUME NEW j \in Ids, j # i PROVE ObjectInv(j)'
  <2>1. ObjectInv(j) /\ QueuedOnce(j)'
    BY <1>2 DEF ServeInv, ObjectInv, ReadOnce
  <2>2. \A b \in Actors : at'[b][j] = at[b][j]
    BY <1>1, <1>3
  <2>3. QED
    BY <1>3, <2>1, <2>2, UntouchedKeeps
<1>4. ObjectInv(i)'
  <2>1. ObjectInv(i)
    BY DEF ServeInv
  <2>2. \/ at'["read"][i] = at["read"][i]
        \/ /\ a = "read" /\ i \in Streams /\ at'["read"][i] = v
           /\ v = "done" \/ (v = "begun" /\ at["read"][i] = "idle")
    BY <1>1 DEF Actors
  <2>3. ReadOnce(i)'
    BY <1>2, <2>1, <2>2 DEF ObjectInv, ReadOnce
  <2>4. ReleasedAfter(i)'
    <3>1. CASE a \in {"close", "finalizer"}
      BY <1>1, <2>1, <3>1 DEF ObjectInv, ReleasedAfter, Actors
    <3>2. CASE a \notin {"close", "finalizer"}
      BY <1>1, <2>1, <3>2 DEF ObjectInv, ReleasedAfter, Actors
    <3>3. QED
      BY <3>1, <3>2
  <2>5. Usable(i)'
    <3>1. CASE a \in {"close", "finalizer"} /\ proxy'[i] \notin Early
      BY <3>1 DEF Usable, Early
    <3>2. CASE proxy'[i] = proxy[i]
      BY <2>1, <2>2, <3>2 DEF ObjectInv, Usable
    <3>3. QED
      BY <3>1, <3>2
  <2>6. Served(i)'
    BY <1>1, <2>1 DEF ObjectInv, Served
  <2>7. QED
    BY <2>3, <2>4, <2>5, <2>6 DEF ObjectInv
<1>5. QED
  BY <1>3, <1>4 DEF ServeInv

\* Runtime.close() moves on, or the runtime is terminated: requests stay.
LEMMA LifecycleKeeps ==
  ASSUME TypeOK, ServeInv, UNCHANGED << thread, jobs, proxy, at >>,
         \/ queue' = queue
         \/ queue' = Append(queue, ShutdownCommand) /\ owner' # "open",
         status' = "terminating" \/ (status' = status /\ registry' = registry),
         owner' = owner \/ owner' # "open"
  PROVE  ServeInv'
<1>1. \A a \in Actors, i \in Ids : << a, i >> \in ToSet(queue) => << a, i >> \in ToSet(queue')
  BY SendsOnce
<1>2. ASSUME NEW i \in Ids PROVE ObjectInv(i)'
  <2>1. ObjectInv(i)
    BY DEF ServeInv
  <2>2. ShutdownCommand # << "read", i >> /\ ShutdownCommand # << "close", i >>
        /\ ShutdownCommand # << "finalizer", i >>
    BY DEF ShutdownCommand
  <2>3. QueuedOnce(i)'
    BY <2>1, <2>2, SendsOnce DEF ObjectInv, ReadOnce, QueuedOnce
  <2>4. \A a \in {"read", "close", "finalizer"} :
          << a, i >> \in ToSet(queue') => << a, i >> \in ToSet(queue)
    BY <2>2, SendsOnce
  <2>5. ReadOnce(i)'
    BY <2>1, <2>3, <2>4 DEF ObjectInv, ReadOnce
  <2>6. owner' = "open" => << "owner", i >> \notin ToSet(queue')
    BY <2>1 DEF ObjectInv, ReleasedAfter
  <2>7. ReleasedAfter(i)'
    BY <2>1, <2>4, <2>6 DEF ObjectInv, ReleasedAfter
  <2>8. Usable(i)' /\ Served(i)'
    BY <1>1, <2>1 DEF ObjectInv, Usable, Served
  <2>9. QED
    BY <2>5, <2>7, <2>8 DEF ObjectInv
<1>3. QED
  BY <1>2 DEF ServeInv

\* An object is registered, or its proxy is made.
LEMMA ArrivesKeeps ==
  ASSUME TypeOK, ServeInv, NEW i \in Ids, Converts(i) \/ Delivers(i)
  PROVE  ServeInv'
<1> USE DEF threadVars, handleVars, pythonVars
<1>1. /\ UNCHANGED << status, thread, queue, jobs, owner, at >>
      /\ \A j \in Ids \ {i} : proxy'[j] = proxy[j]
      /\ registry \subseteq registry'
      /\ \/ proxy[i] = "unborn" /\ i \in registry'
         \/ proxy[i] = "answered" /\ proxy'[i] = "open"
      /\ proxy[i] \in Early
  BY DEF Converts, Delivers, TypeOK, StateTypes, Early
<1>2. \A j \in Ids : QueuedOnce(j) => QueuedOnce(j)'
  BY <1>1 DEF QueuedOnce
<1>3. ASSUME NEW j \in Ids, j # i PROVE ObjectInv(j)'
  BY <1>1, <1>2, <1>3, UntouchedKeeps DEF ServeInv, ObjectInv, ReadOnce
<1>4. ObjectInv(i)'
  <2>1. ObjectInv(i)
    BY DEF ServeInv
  <2>2. ReadOnce(i)' /\ ReleasedAfter(i)' /\ Served(i)'
    BY <1>1, <1>2, <2>1 DEF ObjectInv, ReadOnce, ReleasedAfter, Served
  <2>3. Usable(i)'
    BY <1>1, <2>1 DEF ObjectInv, Usable
  <2>4. QED
    BY <2>2, <2>3 DEF ObjectInv
<1>5. QED
  BY <1>3, <1>4 DEF ServeInv

\* No step leaves anybody waiting for nothing, or a proxy without its object.
LEMMA ServeStep ==
  ASSUME TypeOK, ServeInv, Next PROVE ServeInv'
<1> USE DEF threadVars, handleVars, pythonVars
<1>1. Functions \subseteq Ids /\ Streams \subseteq Ids /\ Functions \cap Streams = {}
      /\ Actors = {"close", "finalizer", "owner", "read"}
  BY HandlesAssumption DEF Ids, Actors
<1>2. ASSUME NEW a \in Actors, NEW f \in Functions, ReleaseFunction(a, f)
      PROVE  ServeInv'
  <2>1. \E v \in {"ok", "failed"} : Answered(a, f, v)
    BY <1>2 DEF ReleaseFunction
  <2>2. /\ Receives(a, f) /\ registry \ {f} \subseteq registry'
        /\ UNCHANGED << status, thread, jobs, proxy, owner >>
    BY <1>2 DEF ReleaseFunction
  <2>3. QED
    BY <1>1, <2>1, <2>2, ReleaseKeeps
<1>3. ASSUME NEW a \in Actors, NEW s \in Streams, ReleaseStream(a, s)
      PROVE  ServeInv'
  BY <1>1, <1>3, ReleaseKeeps DEF ReleaseStream
<1>4. ASSUME NEW s \in Streams,
             StreamRead(s) \/ \E r \in {"idle", "ended"} : ReadSettles(s, r)
      PROVE  ServeInv'
  BY <1>4, ReadKeeps, SettleKeeps
<1>5. CASE ShutsDown
  BY <1>5, DropsKeeps DEF ShutsDown
<1>6. CASE Finalizes
  <2>1. CASE Drops
    BY <1>6, <2>1, DropsKeeps DEF Finalizes
  <2>2. CASE UNCHANGED << thread, queue, jobs, at >>
    BY <1>6, <2>2, LifecycleKeeps DEF Finalizes
  <2>3. QED
    BY <1>6, <2>1, <2>2 DEF Finalizes
<1>7. ASSUME NEW a \in Actors, NEW i \in Ids, Asks(a, i) PROVE ServeInv'
  BY <1>7, AsksKeeps
<1>8. ASSUME NEW a \in {"close", "finalizer", "owner"}, NEW i \in Ids,
             (i \in Functions /\ FunctionUntracked(a, i))
               \/ (i \in Streams /\ StreamUntracked(a, i))
      PROVE  ServeInv'
  <2>1. /\ at' = [at EXCEPT ![a][i] = "done"] /\ at[a][i] \in {"ok", "failed"}
        /\ UNCHANGED << threadVars, pythonVars >>
    BY <1>8 DEF FunctionUntracked, StreamUntracked, Becomes
  <2>2. "done" \in StagesOf(a, i) /\ a \in Actors
    BY <1>1 DEF StagesOf, Stages
  <2>3. ObjectInv(i)
    BY DEF ServeInv
  <2>4. \/ a \in {"close", "finalizer"} /\ proxy[i] \notin Early
        \/ a = "owner" /\ owner # "open"
    BY <2>1, <2>3 DEF ObjectInv, ReleasedAfter
  <2>5. QED
    BY <2>1, <2>2, <2>4, MoveKeeps
<1>9. ASSUME NEW f \in Functions, FunctionReleased(f) \/ FinalizerChecks(f)
      PROVE  ServeInv'
  <2>1. PICK a \in {"owner", "finalizer"}, v \in {"begun", "done"} :
          /\ at' = [at EXCEPT ![a][f] = v] /\ at[a][f] # "idle"
          /\ UNCHANGED << threadVars, pythonVars >>
    BY <1>9 DEF FunctionReleased, FinalizerChecks, Becomes
  <2>2. v \in StagesOf(a, f) /\ a \in Actors /\ f \in Ids
    BY <1>1 DEF StagesOf, Stages
  <2>3. ObjectInv(f)
    BY <2>2 DEF ServeInv
  <2>4. \/ a = "finalizer" /\ proxy[f] \notin Early
        \/ a = "owner" /\ owner # "open"
    BY <2>1, <2>3 DEF ObjectInv, ReleasedAfter
  <2>5. QED
    BY <2>1, <2>2, <2>4, MoveKeeps
<1>10. ASSUME NEW i \in Ids, CloseReleases(i) PROVE ServeInv'
  <2>1. /\ at' = [at EXCEPT !["owner"][i] = "begun"] /\ owner # "open"
        /\ UNCHANGED << threadVars, proxy, owner >>
    BY <1>10 DEF CloseReleases, Becomes
  <2>2. "begun" \in StagesOf("owner", i) /\ "owner" \in Actors
    BY <1>1 DEF StagesOf, Stages
  <2>3. QED
    BY <2>1, <2>2, MoveKeeps
<1>11. CASE CloseMovesOn \/ CloseStops \/ CloseFails \/ CloseBegins \/ Terminated
  <2>1. /\ UNCHANGED << thread, jobs, registry, proxy, at >>
        /\ \/ queue' = queue
           \/ queue' = Append(queue, ShutdownCommand) /\ owner' # "open"
        /\ status' = "terminating" \/ status' = status
        /\ owner' = owner \/ owner' # "open"
    BY <1>11 DEF CloseMovesOn, CloseStops, CloseFails, CloseBegins, Drains, Terminated
  <2>2. QED
    BY <2>1, LifecycleKeeps
<1>12. ASSUME NEW i \in Ids, Converts(i) \/ Delivers(i) PROVE ServeInv'
  BY <1>12, ArrivesKeeps
<1>13. ASSUME NEW s \in Streams, ReadEnds(s) \/ Reads(s) \/ ReadCancelled(s)
       PROVE  ServeInv'
  <2>1. PICK v \in {"begun", "done"} :
          /\ at' = [at EXCEPT !["read"][s] = v]
          /\ v = "begun" => at["read"][s] = "idle"
          /\ UNCHANGED << threadVars, proxy, owner >>
    BY <1>13 DEF ReadEnds, Reads, ReadCancelled, Becomes
  <2>2. v \in StagesOf("read", s) /\ "read" \in Actors /\ s \in Ids
    BY <1>1 DEF StagesOf, Stages
  <2>3. QED
    BY <2>1, <2>2, MoveKeeps
<1>14. ASSUME NEW i \in Ids,
              Collects(i) \/ (i \in Functions /\ ClosesFunction(i))
                \/ (i \in Streams /\ ClosesStream(i))
       PROVE  ServeInv'
  <2>1. PICK a \in {"close", "finalizer"}, v \in {"called", "begun", "done"} :
          UNCHANGED at \/ at' = [at EXCEPT ![a][i] = v]
    BY <1>14 DEF Collects, ClosesFunction, ClosesStream, CancelsStream, Becomes
  <2>2. /\ proxy'[i] \in {"closed", "collected"}
        /\ \A j \in Ids \ {i} : proxy'[j] = proxy[j]
        /\ UNCHANGED << threadVars, owner >>
    BY <1>14 DEF Collects, ClosesFunction, ClosesStream, TypeOK, StateTypes
  <2>3. v \in StagesOf(a, i) /\ a \in Actors /\ proxy'[i] \notin Early
    BY <1>1, <2>2 DEF StagesOf, Stages, Early
  <2>4. QED
    BY <2>1, <2>2, <2>3, MoveKeeps
<1>15. ASSUME NEW f \in Functions, CloseCancelled(f) PROVE ServeInv'
  <2>1. /\ at' = [at EXCEPT !["close"][f] = "done"] /\ at["close"][f] # "idle"
        /\ UNCHANGED << threadVars, pythonVars >>
    BY <1>15 DEF CloseCancelled, Becomes
  <2>2. "done" \in StagesOf("close", f) /\ "close" \in Actors /\ f \in Ids
    BY <1>1 DEF StagesOf, Stages
  <2>3. proxy[f] \notin Early
    BY <2>1, <2>2 DEF ServeInv, ObjectInv, ReleasedAfter
  <2>4. QED
    BY <2>1, <2>2, <2>3, MoveKeeps
<1>16. \A a \in Actors, f \in Functions : FunctionUntracked(a, f) => a # "read"
  BY DEF FunctionUntracked
<1>17. \A a \in Actors, s \in Streams : StreamUntracked(a, s) => a # "read"
  BY DEF StreamUntracked
<1>18. QED
  BY <1>1, <1>2, <1>3, <1>4, <1>5, <1>6, <1>7, <1>8, <1>9, <1>10, <1>11, <1>12, <1>13,
     <1>14, <1>15, <1>16, <1>17
  DEF Next, Serves, Progress, Carries, OwnerCarries, FinalizerCarries, Guest, Application

\* The invariant above, for every set of functions and of streams.
THEOREM ServeInvariant == Spec => []ServeInv
<1>1. Init => ServeInv
  <2> SUFFICES ASSUME Init, NEW i \in Ids PROVE ObjectInv(i)
    BY DEF ServeInv
  <2>1. ToSet(queue) = {} /\ DOMAIN queue = {} /\ jobs = {}
    BY DEF Init, ToSet
  <2>2. \A a \in Actors : at[a][i] = "idle"
    BY DEF Init
  <2>3. proxy[i] = "unborn"
    BY DEF Init
  <2>4. QED
    BY <2>1, <2>2, <2>3
    DEF ObjectInv, ReadOnce, QueuedOnce, ReleasedAfter, Usable, Served, Actors
<1>2. ServeInv /\ UNCHANGED vars => ServeInv'
  BY DEF vars, threadVars, handleVars, pythonVars, ServeInv, ObjectInv, ReadOnce,
     QueuedOnce, ReleasedAfter, Usable, Served
<1>3. TypeOK /\ ServeInv /\ [Next]_vars => ServeInv'
  BY <1>2, ServeStep
<1>4. QED
  BY <1>1, <1>3, TypeCorrect, PTL DEF Spec

\* Whoever waits for the runtime thread has a command in the channel or a read
\* among its jobs, and the thread is there: no path of the thread forgets a
\* responder, and a thread that ends leaves nobody waiting.
THEOREM WaitersAreServed == Spec => []WaiterServed
BY ServeInvariant, ServeImplied, PTL

\* A proxy that is open has its object in the registry until the runtime is
\* terminated or closed: no finalizer, close() or drain of another owner takes
\* it away, and only the end of its iteration takes a stream.
THEOREM OpenProxiesWork == Spec => []OpenIsUsable
BY ServeInvariant, ServeImplied, PTL
=============================================================================

-------------------------- MODULE PyStreamsProofs --------------------------
(***************************************************************************)
(* Theorems about PyStreams, for every set of streams and of views.        *)
(***************************************************************************)
EXTENDS PyStreams, TLAPS

\* The stages of a cancel, and of a pull.
CancelStages == {"none", "spawned", "removed", "closing", "done", "failed", "dropped"}

\* The cancel of one canceller moves, and no other does.
LEMMA CancelMoves ==
  ASSUME TypeOK, NEW c \in Cancellers, NEW s \in Streams, NEW to \in CancelStages,
         cancel' = [cancel EXCEPT ![c][s] = to]
  PROVE  /\ cancel' \in [Cancellers -> [Streams -> CancelStages]]
         /\ \A d \in Cancellers, t \in Streams :
              cancel'[d][t] = IF d = c /\ t = s THEN to ELSE cancel[d][t]
<1>1. cancel \in [Cancellers -> [Streams -> CancelStages]]
  BY DEF TypeOK, CancelStages
<1>2. [cancel[c] EXCEPT ![s] = to] \in [Streams -> CancelStages]
  BY <1>1
<1>3. QED
  BY <1>1, <1>2

\* The pull of one view moves, and no other does.
LEMMA PullMoves ==
  ASSUME TypeOK, NEW v \in Views, NEW from, NEW to, Pulls(v, from, to)
  PROVE  /\ pull[v] = from
         /\ \A w \in Views : pull'[w] = IF w = v THEN to ELSE pull[w]
BY DEF Pulls, TypeOK

-----------------------------------------------------------------------------
(* Type correctness *)

\* Nothing is registered and nobody reads.
LEMMA TypeInit == Init => TypeOK
<1> SUFFICES ASSUME Init PROVE TypeOK
  OBVIOUS
<1>1. cancel \in [Cancellers -> [Streams -> CancelStages]]
  BY DEF Init, CancelStages
<1>2. QED
  BY <1>1 DEF Init, TypeOK, CancelStages

\* What each step does to the types.
LEMMA TypeStep == ASSUME TypeOK, Next PROVE TypeOK'
<1> USE DEF registryVars, pythonVars, guestVars, lifeVars
<1>1. HostCancellers \subseteq Cancellers /\ Views \subseteq Cancellers
  BY DEF Cancellers
<1>2. ASSUME NEW s \in Streams, Registers(s) PROVE TypeOK'
  BY <1>2 DEF Registers, TypeOK
<1>3. ASSUME NEW v \in Views, NEW s \in Streams, Transfers(v, s) PROVE TypeOK'
  BY <1>3 DEF Transfers, TypeOK
<1>4. ASSUME NEW s \in Streams, NEW c \in HostCancellers, CancelAsync(c, s),
             source' \in [Streams -> {"none", "open", "closed", "collected"}],
             \A t \in Streams : source'[t] = "none" => source[t] = "none",
             UNCHANGED << iterator, running, guestVars, raced, lifeVars >>
      PROVE  TypeOK'
  <2>1. cancel' \in [Cancellers -> [Streams -> CancelStages]]
    BY <1>1, <1>4, CancelMoves DEF CancelAsync, CancelStages
  <2>2. QED
    BY <1>4, <2>1 DEF CancelAsync, TypeOK, CancelStages
<1>5. ASSUME NEW s \in Streams, SourceCloses(s) \/ SourceCollected(s) PROVE TypeOK'
  <2>1. /\ source' \in [Streams -> {"none", "open", "closed", "collected"}]
        /\ \A t \in Streams : source'[t] = "none" => source[t] = "none"
        /\ UNCHANGED << iterator, running, guestVars, raced, lifeVars >>
    BY <1>5 DEF SourceCloses, SourceCollected, TypeOK
  <2>2. CancelAsync("close", s) \/ CancelAsync("finalizer", s)
    BY <1>5 DEF SourceCloses, SourceCollected
  <2>3. QED
    BY <1>4, <2>1, <2>2 DEF HostCancellers
<1>6. CASE OwnerCloses
  <2>1. cancel' \in [Cancellers -> [Streams -> CancelStages]]
    <3>1. [s \in Streams |-> IF s \in tracked THEN "spawned" ELSE "none"]
            \in [Streams -> CancelStages]
      BY DEF CancelStages
    <3>2. QED
      BY <1>6, <3>1 DEF OwnerCloses, TypeOK, CancelStages
  <2>2. QED
    BY <1>6, <2>1 DEF OwnerCloses, TypeOK, CancelStages
<1>7. ASSUME NEW v \in Views, Reads(v) \/ FindsEntry(v) \/ EnsuresIterator(v) \/ Starts(v)
      PROVE  TypeOK'
  BY <1>7 DEF Reads, FindsEntry, EnsuresIterator, Starts, Pulls, TypeOK
<1>8. ASSUME NEW v \in Views, Advances(v) \/ Resumes(v) PROVE TypeOK'
  <2>1. CASE Advances(v)
    <3>1. shows[v] \in Streams
      BY <2>1 DEF Advances, Pulls, TypeOK
    <3>2. running' \in [Streams -> SUBSET Views]
      BY <2>1, <3>1 DEF Advances, TypeOK
    <3>3. QED
      BY <2>1, <3>2 DEF Advances, Pulls, TypeOK
  <2>2. CASE Resumes(v)
    BY <2>2 DEF Resumes, Forgets, Pulls, TypeOK
  <2>3. QED
    BY <1>8, <2>1, <2>2
<1>9. ASSUME NEW v \in Views, NEW s \in Streams, NEW o \in {"chunk", "end", "error"},
             Settles(v, s, o)
      PROVE  TypeOK'
  BY <1>9 DEF Settles, TypeOK
<1>10. ASSUME NEW v \in Views, GuestCancels(v) PROVE TypeOK'
  <2>1. shows[v] \in Streams
    BY <1>10 DEF GuestCancels, TypeOK
  <2>2. cancel' \in [Cancellers -> [Streams -> CancelStages]]
    BY <1>1, <1>10, <2>1, CancelMoves DEF GuestCancels, CancelStages
  <2>3. QED
    BY <1>10, <2>2 DEF GuestCancels, TypeOK, CancelStages
<1>11. ASSUME NEW c \in Cancellers, NEW s \in Streams,
              Removes(c, s) \/ CallsAclose(c, s) \/ Closes(c, s)
       PROVE  TypeOK'
  <2>1. cancel' \in [Cancellers -> [Streams -> CancelStages]]
    BY <1>11, CancelMoves DEF Removes, CallsAclose, Closes, Cancels, CancelStages
  <2>2. QED
    BY <1>11, <2>1 DEF Removes, CallsAclose, Closes, Forgets, TypeOK, CancelStages
<1>12. CASE ThreadEnds
  <2>1. cancel' \in [Cancellers -> [Streams -> CancelStages]]
    <3>1. ASSUME NEW c \in Cancellers, NEW s \in Streams
          PROVE  (IF c \in Views /\ cancel[c][s] \in {"spawned", "removed", "closing"}
                    THEN "dropped" ELSE cancel[c][s]) \in CancelStages
      BY DEF TypeOK, CancelStages
    <3>2. QED
      BY <1>12, <3>1 DEF ThreadEnds
  <2>2. QED
    BY <1>12, <2>1 DEF ThreadEnds, TypeOK, CancelStages
<1>13. QED
  BY <1>2, <1>3, <1>5, <1>6, <1>7, <1>8, <1>9, <1>10, <1>11, <1>12
  DEF Next, HostTask, Pulling, Python, Application, Guest

\* Every variable keeps its type; only what has been registered is tracked, and
\* only a view that shows a stream is read.
THEOREM TypeCorrect == Spec => []TypeOK
<1>1. TypeOK /\ [Next]_vars => TypeOK'
  <2>1. TypeOK /\ UNCHANGED vars => TypeOK'
    BY DEF vars, registryVars, pythonVars, guestVars, lifeVars, TypeOK
  <2>2. QED
    BY <2>1, TypeStep
<1>2. QED
  BY <1>1, TypeInit, PTL DEF Spec

-----------------------------------------------------------------------------
(* The iterator *)

\* One __aiter__ runs at a time, for a stream that has no iterator; without one
\* nothing iterates and nothing is being closed.
IteratorOnce ==
  /\ \A v, w \in Views : pull[v] = "starting" /\ pull[w] = "starting" => v = w
  /\ \A v \in Views : pull[v] = "starting" => iterator[shows[v]] = "none"
  /\ \A v \in Views : pull[v] = "iterating" => iterator[shows[v]] # "none"
  /\ \A s \in Streams :
       iterator[s] = "none" => running[s] = {} /\ \A c \in Cancellers : cancel[c][s] # "closing"

\* A step of another thread's that moves no pull into __aiter__ or beyond it.
LEMMA IteratorOnceKept ==
  ASSUME TypeOK, IteratorOnce,
         \A v \in Views : pull'[v] \in {"starting", "iterating"} =>
           pull'[v] = pull[v] /\ shows'[v] = shows[v],
         \A s \in Streams :
           iterator'[s] = iterator[s] \/ (iterator[s] # "none" /\ iterator'[s] # "none"),
         \A s \in Streams : running'[s] \subseteq running[s],
         \A c \in Cancellers, s \in Streams :
           cancel'[c][s] = "closing" => cancel[c][s] = "closing" \/ iterator[s] # "none"
  PROVE  IteratorOnce'
<1>1. \A v, w \in Views : pull'[v] = "starting" /\ pull'[w] = "starting" => v = w
  BY DEF IteratorOnce
<1>2. ASSUME NEW v \in Views, pull'[v] \in {"starting", "iterating"}
      PROVE  /\ pull'[v] = pull[v] /\ shows'[v] = shows[v] /\ shows[v] \in Streams
             /\ iterator'[shows[v]] = "none" <=> iterator[shows[v]] = "none"
  BY <1>2 DEF TypeOK
<1>3. ASSUME NEW s \in Streams, iterator'[s] = "none"
      PROVE  running'[s] = {} /\ \A c \in Cancellers : cancel'[c][s] # "closing"
  BY <1>3 DEF IteratorOnce
<1>4. QED
  BY <1>1, <1>2, <1>3 DEF IteratorOnce

LEMMA IteratorOnceStep == ASSUME TypeOK, IteratorOnce, [Next]_vars PROVE IteratorOnce'
<1> USE DEF registryVars, pythonVars, guestVars, lifeVars
<1>1. ASSUME NEW s \in Streams, Registers(s) PROVE IteratorOnce'
  BY <1>1, IteratorOnceKept DEF Registers
<1>2. ASSUME NEW v \in Views, NEW s \in Streams, Transfers(v, s) PROVE IteratorOnce'
  <2>1. \A w \in Views : pull'[w] \in {"starting", "iterating"} => shows'[w] = shows[w]
    BY <1>2, PyStreamsAssumption DEF Transfers, TypeOK
  <2>2. QED
    BY <1>2, <2>1, IteratorOnceKept DEF Transfers
<1>3. ASSUME NEW c \in HostCancellers, NEW s \in Streams, CancelAsync(c, s),
             UNCHANGED << iterator, running, guestVars, raced, lifeVars >>
      PROVE  IteratorOnce'
  <2>1. \A d \in Cancellers, t \in Streams :
          cancel'[d][t] = IF d = c /\ t = s THEN "spawned" ELSE cancel[d][t]
    BY <1>3 DEF CancelAsync, TypeOK, Cancellers
  <2>2. QED
    BY <1>3, <2>1, IteratorOnceKept
<1>4. ASSUME NEW s \in Streams, SourceCloses(s) \/ SourceCollected(s) PROVE IteratorOnce'
  BY <1>3, <1>4 DEF SourceCloses, SourceCollected, HostCancellers
<1>5. CASE OwnerCloses
  <2>1. \A c \in Cancellers, s \in Streams :
          cancel'[c][s] = "closing" => cancel[c][s] = "closing"
    BY <1>5 DEF OwnerCloses, TypeOK, Cancellers, HostCancellers
  <2>2. QED
    BY <1>5, <2>1, IteratorOnceKept DEF OwnerCloses
<1>6. ASSUME NEW v \in Views, Reads(v) PROVE IteratorOnce'
  <2>1. \A w \in Views : pull'[w] = IF w = v THEN "asked" ELSE pull[w]
    BY <1>6 DEF Reads, TypeOK
  <2>2. QED
    BY <1>6, <2>1, IteratorOnceKept DEF Reads
<1>7. ASSUME NEW v \in Views, FindsEntry(v) PROVE IteratorOnce'
  <2>1. PICK to \in {"held", "error"} : Pulls(v, "asked", to)
    BY <1>7 DEF FindsEntry
  <2>2. QED
    BY <1>7, <2>1, PullMoves, IteratorOnceKept DEF FindsEntry
<1>8. ASSUME NEW v \in Views, EnsuresIterator(v) PROVE IteratorOnce'
  <2>1. PICK to \in {"starting", "iterating"} :
          /\ Pulls(v, "held", to)
          /\ iterator[shows[v]] = "none" <=> to = "starting"
          /\ UNCHANGED << iterator, running, shows, cancel >>
    BY <1>8 DEF EnsuresIterator
  <2>2. \A w \in Views : pull[w] # "starting"
    BY <2>1 DEF Pulls, ThreadFree
  <2>3. \A w \in Views : pull'[w] = IF w = v THEN to ELSE pull[w]
    BY <2>1, PullMoves
  <2>4. QED
    BY <2>1, <2>2, <2>3 DEF IteratorOnce
<1>9. ASSUME NEW v \in Views, Starts(v) PROVE IteratorOnce'
  <2>1. PICK to \in {"iterating", "error"} :
          /\ Pulls(v, "starting", to)
          /\ \/ to = "iterating" /\ iterator' = [iterator EXCEPT ![shows[v]] = "ready"]
             \/ to = "error" /\ UNCHANGED iterator
    BY <1>9 DEF Starts
  <2>2. /\ pull[v] = "starting" /\ shows[v] \in Streams
        /\ \A w \in Views : pull'[w] = IF w = v THEN to ELSE pull[w]
        /\ \A s \in Streams :
             iterator'[s] = IF s = shows[v] /\ to = "iterating" THEN "ready" ELSE iterator[s]
        /\ UNCHANGED << running, shows, cancel >>
    BY <1>9, <2>1, PullMoves DEF Starts, TypeOK
  <2>3. \A w \in Views : pull'[w] # "starting"
    BY <2>1, <2>2 DEF IteratorOnce
  <2>4. ASSUME NEW w \in Views, pull'[w] = "iterating"
        PROVE  iterator'[shows'[w]] # "none"
    <3>1. shows[w] \in Streams
      BY <2>2, <2>4 DEF TypeOK
    <3>2. QED
      BY <2>2, <2>4, <3>1 DEF IteratorOnce
  <2>5. QED
    BY <2>2, <2>3, <2>4 DEF IteratorOnce
<1>10. ASSUME NEW v \in Views, Advances(v) PROVE IteratorOnce'
  <2>1. PICK to \in {"awaiting", "error"} : Pulls(v, "iterating", to)
    BY <1>10 DEF Advances
  <2>2. /\ pull[v] = "iterating" /\ shows[v] \in Streams /\ iterator[shows[v]] # "none"
        /\ \A w \in Views : pull'[w] = IF w = v THEN to ELSE pull[w]
    BY <2>1, PullMoves DEF TypeOK, IteratorOnce
  <2>3. /\ \A s \in Streams : s # shows[v] => running'[s] = running[s]
        /\ UNCHANGED << iterator, shows, cancel >>
    BY <1>10 DEF Advances, TypeOK
  <2>4. QED
    BY <2>1, <2>2, <2>3 DEF IteratorOnce
<1>11. ASSUME NEW v \in Views, NEW s \in Streams, NEW o \in {"chunk", "end", "error"},
              Settles(v, s, o)
       PROVE  IteratorOnce'
  <2>1. /\ iterator[s] # "none" /\ UNCHANGED << shows, cancel >>
        /\ \A t \in Streams : running'[t] \subseteq running[t]
        /\ \A t \in Streams :
             iterator'[t] = iterator[t] \/ (t = s /\ iterator'[t] \in {iterator[s], "over"})
    BY <1>11 DEF Settles, TypeOK, IteratorOnce
  <2>2. \A w \in Views : pull'[w] = pull[w] \/ pull'[w] = o
    BY <1>11 DEF Settles, TypeOK
  <2>3. QED
    BY <2>1, <2>2, IteratorOnceKept
<1>12. ASSUME NEW v \in Views, Resumes(v) PROVE IteratorOnce'
  <2>1. PICK from \in {"chunk", "error", "end"} : Pulls(v, from, "idle")
    BY <1>12 DEF Resumes
  <2>2. QED
    BY <1>12, <2>1, PullMoves, IteratorOnceKept DEF Resumes
<1>13. ASSUME NEW v \in Views, GuestCancels(v) PROVE IteratorOnce'
  <2>1. \A c \in Cancellers, s \in Streams :
          cancel'[c][s] = "closing" => cancel[c][s] = "closing"
    BY <1>13 DEF GuestCancels, TypeOK, Cancellers
  <2>2. QED
    BY <1>13, <2>1, IteratorOnceKept DEF GuestCancels
<1>14. ASSUME NEW c \in Cancellers, NEW s \in Streams,
              Removes(c, s) \/ CallsAclose(c, s) \/ Closes(c, s)
       PROVE  IteratorOnce'
  <2>1. PICK from \in {"spawned", "removed", "closing"},
             to \in {"removed", "done", "closing", "failed"} :
          Cancels(c, s, from, to) /\ (to = "closing" => iterator[s] # "none")
    BY <1>14 DEF Removes, CallsAclose, Closes
  <2>2. \A d \in Cancellers, t \in Streams :
          cancel'[d][t] = IF d = c /\ t = s THEN to ELSE cancel[d][t]
    BY <2>1 DEF Cancels, TypeOK
  <2>3. /\ UNCHANGED << running, pull, shows >>
        /\ \A t \in Streams :
             iterator'[t] = iterator[t] \/ (iterator[t] # "none" /\ iterator'[t] = "over")
    BY <1>14 DEF Removes, CallsAclose, Closes, Cancels, TypeOK, IteratorOnce
  <2>4. QED
    BY <2>1, <2>2, <2>3, IteratorOnceKept
<1>15. CASE ThreadEnds
  <2>1. \A c \in Cancellers, s \in Streams :
          cancel'[c][s] = "closing" => cancel[c][s] = "closing"
    BY <1>15 DEF ThreadEnds
  <2>2. \A v \in Views : pull'[v] = "gone"
    BY <1>15 DEF ThreadEnds
  <2>3. QED
    BY <1>15, <2>1, <2>2, IteratorOnceKept DEF ThreadEnds
<1>16. CASE UNCHANGED vars
  BY <1>16, IteratorOnceKept DEF vars
<1>17. QED
  BY <1>1, <1>2, <1>4, <1>5, <1>6, <1>7, <1>8, <1>9, <1>10, <1>11, <1>12, <1>13, <1>14,
     <1>15, <1>16
  DEF Next, HostTask, Pulling, Python, Application, Guest, Cancellers

\* An iterable is asked for its iterator once, by one pull, and what iterates or is
\* closed is that iterator (PyStreamEntry::ensure_iterator and its mutex).
THEOREM OneIterator == Spec => []IteratorOnce
<1>1. Init => IteratorOnce
  BY DEF Init, IteratorOnce
<1>2. TypeOK /\ IteratorOnce /\ [Next]_vars => IteratorOnce'
  BY IteratorOnceStep
<1>3. QED
  BY <1>1, <1>2, TypeCorrect, PTL DEF Spec

-----------------------------------------------------------------------------
(* The invariant *)

\* A cancel that was asked for has a cause, and the cause shows.
CancelJustified ==
  \A s \in Streams :
    /\ \A v \in Views : cancel[v][s] # "none" => v \in shut /\ shows[v] = s
    /\ cancel["close"][s] # "none" => source[s] \in {"closed", "collected"}
    /\ cancel["finalizer"][s] # "none" => source[s] = "collected"
    /\ cancel["owner"][s] # "none" => owner = "closed"

\* An iterator runs for the views of its own stream, and a view is told of an
\* end by an iterator that is over.
ReadsHonest ==
  /\ \A s \in Streams, v \in Views : v \in running[s] => shows[v] = s
  /\ \A v \in Views : pull[v] = "end" => iterator[shows[v]] = "over"

\* Who still reads a stream that was taken away was reading it before.
ReadsAccounted ==
  \A s \in Streams :
    (BeingRead(s) /\ s \notin entries) => s \in raced \/ iterator[s] = "over"

StreamInv ==
  /\ EntryHasExit /\ TrackedIsRegistered /\ KeptWhileInUse /\ QuietCancelCloses
  /\ CancelJustified /\ ReadsHonest /\ ReadsAccounted

\* A new runtime has no streams.
LEMMA StreamInit == Init => StreamInv
<1> SUFFICES ASSUME Init PROVE StreamInv
  OBVIOUS
<1>1. \A c \in Cancellers, s \in Streams : cancel[c][s] = "none"
  BY DEF Init
<1>2. EntryHasExit /\ TrackedIsRegistered /\ KeptWhileInUse /\ QuietCancelCloses
  BY DEF Init, EntryHasExit, TrackedIsRegistered, KeptWhileInUse, QuietCancelCloses
<1>3. CancelJustified
  BY <1>1 DEF CancelJustified, Cancellers, HostCancellers
<1>4. ReadsHonest /\ ReadsAccounted
  BY DEF Init, ReadsHonest, ReadsAccounted, BeingRead
<1>5. QED
  BY <1>2, <1>3, <1>4 DEF StreamInv

\* A new stream is tracked, and nobody has cancelled it.
LEMMA RegistersKeeps ==
  ASSUME TypeOK, StreamInv, NEW s \in Streams, Registers(s)
  PROVE  StreamInv'
<1> USE DEF registryVars, pythonVars, guestVars, lifeVars
<1>1. ReadsHonest'
  BY DEF Registers, StreamInv, ReadsHonest
<1>2. EntryHasExit'
  BY DEF Registers, TypeOK, StreamInv, EntryHasExit
<1>3. TrackedIsRegistered'
  BY DEF Registers, TypeOK, StreamInv, TrackedIsRegistered
<1>4. KeptWhileInUse'
  BY DEF Registers, TypeOK, StreamInv, KeptWhileInUse
<1>5. QuietCancelCloses'
  BY DEF Registers, TypeOK, StreamInv, QuietCancelCloses
<1>6. CancelJustified'
  BY DEF Registers, TypeOK, StreamInv, CancelJustified
<1>7. ReadsAccounted'
  BY DEF Registers, TypeOK, StreamInv, ReadsAccounted, BeingRead
<1>8. QED
  BY <1>1, <1>2, <1>3, <1>4, <1>5, <1>6, <1>7 DEF StreamInv

\* A new view is not read yet.
LEMMA TransfersKeeps ==
  ASSUME TypeOK, StreamInv, NEW v \in Views, NEW s \in Streams, Transfers(v, s)
  PROVE  StreamInv'
<1> USE DEF registryVars, pythonVars, guestVars, lifeVars
<1>1. \A w \in Views : shows'[w] = IF w = v THEN s ELSE shows[w]
  BY DEF Transfers, TypeOK
<1>2. EntryHasExit' /\ TrackedIsRegistered' /\ QuietCancelCloses'
  BY DEF Transfers, StreamInv, EntryHasExit, TrackedIsRegistered, QuietCancelCloses
<1>3. KeptWhileInUse'
  BY <1>1, PyStreamsAssumption DEF Transfers, TypeOK, StreamInv, KeptWhileInUse
<1>4. CancelJustified'
  BY <1>1, PyStreamsAssumption DEF Transfers, TypeOK, StreamInv, CancelJustified
<1>5. ReadsHonest'
  BY <1>1, PyStreamsAssumption DEF Transfers, TypeOK, StreamInv, ReadsHonest
<1>6. ReadsAccounted'
  BY <1>1, PyStreamsAssumption DEF Transfers, TypeOK, StreamInv, ReadsAccounted,
       BeingRead
<1>7. QED
  BY <1>2, <1>3, <1>4, <1>5, <1>6 DEF StreamInv

\* The source's close() cancels what it untracks.
LEMMA SourceClosesKeeps ==
  ASSUME TypeOK, StreamInv, NEW s \in Streams, SourceCloses(s)
  PROVE  StreamInv'
<1> USE DEF registryVars, pythonVars, guestVars, lifeVars
<1>1. \A d \in Cancellers, t \in Streams :
       cancel'[d][t] = IF d = "close" /\ t = s THEN "spawned" ELSE cancel[d][t]
  BY CancelMoves, ZenonT(80)
  DEF SourceCloses, CancelAsync, CancelStages, Cancellers, HostCancellers
<1>2. ReadsHonest' /\ ReadsAccounted'
  BY DEF SourceCloses, CancelAsync, StreamInv, ReadsHonest, ReadsAccounted, BeingRead
<1>3. EntryHasExit'
  BY <1>1 DEF SourceCloses, CancelAsync, TypeOK, StreamInv, EntryHasExit, Cancellers,
       HostCancellers
<1>4. TrackedIsRegistered'
  BY <1>1 DEF SourceCloses, CancelAsync, TypeOK, StreamInv, TrackedIsRegistered
<1>5. KeptWhileInUse'
  BY <1>1 DEF SourceCloses, CancelAsync, TypeOK, StreamInv, KeptWhileInUse
<1>6. QuietCancelCloses'
  BY <1>1 DEF SourceCloses, CancelAsync, TypeOK, StreamInv, QuietCancelCloses,
       Cancellers, HostCancellers, CancelJustified
<1>7. CancelJustified'
  BY <1>1, PyStreamsAssumption DEF SourceCloses, CancelAsync, TypeOK, StreamInv,
       CancelJustified, Cancellers, HostCancellers
<1>8. QED
  BY <1>2, <1>3, <1>4, <1>5, <1>6, <1>7 DEF StreamInv

\* So does its finalizer.
LEMMA SourceCollectedKeeps ==
  ASSUME TypeOK, StreamInv, NEW s \in Streams, SourceCollected(s)
  PROVE  StreamInv'
<1> USE DEF registryVars, pythonVars, guestVars, lifeVars
<1>1. \A d \in Cancellers, t \in Streams :
       cancel'[d][t] = IF d = "finalizer" /\ t = s THEN "spawned" ELSE cancel[d][t]
  BY CancelMoves DEF SourceCollected, CancelAsync, CancelStages, Cancellers, HostCancellers
<1>2. ReadsHonest' /\ ReadsAccounted'
  BY DEF SourceCollected, CancelAsync, StreamInv, ReadsHonest, ReadsAccounted, BeingRead
<1>3. EntryHasExit'
  BY <1>1 DEF SourceCollected, CancelAsync, TypeOK, StreamInv, EntryHasExit, Cancellers,
       HostCancellers
<1>4. TrackedIsRegistered'
  BY <1>1 DEF SourceCollected, CancelAsync, TypeOK, StreamInv, TrackedIsRegistered
<1>5. KeptWhileInUse'
  BY <1>1 DEF SourceCollected, CancelAsync, TypeOK, StreamInv, KeptWhileInUse
<1>6. QuietCancelCloses'
  BY <1>1 DEF SourceCollected, CancelAsync, TypeOK, StreamInv, QuietCancelCloses,
       Cancellers, HostCancellers, CancelJustified
<1>7. CancelJustified'
  BY <1>1, PyStreamsAssumption DEF SourceCollected, CancelAsync, TypeOK, StreamInv,
       CancelJustified, Cancellers, HostCancellers
<1>8. QED
  BY <1>2, <1>3, <1>4, <1>5, <1>6, <1>7 DEF StreamInv

\* Runtime.close() cancels everything that is tracked.
LEMMA OwnerClosesKeeps ==
  ASSUME TypeOK, StreamInv, OwnerCloses
  PROVE  StreamInv'
<1> USE DEF registryVars, pythonVars, guestVars, lifeVars
<1>1. \A d \in Cancellers, t \in Streams :
       cancel'[d][t] = IF d # "owner" THEN cancel[d][t]
                       ELSE IF t \in tracked THEN "spawned" ELSE "none"
  BY DEF OwnerCloses, TypeOK
<1>2. ReadsHonest' /\ ReadsAccounted'
  BY DEF OwnerCloses, StreamInv, ReadsHonest, ReadsAccounted, BeingRead
<1>3. EntryHasExit'
  BY <1>1 DEF OwnerCloses, TypeOK, StreamInv, EntryHasExit, Cancellers, HostCancellers,
       CancelJustified
<1>4. TrackedIsRegistered'
  BY <1>1 DEF OwnerCloses, TypeOK, StreamInv, TrackedIsRegistered
<1>5. KeptWhileInUse'
  BY <1>1 DEF OwnerCloses, TypeOK, StreamInv, KeptWhileInUse
<1>6. QuietCancelCloses'
  BY <1>1 DEF OwnerCloses, TypeOK, StreamInv, QuietCancelCloses, Cancellers,
       HostCancellers, CancelJustified
<1>7. CancelJustified'
  BY <1>1, PyStreamsAssumption DEF OwnerCloses, TypeOK, StreamInv, CancelJustified,
       Cancellers, HostCancellers
<1>8. QED
  BY <1>2, <1>3, <1>4, <1>5, <1>6, <1>7 DEF StreamInv

\* A read that begins has nothing yet.
LEMMA ReadsKeeps ==
  ASSUME TypeOK, StreamInv, NEW v \in Views, Reads(v)
  PROVE  StreamInv'
<1> USE DEF registryVars, pythonVars, guestVars, lifeVars
<1>1. EntryHasExit' /\ TrackedIsRegistered' /\ KeptWhileInUse'
      /\ QuietCancelCloses' /\ CancelJustified'
  BY DEF Reads, StreamInv, EntryHasExit, TrackedIsRegistered, KeptWhileInUse,
       QuietCancelCloses, CancelJustified
<1>2. ReadsHonest'
  BY DEF Reads, TypeOK, StreamInv, ReadsHonest
<1>3. ReadsAccounted'
  BY DEF Reads, TypeOK, StreamInv, ReadsAccounted, BeingRead
<1>4. QED
  BY <1>1, <1>2, <1>3 DEF StreamInv

\* A pull that gets hold of an entry finds it registered.
LEMMA FindsEntryKeeps ==
  ASSUME TypeOK, StreamInv, NEW v \in Views, FindsEntry(v)
  PROVE  StreamInv'
<1> USE DEF registryVars, pythonVars, guestVars, lifeVars
<1>1. PICK to \in {"held", "error"} :
       Pulls(v, "asked", to) /\ (to = "held" => shows[v] \in entries)
  BY DEF FindsEntry
<1>2. \A w \in Views : pull'[w] = IF w = v THEN to ELSE pull[w]
  BY <1>1, PullMoves
<1>3. EntryHasExit' /\ TrackedIsRegistered' /\ KeptWhileInUse'
      /\ QuietCancelCloses' /\ CancelJustified'
  BY DEF FindsEntry, StreamInv, EntryHasExit, TrackedIsRegistered, KeptWhileInUse,
       QuietCancelCloses, CancelJustified
<1>4. ReadsHonest'
  BY <1>1, <1>2 DEF FindsEntry, TypeOK, StreamInv, ReadsHonest
<1>5. ReadsAccounted'
  BY <1>1, <1>2 DEF FindsEntry, TypeOK, StreamInv, ReadsAccounted, BeingRead
<1>6. QED
  BY <1>3, <1>4, <1>5 DEF StreamInv

\* A pull that calls __aiter__ keeps the entry.
LEMMA EnsuresIteratorKeeps ==
  ASSUME TypeOK, StreamInv, NEW v \in Views, EnsuresIterator(v)
  PROVE  StreamInv'
<1> USE DEF registryVars, pythonVars, guestVars, lifeVars
<1>1. PICK to \in {"starting", "iterating"} : Pulls(v, "held", to)
  BY DEF EnsuresIterator
<1>2. pull[v] = "held" /\ \A w \in Views : pull'[w] = IF w = v THEN to ELSE pull[w]
  BY <1>1, PullMoves
<1>3. EntryHasExit' /\ TrackedIsRegistered' /\ KeptWhileInUse'
      /\ QuietCancelCloses' /\ CancelJustified'
  BY DEF EnsuresIterator, StreamInv, EntryHasExit, TrackedIsRegistered, KeptWhileInUse,
       QuietCancelCloses, CancelJustified
<1>4. ReadsHonest'
  BY <1>1, <1>2 DEF EnsuresIterator, TypeOK, StreamInv, ReadsHonest
<1>5. ReadsAccounted'
  BY <1>1, <1>2 DEF EnsuresIterator, TypeOK, StreamInv, ReadsAccounted, BeingRead
<1>6. QED
  BY <1>3, <1>4, <1>5 DEF StreamInv

\* A pull that makes an iterator for a stream that is gone is accounted for.
LEMMA StartsKeeps ==
  ASSUME TypeOK, IteratorOnce, StreamInv, NEW v \in Views, Starts(v)
  PROVE  StreamInv'
<1> USE DEF registryVars, pythonVars, guestVars, lifeVars
<1>1. PICK to \in {"iterating", "error"} : Pulls(v, "starting", to)
  BY DEF Starts
<1>2. \A w \in Views : pull'[w] = IF w = v THEN to ELSE pull[w]
  BY <1>1, PullMoves
<1>3. /\ pull[v] = "starting" /\ shows[v] \in Streams /\ iterator[shows[v]] = "none"
  BY <1>1, PullMoves DEF TypeOK, IteratorOnce
<1>4. \A s \in Streams : \/ iterator'[s] = iterator[s]
                         \/ s = shows[v] /\ iterator[s] = "none" /\ iterator'[s] = "ready"
  BY <1>3 DEF Starts, TypeOK
<1>5. EntryHasExit' /\ TrackedIsRegistered' /\ KeptWhileInUse' /\ CancelJustified'
  BY DEF Starts, StreamInv, EntryHasExit, TrackedIsRegistered, KeptWhileInUse,
       CancelJustified
<1>6. QuietCancelCloses'
  BY <1>1, <1>2, <1>3, <1>4 DEF Starts, TypeOK, StreamInv, QuietCancelCloses,
       ReadsAccounted, BeingRead
<1>7. ReadsHonest'
  BY <1>1, <1>2, <1>3, <1>4 DEF Starts, TypeOK, StreamInv, ReadsHonest
<1>8. ReadsAccounted'
  BY <1>1, <1>2, <1>3, <1>4 DEF Starts, TypeOK, StreamInv, ReadsAccounted,
       BeingRead
<1>9. QED
  BY <1>5, <1>6, <1>7, <1>8 DEF StreamInv

\* An __anext__ that begins belongs to a pull that was under way.
LEMMA AdvancesKeeps ==
  ASSUME TypeOK, StreamInv, NEW v \in Views, Advances(v)
  PROVE  StreamInv'
<1> USE DEF registryVars, pythonVars, guestVars, lifeVars
<1>1. PICK to \in {"awaiting", "error"} : Pulls(v, "iterating", to)
  BY DEF Advances
<1>2. pull[v] = "iterating" /\ shows[v] \in Streams
      /\ \A w \in Views : pull'[w] = IF w = v THEN to ELSE pull[w]
  BY <1>1, PullMoves DEF TypeOK
<1>3. \A s \in Streams : running'[s] = running[s]
        \/ (s = shows[v] /\ running'[s] = running[s] \cup {v})
  BY <1>2 DEF Advances, TypeOK
<1>4. EntryHasExit' /\ TrackedIsRegistered' /\ KeptWhileInUse'
      /\ QuietCancelCloses' /\ CancelJustified'
  BY DEF Advances, StreamInv, EntryHasExit, TrackedIsRegistered, KeptWhileInUse,
       QuietCancelCloses, CancelJustified
<1>5. ReadsHonest'
  BY <1>1, <1>2, <1>3 DEF Advances, TypeOK, StreamInv, ReadsHonest
<1>6. ReadsAccounted'
  BY <1>1, <1>2, <1>3 DEF Advances, TypeOK, StreamInv, ReadsAccounted, BeingRead
<1>7. QED
  BY <1>4, <1>5, <1>6 DEF StreamInv

\* An iterator that is over stays so, and who hears of an end hears the truth.
LEMMA SettlesKeeps ==
  ASSUME TypeOK, StreamInv, NEW v \in Views, NEW s \in Streams,
         NEW o \in {"chunk", "end", "error"}, Settles(v, s, o)
  PROVE  StreamInv'
<1> USE DEF registryVars, pythonVars, guestVars, lifeVars
<1>1. EntryHasExit' /\ TrackedIsRegistered' /\ KeptWhileInUse' /\ CancelJustified'
  BY DEF Settles, StreamInv, EntryHasExit, TrackedIsRegistered, KeptWhileInUse,
       CancelJustified
<1>2. QuietCancelCloses'
  BY DEF Settles, TypeOK, StreamInv, QuietCancelCloses
<1>3. ReadsHonest'
  BY DEF Settles, TypeOK, StreamInv, ReadsHonest
<1>4. ReadsAccounted'
  BY DEF Settles, TypeOK, StreamInv, ReadsAccounted, BeingRead
<1>5. QED
  BY <1>1, <1>2, <1>3, <1>4 DEF StreamInv

\* A stream is released at its end, when its iterator is over.
LEMMA ResumesKeeps ==
  ASSUME TypeOK, StreamInv, NEW v \in Views, Resumes(v)
  PROVE  StreamInv'
<1> USE DEF registryVars, pythonVars, guestVars, lifeVars
<1>1. PICK from \in {"chunk", "end", "error"} :
       /\ Pulls(v, from, "idle")
       /\ from # "end" => UNCHANGED << registryVars, shut >>
       /\ from = "end" => Forgets(shows[v]) /\ shut' = shut \cup {v}
  BY DEF Resumes
<1>2. pull[v] = from /\ (\A w \in Views : pull'[w] = IF w = v THEN "idle" ELSE pull[w])
  BY <1>1, PullMoves
<1>3. from = "end" => iterator[shows[v]] = "over"
  BY <1>2 DEF StreamInv, ReadsHonest
<1>4. EntryHasExit'
  BY <1>1, <1>2, <1>3 DEF Resumes, Forgets, TypeOK, StreamInv, EntryHasExit
<1>5. TrackedIsRegistered'
  BY <1>1, <1>2, <1>3 DEF Resumes, Forgets, TypeOK, StreamInv, TrackedIsRegistered
<1>6. KeptWhileInUse'
  BY <1>1, <1>2, <1>3 DEF Resumes, Forgets, TypeOK, StreamInv, KeptWhileInUse
<1>7. QuietCancelCloses'
  BY <1>1, <1>2, <1>3 DEF Resumes, Forgets, TypeOK, StreamInv, QuietCancelCloses
<1>8. CancelJustified'
  BY <1>1, <1>2, <1>3 DEF Resumes, Forgets, TypeOK, StreamInv, CancelJustified
<1>9. ReadsHonest'
  BY <1>1, <1>2, <1>3 DEF Resumes, Forgets, TypeOK, StreamInv, ReadsHonest
<1>10. ReadsAccounted'
  BY <1>1, <1>2, <1>3 DEF Resumes, Forgets, TypeOK, StreamInv, ReadsAccounted, BeingRead
<1>11. QED
  BY <1>4, <1>5, <1>6, <1>7, <1>8, <1>9, <1>10 DEF StreamInv

\* A guest's cancel closes the view first.
LEMMA GuestCancelsKeeps ==
  ASSUME TypeOK, StreamInv, NEW v \in Views, GuestCancels(v)
  PROVE  StreamInv'
<1> USE DEF registryVars, pythonVars, guestVars, lifeVars
<1>1. shows[v] \in Streams
  BY DEF GuestCancels, TypeOK
<1>2. \A d \in Cancellers, t \in Streams :
       cancel'[d][t] = IF d = v /\ t = shows[v] THEN "spawned" ELSE cancel[d][t]
  <2>1. cancel' = [cancel EXCEPT ![v][shows[v]] = "spawned"]
    BY DEF GuestCancels
  <2>2. v \in Cancellers /\ "spawned" \in CancelStages
    BY DEF Cancellers, CancelStages
  <2>3. QED
    BY <1>1, <2>1, <2>2, CancelMoves
<1>3. TrackedIsRegistered' /\ ReadsHonest' /\ ReadsAccounted'
  BY DEF GuestCancels, StreamInv, TrackedIsRegistered, ReadsHonest, ReadsAccounted,
       BeingRead
<1>4. EntryHasExit'
  BY <1>1, <1>2, PyStreamsAssumption DEF GuestCancels, TypeOK, StreamInv, EntryHasExit,
       Cancellers, HostCancellers
<1>5. KeptWhileInUse'
  BY <1>1, <1>2 DEF GuestCancels, TypeOK, StreamInv, KeptWhileInUse
<1>6. QuietCancelCloses'
  BY <1>1, <1>2 DEF GuestCancels, TypeOK, StreamInv, QuietCancelCloses, Cancellers
<1>7. CancelJustified'
  BY <1>1, <1>2, PyStreamsAssumption DEF GuestCancels, TypeOK, StreamInv,
       CancelJustified, Cancellers, HostCancellers
<1>8. QED
  BY <1>3, <1>4, <1>5, <1>6, <1>7 DEF StreamInv

\* Whoever removes an entry had a cause to, and is going to close the iterator.
LEMMA RemovesKeeps ==
  ASSUME TypeOK, StreamInv, NEW c \in Cancellers, NEW s \in Streams, Removes(c, s)
  PROVE  StreamInv'
<1> USE DEF registryVars, pythonVars, guestVars, lifeVars
<1>1. PICK to \in {"removed", "done"} :
       Cancels(c, s, "spawned", to) /\ (to = "done" <=> s \notin entries)
  BY DEF Removes
<1>2. to \in CancelStages /\ cancel[c][s] = "spawned"
      /\ cancel' = [cancel EXCEPT ![c][s] = to]
  BY <1>1 DEF Cancels, CancelStages
<1>3. \A d \in Cancellers, t \in Streams :
       cancel'[d][t] = IF d = c /\ t = s THEN to ELSE cancel[d][t]
  BY <1>2, CancelMoves
<1>4. ReadsHonest'
  BY DEF Removes, Forgets, StreamInv, ReadsHonest
<1>5. EntryHasExit'
  BY <1>1, <1>2, <1>3 DEF Removes, Forgets, TypeOK, StreamInv, EntryHasExit, Cancellers,
       HostCancellers
<1>6. TrackedIsRegistered'
  BY <1>1, <1>2, <1>3 DEF Removes, Forgets, TypeOK, StreamInv, TrackedIsRegistered
<1>7. KeptWhileInUse'
  BY <1>1, <1>2, <1>3 DEF Removes, Forgets, TypeOK, StreamInv, KeptWhileInUse,
       Cancellers, HostCancellers, CancelJustified
<1>8. QuietCancelCloses'
  BY <1>1, <1>2, <1>3 DEF Removes, Forgets, TypeOK, StreamInv, QuietCancelCloses
<1>9. CancelJustified'
  BY <1>1, <1>2, <1>3 DEF Removes, Forgets, TypeOK, StreamInv, CancelJustified,
       Cancellers, HostCancellers
<1>10. ReadsAccounted'
  BY <1>1, <1>2, <1>3 DEF Removes, Forgets, TypeOK, StreamInv, ReadsAccounted, BeingRead
<1>11. QED
  BY <1>4, <1>5, <1>6, <1>7, <1>8, <1>9, <1>10 DEF StreamInv

\* A cancel is over at once only without an iterator.
LEMMA CallsAcloseKeeps ==
  ASSUME TypeOK, StreamInv, NEW c \in Cancellers, NEW s \in Streams, CallsAclose(c, s)
  PROVE  StreamInv'
<1> USE DEF registryVars, pythonVars, guestVars, lifeVars
<1>1. PICK to \in {"done", "closing", "failed"} :
       Cancels(c, s, "removed", to) /\ (to = "done" => iterator[s] = "none")
  BY DEF CallsAclose
<1>2. to \in CancelStages /\ cancel[c][s] = "removed"
      /\ cancel' = [cancel EXCEPT ![c][s] = to]
  BY <1>1 DEF Cancels, CancelStages
<1>3. \A d \in Cancellers, t \in Streams :
       cancel'[d][t] = IF d = c /\ t = s THEN to ELSE cancel[d][t]
  BY <1>2, CancelMoves
<1>4. TrackedIsRegistered' /\ KeptWhileInUse' /\ ReadsHonest' /\ ReadsAccounted'
  BY DEF CallsAclose, StreamInv, TrackedIsRegistered, KeptWhileInUse, ReadsHonest,
       ReadsAccounted, BeingRead
<1>5. EntryHasExit'
  BY <1>1, <1>2, <1>3 DEF CallsAclose, TypeOK, StreamInv, EntryHasExit, Cancellers,
       HostCancellers
<1>6. QuietCancelCloses'
  BY <1>1, <1>2, <1>3 DEF CallsAclose, TypeOK, StreamInv, QuietCancelCloses
<1>7. CancelJustified'
  BY <1>1, <1>2, <1>3 DEF CallsAclose, TypeOK, StreamInv, CancelJustified, Cancellers,
       HostCancellers
<1>8. QED
  BY <1>4, <1>5, <1>6, <1>7 DEF StreamInv

\* What was closed is over.
LEMMA ClosesKeeps ==
  ASSUME TypeOK, StreamInv, NEW c \in Cancellers, NEW s \in Streams, Closes(c, s)
  PROVE  StreamInv'
<1> USE DEF registryVars, pythonVars, guestVars, lifeVars
<1>1. PICK to \in {"done", "failed"} :
       Cancels(c, s, "closing", to)
  BY DEF Closes
<1>2. to \in CancelStages /\ cancel[c][s] = "closing"
      /\ cancel' = [cancel EXCEPT ![c][s] = to]
  BY <1>1 DEF Cancels, CancelStages
<1>3. \A d \in Cancellers, t \in Streams :
       cancel'[d][t] = IF d = c /\ t = s THEN to ELSE cancel[d][t]
  BY <1>2, CancelMoves
<1>4. TrackedIsRegistered' /\ KeptWhileInUse'
  BY DEF Closes, StreamInv, TrackedIsRegistered, KeptWhileInUse
<1>5. EntryHasExit'
  BY <1>1, <1>2, <1>3 DEF Closes, TypeOK, StreamInv, EntryHasExit, Cancellers,
       HostCancellers
<1>6. QuietCancelCloses'
  BY <1>1, <1>2, <1>3 DEF Closes, TypeOK, StreamInv, QuietCancelCloses
<1>7. CancelJustified'
  BY <1>1, <1>2, <1>3 DEF Closes, TypeOK, StreamInv, CancelJustified, Cancellers,
       HostCancellers
<1>8. ReadsHonest'
  BY <1>1, <1>2, <1>3 DEF Closes, TypeOK, StreamInv, ReadsHonest
<1>9. ReadsAccounted'
  BY <1>1, <1>2, <1>3 DEF Closes, TypeOK, StreamInv, ReadsAccounted, BeingRead
<1>10. QED
  BY <1>4, <1>5, <1>6, <1>7, <1>8, <1>9 DEF StreamInv

\* The end of the thread stops no cancel of the host's.
LEMMA ThreadEndsKeeps ==
  ASSUME TypeOK, StreamInv, ThreadEnds
  PROVE  StreamInv'
<1> USE DEF registryVars, pythonVars, guestVars, lifeVars
<1>1. \A c \in Cancellers, s \in Streams :
       \/ cancel'[c][s] = cancel[c][s]
       \/ c \in Views /\ cancel[c][s] # "none" /\ cancel'[c][s] = "dropped"
  BY DEF ThreadEnds
<1>2. \A v \in Views : pull'[v] = "gone"
  BY DEF ThreadEnds
<1>3. TrackedIsRegistered' /\ KeptWhileInUse'
  BY DEF ThreadEnds, StreamInv, TrackedIsRegistered, KeptWhileInUse
<1>4. EntryHasExit'
  BY <1>1, <1>2, PyStreamsAssumption DEF ThreadEnds, TypeOK, StreamInv, EntryHasExit,
       Cancellers, HostCancellers
<1>5. QuietCancelCloses'
  BY <1>1, <1>2 DEF ThreadEnds, TypeOK, StreamInv, QuietCancelCloses
<1>6. CancelJustified'
  BY <1>1, <1>2, PyStreamsAssumption DEF ThreadEnds, TypeOK, StreamInv, CancelJustified,
       Cancellers, HostCancellers
<1>7. ReadsHonest'
  BY <1>1, <1>2 DEF ThreadEnds, TypeOK, StreamInv, ReadsHonest
<1>8. ReadsAccounted'
  BY <1>1, <1>2 DEF ThreadEnds, TypeOK, StreamInv, ReadsAccounted, BeingRead
<1>9. QED
  BY <1>3, <1>4, <1>5, <1>6, <1>7, <1>8 DEF StreamInv

\* Every step keeps the invariant.
LEMMA StreamStep == ASSUME TypeOK, IteratorOnce, StreamInv, Next PROVE StreamInv'
BY RegistersKeeps, TransfersKeeps, SourceClosesKeeps, SourceCollectedKeeps,
   OwnerClosesKeeps, ReadsKeeps, FindsEntryKeeps, EnsuresIteratorKeeps, StartsKeeps,
   AdvancesKeeps, SettlesKeeps, ResumesKeeps, GuestCancelsKeeps, RemovesKeeps, CallsAcloseKeeps,
   ClosesKeeps, ThreadEndsKeeps
DEF Next, HostTask, Pulling, Python, Application, Guest

-----------------------------------------------------------------------------
\* The inductive invariant of the streams: the four properties below, with the
\* causes of cancels, the truth of ends and the account of late readers.
THEOREM StreamInvariant == Spec => []StreamInv
<1>1. StreamInv /\ UNCHANGED vars => StreamInv'
  BY DEF vars, registryVars, pythonVars, guestVars, lifeVars, StreamInv, EntryHasExit,
         TrackedIsRegistered, KeptWhileInUse, QuietCancelCloses, CancelJustified,
         ReadsHonest, ReadsAccounted, BeingRead
<1>2. TypeOK /\ IteratorOnce /\ StreamInv /\ [Next]_vars => StreamInv'
  BY <1>1, StreamStep
<1>3. QED
  BY <1>2, StreamInit, TypeCorrect, OneIterator, PTL DEF Spec

\* What keeps a Python iterable alive is tracked, or a cancel is on its way to it; and
\* no id stays tracked after its entry is gone.
THEOREM EntriesAreTracked == Spec => []TrackingIsSound
<1>1. StreamInv => TrackingIsSound
  BY DEF StreamInv, TrackingIsSound
<1>2. QED
  BY <1>1, StreamInvariant, PTL

\* A stream in use stays, whatever errors its pulls meet.
THEOREM UsedStreamsStay == Spec => []KeptWhileInUse
<1>1. StreamInv => KeptWhileInUse
  BY DEF StreamInv
<1>2. QED
  BY <1>1, StreamInvariant, PTL

\* An iterator that nobody was reading when its stream was taken away is closed.
THEOREM QuietStreamsAreClosed == Spec => []QuietCancelCloses
<1>1. StreamInv => QuietCancelCloses
  BY DEF StreamInv
<1>2. QED
  BY <1>1, StreamInvariant, PTL
=============================================================================

----------------------------- MODULE PyStreams -----------------------------
(***************************************************************************)
(* Python async iterables that JavaScript reads: PyStreamRegistry.         *)
(*                                                                         *)
(* A PyStreamSource registers an entry; passing it to JavaScript makes a   *)
(* ReadableStream, a view, as often as it is passed.  The runtime thread   *)
(* pulls chunks for the views; cancels come from the guest, and as tasks   *)
(* of other threads from close() on the source, from its finalizer and     *)
(* from Runtime.close().  The iterator lives on an event loop of its own.  *)
(***************************************************************************)
EXTENDS FiniteSets

CONSTANTS Streams, Views

HostCancellers == {"close", "finalizer", "owner"}
Cancellers == Views \cup HostCancellers

NoStream == "no stream"

ASSUME PyStreamsAssumption ==
  /\ NoStream \notin Streams
  /\ Views \cap HostCancellers = {}

VARIABLES
  entries,   \* PyStreamRegistry.entries
  tracked,   \* tracked_py_streams of the handle
  source,    \* the PyStreamSource of each stream
  iterator,  \* PyStreamEntry.iterator, or exhausted, closed, failed
  running,   \* per stream: the views for which an __anext__ has not returned
  shows,     \* the stream of each view
  shut,      \* views whose ReadableStream is closed
  pull,      \* per view: how far pull_next is, at most one at a time
  cancel,    \* per canceller and stream: how far cancel is
  raced,     \* streams whose entry was taken away with a pull under way (history)
  thread,    \* the runtime thread
  owner      \* Runtime.close

registryVars == << entries, tracked >>
pythonVars == << source, iterator, running >>
guestVars == << shows, shut, pull >>
lifeVars == << thread, owner >>
vars == << registryVars, pythonVars, guestVars, cancel, raced, lifeVars >>

\* Types; only what has been registered is tracked, and only what is shown read.
TypeOK ==
  /\ entries \subseteq Streams /\ tracked \subseteq Streams /\ raced \subseteq Streams
  /\ source \in [Streams -> {"none", "open", "closed", "collected"}]
  /\ iterator \in [Streams -> {"none", "ready", "over"}]
  /\ running \in [Streams -> SUBSET Views]
  /\ shows \in [Views -> Streams \cup {NoStream}]
  /\ shut \subseteq Views
  /\ pull \in [Views -> {"idle", "asked", "held", "starting", "iterating",
                         "awaiting", "chunk", "end", "error", "gone"}]
  /\ cancel \in [Cancellers -> [Streams ->
       {"none", "spawned", "removed", "closing", "done", "failed", "dropped"}]]
  /\ thread \in {"running", "gone"} /\ owner \in {"open", "closed"}
  /\ \A v \in Views : pull[v] \notin {"idle", "gone"} => shows[v] \in Streams
  /\ \A s \in Streams : source[s] = "none" => s \notin entries \cup tracked

Init ==
  /\ entries = {} /\ tracked = {} /\ raced = {} /\ shut = {}
  /\ source = [s \in Streams |-> "none"]
  /\ iterator = [s \in Streams |-> "none"]
  /\ running = [s \in Streams |-> {}]
  /\ shows = [v \in Views |-> NoStream]
  /\ pull = [v \in Views |-> "idle"]
  /\ cancel = [c \in Cancellers |-> [s \in Streams |-> "none"]]
  /\ thread = "running" /\ owner = "open"

-----------------------------------------------------------------------------
\* The runtime thread is in no __aiter__, which runs in between two awaits and
\* with the iterator's mutex locked.
ThreadFree == thread = "running" /\ \A v \in Views : pull[v] # "starting"
Locked(s) == \E v \in Views : shows[v] = s /\ pull[v] = "starting"

(* The source. *)

Registers(s) ==
  /\ owner = "open" /\ source[s] = "none"
  /\ source' = [source EXCEPT ![s] = "open"]
  /\ entries' = entries \cup {s}
  /\ tracked' = tracked \cup {s}
  /\ UNCHANGED << iterator, running, guestVars, cancel, raced, lifeVars >>

\* A source that is open can be passed to JavaScript, each time as a new stream.
Transfers(v, s) ==
  /\ owner = "open" /\ ThreadFree /\ source[s] = "open"
  /\ shows[v] = NoStream
  /\ shows' = [shows EXCEPT ![v] = s]
  /\ UNCHANGED << registryVars, pythonVars, shut, pull, cancel, raced, lifeVars >>

\* Seeded fault: release_py_stream, which forgets the stream without closing it.
CancelAsyncReleasing(c, s) ==
  /\ cancel' = [cancel EXCEPT ![c][s] = "done"]
  /\ tracked' = tracked \ {s}
  /\ entries' = entries \ {s}

\* cancel_py_stream_async: the task is spawned, the id untracked at once.
CancelAsync(c, s) ==
  /\ cancel' = [cancel EXCEPT ![c][s] = "spawned"]
  /\ tracked' = tracked \ {s}
  /\ UNCHANGED entries

SourceCloses(s) ==
  /\ source[s] = "open"
  /\ source' = [source EXCEPT ![s] = "closed"]
  /\ CancelAsync("close", s)
  /\ UNCHANGED << iterator, running, guestVars, raced, lifeVars >>

\* The finalizer has a handle of its own and cancels what may be cancelled already.
SourceCollected(s) ==
  /\ source[s] \in {"open", "closed"}
  /\ source' = [source EXCEPT ![s] = "collected"]
  /\ CancelAsync("finalizer", s)
  /\ UNCHANGED << iterator, running, guestVars, raced, lifeVars >>

\* Runtime.close() cancels what is tracked, whether or not the runtime still runs.
OwnerCloses ==
  /\ owner = "open"
  /\ owner' = "closed"
  /\ cancel' = [cancel EXCEPT !["owner"] = [s \in Streams |->
       IF s \in tracked THEN "spawned" ELSE "none"]]
  /\ tracked' = {}
  /\ UNCHANGED << entries, pythonVars, guestVars, raced, thread >>

-----------------------------------------------------------------------------
(* Pulling. *)

\* A read of a view that has no chunk left and is not closed.
Reads(v) ==
  /\ ThreadFree /\ shows[v] # NoStream /\ v \notin shut
  /\ pull[v] = "idle"
  /\ pull' = [pull EXCEPT ![v] = "asked"]
  /\ UNCHANGED << registryVars, pythonVars, shows, shut, cancel, raced, lifeVars >>

Pulls(v, from, to) ==
  /\ ThreadFree \/ from = "starting"
  /\ pull[v] = from /\ pull' = [pull EXCEPT ![v] = to]

\* Seeded fault: a pull without an entry is told something of its own.
FindsEntryTelling(v) ==
  /\ Pulls(v, "asked", IF shows[v] \in entries THEN "held" ELSE "unknown")
  /\ UNCHANGED << registryVars, pythonVars, shows, shut, cancel, raced, lifeVars >>

\* The pull keeps the entry from here on, whatever the registry does.
FindsEntry(v) ==
  /\ Pulls(v, "asked", IF shows[v] \in entries THEN "held" ELSE "error")
  /\ UNCHANGED << registryVars, pythonVars, shows, shut, cancel, raced, lifeVars >>

\* ensure_iterator; without an iterator it calls __aiter__.
EnsuresIterator(v) ==
  /\ Pulls(v, "held", IF iterator[shows[v]] = "none" THEN "starting" ELSE "iterating")
  /\ UNCHANGED << registryVars, pythonVars, shows, shut, cancel, raced, lifeVars >>

\* __aiter__ returns, or raises.
Starts(v) ==
  /\ \/ Pulls(v, "starting", "iterating")
        /\ iterator' = [iterator EXCEPT ![shows[v]] = "ready"]
     \/ Pulls(v, "starting", "error") /\ UNCHANGED iterator
  /\ UNCHANGED << registryVars, source, running, shows, shut, cancel, raced, lifeVars >>

\* __anext__ begins, or raises; a generator that is running raises.
Advances(v) ==
  /\ \/ Pulls(v, "iterating", "awaiting")
        /\ running' = [running EXCEPT ![shows[v]] = @ \cup {v}]
     \/ Pulls(v, "iterating", "error") /\ UNCHANGED running
  /\ UNCHANGED << registryVars, source, iterator, shows, shut, cancel, raced, lifeVars >>

\* __anext__ returns on its event loop, to a pull that may be gone.  What an error
\* leaves of the iterator is its own affair.
Settles(v, s, outcome) ==
  /\ v \in running[s]
  /\ iterator[s] = "over" => outcome # "chunk"
  /\ running' = [running EXCEPT ![s] = @ \ {v}]
  /\ \E left \in {iterator[s], "over"} :
       /\ outcome = "chunk" => left = iterator[s]
       /\ outcome = "end" => left = "over"
       /\ iterator' = [iterator EXCEPT ![s] = left]
  /\ pull' = IF pull[v] = "awaiting" THEN [pull EXCEPT ![v] = outcome] ELSE pull
  /\ UNCHANGED << registryVars, source, shows, shut, cancel, raced, lifeVars >>

Forgets(s) == entries' = entries \ {s} /\ tracked' = tracked \ {s}

\* Seeded fault: a pull that fails releases the stream too.
ResumesReleasing(v) ==
  /\ \/ Pulls(v, "chunk", "idle") /\ UNCHANGED << registryVars, shut >>
     \/ Pulls(v, "error", "idle") /\ Forgets(shows[v]) /\ UNCHANGED shut
     \/ Pulls(v, "end", "idle") /\ Forgets(shows[v]) /\ shut' = shut \cup {v}
  /\ UNCHANGED << pythonVars, shows, cancel, raced, lifeVars >>

\* Only the end of the iteration releases the stream; the release listener
\* untracks it.  A view whose pull failed can be read again.
Resumes(v) ==
  /\ \/ (Pulls(v, "chunk", "idle") \/ Pulls(v, "error", "idle"))
        /\ UNCHANGED << registryVars, shut >>
     \/ Pulls(v, "end", "idle") /\ Forgets(shows[v]) /\ shut' = shut \cup {v}
  /\ UNCHANGED << pythonVars, shows, cancel, raced, lifeVars >>

-----------------------------------------------------------------------------
(* Cancelling. *)

\* reader.cancel(), also of a view that is being read.
GuestCancels(v) ==
  /\ ThreadFree /\ shows[v] # NoStream /\ cancel[v][shows[v]] = "none"
  /\ shut' = shut \cup {v}
  /\ cancel' = [cancel EXCEPT ![v][shows[v]] = "spawned"]
  /\ UNCHANGED << registryVars, pythonVars, shows, pull, raced, lifeVars >>

\* A pull that has the entry, or an __anext__ that nobody waits for any more.
BeingRead(s) ==
  \/ running[s] # {}
  \/ \E v \in Views : shows[v] = s /\ pull[v] \in {"held", "starting", "iterating"}

Cancels(c, s, from, to) ==
  cancel[c][s] = from /\ cancel' = [cancel EXCEPT ![c][s] = to]

\* The cancels of the guest run on the runtime thread.
MayRun(c) == c \in Views => ThreadFree

\* Seeded fault: a cancel that finds the id untracked has nothing to do.
RemovesTracked(c, s) ==
  /\ MayRun(c)
  /\ \/ s \in entries \cap tracked /\ Cancels(c, s, "spawned", "removed") /\ Forgets(s)
        /\ raced' = IF BeingRead(s) THEN raced \cup {s} ELSE raced
     \/ s \notin entries \cap tracked /\ Cancels(c, s, "spawned", "done")
        /\ UNCHANGED << registryVars, raced >>
  /\ UNCHANGED << pythonVars, guestVars, lifeVars >>

\* Whoever removes the entry closes the iterator; the others are done.
Removes(c, s) ==
  /\ MayRun(c)
  /\ \/ s \in entries /\ Cancels(c, s, "spawned", "removed") /\ Forgets(s)
        /\ raced' = IF BeingRead(s) THEN raced \cup {s} ELSE raced
     \/ s \notin entries /\ Cancels(c, s, "spawned", "done")
        /\ UNCHANGED << registryVars, raced >>
  /\ UNCHANGED << pythonVars, guestVars, lifeVars >>

\* Seeded fault: the iterator is locked as long as somebody awaits it.
CallsAcloseLocked(c, s) ==
  /\ MayRun(c) /\ ~Locked(s) /\ running[s] = {}
  /\ \/ iterator[s] = "none" /\ Cancels(c, s, "removed", "done")
     \/ iterator[s] # "none" /\ \E to \in {"closing", "failed"} : Cancels(c, s, "removed", to)
  /\ UNCHANGED << registryVars, pythonVars, guestVars, raced, lifeVars >>

\* Waits for the iterator's mutex.  Without an iterator there is nothing to close;
\* aclose may be missing, may raise, as a generator's does that is running, or find
\* its event loop closed.
CallsAclose(c, s) ==
  /\ MayRun(c) /\ ~Locked(s)
  /\ \/ iterator[s] = "none" /\ Cancels(c, s, "removed", "done")
     \/ iterator[s] # "none" /\ \E to \in {"closing", "failed"} : Cancels(c, s, "removed", to)
  /\ UNCHANGED << registryVars, pythonVars, guestVars, raced, lifeVars >>

\* aclose() returns, or raises on its way; the iterator is over.
Closes(c, s) ==
  /\ \E to \in {"done", "failed"} : Cancels(c, s, "closing", to)
  /\ iterator' = [iterator EXCEPT ![s] = "over"]
  /\ UNCHANGED << registryVars, source, running, guestVars, raced, lifeVars >>

\* The guest's pulls and cancels are futures of the runtime thread, and end with it.
ThreadEnds ==
  /\ ThreadFree
  /\ thread' = "gone"
  /\ pull' = [v \in Views |-> "gone"]
  /\ cancel' = [c \in Cancellers |-> [s \in Streams |->
       IF c \in Views /\ cancel[c][s] \in {"spawned", "removed", "closing"}
         THEN "dropped" ELSE cancel[c][s]]]
  /\ UNCHANGED << registryVars, pythonVars, shows, shut, raced, owner >>

-----------------------------------------------------------------------------
HostTask(c) == \E s \in Streams : Removes(c, s) \/ CallsAclose(c, s)

Pulling(v) ==
  FindsEntry(v) \/ EnsuresIterator(v) \/ Starts(v) \/ Advances(v) \/ Resumes(v)

Python ==
  \/ \E v \in Views, s \in Streams, o \in {"chunk", "end", "error"} : Settles(v, s, o)
  \/ \E c \in Cancellers, s \in Streams : Closes(c, s)

Application ==
  \/ \E s \in Streams : Registers(s) \/ SourceCloses(s) \/ SourceCollected(s)
  \/ \E v \in Views, s \in Streams : Transfers(v, s)
  \/ OwnerCloses

Guest == \E v \in Views : Reads(v) \/ GuestCancels(v)

Next ==
  \/ \E c \in Cancellers : HostTask(c)
  \/ \E v \in Views : Pulling(v)
  \/ Python \/ Application \/ Guest \/ ThreadEnds

Spec == Init /\ [][Next]_vars

\* Tasks of the tokio runtime run, and a call of __aiter__, which holds a lock that
\* they wait for, comes back.  Iterators and guests may stop anywhere else.
FairSpec ==
  /\ Spec
  /\ \A c \in HostCancellers : WF_vars(HostTask(c))
  /\ \A v \in Views : WF_vars(Starts(v))

-----------------------------------------------------------------------------
(* Safety *)

\* What keeps a Python iterable alive has a way to be let go: while it is tracked
\* Runtime.close() will cancel it, and afterwards a task is on its way to.
EntryHasExit ==
  \A s \in entries : s \in tracked \/ \E c \in HostCancellers : cancel[c][s] = "spawned"

\* No id stays tracked after its entry is gone, whoever took it away.
TrackedIsRegistered == tracked \subseteq entries

\* The registry and the ids that the handle tracks account for each other, between
\* all who take an entry away.
TrackingIsSound == EntryHasExit /\ TrackedIsRegistered

\* Errors do not cost the stream: until somebody closes or cancels it, or a view
\* has seen its end, the guest can go on reading it.
KeptWhileInUse ==
  \A s \in Streams :
    (source[s] = "open" /\ owner = "open" /\ \A v \in shut : shows[v] # s) => s \in entries

\* An iterator that nobody was reading when its stream was taken away is closed,
\* if it can be: it was exhausted, or whoever removed the entry has closed it.
QuietCancelCloses ==
  \A s \in Streams :
    (source[s] # "none" /\ s \notin entries \cup raced
       /\ \A c \in Cancellers : cancel[c][s] \notin {"removed", "closing", "failed", "dropped"})
    => iterator[s] # "ready"

-----------------------------------------------------------------------------
(* Liveness *)

\* A source that was closed or collected, or whose runtime was closed, lets go of
\* the iterable, whatever the guest does; and whoever cancels it for the host gets
\* as far as aclose(), however long a pull takes to get its chunk.
GoneIsForgotten ==
  \A s \in Streams :
    (source[s] \in {"closed", "collected"} \/ (source[s] = "open" /\ owner = "closed"))
      ~> /\ s \notin entries
         /\ \A c \in HostCancellers : cancel[c][s] \notin {"spawned", "removed"}
=============================================================================

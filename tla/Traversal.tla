----------------------------- MODULE Traversal -----------------------------
(***************************************************************************)
(* How a value of JavaScript is read, step by step.  Conversion takes the  *)
(* reading of a result for one step; here are its parts, between which     *)
(* JavaScript runs: reading a member may call a getter or a trap of a      *)
(* proxy, which may change the containers that are being read.             *)
(*                                                                         *)
(* The recursion is a stack of frames, one for each container that is      *)
(* being read: its members as they were on entry, and the next to read.    *)
(* What is read is found by identity hash, which two objects may share.    *)
(***************************************************************************)
EXTENDS Integers, Sequences, SequencesExt, FiniteSets

CONSTANTS Nodes,      \* containers: arrays, sets and objects
          Leaf,       \* whatever is no container
          Hashes,     \* V8's identity hashes
          SetNodes,   \* the containers that are copied before they are read
          Shapes,     \* what a container may hold: sequences of members
          MaxDepths   \* values of max_serialization_depth

ASSUME TraversalAssumption ==
  /\ Leaf \notin Nodes /\ SetNodes \subseteq Nodes
  /\ Shapes \subseteq Seq(Nodes \cup {Leaf}) /\ MaxDepths \subseteq Nat

VARIABLES graph,      \* what each container holds
          identity,   \* its identity hash
          maxDepth,   \* the limit of the runtime
          root,       \* the value that is read
          depth,      \* current_depth of the tracker
          seen,       \* the hashes of the containers being visited
          stack,      \* the calls of the converter that are reading a container
          verdict,    \* "reading", "accepted", or why it failed
          rewired     \* history: JavaScript changed a container meanwhile

runtimeVars == <<identity, maxDepth>>
callVars == <<depth, seen, stack, verdict>>
readVars == <<graph, identity, maxDepth, root, depth, seen, stack, verdict, rewired>>

Spots == Nodes \cup {Leaf}
Frames == [node : Nodes, items : Shapes, next : Nat]
Failures == {"deep", "circular", "refused"}

ReadInit ==
  /\ graph \in [Nodes -> Shapes] /\ identity \in [Nodes -> Hashes]
  /\ maxDepth \in MaxDepths /\ root = Leaf /\ depth = 0 /\ seen = {}
  /\ stack = <<>> /\ verdict = "none" /\ rewired = FALSE

-----------------------------------------------------------------------------
(* The converter.                                                          *)

\* A value is read with a tracker and a set of its own.
Begin(v) ==
  /\ verdict # "reading"
  /\ root' = v /\ depth' = 0 /\ seen' = {} /\ stack' = <<>>
  /\ verdict' = "reading" /\ rewired' = FALSE
  /\ UNCHANGED <<graph, runtimeVars>>

\* Seeded fault: the depth is compared before it is raised.
WithinLate == depth <= maxDepth

\* LimitTracker::enter.
Within == depth + 1 <= maxDepth

\* An error leaves all calls; the tracker and `seen` go with them.
Fails(how) == verdict' = how /\ UNCHANGED <<depth, seen, stack>>

\* A call returns to s, the calls below it.
Returns(s) ==
  /\ stack' = IF s = <<>> THEN s ELSE [s EXCEPT ![Len(s)].next = @ + 1]
  /\ verdict' = IF s = <<>> THEN "accepted" ELSE "reading"

\* A call of the converter, up to the first member of a container.
Visit(v) ==
  \/ ~Within /\ Fails("deep")
  \/ /\ Within /\ v = Leaf
     /\ Returns(stack) /\ UNCHANGED <<depth, seen>>
  \/ /\ Within /\ v \in Nodes /\ identity[v] \in seen
     /\ Fails("circular")
  \/ /\ Within /\ v \in Nodes /\ identity[v] \notin seen
     /\ depth' = depth + 1 /\ seen' = seen \cup {identity[v]}
     /\ stack' = Append(stack, [node |-> v, items |-> graph[v], next |-> 1])
     /\ UNCHANGED verdict

ReadRoot ==
  /\ verdict = "reading" /\ stack = <<>>
  /\ Visit(root) /\ UNCHANGED <<graph, runtimeVars, root, rewired>>

Top == stack[Len(stack)]

\* A set is read from a copy; an array and an object as they are now, with the
\* length and the names of their beginning.  What is gone is undefined.
Member(f) ==
  CASE f.node \in SetNodes -> f.items[f.next]
    [] f.node \notin SetNodes /\ f.next \in DOMAIN graph[f.node] -> graph[f.node][f.next]
    [] OTHER -> Leaf

ReadMember ==
  /\ verdict = "reading" /\ stack # <<>> /\ Top.next <= Len(Top.items)
  /\ Visit(Member(Top)) /\ UNCHANGED <<graph, runtimeVars, root, rewired>>

\* Seeded fault: a container is not taken out of `seen` again.
LeaveContainerRemembering ==
  /\ verdict = "reading" /\ stack # <<>> /\ Top.next > Len(Top.items)
  /\ depth' = depth - 1 /\ UNCHANGED seen
  /\ Returns(SubSeq(stack, 1, Len(stack) - 1))
  /\ UNCHANGED <<graph, runtimeVars, root, rewired>>

LeaveContainer ==
  /\ verdict = "reading" /\ stack # <<>> /\ Top.next > Len(Top.items)
  /\ depth' = depth - 1 /\ seen' = seen \ {identity[Top.node]}
  /\ Returns(SubSeq(stack, 1, Len(stack) - 1))
  /\ UNCHANGED <<graph, runtimeVars, root, rewired>>

\* The byte limit, a symbol, a date out of range, a getter that throws.
Refuse ==
  /\ verdict = "reading" /\ Fails("refused")
  /\ UNCHANGED <<graph, runtimeVars, root, rewired>>

\* A getter or a trap runs, and leaves container n with other members.
GuestRuns(n) ==
  /\ verdict = "reading"
  /\ \E s \in Shapes : graph' = [graph EXCEPT ![n] = s]
  /\ rewired' = TRUE /\ UNCHANGED <<runtimeVars, root, callVars>>

ReadNext ==
  \/ \E v \in Spots : Begin(v)
  \/ ReadRoot \/ ReadMember \/ LeaveContainer \/ Refuse
  \/ \E n \in Nodes : GuestRuns(n)

ReadSpec == ReadInit /\ [][ReadNext]_readVars

-----------------------------------------------------------------------------
(* What the reading promises.                                              *)

\* The ways into the value, no further than the depth limit can tell.
Holds(v) == IF v \in Nodes THEN {graph[v][i] : i \in DOMAIN graph[v]} ELSE {}
Ways ==
  {q \in UNION {[1..n -> Spots] : n \in 1..maxDepth + 1} :
     q[1] = root /\ \A i \in 1..Len(q) - 1 : q[i + 1] \in Holds(q[i])}

\* Two containers on the way that V8 gives the same hash: most often one.
Repeats(q) ==
  \E i, j \in DOMAIN q : /\ i < j /\ q[i] \in Nodes /\ q[j] \in Nodes
                         /\ identity[q[i]] = identity[q[j]]

\* While a value is read, whatever JavaScript does to it meanwhile, `seen`
\* holds the containers above the current one and nothing else, each with a
\* hash of its own, and there are no more of them than the depth limit; after
\* it, nothing is left in `seen` and no level is left entered.
SeenIsThePath ==
  verdict \in {"reading", "accepted"} =>
    /\ depth = Len(stack) /\ depth <= maxDepth
    /\ seen = {identity[stack[i].node] : i \in DOMAIN stack}
    /\ Cardinality(seen) = depth

\* Unless JavaScript changes it meanwhile: a value is accepted only if all of
\* it lies within the depth limit and nothing lies within itself; it is
\* rejected as too deep only for a part that is, and as circular only for a
\* container within one of its hash.  A container that occurs twice is neither.
VerdictIsExact ==
  ~rewired =>
    /\ verdict = "accepted" => \A q \in Ways : Len(q) <= maxDepth /\ ~Repeats(q)
    /\ verdict = "deep" => \E q \in Ways : Len(q) > maxDepth
    /\ verdict = "circular" => \E q \in Ways : Len(q) <= maxDepth /\ Repeats(q)
=============================================================================

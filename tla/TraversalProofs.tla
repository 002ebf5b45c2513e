-------------------------- MODULE TraversalProofs --------------------------
(***************************************************************************)
(* Theorems about Traversal, for every set of containers and of hashes,    *)
(* whatever containers may hold, and for every depth limit.                *)
(***************************************************************************)
EXTENDS Traversal, FiniteSetTheorems, SequenceTheorems, TLAPS

Reading == verdict = "reading"

ReadTypes ==
  /\ graph \in [Nodes -> Shapes] /\ identity \in [Nodes -> Hashes]
  /\ maxDepth \in MaxDepths /\ root \in Spots
  /\ depth \in Int /\ stack \in Seq(Frames) /\ rewired \in BOOLEAN
  /\ verdict \in {"none", "reading", "accepted"} \cup Failures

\* Each frame is at one of its members or past them; a frame with a call above
\* it is at the member that is being read.
Placed ==
  \A i \in DOMAIN stack :
    /\ stack[i].next \in 1..Len(stack[i].items) + 1
    /\ i < Len(stack) => stack[i].next <= Len(stack[i].items)

\* No two containers being read have the same hash.
Apart ==
  \A i, j \in DOMAIN stack :
    i # j => identity[stack[i].node] # identity[stack[j].node]

\* Unless JavaScript changed something, the frames are a way into the value.
FramesLead ==
  Reading /\ ~rewired =>
    \A i \in DOMAIN stack :
      /\ stack[i].items = graph[stack[i].node]
      /\ stack[i].node = IF i = 1 THEN root ELSE stack[i - 1].items[stack[i - 1].next]

\* Way q goes through the first k frames.
Through(q, k) == k <= Len(q) /\ \A i \in 1..k : q[i] = stack[i].node
Fine(q) == Len(q) <= maxDepth /\ ~Repeats(q)

\* What has been read is fine: all ways through a member before the next.
ReadIsFine ==
  Reading /\ ~rewired =>
    \A k \in DOMAIN stack : \A j \in 1..stack[k].next - 1 : \A q \in Ways :
      Through(q, k) /\ k < Len(q) /\ q[k + 1] = stack[k].items[j] => Fine(q)

PathSeen == IsFiniteSet(seen) /\ SeenIsThePath

ReadInv ==
  /\ ReadTypes /\ Placed /\ Apart /\ PathSeen
  /\ FramesLead /\ ReadIsFine /\ VerdictIsExact

\* What the next call of the converter is about.
Current == IF stack = <<>> THEN root ELSE Member(Top)
AtCurrent == Reading /\ (stack # <<>> => Top.next <= Len(Top.items))
AtEnd == Reading /\ stack # <<>> /\ Top.next > Len(Top.items)

-----------------------------------------------------------------------------
(* The stack. *)

\* A stack after a call.
LEMMA Pushed ==
  ASSUME NEW s \in Seq(Frames), NEW f \in Frames
  PROVE  /\ Append(s, f) \in Seq(Frames) /\ Len(Append(s, f)) = Len(s) + 1
         /\ Len(s) \in Nat
         /\ DOMAIN Append(s, f) = 1..Len(s) + 1 /\ DOMAIN s = 1..Len(s)
         /\ \A i \in 1..Len(s) : Append(s, f)[i] = s[i]
         /\ Append(s, f)[Len(s) + 1] = f
<1>1. Len(s) \in Nat /\ DOMAIN s = 1..Len(s)
  BY LenProperties
<1>2. /\ Append(s, f) \in Seq(Frames) /\ Len(Append(s, f)) = Len(s) + 1
      /\ \A i \in 1..Len(s) : Append(s, f)[i] = s[i]
      /\ Append(s, f)[Len(s) + 1] = f
  BY AppendProperties
<1>3. DOMAIN Append(s, f) = 1..Len(s) + 1
  BY <1>2, LenProperties
<1> QED BY <1>1, <1>2, <1>3

\* A stack without its last frame.
LEMMA Popped ==
  ASSUME NEW s \in Seq(Frames), s # <<>>
  PROVE  LET t == SubSeq(s, 1, Len(s) - 1)
         IN  /\ t \in Seq(Frames) /\ Len(t) = Len(s) - 1 /\ Len(s) \in Nat \ {0}
             /\ DOMAIN t = 1..Len(s) - 1 /\ DOMAIN s = 1..Len(s)
             /\ \A i \in 1..Len(s) - 1 : t[i] = s[i]
<1> DEFINE n == Len(s) - 1
           t == SubSeq(s, 1, n)
<1>1. Len(s) \in Nat \ {0} /\ DOMAIN s = 1..Len(s) /\ \A i \in 1..Len(s) : s[i] \in Frames
  BY LenProperties, EmptySeq, ElementOfSeq
<1>2. n \in Int /\ 1 \in Int /\ \A i \in 1..n : s[i] \in Frames
  BY <1>1
<1>3. /\ t \in Seq(Frames)
      /\ Len(t) = IF 1 <= n THEN n - 1 + 1 ELSE 0
      /\ \A i \in 1..n - 1 + 1 : t[i] = s[1 + i - 1]
  <2> HIDE DEF n
  <2> QED BY <1>2, SubSeqProperties
<1>4. Len(t) = n /\ \A i \in 1..n : t[i] = s[i]
  <2>1. n \in Nat
    BY <1>1
  <2> HIDE DEF n, t
  <2>2. Len(t) = n
    BY <1>3, <2>1
  <2>3. \A i \in 1..n : i \in 1..n - 1 + 1 /\ 1 + i - 1 = i
    BY <2>1
  <2> QED BY <1>3, <2>2, <2>3
<1>5. DOMAIN t = 1..n
  BY <1>3, <1>4, LenProperties
<1> QED BY <1>1, <1>3, <1>4, <1>5

\* A stack to which a call returns.
LEMMA Returned ==
  ASSUME NEW s \in Seq(Frames), Returns(s)
  PROVE  /\ stack' \in Seq(Frames) /\ Len(stack') = Len(s) /\ Len(s) \in Nat
         /\ DOMAIN stack' = 1..Len(s) /\ DOMAIN s = 1..Len(s)
         /\ s = <<>> => stack' = <<>> /\ verdict' = "accepted"
         /\ s # <<>> => verdict' = "reading"
         /\ \A i \in 1..Len(s) :
              /\ stack'[i].node = s[i].node /\ stack'[i].items = s[i].items
              /\ stack'[i].next = IF i = Len(s) THEN s[i].next + 1 ELSE s[i].next
<1>1. Len(s) \in Nat /\ DOMAIN s = 1..Len(s)
  BY LenProperties
<1>2. CASE s = <<>>
  BY <1>1, <1>2 DEF Returns
<1>3. CASE s # <<>>
  <2>1. Len(s) \in 1..Len(s)
    BY <1>1, <1>3, EmptySeq
  <2>2. \A i \in 1..Len(s) : s[i] \in Frames
    BY <1>1, ElementOfSeq
  <2>3. /\ DOMAIN stack' = 1..Len(s)
        /\ stack' = [i \in 1..Len(s) |-> IF i = Len(s) THEN [s[i] EXCEPT !.next = @ + 1] ELSE s[i]]
    BY <1>1, <1>3, <2>1 DEF Returns
  <2>4. \A i \in 1..Len(s) :
          /\ stack'[i] \in Frames
          /\ stack'[i].node = s[i].node /\ stack'[i].items = s[i].items
          /\ stack'[i].next = IF i = Len(s) THEN s[i].next + 1 ELSE s[i].next
    <3> SUFFICES ASSUME NEW i \in 1..Len(s)
                 PROVE  /\ stack'[i] \in Frames
                        /\ stack'[i].node = s[i].node /\ stack'[i].items = s[i].items
                        /\ stack'[i].next = IF i = Len(s) THEN s[i].next + 1 ELSE s[i].next
      OBVIOUS
    <3>1. s[i] \in [node : Nodes, items : Shapes, next : Nat]
      BY <2>2 DEF Frames
    <3>2. stack'[i] = IF i = Len(s) THEN [s[i] EXCEPT !.next = @ + 1] ELSE s[i]
      BY <2>3
    <3> QED BY <3>1, <3>2 DEF Frames
  <2>5. stack' \in Seq(Frames) /\ Len(stack') = Len(s)
    <3>1. stack' \in [1..Len(s) -> Frames]
      BY <2>3, <2>4
    <3> QED BY <1>1, <3>1, SeqDef
  <2> QED BY <1>1, <1>3, <2>3, <2>4, <2>5 DEF Returns
<1> QED BY <1>2, <1>3

-----------------------------------------------------------------------------
(* Ways. *)

\* A way is a sequence of members, from the root on, and no longer than it has to be.
LEMMA WaysAre ==
  ASSUME ReadTypes, NEW q \in Ways
  PROVE  /\ q \in Seq(Spots) /\ Len(q) \in Nat \ {0} /\ DOMAIN q = 1..Len(q)
         /\ \A i \in 1..Len(q) : q[i] \in Spots
         /\ q[1] = root
         /\ \A i \in 1..Len(q) - 1 : q[i + 1] \in Holds(q[i])
<1>1. PICK n \in 1..maxDepth + 1 : q \in [1..n -> Spots]
  BY DEF Ways
<1>2. n \in Nat \ {0}
  BY <1>1, TraversalAssumption DEF ReadTypes
<1>3. q \in Seq(Spots) /\ Len(q) = n
  BY <1>1, <1>2, SeqDef, LenProperties
<1> QED BY <1>1, <1>2, <1>3 DEF Ways

\* A step that changes neither what is read nor the limits.
Quiet == UNCHANGED <<graph, runtimeVars, root, rewired>>

LEMMA SameWays ==
  ASSUME Quiet
  PROVE  Ways' = Ways /\ \A q : Fine(q)' <=> Fine(q)
<1>1. Ways' = Ways
  BY DEF Quiet, runtimeVars, Ways, Holds
<1>2. \A q : Fine(q)' <=> Fine(q)
  BY DEF Quiet, runtimeVars, Fine, Repeats
<1> QED BY <1>1, <1>2

\* A way through the frames with nothing but a leaf after them is fine if it
\* is within the limit.
LEMMA FramesAreFine ==
  ASSUME ReadTypes, Apart, NEW q \in Ways, Through(q, Len(stack)),
         \A i \in 1..Len(q) : i > Len(stack) => q[i] \notin Nodes,
         Len(q) <= maxDepth
  PROVE  Fine(q)
<1>1. /\ Len(stack) \in Nat /\ DOMAIN stack = 1..Len(stack)
      /\ Len(q) \in Nat \ {0} /\ DOMAIN q = 1..Len(q)
  BY WaysAre, LenProperties DEF ReadTypes
<1> SUFFICES ASSUME NEW i \in DOMAIN q, NEW j \in DOMAIN q, i < j,
                    q[i] \in Nodes, q[j] \in Nodes, identity[q[i]] = identity[q[j]]
             PROVE  FALSE
  BY DEF Fine, Repeats
<1>2. i \in 1..Len(stack) /\ j \in 1..Len(stack)
  BY <1>1
<1>3. q[i] = stack[i].node /\ q[j] = stack[j].node
  BY <1>2 DEF Through
<1> QED BY <1>1, <1>2, <1>3 DEF Apart

\* The next value to be read is a member, the one that its frame is at.
LEMMA CurrentIs ==
  ASSUME ReadTypes, Placed, AtCurrent
  PROVE  /\ Current \in Spots
         /\ FramesLead /\ ~rewired =>
              Current = IF stack = <<>> THEN root
                        ELSE stack[Len(stack)].items[stack[Len(stack)].next]
<1>1. CASE stack = <<>>
  BY <1>1 DEF Current, ReadTypes
<1>2. CASE stack # <<>>
  <2>1. Len(stack) \in DOMAIN stack
    BY <1>2, EmptySeq, LenProperties DEF ReadTypes
  <2>2. Top \in Frames
    BY <2>1, ElementOfSeq, LenProperties DEF ReadTypes, Top
  <2>3. Top.next \in 1..Len(Top.items)
    BY <1>2, <2>1, <2>2, EmptySeq DEF Placed, Top, AtCurrent, Frames
  <2>4. /\ Top.items \in Seq(Spots) /\ Top.node \in Nodes
        /\ graph[Top.node] \in Seq(Spots)
    BY <2>2, TraversalAssumption DEF ReadTypes, Frames, Spots
  <2>5. /\ DOMAIN Top.items = 1..Len(Top.items) /\ Top.items[Top.next] \in Spots
        /\ \A i \in DOMAIN graph[Top.node] : graph[Top.node][i] \in Spots
    BY <2>3, <2>4, ElementOfSeq, LenProperties
  <2>6. Member(Top) \in Spots
    BY <2>5 DEF Member, Spots
  <2>7. ASSUME FramesLead, ~rewired
        PROVE  Member(Top) = Top.items[Top.next]
    <3>1. Top.items = graph[Top.node]
      BY <2>1, <2>7 DEF FramesLead, AtCurrent, Top
    <3> QED BY <2>3, <2>5, <3>1 DEF Member
  <2> QED BY <1>2, <2>6, <2>7 DEF Current, Top
<1> QED BY <1>1, <1>2

\* The frames and the value that is read next are a way, if the way is not
\* longer than all ways.
LEMMA FramesAreWay ==
  ASSUME ReadInv, AtCurrent, ~rewired, Len(stack) + 1 <= maxDepth + 1
  PROVE  \E q \in Ways : /\ Len(q) = Len(stack) + 1 /\ q[Len(stack) + 1] = Current
                         /\ \A i \in DOMAIN stack : q[i] = stack[i].node
<1> DEFINE n == Len(stack)
<1>1. n \in Nat /\ DOMAIN stack = 1..n /\ maxDepth \in Nat
  BY LenProperties, TraversalAssumption DEF ReadInv, ReadTypes
<1>2. PICK q : q = [i \in 1..n + 1 |-> IF i <= n THEN stack[i].node ELSE Current]
  OBVIOUS
<1>3. /\ q[n + 1] = Current
      /\ \A i \in 1..n : q[i] = stack[i].node
  BY <1>1, <1>2
<1>4. \A i \in 1..n + 1 : q[i] \in Spots
  <2>1. \A i \in 1..n : stack[i].node \in Spots
    <3>1. \A i \in 1..n : stack[i] \in Frames
      BY <1>1, ElementOfSeq DEF ReadInv, ReadTypes
    <3> QED BY <3>1 DEF Frames, Spots
  <2>2. Current \in Spots
    BY CurrentIs DEF ReadInv
  <2> QED BY <1>1, <1>3, <2>1, <2>2
<1>5. q \in [1..n + 1 -> Spots]
  BY <1>2, <1>4
<1>6. q \in Seq(Spots) /\ Len(q) = n + 1
  BY <1>1, <1>5, SeqDef, LenProperties
<1>7. q[1] = root
  <2>1. CASE n = 0
    <3>1. stack = <<>>
      BY <2>1, EmptySeq DEF ReadInv, ReadTypes
    <3> QED BY <2>1, <1>3, <3>1 DEF Current
  <2>2. CASE n # 0
    BY <1>1, <1>3, <2>2 DEF ReadInv, FramesLead, AtCurrent
  <2> QED BY <2>1, <2>2
<1>8. ASSUME NEW i \in 1..n
      PROVE  q[i + 1] \in Holds(q[i])
  <2>1. /\ stack[i].items = graph[stack[i].node] /\ stack[i] \in Frames
        /\ stack # <<>>
    BY <1>1, ElementOfSeq, EmptySeq DEF ReadInv, FramesLead, AtCurrent, ReadTypes
  <2>2. stack[i].next \in 1..Len(stack[i].items)
    BY <1>1, <2>1 DEF ReadInv, Placed, AtCurrent, Top, Frames
  <2>3. stack[i].items \in Seq(Spots)
    BY <2>1, TraversalAssumption DEF Frames, Spots
  <2>4. q[i + 1] = stack[i].items[stack[i].next]
    <3>1. CASE i = n
      BY <1>1, <1>3, <2>1, <3>1, CurrentIs DEF ReadInv
    <3>2. CASE i # n
      <4>1. i + 1 \in 1..n /\ i + 1 # 1 /\ (i + 1) - 1 = i
        <5> HIDE DEF n
        <5> QED BY <1>1, <3>2
      <4> QED BY <1>1, <1>3, <4>1 DEF ReadInv, FramesLead, AtCurrent
    <3> QED BY <3>1, <3>2
  <2>5. stack[i].next \in DOMAIN graph[stack[i].node]
    BY <2>1, <2>2, <2>3, LenProperties
  <2>6. q[i] = stack[i].node /\ q[i] \in Nodes
    BY <1>3, <2>1 DEF Frames
  <2> QED BY <2>1, <2>4, <2>5, <2>6 DEF Holds
<1>9. q \in Ways
  <2>1. n + 1 \in 1..maxDepth + 1
    BY <1>1
  <2>2. \A i \in 1..Len(q) - 1 : q[i + 1] \in Holds(q[i])
    BY <1>1, <1>6, <1>8
  <2> QED BY <1>5, <1>7, <2>1, <2>2 DEF Ways
<1> QED BY <1>1, <1>3, <1>6, <1>9

-----------------------------------------------------------------------------
(* Steps of the converter. *)

\* The top of the stack, where the converter calls itself.
LEMMA AtTop ==
  ASSUME ReadInv, AtCurrent
  PROVE  /\ Len(stack) \in Nat /\ DOMAIN stack = 1..Len(stack)
         /\ stack # <<>> => /\ Len(stack) \in 1..Len(stack)
                            /\ stack[Len(stack)].next <= Len(stack[Len(stack)].items)
         /\ \A i \in 1..Len(stack) : /\ stack[i] \in Frames /\ stack[i].next \in Nat
                                     /\ Len(stack[i].items) \in Nat
         /\ verdict = "reading" /\ depth = Len(stack) /\ depth <= maxDepth /\ maxDepth \in Nat
         /\ seen = {identity[stack[i].node] : i \in DOMAIN stack}
         /\ Cardinality(seen) = depth /\ IsFiniteSet(seen)
<1>1. Len(stack) \in Nat /\ DOMAIN stack = 1..Len(stack)
  BY LenProperties DEF ReadInv, ReadTypes
<1>2. stack # <<>> => Len(stack) \in 1..Len(stack)
  <2>1. stack # <<>> => Len(stack) \in Nat \ {0}
    BY EmptySeq DEF ReadInv, ReadTypes
  <2> QED BY <2>1
<1>3. stack # <<>> => stack[Len(stack)].next <= Len(stack[Len(stack)].items)
  BY DEF AtCurrent, Top
<1>4. ASSUME NEW i \in 1..Len(stack)
      PROVE  stack[i] \in Frames /\ stack[i].next \in Nat /\ Len(stack[i].items) \in Nat
  <2>1. stack[i] \in Frames
    BY <1>1, ElementOfSeq DEF ReadInv, ReadTypes
  <2>2. stack[i].next \in Nat /\ stack[i].items \in Seq(Spots)
    BY <2>1, TraversalAssumption DEF Frames, Spots
  <2> QED BY <2>1, <2>2, LenProperties
<1>5. /\ verdict = "reading" /\ depth = Len(stack) /\ depth <= maxDepth /\ maxDepth \in Nat
      /\ seen = {identity[stack[i].node] : i \in DOMAIN stack}
      /\ Cardinality(seen) = depth /\ IsFiniteSet(seen)
  BY TraversalAssumption DEF ReadInv, ReadTypes, PathSeen, SeenIsThePath, AtCurrent, Reading
<1> QED BY <1>1, <1>2, <1>3, <1>4, <1>5

\* A leaf is read, and its call returns.
LEMMA LeafRead ==
  ASSUME ReadInv, AtCurrent, Within, Current = Leaf, Returns(stack),
         UNCHANGED <<depth, seen>>, Quiet
  PROVE  ReadInv'
<1> PICK d : d = Len(stack)
  OBVIOUS
<1>1. /\ stack' \in Seq(Frames) /\ Len(stack') = d /\ d \in Nat
      /\ DOMAIN stack' = 1..d /\ DOMAIN stack = 1..d
      /\ stack = <<>> => stack' = <<>> /\ verdict' = "accepted"
      /\ stack # <<>> => verdict' = "reading"
      /\ \A i \in 1..d : /\ stack'[i].node = stack[i].node
                         /\ stack'[i].items = stack[i].items
                         /\ stack'[i].next = IF i = d THEN stack[i].next + 1 ELSE stack[i].next
  BY Returned DEF ReadInv, ReadTypes
<1>2. /\ depth = d /\ depth + 1 <= maxDepth /\ maxDepth \in Nat
      /\ stack # <<>> => d \in 1..d /\ stack[d].next <= Len(stack[d].items)
      /\ \A i \in 1..d : /\ stack[i] \in Frames /\ stack[i].next \in Nat
                         /\ Len(stack[i].items) \in Nat
  BY AtTop DEF Within
<1>3. /\ d \in Nat
      /\ \A i \in 1..d : /\ i = d \/ (i < d /\ i # d)
                         /\ i # 1 => i - 1 \in 1..d /\ i - 1 # d
  <2>1. d \in Nat
    BY <1>1
  <2> QED BY <2>1
<1>4. ReadTypes'
  BY <1>1 DEF ReadInv, ReadTypes, Quiet, runtimeVars, Spots
<1>5. Placed'
  <2> SUFFICES ASSUME NEW i \in 1..d
               PROVE  /\ stack'[i].next \in 1..Len(stack'[i].items) + 1
                      /\ i < d => stack'[i].next <= Len(stack'[i].items)
    BY <1>1 DEF Placed
  <2> PICK n, m : n = stack[i].next /\ m = Len(stack[i].items)
    OBVIOUS
  <2>1. n \in Nat /\ m \in Nat
    BY <1>2
  <2>2. n \in 1..m + 1
    BY <1>1 DEF ReadInv, Placed
  <2>3. i < d => n <= m
    BY <1>1 DEF ReadInv, Placed
  <2>4. i = d => n <= m
    <3>1. d \in 1..d => stack # <<>>
      BY <1>1, <1>3, EmptySeq
    <3> QED BY <1>2, <3>1
  <2>5. /\ Len(stack'[i].items) = m
        /\ stack'[i].next = IF i = d THEN n + 1 ELSE n
    BY <1>1
  <2>6. /\ (IF i = d THEN n + 1 ELSE n) \in 1..m + 1
        /\ i < d => (IF i = d THEN n + 1 ELSE n) <= m
    BY <1>3, <2>1, <2>2, <2>3, <2>4
  <2> QED BY <2>5, <2>6
<1>6. Apart'
  <2>1. identity' = identity
    BY DEF Quiet, runtimeVars
  <2> SUFFICES ASSUME NEW i \in 1..d, NEW j \in 1..d, i # j
               PROVE  identity[stack'[i].node] # identity[stack'[j].node]
    BY <1>1, <2>1 DEF Apart
  <2> QED BY <1>1 DEF ReadInv, Apart
<1>7. PathSeen'
  <2>1. {identity'[stack'[i].node] : i \in DOMAIN stack'} = {identity[stack[i].node] : i \in DOMAIN stack}
    BY <1>1 DEF Quiet, runtimeVars
  <2> QED BY <1>1, <2>1 DEF ReadInv, PathSeen, SeenIsThePath, AtCurrent, Reading, Quiet, runtimeVars
<1>8. FramesLead'
  <2> SUFFICES ASSUME stack # <<>>, ~rewired, NEW i \in 1..d
               PROVE  /\ stack'[i].items = graph'[stack'[i].node]
                      /\ stack'[i].node = IF i = 1 THEN root'
                                          ELSE stack'[i - 1].items[stack'[i - 1].next]
    BY <1>1 DEF FramesLead, Reading, Quiet
  <2>1. /\ stack[i].items = graph[stack[i].node]
        /\ stack[i].node = IF i = 1 THEN root ELSE stack[i - 1].items[stack[i - 1].next]
    BY <1>1 DEF ReadInv, FramesLead, AtCurrent
  <2> QED BY <1>1, <1>3, <2>1 DEF Quiet
<1>9. ASSUME ~rewired, NEW q \in Ways, Through(q, d), Len(q) > d, q[d + 1] = Leaf
      PROVE  Fine(q)
  <2>1. PICK n : n = Len(q)
    OBVIOUS
  <2>2. /\ n \in Nat /\ n > d
        /\ \A i \in 1..n - 1 : q[i + 1] \in Holds(q[i])
    BY <1>9, <2>1, WaysAre DEF ReadInv
  <2>3. Holds(Leaf) = {}
    BY TraversalAssumption DEF Holds
  <2>4. d + 1 \notin 1..n - 1
    BY <1>9, <2>2, <2>3
  <2>5. n = d + 1 /\ \A i \in 1..n : i > d => i = d + 1
    BY <1>3, <2>2, <2>4
  <2>6. \A i \in 1..n : i > d => q[i] \notin Nodes
    BY <1>9, <2>5, TraversalAssumption
  <2>7. n <= maxDepth
    BY <1>2, <2>5
  <2> QED BY <1>9, <2>1, <2>6, <2>7, FramesAreFine DEF ReadInv
<1>10. ReadIsFine'
  <2> SUFFICES ASSUME stack # <<>>, ~rewired, NEW k \in 1..d,
                      NEW j \in 1..stack'[k].next - 1, NEW q \in Ways,
                      Through(q, k)', k < Len(q), q[k + 1] = stack'[k].items[j]
               PROVE  Fine(q)
    BY <1>1, SameWays DEF ReadIsFine, Reading, Quiet
  <2>1. \A i \in 1..k : i \in 1..d
    BY <1>3
  <2>2. Through(q, k)
    BY <1>1, <2>1 DEF Through
  <2>3. q[k + 1] = stack[k].items[j]
    BY <1>1
  <2>4. j \in 1..stack[k].next - 1 \/ (k = d /\ j = stack[k].next)
    <3> PICK n : n = stack[k].next
      OBVIOUS
    <3>1. n \in Nat /\ j \in 1..(IF k = d THEN n + 1 ELSE n) - 1
      BY <1>1, <1>2
    <3>2. j \in 1..n - 1 \/ (k = d /\ j = n)
      BY <3>1
    <3> QED BY <3>2
  <2>5. CASE j \in 1..stack[k].next - 1
    BY <1>1, <2>2, <2>3, <2>5 DEF ReadInv, ReadIsFine, AtCurrent
  <2>6. CASE k = d /\ j = stack[k].next
    <3>1. Current = stack[k].items[j]
      BY <2>6, CurrentIs DEF ReadInv
    <3>2. Len(q) \in Nat
      BY WaysAre DEF ReadInv
    <3> QED BY <1>3, <1>9, <2>2, <2>3, <2>6, <3>1, <3>2
  <2> QED BY <2>4, <2>5, <2>6
<1>11. VerdictIsExact'
  <2> SUFFICES ASSUME stack = <<>>, ~rewired, NEW q \in Ways
               PROVE  Fine(q)
    BY <1>1, SameWays DEF VerdictIsExact, Quiet, Fine
  <2>1. d = 0 /\ root = Leaf
    BY <1>1, EmptySeq DEF Current
  <2>2. q[1] = root /\ Len(q) \in Nat \ {0}
    BY WaysAre DEF ReadInv
  <2>3. Through(q, 0)
    BY <2>2 DEF Through
  <2>4. Len(q) > 0 /\ q[0 + 1] = Leaf
    BY <2>1, <2>2
  <2> QED BY <1>9, <2>1, <2>3, <2>4
<1> QED BY <1>4, <1>5, <1>6, <1>7, <1>8, <1>10, <1>11 DEF ReadInv

\* A container is entered.
LEMMA ContainerEntered ==
  ASSUME ReadInv, AtCurrent, Within, Current \in Nodes, identity[Current] \notin seen,
         depth' = depth + 1, seen' = seen \cup {identity[Current]},
         stack' = Append(stack, [node |-> Current, items |-> graph[Current], next |-> 1]),
         UNCHANGED verdict, Quiet
  PROVE  ReadInv'
<1> PICK d : d = Len(stack)
  OBVIOUS
<1>1. PICK f : f = [node |-> Current, items |-> graph[Current], next |-> 1]
  OBVIOUS
<1>2. /\ f \in Frames /\ f.node = Current /\ f.items = graph[Current] /\ f.next = 1
      /\ f.items \in Shapes
  BY <1>1 DEF ReadInv, ReadTypes, Frames
<1>3. /\ stack' \in Seq(Frames) /\ Len(stack') = d + 1 /\ d \in Nat
      /\ DOMAIN stack' = 1..d + 1 /\ DOMAIN stack = 1..d
      /\ \A i \in 1..d : stack'[i] = stack[i]
      /\ stack'[d + 1] = f
  BY <1>1, <1>2, Pushed DEF ReadInv, ReadTypes
<1>4. /\ depth = d /\ depth + 1 <= maxDepth /\ verdict = "reading"
      /\ seen = {identity[stack[i].node] : i \in DOMAIN stack}
      /\ Cardinality(seen) = depth /\ IsFiniteSet(seen) /\ maxDepth \in Nat
      /\ stack # <<>> => d \in 1..d /\ stack[d].next <= Len(stack[d].items)
      /\ stack = <<>> => d = 0
  BY AtTop, EmptySeq DEF Within
<1>5. \A i \in 1..d + 1 : \/ i \in 1..d /\ (i = d \/ i < d) /\ (i # 1 => i - 1 \in 1..d)
                          \/ i = d + 1 /\ i - 1 = d /\ (i # 1 => d \in 1..d)
  <2>1. d \in Nat
    BY <1>3
  <2> QED BY <2>1
<1>6. \A i \in 1..d : i # d + 1 /\ \A j \in 1..i : j \in 1..d
  <2>1. d \in Nat
    BY <1>3
  <2> QED BY <2>1
<1>7. ReadTypes'
  BY <1>3, <1>4 DEF ReadInv, ReadTypes, Quiet, runtimeVars, Spots
<1>8. Placed'
  <2> SUFFICES ASSUME NEW i \in 1..d + 1
               PROVE  /\ stack'[i].next \in 1..Len(stack'[i].items) + 1
                      /\ i < d + 1 => stack'[i].next <= Len(stack'[i].items)
    BY <1>3 DEF Placed
  <2>1. CASE i = d + 1
    <3>1. Len(f.items) \in Nat
      BY <1>2, TraversalAssumption, LenProperties
    <3>2. 1 \in 1..Len(f.items) + 1 /\ ~(i < d + 1)
      BY <1>3, <2>1, <3>1
    <3> QED BY <1>2, <1>3, <2>1, <3>2
  <2>2. CASE i \in 1..d
    <3>1. stack'[i] = stack[i]
      BY <1>3, <2>2
    <3>2. stack[i].next \in 1..Len(stack[i].items) + 1
      BY <1>3, <2>2 DEF ReadInv, Placed
    <3>3. stack[i].next <= Len(stack[i].items)
      <4>1. CASE i = d
        <5>1. stack # <<>>
          BY <1>4, <2>2
        <5> QED BY <1>4, <4>1, <5>1
      <4>2. CASE i < d
        BY <1>3, <2>2, <4>2 DEF ReadInv, Placed
      <4> QED BY <1>5, <1>6, <2>2, <4>1, <4>2
    <3> QED BY <3>1, <3>2, <3>3
  <2> QED BY <1>5, <2>1, <2>2
<1>9. \A i \in 1..d : identity[stack[i].node] # identity[Current]
  BY <1>3, <1>4
<1>10. Apart'
  <2>1. identity' = identity
    BY DEF Quiet, runtimeVars
  <2> SUFFICES ASSUME NEW i \in 1..d + 1, NEW j \in 1..d + 1, i # j
               PROVE  identity[stack'[i].node] # identity[stack'[j].node]
    BY <1>3, <2>1 DEF Apart
  <2>2. (i \in 1..d \/ i = d + 1) /\ (j \in 1..d \/ j = d + 1)
    BY <1>5
  <2> QED BY <1>2, <1>3, <1>9, <2>2 DEF ReadInv, Apart
<1>11. PathSeen'
  <2>1. IsFiniteSet(seen') /\ Cardinality(seen') = depth + 1
    BY <1>4, FS_AddElement
  <2>2. identity' = identity /\ maxDepth' = maxDepth
    BY DEF Quiet, runtimeVars
  <2>3. seen' = {identity'[stack'[i].node] : i \in DOMAIN stack'}
    <3>1. \A i \in 1..d + 1 : i \in 1..d \/ i = d + 1
      BY <1>5
    <3>2. \A i \in 1..d : i \in 1..d + 1
      BY <1>3
    <3>3. d + 1 \in 1..d + 1
      BY <1>3
    <3>4. seen' = {identity[stack[i].node] : i \in 1..d} \cup {identity[f.node]}
      BY <1>2, <1>3, <1>4
    <3>5. \A i \in 1..d : identity[stack'[i].node] = identity[stack[i].node]
      BY <1>3
    <3>6. {identity[stack'[i].node] : i \in 1..d + 1}
            = {identity[stack[i].node] : i \in 1..d} \cup {identity[f.node]}
      BY <1>3, <3>1, <3>2, <3>3, <3>5
    <3> QED BY <1>3, <2>2, <3>4, <3>6
  <2> QED BY <1>3, <1>4, <2>1, <2>2, <2>3 DEF PathSeen, SeenIsThePath
<1>12. FramesLead'
  <2> SUFFICES ASSUME ~rewired, NEW i \in 1..d + 1
               PROVE  /\ stack'[i].items = graph[stack'[i].node]
                      /\ stack'[i].node = IF i = 1 THEN root
                                          ELSE stack'[i - 1].items[stack'[i - 1].next]
    BY <1>3 DEF FramesLead, Quiet
  <2>1. CASE i \in 1..d
    <3>1. i # 1 => i - 1 \in 1..d
      BY <1>5, <1>6, <2>1
    <3> QED BY <1>3, <2>1, <3>1 DEF ReadInv, FramesLead, AtCurrent
  <2>2. CASE i = d + 1
    <3>1. Current = IF stack = <<>> THEN root ELSE stack[d].items[stack[d].next]
      BY CurrentIs DEF ReadInv
    <3>2. CASE stack = <<>>
      BY <1>2, <1>3, <1>4, <2>2, <3>1, <3>2
    <3>3. CASE stack # <<>>
      <4>1. d \in 1..d
        BY <1>4, <3>3
      <4>2. i # 1 /\ i - 1 = d
        BY <1>3, <2>2, <4>1
      <4> QED BY <1>2, <1>3, <2>2, <3>1, <3>3, <4>1, <4>2
    <3> QED BY <3>2, <3>3
  <2> QED BY <1>5, <2>1, <2>2
<1>13. ReadIsFine'
  <2> SUFFICES ASSUME ~rewired, NEW k \in 1..d + 1,
                      NEW j \in 1..stack'[k].next - 1, NEW q \in Ways,
                      Through(q, k)', k < Len(q), q[k + 1] = stack'[k].items[j]
               PROVE  Fine(q)
    BY <1>3, SameWays DEF ReadIsFine, Quiet
  <2>1. CASE k = d + 1
    <3>1. stack'[k].next - 1 = 0
      BY <1>2, <1>3, <2>1
    <3> QED BY <3>1
  <2>2. CASE k \in 1..d
    <3>1. Through(q, k)
      BY <1>3, <1>6, <2>2 DEF Through
    <3>2. j \in 1..stack[k].next - 1 /\ q[k + 1] = stack[k].items[j]
      BY <1>3, <2>2
    <3> QED BY <1>3, <2>2, <3>1, <3>2 DEF ReadInv, ReadIsFine, AtCurrent
  <2> QED BY <1>5, <2>1, <2>2
<1>14. VerdictIsExact'
  BY <1>4 DEF VerdictIsExact
<1> QED BY <1>7, <1>8, <1>10, <1>11, <1>12, <1>13, <1>14 DEF ReadInv

\* A reading fails, for a reason that VerdictIsExact accepts.
LEMMA ReadingFails ==
  ASSUME ReadInv, Reading, NEW how \in Failures, Fails(how), Quiet, VerdictIsExact'
  PROVE  ReadInv'
<1>1. ~Reading' /\ verdict' \notin {"reading", "accepted"}
  BY DEF Fails, Failures, Reading
<1>2. ReadTypes'
  BY DEF ReadInv, ReadTypes, Fails, Quiet, runtimeVars, Spots
<1>3. Placed' /\ Apart'
  BY DEF ReadInv, Placed, Apart, Fails, Quiet, runtimeVars
<1>4. PathSeen'
  BY <1>1 DEF ReadInv, PathSeen, SeenIsThePath, Fails
<1>5. FramesLead' /\ ReadIsFine'
  BY <1>1 DEF FramesLead, ReadIsFine
<1> QED BY <1>2, <1>3, <1>4, <1>5 DEF ReadInv

\* The depth limit is met only on a way that is too long.
LEMMA TooDeep ==
  ASSUME ReadInv, AtCurrent, ~Within, Fails("deep"), Quiet
  PROVE  VerdictIsExact'
<1> SUFFICES ASSUME ~rewired
             PROVE  \E q \in Ways : Len(q) > maxDepth
  BY SameWays DEF VerdictIsExact, Fails, Quiet, runtimeVars
<1>1. PICK d \in Nat : d = Len(stack)
  BY AtTop
<1>2. d \in Nat /\ depth = d /\ depth <= maxDepth /\ maxDepth \in Nat /\ ~(depth + 1 <= maxDepth)
  BY <1>1, AtTop DEF Within
<1>3. d + 1 > maxDepth /\ d + 1 <= maxDepth + 1
  BY <1>2
<1>4. \E q \in Ways : Len(q) = d + 1
  BY <1>1, <1>3, FramesAreWay
<1> QED BY <1>3, <1>4

\* A hash is met again only on a way that repeats it.
LEMMA Circular ==
  ASSUME ReadInv, AtCurrent, Within, Current \in Nodes, identity[Current] \in seen,
         Fails("circular"), Quiet
  PROVE  VerdictIsExact'
<1> SUFFICES ASSUME ~rewired
             PROVE  \E q \in Ways : Len(q) <= maxDepth /\ Repeats(q)
  BY SameWays DEF VerdictIsExact, Fails, Quiet, runtimeVars, Repeats
<1>1. PICK d \in Nat : d = Len(stack)
  BY AtTop
<1>2. /\ depth = d /\ depth + 1 <= maxDepth /\ maxDepth \in Nat /\ DOMAIN stack = 1..d
      /\ seen = {identity[stack[i].node] : i \in DOMAIN stack}
      /\ \A i \in 1..d : stack[i] \in Frames
  BY <1>1, AtTop DEF Within
<1>3. d + 1 <= maxDepth /\ d + 1 <= maxDepth + 1
  BY <1>2
<1>4. PICK q \in Ways : /\ Len(q) = d + 1 /\ q[d + 1] = Current
                        /\ \A i \in 1..d : q[i] = stack[i].node
  BY <1>1, <1>2, <1>3, FramesAreWay
<1>5. PICK i \in 1..d : identity[stack[i].node] = identity[Current]
  BY <1>2
<1>6. DOMAIN q = 1..d + 1
  BY <1>4, WaysAre DEF ReadInv
<1>7. i \in 1..d + 1 /\ d + 1 \in 1..d + 1 /\ i < d + 1
  BY <1>1, <1>5
<1>8. q[i] \in Nodes
  BY <1>2, <1>4, <1>5 DEF Frames
<1> QED BY <1>3, <1>4, <1>5, <1>6, <1>7, <1>8 DEF Repeats

\* One call of the converter.
LEMMA CallStep ==
  ASSUME ReadInv, AtCurrent, Visit(Current), Quiet
  PROVE  ReadInv'
<1>1. CASE ~Within /\ Fails("deep")
  BY <1>1, TooDeep, ReadingFails DEF AtCurrent, Failures
<1>2. CASE /\ Within /\ Current = Leaf
           /\ Returns(stack) /\ UNCHANGED <<depth, seen>>
  BY <1>2, LeafRead
<1>3. CASE /\ Within /\ Current \in Nodes /\ identity[Current] \in seen
           /\ Fails("circular")
  BY <1>3, Circular, ReadingFails DEF AtCurrent, Failures
<1>4. CASE /\ Within /\ Current \in Nodes /\ identity[Current] \notin seen
           /\ depth' = depth + 1 /\ seen' = seen \cup {identity[Current]}
           /\ stack' = Append(stack, [node |-> Current, items |-> graph[Current], next |-> 1])
           /\ UNCHANGED verdict
  BY <1>4, ContainerEntered
<1> QED BY <1>1, <1>2, <1>3, <1>4 DEF Visit

\* When all members of the top container are read, all ways through it are fine.
LEMMA TopIsFine ==
  ASSUME ReadInv, AtEnd, ~rewired, NEW q \in Ways, Through(q, Len(stack))
  PROVE  Fine(q)
<1>1. PICK d : d = Len(stack) /\ d \in Nat \ {0} /\ DOMAIN stack = 1..d
  BY EmptySeq, LenProperties DEF ReadInv, ReadTypes, AtEnd
<1>2. PICK n : n = Len(q) /\ n \in Nat \ {0} /\ n >= d
  BY <1>1, WaysAre DEF ReadInv, Through
<1>3. d \in 1..d /\ (n = d \/ d \in 1..n - 1)
  BY <1>1, <1>2
<1>4. CASE n = d
  <2>1. d <= maxDepth
    BY <1>1 DEF ReadInv, PathSeen, SeenIsThePath, AtEnd, Reading
  <2>2. \A i \in 1..n : ~(i > d)
    BY <1>1, <1>4
  <2> QED BY <1>1, <1>2, <1>4, <2>1, <2>2, FramesAreFine DEF ReadInv
<1>5. CASE d \in 1..n - 1
  <2>1. q[d + 1] \in Holds(q[d]) /\ q[d] = stack[d].node
    BY <1>1, <1>2, <1>3, <1>5, WaysAre DEF ReadInv, Through
  <2>2. stack[d].items = graph[stack[d].node]
    BY <1>1, <1>3 DEF ReadInv, FramesLead, AtEnd
  <2>3. PICK j \in DOMAIN graph[stack[d].node] : q[d + 1] = graph[stack[d].node][j]
    BY <2>1 DEF Holds
  <2>4. /\ stack[d].items \in Seq(Spots) /\ stack[d].next \in Nat
        /\ stack[d].next > Len(stack[d].items)
    <3>1. stack[d] \in Frames
      BY <1>1, <1>3, ElementOfSeq DEF ReadInv, ReadTypes
    <3> QED BY <1>1, <3>1, TraversalAssumption DEF Frames, Spots, AtEnd, Top
  <2>5. j \in 1..Len(stack[d].items) /\ Len(stack[d].items) \in Nat
    BY <2>2, <2>3, <2>4, LenProperties
  <2>6. j \in 1..stack[d].next - 1
    BY <2>4, <2>5
  <2>7. d < n
    BY <1>1, <1>2, <1>5
  <2> QED BY <1>1, <1>2, <1>3, <2>2, <2>3, <2>6, <2>7 DEF ReadInv, ReadIsFine, AtEnd
<1> QED BY <1>3, <1>4, <1>5

\* A container is left.
LEMMA ContainerLeft ==
  ASSUME ReadInv, LeaveContainer
  PROVE  ReadInv'
<1>1. Quiet /\ AtEnd
  BY DEF LeaveContainer, Quiet, AtEnd, Reading
<1>2. PICK d : d = Len(stack)
  OBVIOUS
<1>3. PICK s : s = SubSeq(stack, 1, Len(stack) - 1)
  OBVIOUS
<1>4. /\ s \in Seq(Frames) /\ Len(s) = d - 1 /\ d \in Nat \ {0}
      /\ DOMAIN s = 1..d - 1 /\ DOMAIN stack = 1..d
      /\ \A i \in 1..d - 1 : s[i] = stack[i]
  BY <1>1, <1>2, <1>3, Popped DEF ReadInv, ReadTypes, AtEnd
<1>5. Returns(s) /\ depth' = depth - 1 /\ seen' = seen \ {identity[stack[d].node]}
  BY <1>2, <1>3 DEF LeaveContainer, Top
<1>6. PICK e : e = d - 1
  OBVIOUS
<1>7. /\ stack' \in Seq(Frames) /\ Len(stack') = e /\ Len(s) = e
      /\ DOMAIN stack' = 1..e
      /\ s = <<>> => stack' = <<>> /\ verdict' = "accepted"
      /\ s # <<>> => verdict' = "reading"
      /\ \A i \in 1..e : /\ stack'[i].node = stack[i].node /\ stack'[i].items = stack[i].items
                         /\ stack'[i].next = IF i = e THEN stack[i].next + 1 ELSE stack[i].next
  BY <1>4, <1>5, <1>6, Returned
<1>8. /\ d \in Nat \ {0} /\ e \in Nat /\ d = e + 1 /\ d \in 1..d
      /\ \A i \in 1..e : /\ i \in 1..d /\ i # d /\ i < d /\ (i = e \/ (i < e /\ i # e))
                         /\ i # 1 => i - 1 \in 1..e /\ i - 1 # e
                         /\ \A j \in 1..i : j \in 1..e
      /\ \A i \in 1..d : i \in 1..e \/ i = d
  <2>1. d \in Nat \ {0} /\ e = d - 1
    BY <1>4, <1>6
  <2> QED BY <2>1
<1>9. /\ depth = d /\ d <= maxDepth /\ maxDepth \in Nat
      /\ seen = {identity[stack[i].node] : i \in 1..d}
      /\ Cardinality(seen) = depth /\ IsFiniteSet(seen)
      /\ verdict = "reading"
  BY <1>1, <1>2, <1>4, TraversalAssumption
  DEF ReadInv, ReadTypes, PathSeen, SeenIsThePath, AtEnd, Reading
<1>10. s = <<>> <=> e = 0
  BY <1>4, <1>7, <1>8, EmptySeq
<1>11. ReadTypes'
  BY <1>1, <1>5, <1>7, <1>8, <1>9 DEF ReadInv, ReadTypes, Quiet, runtimeVars, Spots
<1>12. Placed'
  <2> SUFFICES ASSUME NEW i \in 1..e
               PROVE  /\ stack'[i].next \in 1..Len(stack'[i].items) + 1
                      /\ i < e => stack'[i].next <= Len(stack'[i].items)
    BY <1>7 DEF Placed
  <2> PICK n, m : n = stack[i].next /\ m = Len(stack[i].items)
    OBVIOUS
  <2>1. n \in Nat /\ m \in Nat
    <3>1. stack[i] \in Frames
      BY <1>2, <1>8, ElementOfSeq DEF ReadInv, ReadTypes
    <3>2. stack[i].next \in Nat /\ stack[i].items \in Seq(Spots)
      BY <3>1, TraversalAssumption DEF Frames, Spots
    <3> QED BY <3>2, LenProperties
  <2>2. n \in 1..m + 1 /\ n <= m
    BY <1>2, <1>4, <1>8 DEF ReadInv, Placed
  <2>3. /\ Len(stack'[i].items) = m
        /\ stack'[i].next = IF i = e THEN n + 1 ELSE n
    BY <1>7
  <2>4. /\ (IF i = e THEN n + 1 ELSE n) \in 1..m + 1
        /\ i < e => (IF i = e THEN n + 1 ELSE n) <= m
    BY <1>8, <2>1, <2>2
  <2> QED BY <2>3, <2>4
<1>13. Apart'
  <2>1. identity' = identity
    BY <1>1 DEF Quiet, runtimeVars
  <2> SUFFICES ASSUME NEW i \in 1..e, NEW j \in 1..e, i # j
               PROVE  identity[stack'[i].node] # identity[stack'[j].node]
    BY <1>7, <2>1 DEF Apart
  <2>2. i \in DOMAIN stack /\ j \in DOMAIN stack
    BY <1>4, <1>8
  <2>3. stack'[i].node = stack[i].node /\ stack'[j].node = stack[j].node
    BY <1>7
  <2> QED BY <2>2, <2>3 DEF ReadInv, Apart
<1>14. PathSeen'
  <2>1. identity' = identity /\ maxDepth' = maxDepth
    BY <1>1 DEF Quiet, runtimeVars
  <2>2. identity[stack[d].node] \in seen
    BY <1>8, <1>9
  <2>3. IsFiniteSet(seen') /\ Cardinality(seen') = depth - 1
    BY <1>5, <1>9, <2>2, FS_RemoveElement
  <2>4. \A i \in 1..e : identity[stack[i].node] # identity[stack[d].node]
    BY <1>4, <1>8 DEF ReadInv, Apart
  <2>5. seen' = {identity[stack[i].node] : i \in 1..e}
    BY <1>5, <1>8, <1>9, <2>4
  <2>6. seen' = {identity'[stack'[i].node] : i \in DOMAIN stack'}
    BY <1>7, <2>1, <2>5
  <2>7. depth' = e /\ e <= maxDepth
    BY <1>5, <1>8, <1>9
  <2> QED BY <1>5, <1>7, <2>1, <2>3, <2>6, <2>7 DEF PathSeen, SeenIsThePath
<1>15. FramesLead'
  <2> SUFFICES ASSUME ~rewired, NEW i \in 1..e
               PROVE  /\ stack'[i].items = graph[stack'[i].node]
                      /\ stack'[i].node = IF i = 1 THEN root
                                          ELSE stack'[i - 1].items[stack'[i - 1].next]
    BY <1>1, <1>7 DEF FramesLead, Quiet
  <2>1. /\ stack[i].items = graph[stack[i].node]
        /\ stack[i].node = IF i = 1 THEN root ELSE stack[i - 1].items[stack[i - 1].next]
    BY <1>1, <1>4, <1>8 DEF ReadInv, FramesLead, AtEnd
  <2> QED BY <1>7, <1>8, <2>1
<1>16. ReadIsFine'
  <2> SUFFICES ASSUME ~rewired, NEW k \in 1..e,
                      NEW j \in 1..stack'[k].next - 1, NEW q \in Ways,
                      Through(q, k)', k < Len(q), q[k + 1] = stack'[k].items[j]
               PROVE  Fine(q)
    BY <1>1, <1>7, SameWays DEF ReadIsFine, Quiet
  <2>1. Through(q, k)
    BY <1>7, <1>8 DEF Through
  <2>2. q[k + 1] = stack[k].items[j]
    BY <1>7
  <2>3. j \in 1..stack[k].next - 1 \/ (k = e /\ j = stack[k].next)
    <3> PICK n : n = stack[k].next
      OBVIOUS
    <3>1. stack[k] \in Frames
      BY <1>2, <1>8, ElementOfSeq DEF ReadInv, ReadTypes
    <3>2. n \in Nat /\ j \in 1..(IF k = e THEN n + 1 ELSE n) - 1
      BY <1>7, <3>1 DEF Frames
    <3>3. j \in 1..n - 1 \/ (k = e /\ j = n)
      BY <3>2
    <3> QED BY <3>3
  <2>4. CASE j \in 1..stack[k].next - 1
    BY <1>1, <1>4, <1>8, <2>1, <2>2, <2>4 DEF ReadInv, ReadIsFine, AtEnd
  <2>5. CASE k = e /\ j = stack[k].next
    <3>1. stack[d].node = stack[k].items[j]
      <4>1. d # 1 /\ d - 1 = k
        BY <1>8, <2>5
      <4> QED BY <1>1, <1>4, <1>8, <2>5, <4>1 DEF ReadInv, FramesLead, AtEnd
    <3>2. d <= Len(q)
      <4>1. Len(q) \in Nat
        BY WaysAre DEF ReadInv
      <4> QED BY <1>8, <2>5, <4>1
    <3>3. \A i \in 1..d : q[i] = stack[i].node
      BY <1>8, <2>1, <2>2, <2>5, <3>1 DEF Through
    <3> QED BY <1>1, <1>2, <3>2, <3>3, TopIsFine DEF Through
  <2> QED BY <2>3, <2>4, <2>5
<1>17. VerdictIsExact'
  <2> SUFFICES ASSUME s = <<>>, ~rewired, NEW q \in Ways
               PROVE  Fine(q)
    BY <1>1, <1>7, SameWays DEF VerdictIsExact, Quiet, Fine
  <2>1. d = 1
    BY <1>8, <1>10
  <2>2. q[1] = stack[1].node
    BY <1>1, <1>4, <1>8, <2>1, WaysAre DEF ReadInv, FramesLead, AtEnd
  <2>3. 1 <= Len(q)
    <3>1. Len(q) \in Nat \ {0}
      BY WaysAre DEF ReadInv
    <3> QED BY <3>1
  <2>4. \A i \in 1..1 : q[i] = stack[i].node
    BY <2>2
  <2> QED BY <1>1, <1>2, <2>1, <2>3, <2>4, TopIsFine DEF Through
<1> QED BY <1>11, <1>12, <1>13, <1>14, <1>15, <1>16, <1>17 DEF ReadInv

-----------------------------------------------------------------------------
(* The reading as a whole. *)

\* An empty stack satisfies what is said of frames.
Fresh == stack = <<>> /\ seen = {} /\ depth = 0 /\ maxDepth \in MaxDepths

LEMMA NoFrames == Fresh => Placed /\ Apart /\ PathSeen /\ FramesLead /\ ReadIsFine
<1> SUFFICES ASSUME Fresh PROVE Placed /\ Apart /\ PathSeen /\ FramesLead /\ ReadIsFine
  OBVIOUS
<1>0. stack = <<>> /\ seen = {} /\ depth = 0 /\ maxDepth \in MaxDepths
  BY DEF Fresh
<1>1. DOMAIN stack = {} /\ Len(stack) = 0 /\ \A i \in 1..0 : FALSE
  BY <1>0, EmptySeq
<1>2. IsFiniteSet({}) /\ Cardinality({}) = 0
  BY FS_EmptySet
<1>3. {identity[stack[i].node] : i \in DOMAIN stack} = {}
  BY <1>1
<1>4. depth <= maxDepth
  BY <1>0, TraversalAssumption
<1>5. PathSeen
  BY <1>0, <1>1, <1>2, <1>3, <1>4 DEF PathSeen, SeenIsThePath
<1> QED BY <1>0, <1>1, <1>5 DEF Placed, Apart, FramesLead, ReadIsFine

\* A reading begins with nothing seen.
LEMMA ReadingBegins ==
  ASSUME ReadInv, NEW v \in Spots, Begin(v)
  PROVE  ReadInv'
<1>1. /\ stack' = <<>> /\ seen' = {} /\ depth' = 0 /\ verdict' = "reading"
      /\ maxDepth' = maxDepth /\ maxDepth' \in MaxDepths
  BY DEF Begin, runtimeVars, ReadInv, ReadTypes
<1>2. (Placed /\ Apart /\ PathSeen /\ FramesLead /\ ReadIsFine)'
  <2>1. Fresh'
    BY <1>1 DEF Fresh
  <2> QED BY <2>1, NoFrames, PTL
<1>3. ReadTypes'
  <2>1. <<>> \in Seq(Frames)
    BY EmptySeq
  <2>2. stack' \in Seq(Frames)
    BY <1>1, <2>1, Zenon
  <2>3. rewired' \in BOOLEAN
    BY Zenon DEF Begin
  <2> QED BY <1>1, <2>2, <2>3 DEF Begin, runtimeVars, ReadInv, ReadTypes, Spots
<1>4. VerdictIsExact'
  BY <1>1 DEF VerdictIsExact
<1> QED BY <1>2, <1>3, <1>4 DEF ReadInv

\* What JavaScript does to the containers does not touch the stack.
LEMMA GuestRan ==
  ASSUME ReadInv, NEW n \in Nodes, GuestRuns(n)
  PROVE  ReadInv'
<1>1. /\ UNCHANGED <<identity, maxDepth, root, depth, seen, stack, verdict>>
      /\ rewired' = TRUE
  BY DEF GuestRuns, runtimeVars, callVars
<1>2. ReadTypes'
  BY <1>1 DEF GuestRuns, ReadInv, ReadTypes, Spots
<1>3. Placed' /\ Apart' /\ PathSeen'
  BY <1>1 DEF ReadInv, Placed, Apart, PathSeen, SeenIsThePath
<1>4. FramesLead' /\ ReadIsFine' /\ VerdictIsExact'
  BY <1>1 DEF FramesLead, ReadIsFine, VerdictIsExact
<1> QED BY <1>2, <1>3, <1>4 DEF ReadInv

LEMMA ReadInvInit == ReadInit => ReadInv
<1> SUFFICES ASSUME ReadInit PROVE ReadInv
  OBVIOUS
<1>1. <<>> \in Seq(Frames)
  BY EmptySeq
<1>2. ReadTypes
  <2>1. stack \in Seq(Frames)
    BY <1>1, Zenon DEF ReadInit
  <2>2. rewired \in BOOLEAN
    BY Zenon DEF ReadInit
  <2> QED BY <2>1, <2>2 DEF ReadInit, ReadTypes, Spots
<1>3. Placed /\ Apart /\ PathSeen /\ FramesLead /\ ReadIsFine
  BY NoFrames DEF Fresh, ReadInit
<1>4. VerdictIsExact
  BY DEF ReadInit, VerdictIsExact
<1> QED BY <1>2, <1>3, <1>4 DEF ReadInv

LEMMA ReadInvStep == ReadInv /\ [ReadNext]_readVars => ReadInv'
<1> SUFFICES ASSUME ReadInv, [ReadNext]_readVars PROVE ReadInv'
  OBVIOUS
<1>1. ASSUME NEW v \in Spots, Begin(v) PROVE ReadInv'
  BY <1>1, ReadingBegins
<1>2. CASE ReadRoot
  BY <1>2, CallStep DEF ReadRoot, AtCurrent, Reading, Current, Quiet
<1>3. CASE ReadMember
  BY <1>3, CallStep DEF ReadMember, AtCurrent, Reading, Current, Quiet
<1>4. CASE LeaveContainer
  BY <1>4, ContainerLeft
<1>5. CASE Refuse
  <2>1. Quiet /\ Reading /\ Fails("refused")
    BY <1>5 DEF Refuse, Quiet, Reading
  <2>2. VerdictIsExact'
    BY <2>1 DEF VerdictIsExact, Fails
  <2> QED BY <2>1, <2>2, ReadingFails DEF Failures
<1>6. ASSUME NEW n \in Nodes, GuestRuns(n) PROVE ReadInv'
  BY <1>6, GuestRan
<1>7. CASE UNCHANGED readVars
  <2>1. ReadTypes' /\ Placed' /\ Apart' /\ PathSeen'
    BY <1>7 DEF ReadInv, readVars, ReadTypes, Placed, Apart, PathSeen, SeenIsThePath
  <2>2. Quiet
    BY <1>7 DEF readVars, Quiet, runtimeVars
  <2>3. FramesLead' /\ VerdictIsExact'
    BY <1>7, <2>2, SameWays DEF ReadInv, readVars, FramesLead, Reading, VerdictIsExact, Repeats
  <2>4. ReadIsFine'
    BY <1>7, <2>2, SameWays DEF ReadInv, readVars, ReadIsFine, Reading, Through
  <2> QED BY <2>1, <2>3, <2>4 DEF ReadInv
<1> QED BY <1>1, <1>2, <1>3, <1>4, <1>5, <1>6, <1>7 DEF ReadNext

\* The inductive invariant: until JavaScript changes something, the frames are
\* a way into the value, and every way through a member that has been read is
\* within the depth limit and free of repetitions.
THEOREM ReadingInvariant == ReadSpec => []ReadInv
BY ReadInvInit, ReadInvStep, PTL DEF ReadSpec

\* Whatever JavaScript does meanwhile, `seen` is the chain of the containers
\* being read, as long as the tracker says, and never longer than the limit.
THEOREM SeenIsAlwaysThePath == ReadSpec => []SeenIsThePath
BY ReadingInvariant, PTL DEF ReadInv, PathSeen

\* The converter rejects as too deep or circular exactly what is.
THEOREM VerdictsAreExact == ReadSpec => []VerdictIsExact
BY ReadingInvariant, PTL DEF ReadInv
=============================================================================

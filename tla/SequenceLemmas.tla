--------------------------- MODULE SequenceLemmas ---------------------------
(***************************************************************************)
(* What appending to a sequence and taking its head do to its members: the *)
(* command channels and the job lists of the modules about peno are used   *)
(* in these two ways only.                                                 *)
(***************************************************************************)
EXTENDS Sequences, SequencesExt, SequenceTheorems, TLAPS

\* What a sequence has after an append.
LEMMA Appended ==
  ASSUME NEW S, NEW s \in Seq(S), NEW e \in S
  PROVE  /\ Append(s, e) \in Seq(S)
         /\ ToSet(Append(s, e)) = ToSet(s) \cup {e}
         /\ \A i \in DOMAIN Append(s, e) :
              /\ i \in Nat
              /\ \/ i \in DOMAIN s /\ Append(s, e)[i] = s[i]
                 \/ i \notin DOMAIN s /\ Append(s, e)[i] = e /\ \A j \in DOMAIN Append(s, e) : j <= i
         /\ \A i \in DOMAIN s : s[i] \in ToSet(s)
         /\ \A i, j \in DOMAIN Append(s, e) :
              i \notin DOMAIN s /\ j \notin DOMAIN s => i = j
         /\ Len(Append(s, e)) = Len(s) + 1 /\ Len(s) \in Nat
<1>1. /\ Len(s) \in Nat /\ DOMAIN s = 1..Len(s)
      /\ Append(s, e) \in Seq(S)
      /\ DOMAIN Append(s, e) = 1..(Len(s) + 1) /\ Len(Append(s, e)) = Len(s) + 1
      /\ \A i \in 1..Len(s) : Append(s, e)[i] = s[i]
      /\ Append(s, e)[Len(s) + 1] = e
  BY AppendProperties, LenProperties
<1>2. ToSet(Append(s, e)) = ToSet(s) \cup {e}
  BY <1>1 DEF ToSet
<1>3. \A i \in DOMAIN Append(s, e) :
        /\ i \in Nat
        /\ \/ i \in DOMAIN s /\ Append(s, e)[i] = s[i]
           \/ i \notin DOMAIN s /\ Append(s, e)[i] = e /\ \A j \in DOMAIN Append(s, e) : j <= i
  BY <1>1
<1>4. \A i \in DOMAIN s : s[i] \in ToSet(s)
  BY DEF ToSet
<1>5. \A i, j \in DOMAIN Append(s, e) :
        i \notin DOMAIN s /\ j \notin DOMAIN s => i = j
  BY <1>1
<1>6. QED
  BY <1>1, <1>2, <1>3, <1>4, <1>5

\* What it has when the first element is taken.
LEMMA Taken ==
  ASSUME NEW S, NEW s \in Seq(S), s # << >>
  PROVE  /\ Head(s) \in S /\ Tail(s) \in Seq(S)
         /\ ToSet(s) = {Head(s)} \cup ToSet(Tail(s))
         /\ 1 \in DOMAIN s /\ s[1] = Head(s)
         /\ \A i \in DOMAIN Tail(s) :
              i \in Nat \ {0} /\ i + 1 \in DOMAIN s /\ Tail(s)[i] = s[i + 1]
         /\ Len(Tail(s)) = Len(s) - 1 /\ Len(s) \in Nat \ {0}
<1>1. /\ Len(s) \in Nat \ {0} /\ DOMAIN s = 1..Len(s) /\ s[1] = Head(s)
      /\ Head(s) \in S /\ Tail(s) \in Seq(S) /\ Len(Tail(s)) = Len(s) - 1
      /\ \A i \in 1..Len(Tail(s)) : Tail(s)[i] = s[i + 1]
  BY HeadTailProperties, LenProperties, EmptySeq
<1>2. DOMAIN Tail(s) = 1..(Len(s) - 1)
  BY <1>1, LenProperties
<1>3. ToSet(s) = {Head(s)} \cup ToSet(Tail(s))
  <2>1. \A i \in DOMAIN s : s[i] \in {Head(s)} \cup ToSet(Tail(s))
    <3> SUFFICES ASSUME NEW i \in DOMAIN s, i # 1 PROVE s[i] \in ToSet(Tail(s))
      BY <1>1
    <3>1. i - 1 \in DOMAIN Tail(s) /\ Tail(s)[i - 1] = s[i]
      BY <1>1, <1>2
    <3>2. QED
      BY <3>1 DEF ToSet
  <2>2. \A i \in DOMAIN Tail(s) : Tail(s)[i] \in ToSet(s)
    BY <1>1, <1>2 DEF ToSet
  <2>3. Head(s) \in ToSet(s)
    BY <1>1 DEF ToSet
  <2>4. QED
    BY <2>1, <2>2, <2>3 DEF ToSet
<1>4. QED
  BY <1>1, <1>2, <1>3

\* A sequence without repetitions keeps to that when something new is appended.
LEMMA AppendedOnce ==
  ASSUME NEW S, NEW s \in Seq(S), NEW e \in S, IsInjective(s), e \notin ToSet(s)
  PROVE  IsInjective(Append(s, e))
<1> SUFFICES ASSUME NEW i \in DOMAIN Append(s, e), NEW j \in DOMAIN Append(s, e),
                    Append(s, e)[i] = Append(s, e)[j]
             PROVE  i = j
  BY DEF IsInjective
<1>1. /\ \/ i \in DOMAIN s /\ Append(s, e)[i] = s[i]
         \/ i \notin DOMAIN s /\ Append(s, e)[i] = e
      /\ \/ j \in DOMAIN s /\ Append(s, e)[j] = s[j]
         \/ j \notin DOMAIN s /\ Append(s, e)[j] = e
      /\ \A k \in DOMAIN s : s[k] \in ToSet(s)
      /\ i \notin DOMAIN s /\ j \notin DOMAIN s => i = j
  BY Appended
<1>2. QED
  BY <1>1 DEF IsInjective

\* What leaves a sequence without repetitions is not in the rest.
LEMMA TakenOnce ==
  ASSUME NEW S, NEW s \in Seq(S), s # << >>, IsInjective(s)
  PROVE  IsInjective(Tail(s)) /\ Head(s) \notin ToSet(Tail(s))
<1>1. /\ 1 \in DOMAIN s /\ s[1] = Head(s)
      /\ \A i \in DOMAIN Tail(s) :
           i \in Nat \ {0} /\ i + 1 \in DOMAIN s /\ Tail(s)[i] = s[i + 1]
  BY Taken
<1>2. \A i, j \in DOMAIN s : s[i] = s[j] => i = j
  BY DEF IsInjective
<1>3. \A i, j \in DOMAIN Tail(s) : Tail(s)[i] = Tail(s)[j] => i = j
  <2> SUFFICES ASSUME NEW i \in DOMAIN Tail(s), NEW j \in DOMAIN Tail(s),
                      Tail(s)[i] = Tail(s)[j]
               PROVE  i = j
    OBVIOUS
  <2>1. i + 1 = j + 1
    BY <1>1, <1>2
  <2>2. QED
    BY <1>1, <2>1
<1>4. \A i \in DOMAIN Tail(s) : Tail(s)[i] # Head(s)
  <2> SUFFICES ASSUME NEW i \in DOMAIN Tail(s), Tail(s)[i] = Head(s) PROVE FALSE
    OBVIOUS
  <2>1. i + 1 = 1 /\ i \in Nat \ {0}
    BY <1>1, <1>2
  <2>2. QED
    BY <2>1
<1>5. QED
  BY <1>3, <1>4 DEF IsInjective, ToSet

\* The members of a sequence, of its tail and of a longer one.
LEMMA SequenceMembers ==
  ASSUME NEW T, NEW s \in Seq(T)
  PROVE  /\ s # << >> => /\ ToSet(s) = {Head(s)} \cup ToSet(Tail(s))
                         /\ Head(s) \in ToSet(s) /\ ToSet(Tail(s)) \subseteq ToSet(s)
         /\ \A e \in T : ToSet(Append(s, e)) = ToSet(s) \cup {e}
         /\ ToSet(<< >>) = {}
<1>1. s # << >> => ToSet(s) = {Head(s)} \cup ToSet(Tail(s))
  BY Taken
<1>2. \A e \in T : ToSet(Append(s, e)) = ToSet(s) \cup {e}
  BY Appended
<1>3. ToSet(<< >>) = {}
  BY DEF ToSet
<1>4. QED
  BY <1>1, <1>2, <1>3

\* The empty sequence repeats nothing.
LEMMA EmptyOnce == IsInjective(<< >>)
BY DEF IsInjective

\* At most one place of a sequence has something of B.
AtMostOne(s, B) == \A i, j \in DOMAIN s : s[i] \in B /\ s[j] \in B => i = j

\* That stays so when something else is appended, or the first of B.
LEMMA AppendedAtMostOne ==
  ASSUME NEW S, NEW B, NEW s \in Seq(S), NEW e \in S, AtMostOne(s, B),
         e \notin B \/ ToSet(s) \cap B = {}
  PROVE  AtMostOne(Append(s, e), B)
<1> SUFFICES ASSUME NEW i \in DOMAIN Append(s, e), NEW j \in DOMAIN Append(s, e),
                    Append(s, e)[i] \in B, Append(s, e)[j] \in B
             PROVE  i = j
  BY DEF AtMostOne
<1>1. /\ \/ i \in DOMAIN s /\ Append(s, e)[i] = s[i]
         \/ i \notin DOMAIN s /\ Append(s, e)[i] = e
      /\ \/ j \in DOMAIN s /\ Append(s, e)[j] = s[j]
         \/ j \notin DOMAIN s /\ Append(s, e)[j] = e
      /\ \A k \in DOMAIN s : s[k] \in ToSet(s)
      /\ i \notin DOMAIN s /\ j \notin DOMAIN s => i = j
  BY Appended
<1>2. QED
  BY <1>1 DEF AtMostOne

\* When the one of B is taken, none is left.
LEMMA TakenAtMostOne ==
  ASSUME NEW S, NEW B, NEW s \in Seq(S), s # << >>, AtMostOne(s, B)
  PROVE  /\ AtMostOne(Tail(s), B)
         /\ Head(s) \in B => ToSet(Tail(s)) \cap B = {}
<1>1. /\ 1 \in DOMAIN s /\ s[1] = Head(s)
      /\ \A i \in DOMAIN Tail(s) :
           i \in Nat \ {0} /\ i + 1 \in DOMAIN s /\ Tail(s)[i] = s[i + 1]
  BY Taken
<1>2. \A i, j \in DOMAIN s : s[i] \in B /\ s[j] \in B => i = j
  BY DEF AtMostOne
<1>3. \A i, j \in DOMAIN Tail(s) : Tail(s)[i] \in B /\ Tail(s)[j] \in B => i = j
  <2> SUFFICES ASSUME NEW i \in DOMAIN Tail(s), NEW j \in DOMAIN Tail(s),
                      Tail(s)[i] \in B, Tail(s)[j] \in B
               PROVE  i = j
    OBVIOUS
  <2>1. i + 1 = j + 1
    BY <1>1, <1>2
  <2>2. QED
    BY <1>1, <2>1
<1>4. ASSUME Head(s) \in B, NEW i \in DOMAIN Tail(s), Tail(s)[i] \in B
      PROVE  FALSE
  <2>1. i + 1 = 1 /\ i \in Nat \ {0}
    BY <1>1, <1>2, <1>4
  <2>2. QED
    BY <2>1
<1>5. QED
  BY <1>3, <1>4 DEF AtMostOne, ToSet
=============================================================================

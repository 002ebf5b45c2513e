---------------------------- MODULE MCConversion ----------------------------
(***************************************************************************)
(* Inputs for Conversion: every graph of two containers with up to two     *)
(* members each, on both sides and both ways, and every kind of leaf; and, *)
(* beside them, the steps by which Traversal reads such a graph.  A        *)
(* behaviour is of one kind or of the other.                               *)
(***************************************************************************)
EXTENDS Conversion, Traversal

Ref(id) == [t |-> "ref", id |-> id]
Plain(kinds) == {[t |-> k] : k \in kinds}
With(kind, ns) == {[t |-> kind, n |-> n] : n \in ns}

\* Small leaves to fill containers with.
Fillers == {[t |-> "function", n |-> 1], [t |-> "bool", n |-> 1]}
Members == {Ref(1), Ref(2)} \cup Fillers

\* 16 stands for 2^63, 11 for an integer beyond 2^53, 24 for a double beyond.
JsLeaves ==
  Plain({"undefined", "null", "special", "symbol", "invalid date"})
  \cup {MinusZero, Surrogate}
  \cup With("number", {1, 14, 16, 24}) \cup With("bigint", {1, 11, 15, 17})
  \cup With("bytes", {2}) \cup With("buffer", {2}) \cup With("date", {3, 4})
  \cup With("stream", {1}) \cup {Str("ab")}

\* Of the datetimes, one is without a zone, and the last rounds past LastDate.
PyLeaves ==
  Plain({"undefined", "null", "special", "unsupported"}) \cup {MinusZero}
  \cup With("int", {1, 11, 15, 17}) \cup With("float", {16, 24})
  \cup {Datetime(2 * Fine, TRUE), Datetime(2 * Fine + 1, FALSE),
        Datetime(Fine + Fine \div 2, TRUE), Datetime((LastDate + 1) * Fine - 1, TRUE)}
  \cup With("bytes", {2}) \cup With("stream", {1})
  \cup With("pystream", {1}) \cup {Str("ab")}

Lists(members) == {<<>>} \cup {<<a>> : a \in members} \cup (members \X members)
Pairs(items) == [i \in DOMAIN items |-> <<"a", "b">>[i]]

Arrays(ls) == {Array(l) : l \in ls}
Objects(ls) == {Object(Pairs(l), l) : l \in ls}
Sets(ls) == {[t |-> "set", items |-> l] : l \in {m \in ls : IsInjective(m)}}

\* Objects with a tag, as a guest or a host may make them.
TagObjects ==
  {Object(<<Tag>>, <<Str("Undefined")>>), TaggedAs("Date", "epoch_ms", [t |-> "special"]),
   TaggedAs("Set", "values", Array(<<Ref(2)>>)), TaggedAs("BigInt", "value", Str("9")),
   TaggedAs("BigInt", "value", Str("x")), TaggedAs("JsStream", "id", [t |-> "null"])}

Singles(leaves) == Arrays({<<l>> : l \in leaves}) \cup Objects({<<l>> : l \in leaves})
                   \cup Sets({<<l>> : l \in leaves})
                   \cup Arrays({<<l, Ref(2)>> : l \in leaves})
                   \cup {[t |-> "set", items |-> <<[t |-> "bool", n |-> 1], l>>] :
                           l \in {x \in leaves : x.t \in {"number", "int"}}}
                   \cup {[t |-> "set", items |-> <<[t |-> "number", n |-> 16], l>>] :
                           l \in {x \in leaves : x.t = "bigint"}}

\* Objects with the property __proto__.
ProtoObjects == {Object(<<Proto, "a">>, <<m, [t |-> "null"]>>) : m \in Members}

\* A set of JavaScript holds no -0.
NoMinusZero(v) == v.t # "set" \/ MinusZero \notin Range(v.items)

\* The second node repeats fewer of the shapes.
JsInner == Arrays(Lists(Members)) \cup Objects({<<>>, <<Ref(1)>>}) \cup Sets(Lists(Fillers))
JsOuter == Arrays(Lists(Members)) \cup Objects(Lists(Members)) \cup Sets(Lists(Members))
           \cup {v \in Singles(JsLeaves) : NoMinusZero(v)} \cup ProtoObjects
           \cup TagObjects \cup {TaggedAs("JsStream", "id", Num(24))}
PyInner == Arrays(Lists(Members)) \cup Objects({<<>>, <<Ref(1)>>}) \cup Sets(Lists(Fillers))
PyOuter == Arrays(Lists(Members)) \cup Objects(Lists(Members)) \cup Sets(Lists(Fillers))
           \cup Singles(PyLeaves) \cup ProtoObjects \cup TagObjects

Limits == {[depth |-> d, bytes |-> b] : d \in Depths, b \in Budgets}

\* What the two containers of Traversal may hold: nothing, a leaf, the other
\* container once or twice, themselves.
CONSTANTS n1, n2
ReadShapes == {<<>>, <<Leaf>>, <<n1>>, <<n2>>, <<n2, n2>>, <<n2, n1>>, <<Leaf, n2>>}

Converts ==
  \E l \in Limits, via \in {"result", "op"} :
    \/ \E outer \in JsOuter, inner \in JsInner :
         \E vs \in {<<Ref(1)>>} \cup IF via = "op" THEN {<<Ref(1), Ref(2)>>} ELSE {} :
           Begins("js", via, l, <<outer, inner>>, vs)
    \/ \E outer \in PyOuter, inner \in PyInner :
         \E vs \in {<<Ref(1)>>} \cup IF via = "result" THEN {<<Ref(1), Ref(2)>>} ELSE {} :
           Begins("python", via, l, <<outer, inner>>, vs)

\* No value sets out; no value is read.
Aside == Begins("nowhere", "none", [depth |-> 0, bytes |-> 0], <<>>, <<>>)
Unread ==
  /\ graph = [n \in Nodes |-> <<>>] /\ identity = [n \in Nodes |-> CHOOSE h \in Hashes : TRUE]
  /\ maxDepth = 0 /\ root = Leaf /\ depth = 0 /\ seen = {} /\ stack = <<>>
  /\ verdict = "none" /\ rewired = FALSE

Init == (Converts /\ Unread) \/ (Aside /\ ReadInit)

Steps == \/ at # "nowhere" /\ Next /\ UNCHANGED readVars
         \/ at = "nowhere" /\ ReadNext /\ UNCHANGED vars

Spec == Init /\ [][Steps]_<<vars, readVars>>
=============================================================================

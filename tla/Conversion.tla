----------------------------- MODULE Conversion -----------------------------
(***************************************************************************)
(* Values crossing between Python and JavaScript: the two pairs of         *)
(* recursive converters, the limits they meter against, the tagged objects *)
(* in which host operations wrap what JSON has no word for, and the        *)
(* widths of the numbers.                                                  *)
(*                                                                         *)
(* An object graph is a function from node ids to containers; a value is a *)
(* leaf or a reference [t |-> "ref", id |-> i] into the graph.  What a     *)
(* converter builds is a tree: containers nested in `items`.  A value      *)
(* starts on one side, crosses, and crosses back.                          *)
(*                                                                         *)
(* Numbers keep their widths, scaled down: a double holds Precision        *)
(* significant bits (53), an i64 holds IntBits bits.  Integers outside     *)
(* double precision that JavaScript holds are bigint values.  A Date       *)
(* counts milliseconds, a datetime of Python Fine parts of each.           *)
(*                                                                         *)
(* Kinds of Python that one kind of JavaScript stands for (frozenset,      *)
(* bytearray, memoryview) are one kind here, and a JavaScript object of    *)
(* some other class is the object of its enumerable properties that the    *)
(* converters see.                                                         *)
(***************************************************************************)
EXTENDS Integers, FiniteSets, FiniteSetsExt, SequencesExt, TLC

CONSTANTS Precision,   \* significant bits of a double
          IntBits,     \* bits of an i64
          LastDate,    \* last millisecond that datetime can hold
          Fine,        \* parts of a millisecond that datetime tells apart
          Depths,      \* values of max_serialization_depth
          Budgets      \* values of max_serialization_bytes

ASSUME ConversionAssumption ==
  /\ Precision \in Nat \ {0} /\ IntBits \in Nat /\ IntBits > Precision
  /\ LastDate \in Nat /\ Fine \in Nat \ {0} /\ Depths \subseteq Nat /\ Budgets \subseteq Nat

VARIABLES path,     \* "result": eval and function calls; "op": host operations
          limits,   \* [depth, bytes] of the runtime
          heap,     \* the graph the values start in
          origin,   \* the values there
          source,   \* the values before the last conversion
          values,   \* the values now
          made,     \* functions and streams registered by the last conversion
          at,       \* where the values are
          last,     \* the last conversion
          left      \* conversions still to come

inputVars == <<path, limits, heap, origin>>
vars == <<path, limits, heap, origin, source, values, made, at, last, left>>

-----------------------------------------------------------------------------
(* Numbers.                                                                *)

I64 == -(2^(IntBits - 1)) .. 2^(IntBits - 1) - 1
Magnitude(n) == IF n < 0 THEN -n ELSE n

\* The integers that a double holds exactly.
IsDouble(n) ==
  \E e \in 0..IntBits : n % 2^e = 0 /\ Magnitude(n) < 2^(Precision + e)

Doubles == {n \in -(2^IntBits)..2^IntBits : IsDouble(n)}

\* Rounding to the nearest double; of two as near, the one of even mantissa.
ToDouble == [n \in I64 |->
  LET Near == {d \in Doubles : \A o \in Doubles : Magnitude(n - d) <= Magnitude(n - o)}
      Twos(d) == Cardinality({e \in 1..IntBits : d % 2^e = 0})
  IN  CHOOSE d \in Near : \A o \in Near : Twos(o) <= Twos(d)]

\* f64::round: halves away from zero.
Rounded(parts) ==
  LET up == (Magnitude(parts) + Fine \div 2) \div Fine
  IN  IF parts < 0 THEN -up ELSE up

\* `as i64` on a double.
Saturate(n) == IF n \in I64 THEN n
               ELSE IF n < 0 THEN -(2^(IntBits - 1)) ELSE 2^(IntBits - 1) - 1

-----------------------------------------------------------------------------
(* The limit tracker, threaded through a conversion together with the      *)
(* containers being visited (seen), the functions and streams registered   *)
(* on the way (made) and what has been built (out).                        *)

Tracker(depth, bytes) ==
  [ok |-> TRUE, maxDepth |-> depth, maxBytes |-> bytes, depth |-> 0,
   bytes |-> 0, seen |-> {}, made |-> <<>>, out |-> <<>>]

Fail(s) == [s EXCEPT !.ok = FALSE]
Enter(s) == [s EXCEPT !.depth = @ + 1, !.ok = @ /\ s.depth < s.maxDepth]
Leave(s) == [s EXCEPT !.depth = @ - 1]
AddBytes(s, n) == [s EXCEPT !.bytes = @ + n, !.ok = @ /\ s.bytes + n <= s.maxBytes]
Yield(s, v) == [s EXCEPT !.out = v]

\* Convert(i, s) for i in 1..n, in order, up to the first failure.
Each(n, Convert(_, _), s) ==
  FoldLeft(LAMBDA acc, i : IF ~acc.ok THEN acc
                           ELSE LET r == Convert(i, acc)
                                IN  Yield(r, Append(acc.out, r.out)),
           Yield(s, <<>>), [i \in 1..n |-> i])

Tag == "__peno_type"
Container(v) == v.t \in {"array", "set", "object"}
IsRef(v) == v.t = "ref"
Contents(h, v) == IF IsRef(v) THEN h[v.id] ELSE v
Rebuild(c, items) == [c EXCEPT !.items = items]
Array(items) == [t |-> "array", items |-> items]
Object(keys, items) == [t |-> "object", keys |-> keys, items |-> items]
Str(text) == [t |-> "string", s |-> text]
Num(n) == [t |-> "number", n |-> n]
MinusZero == [t |-> "minus zero", n |-> 0]
Datetime(parts, aware) == [t |-> "datetime", parts |-> parts, aware |-> aware]

\* A string of UTF-16 with a lone surrogate, and what a lossy conversion to
\* UTF-8 makes of it: the replacement character, in three bytes.
Surrogate == [t |-> "surrogate"]
Replacement == Str("EFBFBD")

\* Membership of a key, and the value under it.
Has(c, key) == key \in Range(c.keys)
At(c, key) == c.items[CHOOSE i \in DOMAIN c.keys : c.keys[i] = key]
Tagged(c) == c.t = "object" /\ Has(c, Tag) /\ At(c, Tag).t = "string"
TagOf(c) == At(c, Tag).s

\* Decimal literals.
Parsed(text) == {n \in -(2^IntBits)..2^IntBits : ToString(n) = text}

\* A set keeps the first of several values that Same takes for one.
Distinct(items, Same(_, _)) ==
  FoldLeft(LAMBDA acc, v : IF \E i \in DOMAIN acc : Same(acc[i], v)
                           THEN acc ELSE Append(acc, v), <<>>, items)

-----------------------------------------------------------------------------
(* JavaScript to JSValue, on the way of a result.                          *)

\* Seeded fault: every double without a fraction is taken for an i64.
NumberFromV8Saturating(n) == [t |-> "int", n |-> Saturate(n)]

NumberFromV8(n) ==
  IF ToDouble[Saturate(n)] = n THEN [t |-> "int", n |-> Saturate(n)]
                               ELSE [t |-> "float", n |-> n]

BigIntFromV8(n) == [t |-> IF n \in I64 THEN "int" ELSE "bigint", n |-> n]

\* The bytes of a value on its own; the keys of an object come one by one.
V8Bytes(v) ==
  CASE v.t = "null" -> 4 [] v.t = "bool" -> 5 [] v.t = "date" -> 16
    [] v.t = "number" -> IF NumberFromV8(v.n).t = "int" THEN 20 ELSE 24
    [] v.t = "special" -> 24
    [] v.t = "bigint" -> IF v.n \in I64 THEN 20 ELSE Len(ToString(v.n))
    [] v.t = "string" -> Len(v.s) [] v.t = "surrogate" -> Len(Replacement.s)
    [] v.t = "minus zero" -> 20
    [] v.t \in {"bytes", "buffer"} -> v.n
    [] v.t = "function" -> 8 [] v.t = "stream" -> 4
    [] v.t = "set" -> 24 + 8 * Len(v.items)
    [] OTHER -> 0

\* A function is registered before its bytes are counted, and so is a stream.
Register(v, s) == [s EXCEPT !.made = Append(@, v), !.out = v]

\* Dates and streams are told apart from other objects after the containers.
DateOrStreamFromV8(v, s) ==
  IF v.t = "invalid date" THEN Fail(s)
  ELSE IF v.t = "stream" THEN Register(v, s) ELSE Yield(s, v)

BytesFromV8(v, s) == Yield(s, [t |-> "bytes", n |-> v.n])

ScalarFromV8(v, s) ==
  LET read == CASE v.t \in {"number", "minus zero"} -> Yield(s, NumberFromV8(v.n))
                [] v.t = "surrogate" -> Yield(s, Replacement)
                [] v.t = "bigint" -> Yield(s, BigIntFromV8(v.n))
                [] v.t = "function" -> Register(v, s)
                [] v.t = "symbol" -> Fail(s)
                [] v.t \in {"bytes", "buffer"} -> BytesFromV8(v, s)
                [] v.t \in {"date", "invalid date", "stream"} -> DateOrStreamFromV8(v, s)
                [] OTHER -> Yield(s, v)
  IN  AddBytes(read, V8Bytes(v))

RECURSIVE FromV8(_, _, _)

\* A key of an object is counted before the value under it is read.
PropertyFromV8(h, c, i, s) == FromV8(h, c.items[i], AddBytes(s, Len(c.keys[i])))

ItemsFromV8(h, c, s) ==
  Each(Len(c.items), LAMBDA i, acc : IF c.t = "object" THEN PropertyFromV8(h, c, i, acc)
                                     ELSE FromV8(h, c.items[i], acc), s)

\* Seeded fault: a container is not taken out of `seen` again.
ContainerFromV8Remembering(h, v, s) ==
  LET c == Contents(h, v)
      visiting == [s EXCEPT !.seen = IF IsRef(v) THEN @ \cup {v.id} ELSE @]
      read == ItemsFromV8(h, c, AddBytes(visiting, V8Bytes(c)))
  IN  IF IsRef(v) /\ v.id \in s.seen THEN Fail(s)
      ELSE [read EXCEPT !.out = Rebuild(c, @)]

\* The identity hash stays in `seen` while the container is being read.
ContainerFromV8(h, v, s) ==
  LET c == Contents(h, v)
      visiting == [s EXCEPT !.seen = IF IsRef(v) THEN @ \cup {v.id} ELSE @]
      read == ItemsFromV8(h, c, AddBytes(visiting, V8Bytes(c)))
  IN  IF IsRef(v) /\ v.id \in s.seen THEN Fail(s)
      ELSE [read EXCEPT !.out = Rebuild(c, @), !.seen = s.seen]

FromV8(h, v, s) ==
  LET e == Enter(s)
  IN  IF ~e.ok THEN e
      ELSE Leave(IF IsRef(v) \/ Container(v) THEN ContainerFromV8(h, v, e)
                                             ELSE ScalarFromV8(v, e))

-----------------------------------------------------------------------------
(* JSValue to Python.                                                      *)

Numeric(v) == v.t \in {"bool", "int", "float", "bigint", "minus zero"}
PyEqual(a, b) == a = b \/ (Numeric(a) /\ Numeric(b) /\ a.n = b.n)

PyBytes(v) ==
  CASE v.t = "null" -> 4 [] v.t = "bool" -> 1 [] v.t \in {"int", "float", "minus zero", "special"} -> 8
    [] v.t = "bigint" -> 9
    [] v.t = "string" -> Len(v.s) + 16
    [] v.t = "bytes" -> v.n [] v.t = "date" -> 16
    [] v.t \in {"function", "stream"} -> 8
    [] v.t = "array" -> 16 + 8 * Len(v.items)
    [] v.t = "set" -> 24 + 8 * Len(v.items)
    [] v.t = "object" -> 24 + 16 * Len(v.items)
    [] OTHER -> 0

\* The keys of a dict; an object that is taken for a tag has none counted.
KeyBytes(c) == FoldLeft(LAMBDA n, key : n + Len(key) + 8, 0, c.keys)

\* datetime.fromtimestamp(seconds, utc).
ToDatetime(n, s) ==
  IF Magnitude(n) <= LastDate THEN Yield(s, Datetime(n * Fine, TRUE)) ELSE Fail(s)

RECURSIVE ToPython(_, _, _)

ItemsToPython(op, items, s) ==
  Each(Len(items), LAMBDA i, acc : ToPython(op, items[i], acc), s)

\* set.add raises on a list, a dict or a set.
SetToPython(op, items, s) ==
  LET read == ItemsToPython(op, items, s)
  IN  IF ~read.ok \/ \E i \in DOMAIN read.out : Container(read.out[i]) THEN Fail(read)
      ELSE Yield(read, [t |-> "set", items |-> Distinct(read.out, PyEqual)])

ObjectToPython(op, c, s) ==
  CASE Tagged(c) /\ TagOf(c) = "Undefined" -> Yield(s, [t |-> "undefined"])
    [] Tagged(c) /\ TagOf(c) = "Date" /\ Has(c, "epoch_ms") ->
         IF At(c, "epoch_ms").t \in {"int", "float"}
         THEN ToDatetime(At(c, "epoch_ms").n, s) ELSE Fail(s)
    [] Tagged(c) /\ TagOf(c) = "Set" /\ Has(c, "values") /\ At(c, "values").t = "array" ->
         SetToPython(op, At(c, "values").items, s)
    [] Tagged(c) /\ TagOf(c) = "BigInt" /\ Has(c, "value") /\ At(c, "value").t = "string" ->
         IF Parsed(At(c, "value").s) = {} THEN Fail(s)
         ELSE Yield(s, [t |-> "bigint", n |-> CHOOSE n \in Parsed(At(c, "value").s) : TRUE])
    [] OTHER ->
         LET read == ItemsToPython(op, c.items, AddBytes(s, KeyBytes(c)))
         IN  [read EXCEPT !.out = Rebuild(c, @)]

\* A host operation has no handle to make proxies with.
ToPython(op, v, s) ==
  LET e == Enter(s)
      p == AddBytes(e, PyBytes(v))
  IN  IF ~p.ok THEN p
      ELSE Leave(CASE v.t = "array" -> LET r == ItemsToPython(op, v.items, p)
                                       IN  Yield(r, Array(r.out))
                   [] v.t = "set" -> SetToPython(op, v.items, p)
                   [] v.t = "object" -> ObjectToPython(op, v, p)
                   [] v.t = "date" -> ToDatetime(v.n, p)
                   [] v.t \in {"function", "stream"} /\ op -> Fail(p)
                   [] v.t = "pystream" -> Fail(p)
                   [] OTHER -> Yield(p, v))

-----------------------------------------------------------------------------
(* Python to JSValue.                                                      *)

PyOutBytes(v) == IF v.t = "pystream" THEN 4 ELSE PyBytes(v)

\* extract::<i64> comes before extract::<BigInt>.  A datetime without a time
\* zone is taken for one in UTC, and one with a zone is moved there.
LeafFromPython(v) ==
  CASE v.t \in {"int", "bigint"} ->
         [t |-> IF v.n \in I64 THEN "int" ELSE "bigint", n |-> v.n]
    [] v.t = "datetime" -> [t |-> "date", n |-> Rounded(v.parts)]
    [] OTHER -> v

RECURSIVE FromPython(_, _, _)

ContainerFromPython(h, v, s) ==
  LET c == Contents(h, v)
      own == PyOutBytes(c) + IF c.t = "object" THEN KeyBytes(c) ELSE 0
      visiting == [s EXCEPT !.seen = IF IsRef(v) THEN @ \cup {v.id} ELSE @]
      read == Each(Len(c.items), LAMBDA i, acc : FromPython(h, c.items[i], acc),
                   AddBytes(visiting, own))
  IN  IF IsRef(v) /\ v.id \in s.seen THEN Fail(s)
      ELSE [read EXCEPT !.out = Rebuild(c, @), !.seen = s.seen]

\* A JsStream proxy, a tuple, a string with a lone surrogate and the like are
\* no values of JavaScript.
FromPython(h, v, s) ==
  LET e == Enter(s)
  IN  IF ~e.ok THEN e
      ELSE Leave(IF IsRef(v) \/ Container(v) THEN ContainerFromPython(h, v, e)
                 ELSE IF v.t \in {"stream", "unsupported"} THEN Fail(e)
                 ELSE AddBytes(Yield(e, LeafFromPython(v)), PyOutBytes(LeafFromPython(v))))

-----------------------------------------------------------------------------
(* JSValue to JavaScript, for the arguments of a call.  Nothing is metered *)
(* here: what leaves has been metered on its way out of Python.            *)

Error == [t |-> "error"]
\* A container one of whose members failed has failed.
Whole(c) == IF \E i \in DOMAIN c.items : c.items[i] = Error THEN Error ELSE c

\* Set.prototype.add tells members apart as V8 does, and stores -0 as 0.
V8Set(items) ==
  LET stored == [i \in DOMAIN items |-> IF items[i] = MinusZero THEN Num(0) ELSE items[i]]
  IN  [t |-> "set", items |-> Distinct(stored, LAMBDA a, b : a = b)]

\* Setting the property __proto__ changes an object's prototype and leaves the
\* object without such a property.
Proto == "__proto__"
WithoutProto(c) ==
  LET kept == SelectSeq([i \in DOMAIN c.keys |-> i], LAMBDA i : c.keys[i] # Proto)
  IN  Object([i \in DOMAIN kept |-> c.keys[kept[i]]],
             [i \in DOMAIN kept |-> c.items[kept[i]]])

LeafToV8(v) ==
  CASE v.t = "int" -> Num(ToDouble[v.n])
    [] v.t = "float" -> Num(v.n)
    [] OTHER -> v

\* A stream of JavaScript cannot go back; one of Python gets its view.
ProxyToV8(v) ==
  CASE v.t = "stream" -> Error
    [] v.t = "pystream" -> [t |-> "stream", n |-> v.n]
    [] OTHER -> v

RECURSIVE ToV8(_)
ToV8(v) ==
  IF v.t \in {"date", "function", "stream", "pystream"} THEN ProxyToV8(v)
  ELSE IF ~Container(v) THEN LeafToV8(v)
  ELSE LET whole == Whole(Rebuild(v, [i \in DOMAIN v.items |-> ToV8(v.items[i])]))
       IN  CASE whole = Error -> Error
             [] v.t = "set" -> V8Set(whole.items)
             [] v.t = "object" -> WithoutProto(whole)
             [] OTHER -> whole

-----------------------------------------------------------------------------
(* The way of a host operation: prepare() and revive() in JavaScript, and  *)
(* serde between JSValue and the tagged objects.                           *)

TaggedAs(tag, key, v) == Object(<<Tag, key>>, <<Str(tag), v>>)

\* What prepare() makes of a leaf.  A buffer is no view: it goes as an
\* object without properties.
PrepareLeaf(v) ==
  CASE v.t \in {"function", "symbol", "stream"} -> Error
    [] v.t = "date" -> TaggedAs("Date", "epoch_ms", Num(v.n))
    [] v.t = "invalid date" -> TaggedAs("Date", "epoch_ms", [t |-> "special"])
    [] v.t = "bigint" -> TaggedAs("BigInt", "value", Str(ToString(v.n)))
    [] v.t = "buffer" -> Object(<<>>, <<>>)
    [] OTHER -> v

\* prepare() has no memory of where it is: a cycle ends in a RangeError.
RECURSIVE Prepare(_, _, _)
Prepare(h, v, above) ==
  IF ~IsRef(v) /\ ~Container(v) THEN PrepareLeaf(v)
  ELSE IF IsRef(v) /\ v.id \in above THEN Error
  ELSE LET c == Contents(h, v)
           items == [i \in DOMAIN c.items |->
                      Prepare(h, c.items[i], IF IsRef(v) THEN above \cup {v.id} ELSE above)]
           whole == Whole(Rebuild(c, items))
       IN  IF whole # Error /\ c.t = "set"
           THEN TaggedAs("Set", "values", Array(items)) ELSE whole

\* Deserialize for JSValue: a map with a tag is what the tag says, if what
\* goes with the tag fits.
Untag(c) ==
  CASE ~Tagged(c) -> c
    [] TagOf(c) = "Undefined" -> [t |-> "undefined"]
    [] TagOf(c) = "Date" /\ Has(c, "epoch_ms") /\ At(c, "epoch_ms").t \in {"int", "float"} ->
         [t |-> "date", n |-> At(c, "epoch_ms").n]
    [] TagOf(c) = "Set" /\ Has(c, "values") /\ At(c, "values").t = "array" ->
         [t |-> "set", items |-> At(c, "values").items]
    [] TagOf(c) = "BigInt" /\ Has(c, "value") /\ At(c, "value").t = "int" ->
         [t |-> "bigint", n |-> At(c, "value").n]
    [] TagOf(c) = "BigInt" /\ Has(c, "value") ->
         IF At(c, "value").t = "string" /\ Parsed(At(c, "value").s) # {}
         THEN [t |-> "bigint", n |-> CHOOSE n \in Parsed(At(c, "value").s) : TRUE]
         ELSE Error
    [] TagOf(c) \in {"JsStream", "PyStream"} /\ Has(c, "id") ->
         IF At(c, "id").t \in {"int", "float"} /\ At(c, "id").n >= 0
         THEN [t |-> IF TagOf(c) = "JsStream" THEN "stream" ELSE "pystream",
               n |-> At(c, "id").n]
         ELSE Error
    [] OTHER -> c

\* serde_v8 hands a number over as an integer or as a float of that value, a
\* string as UTF-8, and null as it does undefined, to visit_unit.
DeserializeLeaf(v) ==
  CASE v.t = "number" -> [t |-> IF v.n \in I64 THEN "int" ELSE "float", n |-> v.n]
    [] v.t = "null" -> [t |-> "undefined"]
    [] v = Surrogate -> Replacement
    [] OTHER -> v

RECURSIVE Deserialize(_)
Deserialize(v) ==
  IF ~Container(v) THEN DeserializeLeaf(v)
  ELSE LET c == Whole(Rebuild(v, [i \in DOMAIN v.items |-> Deserialize(v.items[i])]))
       IN  IF c # Error /\ c.t = "object" THEN Untag(c) ELSE c

\* serde_v8 writes an i64 outside the safe integers as a bigint.
SerdeInt(n) == IF Magnitude(n) < 2^Precision THEN Num(n) ELSE [t |-> "bigint", n |-> n]

SerializeLeaf(v) ==
  CASE v.t = "undefined" -> Object(<<Tag>>, <<Str("Undefined")>>)
    [] v.t = "int" -> SerdeInt(v.n)
    [] v.t = "float" -> Num(v.n)
    [] v.t = "bigint" -> TaggedAs("BigInt", "value", Str(ToString(v.n)))
    [] v.t = "date" -> TaggedAs("Date", "epoch_ms", SerdeInt(v.n))
    [] v.t = "function" -> Error
    [] v.t = "stream" -> TaggedAs("JsStream", "id", Num(v.n))
    [] v.t = "pystream" -> TaggedAs("PyStream", "id", Num(v.n))
    [] OTHER -> v

RECURSIVE Serialize(_)
Serialize(v) ==
  IF ~Container(v) THEN SerializeLeaf(v)
  ELSE LET c == Whole(Rebuild(v, [i \in DOMAIN v.items |-> Serialize(v.items[i])]))
       IN  IF c # Error /\ c.t = "set" THEN TaggedAs("Set", "values", Array(c.items)) ELSE c

\* revive() trusts a tag without looking at what goes with it.
RECURSIVE Revive(_)
Revive(v) ==
  LET Items(c) == [i \in DOMAIN c.items |-> Revive(c.items[i])]
  IN  CASE v.t = "array" -> Whole(Array(Items(v)))
        [] v.t # "object" -> v
        [] Tagged(v) /\ TagOf(v) = "Undefined" -> [t |-> "undefined"]
        [] Tagged(v) /\ TagOf(v) = "Date" ->
             IF Has(v, "epoch_ms") /\ At(v, "epoch_ms").t = "number"
             THEN [t |-> "date", n |-> At(v, "epoch_ms").n] ELSE [t |-> "invalid date"]
        [] Tagged(v) /\ TagOf(v) = "Set" ->
             IF Has(v, "values") /\ At(v, "values").t = "array"
             THEN Whole(V8Set(Items(At(v, "values")))) ELSE V8Set(<<>>)
        [] Tagged(v) /\ TagOf(v) = "BigInt" ->
             IF Has(v, "value") /\ At(v, "value").t = "number"
             THEN [t |-> "bigint", n |-> At(v, "value").n]
             ELSE IF Has(v, "value") /\ At(v, "value").t = "string"
                     /\ Parsed(At(v, "value").s) # {}
             THEN [t |-> "bigint", n |-> CHOOSE n \in Parsed(At(v, "value").s) : TRUE]
             ELSE Error
        [] Tagged(v) /\ TagOf(v) = "PyStream" /\ Has(v, "id") ->
             [t |-> "stream", n |-> At(v, "id").n]
        [] OTHER -> Whole(Rebuild(v, Items(v)))

-----------------------------------------------------------------------------
(* The crossings.  Two conversions take the values to the other side, two  *)
(* more take them back.                                                    *)

\* Values vs of graph h set out on side `from`, on a runtime with limits l.
Begins(from, via, l, h, vs) ==
  /\ path = via /\ limits = l /\ heap = h /\ origin = vs
  /\ source = vs /\ values = vs /\ made = <<>>
  /\ at = from /\ last = "none" /\ left = 4

\* The runtime's limits, for one tracker; and no limits.
Metered == Tracker(limits.depth, limits.bytes)
Unmetered == Tracker(10^6, 10^6)

\* The values arrive `there`, or none of them does.
Arrives(name, there, ok, outs, registered) ==
  /\ source' = values /\ made' = registered /\ last' = name /\ left' = left - 1
  /\ at' = IF ok THEN there ELSE "refused"
  /\ values' = IF ok THEN outs ELSE <<>>
  /\ UNCHANGED inputVars

From(side, via) == at = side /\ path = via /\ left > 0

\* Each value in a conversion of its own, with the tracker s.
OneByOne(name, there, Convert(_, _), s) ==
  LET results == [i \in DOMAIN values |-> Convert(i, s)]
  IN  Arrives(name, there, \A i \in DOMAIN values : results[i].ok,
              [i \in DOMAIN values |-> results[i].out],
              FlattenSeq([i \in DOMAIN values |-> results[i].made]))

\* All the values against one budget.
Together(name, there, Convert(_, _)) ==
  LET all == Each(Len(values), Convert, Metered)
  IN  Arrives(name, there, all.ok, all.out, all.made)

\* Without a tracker.
Plainly(name, there, Convert(_)) ==
  LET results == [i \in DOMAIN values |-> Convert(values[i])]
  IN  Arrives(name, there, Error \notin Range(results), results, <<>>)

ReadsResult == /\ From("js", "result")
               /\ OneByOne("ReadsResult", "incoming",
                           LAMBDA i, s : FromV8(heap, values[i], s), Metered)

DeliversResult == /\ From("incoming", "result")
                  /\ OneByOne("DeliversResult", "python",
                              LAMBDA i, s : ToPython(FALSE, values[i], s), Unmetered)

PassesArgs == /\ From("python", "result")
              /\ Together("PassesArgs", "outgoing",
                          LAMBDA i, s : FromPython(heap, values[i], s))

WritesArgs == From("outgoing", "result") /\ Plainly("WritesArgs", "js", ToV8)

PreparesArgs ==
  /\ From("js", "op")
  /\ Plainly("PreparesArgs", "incoming",
             LAMBDA v : LET p == Prepare(heap, v, {})
                        IN  IF p = Error THEN Error ELSE Deserialize(p))

ConvertsArgs == /\ From("incoming", "op")
                /\ Together("ConvertsArgs", "python",
                            LAMBDA i, s : ToPython(TRUE, values[i], s))

ReturnsValue == /\ From("python", "op")
                /\ OneByOne("ReturnsValue", "outgoing",
                            LAMBDA i, s : FromPython(heap, values[i], s), Metered)

RevivesValue ==
  /\ From("outgoing", "op")
  /\ Plainly("RevivesValue", "js",
             LAMBDA v : LET j == Serialize(v)
                        IN  IF j = Error THEN Error ELSE Revive(j))

Next == \/ ReadsResult \/ DeliversResult \/ PassesArgs \/ WritesArgs
        \/ PreparesArgs \/ ConvertsArgs \/ ReturnsValue \/ RevivesValue

-----------------------------------------------------------------------------
(* What the converters promise, without trackers: the tree a graph unfolds *)
(* to, and what it weighs.                                                 *)

\* The nodes that the containers in S refer to, themselves or through a
\* container written out in them.
Successors(h, S) ==
  LET Mentions(c, id) == \E i \in DOMAIN c.items : c.items[i] = [t |-> "ref", id |-> id]
  IN  {id \in DOMAIN h : \E a \in S :
         \/ Mentions(h[a], id)
         \/ \E i \in DOMAIN h[a].items : Container(h[a].items[i]) /\ Mentions(h[a].items[i], id)}

Reachable(h, S) ==
  LET Within[k \in 0..Cardinality(DOMAIN h)] ==
        IF k = 0 THEN S ELSE Within[k - 1] \cup Successors(h, Within[k - 1])
  IN  Within[Cardinality(DOMAIN h)]

Acyclic(h, v) ==
  IsRef(v) => \A id \in Reachable(h, {v.id}) : id \notin Reachable(h, Successors(h, {id}))

\* All places of the unfolded value, outermost first, with their depths.
RECURSIVE Places(_, _, _)
Places(h, v, depth) ==
  LET c == Contents(h, v)
  IN  <<[node |-> c, depth |-> depth]>> \o
      (IF ~Container(c) THEN <<>>
       ELSE FlattenSeq([i \in DOMAIN c.items |-> Places(h, c.items[i], depth + 1)]))

PlacesOf(vs) == FlattenSeq([i \in DOMAIN vs |-> Places(heap, vs[i], 1)])

Fits(places, Weight(_)) ==
  /\ \A i \in DOMAIN places : places[i].depth <= limits.depth
  /\ FoldLeft(LAMBDA n, p : n + Weight(p.node), 0, places) <= limits.bytes

V8Weight(c) == V8Bytes(c) + IF c.t # "object" THEN 0
                            ELSE FoldLeft(LAMBDA n, key : n + Len(key), 0, c.keys)
InWeight(c) == PyBytes(c) + IF c.t = "object" THEN KeyBytes(c) ELSE 0
OutWeight(v) ==
  LET c == IF Container(v) THEN v ELSE LeafFromPython(v)
  IN  PyOutBytes(c) + IF c.t = "object" THEN KeyBytes(c) ELSE 0

HasNo(places, kinds) == \A i \in DOMAIN places : places[i].node.t \notin kinds

\* A set of unhashable members, a date beyond datetime's.
Unfit(c) ==
  \/ c.t = "set" /\ \E i \in DOMAIN c.items : Container(c.items[i])
  \/ c.t = "date" /\ Magnitude(c.n) > LastDate
  \/ Tagged(c) /\ TagOf(c) = "Date" /\ Has(c, "epoch_ms")

Admissible(vs, Weight(_), kinds) ==
  LET places == PlacesOf(vs)
  IN  /\ \A i \in DOMAIN vs : Acyclic(heap, vs[i])
      /\ Fits(places, Weight) /\ HasNo(places, kinds)

\* A value crosses exactly if it is free of cycles (a value that occurs
\* twice is none), no deeper than the depth limit, no heavier than the byte
\* limit (the arguments of one call taken together), and of the kinds that
\* exist on the other side; and a result that crosses has registered the
\* functions and streams that it reports, and no others.
LimitsBindExactly ==
  LET crossed == at # "refused"
  IN  CASE last = "ReadsResult" ->
             /\ crossed = \A i \in DOMAIN source :
                  Admissible(<<source[i]>>, V8Weight, {"symbol", "invalid date"})
             /\ crossed =>
                  LET places == PlacesOf(source)
                  IN  made = SelectSeq([i \in DOMAIN places |-> places[i].node],
                                       LAMBDA c : c.t \in {"function", "stream"})
        [] last = "PassesArgs" ->
             crossed = Admissible(source, OutWeight, {"stream", "unsupported"})
        [] last = "ReturnsValue" ->
             crossed = \A i \in DOMAIN source :
               Admissible(<<source[i]>>, OutWeight, {"stream", "unsupported"})
        [] last = "ConvertsArgs" ->
             crossed = /\ Admissible(source, InWeight, {"function", "stream", "pystream"})
                       /\ \A i \in DOMAIN PlacesOf(source) : ~Unfit(PlacesOf(source)[i].node)
        [] OTHER -> TRUE

\* What a value is in Python, when it has come from JavaScript: as it was, but
\* for the cases named.  A result has no -0, and takes the double just past the
\* i64s for the last of them; a host operation's argument has no null and sees
\* no buffer; lone surrogates are replaced, and the members of a set are told
\* apart as Python does.
RECURSIVE InPython(_)
InPython(v) ==
  LET c == IF Container(v) THEN Rebuild(v, [i \in DOMAIN v.items |-> InPython(v.items[i])])
                           ELSE v
      result == path = "result"
  IN  CASE v.t = "date" -> Datetime(v.n * Fine, TRUE)
        [] v.t = "surrogate" -> Replacement
        [] v.t = "null" /\ ~result -> [t |-> "undefined"]
        [] v.t = "buffer" /\ ~result -> Object(<<>>, <<>>)
        [] v.t = "minus zero" /\ result -> [t |-> "int", n |-> 0]
        [] v.t = "number" ->
             [t |-> "int", n |-> IF result /\ v.n = 2^(IntBits - 1) THEN v.n - 1 ELSE v.n]
        [] v.t = "set" -> [c EXCEPT !.items = Distinct(@, PyEqual)]
        [] OTHER -> c

\* What a value is in JavaScript, when it has come from Python.  An argument of
\* a call holds an i64 as the nearest double and loses properties __proto__; a
\* datetime is rounded to milliseconds, in UTC; and a set has no -0.
RECURSIVE InJavaScript(_)
InJavaScript(v) ==
  LET c == IF Container(v) THEN Rebuild(v, [i \in DOMAIN v.items |-> InJavaScript(v.items[i])])
                           ELSE v
      argument == path = "result"
  IN  CASE v.t = "datetime" -> [t |-> "date", n |-> Rounded(v.parts)]
        [] v.t = "float" -> Num(v.n)
        [] v.t \in {"int", "bigint"} /\ argument /\ v.n \in I64 -> Num(ToDouble[v.n])
        [] v.t = "set" -> V8Set(c.items)
        [] v.t = "object" /\ argument -> WithoutProto(c)
        [] OTHER -> c

\* Equal up to the type of a number, the kind of a buffer, the order of a set
\* and the wrapping of a Python iterable in a stream.
RECURSIVE Same(_, _)
Same(a, b) ==
  LET numbers == {"number", "int", "float", "bigint"}
      Covers(x, y) == \A i \in DOMAIN x.items : \E j \in DOMAIN y.items :
                        Same(x.items[i], y.items[j])
  IN  CASE a.t \in numbers -> b.t \in numbers /\ a.n = b.n
        [] a.t \in {"bytes", "buffer"} -> b.t \in {"bytes", "buffer"} /\ a.n = b.n
        [] a.t \in {"stream", "pystream"} -> b.t \in {"stream", "pystream"} /\ a.n = b.n
        [] ~Container(a) -> a = b
        [] OTHER -> /\ b.t = a.t /\ Len(a.items) = Len(b.items)
                    /\ IF a.t = "set" THEN Covers(a, b) /\ Covers(b, a)
                       ELSE \A i \in DOMAIN a.items : Same(a.items[i], b.items[i])
                    /\ a.t = "object" => a.keys = b.keys

RECURSIVE Tree(_)
Tree(v) ==
  LET c == Contents(heap, v)
  IN  IF ~Container(c) THEN c
      ELSE Rebuild(c, [i \in DOMAIN c.items |-> Tree(c.items[i])])

\* An object that looks like a tag may be taken for one.
Untagged(v) ==
  \A i \in DOMAIN Places(heap, v, 1) :
    LET c == Places(heap, v, 1)[i].node IN c.t = "object" => ~Has(c, Tag)

\* After one crossing, and after the way back as well.
Expected(tree) ==
  CASE left = 2 /\ at = "python" -> InPython(tree)
    [] left = 2 /\ at = "js" -> InJavaScript(tree)
    [] left = 0 /\ at = "js" -> InJavaScript(InPython(tree))
    [] left = 0 /\ at = "python" -> InPython(InJavaScript(tree))

\* A value that crosses, and one that makes the way back as well - through a
\* result and an argument, or through an argument and the result of a host
\* operation - arrives equal to what set out, but for the changes that InPython
\* and InJavaScript name, and unless it looks like a tag.
CrossesUnchanged ==
  left \in {0, 2} /\ at # "refused" =>
    \A i \in DOMAIN origin :
      Untagged(origin[i]) => Same(Expected(Tree(origin[i])), values[i])
=============================================================================

------------------------------ MODULE DukProps ------------------------------
(***************************************************************************)
(* The property table of an object (duk_hobject_props.c): an entry part    *)
(* with keys in order of creation, an array part for plain values of array *)
(* indices, and a hash part that finds entries by probing.  Operations     *)
(* resize the parts, move the array part into the entry part for good when *)
(* it becomes sparse or an element needs attributes, and may run out of    *)
(* memory in the middle; compaction comes at any time from an emergency    *)
(* garbage collection.  ObjectSpec says what all this must not show.       *)
(***************************************************************************)
EXTENDS Integers, Sequences, SequencesExt, FiniteSets, FiniteSetsExt

CONSTANTS MaxIndex, Names, Values, UNDEF, NULL, Descs, Proto,
          Literal,                 \* the property an object literal gives plain objects
          KeyHash,                 \* hash of every key
          HashLimit,               \* DUK_USE_HOBJECT_HASH_PROP_LIMIT
          EGrowAdd, EGrowDiv,      \* DUK_USE_HOBJECT_ENTRY_MINGROW_*
          AGrowAdd, AGrowDiv,      \* DUK_USE_HOBJECT_ARRAY_MINGROW_*
          Unit,                    \* 8: sizes are compared in units of it
          AbandonLimit, AbandonMinSize, FastLimit,   \* DUK_USE_HOBJECT_ARRAY_*
          MaxSlots, MaxOps, MaxFin \* bounds on entry part slots, operations, those of a finalizer

VARIABLES o,    \* the object
          ret,  \* result of the last operation
          ops,  \* operations so far
          own   \* the own properties and the order of names, as lookups in o find them

vars == <<o, ret, ops, own>>

Index == 0..MaxIndex
Keys == Index \cup Names
WEC == {"W", "E", "C"}
UNUSED == -1    \* DUK__HASH_UNUSED
DELETED == -2   \* DUK__HASH_DELETED
Data(f, v) == [f |-> f, v |-> v, get |-> UNDEF, set |-> UNDEF]
Dead == [k |-> NULL, p |-> Data({}, UNDEF)]

\* ep: entry slots up to e_next, es: e_size, hp: hash part, ap: array part with UNDEF
\* holes as NULL, hasA: DUK_HOBJECT_FLAG_ARRAY_PART; map and env: the map of an
\* arguments object and the variables it refers to; grew: this operation allocated;
\* pend: a definition that has replaced the setter and waits for its finalizer (key,
\* entry, getter still to be written, operations until then); torn: that getter
\* was written to an entry that is no longer the property's.
Object(kd, mapped, e) ==
  [kind |-> kd, ext |-> TRUE, ep |-> <<>>, es |-> 0, hp |-> <<>>,
   ap |-> [i \in 1..Cardinality(mapped) |-> e[i - 1]], hasA |-> kd # "plain",
   len |-> 0, lw |-> TRUE, map |-> mapped, env |-> e, grew |-> FALSE,
   pend |-> <<>>, torn |-> FALSE]

-----------------------------------------------------------------------------
(* Sizes.                                                                  *)

\* duk__get_default_h_size.
HSize(e) ==
  IF e < HashLimit THEN 0 ELSE 2 * Min({2^b : b \in {c \in 0..10 : 2^c > e}})
GrowE(n) == (n + EGrowAdd) \div EGrowDiv
GrowA(n) == (n + AGrowAdd) \div AGrowDiv

Live(x) == SelectSeq(x.ep, LAMBDA s : s.k # NULL)
UsedA(x) == {i \in 1..Len(x.ap) : x.ap[i] # NULL}
MinA(x) == IF UsedA(x) = {} THEN 0 ELSE Max(UsedA(x))

\* duk__abandon_array_density_check and duk__abandon_array_slow_check_required.
Sparse(used, size) == used < AbandonLimit * (size \div Unit)
SlowCheck(i, size) == i + 1 >= AbandonMinSize /\ i > FastLimit * ((size + Unit - 1) \div Unit)

-----------------------------------------------------------------------------
(* The hash part.                                                          *)

\* The first slot of the probe sequence of key k whose content is accepted.
Probe(hp, k, Accept(_)) ==
  LET n == Len(hp)
      At(j) == ((KeyHash[k] + j) % n) + 1
  IN  At(CHOOSE j \in 0..n - 1 : Accept(hp[At(j)]) /\ \A i \in 0..j - 1 : ~Accept(hp[At(i)]))

\* duk_hobject_find_entry: entry and hash slot, 0 for none.
FindEntry(x, k) ==
  IF x.hp = <<>>
    THEN [e |-> SelectInSeq(x.ep, LAMBDA s : s.k = k), h |-> 0]
    ELSE LET Stop(t) == t = UNUSED \/ (IF t > 0 THEN x.ep[t].k = k ELSE FALSE)
             h == Probe(x.hp, k, Stop)
         IN  IF x.hp[h] = UNUSED THEN [e |-> 0, h |-> 0] ELSE [e |-> x.hp[h], h |-> h]

Hashed(hp, k, idx, Free(_)) == [hp EXCEPT ![Probe(hp, k, Free)] = idx]

\* The hash of a compact entry part is built anew.
BuildHash(ep, n) ==
  FoldLeft(LAMBDA hp, i : Hashed(hp, ep[i].k, i, LAMBDA t : t = UNUSED),
           [j \in 1..n |-> UNUSED], [i \in 1..(IF n = 0 THEN 0 ELSE Len(ep)) |-> i])

-----------------------------------------------------------------------------
(* Reallocation.                                                           *)

\* duk_hobject_realloc_props.  Array elements come first when the array part is
\* abandoned.
Realloc(x, es, as, hs, abandon) ==
  LET used == SelectSeq([i \in 1..Len(x.ap) |-> i], LAMBDA i : x.ap[i] # NULL)
      moved == [j \in 1..(IF abandon THEN Len(used) ELSE 0) |->
                  [k |-> used[j] - 1, p |-> Data(WEC, x.ap[used[j]])]]
      ep == moved \o Live(x)
  IN  [x EXCEPT !.ep = ep, !.es = es, !.hp = BuildHash(ep, hs), !.hasA = @ /\ ~abandon,
                !.ap = [i \in 1..as |-> IF i <= Len(x.ap) THEN x.ap[i] ELSE NULL],
                !.grew = TRUE]

\* duk_hobject_resize_entrypart keeps the larger size.
ResizeEntries(x, n) ==
  LET es == IF x.es > n THEN x.es ELSE n IN Realloc(x, es, Len(x.ap), HSize(es), FALSE)

\* duk__grow_props_for_new_entry_item.
GrowEntries(x) ==
  LET es == Len(Live(x)) + GrowE(Len(Live(x))) IN Realloc(x, es, Len(x.ap), HSize(es), FALSE)

\* duk__grow_props_for_array_item.
GrowArray(x, i) == Realloc(x, x.es, i + GrowA(i), Len(x.hp), FALSE)

\* duk__abandon_array_part.
AbandonArray(x) ==
  LET n == Len(Live(x)) + Cardinality(UsedA(x))
      es == n + GrowE(n)
  IN  Realloc(x, es, 0, HSize(es), TRUE)

\* duk_hobject_compact_props.
Compact(x) ==
  LET sparse == Sparse(Cardinality(UsedA(x)), MinA(x))
      es == Len(Live(x)) + (IF sparse THEN Cardinality(UsedA(x)) ELSE 0)
  IN  Realloc(x, es, IF sparse THEN 0 ELSE MinA(x), HSize(es), sparse)

\* duk__hobject_alloc_entry_checked with the property stored: the last slot; the hash
\* slot may be one of a deleted entry.
AllocEntry(x, k, p) ==
  LET y == IF Len(x.ep) >= x.es THEN GrowEntries(x) ELSE x
      ep == Append(y.ep, [k |-> k, p |-> p])
  IN  [y EXCEPT !.ep = ep,
                !.hp = IF @ = <<>> THEN @ ELSE Hashed(@, k, Len(ep), LAMBDA t : t \in {UNUSED, DELETED})]

\* duk__obtain_arridx_slot: the object with room for element i in its array part, or
\* without array part.
ObtainSlot(x, i) ==
  IF i < Len(x.ap) THEN x
  ELSE IF SlowCheck(i, Len(x.ap)) /\ Sparse(Cardinality(UsedA(x)), i) THEN AbandonArray(x)
  ELSE GrowArray(x, i)

-----------------------------------------------------------------------------
(* Lookup.                                                                 *)

\* duk__get_own_propdesc_raw: e, h and a say where the property is (0: not there).
None == [e |-> 0, h |-> 0, a |-> 0, p |-> Data({}, UNDEF)]
GetOwn(x, k) ==
  LET s == FindEntry(x, k)
  IN  IF s.e > 0 THEN [e |-> s.e, h |-> s.h, a |-> 0, p |-> x.ep[s.e].p]
      ELSE IF k \in Index /\ x.hasA /\ (IF k \in Index THEN k < Len(x.ap) ELSE FALSE)
        THEN IF x.ap[k + 1] = NULL THEN None
             ELSE [e |-> 0, h |-> 0, a |-> k + 1, p |-> Data(WEC, x.ap[k + 1])]
      ELSE None
Found(w) == w.e > 0 \/ w.a > 0

NameOrder(x) == SelectSeq([i \in 1..Len(x.ep) |-> x.ep[i].k], LAMBDA k : k \in Names)
Own(x) == [p |-> [k \in {y \in Keys : Found(GetOwn(x, y))} |-> GetOwn(x, k).p], names |-> NameOrder(x)]

\* duk__check_arguments_map_for_get: the value of a mapped argument.
Seen(x, k, p) == IF k \in x.map THEN [p EXCEPT !.v = x.env[k]] ELSE p
SetMapped(x, k, v) == IF k \in x.map THEN [x EXCEPT !.env[k] = v] ELSE x

\* duk__getprop_shallow_fastpath_array_tval: NULL when the slow path is needed.
FastGet(x, i) ==
  IF x.hasA /\ x.kind # "args" /\ i < Len(x.ap) THEN x.ap[i + 1] ELSE NULL

-----------------------------------------------------------------------------
(* Operations: the object and the result after them.                       *)

Ok(x) == [o |-> x, ret |-> "ok"]
Fail(x) == [o |-> x, ret |-> "fail"]

SetLen(x, k) == IF x.kind = "array" /\ k \in Index
                  THEN [x EXCEPT !.len = IF k >= @ THEN k + 1 ELSE @] ELSE x
MayGrow(x, k) == x.kind = "array" /\ k \in Index => k < x.len \/ x.lw

\* A new property: into the array part if it is a plain element and there is one.
Create(x, k, p) ==
  LET y == IF p.f = WEC THEN ObtainSlot(x, k) ELSE AbandonArray(x)
  IN  IF k \notin Index \/ ~x.hasA THEN AllocEntry(x, k, p)
      ELSE IF y.hasA THEN [y EXCEPT !.ap[k + 1] = p.v] ELSE AllocEntry(y, k, p)

\* duk__putprop_shallow_fastpath_array_tval.
FastPut(x, i, v) == SetLen([x EXCEPT !.ap[i + 1] = v], i)
FastPutApplies(x, k) ==
  /\ k \in Index /\ x.kind = "array" /\ x.hasA /\ x.ext
  /\ IF k \in Index THEN k < Len(x.ap) /\ (k < x.len \/ x.lw) ELSE FALSE

\* duk_hobject_putprop, slow path: own property, then the prototype's.
Setter(x, p) == [o |-> x, ret |-> IF p.set = UNDEF THEN "fail" ELSE "setter"]
CreateNew(x, k, v) ==
  IF ~x.ext \/ ~MayGrow(x, k) THEN Fail(x) ELSE Ok(SetLen(Create(x, k, Data(WEC, v)), k))
UpdateOld(x, k, w, v) ==
  SetMapped(IF w.e > 0 THEN [x EXCEPT !.ep[w.e].p.v = v] ELSE [x EXCEPT !.ap[w.a] = v], k, v)
SlowPut(x, k, v) ==
  LET w == GetOwn(x, k)
  IN  IF Found(w)
        THEN IF "A" \in w.p.f THEN Setter(x, w.p)
             ELSE IF "W" \in w.p.f THEN Ok(UpdateOld(x, k, w, v)) ELSE Fail(x)
      ELSE IF k \in DOMAIN Proto
        THEN IF "A" \in Proto[k].f THEN Setter(x, Proto[k])
             ELSE IF "W" \in Proto[k].f THEN CreateNew(x, k, v) ELSE Fail(x)
      ELSE CreateNew(x, k, v)

\* duk_hobject_delprop_raw.
MarkUnused(hp, h) == [hp EXCEPT ![h] = UNUSED]   \* mutant of MarkDeleted
MarkDeleted(hp, h) == [hp EXCEPT ![h] = DELETED]
Removed(x, w) ==
  IF w.a > 0 THEN [x EXCEPT !.ap[w.a] = NULL]
  ELSE [x EXCEPT !.ep[w.e] = Dead, !.hp = IF w.h > 0 THEN MarkDeleted(@, w.h) ELSE @]
DelProp(x, k) ==
  LET w == GetOwn(x, k)
  IN  IF ~Found(w) THEN Ok([x EXCEPT !.map = @ \ {k}])
      ELSE IF "C" \notin w.p.f THEN Fail(x)
      ELSE Ok([Removed(x, w) EXCEPT !.map = @ \ {k}])

\* duk__handle_put_array_length_smaller: elements of an array part simply go;
\* otherwise a first pass finds what cannot be deleted.
BlockedAt(x, n) ==
  LET stuck == {i \in 1..Len(x.ep) : /\ x.ep[i].k \in Index
                                     /\ (IF x.ep[i].k \in Index THEN x.ep[i].k >= n ELSE FALSE)
                                     /\ "C" \notin x.ep[i].p.f}
  IN  Max({n} \cup {x.ep[i].k + 1 : i \in stuck})
Shorten(x, n) ==
  IF x.hasA THEN [o |-> [x EXCEPT !.ap = [i \in DOMAIN @ |-> IF i > n THEN NULL ELSE @[i]], !.len = n],
                  ret |-> "ok"]
  ELSE LET t == BlockedAt(x, n)
           Above(k) == IF k \in Index THEN k >= t ELSE FALSE
           ks == SelectSeq([i \in 1..Len(x.ep) |-> x.ep[i].k], Above)
           y == FoldLeft(LAMBDA z, k : DelProp(z, k).o, x, ks)
       IN  [o |-> [y EXCEPT !.len = t], ret |-> IF t = n THEN "ok" ELSE "fail"]

\* duk__handle_put_array_length.
PutLength(x, n) ==
  IF ~x.lw THEN Fail(x) ELSE IF n >= x.len THEN Ok([x EXCEPT !.len = n]) ELSE Shorten(x, n)

-----------------------------------------------------------------------------
(* duk_hobject_define_property_helper.                                     *)

IsAccessor(d) == d.has \cap {"G", "S"} # {}
Given(d, a, yes, no) == IF a \in d.has THEN yes ELSE no

\* Nothing to change at all.
Same(p, d) ==
  /\ \A a \in {"W", "E", "C"} \cap d.has : a \in d.on <=> a \in p.f
  /\ d.has \cap {"V", "W"} # {} => "A" \notin p.f
  /\ IsAccessor(d) => "A" \in p.f
  /\ Given(d, "V", d.v = p.v, TRUE) /\ Given(d, "G", d.get = p.get, TRUE) /\ Given(d, "S", d.set = p.set, TRUE)

\* The checks for a property that is not configurable.
Rejected(p, d) ==
  /\ "C" \notin p.f
  /\ \/ "C" \in d.on
     \/ "E" \in d.has /\ ~("E" \in d.on <=> "E" \in p.f)
     \/ IsAccessor(d) /\ ("A" \notin p.f \/ Given(d, "S", d.set # p.set, FALSE) \/ Given(d, "G", d.get # p.get, FALSE))
     \/ d.has \cap {"V", "W"} # {} /\ "A" \in p.f
     \/ "A" \notin p.f /\ "W" \notin p.f /\ ("W" \in d.on \/ Given(d, "V", d.v # p.v, FALSE))

NewProp(d) ==
  [f |-> d.on \cup (IF IsAccessor(d) THEN {"A"} ELSE {}), v |-> Given(d, "V", d.v, UNDEF),
   get |-> Given(d, "G", d.get, UNDEF), set |-> Given(d, "S", d.set, UNDEF)]

\* Conversion between data and accessor property, then the flags and values given.
Converted(p, d) ==
  CASE IsAccessor(d) /\ "A" \notin p.f -> Data((p.f \ {"W"}) \cup {"A"}, UNDEF)
    [] d.has \cap {"V", "W"} # {} /\ "A" \in p.f -> Data(p.f \ {"W", "A"}, UNDEF)
    [] OTHER -> p
Updated(p, d) ==
  LET c == Converted(p, d)
  IN  [f |-> (c.f \ (d.has \cap WEC)) \cup d.on, v |-> Given(d, "V", d.v, c.v),
       get |-> Given(d, "G", d.get, c.get), set |-> Given(d, "S", d.set, c.set)]

\* The place of the property after the array part was abandoned.
StalePlace(x, k, w) == w   \* mutant of LookAgain
LookAgain(x, k, w) == GetOwn(x, k)
UpdateProp(x, k, w, d) ==
  LET p == Updated(w.p, d)
      y == IF w.a > 0 /\ p.f # WEC THEN AbandonArray(x) ELSE x
      z == LookAgain(y, k, w)
  IN  IF w.a > 0 /\ p.f = WEC THEN [x EXCEPT !.ap[w.a] = p.v] ELSE [y EXCEPT !.ep[z.e].p = p]

\* success_exotics of an arguments object.
Unmap(x, k, d) ==
  LET y == IF "V" \in d.has THEN SetMapped(x, k, d.v) ELSE x
  IN  IF IsAccessor(d) \/ ("W" \in d.has /\ "W" \notin d.on) THEN [y EXCEPT !.map = @ \ {k}] ELSE y

Define(x, k, d) ==
  LET w == GetOwn(x, k)
      seen == Seen(x, k, w.p)
  IN  IF ~MayGrow(x, k) THEN Fail(x)
      ELSE IF ~Found(w) THEN IF x.ext THEN Ok(SetLen(Create(x, k, NewProp(d)), k)) ELSE Fail(x)
      ELSE IF Same(seen, d) THEN Ok(x)
      ELSE IF Rejected(seen, d) THEN Fail(x)
      ELSE Ok(Unmap(SetLen(UpdateProp(x, k, w, d), k), k, d))

\* The definition of getter and setter of an accessor property: the setter replaced is
\* dereferenced between the two, and its finalizer may change this object.  The getter
\* goes to the entry the property had before.
SetterDies(x, k, d) ==
  LET w == GetOwn(x, k)
  IN  /\ MayGrow(x, k) /\ w.e > 0 /\ {"G", "S"} \subseteq d.has
      /\ "A" \in w.p.f /\ w.p.set \notin {UNDEF, d.set} /\ ~Rejected(w.p, d)
HalfDefined(x, k, d, n) ==
  LET w == GetOwn(x, k)
  IN  [x EXCEPT !.ep[w.e].p = [Updated(w.p, d) EXCEPT !.get = w.p.get], !.pend = <<k, w.e, d.get, n>>]
GetterWritten(x, k, e, g) ==
  IF e <= Len(x.ep) /\ x.ep[e].k = k /\ "A" \in x.ep[e].p.f
    THEN [x EXCEPT !.ep[e].p.get = g, !.pend = <<>>] ELSE [x EXCEPT !.torn = TRUE]

\* The same for the length of an array, {value: n} with or without {writable: FALSE}:
\* write protection waits for the deletions.
ProtectLast(x, n, w) ==
  LET r == IF n < x.len THEN Shorten(x, n) ELSE Ok([x EXCEPT !.len = n])
  IN  [r EXCEPT !.o.lw = @ /\ w]
DefineLength(x, n, w) ==
  IF ~x.lw /\ n # x.len THEN Fail(x) ELSE ProtectLast(x, n, w)

\* duk_hobject_define_property_internal with writable, enumerable, configurable.
DefineInternal(x, k, v) ==
  LET w == GetOwn(x, k)
  IN  IF w.e > 0 THEN [x EXCEPT !.ep[w.e].p = Data(WEC, v)]
      ELSE IF w.a > 0 THEN [x EXCEPT !.ap[w.a] = v] ELSE Create(x, k, Data(WEC, v))

\* duk_hobject_object_seal_freeze_helper.
Seal(x, freeze) ==
  LET y == AbandonArray(x)
      Sealed(p) == [p EXCEPT !.f = @ \ (IF freeze /\ "A" \notin @ THEN {"W", "C"} ELSE {"C"})]
  IN  [y EXCEPT !.ext = FALSE, !.ep = [i \in DOMAIN @ |-> [@[i] EXCEPT !.p = Sealed(@)]]]

\* duk_hobject_object_is_sealed_frozen_helper.
IsSealedFrozen(x, frozen) ==
  /\ ~x.ext /\ UsedA(x) = {}
  /\ \A i \in DOMAIN x.ep : x.ep[i].k # NULL =>
       "C" \notin x.ep[i].p.f /\ (frozen => "A" \in x.ep[i].p.f \/ "W" \notin x.ep[i].p.f)

\* The own keys in the order duk_hobject_enumerator_create gives them, enumerable or
\* not: array part, entries, then an insertion sort if an entry is an array index.
SortKey(k) == IF k \in Index THEN k ELSE MaxIndex + 1
Inserted(q, k) ==
  LET i == Cardinality({j \in DOMAIN q : SortKey(q[j]) <= SortKey(k)})
  IN  SubSeq(q, 1, i) \o <<k>> \o SubSeq(q, i + 1, Len(q))
EnumKeys(x) ==
  LET a == SelectSeq([i \in 1..Len(x.ap) |-> i - 1], LAMBDA i : x.ap[i + 1] # NULL)
      e == [i \in 1..Len(Live(x)) |-> Live(x)[i].k]
  IN  IF \E i \in DOMAIN e : e[i] \in Index THEN FoldLeft(Inserted, <<>>, a \o e) ELSE a \o e

-----------------------------------------------------------------------------
(* An operation that allocates may fail, and the object is as before.      *)

Outcome(result) ==
  \E r \in {result} :
    \/ /\ o' = [r.o EXCEPT !.grew = FALSE] /\ ret' = r.ret
       /\ Len(r.o.ep) <= MaxSlots
    \/ r.o.grew /\ o' = o /\ ret' = "oom"

\* number: the key is a number and the fast path applies.
PutOp(k, v, number) ==
  \/ number /\ FastPutApplies(o, k) /\ Outcome(Ok(FastPut(o, k, v)))
  \/ ~number /\ Outcome(SlowPut(o, k, v))
DelOp(k) == Outcome(DelProp(o, k))
DefineOp(k, d) ==
  \/ Outcome(Define(o, k, d))
  \/ o.pend = <<>> /\ SetterDies(o, k, d) /\ o' = HalfDefined(o, k, d, ops + 1) /\ ret' = "ok"
FinishDefine == o.pend # <<>> /\ o' = GetterWritten(o, o.pend[1], o.pend[2], o.pend[3]) /\ ret' = "ok"
\* Callers define internally only in objects they have made themselves.
InternalOp(k, v) ==
  /\ o.ext /\ (Found(GetOwn(o, k)) => GetOwn(o, k).p.f = WEC)
  /\ k \in Names \/ o.kind # "array" \/ (IF k \in Index THEN k < o.len ELSE FALSE)
  /\ k \notin o.map
  /\ Outcome([o |-> DefineInternal(o, k, v), ret |-> "internal"])
LengthOp(n) == o.kind = "array" /\ Outcome(PutLength(o, n))
DefineLengthOp(n, w) == o.kind = "array" /\ Outcome(DefineLength(o, n, w))
SealOp(freeze) == Outcome(Ok(Seal(o, freeze)))
\* duk_bi_object_constructor_prevent_extensions: the flag goes before the compaction.
PreventOp ==
  /\ o' \in {[Compact([o EXCEPT !.ext = FALSE]) EXCEPT !.grew = FALSE], [o EXCEPT !.ext = FALSE]}
  /\ ret' = IF o' = [o EXCEPT !.ext = FALSE] THEN "oom" ELSE "ok"
CompactOp == o' = [Compact(o) EXCEPT !.grew = FALSE] /\ UNCHANGED ret
ResizeOp == /\ o' = [ResizeEntries(o, o.es) EXCEPT !.grew = FALSE] /\ UNCHANGED ret
SetVar(i, v) == i \in o.map /\ o' = [o EXCEPT !.env[i] = v] /\ UNCHANGED ret

Init ==
  /\ \E kd \in {"plain", "array", "args"}, v \in Values :
       LET x == Object(kd, IF kd = "args" THEN {0} ELSE {}, [i \in Index |-> v])
       IN  o = IF kd = "plain" THEN [AllocEntry(x, Literal.k, Literal.p) EXCEPT !.grew = FALSE] ELSE x
  /\ ret = "ok" /\ ops = 0 /\ own = Own(o)

Operation ==
  \/ \E k \in Keys : \/ DelOp(k)
                     \/ \E v \in Values : InternalOp(k, v) \/ \E number \in BOOLEAN : PutOp(k, v, number)
                     \/ \E d \in Descs : DefineOp(k, d)
  \/ \E n \in 0..MaxIndex + 1 : LengthOp(n) \/ \E w \in BOOLEAN : DefineLengthOp(n, w)
  \/ \E freeze \in BOOLEAN : SealOp(freeze)
  \/ PreventOp \/ CompactOp \/ ResizeOp
  \/ \E i \in Index, v \in Values : SetVar(i, v)

\* What the finalizer of a setter does to the object being defined (of all it could do):
\* take properties away, protect them, or make the table move.
FinalizerOp == (\E k \in Keys : DelOp(k)) \/ SealOp(TRUE) \/ CompactOp

Next ==
  /\ ~o.torn
  /\ \/ o.pend = <<>> /\ ops < MaxOps /\ ops' = ops + 1 /\ Operation
     \/ o.pend # <<>> /\ ops < o.pend[4] + MaxFin /\ ops' = ops + 1 /\ FinalizerOp
     \/ FinishDefine /\ UNCHANGED ops
  /\ own' = Own(o')

Spec == Init /\ [][Next]_vars

-----------------------------------------------------------------------------
(* Properties.                                                             *)

Abs == INSTANCE ObjectSpec WITH
         kind <- o.kind, props <- own.p, order <- own.names, len <- o.len, lw <- o.lw,
         ext <- o.ext, map <- o.map, env <- o.env, ret <- ret

\* The three parts implement the object of the language: every operation, with the
\* resizes, abandonments, compactions and failures of allocation it meets, has the
\* result and the effect that ECMAScript defines.
ImplementsObject == Abs!Spec

\* Every live entry is found where it is, and an absent key ends at an unused hash
\* slot: probing (duk_hobject_find_entry) always comes to an end.
HashExact ==
  /\ o.hp # <<>> => \E j \in DOMAIN o.hp : o.hp[j] = UNUSED
  /\ \A i \in DOMAIN o.ep : o.ep[i].k # NULL => FindEntry(o, o.ep[i].k).e = i

\* An element is in one part only, the fast path of arrays reads what the slow one reads,
\* and writes what the slow one writes, except that a hole is filled although the
\* prototype has a property of that index (the comment in duk_hobject_putprop says so).
FastPathAgrees ==
  /\ o.hasA => \A i \in DOMAIN o.ep : o.ep[i].k \notin Index
  /\ \A i \in Index : FastGet(o, i) # NULL => i \in DOMAIN own.p /\ FastGet(o, i) = own.p[i].v
  /\ \A i \in Index, v \in Values : FastPutApplies(o, i) =>
       \/ SlowPut(o, i, v) = Ok(FastPut(o, i, v))
       \/ i \in DOMAIN Proto \ DOMAIN own.p /\ Own(FastPut(o, i, v)).p[i] = Data(WEC, v)

\* The elements of an array are below its length.
LengthCovers ==
  o.kind = "array" => \A i \in Index \cap DOMAIN own.p : i < o.len

\* Keys are enumerated with the array indices first, in ascending order, then the
\* names in the order in which they were created, however often the table was
\* rebuilt.
EnumerationOrder ==
  \E q \in {EnumKeys(o)} :
    /\ Range(q) = DOMAIN own.p
    /\ SelectSeq(q, LAMBDA k : k \in Names) = own.names
    /\ \A i, j \in DOMAIN q : i < j => SortKey(q[i]) < SortKey(q[j]) \/ q[i] \in Names

\* What was sealed or frozen stays so: no property appears in an object that is not
\* extensible, one that is not configurable stays, and its value too unless it is
\* writable (or a mapped argument, whose variable changes).
SealedStays ==
  /\ ~o.ext => DOMAIN own'.p \subseteq DOMAIN own.p
  /\ \A k \in DOMAIN own.p :
       "C" \notin own.p[k].f =>
         /\ k \in DOMAIN own'.p /\ "C" \notin own'.p[k].f
         /\ {"W", "A"} \cap own.p[k].f = {} => own'.p[k].v = own.p[k].v

\* Object.isSealed and isFrozen answer for every property but the length of an array: the
\* comment of duk_hobject_object_is_sealed_frozen_helper says that all virtual properties
\* are read-only, which that length is not, and neither function looks at it.
FrozenKnown ==
  /\ IsSealedFrozen(o, FALSE) <=> ~o.ext /\ \A k \in DOMAIN own.p : "C" \notin own.p[k].f
  /\ IsSealedFrozen(o, TRUE) <=>
       ~o.ext /\ \A k \in DOMAIN own.p : "C" \notin own.p[k].f /\ ("A" \in own.p[k].f \/ "W" \notin own.p[k].f)

\* The second half of a definition goes astray only if the finalizer of the setter it
\* replaced has changed the same object ("may invalidate e_idx").
TornByFinalizer == o.torn => ops > o.pend[4]
=============================================================================

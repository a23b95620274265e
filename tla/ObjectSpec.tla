----------------------------- MODULE ObjectSpec -----------------------------
(***************************************************************************)
(* What the property operations promise of one object, whatever parts its  *)
(* properties are stored in: the internal methods of E5 8.12, of arrays    *)
(* (15.4.5.1) and of arguments objects (10.6), with the result of every    *)
(* operation.  An operation that runs out of memory changes nothing, but   *)
(* preventExtensions has then taken effect already.                        *)
(***************************************************************************)
EXTENDS Integers, Sequences, FiniteSets, FiniteSetsExt

CONSTANTS MaxIndex,   \* array indices are 0..MaxIndex
          Names,      \* other keys
          Values, UNDEF,
          Descs,      \* descriptors given to defineProperty
          Proto,      \* properties the prototype has for some keys
          Literal     \* name and property that plain objects begin with

VARIABLES kind,    \* "plain", "array" or "args"
          props,   \* own properties
          order,   \* own names in order of creation
          len, lw, \* array length, and whether it is writable
          ext,     \* extensible
          map,     \* indices mapped to variables (arguments objects)
          env,     \* the variables
          ret      \* result of the last operation

vars == <<kind, props, order, len, lw, ext, map, env, ret>>

Index == 0..MaxIndex
Keys == Index \cup Names
WEC == {"W", "E", "C"}

\* A property: flags f, "A" for an accessor.
Data(f, v) == [f |-> f, v |-> v, get |-> UNDEF, set |-> UNDEF]

\* The property as it is seen: a mapped argument has the value of its variable.
Own(k) == IF k \in map THEN [props[k] EXCEPT !.v = env[k]] ELSE props[k]

\* A descriptor: has names the attributes it has ("V", "W", "E", "C", "G", "S"), on
\* those of them that are true.
IsAccessor(d) == d.has \cap {"G", "S"} # {}
IsData(d) == d.has \cap {"V", "W"} # {}

FromDesc(d) ==
  [f |-> (IF IsAccessor(d) THEN {"A"} ELSE {}) \cup d.on,
   v |-> IF "V" \in d.has THEN d.v ELSE UNDEF,
   get |-> IF "G" \in d.has THEN d.get ELSE UNDEF,
   set |-> IF "S" \in d.has THEN d.set ELSE UNDEF]

\* E5 8.12.9, steps 5 to 11: may p become what d says?
Allowed(p, d) ==
  \/ "C" \in p.f
  \/ /\ "C" \notin d.on
     /\ "E" \in d.has => ("E" \in d.on <=> "E" \in p.f)
     /\ IsAccessor(d) => /\ "A" \in p.f
                         /\ "G" \in d.has => d.get = p.get
                         /\ "S" \in d.has => d.set = p.set
     /\ IsData(d) => /\ "A" \notin p.f
                     /\ \/ "W" \in p.f
                        \/ "W" \notin d.on /\ ("V" \in d.has => d.v = p.v)

\* Step 12.
Changed(p, d) ==
  LET switch == IF "A" \in p.f THEN IsData(d) ELSE IsAccessor(d)
      old == IF switch THEN (p.f \ {"W", "A"}) \cup (IF IsAccessor(d) THEN {"A"} ELSE {}) ELSE p.f
  IN  [f |-> (old \ (d.has \cap WEC)) \cup d.on,
       v |-> IF "V" \in d.has THEN d.v ELSE IF switch THEN UNDEF ELSE p.v,
       get |-> IF "G" \in d.has THEN d.get ELSE IF switch THEN UNDEF ELSE p.get,
       set |-> IF "S" \in d.has THEN d.set ELSE IF switch THEN UNDEF ELSE p.set]

\* An index beyond the length makes an array longer.
MayGrow(k) == kind = "array" /\ k \in Index => k < len \/ lw
Grown(k) == IF kind = "array" /\ k \in Index /\ k >= len THEN k + 1 ELSE len

Ordered(k) == IF k \in Names \ DOMAIN props THEN Append(order, k) ELSE order
Stored(k, p) == [x \in DOMAIN props \cup {k} |-> IF x = k THEN p ELSE props[x]]
Without(S) == [x \in DOMAIN props \ S |-> props[x]]

Unchanged == UNCHANGED <<kind, props, order, len, lw, ext, map, env>>
Refused == ret' = "fail" /\ Unchanged
NoMemory == ret' = "oom" /\ Unchanged

Store(k, p) ==
  /\ ret' = "ok"
  /\ props' = Stored(k, p) /\ order' = Ordered(k) /\ len' = Grown(k)

Define(k, d) ==
  IF ~MayGrow(k) THEN Refused
  ELSE IF k \notin DOMAIN props
    THEN IF ~ext THEN Refused ELSE Store(k, FromDesc(d)) /\ UNCHANGED <<kind, lw, ext, map, env>>
  ELSE IF ~Allowed(Own(k), d) THEN Refused
  ELSE /\ Store(k, Changed(props[k], d))
       /\ map' = IF IsAccessor(d) \/ ("W" \in d.has /\ "W" \notin d.on) THEN map \ {k} ELSE map
       /\ env' = IF k \in map /\ "V" \in d.has THEN [env EXCEPT ![k] = d.v] ELSE env
       /\ UNCHANGED <<kind, lw, ext>>

\* [[Put]] without throwing; setters are called but what they do is not part of it.
Put(k, v) ==
  IF k \in DOMAIN props
    THEN IF "A" \in props[k].f
           THEN ret' = (IF props[k].set = UNDEF THEN "fail" ELSE "setter") /\ Unchanged
         ELSE IF "W" \notin props[k].f THEN Refused
         ELSE /\ Store(k, [props[k] EXCEPT !.v = v])
              /\ env' = IF k \in map THEN [env EXCEPT ![k] = v] ELSE env
              /\ UNCHANGED <<kind, lw, ext, map>>
  ELSE IF k \in DOMAIN Proto /\ "A" \in Proto[k].f
    THEN ret' = (IF Proto[k].set = UNDEF THEN "fail" ELSE "setter") /\ Unchanged
  ELSE IF (k \in DOMAIN Proto /\ "W" \notin Proto[k].f) \/ ~ext \/ ~MayGrow(k) THEN Refused
  ELSE Store(k, Data(WEC, v)) /\ UNCHANGED <<kind, lw, ext, map, env>>

\* An array takes a numeric index without asking the prototype when it has room for it,
\* which is not visible here (E5 would ask).
PutPast(k, v) ==
  /\ kind = "array" /\ k \in Index \ DOMAIN props /\ ext /\ MayGrow(k)
  /\ Store(k, Data(WEC, v)) /\ UNCHANGED <<kind, lw, ext, map, env>>

\* A definition of getter and setter may be seen half-way, by the finalizer of the setter
\* it replaces; the getter follows, whatever the finalizer did to the attributes.
Setting(d) == [d EXCEPT !.has = @ \ {"G"}]
FinishDefine(k, g) ==
  /\ k \in DOMAIN props /\ "A" \in props[k].f
  /\ Store(k, [props[k] EXCEPT !.get = g]) /\ UNCHANGED <<kind, lw, ext, map, env>>

\* Internal definition of a data property, past all checks.
DefineInternal(k, p) ==
  /\ ret' = "internal"
  /\ props' = Stored(k, p) /\ order' = Ordered(k) /\ len' = Grown(k)
  /\ UNCHANGED <<kind, lw, ext, map, env>>

Delete(k) ==
  IF k \in DOMAIN props /\ "C" \notin props[k].f THEN Refused
  ELSE /\ ret' = "ok"
       /\ props' = Without({k})
       /\ order' = SelectSeq(order, LAMBDA x : x # k)
       /\ map' = map \ {k}
       /\ UNCHANGED <<kind, len, lw, ext, env>>

\* A shorter length deletes from the top and stops at what cannot be deleted.
Shortened(n) ==
  LET stuck == {i \in DOMAIN props \cap Index : i >= n /\ "C" \notin props[i].f}
  IN  IF stuck = {} THEN n ELSE Max(stuck) + 1

SetLength(n) ==
  /\ len' = IF n >= len THEN n ELSE Shortened(n)
  /\ props' = Without({i \in DOMAIN props \cap Index : i >= len'})
  /\ ret' = IF len' = n THEN "ok" ELSE "fail"
  /\ UNCHANGED <<kind, order, ext, map, env>>

PutLength(n) ==
  /\ kind = "array"
  /\ IF lw THEN SetLength(n) /\ UNCHANGED lw ELSE Refused

DefineLength(n, w) ==   \* {value: n} or {value: n, writable: FALSE}
  /\ kind = "array"
  /\ IF n # len /\ ~lw THEN Refused ELSE SetLength(n) /\ lw' = (lw /\ w)

\* The length of a frozen array keeps its attribute, as in the code; E5 15.2.3.9 makes it
\* read-only.
Seal(freeze) ==
  /\ props' = [k \in DOMAIN props |->
                [props[k] EXCEPT !.f = @ \ (IF freeze /\ "A" \notin @ THEN {"W", "C"} ELSE {"C"})]]
  /\ ext' = FALSE /\ ret' = "ok"
  /\ UNCHANGED <<kind, order, len, lw, map, env>>

PreventExtensions ==
  /\ ext' = FALSE /\ ret' \in {"ok", "oom"}
  /\ UNCHANGED <<kind, props, order, len, lw, map, env>>

SetVar(i, v) ==
  /\ env' = [env EXCEPT ![i] = v]
  /\ UNCHANGED <<kind, props, order, len, lw, ext, map, ret>>

Init ==
  /\ kind \in {"plain", "array", "args"}
  /\ map \subseteq Index /\ env \in [Index -> Values]
  /\ kind # "args" => map = {}
  /\ props = [i \in map |-> Data(WEC, env[i])] \/ props = [k \in {Literal.k} |-> Literal.p]
  /\ Literal.k \in DOMAIN props <=> kind = "plain"
  /\ order = (IF kind = "plain" THEN <<Literal.k>> ELSE <<>>) /\ len = 0 /\ lw = TRUE /\ ext = TRUE /\ ret = "ok"

Next ==
  \/ NoMemory
  \/ \E k \in Keys : Delete(k) \/ (\E v \in Values : Put(k, v) \/ PutPast(k, v))
  \/ \E k \in Keys, d \in Descs :
       Define(k, d) \/ ({"G", "S"} \subseteq d.has /\ (Define(k, Setting(d)) \/ FinishDefine(k, d.get)))
  \/ \E k \in Keys, v \in Values : DefineInternal(k, Data(WEC, v))
  \/ \E n \in 0..MaxIndex + 1 : PutLength(n) \/ (\E w \in BOOLEAN : DefineLength(n, w))
  \/ \E freeze \in BOOLEAN : Seal(freeze)
  \/ PreventExtensions
  \/ \E i \in Index, v \in Values : SetVar(i, v)

Spec == Init /\ [][Next]_vars
=============================================================================

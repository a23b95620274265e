------------------------------ MODULE DukJson -------------------------------
(***************************************************************************)
(* JSON (duk_bi_json.c): JSON.stringify with its fast path, which aborts   *)
(* on whatever might run user code, and the slow path that then starts     *)
(* over; JSON.parse and its reviver; the JX and JC formats that keep the   *)
(* values plain JSON loses.                                                *)
(*                                                                         *)
(* A text is a sequence of tokens.  A string is a sequence of characters:  *)
(* 1 and 9 are letters, 2 a quote or backslash, 3 a control character with *)
(* a short escape, 4 one without, 5 DEL, 6 a character above U+007F, 7 one *)
(* above U+FFFF, 10 and 11 the digits 0 and 1, SYM a symbol.               *)
(***************************************************************************)
EXTENDS Integers, Sequences, SequencesExt, FiniteSets, FiniteSetsExt

CONSTANTS Cases,        \* set of [heap, root, ext, gap, ascii, noquote, rep, list]
          Texts,        \* set of [text, ext, rev]
          LoopArray,    \* DUK_JSON_ENC_LOOPARRAY
          EncLimit,     \* DUK_USE_JSON_ENC_RECLIMIT
          DecLimit      \* DUK_USE_JSON_DEC_RECLIMIT

VARIABLES j, phase, res

vars == <<j, phase, res>>

SYM == <<99>>
UNDEF == <<"undef">>
Idx(k) == k \in {<<10>>, <<11>>}                 \* an array index
IndexKey(i) == <<9 + i>>
Word(w) == <<<<"word", w>>>>
Tok(x) == <<<<x>>>>

-----------------------------------------------------------------------------
(* Strings: duk__json_enc_quote_string and duk__json_dec_string.            *)

\* duk__emit_esc_auto_fast
AutoEsc(c, ext) == IF c = 7 THEN (IF ext = "jx" THEN <<"U8", c>> ELSE <<"U+", c>>)
                   ELSE IF ext = "jx" /\ c # 6 THEN <<"x2", c>> ELSE <<"u4", c>>
Escape(c, ascii, ext) ==
  IF c \in {2, 3} THEN <<"short", c>>
  ELSE IF c = 4 \/ (ascii /\ c \in {5, 6, 7}) THEN AutoEsc(c, ext) ELSE <<"raw", c>>
Quote(s, q) == <<<<"str", [i \in DOMAIN q |-> Escape(q[i], s.ascii, s.ext)]>>>>
\* An escape for characters above U+FFFF is no JSON: it is read as plain text.
Decoded(p) == IF p[1] = "U+" THEN <<12>> ELSE <<p[2]>>
StringOk(ps, ext) == \A i \in DOMAIN ps : /\ ps[i][1] = "raw" => ps[i][2] \notin {2, 3, 4}
                                          /\ ps[i][1] \in {"x2", "U8"} => ext = "jx"
DecString(ps) == FlattenSeq([i \in DOMAIN ps |-> Decoded(ps[i])])
\* duk__json_enc_key_autoquote
Key(s, k) == IF s.noquote /\ k # <<>> /\ \A i \in DOMAIN k : k[i] \in {1, 9} THEN <<<<"id", k>>>> ELSE Quote(s, k)

-----------------------------------------------------------------------------
(* What both paths share.  s is the encoder: the case's flags, the heap,    *)
(* the output, the objects being visited, the loop object, an error.        *)

Ext(s) == s.ext # "json"
Emit(s, q) == [s EXCEPT !.out = @ \o q]
Err(s, e) == [s EXCEPT !.err = IF @ = "" THEN e ELSE @]
JcObject(k, v) == Tok("{") \o <<<<"str", <<<<"raw", k>>>>>>>> \o Tok(":") \o v \o Tok("}")
Indent(s, d) == IF s.gap THEN <<<<"nl", d>>>> ELSE <<>>
Colon(s) == IF s.gap THEN <<<<":">>, <<"sp">>>> ELSE <<<<":">>>>
Undefined(s) == IF s.ext = "jx" THEN Word("undefined") ELSE IF s.ext = "jc" THEN JcObject(20, Word("true")) ELSE Word("null")
Function(s) == IF s.ext = "jx" /\ s.noquote THEN Tok("{") \o <<<<"id", <<21>>>>>> \o Tok(":") \o Word("true") \o Tok("}")
               ELSE JcObject(21, Word("true"))
\* duk__json_enc_double
Double(s, v) ==
  CASE v[1] = "num" -> <<v>>
    [] v[1] = "nzero" -> IF Ext(s) THEN Tok("nzero") ELSE <<<<"num", 0>>>>
    [] v[1] \in {"nan", "inf", "ninf"} -> IF s.ext = "jx" THEN Word(v[1])
                                          ELSE IF s.ext = "jc" THEN JcObject(22, Word("true")) ELSE Word("null")
BufferData(s, q) == IF s.ext = "jx" THEN <<<<"hex", q>>>> ELSE JcObject(23, <<<<"str", [i \in DOMAIN q |-> <<"raw", 30 + q[i]>>]>>>>)
\* duk__json_enc_bufobj: a slice its buffer no longer covers is null
BufferObject(s, o) == IF o.covered THEN BufferData(s, o.inner) ELSE Word("null")
Pointer(s, p) == IF s.ext = "jx" THEN <<<<"ptr", p>>>> ELSE JcObject(24, <<<<"str", <<<<"raw", 30 + p>>>>>>>>)

\* Drop the last comma, if anything was emitted, and close.
Close(s, emitted, d, b) ==
  IF emitted THEN Emit([s EXCEPT !.out = Front(@)], Indent(s, d) \o Tok(b)) ELSE Emit(s, Tok(b))

-----------------------------------------------------------------------------
(* The fast path: duk__json_stringify_fast_value.  Returns [s, ok].         *)

ABORT == "abort"
Und(s) == [s |-> s, ok |-> FALSE]
Ok(s) == [s |-> s, ok |-> TRUE]
FastClass(s, c) ==
  CASE c = "Array" -> "array"
    [] c \in {"Number", "String", "Boolean"} -> "unbox"
    [] c = "Pointer" -> IF Ext(s) THEN "unbox" ELSE "undef"
    [] c = "Function" -> IF Ext(s) THEN "func" ELSE "undef"
    [] c = "Buffer" -> IF Ext(s) THEN "bufobj" ELSE "abort"
    [] OTHER -> "object"

NeedsSlow(x) == x.g # "none"             \* an accessor
OutOfOrder(k) == Idx(k)                  \* enumeration would not be in entry order

RECURSIVE Fast(_, _), FastEntries(_, _, _, _), FastElems(_, _, _)
FastEntries(s, id, i, emitted) ==
  LET x == s.heap[id].ents[i]
      d == Len(s.visiting)
      r == Fast(Emit(s, Indent(s, d) \o Key(s, x.k) \o Colon(s)), x.v)
  IN  IF s.err # "" THEN s
      ELSE IF i > Len(s.heap[id].ents) THEN Close(s, emitted, d - 1, "}")
      ELSE IF OutOfOrder(x.k) THEN Err(s, ABORT)
      ELSE IF ~x.e THEN FastEntries(s, id, i + 1, emitted)
      ELSE IF NeedsSlow(x) THEN Err(s, ABORT)
      ELSE IF x.k = SYM THEN FastEntries(s, id, i + 1, emitted)
      ELSE IF ~r.ok THEN FastEntries([r.s EXCEPT !.out = s.out], id, i + 1, emitted)
      ELSE FastEntries(Emit(r.s, Tok(",")), id, i + 1, TRUE)
FastElems(s, id, i) ==
  LET q == s.heap[id].arr
      d == Len(s.visiting)
      s1 == Emit(s, Indent(s, d))
      r == Fast(s1, q[i])
      hole == IF s.heap[id].inh THEN Err(s, ABORT) ELSE Emit(s1, Undefined(s))
  IN  IF s.err # "" THEN s
      ELSE IF i > Len(q) THEN Close(s, q # <<>>, d - 1, "]")
      ELSE IF q[i] = <<"hole">> THEN FastElems(Emit(hole, Tok(",")), id, i + 1)
      ELSE FastElems(Emit(IF r.ok THEN r.s ELSE Emit(r.s, Word("null")), Tok(",")), id, i + 1)
Fast(s, v) ==
  LET o == s.heap[v[2]]
      c == FastClass(s, o.class)
      s1 == [s EXCEPT !.visiting = Append(@, v[2])]
      Left(r) == [r EXCEPT !.s.visiting = Front(@)]
  IN  CASE s.err # "" -> Ok(s)
        [] s.err = "" /\ v[1] = "undef" -> IF Ext(s) THEN Ok(Emit(s, Undefined(s))) ELSE Und(s)
        [] s.err = "" /\ v[1] = "null" -> Ok(Emit(s, Word("null")))
        [] s.err = "" /\ v[1] = "bool" -> Ok(Emit(s, Word("true")))
        [] s.err = "" /\ v[1] = "str" -> IF v[2] = SYM THEN Und(s) ELSE Ok(Emit(s, Quote(s, v[2])))
        [] s.err = "" /\ v[1] = "ptr" -> IF Ext(s) THEN Ok(Emit(s, Pointer(s, v[2]))) ELSE Und(s)
        [] s.err = "" /\ v[1] = "lf" -> Ok(Err(s, ABORT))
        [] s.err = "" /\ v[1] = "buf" ->     \* duk__json_enc_buffer_json_fastpath
             IF Ext(s) THEN Ok(Emit(s, BufferData(s, v[2])))
             ELSE LET d == Len(s.visiting)
                      item(i) == Indent(s, d + 1) \o <<<<"str", <<<<"raw", IndexKey(i)[1]>>>>>>>> \o Colon(s)
                                 \o <<<<"num", v[2][i]>>, <<",">>>>
                  IN  Ok(Close(Emit(s, Tok("{") \o FlattenSeq([i \in DOMAIN v[2] |-> item(i)])), v[2] # <<>>, d, "}"))
        [] s.err = "" /\ v[1] = "obj" ->
             (CASE o.class = "BigInt" -> Ok(Err(s, "type"))
               [] o.class # "BigInt" /\ Len(s.visiting) >= LoopArray -> Ok(Err(s, ABORT))
               [] o.class # "BigInt" /\ Len(s.visiting) < LoopArray /\ v[2] \in Range(s.visiting) -> Ok(Err(s, "cyclic"))
               [] OTHER ->
                  IF o.tj # "none" THEN Ok(Err(s, ABORT))
                  ELSE CASE c = "object" -> IF o.apart THEN Ok(Err(s, ABORT))
                                            ELSE Left(Ok(FastEntries(Emit(s1, Tok("{")), v[2], 1, FALSE)))
                         [] c = "array" -> IF ~o.apart THEN Ok(Err(s, ABORT))
                                           ELSE Left(Ok(FastElems(Emit(s1, Tok("[")), v[2], 1)))
                         [] c = "func" -> Left(Ok(Emit(s1, Function(s))))
                         [] c = "bufobj" -> Left(Ok(Emit(s1, BufferObject(s, o))))
                         [] c = "undef" -> Und(s)
                         [] OTHER -> Ok(Err(s, ABORT)))
        [] OTHER -> Ok(Emit(s, Double(s, v)))

-----------------------------------------------------------------------------
(* The slow path.  User code (a getter, toJSON, a replacer) may clear any   *)
(* object before it returns: its effect is the identity of that object, 0   *)
(* for none.                                                                *)

UserCode(s, id) == IF id = 0 THEN s ELSE [s EXCEPT !.heap[id].ents = <<>>, !.heap[id].arr = <<>>]

\* duk_hobject_get_enumerated_keys: own enumerable string keys, indices first.
OwnKeys(o) ==
  LET ks == [i \in DOMAIN SelectSeq(o.ents, LAMBDA x : x.e /\ x.k # SYM) |->
               SelectSeq(o.ents, LAMBDA x : x.e /\ x.k # SYM)[i].k]
      inds == SelectSeq(ks, Idx)
  IN  (IF Len(inds) = 2 THEN <<<<10>>, <<11>>>> ELSE inds) \o SelectSeq(ks, LAMBDA k : ~Idx(k))

\* A property of a holder, which may be gone: [s, v].
GetEnt(s, id, k) ==
  LET at == {i \in DOMAIN s.heap[id].ents : s.heap[id].ents[i].k = k}
      x == s.heap[id].ents[Min(at)]
  IN  IF at = {} THEN [s |-> s, v |-> UNDEF]
      ELSE [s |-> IF x.g = "get" THEN UserCode(s, x.hits) ELSE s, v |-> x.v]
GetElem(s, id, i) ==
  [s |-> s, v |-> IF i <= Len(s.heap[id].arr) /\ s.heap[id].arr[i] # <<"hole">> THEN s.heap[id].arr[i]
                  ELSE IF s.heap[id].inh THEN <<"num", 5>> ELSE UNDEF]

\* duk__json_enc_objarr_entry and duk__json_enc_objarr_exit
Visited(s, id) == id \in Range(SubSeq(s.visiting, 1, Min({Len(s.visiting), LoopArray}))) \/ id \in s.loop
Enter(s, id) ==
  LET s1 == IF Len(s.visiting) < LoopArray THEN s ELSE [s EXCEPT !.loop = @ \union {id}]
  IN  IF Visited(s, id) THEN Err(s, "cyclic")
      ELSE IF Len(s.visiting) >= EncLimit THEN Err(s1, "range")
      ELSE [s1 EXCEPT !.visiting = Append(@, id)]
KeepLoop(s) == [s EXCEPT !.visiting = Front(@)]        \* mutant of Leave
Leave(s) ==
  LET s1 == [s EXCEPT !.visiting = Front(@)]
  IN  IF Len(s1.visiting) < LoopArray THEN s1 ELSE [s1 EXCEPT !.loop = @ \ {Last(s.visiting)}]

ToJson(s, v) ==        \* the toJSON call: [s, v]
  IF v[1] = "obj" /\ s.heap[v[2]].tj = "call"
  THEN [s |-> UserCode(s, s.heap[v[2]].tjhits), v |-> s.heap[v[2]].tjret] ELSE [s |-> s, v |-> v]
Replacer(s, v) ==
  IF \E p \in s.rep : p[1] = v THEN (CHOOSE p \in s.rep : p[1] = v)[2] ELSE v

RECURSIVE Slow(_, _), SlowEntries(_, _, _, _), SlowElems(_, _, _, _), SlowObject(_, _), SlowArray(_, _)
SlowEntries(s, id, ks, emitted) ==
  LET d == Len(s.visiting)
      s1 == Emit(s, Indent(s, d) \o Key(s, Head(ks)) \o Colon(s))
      g == GetEnt(s1, id, Head(ks))
      r == Slow(g.s, g.v)
  IN  IF s.err # "" THEN s
      ELSE IF ks = <<>> THEN Leave(Close(s, emitted, d - 1, "}"))
      ELSE IF ~r.ok THEN SlowEntries([r.s EXCEPT !.out = s.out], id, Tail(ks), emitted)
      ELSE SlowEntries(Emit(r.s, Tok(",")), id, Tail(ks), TRUE)
SlowObject(s, id) ==
  LET s1 == Enter(s, id)
  IN  SlowEntries(Emit(s1, Tok("{")), id, IF s.list # <<>> THEN s.list ELSE OwnKeys(s.heap[id]), FALSE)
SlowElems(s, id, i, n) ==
  LET d == Len(s.visiting)
      g == GetElem(Emit(s, Indent(s, d)), id, i)
      r == Slow(g.s, g.v)
  IN  IF s.err # "" THEN s
      ELSE IF i > n THEN Leave(Close(s, n > 0, d - 1, "]"))
      ELSE SlowElems(Emit(IF r.ok THEN r.s ELSE Emit(r.s, Word("null")), Tok(",")), id, i + 1, n)
SlowArray(s, id) ==
  LET s1 == Enter(s, id)
  IN  SlowElems(Emit(s1, Tok("[")), id, 1, Len(s.heap[id].arr))

\* duk__json_enc_value
Slow(s0, v0) ==
  LET t == ToJson(s0, v0)
      s == t.s
      v1 == Replacer(s, t.v)
      cls == IF v1[1] = "obj" THEN s.heap[v1[2]].class ELSE ""
      v == IF cls \in {"Number", "String", "Boolean", "Pointer"} THEN s.heap[v1[2]].inner ELSE v1
      bytes == [class |-> "Object", apart |-> FALSE, arr |-> <<>>, inh |-> FALSE, tj |-> "none",
                ents |-> [i \in DOMAIN v[2] |-> [k |-> IndexKey(i), v |-> <<"num", v[2][i]>>, e |-> TRUE, g |-> "none"]]]
  IN  CASE s.err # "" -> Ok(s)
        [] s.err = "" /\ cls = "Buffer" /\ Ext(s) -> Ok(Emit(s, BufferObject(s, s.heap[v[2]])))
        [] s.err = "" /\ cls = "Function" -> IF Ext(s) THEN Ok(Emit(s, Function(s))) ELSE Und(s)
        [] s.err = "" /\ cls = "BigInt" -> Ok(Err(s, "type"))
        [] s.err = "" /\ v[1] \in {"undef", "ptr", "lf"} /\ ~Ext(s) -> Und(s)
        [] s.err = "" /\ v[1] = "undef" /\ Ext(s) -> Ok(Emit(s, Undefined(s)))
        [] s.err = "" /\ v[1] = "ptr" /\ Ext(s) -> Ok(Emit(s, Pointer(s, v[2])))
        [] s.err = "" /\ v[1] = "lf" /\ Ext(s) -> Ok(Emit(s, Function(s)))
        [] s.err = "" /\ v[1] = "null" -> Ok(Emit(s, Word("null")))
        [] s.err = "" /\ v[1] = "bool" -> Ok(Emit(s, Word("true")))
        [] s.err = "" /\ v[1] = "str" -> IF v[2] = SYM THEN Und(s) ELSE Ok(Emit(s, Quote(s, v[2])))
        [] s.err = "" /\ v[1] = "buf" ->      \* an object is made of it
             IF Ext(s) THEN Ok(Emit(s, BufferData(s, v[2])))
             ELSE LET r == SlowObject([s EXCEPT !.heap = Append(@, bytes)], Len(s.heap) + 1)
                  IN  Ok([r EXCEPT !.heap = Front(@)])
        [] s.err = "" /\ v[1] = "obj" /\ cls = "Array" -> Ok(SlowArray(s, v[2]))
        [] s.err = "" /\ v[1] = "obj" /\ cls \notin {"Array", "BigInt", "Function"} /\ ~(cls = "Buffer" /\ Ext(s)) ->
             Ok(SlowObject(s, v[2]))
        [] s.err = "" /\ v[1] \in {"num", "nzero", "nan", "inf", "ninf"} -> Ok(Emit(s, Double(s, v)))

-----------------------------------------------------------------------------
(* duk__json_dec_value: [p, v, e], the position after the value, a tree     *)
(* (<<"obj", pairs>>, <<"arr", trees>> or a leaf) and whether it failed.    *)

D(p, v) == [p |-> p, v |-> v, e |-> ""]
Bad(p, e) == [p |-> p, v |-> UNDEF, e |-> e]
At(q, p) == IF p <= Len(q) THEN q[p] ELSE <<"end">>
DefProp(ps, k, v) ==
  IF \E i \in DOMAIN ps : ps[i][1] = k THEN [i \in DOMAIN ps |-> IF ps[i][1] = k THEN <<k, v>> ELSE ps[i]]
  ELSE Append(ps, <<k, v>>)
CommaHere(t, n) == t[1] = "," /\ n > 0
RECURSIVE DecValue(_, _, _, _), DecObject(_, _, _, _, _), DecArray(_, _, _, _, _)
DecObject(q, p, ext, d, ps) ==
  LET t == At(q, p)
      comma == CommaHere(t, Len(ps))
      kp == IF comma THEN p + 1 ELSE p
      k == At(q, kp)
      name == IF k[1] = "id" THEN k[2] ELSE DecString(k[2])
      r == DecValue(q, kp + 2, ext, d)
  IN  IF t[1] = "}" THEN D(p + 1, <<"obj", ps>>)
      ELSE IF ps # <<>> /\ ~comma THEN Bad(p, "syntax")
      ELSE IF ~(k[1] = "str" \/ (k[1] = "id" /\ ext = "jx")) THEN Bad(p, "syntax")
      ELSE IF (k[1] = "str" /\ ~StringOk(k[2], ext)) \/ At(q, kp + 1) # <<":">> THEN Bad(p, "syntax")
      ELSE IF r.e # "" THEN r
      ELSE DecObject(q, r.p, ext, d, DefProp(ps, name, r.v))
DecArray(q, p, ext, d, vs) ==
  LET t == At(q, p)
      comma == CommaHere(t, Len(vs))
      r == DecValue(q, IF comma THEN p + 1 ELSE p, ext, d)
  IN  IF t[1] = "]" THEN D(p + 1, <<"arr", vs>>)
      ELSE IF vs # <<>> /\ ~comma THEN Bad(p, "syntax")
      ELSE IF r.e # "" THEN r ELSE DecArray(q, r.p, ext, d, Append(vs, r.v))
DecValue(q, p, ext, d) ==
  LET t == At(q, p)
      jx == ext = "jx"
  IN  CASE t[1] = "str" -> IF StringOk(t[2], ext) THEN D(p + 1, <<"str", DecString(t[2])>>) ELSE Bad(p, "syntax")
        [] t[1] \in {"num", "nzero"} -> D(p + 1, t)
        [] t[1] = "word" /\ t[2] \in {"null", "true"} -> D(p + 1, IF t[2] = "null" THEN <<"null">> ELSE <<"bool">>)
        [] t[1] = "word" /\ t[2] = "undefined" /\ jx -> D(p + 1, UNDEF)
        [] t[1] = "word" /\ t[2] \in {"nan", "inf", "ninf"} /\ jx -> D(p + 1, <<t[2]>>)
        [] t[1] = "hex" /\ jx -> D(p + 1, <<"buf", t[2]>>)
        [] t[1] = "ptr" /\ jx -> D(p + 1, t)
        [] t[1] \in {"{", "["} ->
             IF d >= DecLimit THEN Bad(p, "range")
             ELSE IF t[1] = "{" THEN DecObject(q, p + 1, ext, d + 1, <<>>) ELSE DecArray(q, p + 1, ext, d + 1, <<>>)
        [] OTHER -> Bad(p, "syntax")

\* White space is eaten between tokens.
Dense(q) == SelectSeq(q, LAMBDA t : t[1] \notin {"nl", "sp"})
Parse(text, ext) ==
  LET q == Dense(text) r == DecValue(q, 1, ext, 0)
  IN  IF r.e = "" /\ r.p # Len(q) + 1 THEN Bad(r.p, "syntax") ELSE r

-----------------------------------------------------------------------------
(* duk__json_dec_reviver_walk.  The reviver sees each value after what is   *)
(* inside it; undefined deletes the property.  rev is a set of pairs.       *)

Revive(rev, v) == IF \E x \in rev : x[1] = v THEN (CHOOSE x \in rev : x[1] = v)[2] ELSE v
RECURSIVE Walk(_, _), WalkElems(_, _, _, _), WalkProps(_, _, _)
WalkElems(rev, vs, i, n) ==
  IF i > n THEN vs
  ELSE LET r == Walk(rev, IF vs[i] = <<"hole">> THEN UNDEF ELSE vs[i])
       IN  WalkElems(rev, [vs EXCEPT ![i] = IF r = UNDEF THEN <<"hole">> ELSE r], i + 1, n)
WalkProps(rev, ps, ks) ==
  IF ks = <<>> THEN ps
  ELSE LET i == CHOOSE k \in DOMAIN ps : ps[k][1] = Head(ks)
           r == Walk(rev, ps[i][2])
       IN  WalkProps(rev, IF r = UNDEF THEN RemoveAt(ps, i) ELSE [ps EXCEPT ![i] = <<@[1], r>>], Tail(ks))
Walk(rev, v) ==
  CASE v[1] = "arr" -> Revive(rev, <<"arr", WalkElems(rev, v[2], 1, Len(v[2]))>>)
    [] v[1] = "obj" -> Revive(rev, <<"obj", WalkProps(rev, v[2], [i \in DOMAIN v[2] |-> v[2][i][1]])>>)
    [] OTHER -> Revive(rev, v)
\* duk__json_dec_objarr_entry is also called for what has nothing inside
RECURSIVE TooDeep(_, _)
TooDeep(v, d) == \/ d >= DecLimit
                 \/ v[1] = "arr" /\ \E i \in DOMAIN v[2] : TooDeep(v[2][i], d + 1)
                 \/ v[1] = "obj" /\ \E i \in DOMAIN v[2] : TooDeep(v[2][i][2], d + 1)

-----------------------------------------------------------------------------
(* duk_bi_json_stringify_helper and duk_bi_json_parse_helper.               *)

\* A replacer is either a list of keys or a function: the fast path is for neither.
Encoder(c) == c @@ [out |-> <<>>, visiting |-> <<>>, loop |-> {}, err |-> ""]
NoRes == [fast |-> <<>>, text |-> <<>>, err |-> "", value |-> UNDEF]

Init == /\ res = NoRes
        /\ \/ j \in Cases /\ phase = "stringify"
           \/ j \in Texts /\ phase = "parse"

Result(r) == IF ~r.ok THEN <<<<"undefined">>>> ELSE r.s.out
TryFast ==
  /\ phase = "stringify" /\ j.rep = {} /\ j.list = <<>>
  /\ LET r == Fast(Encoder(j), j.root)
     IN  IF r.s.err = "" /\ r.ok
         THEN /\ res' = [res EXCEPT !.fast = r.s.out, !.text = r.s.out]
              /\ phase' = "done"
         ELSE phase' = "slow" /\ UNCHANGED res
  /\ UNCHANGED j
SlowPath ==
  /\ phase = "slow" \/ (phase = "stringify" /\ (j.rep # {} \/ j.list # <<>>))
  /\ LET r == Slow(Encoder(j), j.root)
     IN  res' = [res EXCEPT !.text = Result(r), !.err = r.s.err]
  /\ phase' = "done"
  /\ UNCHANGED j
ReadBack ==
  /\ phase = "done" /\ res.err = "" /\ res.text # <<<<"undefined">>>>
  /\ LET r == Parse(res.text, j.ext) IN res' = [res EXCEPT !.value = r.v, !.err = r.e]
  /\ phase' = "read"
  /\ UNCHANGED j
ParseText ==
  /\ phase = "parse"
  /\ LET r == Parse(j.text, j.ext)
     IN  /\ res' = [res EXCEPT !.err = r.e, !.value = r.v]
         /\ phase' = IF r.e = "" /\ j.rev # {} THEN "revive" ELSE "parsed"
  /\ UNCHANGED j
ReviveTree ==
  /\ phase = "revive"
  /\ res' = IF TooDeep(res.value, 0) THEN [res EXCEPT !.err = "range"] ELSE [res EXCEPT !.value = Walk(j.rev, @)]
  /\ phase' = "parsed"
  /\ UNCHANGED j

Next == TryFast \/ SlowPath \/ ReadBack \/ ParseText \/ ReviveTree
Spec == Init /\ [][Next]_vars

-----------------------------------------------------------------------------
(* Properties.                                                              *)

\* The phases, and the errors that end one.
TypeOK == /\ phase \in {"stringify", "slow", "done", "read", "parse", "revive", "parsed"}
          /\ res.err \in {"", "syntax", "range", "type", "cyclic", ABORT}
          /\ DOMAIN res = {"fast", "text", "err", "value"}

\* The fast path is an optimisation: where it does not abort, the slow path
\* would have written the same text.
FastAgrees ==
  phase = "done" /\ res.fast # <<>> => LET r == Slow(Encoder(j), j.root) IN r.s.err = "" /\ res.fast = r.s.out

\* What the text of a value means: the value as a tree, without what JSON
\* has no form for.  CYCLE when an object contains itself.
CYCLE == <<"cycle">>
RECURSIVE Means(_, _, _)
Means(h, v0, above) ==
  LET v1 == IF v0[1] = "obj" /\ h[v0[2]].tj = "call" THEN h[v0[2]].tjret ELSE v0
      v2 == IF \E x \in j.rep : x[1] = v1 THEN (CHOOSE x \in j.rep : x[1] = v1)[2] ELSE v1
      c == IF v2[1] = "obj" THEN h[v2[2]].class ELSE ""
      v == IF c \in {"Number", "String", "Boolean", "Pointer"} THEN h[v2[2]].inner ELSE v2
      jx == j.ext = "jx"
      o == h[v[2]]
      In(k) == LET q == SelectSeq(o.ents, LAMBDA x : x.k = k)
               IN  Means(h, IF q = <<>> THEN UNDEF ELSE q[1].v, above \union {v[2]})
      names == IF j.list # <<>> THEN j.list ELSE OwnKeys(o)
      fields == [i \in DOMAIN names |-> <<names[i], In(names[i])>>]
      elems == [i \in DOMAIN o.arr |->
                  LET e == Means(h, IF o.arr[i] # <<"hole">> THEN o.arr[i] ELSE IF o.inh THEN <<"num", 5>> ELSE UNDEF,
                                 above \union {v[2]})
                  IN  IF e = <<"none">> THEN <<"null">> ELSE e]
      fn == <<"obj", <<<<<<21>>, <<"bool">>>>>>>>         \* {_func:true}
  IN  CASE v[1] \in {"undef", "ptr"} -> IF jx THEN v ELSE <<"none">>
        [] v[1] \in {"nan", "inf", "ninf"} -> IF jx THEN v ELSE <<"null">>
        [] v[1] = "nzero" -> IF jx THEN v ELSE <<"num", 0>>
        [] v[1] = "str" -> IF v[2] = SYM THEN <<"none">> ELSE v
        [] v[1] = "buf" -> IF jx THEN v ELSE IF j.list # <<>> THEN <<"obj", <<>>>>
                           ELSE <<"obj", [i \in DOMAIN v[2] |-> <<IndexKey(i), <<"num", v[2][i]>>>>]>>
        [] v[1] \in {"num", "null", "bool"} -> v
        [] v[1] = "lf" \/ c = "Function" -> IF jx THEN fn ELSE <<"none">>
        [] v[1] = "obj" /\ c = "Buffer" /\ jx -> IF o.covered THEN <<"buf", o.inner>> ELSE <<"null">>
        [] v[1] = "obj" /\ c # "Function" /\ ~(c = "Buffer" /\ jx) ->
             IF v[2] \in above THEN CYCLE
             ELSE IF c = "Array" THEN (IF CYCLE \in Range(elems) THEN CYCLE ELSE <<"arr", elems>>)
             ELSE IF \E i \in DOMAIN fields : fields[i][2] = CYCLE THEN CYCLE
             ELSE <<"obj", SelectSeq(fields, LAMBDA f : f[2] # <<"none">>)>>
Effects == \E i \in DOMAIN j.heap : \/ j.heap[i].tj = "call" /\ j.heap[i].tjhits # 0
                                    \/ \E k \in DOMAIN j.heap[i].ents : j.heap[i].ents[k].hits # 0
Wide == \E t \in Range(res.text) : t[1] = "str" /\ \E i \in DOMAIN t[2] : t[2][i][1] = "U+"
Big == \E i \in DOMAIN j.heap : j.heap[i].class = "BigInt"

\* What was written reads back as what the value means: in plain JSON
\* without functions, undefined and symbols, in JX with everything.  JC
\* writes objects for what JSON lacks, and a character above U+FFFF has no
\* escape in plain JSON.
RoundTrips ==
  phase = "read" /\ ~Effects /\ j.ext # "jc" /\ ~Wide =>
    /\ res.err = ""
    /\ res.value = Means(j.heap, j.root, {})

\* Whatever user code does to the objects while they are written, the text
\* is well formed in the format it was written for.
WellFormed == phase = "read" => res.err = ""

\* The error for cyclic input is raised for cyclic input only; an object
\* that merely occurs twice is written twice, at any depth.
CyclesExact ==
  phase = "done" /\ ~Effects /\ ~Big =>
    /\ res.err = "cyclic" => Means(j.heap, j.root, {}) = CYCLE
    /\ Means(j.heap, j.root, {}) = CYCLE => res.err \in {"cyclic", "range"}

\* The texts of at most n tokens that are JSON, from its grammar.
S0 == <<"str", <<<<"raw", 1>>>>>>
N0 == <<"num", 1>>
RECURSIVE Vals(_), Elems(_), Membs(_)
Vals(n) == IF n = 1 THEN {<<S0>>, <<N0>>}
           ELSE IF n = 2 THEN {<<<<"[">>, <<"]">>>>, <<<<"{">>, <<"}">>>>}
           ELSE IF n < 1 THEN {}
           ELSE {Tok("[") \o x \o Tok("]") : x \in Elems(n - 2)} \union {Tok("{") \o x \o Tok("}") : x \in Membs(n - 2)}
Elems(n) == IF n < 1 THEN {}
            ELSE Vals(n) \union UNION {{x \o Tok(",") \o y : x \in Vals(k), y \in Elems(n - 1 - k)} : k \in 1..n - 2}
Membs(n) == IF n < 3 THEN {}
            ELSE {<<S0, <<":">>>> \o x : x \in Vals(n - 2)}
                 \union UNION {{<<S0, <<":">>>> \o x \o Tok(",") \o y : x \in Vals(k), y \in Membs(n - 3 - k)} : k \in 1..n - 6}

\* JSON.parse accepts exactly the texts of the grammar.
AcceptsJson == phase = "parsed" /\ j.rev = {} /\ j.ext = "json" => (res.err = "" <=> j.text \in Vals(Len(j.text)))

\* The reviver's result is that of mapping the tree bottom up, each value
\* seen once and after its parts, and what becomes undefined gone.  Only a
\* value inside as many containers as may be nested is too deep for it.
RECURSIVE Mapped(_, _)
Mapped(rev, v) ==
  LET new(x) == IF \E p \in rev : p[1] = x THEN (CHOOSE p \in rev : p[1] = x)[2] ELSE x
  IN  CASE v[1] = "arr" -> new(<<"arr", [i \in DOMAIN v[2] |-> IF Mapped(rev, v[2][i]) = UNDEF THEN <<"hole">>
                                                              ELSE Mapped(rev, v[2][i])]>>)
        [] v[1] = "obj" -> new(<<"obj", SelectSeq([i \in DOMAIN v[2] |-> <<v[2][i][1], Mapped(rev, v[2][i][2])>>],
                                                  LAMBDA f : f[2] # UNDEF)>>)
        [] OTHER -> new(v)
RECURSIVE Nesting(_)
Nesting(v) == CASE v[1] = "arr" -> 1 + Max({0} \union {Nesting(v[2][i]) : i \in DOMAIN v[2]})
                [] v[1] = "obj" -> 1 + Max({0} \union {Nesting(v[2][i][2]) : i \in DOMAIN v[2]})
                [] OTHER -> 0
RevivesBottomUp ==
  phase = "parsed" /\ j.rev # {} /\ Parse(j.text, j.ext).e = "" =>
    IF res.err = "" THEN res.value = Mapped(j.rev, Parse(j.text, j.ext).v)
    ELSE res.err = "range" /\ Nesting(Parse(j.text, j.ext).v) = DecLimit

=============================================================================

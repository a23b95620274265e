------------------------------ MODULE DukCbor -------------------------------
(***************************************************************************)
(* CBOR (duk_bi_cbor.c): the encoder, which grows its output buffer ahead  *)
(* of every write and patches the size of a map once it is known, and the  *)
(* decoder.  Denotes says which values RFC 7049 gives a byte string.        *)
(*                                                                         *)
(* A data byte has BASE values, so that an integer of four bytes ends at   *)
(* BASE^4 - 1; initial bytes keep their values.  A number that is not an   *)
(* integer of four bytes is <<"fp", s, e, m>>, (-1)^s (1 + m / 2^MANT) 2^e *)
(* A half float takes a byte with sign and exponent and a byte of          *)
(* mantissa.  In a string 31 is not UTF-8 and 30 starts a symbol.  <<"cut",*)
(* v>> and <<"del", v>> are values whose getter drops the elements or keys *)
(* after them.                                                             *)
(***************************************************************************)
EXTENDS Integers, Sequences, SequencesExt, FiniteSets, FiniteSetsExt

CONSTANTS BASE,
          MapSmall,             \* 0x17, largest number of pairs written in the initial byte
          InitCap,              \* 64, first size of the output buffer
          EncLimit, DecLimit,   \* DUK_USE_CBOR_ENC_RECLIMIT, DUK_USE_CBOR_DEC_RECLIMIT
          Trees,                \* values to encode
          Inputs                \* byte strings to decode

VARIABLES job, out, res

vars == <<job, out, res>>

UNDEF == <<"undef">>
U32 == BASE * BASE * BASE * BASE
MANT == 20
HBIAS == 7            \* bias of half floats, whose mantissa has 5 bits
FBIAS == 15           \* of floats, mantissa of 10 bits
DBIAS == 100
INF == 2 * HBIAS + 1  \* largest exponent field of a half float
Signed(s, x) == IF s = 1 THEN -x ELSE x
Log2(x) == CHOOSE k \in 0..30 : 2^k <= x /\ x < 2 * 2^k

\* The number (-1)^s x 2^(-k), as an integer where it is one of four bytes
Number(s, x, k) ==
  IF x = 0 THEN IF s = 1 THEN <<"nzero">> ELSE <<"int", 0>>
  ELSE LET n == x \div 2^k   t == Log2(x) IN
       IF x % 2^k = 0 /\ Signed(s, n) \in (-U32)..(U32 - 1) THEN <<"int", Signed(s, n)>>
       ELSE <<"fp", s, t - k, IF t > MANT THEN (x - 2^t) \div 2^(t - MANT) ELSE (x - 2^t) * 2^(MANT - t)>>
Canon(v) == IF v[1] = "fp" /\ v[3] \in 0..MANT THEN Number(v[2], 2^MANT + v[4], MANT - v[3]) ELSE v

Digits(u, n) == [i \in 1..n |-> IF n - i > 5 THEN 0 ELSE (u \div BASE^(n - i)) % BASE]   \* u < BASE^6
Value(q) == LET t[i \in 0..Len(q)] == IF i = 0 THEN 0 ELSE BASE * t[i - 1] + q[i] IN t[Len(q)]
IsUtf8(q) == 30 \notin Range(q) /\ 31 \notin Range(q)
IsSymbol(q) == q # <<>> /\ q[1] = 30

-----------------------------------------------------------------------------
(* Encoding.  s is the encoding context; over tells that a write went past  *)
(* the end of the buffer.                                                   *)

Put(s, q) == [s EXCEPT !.out = @ \o q, !.over = @ \/ Len(s.out) + Len(q) > s.cap]
\* duk__cbor_encode_ensure
Ensure(s, n) == IF s.cap - Len(s.out) >= n THEN s ELSE [s EXCEPT !.cap = Max({2 * @, @ + n})]

\* duk__cbor_encode_uint32
Uint32(u, base) == CASE u <= 23 -> <<base + u>>
                     [] u > 23 /\ u < BASE -> <<base + 24, u>>
                     [] u >= BASE /\ u < BASE * BASE -> <<base + 25>> \o Digits(u, 2)
                     [] OTHER -> <<base + 26>> \o Digits(u, 4)

Half(s, expt, m) == <<249, s * (BASE \div 2) + expt, m>>
\* duk__cbor_encode_double_fp: half floats and floats are used for normal numbers only
UseHalf(v) == v[3] \in (1 - HBIAS)..HBIAS /\ v[4] % 2^(MANT - 5) = 0
UseFloat(v) == v[3] \in (1 - FBIAS)..FBIAS /\ v[4] % 2^(MANT - 10) = 0
DoubleFp(v) ==
  CASE v[1] = "nan" -> Half(0, INF, BASE \div 2)
    [] v[1] = "inf" -> Half(v[2], INF, 0)
    [] v[1] = "fp" -> IF UseHalf(v) THEN Half(v[2], v[3] + HBIAS, v[4] \div 2^(MANT - 5))
                      ELSE IF UseFloat(v) THEN <<250, v[2], v[3] + FBIAS>> \o Digits(v[4] \div 2^(MANT - 10), 2)
                      ELSE <<251, v[2]>> \o Digits(v[3] + DBIAS, 2) \o Digits(v[4], 4) \o <<0>>
\* duk__cbor_encode_double
Double(v) == CASE v[1] = "int" -> IF v[2] < 0 THEN Uint32(-1 - v[2], 32) ELSE Uint32(v[2], 0)
               [] v[1] = "nzero" -> Half(1, 0, 0)
               [] OTHER -> DoubleFp(v)

\* duk__cbor_encode_string_top, duk__cbor_encode_buffer
Bytes(s, q, base) == Put(Ensure(Put(s, Uint32(Len(q), base)), Len(q)), q)
String(s, q) == IF IsSymbol(q) THEN Put(s, <<160>>) ELSE Bytes(s, q, IF IsUtf8(q) THEN 96 ELSE 64)

RECURSIVE EncValue(_, _), Elements(_, _, _, _), Pairs(_, _, _)
\* An array's length is read once; what is missing later reads as undefined
Elements(s, q, i, n) ==
  IF i > n \/ s.err THEN s
  ELSE LET v == IF i > Len(q) THEN UNDEF ELSE q[i]
       IN  Elements(EncValue(s, v), IF v[1] = "cut" THEN SubSeq(q, 1, i) ELSE q, i + 1, n)
\* duk_next passes over keys that are gone
Pairs(s, q, i) ==
  IF i > Len(q) \/ s.err THEN [s EXCEPT !.count = i - 1]
  ELSE Pairs(EncValue(EncValue(s, <<"str", q[i][1]>>), q[i][2]),
             IF q[i][2][1] = "del" THEN SubSeq(q, 1, i) ELSE q, i + 1)
\* The initial byte of a map gets the number of pairs, if it has room for it
CountAhead(s, off, q) ==                         \* mutant of CloseMap: counts the keys there were at first
  IF Len(q) <= MapSmall THEN [s EXCEPT !.out[off] = 160 + Len(q)] ELSE Put(Ensure(s, 1), <<255>>)
CloseMap(s, off, q) ==
  IF s.count <= MapSmall THEN [s EXCEPT !.out[off] = 160 + s.count] ELSE Put(Ensure(s, 1), <<255>>)
\* duk__cbor_encode_object
EncObject(s, v) ==
  IF s.depth >= EncLimit THEN [s EXCEPT !.err = TRUE]
  ELSE LET s1 == [s EXCEPT !.depth = @ + 1]
           s2 == CASE v[1] = "arr" -> Elements(Put(s1, Uint32(Len(v[2]), 128)), v[2], 1, Len(v[2]))
                   [] v[1] = "bufobj" -> Bytes(s1, v[2], 64)
                   [] v[1] = "obj" -> CloseMap(Pairs(Put(s1, <<191>>), v[2], 1), Len(s.out) + 1, v[2])
       IN  [s2 EXCEPT !.depth = @ - 1]
Simple == [false |-> 244, true |-> 245, null |-> 246, undef |-> 247]
\* duk__cbor_encode_value
EncValue(s0, v) ==
  LET s == Ensure(s0, 9) IN
  CASE s.err -> s
    [] ~s.err /\ v[1] \in {"cut", "del"} -> EncValue(s, v[2])
    [] ~s.err /\ v[1] \in DOMAIN Simple -> Put(s, <<Simple[v[1]]>>)
    [] ~s.err /\ v[1] \in {"int", "nzero", "nan", "inf", "fp"} -> Put(s, Double(v))
    [] ~s.err /\ v[1] = "str" -> String(s, v[2])
    [] ~s.err /\ v[1] = "buf" -> Bytes(s, v[2], 64)
    [] ~s.err /\ v[1] = "ptr" -> String(s, <<28>> \o v[2] \o <<29>>)    \* "(%p)"
    [] ~s.err /\ v[1] = "lightfunc" -> Put(s, <<160>>)
    [] ~s.err /\ v[1] \in {"arr", "bufobj", "obj"} -> EncObject(s, v)
\* duk__cbor_encode
Encoded(v) == EncValue([out |-> <<>>, cap |-> InitCap, depth |-> 0, count |-> 0, over |-> FALSE, err |-> FALSE], v)

-----------------------------------------------------------------------------
(* Decoding of b.  A result has the offset after the item and its value.    *)

Fail == [ok |-> FALSE, off |-> 0, v |-> UNDEF]
Got(off, v) == [ok |-> TRUE, off |-> off, v |-> v]
Then(r, Continue(_, _)) == IF r.ok THEN Continue(r.off, r.v) ELSE Fail   \* any failure ends the decoding
\* Bytes of additional information: the skips table of duk__cbor_decode_skip_aival_int
Extra(ai) == IF ai <= 23 THEN 0 ELSE 2^(ai - 24)
\* duk__cbor_decode_consume
Consume(b, off, n) == IF Len(b) - off >= n THEN Got(off + n, SubSeq(b, off + 1, off + n)) ELSE Fail
\* duk__cbor_decode_push_aival_int without the sign
Aival(b, off, ai) ==
  IF ai > 27 THEN Fail
  ELSE Then(Consume(b, off, Extra(ai)), LAMBDA o, q : Got(o, IF ai <= 23 THEN ai ELSE Value(q)))
\* duk__cbor_decode_aival_uint32
AivalUint32(b, off, ai) == Then(Aival(b, off, ai), LAMBDA o, n : IF n >= U32 THEN Fail ELSE Got(o, n))
Integer(neg, t) == IF neg THEN Number(1, t + 1, 0) ELSE Number(0, t, 0)

\* duk__cbor_decode_buffer
Chunk(b, off, base) ==
  IF off >= Len(b) \/ 32 * (b[off + 1] \div 32) # base THEN Fail
  ELSE Then(AivalUint32(b, off + 1, b[off + 1] % 32), LAMBDA o, n : Consume(b, o, n))
\* duk__cbor_decode_and_join_strbuf
RECURSIVE Join(_, _, _, _)
Join(b, off, base, sofar) ==
  IF off >= Len(b) THEN Fail
  ELSE IF b[off + 1] = 255 THEN Got(off + 1, sofar)
  ELSE Then(Chunk(b, off, base), LAMBDA o, q : Join(b, o, base, sofar \o q))
StrBuf(b, off, ai, base) == IF ai = 31 THEN Join(b, off, base, <<>>) ELSE Chunk(b, off - 1, base)

\* duk__cbor_decode_half_float: a denormal is a normal number of the smallest
\* exponent, less that power of two
HalfFloat(s, expt, m) ==
  CASE expt = 0 /\ m = 0 -> Number(s, 0, 0)
    [] expt = 0 /\ m # 0 -> Number(s, (2^MANT + m * 2^(MANT - 5)) - 2^MANT, MANT + HBIAS - 1)
    [] expt = INF -> IF m = 0 THEN <<"inf", s>> ELSE <<"nan">>
    [] OTHER -> Canon(<<"fp", s, expt - HBIAS, m * 2^(MANT - 5)>>)
FloatValue(ai, q) ==
  CASE ai = 25 -> HalfFloat(q[1] \div (BASE \div 2), q[1] % (BASE \div 2), q[2])
    [] ai = 26 -> Canon(<<"fp", q[1], q[2] - FBIAS, Value(SubSeq(q, 3, 4)) * 2^(MANT - 10)>>)
    [] ai = 27 -> Canon(<<"fp", q[1], Value(SubSeq(q, 2, 3)) - DBIAS, Value(SubSeq(q, 4, 7))>>)

\* Property names made of keys; each kind of value has strings of its own
RECURSIVE Name(_)
Name(v) == CASE v[1] = "str" -> v[2]
             [] v[1] = "int" -> <<100, v[2]>>
             [] v[1] = "nzero" -> <<100, 0>>
             [] v[1] = "fp" -> <<101, v[2], v[3], v[4]>>
             [] v[1] = "inf" -> <<102, v[2]>>
             [] v[1] = "arr" -> FlattenSeq([i \in DOMAIN v[2] |->
                                   (IF i > 1 THEN <<103>> ELSE <<>>) \o (IF v[2][i][1] \in {"undef", "null"} THEN <<>> ELSE Name(v[2][i]))])
             [] OTHER -> <<104, CHOOSE i \in 1..7 : <<"nan", "undef", "null", "true", "false", "buf", "obj">>[i] = v[1]>>
PutProp(ps, k, v) == {p \in ps : p[1] # Name(k)} \union {<<Name(k), v>>}

RECURSIVE DecValue(_, _, _), DecArray(_, _, _, _, _), DecMap(_, _, _, _, _)
\* n = U32 - 1 stands for an indefinite length
Break(b, off) == b[off + 1] = 255
DecArray(b, off, depth, n, q) ==
  IF n = U32 - 1 /\ off >= Len(b) THEN Fail
  ELSE IF n = U32 - 1 /\ Break(b, off) THEN Got(off + 1, <<"arr", q>>)
  ELSE IF Len(q) = n THEN Got(off, <<"arr", q>>)
  ELSE Then(DecValue(b, off, depth), LAMBDA o, v : DecArray(b, o, depth, n, Append(q, v)))
DecMap(b, off, depth, n, ps) ==
  IF n = U32 - 1 /\ off >= Len(b) THEN Fail
  ELSE IF n = U32 - 1 /\ Break(b, off) THEN Got(off + 1, <<"obj", ps>>)
  ELSE IF n = 0 THEN Got(off, <<"obj", ps>>)
  ELSE Then(DecValue(b, off, depth), LAMBDA o, k : Then(DecValue(b, o, depth), LAMBDA p, v :
         DecMap(b, p, depth, IF n = U32 - 1 THEN n ELSE n - 1, PutProp(ps, k, v))))
\* duk__cbor_decode_array and duk__cbor_decode_map
DecObjArr(b, off, depth, mt, ai) ==
  IF depth >= DecLimit THEN Fail
  ELSE Then(IF ai = 31 THEN Got(off, U32 - 1) ELSE AivalUint32(b, off, ai), LAMBDA o, n :
         IF ai # 31 /\ n = U32 - 1 THEN Fail
         ELSE IF mt = 4 THEN DecArray(b, o, depth + 1, n, <<>>) ELSE DecMap(b, o, depth + 1, n, {}))
\* duk__cbor_decode_value
DecValue(b, off0, depth) ==
  IF off0 >= Len(b) THEN Fail
  ELSE LET mt == b[off0 + 1] \div 32   ai == b[off0 + 1] % 32   off == off0 + 1 IN
  CASE mt \in {0, 1} -> Then(Aival(b, off, ai), LAMBDA o, n : Got(o, Integer(mt = 1, n)))
    [] mt = 2 -> Then(StrBuf(b, off, ai, 64), LAMBDA o, q : Got(o, <<"buf", q>>))
    [] mt = 3 -> Then(StrBuf(b, off, ai, 96), LAMBDA o, q : IF IsSymbol(q) THEN Fail ELSE Got(o, <<"str", q>>))
    [] mt \in {4, 5} -> DecObjArr(b, off, depth, mt, ai)
    [] mt = 6 -> IF ai > 27 THEN Fail ELSE Then(Consume(b, off, Extra(ai)), LAMBDA o, q : DecValue(b, o, depth))
    [] mt = 7 -> CASE \E k \in DOMAIN Simple : Simple[k] = 224 + ai -> Got(off, <<CHOOSE k \in DOMAIN Simple : Simple[k] = 224 + ai>>)
                   [] ai \in 25..27 -> Then(Consume(b, off, Extra(ai)), LAMBDA o, q : Got(o, FloatValue(ai, q)))
                   [] OTHER -> Fail
\* duk__cbor_decode
Decoded(b) == Then(DecValue(b, 0, 0), LAMBDA o, v : IF o = Len(b) THEN Got(o, v) ELSE Fail)

-----------------------------------------------------------------------------

Init == /\ job \in {<<"encode", v>> : v \in Trees} \union {<<"decode", b>> : b \in Inputs}
        /\ out = <<>> /\ res = <<>>
Encode == /\ job[1] = "encode" /\ out = <<>>
          /\ out' = <<Encoded(job[2])>> /\ UNCHANGED <<job, res>>
\* What was encoded is decoded again
DecodeBack == /\ job[1] = "encode" /\ out # <<>> /\ ~out[1].err /\ res = <<>>
              /\ res' = <<Decoded(out[1].out)>> /\ UNCHANGED <<job, out>>
Decode == /\ job[1] = "decode" /\ res = <<>>
          /\ res' = <<Decoded(job[2])>> /\ UNCHANGED <<job, out>>
Next == Encode \/ DecodeBack \/ Decode
Spec == Init /\ [][Next]_vars

-----------------------------------------------------------------------------
(* What a value means to a reader of its encoding.  Getters have run.       *)

RECURSIVE Meaning(_), Depth(_)
\* The elements or pairs that getters leave, the first n of them that drop what follows
Kept(q, Of(_), word) == LET n == SelectInSeq(q, LAMBDA x : Of(x)[1] = word) IN IF n = 0 THEN q ELSE SubSeq(q, 1, n)
Meaning(v) ==
  CASE v[1] \in {"cut", "del"} -> Meaning(v[2])
    [] v[1] = "str" -> IF IsSymbol(v[2]) THEN <<"obj", {}>> ELSE IF IsUtf8(v[2]) THEN v ELSE <<"buf", v[2]>>
    [] v[1] = "bufobj" -> <<"buf", v[2]>>
    [] v[1] = "ptr" -> <<"str", <<28>> \o v[2] \o <<29>>>>
    [] v[1] = "lightfunc" -> <<"obj", {}>>
    [] v[1] = "arr" -> LET k == Len(Kept(v[2], LAMBDA x : x, "cut"))
                       IN  <<"arr", [i \in DOMAIN v[2] |-> IF i <= k THEN Meaning(v[2][i]) ELSE UNDEF]>>
    [] v[1] = "obj" -> <<"obj", {<<p[1], Meaning(p[2])>> : p \in Range(Kept(v[2], LAMBDA x : x[2], "del"))}>>
    [] OTHER -> v
Depth(v) == CASE v[1] \in {"cut", "del"} -> Depth(v[2])
              [] v[1] = "arr" -> 1 + Max({0} \union {Depth(x) : x \in Range(Kept(v[2], LAMBDA x : x, "cut"))})
              [] v[1] = "obj" -> 1 + Max({0} \union {Depth(p[2]) : p \in Range(Kept(v[2], LAMBDA x : x[2], "del"))})
              [] v[1] = "bufobj" -> 1
              [] OTHER -> 0

(* RFC 7049: the values, with their nesting, that a byte string denotes.    *)
First(b, i) == SubSeq(b, 1, i)
Rest(b, i) == SubSeq(b, i + 1, Len(b))
\* b as an initial byte of major type mt with its argument, and what follows
Heads(b, mt) == LET ai == b[1] % 32   n == 1 + Extra(ai) IN
  IF b = <<>> \/ b[1] \div 32 # mt \/ ai > 27 \/ Len(b) < n THEN {}
  ELSE {<<IF ai <= 23 THEN ai ELSE Value(SubSeq(b, 2, n)), Rest(b, n)>>}
\* What is between an indefinite length and the break
Inner(b, mt) == IF Len(b) >= 2 /\ b[1] = 32 * mt + 31 /\ Last(b) = 255 THEN {SubSeq(b, 2, Len(b) - 1)} ELSE {}
\* The value of a half float times 2^12 is an integer
HalfValue(c, m) == LET s == c \div 16   e == c % 16 IN
  IF e = 15 THEN IF m = 0 THEN <<"inf", s>> ELSE <<"nan">>
  ELSE Number(s, IF e = 0 THEN 2 * m ELSE (32 + m) * 2^e, 12)
Definite(b, mt) == {h[2] : h \in {x \in Heads(b, mt) : x[1] = Len(x[2])}}
RECURSIVE Chunks(_, _), Lists(_), Denotes(_)
Chunks(b, mt) == IF b = <<>> THEN {<<>>}
  ELSE UNION {{x \o y : x \in Definite(First(b, i), mt), y \in Chunks(Rest(b, i), mt)} : i \in {n \in 1..Len(b) : Definite(First(b, n), mt) # {}}}
Strings(b, mt) == Definite(b, mt) \union UNION {Chunks(x, mt) : x \in Inner(b, mt)}
Lists(b) == IF b = <<>> THEN {<<<<>>, 0>>}
  ELSE UNION {{<<<<x[1]>> \o y[1], Max({x[2], y[2]})>> : x \in Denotes(First(b, i)), y \in Lists(Rest(b, i))} : i \in {n \in 1..Len(b) : Denotes(First(b, n)) # {}}}
\* The members of an array or map: their number given, or any number of groups of size
Members(b, mt, size) == UNION {{x \in Lists(h[2]) : Len(x[1]) = size * h[1]} : h \in Heads(b, mt)}
                 \union UNION {{x \in Lists(w) : Len(x[1]) % size = 0} : w \in Inner(b, mt)}
LastWins(q) == {<<Name(q[2 * i - 1]), q[2 * i]>> : i \in {k \in 1..(Len(q) \div 2) : \A l \in (k + 1)..(Len(q) \div 2) : Name(q[2 * l - 1]) # Name(q[2 * k - 1])}}
Denotes(b) ==
  {<<IF mt = 1 THEN Number(1, h[1] + 1, 0) ELSE Number(0, h[1], 0), 0>> : <<mt, h>> \in UNION {{mt} \X {x \in Heads(b, mt) : x[2] = <<>>} : mt \in {0, 1}}}
  \union {<<<<"buf", x>>, 0>> : x \in Strings(b, 2)}
  \union {<<<<"str", x>>, 0>> : x \in {y \in Strings(b, 3) : ~IsSymbol(y)}}
  \union {<<<<"arr", x[1]>>, x[2] + 1>> : x \in Members(b, 4, 1)}
  \union {<<<<"obj", LastWins(x[1])>>, x[2] + 1>> : x \in Members(b, 5, 2)}
  \union UNION {Denotes(h[2]) : h \in Heads(b, 6)}
  \union {<<<<k>>, 0>> : k \in {x \in DOMAIN Simple : b = <<Simple[x]>>}}
  \union (IF Len(b) = 3 /\ b[1] = 249 THEN {<<HalfValue(b[2], b[3]), 0>>} ELSE {})

(* What was encoded reads back as what the value means, whatever getters    *)
(* did to it while it was written; only nesting beyond the limit fails.     *)
CborRoundTrips == job[1] = "encode" =>
  /\ out # <<>> => (out[1].err <=> Depth(job[2]) > EncLimit)
  /\ res # <<>> => res[1].ok /\ res[1].v = Meaning(job[2])

(* The encoder never writes past the end of its buffer, however strings and *)
(* the break of a map fall at the end of it.                                *)
CborInBounds == out # <<>> => ~out[1].over

(* The decoder accepts exactly the byte strings that are one item, nested   *)
(* within its limit, and gives the value of that item.                      *)
CborAccepts == job[1] = "decode" /\ res # <<>> =>
  LET fit == {x \in Denotes(job[2]) : x[2] <= DecLimit}
  IN  IF fit = {} THEN ~res[1].ok ELSE res[1].ok /\ {res[1].v} = {x[1] : x \in fit}
=============================================================================

----------------------------- MODULE DukBuffers -----------------------------
(***************************************************************************)
(* Buffer objects (duk_bi_buffer.c, duk_hbufobj): ArrayBuffers, typed      *)
(* arrays, DataViews and Node.js buffers are slices [offset, length] of a  *)
(* plain buffer that may be dynamic.  A slice keeps its nominal bounds     *)
(* when its buffer shrinks, and every coercion of an argument may run user *)
(* code that resizes the buffer: an operation takes the resize rz that its *)
(* coercions cause, applied where the code makes them.                     *)
(*                                                                         *)
(* A byte is a digit in base B.  s is what the code keeps, want and aret   *)
(* what the operation should leave and return: copies as if made at once,  *)
(* elements converted.  fair says that the slices it uses still have their *)
(* bytes; when they have not, want and aret say what the code does instead *)
(* where that is a rule, and follow the code where it is not.              *)
(***************************************************************************)
EXTENDS Integers, Sequences, SequencesExt, FiniteSets, FiniteSetsExt

CONSTANTS B,            \* number of byte values
          Starts,       \* initial [bufs, views]
          Dynamic,      \* indices of the dynamic buffers
          Nums, Ends,   \* argument values; Ends also holds UNDEF
          Strings,      \* byte sequences for fill and write
          Values, Sizes, MaxOps

VARIABLES s, ret, want, aret, fair, ops

vars == <<s, ret, want, aret, fair, ops>>

UNDEF == -99
RANGE == <<-1, -1>>
TYPE == <<-2, -2>>
DONE == <<0>>
Res(st, r) == [s |-> st, r |-> r]
View(cls, b, off, len, t, prop) == [cls |-> cls, buf |-> b, off |-> off, len |-> len, type |-> t, prop |-> prop]

-----------------------------------------------------------------------------
(* Elements: duk_hbufobj_push_validated_read and duk_hbufobj_validated_write *)

Size(t) == IF t \in {"u16", "i16"} THEN 2 ELSE 1
Clip(v, lo, hi) == IF v < lo THEN lo ELSE IF v > hi THEN hi ELSE v
Enc(t, v) == IF t = "c8" THEN <<Clip(v, 0, B - 1)>> ELSE IF Size(t) = 1 THEN <<v % B>> ELSE <<v % B, (v \div B) % B>>
Signed(v, n) == IF 2 * v >= B^n THEN v - B^n ELSE v
Dec(t, d) == LET u == IF Size(t) = 1 THEN d[1] ELSE d[1] + B * d[2] IN IF t \in {"i8", "i16"} THEN Signed(u, Size(t)) ELSE u
\* duk__buffer_elemtype_copy_compatible: sources a byte copy serves
Compatible(t) == CASE t = "c8" -> {"u8", "c8"} [] t \in {"u8", "i8"} -> {"u8", "c8", "i8"} [] OTHER -> {"u16", "i16"}

-----------------------------------------------------------------------------
(* Slices and the checks of duk_hbufobj.h.                                  *)

Avail(st, b) == Len(st.bufs[b])
ValidSlice(st, h) == h.off + h.len <= Avail(st, h.buf)
ValidTo(st, h, n) == h.off + n <= Avail(st, h.buf)
ClampLen(st, h, n) == IF h.off > Avail(st, h.buf) THEN 0 ELSE Min({Avail(st, h.buf) - h.off, n})
Resize(st, rz) == IF rz = <<>> THEN st
                  ELSE [st EXCEPT !.bufs[rz[1]] = [i \in 1..rz[2] |-> IF i \in DOMAIN @ THEN @[i] ELSE 0]]
\* An access of n bytes at absolute offset p; oob names the operation that strays.
Touch(st, op, b, p, n) == IF n > 0 /\ p + n > Avail(st, b) THEN [st EXCEPT !.oob = op] ELSE st
Splice(d, p, q) == [i \in DOMAIN d |-> IF p < i /\ i <= p + Len(q) THEN q[i - p] ELSE d[i]]
Bytes(st, b, p, n) == [i \in 1..n |-> IF p + i <= Avail(st, b) THEN st.bufs[b][p + i] ELSE 0]
Move(st, op, db, dp, sb, sp, n) ==                \* memcpy or memmove
  LET q == Bytes(st, sb, sp, n) IN [Touch(Touch(st, op, sb, sp, n), op, db, dp, n) EXCEPT !.bufs[db] = Splice(@, dp, q)]
AddView(st, h) == [st EXCEPT !.views = Append(@, h)]
AddBuf(st, d) == [st EXCEPT !.bufs = Append(@, d)]
Zeros(n) == [i \in 1..n |-> 0]

\* Conversion element by element, reading what is there at that moment
OneByOne(st, op, h, dp, g, sp, n) ==
  FoldLeft(LAMBDA x, i : LET q == Enc(h.type, Dec(g.type, Bytes(x, g.buf, sp + (i - 1) * Size(g.type), Size(g.type))))
                         IN [x EXCEPT !.bufs[h.buf] = Splice(@, dp + (i - 1) * Size(h.type), q)],
           Touch(Touch(st, op, g.buf, sp, n * Size(g.type)), op, h.buf, dp, n * Size(h.type)), [i \in 1..n |-> i])

-----------------------------------------------------------------------------
(* Argument ranges.                                                         *)

\* duk__resolve_offset_opt_length
OffLen(len, o, n, throw) ==
  IF o < 0 \/ o > len \/ (n # UNDEF /\ n < 0) THEN RANGE
  ELSE IF n = UNDEF THEN <<o, len - o>>
  ELSE IF n > len - o THEN (IF throw THEN RANGE ELSE <<o, len - o>>) ELSE <<o, n>>
\* duk__clamp_startend_nonegidx_noshift
ClampStartEnd(len, i, j) == LET a == Clip(i, 0, len) IN <<a, IF j = UNDEF THEN len ELSE Clip(j, a, len)>>
\* duk__clamp_startend_negidx_shifted, in elements
ClampNeg(len, i, j) ==
  LET a == Clip(IF i < 0 THEN len + i ELSE i, 0, len)
      b == IF j = UNDEF THEN len ELSE IF j < 0 THEN len + j ELSE j
  IN <<a, Clip(b, a, len)>>

-----------------------------------------------------------------------------
(* Constructors and slices.                                                 *)

\* A view on an ArrayBuffer: typed array (element count) or DataView
TypedArgs(st, h, t, o, n) == LET sz == Size(t) IN
  IF o < 0 \/ o > h.len \/ o % sz # 0 THEN RANGE
  ELSE IF n = UNDEF THEN (IF (h.len - o) % sz # 0 THEN RANGE ELSE <<o, h.len - o>>)
  ELSE IF n < 0 \/ n * sz > h.len - o THEN RANGE ELSE <<o, n * sz>>
DataViewArgs(h, o, n) == OffLen(h.len, o, n, TRUE)
NewView(st, k, t, o, n) ==
  LET h == st.views[k]
      a == IF t = "data" THEN DataViewArgs(h, o, n) ELSE TypedArgs(st, h, t, o, n)
  IN IF a = RANGE THEN Res(st, RANGE)
     ELSE Res(AddView(st, View(IF t = "data" THEN "data" ELSE "typed", h.buf, h.off + a[1], a[2], IF t = "data" THEN "u8" ELSE t, k)), DONE)
\* The typed array constructor on another buffer object: copy modes 0, 1, 2
CopyInto(st, h, g) ==                             \* h is fresh and covered by its buffer
  LET n == g.len \div Size(g.type) IN
  IF ValidSlice(st, g) THEN IF g.type \in Compatible(h.type) THEN Move(st, "new", h.buf, 0, g.buf, g.off, h.len)
                            ELSE OneByOne(st, "new", h, 0, g, g.off, n)
  ELSE FoldLeft(LAMBDA x, i : IF ~ValidTo(x, g, i * Size(g.type)) THEN x     \* reads 0
                              ELSE OneByOne(x, "new", h, (i - 1) * Size(h.type), g, g.off + (i - 1) * Size(g.type), 1),
                st, [i \in 1..n |-> i])
NewCopy(st, k, t) ==
  LET g == st.views[k]
      n == g.len \div Size(g.type)
      s1 == AddBuf(st, Zeros(n * Size(t)))
      h == View("typed", Len(s1.bufs), 0, n * Size(t), t, 0)
  IN Res(AddView(CopyInto(s1, h, g), h), DONE)
\* subarray and Node.js slice share the buffer; ArrayBuffer slice copies
Subarray(st, k, i, j, rz) ==
  LET h == st.views[k]   sz == Size(h.type)   a == ClampNeg(h.len \div sz, i, j) IN
  Res(AddView(Resize(st, rz), View("typed", h.buf, h.off + a[1] * sz, (a[2] - a[1]) * sz, h.type, h.prop)), DONE)
SliceCopy(st, k, i, j, rz) ==
  LET h == st.views[k]
      a == ClampNeg(h.len, i, j)   n == a[2] - a[1]
      s1 == AddBuf(Resize(st, rz), Zeros(n))
      s2 == Move(s1, "slice", Len(s1.bufs), 0, h.buf, h.off + a[1], ClampLen(s1, h, n))
  IN Res(AddView(s2, View("ab", Len(s1.bufs), 0, n, "u8", 0)), DONE)
\* duk__arraybuffer_plain_slice: a plain buffer is measured before the
\* coercions, and the copy takes that many bytes of what is left of it
PlainSlice(st, b, i, j, rz) ==
  LET a == ClampNeg(Avail(st, b), i, j)   n == a[2] - a[1]
      s1 == AddBuf(Resize(st, rz), Zeros(n))
  IN Res(Move(s1, "plain", Len(s1.bufs), 0, b, a[1], n), DONE)
\* The .buffer getter makes the ArrayBuffer of a view when it is first asked for
BufferGetter(st, k) ==
  LET h == st.views[k] IN
  IF h.cls = "ab" \/ h.prop # 0 THEN Res(st, DONE)
  ELSE Res([AddView(st, View("ab", h.buf, 0, h.off + h.len, "u8", 0)) EXCEPT !.views[k].prop = Len(st.views) + 1], DONE)
\* Buffer.concat: lengths are summed before the copies
Concat(st, ks, total, rz) ==
  LET sum == FoldLeft(LAMBDA x, k : x + st.views[k].len, 0, ks)
      n == IF total = UNDEF \/ ks = <<>> THEN sum ELSE total
      s0 == Resize(st, rz)
      s1 == AddBuf(s0, Zeros(n))
      step(x, k) == LET h == st.views[k]   c == Min({h.len, n - x.p}) IN
                    [p |-> x.p + c, s |-> IF ValidSlice(s0, h) THEN Move(x.s, "concat", Len(s1.bufs), x.p, h.buf, h.off, c) ELSE x.s]
  IN IF n < 0 THEN Res(s0, RANGE)
     ELSE Res(AddView(FoldLeft(step, [p |-> 0, s |-> s1], ks).s, View("typed", Len(s1.bufs), 0, n, "u8", 0)), DONE)

-----------------------------------------------------------------------------
(* Bulk writes.                                                             *)

Fill(st, k, q, i, j, rz) ==
  LET h == st.views[k]   a == ClampStartEnd(h.len, i, j)   n == a[2] - a[1]
      s1 == Resize(st, rz)
      d == [x \in 1..n |-> q[((x - 1) % Len(q)) + 1]]
  IN Res([Touch(s1, "fill", h.buf, h.off + a[1], IF q = <<>> THEN 0 ELSE n) EXCEPT
            !.bufs[h.buf] = IF q = <<>> THEN @ ELSE Splice(@, h.off + a[1], d)], DONE)
Write(st, k, q, o, n, rz) ==
  LET h == st.views[k]   a == OffLen(h.len, o, n, FALSE)   s1 == Resize(st, rz) IN
  IF a = RANGE THEN Res(s1, RANGE)
  ELSE LET c == Min({a[2], Len(q)})   d == SubSeq(q, 1, c) IN
       Res(IF ~ValidSlice(s1, h) THEN s1
           ELSE [Touch(s1, "write", h.buf, h.off + a[1], c) EXCEPT !.bufs[h.buf] = Splice(@, h.off + a[1], d)], <<c>>)
CopyUnchecked(st, k, m, tp, sp, se, rz) ==        \* mutant of Copy
  LET h == st.views[k]   g == st.views[m]   e == IF se = UNDEF THEN h.len ELSE Min({se, h.len})
      n == Min({e - sp, g.len - tp})   s1 == Resize(st, rz) IN
  IF sp < 0 \/ tp < 0 \/ (se # UNDEF /\ se < 0) THEN Res(s1, RANGE)
  ELSE IF sp >= e \/ tp >= g.len THEN Res(s1, DONE)
  ELSE Res(Move(s1, "copy", g.buf, g.off + tp, h.buf, h.off + sp, n), <<n>>)
Copy(st, k, m, tp, sp, se, rz) ==
  LET h == st.views[k]   g == st.views[m]   e == IF se = UNDEF THEN h.len ELSE Min({se, h.len})
      n == Min({e - sp, g.len - tp})   s1 == Resize(st, rz) IN
  IF sp < 0 \/ tp < 0 \/ (se # UNDEF /\ se < 0) THEN Res(s1, RANGE)
  ELSE IF sp >= e \/ tp >= g.len THEN Res(s1, DONE)
  ELSE Res(IF ValidTo(s1, g, tp + n) /\ ValidTo(s1, h, sp + n) THEN Move(s1, "copy", g.buf, g.off + tp, h.buf, h.off + sp, n) ELSE s1, <<n>>)
\* TypedArray.prototype.set from another buffer object
SetElements(st, h, dp, g, n) ==
  LET overlap == g.buf = h.buf /\ ~(g.off >= dp + n * Size(h.type) \/ g.off + g.len <= dp)
      s1 == AddBuf(st, Bytes(st, g.buf, g.off, g.len))
      s2 == OneByOne(s1, "set", h, dp, [g EXCEPT !.buf = Len(s1.bufs)], 0, n)
  IN IF overlap THEN [s2 EXCEPT !.bufs = Front(@)] ELSE OneByOne(st, "set", h, dp, g, g.off, n)
Set(st, k, m, o, rz) ==
  LET h == st.views[k]   g == st.views[m]   n == g.len \div Size(g.type)
      p == o * Size(h.type)   dn == n * Size(h.type)   s1 == Resize(st, rz) IN
  IF o < 0 THEN Res(s1, TYPE)
  ELSE IF p > h.len \/ dn > h.len - p THEN Res(s1, RANGE)
  ELSE IF ~ValidTo(s1, h, p + dn) \/ ~ValidSlice(s1, h) \/ ~ValidSlice(s1, g) THEN Res(s1, DONE)
  ELSE Res(IF g.type \in Compatible(h.type) THEN Move(s1, "set", h.buf, h.off + p, g.buf, g.off, dn)
           ELSE SetElements(s1, h, h.off + p, g, n), DONE)

-----------------------------------------------------------------------------
(* Elements, fields, comparison.                                            *)

PutIndex(st, k, i, v, rz) ==
  LET h == st.views[k]   sz == Size(h.type)   p == i * sz   s1 == Resize(st, rz) IN
  Res(IF i < h.len \div sz /\ ValidTo(s1, h, p + sz)
      THEN [Touch(s1, "index", h.buf, h.off + p, sz) EXCEPT !.bufs[h.buf] = Splice(@, h.off + p, Enc(h.type, v))] ELSE s1, DONE)
GetIndex(st, k, i) ==
  LET h == st.views[k]   sz == Size(h.type)   p == i * sz IN
  IF i >= h.len \div sz THEN UNDEF ELSE IF ~ValidTo(st, h, p + sz) THEN 0 ELSE Dec(h.type, Bytes(st, h.buf, h.off + p, sz))
Digits(v, n, big) == [x \in 1..n |-> (v \div B^(IF big THEN n - x ELSE x - 1)) % B]
NumberOf(d, big) == FoldLeft(LAMBDA x, y : x * B + y, 0, IF big THEN d ELSE Reverse(d))
\* The limit is computed after the last coercion, the value's included
WriteField(st, k, o, n, v, big, noassert, rz) ==
  LET h == st.views[k]   s1 == Resize(st, rz) IN
  IF n \notin 1..6 \/ o < 0 \/ o + n > ClampLen(s1, h, h.len) THEN Res(s1, IF noassert THEN <<o + n>> ELSE RANGE)
  ELSE Res([Touch(s1, "field", h.buf, h.off + o, n) EXCEPT !.bufs[h.buf] = Splice(@, h.off + o, Digits(v, n, big))], <<o + n>>)
ReadField(st, k, o, n, sg, big, rz) ==
  LET h == st.views[k]   s1 == Resize(st, rz) IN
  IF n \notin 1..6 \/ o < 0 \/ o + n > ClampLen(s1, h, h.len) THEN Res(s1, RANGE)
  ELSE LET u == NumberOf(Bytes(s1, h.buf, h.off + o, n), big)
       IN Res(Touch(s1, "field", h.buf, h.off + o, n), <<IF sg THEN Signed(u, n) ELSE u>>)
\* duk_js_data_compare
Compare(a, b) == LET n == Min({Len(a), Len(b)})   d == {i \in 1..n : a[i] # b[i]} IN
  IF d # {} THEN (IF a[Min(d)] < b[Min(d)] THEN -1 ELSE 1) ELSE IF Len(a) = Len(b) THEN 0 ELSE IF Len(a) < Len(b) THEN -1 ELSE 1
CompareOp(st, k, m, ts, te, ss, se, rz) ==
  LET h == st.views[k]   g == st.views[m]
      tend == IF te = UNDEF THEN g.len ELSE te
      send == IF se = UNDEF THEN h.len ELSE se
      s1 == Resize(st, rz)
      part(v, i, j) == IF j <= i \/ i > v.len THEN <<0, 0>> ELSE <<i, Min({j - i, v.len - i})>>
      c == part(h, ss, send)   d == part(g, ts, tend)
  IN IF ~(ValidSlice(st, h) /\ ValidSlice(st, g)) THEN Res(st, <<-1>>)
     ELSE IF ts < 0 \/ ss < 0 \/ tend < 0 \/ tend > g.len \/ send < 0 \/ send > h.len THEN Res(s1, RANGE)
     ELSE IF ~(ValidSlice(s1, h) /\ ValidSlice(s1, g)) THEN Res(s1, DONE)
     ELSE Res(Touch(Touch(s1, "compare", h.buf, h.off + c[1], c[2]), "compare", g.buf, g.off + d[1], d[2]),
              <<Compare(Bytes(s1, h.buf, h.off + c[1], c[2]), Bytes(s1, g.buf, g.off + d[1], d[2]))>>)

-----------------------------------------------------------------------------
(* What the operations promise when the slices still have their bytes: each *)
(* reads its source whole before it writes.                                 *)

ElementCount(h) == h.len \div Size(h.type)
Elements(st, h) == [i \in 1..ElementCount(h) |-> Dec(h.type, SubSeq(st.bufs[h.buf], h.off + (i - 1) * Size(h.type) + 1, h.off + i * Size(h.type)))]
SliceOf(st, h) == SubSeq(st.bufs[h.buf], h.off + 1, h.off + h.len)
Encoded(t, vals) == FlattenSeq([i \in DOMAIN vals |-> Enc(t, vals[i])])
Patched(st, h, p, q) ==                           \* q replaces the bytes of h from p on
  [st.bufs EXCEPT ![h.buf] = SubSeq(@, 1, h.off + p) \o q \o SubSeq(@, h.off + p + Len(q) + 1, Len(@))]
Cut(q, n) == IF n <= Len(q) THEN SubSeq(q, 1, n) ELSE q \o Zeros(n - Len(q))
\* The only value of n bytes, signed or not, that is stored as d
Stored(d, sg, big) == CHOOSE v \in (IF sg THEN -(B^Len(d) \div 2)..((B^Len(d) - 1) \div 2) ELSE 0..(B^Len(d) - 1)) : Digits(v % B^Len(d), Len(d), big) = d
Order(a, b) == IF a = b THEN 0
               ELSE IF IsStrictPrefix(a, b) \/ \E i \in DOMAIN a \cap DOMAIN b : SubSeq(a, 1, i - 1) = SubSeq(b, 1, i - 1) /\ a[i] < b[i] THEN -1 ELSE 1

-----------------------------------------------------------------------------

Init == /\ s \in Starts
        /\ ret = DONE /\ want = s.bufs /\ aret = DONE /\ fair = TRUE /\ ops = 0

Resizes == {<<>>} \cup (Dynamic \X Sizes)
Ks == DOMAIN s.views
Alive == s.oob = "" /\ ops < MaxOps
Typed == {k \in Ks : s.views[k].cls = "typed"}
Abs == {k \in Ks : s.views[k].cls = "ab"}
Whole(st, K) == \A k \in K : ValidSlice(st, s.views[k])
Does(r, ok, w, a) == /\ s' = r.s /\ ret' = r.r /\ ops' = ops + 1
                     /\ fair' = ok
                     /\ want' = (IF ok THEN w ELSE r.s.bufs)
                     /\ aret' = (IF ok THEN a ELSE r.r)
\* An action whose reference is only that no byte changes
Keeps(r) == Does(r, TRUE, s.bufs, r.r)

\* The host resizes a dynamic buffer (duk_resize_buffer)
ResizeBuffer == Alive /\ \E rz \in Dynamic \X Sizes : LET st == Resize(s, rz) IN Does(Res(st, DONE), TRUE, st.bufs, DONE)
MakeView == Alive /\ \E k \in Abs, t \in {"u8", "u16", "data"}, o \in Nums, n \in Ends : Keeps(NewView(s, k, t, o, n))
MakeCopy == Alive /\ \E k \in Typed, t \in {"c8", "i8", "u16"} :
  Does(NewCopy(s, k, t), Whole(s, {k}), Append(s.bufs, Encoded(t, Elements(s, s.views[k]))), DONE)
MakeSubarray == Alive /\ \E k \in Typed, i \in Nums, j \in Ends, rz \in Resizes :
  Does(Subarray(s, k, i, j, rz), TRUE, Resize(s, rz).bufs, DONE)
MakeSlice == Alive /\ \E k \in Abs, i \in Nums, j \in Ends, rz \in Resizes :
  LET st == Resize(s, rz)   q == SliceOf(st, s.views[k])
      at(x) == IF x < 0 THEN Max({0, s.views[k].len + x}) ELSE Min({x, s.views[k].len})
  IN Does(SliceCopy(s, k, i, j, rz), Whole(st, {k}), Append(st.bufs, SubSeq(q, at(i) + 1, IF j = UNDEF THEN Len(q) ELSE at(j))), DONE)
MakePlainSlice == Alive /\ \E b \in DOMAIN s.bufs, i \in Nums, j \in Ends, rz \in Resizes :
  LET st == Resize(s, rz)   n == Avail(s, b)
      at(x) == IF x < 0 THEN Max({0, n + x}) ELSE Min({x, n})
  IN Does(PlainSlice(s, b, i, j, rz), Avail(st, b) >= n,
          Append(st.bufs, SubSeq(st.bufs[b], at(i) + 1, IF j = UNDEF THEN n ELSE at(j))), DONE)
GetBuffer == Alive /\ \E k \in Ks : Keeps(BufferGetter(s, k))
BufferConcat == Alive /\ \E k, m \in Typed, total \in Ends, rz \in Resizes :
  LET st == Resize(s, rz)   q == SliceOf(st, s.views[k]) \o SliceOf(st, s.views[m]) IN
  Does(Concat(s, <<k, m>>, total, rz), Whole(st, {k, m}),
       IF total # UNDEF /\ total < 0 THEN st.bufs ELSE Append(st.bufs, Cut(q, IF total = UNDEF THEN Len(q) ELSE total)),
       IF total # UNDEF /\ total < 0 THEN RANGE ELSE DONE)
FillBuffer == Alive /\ \E k \in Typed, q \in Strings, i \in Nums, j \in Ends, rz \in Resizes :
  LET st == Resize(s, rz)   h == s.views[k]   a == Min({Max({0, i}), h.len})   z == IF j = UNDEF THEN h.len ELSE Min({j, h.len}) IN
  Does(Fill(s, k, q, i, j, rz), Whole(st, {k}),
       IF q = <<>> \/ z <= a THEN st.bufs ELSE Patched(st, h, a, SubSeq(FlattenSeq([x \in 1..(z - a) |-> q]), 1, z - a)), DONE)
WriteString == Alive /\ \E k \in Typed, q \in Strings, o \in Nums, n \in Ends, rz \in Resizes :
  LET st == Resize(s, rz)   h == s.views[k]   bad == o < 0 \/ o > h.len \/ (n # UNDEF /\ n < 0)
      c == Min({Len(q), h.len - o} \cup ({n} \ {UNDEF})) IN
  Does(Write(s, k, q, o, n, rz), TRUE, IF bad \/ ~Whole(st, {k}) THEN st.bufs ELSE Patched(st, h, o, SubSeq(q, 1, c)), IF bad THEN RANGE ELSE <<c>>)
CopyBytes == Alive /\ \E k, m \in Typed, tp, sp \in Nums, se \in Ends, rz \in Resizes :
  LET st == Resize(s, rz)   h == s.views[k]   g == s.views[m]   bad == sp < 0 \/ tp < 0 \/ (se # UNDEF /\ se < 0)
      n == Max({0, Min({h.len, IF se = UNDEF THEN h.len ELSE se} ) - sp})
      c == Min({n, Max({0, g.len - tp})}) IN
  Does(Copy(s, k, m, tp, sp, se, rz), Whole(st, {k, m}),
       IF bad \/ c = 0 THEN st.bufs ELSE Patched(st, g, tp, SubSeq(SliceOf(st, h), sp + 1, sp + c)), IF bad THEN RANGE ELSE <<c>>)
SetFrom == Alive /\ \E k, m \in Typed, o \in Nums, rz \in Resizes :
  LET st == Resize(s, rz)   h == s.views[k]   q == Elements(st, s.views[m])
      fits == o + ElementCount(s.views[m]) <= ElementCount(h) IN
  Does(Set(s, k, m, o, rz), TRUE,
       IF o < 0 \/ ~fits \/ ~Whole(st, {k, m}) THEN st.bufs ELSE Patched(st, h, o * Size(h.type), Encoded(h.type, q)), IF o < 0 THEN TYPE ELSE IF fits THEN DONE ELSE RANGE)
PutElement == Alive /\ \E k \in Typed, i \in Nums \cap Nat, v \in Values, rz \in Resizes :
  LET st == Resize(s, rz)   h == s.views[k] IN
  Does(PutIndex(s, k, i, v, rz), Whole(st, {k}),
       IF i < ElementCount(h) THEN Patched(st, h, i * Size(h.type), Enc(h.type, v)) ELSE st.bufs, DONE)
GetElement == Alive /\ \E k \in Typed, i \in Nums \cap Nat :
  LET h == s.views[k] IN
  Does(Res(s, <<GetIndex(s, k, i)>>), Whole(s, {k}), s.bufs, <<IF i < ElementCount(h) THEN Elements(s, h)[i + 1] ELSE UNDEF>>)
PutField == Alive /\ \E k \in Ks, o \in Nums, n \in {0, 2, 3}, v \in Values, big, na \in BOOLEAN, rz \in Resizes :
  LET st == Resize(s, rz)   h == s.views[k]   ok == n # 0 /\ o >= 0 /\ o + n <= h.len
      q == CHOOSE d \in [1..n -> 0..(B - 1)] : Stored(d, FALSE, big) = v % B^n IN
  Does(WriteField(s, k, o, n, v, big, na, rz), Whole(st, {k}), IF ok THEN Patched(st, h, o, q) ELSE st.bufs, IF ok \/ na THEN <<o + n>> ELSE RANGE)
GetField == Alive /\ \E k \in Ks, o \in Nums, n \in {0, 2, 3}, sg, big \in BOOLEAN, rz \in Resizes :
  LET st == Resize(s, rz)   h == s.views[k]   ok == n # 0 /\ o >= 0 /\ o + n <= h.len IN
  Does(ReadField(s, k, o, n, sg, big, rz), Whole(st, {k}), st.bufs,
       IF ok THEN <<Stored(SubSeq(st.bufs[h.buf], h.off + o + 1, h.off + o + n), sg, big)>> ELSE RANGE)
CompareBytes == Alive /\ \E k, m \in Typed, ts \in Nums, te \in Ends, src \in {<<0, UNDEF>>, <<1, 2>>}, rz \in Resizes :
  LET st == Resize(s, rz)   h == s.views[k]   g == s.views[m]
      tz == IF te = UNDEF THEN g.len ELSE te   sz == IF src[2] = UNDEF THEN h.len ELSE src[2]
      bad == ts < 0 \/ tz < 0 \/ tz > g.len \/ sz > h.len IN
  Does(CompareOp(s, k, m, ts, te, src[1], src[2], rz), TRUE, IF Whole(s, {k, m}) THEN st.bufs ELSE s.bufs,
       IF ~Whole(s, {k, m}) THEN <<-1>> ELSE IF bad THEN RANGE
       ELSE IF ~Whole(st, {k, m}) THEN <<0>>
       ELSE <<Order(SubSeq(SliceOf(st, h), src[1] + 1, sz), IF ts >= tz THEN <<>> ELSE SubSeq(SliceOf(st, g), ts + 1, tz))>>)

Next == \/ ResizeBuffer \/ MakeView \/ MakeCopy \/ MakeSubarray \/ MakeSlice \/ MakePlainSlice \/ GetBuffer \/ BufferConcat
        \/ FillBuffer \/ WriteString \/ CopyBytes \/ SetFrom \/ PutElement \/ GetElement
        \/ PutField \/ GetField \/ CompareBytes
Spec == Init /\ [][Next]_vars

-----------------------------------------------------------------------------

(* Bytes are bytes and views name buffers.                                  *)
TypeOK == /\ \A b \in DOMAIN s.bufs : \A i \in DOMAIN s.bufs[b] : s.bufs[b][i] \in 0..(B - 1)
          /\ \A k \in Ks : s.views[k].buf \in DOMAIN s.bufs /\ s.views[k].off >= 0 /\ s.views[k].len >= 0
          /\ fair \in BOOLEAN /\ ops \in 0..MaxOps

(* Every operation but three stays inside the buffer's current size,        *)
(* whatever a coercion did to it (the checks of duk_hbufobj.h).  fill has   *)
(* no check, slice() of an ArrayBuffer clamps the length but not the start, *)
(* and slice() of a plain buffer uses the size from before the coercions:   *)
(* these three stay inside only as long as the slice has all its bytes when *)
(* they touch them.                                                         *)
Confined == s.oob # "" => s.oob \in {"fill", "slice", "plain"} /\ ~fair

(* Copies between overlapping or differently typed views, conversions and   *)
(* fields leave the bytes that reading the whole source first would leave;  *)
(* write and set change nothing when a slice has lost bytes.                *)
BytesAgree == s.oob = "" => s.bufs = want

(* Counts, orders, values read and range errors are the ones the arguments  *)
(* call for.  Slices that have lost bytes compare as unequal when they had  *)
(* lost them before the call, and as equal when a coercion of the call took *)
(* them (the comment of the function asks for unequal in both cases).       *)
AnswersAgree == s.oob = "" => ret = aret

(* The ArrayBuffer behind a view is over the same bytes and covers the view *)
(* at the same offsets; elements are aligned in it.                         *)
BufferCovers == \A k \in Ks : LET h == s.views[k] IN
  h.len % Size(h.type) = 0 /\ (h.prop # 0 =>
    LET g == s.views[h.prop] IN g.cls = "ab" /\ g.buf = h.buf /\ g.off <= h.off /\ h.off + h.len <= g.off + g.len
                                /\ (h.off - g.off) % Size(h.type) = 0)
=============================================================================

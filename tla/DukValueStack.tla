---------------------------- MODULE DukValueStack ----------------------------
(***************************************************************************)
(* The value stack of a thread (duk_api_stack.c) with the frames of C      *)
(* functions on it.  A frame owns the slots from bottom to top; it may     *)
(* push up to end, the reserve it was promised; memory goes up to the      *)
(* length of v.  Slots hold counted references.  When a count drops to     *)
(* zero finalizers run, and they, like every coercion of an object and the *)
(* collections an allocation may cause, are user code that may move the    *)
(* stack and change its memory: at each such point the stack must be in    *)
(* order, and a pointer into it is stale after.                            *)
(***************************************************************************)
EXTENDS Integers, Sequences, SequencesExt, FiniteSets, FiniteSetsExt

CONSTANTS Threads,       \* the first one has frames, others only values
          Main,
          Obj,           \* heap objects
          UNDEF, NUM,
          JUNK,          \* what memory holds before it is written
          ENTRY,         \* DUK_VALSTACK_API_ENTRY_MINIMUM
          EXTRA,         \* DUK_VALSTACK_INTERNAL_EXTRA
          LIMIT,         \* DUK_USE_VALSTACK_LIMIT
          GrowShift, ShrinkShift, SlackShift,
          MaxFrames, MaxOps

VARIABLES m, ret, ops

vars == <<m, ret, ops>>

Values == Obj \cup {UNDEF, NUM}
Undefs(n) == <<>> \o [i \in 1..Max({0, n}) |-> UNDEF]

\* duk_hthread_init_stacks.
NewStack == [v |-> Undefs(ENTRY + EXTRA), bottom |-> 0, top |-> 0, end |-> ENTRY]

\* rc, el, live: the counts, elements (of arrays) and existence of heap objects; zq:
\* objects whose count is zero and that are not freed yet; base: how often an operation
\* has moved the stack of Main; frames: entered calls; promise: the top the current frame
\* may reach; bad: user code ran while the stack was not in order, or a stale pointer was
\* used.
Fresh == [st |-> [t \in Threads |-> NewStack], rc |-> [x \in Obj |-> 0], el |-> [x \in Obj |-> <<>>],
          live |-> {}, zq |-> {}, base |-> 0, frames |-> <<>>, promise |-> ENTRY, bad |-> FALSE]

-----------------------------------------------------------------------------
(* Slots and counts.                                                       *)

Top(x) == x.st[Main].top - x.st[Main].bottom
Slot(x, i) == x.st[Main].v[x.st[Main].bottom + i + 1]

\* duk_normalize_index: unsigned arithmetic, so that a negative index below the bottom
\* becomes too large.
BelowBottom(x, i) ==   \* mutant of Norm
  LET u == IF i < 0 THEN Top(x) + i ELSE i
  IN  IF u + x.st[Main].bottom >= 0 /\ u < Top(x) THEN u ELSE -9
Norm(x, i) ==
  LET u == IF i < 0 THEN Top(x) + i ELSE i
  IN  IF u >= 0 /\ u < Top(x) THEN u ELSE -9
Valid(x, i) == Norm(x, i) # -9

Occurs(q, x) == Cardinality({i \in DOMAIN q : q[i] = x})
References(x, o) ==
  FoldSet(LAMBDA t, n : n + Occurs(x.st[t].v, o), 0, Threads)
  + FoldSet(LAMBDA a, n : n + Occurs(x.el[a], o), 0, x.live)

InOrder(x) ==
  /\ \A t \in Threads :
       LET s == x.st[t]
       IN  /\ s.bottom <= s.top /\ s.top <= s.end /\ s.end <= Len(s.v)
           /\ \A i \in s.top + 1..Len(s.v) : s.v[i] = UNDEF
  /\ \A o \in Obj : /\ References(x, o) > 0 => o \in x.live
                    /\ o \in x.live => x.rc[o] = References(x, o)

Incref(x, v) == IF v \in Obj THEN [x EXCEPT !.rc[v] = @ + 1] ELSE x
DecrefNorz(x, v) ==
  IF v \in Obj THEN [x EXCEPT !.rc[v] = @ - 1, !.zq = IF x.rc[v] = 1 THEN @ \cup {v} ELSE @] ELSE x

\* DUK_REFZERO_CHECK: everything unreachable is freed, finalizers run.
FreeOne(x, n) ==
  IF x.zq = {} THEN x
  ELSE LET o == CHOOSE y \in x.zq : TRUE
       IN  FoldLeft(DecrefNorz, [x EXCEPT !.zq = @ \ {o}, !.live = @ \ {o}, !.el[o] = <<>>], x.el[o])
Refzero(x) ==
  IF x.zq = {} THEN x
  ELSE FoldLeft(FreeOne, [x EXCEPT !.bad = @ \/ ~InOrder(x)], [n \in 1..Cardinality(Obj) |-> n])
Decref(x, v) == Refzero(DecrefNorz(x, v))

\* Stores without counting; position p counts from the start of the stack.
SetAbs(x, p, v) == [x EXCEPT !.st[Main].v[p + 1] = v]
Set(x, i, v) == SetAbs(x, x.st[Main].bottom + i, v)
Shift(x, n) == [x EXCEPT !.st[Main].top = @ + n]
\* DUK_TVAL_SET_TVAL_UPDREF: the old value is released last.
SetUpdref(x, i, v) == Decref(Set(Incref(x, v), i, v), Slot(x, i))

-----------------------------------------------------------------------------
(* Size.                                                                   *)

\* Memory for n slots; those that were not there before hold anything.
Realloc(x, t, n) ==
  [x EXCEPT !.st[t].v = SubSeq(@, 1, Min({n, Len(@)})) \o [i \in 1..Max({0, n - Len(@)}) |-> JUNK],
            !.base = IF t = Main THEN @ + 1 ELSE @]

\* duk__resize_valstack: the slots from alloc_end on, as it was just before the memory
\* moved, are written.
ResizedFrom(x, t, n, from) ==
  [Realloc(x, t, n) EXCEPT !.st[t].v = SubSeq(@, 1, Min({n, from})) \o Undefs(n - from)]
Resized(x, t, n) == ResizedFrom(x, t, n, Len(x.st[t].v))

\* What an allocation meets: memory at once, or a collection first, with finalizers that run on
\* this stack and leave its memory shrunk to the reserve or grown; and perhaps none then.
Memory == {"got", "shrunk", "grown", "none"}
Collected(x, mem) ==
  LET y == [x EXCEPT !.bad = @ \/ ~InOrder(x)]
      end == x.st[Main].end
  IN  CASE mem = "got"   -> x
        [] mem = "grown" -> ResizedFrom(y, Main, Max({Len(x.st[Main].v), end + ENTRY + EXTRA}), Len(x.st[Main].v))
        [] OTHER         -> ResizedFrom(y, Main, end, end)

\* duk_valstack_shrink_check_nothrow; never below the reserve.
ShrinkTo(s, snug) ==
  LET alloc == Len(s.v)
  IN  IF snug THEN s.end
      ELSE IF alloc - s.end < alloc \div 2^ShrinkShift THEN alloc
      ELSE s.end + alloc \div 2^SlackShift
Shrink(x, t, snug) ==
  LET n == ShrinkTo(x.st[t], snug) IN IF n >= Len(x.st[t].v) THEN x ELSE Resized(x, t, n)

\* duk_valstack_grow_check_nothrow: from the memory there is, or by growing it.
GrowSize(min) == min + min \div 2^GrowShift
Ok(x) == [m |-> x, ret |-> "ok"]
Error(x, e) == [m |-> x, ret |-> e]
FromOldEnd(x, min, mem) ==   \* mutant of ResizeTo
  IF mem = "none" THEN Error(Collected(x, mem), "nospace")
  ELSE Ok([ResizedFrom(Collected(x, mem), Main, GrowSize(min), Len(x.st[Main].v)) EXCEPT !.st[Main].end = min])
ResizeTo(x, min, mem) ==
  IF mem = "none" THEN Error(Collected(x, mem), "nospace")
  ELSE Ok([Resized(Collected(x, mem), Main, GrowSize(min)) EXCEPT !.st[Main].end = min])
Grow(x, min, mem) ==
  IF x.st[Main].end >= min THEN Ok(x)
  ELSE IF Len(x.st[Main].v) >= min THEN Ok([x EXCEPT !.st[Main].end = min])
  ELSE IF GrowSize(min) > LIMIT THEN Error(x, "nospace")
  ELSE ResizeTo(x, min, mem)
Space(x) == x.st[Main].top < x.st[Main].end    \* DUK__CHECK_SPACE

\* duk_check_stack and duk_check_stack_top, relative to top or to bottom.
Promised(r, top) == IF r.ret = "ok" THEN Ok([r.m EXCEPT !.promise = Max({@, top})]) ELSE r
Reserve(x, from, n, mem) == Promised(Grow(x, from + n + EXTRA, mem), from + n)

-----------------------------------------------------------------------------
(* Operations on values.                                                   *)

PushTval(x, v) == Set(Incref(Shift(x, 1), v), Top(x), v)
Push(x, v) == IF Space(x) THEN Ok(PushTval(x, v)) ELSE Error(x, "beyond")

\* duk_push_object, duk_push_array...: a new object.
PushNew(x, o) ==
  IF ~Space(x) THEN Error(x, "beyond")
  ELSE Ok(PushTval([x EXCEPT !.live = @ \cup {o}, !.rc[o] = 0], o))

Dup(x, i) ==
  IF ~Space(x) THEN Error(x, "beyond")
  ELSE IF ~Valid(x, i) THEN Error(x, "index") ELSE Ok(PushTval(x, Slot(x, Norm(x, i))))

Swap(x, i, j) ==
  IF ~(Valid(x, i) /\ Valid(x, j)) THEN Error(x, "index")
  ELSE LET a == Norm(x, i)  b == Norm(x, j) IN Ok(Set(Set(x, a, Slot(x, b)), b, Slot(x, a)))

\* memmove of n slots from position i to position j.
Move(x, i, j, n) ==
  FoldLeft(LAMBDA y, k : Set(y, j + k - 1, Slot(x, i + k - 1)), x, [k \in 1..n |-> k])

Insert(x, i) ==
  IF ~Valid(x, i) THEN Error(x, "index")
  ELSE LET p == Norm(x, i)  q == Top(x) - 1
       IN  Ok(Set(Move(x, p, p + 1, q - p), p, Slot(x, q)))

Pull(x, i) ==
  IF ~Valid(x, i) THEN Error(x, "index")
  ELSE LET p == Norm(x, i)  q == Top(x) - 1
       IN  Ok(Set(Move(x, p + 1, p, q - p), q, Slot(x, p)))

\* The value replaced is released when the stack is in order again.
ReplaceTop(x, p, q) == Decref(Shift(Set(Set(x, p, Slot(x, q)), q, UNDEF), -1), Slot(x, p))
Replace(x, i) ==
  IF ~Valid(x, i) THEN Error(x, "index") ELSE Ok(ReplaceTop(x, Norm(x, i), Top(x) - 1))

Copy(x, i, j) ==
  IF ~(Valid(x, i) /\ Valid(x, j)) THEN Error(x, "index")
  ELSE Ok(SetUpdref(x, Norm(x, j), Slot(x, Norm(x, i))))

RemoveSlot(x, i) ==
  IF ~Valid(x, i) THEN Error(x, "index")
  ELSE LET p == Norm(x, i)  q == Top(x) - 1
       IN  Ok(Decref(Shift(Set(Move(x, p + 1, p, q - p), q, UNDEF), -1), Slot(x, p)))

\* duk_set_top_unsafe; growing exposes slots that are undefined already.
SetTopRaw(x, n) ==
  IF n >= Top(x) THEN Shift(x, n - Top(x))
  ELSE LET gone == [k \in 1..Top(x) - n |-> Top(x) - k]
       IN  Refzero(Shift(FoldLeft(LAMBDA y, p : Set(DecrefNorz(y, Slot(y, p)), p, UNDEF), x, gone), n - Top(x)))
SetTop(x, i) ==
  LET n == IF i < 0 THEN Top(x) + i ELSE i
  IN  IF n < 0 \/ n > x.st[Main].end - x.st[Main].bottom THEN Error(x, "index") ELSE Ok(SetTopRaw(x, n))
Pop(x, n) == IF n > Top(x) THEN Error(x, "count") ELSE Ok(SetTopRaw(x, Top(x) - n))

\* duk_remove_n and duk_insert_undefined_n.
RemoveN(x, i, n) ==
  LET y == FoldLeft(LAMBDA z, k : DecrefNorz(z, Slot(x, i + k - 1)), x, [k \in 1..n |-> k])
      z == Move(y, i + n, i, Top(x) - i - n)
  IN  Shift(FoldLeft(LAMBDA w, k : Set(w, Top(x) - k, UNDEF), z, [k \in 1..n |-> k]), -n)
InsertUndefinedN(x, i, n) ==
  FoldLeft(LAMBDA w, k : Set(w, i + k - 1, UNDEF), Move(Shift(x, n), i, i + n, Top(x) - i), [k \in 1..n |-> k])

\* duk_xcopymove_raw to Main; f is the other stack.
XcopyMove(x, t, n, copy) ==
  LET f == x.st[t]
      vs == SubSeq(f.v, f.top - n + 1, f.top)
      y == FoldLeft(LAMBDA z, k : Set(Shift(z, 1), Top(z), vs[k]), x, [k \in 1..n |-> k])
  IN  IF x.st[Main].end - x.st[Main].top < n THEN Error(x, "beyond")
      ELSE IF f.top - n < f.bottom THEN Error(x, "count")
      ELSE IF copy THEN Ok(FoldLeft(Incref, y, vs))
      ELSE Ok([y EXCEPT !.st[t].v = SubSeq(@, 1, f.top - n) \o Undefs(Len(@) - f.top + n),
                        !.st[t].top = f.top - n])

\* duk_pack: the values move into a new array without counting.
Pack(x, n, o) ==
  LET b == Top(x) - n
      y == PushTval([x EXCEPT !.live = @ \cup {o}, !.rc[o] = 0], o)
      vs == SubSeq(x.st[Main].v, x.st[Main].top - n + 1, x.st[Main].top)
      z == FoldLeft(LAMBDA w, k : Set(w, b + k, UNDEF), Set(y, b, o), [k \in 1..n |-> k])
  IN  IF n > Top(x) THEN Error(x, "count")
      ELSE IF ~Space(x) THEN Error(x, "beyond")
      ELSE Ok(Shift([z EXCEPT !.el[o] = vs], -n))

\* duk_unpack_array_like, array with an array part; the reserve of the frame grows.
Unpack(x, i, mem) ==
  LET o == Slot(x, Norm(x, i))
      r == Reserve(x, x.st[Main].top, Len(x.el[o]), mem)
  IN  IF ~Valid(x, i) THEN Error(x, "index")
      ELSE IF o \notin Obj THEN (IF o = UNDEF THEN Ok(x) ELSE Error(x, "type"))
      ELSE IF r.ret # "ok" THEN r
      ELSE Ok(FoldLeft(PushTval, r.m, x.el[o]))

\* User code called by a coercion may move the stack.  duk_to_number and
\* duk__to_int_uint_helper look the slot up again afterwards and write through that.
UserCode(x, moved, t, snug) ==
  LET y == [x EXCEPT !.bad = @ \/ ~InOrder(x)] IN IF moved THEN Shrink(y, t, snug) ELSE y
Pointer(x, i) == [base |-> x.base, at |-> Norm(x, i)]
WriteTo(x, p, v) == SetUpdref([x EXCEPT !.bad = @ \/ p.base # x.base], p.at, v)
ToNumber(x, i, moved, snug) ==
  LET y == IF Slot(x, Norm(x, i)) \in Obj THEN UserCode(x, moved, Main, snug) ELSE x
  IN  IF ~Valid(x, i) THEN Error(x, "index") ELSE Ok(WriteTo(y, Pointer(y, i), NUM))

\* duk__to_primitive_helper: the value's @@toPrimitive with a hint, or else up to two of
\* its methods, are called with temporaries on the stack; prims says what each gives.
\* The value is replaced by the first primitive result.
Temporaries(x, n) == FoldLeft(LAMBDA r, k : IF r.ret = "ok" THEN Push(r.m, NUM) ELSE r, Ok(x), [k \in 1..n |-> k])
Answered(x, top, prim) == IF prim THEN [m |-> x, ret |-> "got"] ELSE Ok(SetTopRaw(x, top))
Called(r, top, prim, moved) ==
  IF r.ret # "ok" THEN r
  ELSE Answered(SetTopRaw(UserCode(r.m, moved, Main, TRUE), top + 1), top, prim)
Attempt(x, n, prim, moved) == Called(Temporaries(x, n), Top(x), prim, moved)
OrAttempt(r, n, prim) == IF r.ret = "ok" THEN Attempt(r.m, n, prim, FALSE) ELSE r
Replaced(r, i) ==
  CASE r.ret = "got" -> Ok(ReplaceTop(r.m, i, Top(r.m) - 1))
    [] r.ret = "ok"  -> Error(r.m, "type")
    [] OTHER         -> r
ToPrimitive(x, i, symbol, prims, moved) ==
  IF ~Valid(x, i) THEN Error(x, "index")
  ELSE IF Slot(x, Norm(x, i)) \notin Obj THEN Ok(x)
  ELSE IF symbol THEN Replaced(Attempt(x, 3, prims[1], moved), Norm(x, i))
  ELSE Replaced(OrAttempt(Attempt(x, 2, prims[1], moved), 2, prims[2]), Norm(x, i))

\* duk_get_type, and the accessors of typed values: an invalid index has type none.
TypeOf(x, i) ==
  IF ~Valid(x, i) THEN "none"
  ELSE LET v == Slot(x, Norm(x, i)) IN IF v = UNDEF THEN "undefined" ELSE IF v = NUM THEN "number" ELSE "object"
\* duk_get_*, duk_require_* and duk_opt_*: the value, a default, or an error.
Accessor(x, i, mode, type) ==
  IF TypeOf(x, i) = type \/ mode = "get" \/ (mode = "opt" /\ TypeOf(x, i) \in {"none", "undefined"})
    THEN Ok(x) ELSE Error(x, "type")

\* duk_push_this: the slot below the frame of a function.
PushThis(x) == Push(x, IF x.st[Main].bottom = 0 THEN UNDEF ELSE x.st[Main].v[x.st[Main].bottom])

\* duk_push_proxy: the references to target and handler move into the new object.
PushProxy(x, o) ==
  LET a == Slot(x, Top(x) - 2)  b == Slot(x, Top(x) - 1)
  IN  IF TypeOf(x, -2) # "object" \/ TypeOf(x, -1) # "object" THEN Error(x, "type")
      ELSE Ok(Shift(Set(Set([x EXCEPT !.live = @ \cup {o}, !.rc[o] = 1, !.el[o] = <<a, b>>],
                            Top(x) - 2, o), Top(x) - 1, UNDEF), -1))

\* duk_to_string, duk_to_object, duk_to_buffer...: push the result o, replace.
ToObject(x, i, o) ==
  IF ~Valid(x, i) THEN Error(x, "index")
  ELSE IF ~Space(x) THEN Error(x, "beyond")
  ELSE LET y == PushTval([x EXCEPT !.live = @ \cup {o}, !.rc[o] = 0], o)
       IN  Ok(ReplaceTop(y, Norm(x, i), Top(y) - 1))

-----------------------------------------------------------------------------
(* Calls of C functions.                                                   *)

\* duk__handle_call_raw for a native function with nargs arguments: [ func this args ].
Entered(x, old, f, nargs) ==
  LET bottom == old.st[Main].bottom + f + 2
      frame == [kind |-> "call", bottom |-> old.st[Main].bottom, end |-> old.st[Main].end, idx |-> f,
                promise |-> old.promise, rets |-> 1]
  IN  Ok([SetTopRaw(x, f + 2 + nargs) EXCEPT
            !.frames = Append(@, frame), !.st[Main].bottom = bottom, !.promise = bottom + nargs + ENTRY])
CallIn(x, n, nargs, mem) ==
  LET f == Top(x) - n - 2
      r == Grow(x, x.st[Main].bottom + f + 2 + nargs + ENTRY + EXTRA, mem)
  IN  IF f < 0 THEN Error(x, "count") ELSE IF r.ret # "ok" THEN r ELSE Entered(r.m, x, f, nargs)

\* duk_safe_call: the callee works in the same frame.
SafeCallIn(x, nargs, rets) ==
  LET b == Top(x) - nargs
  IN  IF b < 0 \/ x.st[Main].end - (x.st[Main].bottom + b) < rets THEN Error(x, "count")
      ELSE Ok([x EXCEPT !.frames = Append(@, [kind |-> "safe", bottom |-> x.st[Main].bottom,
                                              end |-> x.st[Main].end, idx |-> b,
                                              promise |-> x.promise, rets |-> rets])])

Popped(x) == [x EXCEPT !.frames = Front(@), !.promise = Last(x.frames).promise]

\* duk__safe_call_adjust_valstack, and the refzero check of duk_handle_safe_call.
Lifted(x, base, rc) ==
  IF rc > base THEN RemoveN(x, base, rc - base) ELSE InsertUndefinedN(x, rc, base - rc)
Adjust(x, base, rets, actual) == Refzero(SetTopRaw(Lifted(x, base, Top(x) - actual), base + rets))

\* The values to return are lifted to the base of the call; the code asserts that the
\* reserve suffices.
LiftFits(x, f, actual) == f.bottom + f.idx + actual <= x.st[Main].end

\* The return of a native function with or without a value, and of a safe call with
\* actual values.
Returned(x, f) ==
  Popped([SetTopRaw(SetUpdref(x, f.idx, Slot(x, Top(x) - 1)), f.idx + 1) EXCEPT !.st[Main].end = f.end])
ReturnTo(x, f, actual) ==
  IF f.kind = "call"
    THEN Returned([IF actual = 0 THEN PushTval(x, UNDEF) ELSE x EXCEPT !.st[Main].bottom = f.bottom], f)
    ELSE Popped(Adjust(x, f.idx, f.rets, actual))
ReturnFrom(x, actual) == ReturnTo(x, Last(x.frames), actual)

\* An error is created with space for one value more (duk_err_create_and_throw), or is the
\* double error if even that fails; duk_throw throws the value at the top, with no check.
\* The nearest safe call catches it, whose handler pushes it.  Without a safe call the
\* fatal error handler ends the program.
CatchLevel(x) == Max({0} \cup {k \in DOMAIN x.frames : x.frames[k].kind = "safe"})
ErrorSpace(x, mem) == [Reserve(x, x.st[Main].top, 1, mem) EXCEPT !.m.promise = x.promise]
Handled(x, f, v) ==
  Popped(Adjust(PushTval([x EXCEPT !.st[Main].bottom = f.bottom], v), f.idx, f.rets, 1))
Caught(x, space, old, v) ==
  IF ~Space(x) THEN Error(old, IF space = "ok" THEN "handler" ELSE "nomemory")
  ELSE IF ~LiftFits(x, Last(x.frames), 1) THEN Error(old, "overrun")
  ELSE Ok(Handled(x, Last(x.frames), v))
Unwound(r, x, v) == Caught([r.m EXCEPT !.frames = SubSeq(@, 1, CatchLevel(x))], r.ret, x, v)
Thrown(x, v, mem) ==
  IF CatchLevel(x) = 0 THEN Error(x, "fatal") ELSE Unwound(ErrorSpace(x, mem), x, v)
Throw(x) ==
  IF Top(x) = 0 THEN Thrown(x, NUM, "got")
  ELSE IF CatchLevel(x) = 0 THEN Error(x, "fatal") ELSE Unwound(Ok(x), x, Slot(x, Top(x) - 1))

-----------------------------------------------------------------------------
(* One operation.  An operation that reports an error throws it.           *)

Throws == {"index", "count", "beyond", "type", "nospace"}
Settled(x) == [x EXCEPT !.base = 0]   \* no pointer outlives an operation
Perform(result, mem) ==
  \E r \in {result} :
    IF r.ret \in Throws /\ CatchLevel(r.m) > 0
      THEN \E s \in {Thrown(r.m, NUM, mem)} :
             m' = Settled(s.m) /\ ret' = (IF s.ret = "ok" THEN r.ret ELSE s.ret)
      ELSE m' = Settled(r.m) /\ ret' = r.ret

Indices == {-2, -1, 0, 1}
Dead == Obj \ (m.live \cup m.zq)

PushOp == Perform(Push(m, NUM), "got") \/ \E o \in m.live : Perform(Push(m, o), "got")
NewOp == \E o \in Dead : Perform(PushNew(m, o), "got")
DupOp == \E i \in Indices : Perform(Dup(m, i), "got")
SwapOp == \E i \in Indices : Perform(Swap(m, i, -1), "got")
InsertOp == \E i \in Indices : Perform(Insert(m, i), "got")
PullOp == \E i \in Indices : Perform(Pull(m, i), "got")
ReplaceOp == \E i \in Indices : Perform(Replace(m, i), "got")
CopyOp == \E i \in Indices : Perform(Copy(m, -1, i), "got")
RemoveOp == \E i \in Indices : Perform(RemoveSlot(m, i), "got")
SetTopOp == \E i \in Indices : Perform(SetTop(m, i), "got")
PopOp == \E n \in 1..2 : Perform(Pop(m, n), "got")
XcopyMoveOp == \E t \in Threads \ {Main}, copy \in BOOLEAN : Perform(XcopyMove(m, t, 1, copy), "got")
\* The other thread: a value arrives there.
GiveOp ==
  \E t \in Threads \ {Main}, o \in m.live :
    /\ m.st[t].top < m.st[t].end
    /\ m' = Incref([m EXCEPT !.st[t].v[m.st[t].top + 1] = o, !.st[t].top = @ + 1], o) /\ ret' = "ok"
PackOp == \E o \in Dead, n \in 0..2 : Perform(Pack(m, n, o), "got")
UnpackOp == \E i \in Indices, mem \in Memory : Perform(Unpack(m, i, mem), mem)
ToNumberOp == \E i \in Indices, moved \in BOOLEAN : Perform(ToNumber(m, i, moved, TRUE), "got")
ToPrimitiveOp == \E i \in Indices, symbol, moved \in BOOLEAN, prims \in [1..2 -> BOOLEAN] :
                   Perform(ToPrimitive(m, i, symbol, prims, moved), "got")
AccessorOp == \E i \in Indices, mode \in {"get", "require", "opt"} : Perform(Accessor(m, i, mode, "object"), "got")
PushThisOp == Perform(PushThis(m), "got")
PushProxyOp == \E o \in Dead : Perform(PushProxy(m, o), "got")
ToObjectOp == \E i \in Indices, o \in Dead : Perform(ToObject(m, i, o), "got")
Reserves == {1, ENTRY + EXTRA + 1}
CheckStackOp == \E n \in Reserves, mem \in Memory :
                  \E r \in {Reserve(m, m.st[Main].top, n, mem)} : m' = Settled(r.m) /\ ret' = (IF r.ret = "ok" THEN "ok" ELSE "no")
RequireStackTopOp == \E n \in Reserves, mem \in Memory : Perform(Reserve(m, m.st[Main].bottom, n, mem), mem)
ShrinkOp == \E t \in Threads, snug \in BOOLEAN : m' = Settled(Shrink(m, t, snug)) /\ ret' = "ok"
CallOp == /\ Len(m.frames) < MaxFrames
          /\ \E n \in 0..1, mem \in Memory : Perform(CallIn(m, n, 1, mem), mem)
SafeCallOp == Len(m.frames) < MaxFrames /\ \E n \in 0..1, rets \in 0..1 : Perform(SafeCallIn(m, n, rets), "got")
ReturnOp ==
  /\ m.frames # <<>>
  /\ \E actual \in 0..1 :
       /\ actual <= Top(m) /\ (actual = 0 /\ Last(m.frames).kind = "call" => Space(m))
       /\ IF Last(m.frames).kind = "safe" /\ ~LiftFits(m, Last(m.frames), actual)
            THEN m' = m /\ ret' = "overrun" ELSE m' = ReturnFrom(m, actual) /\ ret' = "ok"
ThrowOp == CatchLevel(m) > 0 /\ \E r \in {Throw(m)} : m' = Settled(r.m) /\ ret' = (IF r.ret = "ok" THEN "thrown" ELSE r.ret)

\* The program as it starts; in a C function it has called, with the references to the
\* objects below the frame; in a safe call made by that function; and in one that it made
\* with all of its reserve used.
InCall == CallIn(FoldLeft(PushTval, [Fresh EXCEPT !.live = Obj], SetToSeq(Obj)), 0, 1, "got").m
Filled(x) == FoldLeft(PushTval, x, [k \in 1..x.st[Main].end - x.st[Main].top |-> NUM])
Init ==
  /\ m \in {Fresh, Settled(InCall), Settled(SafeCallIn(InCall, 1, 1).m), Settled(SafeCallIn(Filled(InCall), 0, 0).m)}
  /\ ret = "ok" /\ ops = 0

Operation ==
  \/ PushOp \/ NewOp \/ DupOp \/ SwapOp \/ InsertOp \/ PullOp \/ ReplaceOp \/ CopyOp \/ RemoveOp
  \/ SetTopOp \/ PopOp \/ XcopyMoveOp \/ GiveOp \/ PackOp \/ UnpackOp \/ ToNumberOp \/ ToObjectOp
  \/ ToPrimitiveOp \/ AccessorOp \/ PushThisOp \/ PushProxyOp
  \/ CheckStackOp \/ RequireStackTopOp \/ ShrinkOp \/ CallOp \/ SafeCallOp \/ ReturnOp \/ ThrowOp

\* After the end of the program or undefined behaviour nothing is said.
Next == ops < MaxOps /\ ret \notin {"fatal", "handler", "nomemory", "overrun"} /\ ops' = ops + 1 /\ Operation

Spec == Init /\ [][Next]_vars

-----------------------------------------------------------------------------
(* Properties.                                                             *)

\* Between operations, and whenever finalizers or other user code run inside one, every
\* count is exact, no slot refers to a freed object, slots above the top are undefined
\* and bottom, top and reserve are within the memory; no stale pointer is used.
StackInOrder == InOrder(m) /\ m.zq = {} /\ ~m.bad

\* What a frame was promised (at entry or by duk_check_stack) stays available, whatever
\* is called, collected or thrown and caught in between.
ReserveKept == m.promise <= m.st[Main].end

\* A function that keeps within what it was promised never sees an operation run out of
\* stack: the temporaries of coercions fit in the internal extra that calls and
\* duk_check_stack add.  (The initial stack of a thread has no extra, so this is said of
\* frames above it.)
InternalReserve ==
  ret' = "beyond" /\ m.st[Main].bottom > 0 => m.st[Main].top >= m.promise

\* An operation changes nothing below the bottom of its frame.
CallerUntouched ==
  m'.st[Main].bottom = m.st[Main].bottom /\ m'.frames = m.frames =>
    \A i \in 1..m.st[Main].bottom : m'.st[Main].v[i] = m.st[Main].v[i]

\* A protected call gets the error: its handler finds space to push it, unless memory
\* or the stack limit were exhausted when the error was created; or the error was thrown
\* by duk_throw, which makes no space, from a frame that had used all of its reserve: one
\* that kept within what it was promised only in the first frame of a thread, which has no
\* internal extra (the handler "relies on internal reserve").
ErrorDelivered ==
  ret = "handler" => /\ m.st[Main].top = m.st[Main].end
                     /\ m.st[Main].top > m.promise \/ m.st[Main].bottom = 0
=============================================================================

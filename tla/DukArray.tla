------------------------------ MODULE DukArray ------------------------------
(***************************************************************************)
(* The methods of arrays (duk_bi_array.c): the loops that move, drop and   *)
(* insert elements of sparse arrays in place, the fast paths of push and   *)
(* pop, the quicksort with its random pivots and whatever compare function *)
(* user code provides, and the iterations whose callbacks change the array *)
(* they are given.  A row, the elements in order with HOLE for the missing *)
(* ones, is what each method is specified on.                              *)
(*                                                                         *)
(* An unsigned 32 bit integer is one below W; the length of an array-like  *)
(* object is taken after ToUint32.  Elements are plain values; nothing is  *)
(* inherited from the prototype.                                           *)
(***************************************************************************)
EXTENDS Integers, Sequences, SequencesExt, FiniteSets, FiniteSetsExt

CONSTANTS W,             \* 2^32
          MidJoin,       \* DUK__ARRAY_MID_JOIN_LIMIT
          Prealloc,      \* 64, elements new Array(n) makes room for
          Starts,        \* arrays and array-like objects to start with
          Items,         \* argument lists
          Pieces,        \* argument lists of concat
          Froms,         \* start and end indices
          Counts,        \* deleteCount arguments
          MaxOps,        \* bound on method calls
          MaxChanges     \* bound on the changes user code makes during one sort

VARIABLES o,             \* this
          want, wret,    \* its row and the result, by the reference
          past,          \* the call is past the range the methods work in
          ret,
          job,           \* the sort or iteration in progress
          ops

vars == <<o, want, wret, past, ret, job, ops>>

HOLE == <<"hole">>
UNDEF == <<"undef">>
NONE == <<"none">>       \* argument not given
ERROR == <<"error">>     \* RangeError or TypeError thrown
Num(n) == <<"num", n>>
Kinds == {"part", "slow", "like"}   \* with an array part, without, not an Array
Up(lo, hi) == [k \in 1..Max({hi - lo + 1, 0}) |-> lo + k - 1]
Down(hi, lo) == Reverse(Up(lo, hi))
Row(x) == [k \in 1..x.len |-> IF k - 1 \in DOMAIN x.e THEN x.e[k - 1] ELSE HOLE]

-----------------------------------------------------------------------------
(* Property access by index, to the degree the methods tell apart (DukProps  *)
(* has the tables behind it).                                               *)

Has(x, i) == i \in DOMAIN x.e
Get(x, i) == IF Has(x, i) THEN x.e[i] ELSE UNDEF
With(e, i, v) == [k \in DOMAIN e \union {i} |-> IF k = i THEN v ELSE e[k]]
Below(e, n) == [k \in {d \in DOMAIN e : d < n} |-> e[k]]
\* The array part grows by a little or is given up
Room(x, i) == IF x.kind # "part" \/ i < x.asize THEN x
              ELSE IF i <= x.asize + 1 THEN [x EXCEPT !.asize = i + 2] ELSE [x EXCEPT !.kind = "slow"]
PutIndex(x, i, v) == [Room(x, i) EXCEPT !.e = With(@, i, v),
                                        !.len = IF x.kind = "like" THEN @ ELSE Max({@, i + 1})]
DelIndex(x, i) == [x EXCEPT !.e = [k \in DOMAIN @ \ {i} |-> @[k]]]
PutLength(x, n) == [x EXCEPT !.len = n, !.e = IF x.kind = "like" THEN @ ELSE Below(@, n)]

-----------------------------------------------------------------------------
(* The methods.  A result is the object and the value returned.             *)

Throw(x) == [o |-> x, ret |-> ERROR]
\* duk__arraypart_fastpath_this
FastPath(x) == x.kind = "part" /\ x.len <= x.asize
\* duk__push_this_obj_len_u32_limited
Limited(x) == x.len >= W \div 2
\* duk_to_int_clamped, and a negative index counted from the end
Clamp(n, lo, hi) == Max({lo, Min({n, hi})})
FromEnd(n, len, lo, hi) == LET k == Clamp(n, lo, hi) IN IF k < 0 THEN len + k ELSE k
\* The element at index from, or its absence, goes to index to
MoveElement(x, from, to) == IF Has(x, from) THEN PutIndex(x, to, Get(x, from)) ELSE DelIndex(x, to)
PutItems(x, at, a) == FoldLeft(LAMBDA y, k : PutIndex(y, at + k - 1, a[k]), x, Up(1, Len(a)))
\* duk__array_sort_swap and the body of reverse
Swap(x, l, r) ==
  IF l = r THEN x
  ELSE LET y == IF Has(x, r) THEN PutIndex(x, l, Get(x, r)) ELSE DelIndex(x, l)
       IN  IF Has(x, l) THEN PutIndex(y, r, Get(x, l)) ELSE DelIndex(y, r)

\* duk__array_pop_fastpath, duk_bi_array_prototype_pop
PopFast(x) == IF x.len = 0 THEN [o |-> x, ret |-> UNDEF]
              ELSE [o |-> [DelIndex(x, x.len - 1) EXCEPT !.len = @ - 1], ret |-> Get(x, x.len - 1)]
PopSlow(x) == IF x.len = 0 THEN [o |-> PutLength(x, 0), ret |-> UNDEF]
              ELSE [o |-> PutLength(DelIndex(x, x.len - 1), x.len - 1), ret |-> Get(x, x.len - 1)]
Popped(x) == IF FastPath(x) THEN PopFast(x) ELSE PopSlow(x)

\* duk__array_push_fastpath, duk_bi_array_prototype_push
PushSlow(x, a) ==
  IF (x.len + Len(a)) % W < x.len THEN Throw(x)
  ELSE [o |-> PutLength(PutItems(x, x.len, a), x.len + Len(a)), ret |-> Num(x.len + Len(a))]
PushFast(x, a) ==
  [o |-> [x EXCEPT !.e = [k \in DOMAIN @ \union (x.len..(x.len + Len(a) - 1)) |->
                            IF k < x.len THEN @[k] ELSE a[k - x.len + 1]],
                   !.len = @ + Len(a)], ret |-> Num(x.len + Len(a))]
Pushed(x, a) == IF FastPath(x) /\ (x.len + Len(a)) % W >= x.len /\ x.len + Len(a) <= x.asize
                THEN PushFast(x, a) ELSE PushSlow(x, a)

\* duk_bi_array_prototype_shift
Shifted(x) ==
  IF x.len = 0 THEN [o |-> PutLength(x, 0), ret |-> UNDEF]
  ELSE LET y == FoldLeft(LAMBDA z, i : MoveElement(z, i, i - 1), x, Up(1, x.len - 1))
       IN  [o |-> PutLength(DelIndex(y, x.len - 1), x.len - 1), ret |-> Get(x, 0)]

\* duk_bi_array_prototype_unshift
Unshifted(x, a) ==
  IF (x.len + Len(a)) % W < x.len THEN Throw(x)
  ELSE LET y == FoldLeft(LAMBDA z, i : MoveElement(z, i, i + Len(a)), x, Down(x.len - 1, 0))
       IN  [o |-> PutLength(PutItems(y, 0, a), x.len + Len(a)), ret |-> Num(x.len + Len(a))]

\* duk_bi_array_prototype_splice
Ascending(x, start, del, n) ==                   \* mutant of MakeRoom: moves up in the wrong order
  IF n < del THEN FoldLeft(LAMBDA y, i : DelIndex(y, i),
                           FoldLeft(LAMBDA y, i : MoveElement(y, i + del, i + n), x, Up(start, x.len - del - 1)),
                           Down(x.len - 1, x.len - del + n))
  ELSE FoldLeft(LAMBDA y, i : MoveElement(y, i + del, i + n), x, Up(start, x.len - del - 1))
MakeRoom(x, start, del, n) ==
  CASE n < del -> FoldLeft(LAMBDA y, i : DelIndex(y, i),
                           FoldLeft(LAMBDA y, i : MoveElement(y, i + del, i + n), x, Up(start, x.len - del - 1)),
                           Down(x.len - 1, x.len - del + n))
    [] n > del -> FoldLeft(LAMBDA y, i : MoveElement(y, i + del, i + n), x, Down(x.len - del - 1, start))
    [] n = del -> x
Spliced(x, from, count, a) ==
  LET start == FromEnd(from, x.len, -x.len, x.len)
      del == IF count = NONE THEN x.len - start ELSE Clamp(count[2], 0, x.len - start)
      len == x.len - del + Len(a)
  IN  IF Limited(x) \/ len > W - 1 THEN Throw(x)
      ELSE [o |-> PutLength(PutItems(MakeRoom(x, start, del, Len(a)), start, a), len),
            ret |-> <<"array", [k \in 1..del |-> Row(x)[start + k]]>>]

\* duk_bi_array_prototype_reverse
Reversed(x) == [o |-> FoldLeft(LAMBDA y, i : Swap(y, i, x.len - i - 1), x, Up(0, x.len \div 2 - 1)), ret |-> <<"this">>]

\* duk_bi_array_prototype_slice: the length ends at the last element there is
Sliced(x, from, to) ==
  LET start == FromEnd(from, x.len, -x.len, x.len)
      end == IF to = NONE THEN x.len ELSE FromEnd(to[2], x.len, -x.len, x.len)
      got == {i \in start..(end - 1) : Has(x, i)}
      n == IF got = {} THEN 0 ELSE Max(got) - start + 1
  IN  IF Limited(x) THEN Throw(x)
      ELSE [o |-> x, ret |-> <<"array", [k \in 1..n |-> IF start + k - 1 \in got THEN x.e[start + k - 1] ELSE HOLE]>>]

\* duk_bi_array_prototype_concat: an item is a value, or an object whose Symbol.isConcatSpreadable
\* is "unset", "yes" or "no", with its length and elements and, for a proxy, the indices its
\* has trap admits.  Each part is checked before it is added.
Spreadable(item) == item[1] = "obj" /\ IF item[2].spread = "unset" THEN item[2].array ELSE item[2].spread = "yes"
ElementOf(p, i) == IF p.proxy THEN IF i \in p.has THEN Get(p, i) ELSE HOLE
                   ELSE IF Has(p, i) THEN Get(p, i) ELSE HOLE
ConcatItem(s, item) ==
  CASE s = ERROR -> ERROR
    [] s # ERROR /\ ~Spreadable(item) -> IF (Len(s) + 1) % W = 0 THEN ERROR ELSE Append(s, item)
    [] s # ERROR /\ Spreadable(item) ->
         IF item[2].len >= W \/ (Len(s) + item[2].len) % W < Len(s) THEN ERROR
         ELSE s \o [k \in 1..item[2].len |-> ElementOf(item[2], k - 1)]
ThisItem(x, spread) == <<"obj", [array |-> x.kind # "like", spread |-> spread, proxy |-> FALSE, len |-> x.len, e |-> x.e]>>
Concatenated(x, spread, a) ==
  LET s == FoldLeft(ConcatItem, <<>>, <<ThisItem(x, spread)>> \o a)
  IN  [o |-> x, ret |-> IF s = ERROR THEN ERROR ELSE <<"array", s>>]

\* duk_bi_array_prototype_join_shared: strings are sequences, <<0>> the separator.  What is
\* on the stack is joined when it is too much.
Text(v) == IF v[1] = "num" THEN <<v[2]>> ELSE <<>>
JoinStrings(q) == FlattenSeq([k \in DOMAIN q |-> (IF k > 1 THEN <<0>> ELSE <<>>) \o q[k]])
MaybeJoin(stk, i, len) == IF Len(stk) >= MidJoin \/ i >= len THEN <<JoinStrings(stk)>> ELSE stk
Joined(x) ==
  LET stk == FoldLeft(LAMBDA s, i : Append(MaybeJoin(s, i, x.len), Text(Get(x, i))), <<>>, Up(0, x.len - 1))
  IN  [o |-> x, ret |-> <<"string", MaybeJoin(stk, x.len, x.len)[1]>>]

\* duk_bi_array_prototype_indexof_shared
Found(x, v, from, step) ==
  LET len == x.len
      start == IF from = NONE THEN IF step > 0 THEN 0 ELSE len - 1
               ELSE FromEnd(from[2], len, IF step > 0 THEN -len ELSE -len - 1, IF step > 0 THEN len ELSE len - 1)
      visits == IF step > 0 THEN Up(start, len - 1) ELSE Down(start, 0)
      k == SelectInSeq(visits, LAMBDA i : Has(x, i) /\ x.e[i] = v)
  IN  IF Limited(x) THEN Throw(x)
      ELSE [o |-> x, ret |-> Num(IF len = 0 \/ k = 0 THEN -1 ELSE visits[k])]

\* duk_bi_array_constructor
Constructed(x, a) ==
  IF Len(a) = 1 /\ a[1][1] = "num"
  THEN IF a[1][2] \notin 0..(W - 1) THEN Throw(x)
       ELSE [o |-> [kind |-> "part", asize |-> Min({a[1][2], Prealloc}), len |-> a[1][2], e |-> <<>>], ret |-> <<"this">>]
  ELSE [o |-> [kind |-> "part", asize |-> Len(a), len |-> Len(a), e |-> [i \in 0..(Len(a) - 1) |-> a[i + 1]]], ret |-> <<"this">>]

-----------------------------------------------------------------------------
(* The reference: the same methods on rows, as ECMAScript describes their    *)
(* outcome.  past marks the calls ECMAScript gives a meaning that this code  *)
(* refuses: a row that grows past W - 1 elements, which push and unshift     *)
(* write (an Array then throws for its length only, other objects simply get *)
(* it), and rows of W / 2 elements and more in splice, slice, indexOf, sort. *)

IsHole(v) == v = HOLE
Value(v) == IF IsHole(v) THEN UNDEF ELSE v
Gives(r, v) == [row |-> r, ret |-> v, past |-> Len(r) > W - 1]
Signed(q, g) == [g EXCEPT !.past = @ \/ Len(q) >= W \div 2]
RelativeTo(n, len) == IF n < 0 THEN Max({len + n, 0}) ELSE Min({n, len})
Last1(S) == IF S = {} THEN -1 ELSE Max(S)
First1(S) == IF S = {} THEN -1 ELSE Min(S)
RefPush(q, a) == Gives(q \o a, Num(Len(q) + Len(a)))
RefPop(q) == IF q = <<>> THEN Gives(q, UNDEF) ELSE Gives(Front(q), Value(Last(q)))
RefShift(q) == IF q = <<>> THEN Gives(q, UNDEF) ELSE Gives(Tail(q), Value(Head(q)))
RefUnshift(q, a) == Gives(a \o q, Num(Len(q) + Len(a)))
RefSplice(q, from, count, a) ==
  LET s == RelativeTo(from, Len(q))
      d == IF count = NONE THEN Len(q) - s ELSE Min({Max({count[2], 0}), Len(q) - s})
  IN  Signed(q, Gives(SubSeq(q, 1, s) \o a \o SubSeq(q, s + d + 1, Len(q)), <<"array", SubSeq(q, s + 1, s + d)>>))
RefSlice(q, from, to) ==
  LET s == RelativeTo(from, Len(q))
      t == IF to = NONE THEN Len(q) ELSE RelativeTo(to[2], Len(q))
      n == Last1({k \in (s + 1)..t : ~IsHole(q[k])})
  IN  Signed(q, Gives(q, <<"array", SubSeq(q, s + 1, n)>>))
Present(p) == {i \in 0..(p.len - 1) : i \in IF p.proxy THEN p.has ELSE DOMAIN p.e}
Parts(item) == IF Spreadable(item)
               THEN [k \in 1..item[2].len |-> IF k - 1 \in Present(item[2]) THEN Get(item[2], k - 1) ELSE HOLE]
               ELSE <<item>>
RefConcat(q, this, a) ==
  LET all == (IF Spreadable(this) THEN q ELSE <<this>>) \o FlattenSeq([k \in DOMAIN a |-> Parts(a[k])])
  IN  Gives(q, IF Len(all) > W - 1 THEN ERROR ELSE <<"array", all>>)
RefJoin(q) == Gives(q, <<"string", JoinStrings([k \in DOMAIN q |-> Text(q[k])])>>)
RefIndexOf(q, v, from) ==
  Signed(q, Gives(q, Num(First1({k - 1 : k \in
    {j \in (RelativeTo(IF from = NONE THEN 0 ELSE from[2], Len(q)) + 1)..Len(q) : q[j] = v}}))))
RefLastIndexOf(q, v, from) ==
  LET t == IF from = NONE THEN Len(q) - 1 ELSE IF from[2] < 0 THEN Len(q) + from[2] ELSE from[2]
  IN  Signed(q, Gives(q, Num(Last1({k - 1 : k \in {j \in DOMAIN q : j - 1 <= t /\ q[j] = v}}))))
RefConstruct(q, a) ==
  IF Len(a) = 1 /\ a[1][1] = "num"
  THEN IF a[1][2] \in 0..(W - 1) THEN Gives([k \in 1..a[1][2] |-> HOLE], <<"this">>) ELSE Gives(q, ERROR)
  ELSE Gives(a, <<"this">>)

-----------------------------------------------------------------------------
Idle == [op |-> "idle"]
Init == /\ o \in Starts /\ want = Row(o) /\ ret = UNDEF /\ wret = UNDEF
        /\ past = FALSE /\ job = Idle /\ ops = 0

\* A method that runs to its end
Call(got, ref) ==
  /\ job = Idle /\ ops < MaxOps /\ ops' = ops + 1
  /\ o' = got.o /\ ret' = got.ret /\ past' = ref.past
  /\ want' = (IF ref.past THEN want ELSE ref.row) /\ wret' = ref.ret /\ UNCHANGED job

Pop == Call(Popped(o), RefPop(want))
Push == \E a \in Items : Call(Pushed(o, a), RefPush(want, a))
Shift == Call(Shifted(o), RefShift(want))
Unshift == \E a \in Items : Call(Unshifted(o, a), RefUnshift(want, a))
Splice == \E from \in Froms, c \in Counts \union {NONE}, a \in Items :
            (c = NONE => a = <<>>) /\ Call(Spliced(o, from, c, a), RefSplice(want, from, c, a))
Reversal == Call(Reversed(o), Gives(Reverse(want), <<"this">>))
Slice == \E from \in Froms, to \in {Num(n) : n \in Froms} \union {NONE} :
           Call(Sliced(o, from, to), RefSlice(want, from, to))
Concat == \E a \in Pieces, spread \in {"unset", "yes", "no"} :
            Call(Concatenated(o, spread, a), RefConcat(want, ThisItem(o, spread), a))
Join == Call(Joined(o), RefJoin(want))
IndexOf == \E v \in {Num(1), UNDEF}, from \in {Num(n) : n \in Froms} \union {NONE} :
             \/ Call(Found(o, v, from, 1), RefIndexOf(want, v, from))
             \/ Call(Found(o, v, from, -1), RefLastIndexOf(want, v, from))
New == \E a \in Items \union {<<Num(n)>> : n \in {-1, 1, W - 1, W}} : Call(Constructed(o, a), RefConstruct(want, a))

-----------------------------------------------------------------------------
(* sort: ranges still to sort are on job.todo, the first one is being        *)
(* partitioned around its first element unless at is "enter".  own is        *)
(* whether user code compares (a compare function, or the toString of the    *)
(* elements): then any answer may come, or an error, and the array may be    *)
(* changed.  from is what user code last left.                               *)

\* duk__array_sort_compare: the answers, and whether user code is asked
Compare(x, i, j, own) ==
  IF i = j THEN {0}
  ELSE IF ~Has(x, i) \/ ~Has(x, j) THEN {IF Has(x, i) THEN -1 ELSE IF Has(x, j) THEN 1 ELSE 0}
  ELSE IF UNDEF \in {x.e[i], x.e[j]} THEN {IF x.e[i] # UNDEF THEN -1 ELSE IF x.e[j] # UNDEF THEN 1 ELSE 0}
  ELSE IF own THEN {-1, 0, 1}
  ELSE {IF x.e[i][2] < x.e[j][2] THEN -1 ELSE IF x.e[i][2] > x.e[j][2] THEN 1 ELSE 0}
Asked(x, i, j, own) == own /\ i # j /\ Has(x, i) /\ Has(x, j) /\ UNDEF \notin {x.e[i], x.e[j]}

\* What user code may do to the array: nothing, drop what follows, append, fill the next
Cut(x, n) == [x EXCEPT !.len = n, !.e = Below(@, n)]
Fill(x, i, v) == PutLength(PutIndex(x, i, v), Max({x.len, i + 1}))
Effects(x, i) == {x, Cut(x, Min({i + 1, x.len})), Cut(x, 0)}
                 \union (IF x.len \in 1..3 THEN {Fill(x, x.len, Num(9)), Fill(x, i + 1, Num(8))} ELSE {})

SortStart ==
  /\ job = Idle /\ ops < MaxOps /\ ops' = ops + 1 /\ past' = Limited(o)
  /\ IF Limited(o) THEN ret' = ERROR /\ UNCHANGED job
     ELSE /\ \E own \in BOOLEAN :
               job' = [op |-> "sort", own |-> own, from |-> o.e, len |-> o.len, changes |-> 0,
                       at |-> "enter", l |-> 0, r |-> 0,
                       todo |-> IF o.len > 0 THEN <<<<0, o.len - 1>>>> ELSE <<>>]
          /\ UNCHANGED ret
  /\ UNCHANGED <<o, want, wret>>
InSort(at) == job.op = "sort" /\ job.todo # <<>> /\ job.at = at
SortSame == UNCHANGED <<want, past, ret, wret, ops>>
Lo == job.todo[1][1]
Hi == job.todo[1][2]
\* duk__array_qsort
SortEnter ==
  /\ InSort("enter") /\ SortSame
  /\ IF Hi - Lo < 1 THEN job' = [job EXCEPT !.todo = Tail(@)] /\ UNCHANGED o
     ELSE \E p \in Lo..Hi : /\ o' = Swap(o, p, Lo)
                            /\ job' = [job EXCEPT !.at = "left", !.l = Lo + 1, !.r = Hi]
\* The comparison of i with j: c is its answer, o' what user code leaves
SortAsk(i, j, c) ==
  /\ c \in Compare(o, i, j, job.own)
  /\ o' \in IF Asked(o, i, j, job.own) /\ job.changes < MaxChanges THEN Effects(o, i) ELSE {o}
Saw(j) == IF o' = o THEN j ELSE [j EXCEPT !.from = o'.e, !.changes = @ + 1]
SortLeft ==
  /\ InSort("left") /\ SortSame
  /\ \/ job.l >= Hi /\ job' = [job EXCEPT !.at = "right"] /\ UNCHANGED o
     \/ job.l < Hi /\ \E c \in -1..1 :
          /\ SortAsk(job.l, Lo, c)
          /\ job' = IF c >= 0 THEN [Saw(job) EXCEPT !.at = "right"] ELSE [Saw(job) EXCEPT !.l = @ + 1]
SortRight ==
  /\ InSort("right") /\ SortSame
  /\ \/ job.r <= Lo /\ job' = [job EXCEPT !.at = "swap"] /\ UNCHANGED o
     \/ job.r > Lo /\ \E c \in -1..1 :
          /\ SortAsk(Lo, job.r, c)
          /\ job' = IF c >= 0 THEN [Saw(job) EXCEPT !.at = "swap"] ELSE [Saw(job) EXCEPT !.r = @ - 1]
\* User code throws out of a comparison
SortThrow ==
  /\ \/ InSort("left") /\ job.l < Hi /\ Asked(o, job.l, Lo, job.own)
     \/ InSort("right") /\ job.r > Lo /\ Asked(o, Lo, job.r, job.own)
  /\ job' = Idle /\ ret' = ERROR /\ wret' = ERROR /\ want' = Row(o) /\ UNCHANGED <<o, past, ops>>
PivotPlace(l, r) == r
SortSwap ==
  /\ InSort("swap") /\ SortSame
  /\ IF job.l >= job.r
     THEN LET p == PivotPlace(job.l, job.r)
          IN  /\ o' = Swap(o, Lo, p)
              /\ job' = [job EXCEPT !.at = "enter", !.todo = <<<<Lo, p - 1>>, <<p + 1, Hi>>>> \o Tail(@)]
     ELSE /\ o' = Swap(o, job.l, job.r)
          /\ job' = [job EXCEPT !.at = "left", !.l = @ + 1, !.r = @ - 1]
SortEnd ==
  /\ job.op = "sort" /\ job.todo = <<>>
  /\ job' = Idle /\ ret' = <<"this">> /\ wret' = <<"this">> /\ want' = Row(o) /\ UNCHANGED <<o, past, ops>>

-----------------------------------------------------------------------------
(* every, some, forEach, map and filter: seen is what the callback was given *)
(* and what it answered.                                                     *)

IterStart ==
  /\ job = Idle /\ ops < MaxOps /\ ops' = ops + 1
  /\ \E type \in {"every", "some", "forEach", "map", "filter"} :
       job' = [op |-> type, i |-> 0, len |-> o.len, res |-> <<>>, n |-> 0, seen |-> <<>>, stop |-> FALSE]
  /\ past' = FALSE /\ UNCHANGED <<o, want, ret, wret>>
InIter == job.op \in {"every", "some", "forEach", "map", "filter"}
\* The callback's answer b to the value v at index j.i
PutAt(j, i, v, n) == [j EXCEPT !.res = [k \in 1..n |-> IF k = i + 1 THEN v ELSE IF k <= Len(@) THEN @[k] ELSE HOLE], !.n = n]
Answered(j, v, b) ==
  CASE j.op = "every" -> [j EXCEPT !.stop = ~b]
    [] j.op = "some" -> [j EXCEPT !.stop = b]
    [] j.op = "forEach" -> j
    [] j.op = "map" -> PutAt(j, j.i, Num(IF b THEN 1 ELSE 0), j.i + 1)
    [] j.op = "filter" -> IF b THEN PutAt(j, j.n, v, j.n + 1) ELSE j
Missing(j) == IF j.op = "map" THEN PutAt(j, j.i, HOLE, j.i + 1) ELSE j
Iterate ==
  /\ InIter /\ ~job.stop /\ job.i < job.len
  /\ IF ~Has(o, job.i) THEN job' = [Missing(job) EXCEPT !.i = @ + 1] /\ UNCHANGED o
     ELSE \E b \in BOOLEAN, x \in Effects(o, job.i) :
            LET v == Get(o, job.i) IN
            /\ job' = [Answered(job, v, b) EXCEPT !.i = @ + 1, !.seen = Append(@, <<job.i, v, b>>)]
            /\ o' = x
  /\ UNCHANGED <<want, past, ret, wret, ops>>
IterResult(j) == CASE j.op = "every" -> <<"bool", ~j.stop>>
                   [] j.op = "some" -> <<"bool", j.stop>>
                   [] j.op = "forEach" -> UNDEF
                   [] OTHER -> <<"array", j.res>>
\* The result, from what the callback was asked and answered
RefResult(j) == LET yes == SelectSeq(j.seen, LAMBDA s : s[3]) IN
  CASE j.op = "every" -> <<"bool", yes = j.seen>>
    [] j.op = "some" -> <<"bool", yes # <<>>>>
    [] j.op = "forEach" -> UNDEF
    [] j.op = "filter" -> <<"array", [k \in DOMAIN yes |-> yes[k][2]]>>
    [] j.op = "map" -> <<"array", [k \in 1..j.len |->
         IF \E s \in Range(j.seen) : s[1] = k - 1
         THEN Num(IF <<k - 1, TRUE>> \in {<<s[1], s[3]>> : s \in Range(j.seen)} THEN 1 ELSE 0) ELSE HOLE]>>
IterEnd ==
  /\ InIter /\ (job.stop \/ job.i >= job.len)
  /\ ret' = IterResult(job) /\ wret' = RefResult(job) /\ want' = Row(o) /\ job' = Idle /\ UNCHANGED <<o, past, ops>>

-----------------------------------------------------------------------------
(* reduce and reduceRight, with a callback that puts its arguments in order. *)

Ends(i, len) == i >= len
ReduceFrom(step, len) == IF step > 0 THEN 0 ELSE (len - 1) % W
ReduceStart ==
  /\ job = Idle /\ ops < MaxOps /\ ops' = ops + 1
  /\ \E step \in {1, -1}, init \in BOOLEAN :
       job' = [op |-> "reduce", step |-> step, i |-> ReduceFrom(step, o.len), len |-> o.len,
               init |-> init, have |-> init, acc |-> IF init THEN <<Num(0)>> ELSE <<>>]
  /\ past' = FALSE /\ UNCHANGED <<o, want, ret, wret>>
Reduce ==
  /\ job.op = "reduce" /\ ~Ends(job.i, job.len)
  /\ job' = [job EXCEPT !.i = (@ + job.step) % W, !.have = @ \/ Has(o, job.i),
                        !.acc = IF Has(o, job.i) THEN Append(@, Get(o, job.i)) ELSE @]
  /\ UNCHANGED <<o, want, past, ret, wret, ops>>
RefReduce(q, step, init) ==
  LET p == (IF init THEN <<Num(0)>> ELSE <<>>) \o SelectSeq(IF step > 0 THEN q ELSE Reverse(q), LAMBDA v : ~IsHole(v))
  IN  IF p = <<>> THEN ERROR ELSE <<"acc", p>>
ReduceEnd ==
  /\ job.op = "reduce" /\ Ends(job.i, job.len)
  /\ ret' = IF job.have THEN <<"acc", job.acc>> ELSE ERROR
  /\ wret' = RefReduce(want, job.step, job.init) /\ job' = Idle /\ UNCHANGED <<o, want, past, ops>>

Next == \/ Pop \/ Push \/ Shift \/ Unshift \/ Splice \/ Reversal \/ Slice \/ Concat \/ Join \/ IndexOf \/ New
        \/ SortStart \/ SortEnter \/ SortLeft \/ SortRight \/ SortSwap \/ SortThrow \/ SortEnd
        \/ IterStart \/ Iterate \/ IterEnd \/ ReduceStart \/ Reduce \/ ReduceEnd
Spec == Init /\ [][Next]_vars

-----------------------------------------------------------------------------
(* A method leaves the elements, holes and length, and returns the value, that  *)
(* ECMAScript describes, on the fast path and on the slow one, for arrays and   *)
(* array-like objects.  A call past the range the methods work in throws        *)
(* instead and leaves everything as it was.  ECMAScript, the comment at the top *)
(* of duk_bi_array.c and test-bi-array-push-maxlen.js have push write its items *)
(* first, and let other objects than arrays grow longer: the code does neither. *)
ArraysAgree == job = Idle => Row(o) = want /\ ret = IF past THEN ERROR ELSE wret

(* No element of an array is at or above its length, or outside its array part. *)
ElementsInside == o.kind # "like" => /\ \A i \in DOMAIN o.e : i < o.len
                                     /\ o.kind = "part" => \A i \in DOMAIN o.e : i < o.asize

(* Whatever the compare function answers or does to the array, sort stays       *)
(* within the range it partitions, and neither loses nor repeats an element     *)
(* that user code left.  When the array is not changed behind its back it keeps *)
(* its length and ends with undefined and then the holes last; and with a       *)
(* consistent order the values are sorted.                                      *)
Rank(v) == IF IsHole(v) THEN 2 ELSE IF v = UNDEF THEN 1 ELSE 0
Times(e, v) == Cardinality({i \in DOMAIN e : e[i] = v})
SortSound == job.op = "sort" =>
  LET q == Row(o) IN
  /\ \A v \in Range(o.e) \union Range(job.from) : Times(o.e, v) = Times(job.from, v)
  /\ job.todo # <<>> /\ job.at # "enter" => job.l \in Lo..Hi /\ job.r \in Lo..Hi
  /\ job.changes = 0 => o.len = job.len
  /\ job.changes = 0 /\ job.todo = <<>> => \A k \in 1..(Len(q) - 1) :
       /\ Rank(q[k]) <= Rank(q[k + 1])
       /\ ~job.own /\ Rank(q[k + 1]) = 0 => q[k][2] <= q[k + 1][2]

(* An iteration asks its callback about each index at most once, in order, and  *)
(* never about one beyond the length there was at its start.                    *)
IterationInOrder == InIter =>
  /\ \A k \in 1..(Len(job.seen) - 1) : job.seen[k][1] < job.seen[k + 1][1]
  /\ \A s \in Range(job.seen) : s[1] < job.len
=============================================================================

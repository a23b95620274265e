----------------------------- MODULE DukStrings -----------------------------
(***************************************************************************)
(* The string table (duk_heap_stringtable.c), the string offset cache      *)
(* (duk_heap_stringcache.c), the literal cache, and allocation with its    *)
(* garbage collection and retry loop (duk_heap_memory.c), which the table  *)
(* uses while it is half way through an operation.                         *)
(*                                                                         *)
(* A string lives at an address; a freed address is used again for another *)
(* string, so that anything that keeps a pointer too long shows.  Other    *)
(* allocations are one resizable block blk, reallocated through            *)
(* duk_heap_mem_realloc_indirect.                                          *)
(***************************************************************************)
EXTENDS Integers, Sequences, FiniteSets

CONSTANTS Addr,      \* addresses of hstrings
          Contents,  \* possible contents
          NULL,
          Hash,      \* duk_heap_hashstring: Contents -> Nat
          Utf8,      \* Contents -> Seq({0, 1}): a byte is 1 for 10xxxxxx, else 0
          Lit,       \* addresses of C literals: Lit -> Contents
          LitKey,    \* duk__strtable_litcache_key: Lit -> entry
          MinSize, MaxSize,      \* DUK_USE_STRTAB_MINSIZE, MAXSIZE
          LoadUnit,              \* the load is counted in st_size / LoadUnit
          GrowLimit, ShrinkLimit,   \* limits of the load
          CheckEvery,            \* DUK_USE_STRTAB_RESIZE_CHECK_MASK + 1
          CacheSize, NoCache,    \* DUK_HEAP_STRCACHE_SIZE, NOCACHE_LIMIT
          RetryLimit, EmergencyLimit   \* DUK_HEAP_ALLOC_FAIL_MARKANDSWEEP_(EMERGENCY_)LIMIT

\* ECMAScript strings are extended UTF-8 and do not begin with a continuation byte.
\* Symbols do, but only the C API indexes them by character; they are left out.
ASSUME StringsAssumption ==
  /\ IsFiniteSet(Addr) /\ NULL \notin Addr \cup Contents \cup DOMAIN Lit
  /\ Hash \in [Contents -> Nat]
  /\ Utf8 \in [Contents -> Seq({0, 1})] /\ \A c \in Contents : Utf8[c] # <<>> => Utf8[c][1] = 0
  /\ Lit \in [DOMAIN Lit -> Contents] /\ LitKey \in [DOMAIN Lit -> Nat]
  /\ MinSize \in Nat \ {0} /\ MaxSize \in Nat /\ LoadUnit \in 1..MinSize
  /\ CacheSize \in Nat \ {0} /\ NoCache \in Nat /\ CheckEvery \in Nat \ {0}
  /\ GrowLimit \in Nat /\ ShrinkLimit \in Nat /\ RetryLimit \in Nat /\ EmergencyLimit \in Nat

VARIABLES
  m,     \* [mem, size, tab, count, tabptr, resizing, cache, lit, pinned]: the heap
  held,  \* references the program has to each string
  lost,  \* strings unreachable cycles refer to
  pf,    \* pf_prevent_count
  op,    \* the operation in progress
  blk    \* [ptr, stale]: the other block, and whether a stale pointer was used

vars == <<m, held, lost, pf, op, blk>>
Idle == [pc |-> "idle", c |-> NULL, lit |-> NULL, try |-> 0, ptr |-> 0]
Live(t) == {a \in Addr : t.mem[a] # NULL}
NoEntry == [h |-> NULL, c |-> 0, b |-> 0]
LitKeys == {LitKey[l] : l \in DOMAIN Lit}

Init ==
  /\ m = [mem |-> [a \in Addr |-> NULL], size |-> MinSize,
          tab |-> [i \in 0..MinSize - 1 |-> [a \in Addr |-> 0]],
          count |-> 0, tabptr |-> 0, resizing |-> FALSE,
          cache |-> [i \in 1..CacheSize |-> NoEntry],
          lit |-> [k \in LitKeys |-> [addr |-> NULL, h |-> NULL]], pinned |-> {}]
  /\ held = [a \in Addr |-> 0] /\ lost = {}
  /\ pf = 0 /\ op = Idle /\ blk = [ptr |-> 0, stale |-> FALSE]

-----------------------------------------------------------------------------
(* The table.  The chain of a slot is the bag of the strings linked in it: *)
(* nothing depends on their order.                                         *)

\* The slot of a string: hash & st_mask.
Slot(t, c) == Hash[c] % t.size

\* duk_heap_strtable_intern: the string found in its chain, or NULL.
Lookup(t, c) ==
  LET found == {a \in Addr : t.tab[Slot(t, c)][a] > 0 /\ t.mem[a] = c}
  IN  IF found = {} THEN NULL ELSE CHOOSE a \in found : TRUE

\* duk__strtable_grow_inplace: the strings whose hash has the new bit are moved to a
\* chain of their own.
Split(t, i, high) ==
  [a \in Addr |->
     IF t.tab[i][a] > 0 /\ (((Hash[t.mem[a]] \div t.size) % 2 = 1) <=> high) THEN t.tab[i][a] ELSE 0]
Grown(t) ==
  [t EXCEPT !.tab = [i \in 0..2 * t.size - 1 |->
                       IF i < t.size THEN Split(t, i, FALSE) ELSE Split(t, i - t.size, TRUE)],
            !.size = 2 * t.size, !.tabptr = 1 - @]

\* duk__strtable_shrink_inplace: the high chain is appended to the low one, after
\* which the table is reallocated.
Shrunk(t) ==
  LET n == t.size \div 2
  IN  [t EXCEPT !.tab = [i \in 0..n - 1 |-> [a \in Addr |-> t.tab[i][a] + t.tab[i + n][a]]],
                !.size = n]
Moved(t) == [t EXCEPT !.tabptr = 1 - @]

\* duk__strtable_resize_check: what a check asks for.
ResizeNeeded(t) ==
  LET load == t.count \div (t.size \div LoadUnit)
  IN  IF t.resizing THEN "none"
      ELSE IF load >= GrowLimit THEN IF t.size < MaxSize THEN "grow" ELSE "none"
      ELSE IF load <= ShrinkLimit /\ t.size > MinSize THEN "shrink" ELSE "none"

\* The end of duk__strtable_do_intern: the new string is linked into the chain its
\* slot has now.
Insert(t, a, c) ==
  [t EXCEPT !.mem[a] = c, !.count = @ + 1, !.tab[Slot(t, c)][a] = @ + 1]

\* duk_heap_strcache_string_remove.
Uncached(cache, gone) ==
  [i \in DOMAIN cache |->
     IF cache[i].h \in gone THEN NoEntry ELSE cache[i]]

\* duk__refcount_refzero_hstring: the string is removed from the offset cache,
\* unlinked (duk_heap_strtable_unlink) and freed.
FreeString(t, a) ==
  [t EXCEPT !.cache = Uncached(@, {a}), !.count = @ - 1, !.mem[a] = NULL,
            !.pinned = @ \ {a}, !.tab[Slot(t, t.mem[a])][a] = @ - 1]

-----------------------------------------------------------------------------
(* Mark-and-sweep, as far as strings are concerned: duk__wipe_litcache,    *)
(* duk__sweep_stringtable, and in emergency mode                           *)
(* duk_heap_strtable_force_resize, whose allocation may fail (there is no  *)
(* nested collection).                                                     *)

WipeLitcache(t) == [t EXCEPT !.lit = [k \in DOMAIN @ |-> [addr |-> NULL, h |-> NULL]]]

\* The unreachable strings of every chain are removed from the offset cache, unlinked
\* (duk_heap_strtable_unlink_prev) and freed.
Sweep(t, gone) ==
  [t EXCEPT !.cache = Uncached(@, gone), !.count = @ - Cardinality(gone),
            !.mem = [a \in Addr |-> IF a \in gone THEN NULL ELSE @[a]],
            !.pinned = @ \ gone,
            !.tab = [i \in DOMAIN @ |-> [a \in Addr |-> IF a \in gone THEN 0 ELSE @[i][a]]]]
Unreachable(t) == {a \in Live(t) : held[a] = 0}

ForceResize(t) ==
  CASE ResizeNeeded(t) = "grow"   -> {t, Grown(t)}
    [] ResizeNeeded(t) = "shrink" -> {Moved(Shrunk(t))}
    [] OTHER -> {t}

\* A collection leaves one of these heaps.
Collected(emergency) ==
  LET w == WipeLitcache(m)
      t == Sweep(w, Unreachable(w))
  IN  IF emergency THEN ForceResize(t) ELSE {t}

\* duk_heap_process_finalize_list at its end: unless prevented, finalizers run
\* and may intern anything.
FinalizerInterns(t) ==
  {t} \cup (IF pf > 0 THEN {}
            ELSE {Insert(t, a, c) : a \in Addr \ Live(t), c \in {d \in Contents : Lookup(t, d) = NULL}})

GC(emergency) ==
  \E t \in Collected(emergency) : \E u \in FinalizerInterns(t) :
    /\ m' = u
    /\ lost' = (lost \cap Live(t)) \cup (Live(u) \ Live(t))

-----------------------------------------------------------------------------
(* Interning.                                                              *)

\* The caller gets the string; intern_literal_checked then fills the cache entry
\* and pins the string with a reference.
Returned(t, a, l) ==
  /\ m' = IF l = NULL THEN t
          ELSE [t EXCEPT !.lit[LitKey[l]] = [addr |-> l, h |-> a], !.pinned = @ \cup {a}]
  /\ held' = [held EXCEPT ![a] = @ + 1]

MaxHeld == 2

\* duk_heap_strtable_intern finds the string.
InternHit(c, l) ==
  /\ op.pc = "idle"
  /\ LET a == Lookup(m, c)
     IN  a # NULL /\ held[a] < MaxHeld /\ Returned(m, a, l)
  /\ UNCHANGED <<lost, pf, op, blk>>

\* duk_heap_strtable_intern_literal_checked finds the literal in the cache.
LitcacheHit(l) ==
  /\ op.pc = "idle"
  /\ LET e == m.lit[LitKey[l]]
     IN  /\ e.addr = l /\ held[e.h] < MaxHeld
         /\ held' = [held EXCEPT ![e.h] = @ + 1]
  /\ UNCHANGED <<m, lost, pf, op, blk>>

\* It does not: duk__strtable_do_intern begins and prevents finalizers.
NoPrevent == pf   \* mutant of PreventFinalizers
PreventFinalizers == pf + 1
InternMiss(c, l) ==
  /\ op.pc = "idle" /\ Lookup(m, c) = NULL
  /\ pf' = PreventFinalizers
  /\ op' = [Idle EXCEPT !.pc = IF m.count % CheckEvery = 0 THEN "resize" ELSE "alloc", !.c = c, !.lit = l]
  /\ UNCHANGED <<m, held, lost, blk>>

\* duk__strtable_resize_check on behalf of do_intern, up to the DUK_REALLOC of the
\* table, which is given the pointer read here.
ResizeCheck ==
  /\ op.pc = "resize"
  /\ LET r == ResizeNeeded(m)
     IN  /\ m' = CASE r = "grow" -> [m EXCEPT !.resizing = TRUE]
                   [] r = "shrink" -> [Shrunk(m) EXCEPT !.resizing = TRUE]
                   [] r = "none" -> m
         /\ op' = [op EXCEPT !.pc = IF r = "none" THEN "alloc" ELSE r, !.ptr = m.tabptr]
  /\ UNCHANGED <<held, lost, pf, blk>>

\* The reallocation succeeds, also after collections made for it; growing may be given
\* up, making the table smaller cannot fail.
Realloced ==
  /\ op.pc \in {"grow", "shrink"}
  /\ m' = [(IF op.pc = "grow" THEN Grown(m) ELSE Moved(m)) EXCEPT !.resizing = FALSE]
  /\ blk' = [blk EXCEPT !.stale = @ \/ op.ptr # m.tabptr]
  /\ op' = [op EXCEPT !.pc = "alloc", !.try = 0]
  /\ UNCHANGED <<held, lost, pf>>

GrowGiveUp ==
  /\ op.pc = "grow" /\ op.try = RetryLimit
  /\ m' = [m EXCEPT !.resizing = FALSE]
  /\ op' = [op EXCEPT !.pc = "alloc", !.try = 0]
  /\ UNCHANGED <<held, lost, pf, blk>>

\* One failed attempt of the retry loop of duk_heap_mem_alloc or realloc.
Retry ==
  /\ op.pc \in {"grow", "shrink", "alloc", "blk"} /\ op.try < RetryLimit
  /\ GC(op.try >= EmergencyLimit - 1)
  /\ op' = [op EXCEPT !.try = @ + 1]
  /\ \/ UNCHANGED blk
     \* emergency collections compact objects, which moves their blocks
     \/ op.try >= EmergencyLimit - 1 /\ blk' = [blk EXCEPT !.ptr = 1 - @]
  /\ UNCHANGED <<held, pf>>

\* duk__strtable_alloc_hstring succeeds and the string is linked.
AllocOk ==
  /\ op.pc = "alloc"
  /\ \E a \in Addr \ Live(m) : Returned(Insert(m, a, op.c), a, op.lit)
  /\ pf' = IF pf = 0 THEN 0 ELSE pf - 1
  /\ op' = Idle
  /\ UNCHANGED <<lost, blk>>

\* Out of memory: an error is thrown.
AllocFails ==
  /\ op.pc = "alloc" /\ op.try = RetryLimit
  /\ pf' = pf - 1 /\ op' = Idle
  /\ UNCHANGED <<m, held, lost, blk>>

-----------------------------------------------------------------------------
(* Resizing another block with duk_heap_mem_realloc_indirect: the callback *)
(* reads the pointer at every attempt.                                     *)

BlkBegin ==
  /\ op.pc = "idle"
  /\ op' = [Idle EXCEPT !.pc = "blk", !.ptr = blk.ptr]
  /\ UNCHANGED <<m, held, lost, pf, blk>>

GetPtr(o, b) == b.ptr

BlkOk ==
  /\ op.pc = "blk"
  /\ blk' = [ptr |-> 1 - blk.ptr, stale |-> blk.stale \/ GetPtr(op, blk) # blk.ptr]
  /\ op' = Idle
  /\ UNCHANGED <<m, held, lost, pf>>

BlkFails ==
  /\ op.pc = "blk" /\ op.try = RetryLimit
  /\ op' = Idle
  /\ UNCHANGED <<m, held, lost, pf, blk>>

-----------------------------------------------------------------------------
(* The program drops a reference: the last one frees the string unless it  *)
(* is pinned; or its last reference is in a cycle the program drops.       *)

Release(a) ==
  /\ op.pc = "idle" /\ held[a] > 0
  /\ held' = [held EXCEPT ![a] = @ - 1]
  /\ m' = IF held[a] = 1 /\ a \notin m.pinned \cup lost THEN FreeString(m, a) ELSE m
  /\ UNCHANGED <<lost, pf, op, blk>>

Orphan(a) ==
  /\ op.pc = "idle" /\ held[a] = 1
  /\ held' = [held EXCEPT ![a] = 0]
  /\ lost' = lost \cup {a}
  /\ UNCHANGED <<m, pf, op, blk>>

\* A collection at any other time.
Collect ==
  /\ op.pc = "idle"
  /\ GC(FALSE)
  /\ UNCHANGED <<held, pf, op, blk>>

-----------------------------------------------------------------------------
(* duk_heap_strcache_offset_char2byte.                                     *)

\* duk__scan_forwards and duk__scan_backwards from byte p by n characters; NULL is an
\* error.
Begins(d, from, to) == {q \in from..to : d[q + 1] = 0}
ScanForwards(d, p, n) ==
  LET far == {q \in Begins(d, p + 1, Len(d) - 1) : Cardinality(Begins(d, p + 1, q)) = n}
  IN  IF n = 0 THEN p ELSE IF far = {} THEN NULL ELSE CHOOSE q \in far : TRUE
ScanBackwards(d, p, n) ==
  LET far == {q \in Begins(d, 0, p - 1) : Cardinality(Begins(d, q, p - 1)) = n}
  IN  IF n = 0 THEN p ELSE IF far = {} THEN NULL ELSE CHOOSE q \in far : TRUE

Chars(d) == Cardinality(Begins(d, 0, Len(d) - 1))
Ascii(d) == Chars(d) = Len(d)
UseCache(d) == Chars(d) > NoCache

\* The first cache entry of a string, or 0.
CacheIndex(t, a) ==
  LET found == {i \in 1..CacheSize : t.cache[i].h = a}
  IN  IF found = {} THEN 0 ELSE CHOOSE i \in found : \A j \in found : i <= j

\* The cached position is used when it is the nearest of the three.
Distance(x, y) == IF x >= y THEN x - y ELSE y - x
Char2Byte(t, a, off) ==
  LET d == Utf8[t.mem[a]]
      i == IF UseCache(d) THEN CacheIndex(t, a) ELSE 0
      e == t.cache[i]
      near == i > 0 /\ Distance(off, e.c) <= off /\ Distance(off, e.c) <= Chars(d) - off
  IN  IF Ascii(d) THEN off
      ELSE IF near THEN IF off >= e.c THEN ScanForwards(d, e.b, off - e.c)
                        ELSE ScanBackwards(d, e.b, e.c - off)
      ELSE IF off <= Chars(d) - off THEN ScanForwards(d, 0, off)
      ELSE ScanBackwards(d, Len(d), Chars(d) - off)

\* The entry moves to the front; a string without one takes the last.
Cached(t, a, off) ==
  LET k == IF CacheIndex(t, a) = 0 THEN CacheSize ELSE CacheIndex(t, a)
      e == [h |-> a, c |-> off, b |-> Char2Byte(t, a, off)]
  IN  IF Ascii(Utf8[t.mem[a]]) \/ ~UseCache(Utf8[t.mem[a]]) THEN t
      ELSE [t EXCEPT !.cache = [i \in 1..CacheSize |->
                                  IF i = 1 THEN e ELSE IF i <= k THEN t.cache[i - 1] ELSE t.cache[i]]]

CharAt(a, off) ==
  /\ op.pc = "idle" /\ held[a] > 0 /\ off \in 0..Chars(Utf8[m.mem[a]])
  /\ m' = Cached(m, a, off)
  /\ UNCHANGED <<held, lost, pf, op, blk>>

-----------------------------------------------------------------------------
MaxChars == 2

Next ==
  \/ \E c \in Contents : InternHit(c, NULL) \/ InternMiss(c, NULL)
  \/ \E l \in DOMAIN Lit : \/ LitcacheHit(l)
                           \/ /\ m.lit[LitKey[l]].addr # l
                              /\ InternHit(Lit[l], l) \/ InternMiss(Lit[l], l)
  \/ ResizeCheck \/ Realloced \/ GrowGiveUp \/ Retry \/ AllocOk \/ AllocFails
  \/ BlkBegin \/ BlkOk \/ BlkFails \/ Collect
  \/ \E a \in Addr : Release(a) \/ Orphan(a) \/ \E off \in 0..MaxChars : CharAt(a, off)

Spec == Init /\ [][Next]_vars

-----------------------------------------------------------------------------
(* Properties.                                                             *)

\* No content is interned twice: strings are compared by address
\* (duk_heap_strtable_intern), whatever ran while a new one was being allocated.
Interned ==
  \A a, b \in Live(m) : m.mem[a] = m.mem[b] => a = b

\* Each string is in the chain of its hash exactly once, and no freed string is
\* in any, through resizes and sweeps in the middle of an interning.
ChainsExact ==
  /\ m.count = Cardinality(Live(m))
  /\ DOMAIN m.tab = 0..m.size - 1
  /\ \A i \in DOMAIN m.tab : \A a \in Addr :
       m.tab[i][a] = IF m.mem[a] = NULL THEN 0 ELSE IF Slot(m, m.mem[a]) = i THEN 1 ELSE 0

\* What the program refers to stays, and what only the literal cache knows of is
\* known to it under the right literal.
LitcacheFresh ==
  /\ \A a \in Addr : held[a] > 0 => m.mem[a] # NULL
  /\ \A k \in LitKeys : m.lit[k].addr # NULL => m.mem[m.lit[k].h] = Lit[m.lit[k].addr]

\* The byte offset of every character of every string is right, with what the
\* cache holds at the moment (duk_heap_strcache_offset_char2byte).
CharStart(d, off) ==
  IF off = Chars(d) THEN Len(d)
  ELSE CHOOSE p \in Begins(d, 0, Len(d) - 1) : Cardinality(Begins(d, 0, p)) = off + 1
OffsetsRight ==
  \A a \in Live(m) : \A off \in 0..Chars(Utf8[m.mem[a]]) :
    Char2Byte(m, a, off) = CharStart(Utf8[m.mem[a]], off)

\* No allocation is handed a pointer that moved while garbage was collected for
\* it, be it the table (st_resizing) or a block (realloc_indirect).
PointersFresh == ~blk.stale

\* Whatever ran while a string was being allocated or the table resized: no content is
\* interned twice, each string is on the chain of its hash exactly once and no freed one
\* on any, literal and offset caches hold what a fresh computation gives, and no
\* allocation is handed a pointer that moved while garbage was collected for it.
StringsSound == Interned /\ ChainsExact /\ LitcacheFresh /\ OffsetsRight /\ PointersFresh
=============================================================================

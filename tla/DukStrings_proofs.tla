-------------------------- MODULE DukStrings_proofs --------------------------
(***************************************************************************)
(* Proofs about DukStrings, for any sets of addresses and texts, any hash  *)
(* function, any limits and any cache sizes: the string table, the literal *)
(* cache and the offset cache stay right whatever collections happen       *)
(* inside an interning.                                                    *)
(***************************************************************************)
EXTENDS DukStrings, FiniteSetTheorems, TLAPS

-----------------------------------------------------------------------------
(* Slots of a hash when the table doubles or halves.                       *)

LEMMA DivisionUnique ==
  ASSUME NEW n \in Nat \ {0}, NEW x \in Int, NEW y \in Int,
         NEW r \in 0..n - 1, NEW s \in 0..n - 1, n * x + r = n * y + s
  PROVE  x = y /\ r = s
<1>1. ~(x < y)
  <2> SUFFICES ASSUME x < y PROVE FALSE  OBVIOUS
  <2> DEFINE k == y - x - 1
  <2>1. k \in Nat /\ y = x + 1 + k  OBVIOUS
  <2>2. n * y = n * x + n + n * k  BY <2>1
  <2>3. n * k >= 0  BY <2>1
  <2> QED  BY <2>2, <2>3
<1>2. ~(y < x)
  <2> SUFFICES ASSUME y < x PROVE FALSE  OBVIOUS
  <2> DEFINE k == x - y - 1
  <2>1. k \in Nat /\ x = y + 1 + k  OBVIOUS
  <2>2. n * x = n * y + n + n * k  BY <2>1
  <2>3. n * k >= 0  BY <2>1
  <2> QED  BY <2>2, <2>3
<1> QED  BY <1>1, <1>2

LEMMA Division ==
  ASSUME NEW n \in Nat \ {0}, NEW h \in Nat
  PROVE  h \div n \in Nat /\ h % n \in 0..n - 1 /\ h = n * (h \div n) + (h % n)
OBVIOUS

LEMMA Remainder ==
  ASSUME NEW n \in Nat \ {0}, NEW h \in Nat, NEW x \in Int, NEW r \in 0..n - 1, h = n * x + r
  PROVE  h % n = r
BY Division, DivisionUnique

LEMMA DoubleSlot ==
  ASSUME NEW n \in Nat \ {0}, NEW h \in Nat
  PROVE  /\ (h \div n) % 2 \in {0, 1}
         /\ h % (2 * n) = IF (h \div n) % 2 = 1 THEN (h % n) + n ELSE h % n
<1> DEFINE q == h \div n
           p == q \div 2
           b == q % 2
           r == h % n
<1>1. q \in Nat /\ r \in 0..n - 1 /\ h = n * q + r  BY Division
<1>2. p \in Nat /\ b \in {0, 1} /\ q = 2 * p + b  BY <1>1
<1>3. 2 * n \in Nat \ {0}  OBVIOUS
<1> HIDE DEF q, p, b, r
<1>4. CASE b = 1
  <2>1. n * q = (2 * n) * p + n  BY <1>1, <1>2, <1>4
  <2>2. h = (2 * n) * p + (r + n)  BY <1>1, <2>1, <1>2
  <2>3. r + n \in 0..2 * n - 1  BY <1>1
  <2>4. p \in Int  BY <1>2
  <2>5. h % (2 * n) = r + n  BY <1>2, <1>3, <2>2, <2>3, <2>4, Remainder
  <2> QED  BY <1>2, <1>4, <2>5 DEF q, b, r
<1>5. CASE b = 0
  <2>1. n * q = (2 * n) * p  BY <1>1, <1>2, <1>5
  <2>2. h = (2 * n) * p + r  BY <1>1, <2>1, <1>2
  <2>3. r \in 0..2 * n - 1  BY <1>1
  <2>4. p \in Int  BY <1>2
  <2>5. h % (2 * n) = r  BY <1>2, <1>3, <2>2, <2>3, <2>4, Remainder
  <2> QED  BY <1>2, <1>5, <2>5 DEF q, b, r
<1> QED  BY <1>2, <1>4, <1>5

LEMMA HalfSlot ==
  ASSUME NEW n \in Nat \ {0}, NEW h \in Nat
  PROVE  h % n = IF h % (2 * n) < n THEN h % (2 * n) ELSE (h % (2 * n)) - n
<1> DEFINE r == h % n
           w == h % (2 * n)
<1>1. r \in 0..n - 1  BY Division
<1>2. w = r + n \/ w = r  BY DoubleSlot
<1> HIDE DEF r, w
<1>3. r = IF w < n THEN w ELSE w - n  BY <1>1, <1>2
<1> QED  BY <1>3 DEF r, w

-----------------------------------------------------------------------------
(* The sizes a table can have: MinSize doubled any number of times, which  *)
(* is the smallest set that holds MinSize and is closed under doubling.    *)

Sizes == {n \in Nat : \A S \in SUBSET Nat :
            MinSize \in S /\ (\A x \in S : 2 * x \in S) => n \in S}

LEMMA SizesFirst == MinSize \in Sizes
BY StringsAssumption DEF Sizes

LEMMA SizesPositive ==
  ASSUME NEW n \in Sizes
  PROVE  n \in Nat \ {0} /\ n >= MinSize
<1> DEFINE S == {x \in Nat : x >= MinSize}
<1>1. MinSize \in Nat \ {0}  BY StringsAssumption
<1>2. S \in SUBSET Nat /\ MinSize \in S /\ \A x \in S : 2 * x \in S  BY <1>1
<1>3. n \in S  BY <1>2, Zenon DEF Sizes
<1> QED  BY <1>1, <1>3

LEMMA SizesDouble ==
  ASSUME NEW n \in Sizes
  PROVE  2 * n \in Sizes
<1>1. n \in Nat  BY DEF Sizes
<1>2. 2 * n \in Nat  BY <1>1
<1>3. ASSUME NEW S \in SUBSET Nat, MinSize \in S, \A x \in S : 2 * x \in S
      PROVE  2 * n \in S
  <2>1. n \in S  BY <1>3, Zenon DEF Sizes
  <2> QED  BY <2>1, <1>3, Zenon
<1> QED  BY <1>2, <1>3, Zenon DEF Sizes

LEMMA SizesHalf ==
  ASSUME NEW n \in Sizes, n > MinSize
  PROVE  n \div 2 \in Sizes /\ n = 2 * (n \div 2)
<1> DEFINE S == {MinSize} \cup {2 * x : x \in Sizes}
<1>1. MinSize \in Nat  BY StringsAssumption
<1>2. Sizes \subseteq Nat  BY DEF Sizes
<1>3. S \in SUBSET Nat  BY <1>1, <1>2
<1>4. MinSize \in S  OBVIOUS
<1>5. ASSUME NEW x \in S PROVE 2 * x \in S
  <2>1. x \in Sizes  BY SizesFirst, SizesDouble
  <2> QED  BY <2>1
<1>6. n \in S
  <2> HIDE DEF S
  <2> QED  BY <1>3, <1>4, <1>5, Zenon DEF Sizes
<1>7. PICK x \in Sizes : n = 2 * x  BY <1>6, <1>1, <1>2
<1>8. x \in Nat  BY <1>2
<1>9. n \div 2 = x  BY <1>7, <1>8
<1> QED  BY <1>7, <1>9

-----------------------------------------------------------------------------
(* What the heap looks like: its type, its chains and its caches.          *)

Entry == [h : Addr \cup {NULL}, c : Nat, b : Nat]
LitEntry == [addr : DOMAIN Lit \cup {NULL}, h : Addr \cup {NULL}]
Tables == UNION {[0..n - 1 -> [Addr -> Nat]] : n \in Nat}
Heaps == [mem : [Addr -> Contents \cup {NULL}], size : Nat, tab : Tables, count : Nat,
          tabptr : {0, 1}, resizing : BOOLEAN, cache : [1..CacheSize -> Entry],
          lit : [LitKeys -> LitEntry], pinned : SUBSET Addr]

\* The table that links each string once, in the chain of its hash.
Linked(c, n, i) == IF c = NULL THEN 0 ELSE IF Hash[c] % n = i THEN 1 ELSE 0
Table(mem, n) == [i \in 0..n - 1 |-> [a \in Addr |-> Linked(mem[a], n, i)]]
Chained(t) == t.size \in Sizes /\ t.tab = Table(t.mem, t.size)

Distinct(mem) == \A a, b \in Addr : mem[a] # NULL /\ mem[a] = mem[b] => a = b

\* The number of characters that begin before byte p.  A position of a string is right
\* when byte b is where character c begins, or the end.
Rank(d, p) == Cardinality(Begins(d, 0, p - 1))
Right(d, c, b) ==
  /\ c \in 0..Chars(d) /\ b \in 0..Len(d) /\ Rank(d, b) = c
  /\ c < Chars(d) => b < Len(d) /\ d[b + 1] = 0
  /\ c = Chars(d) => b = Len(d)

EntryOK(mem, e) == e.h # NULL => mem[e.h] # NULL /\ Right(Utf8[mem[e.h]], e.c, e.b)
CacheOK(mem, cache) == \A i \in 1..CacheSize : EntryOK(mem, cache[i])

\* What the literal cache knows is pinned.
LitOK(t) ==
  /\ t.pinned \subseteq Live(t)
  /\ \A k \in LitKeys : t.lit[k].addr # NULL =>
       t.lit[k].h \in t.pinned /\ t.mem[t.lit[k].h] = Lit[t.lit[k].addr]

Good(t) == /\ t \in Heaps /\ Chained(t) /\ t.count = Cardinality(Live(t))
           /\ Distinct(t.mem) /\ CacheOK(t.mem, t.cache) /\ LitOK(t)

-----------------------------------------------------------------------------
(* The table through its operations.                                       *)

LEMMA Constants ==
  /\ IsFiniteSet(Addr) /\ NULL \notin Addr /\ NULL \notin Contents /\ NULL \notin DOMAIN Lit
  /\ \A c \in Contents : Hash[c] \in Nat
  /\ CacheSize \in Nat \ {0}
BY StringsAssumption

LEMMA TableType ==
  ASSUME NEW mem \in [Addr -> Contents \cup {NULL}], NEW n \in Nat
  PROVE  Table(mem, n) \in [0..n - 1 -> [Addr -> Nat]] /\ Table(mem, n) \in Tables
<1>1. Table(mem, n) \in [0..n - 1 -> [Addr -> Nat]]  BY DEF Table, Linked
<1> QED  BY <1>1 DEF Tables

LEMMA LookupOK ==
  ASSUME NEW t, t \in Heaps, Chained(t), NEW c \in Contents
  PROVE  LET a == Lookup(t, c)
         IN  /\ a # NULL => a \in Addr /\ t.mem[a] = c
             /\ a = NULL => \A x \in Addr : t.mem[x] # c
<1> DEFINE i == Hash[c] % t.size
           found == {a \in Addr : t.tab[i][a] > 0 /\ t.mem[a] = c}
<1>1. t.size \in Nat \ {0} /\ Hash[c] \in Nat /\ c # NULL  BY SizesPositive, Constants DEF Chained
<1>2. i \in 0..t.size - 1  BY <1>1, Division
<1>3. \A a \in Addr : t.tab[i][a] = Linked(t.mem[a], t.size, i)  BY <1>2 DEF Chained, Table
<1>4. found = {a \in Addr : t.mem[a] = c}  BY <1>1, <1>3 DEF Linked
<1>5. Lookup(t, c) = IF found = {} THEN NULL ELSE CHOOSE a \in found : TRUE
  BY DEF Lookup, Slot
<1> HIDE DEF found
<1> QED  BY <1>4, <1>5, Constants

LEMMA InsertTable ==
  ASSUME NEW mem \in [Addr -> Contents \cup {NULL}], NEW n \in Nat \ {0},
         NEW a \in Addr, mem[a] = NULL, NEW c \in Contents
  PROVE  [Table(mem, n) EXCEPT ![Hash[c] % n][a] = @ + 1] = Table([mem EXCEPT ![a] = c], n)
<1> DEFINE s == Hash[c] % n
           new == [mem EXCEPT ![a] = c]
           T == Table(mem, n)
<1>1. s \in 0..n - 1 /\ c # NULL  BY Constants, Division
<1>2. T \in [0..n - 1 -> [Addr -> Nat]]  BY TableType
<1>3. \A i \in 0..n - 1 : \A x \in Addr : T[i][x] = Linked(mem[x], n, i)  BY DEF Table
<1>4. \A i \in 0..n - 1 : \A x \in Addr \ {a} : Linked(new[x], n, i) = T[i][x]  BY <1>3
<1>5. \A i \in 0..n - 1 : T[i][a] = 0 /\ Linked(new[a], n, i) = (IF i = s THEN 1 ELSE 0)
  BY <1>1, <1>3 DEF Linked
<1> HIDE DEF s, T, new
<1>6. \A i \in 0..n - 1 : T[i] \in [Addr -> Nat]  BY <1>2
<1>7. [T[s] EXCEPT ![a] = @ + 1] = [x \in Addr |-> Linked(new[x], n, s)]
  <2>1. T[s][a] + 1 = Linked(new[a], n, s)  BY <1>1, <1>5
  <2> QED  BY <1>1, <1>4, <1>6, <2>1
<1>8. \A i \in (0..n - 1) \ {s} : T[i] = [x \in Addr |-> Linked(new[x], n, i)]
  BY <1>4, <1>5, <1>6
<1>9. [T EXCEPT ![s][a] = @ + 1] = [i \in 0..n - 1 |-> [x \in Addr |-> Linked(new[x], n, i)]]
  BY <1>1, <1>2, <1>7, <1>8
<1> QED  BY <1>9 DEF Table, s, T, new

LEMMA FreeTable ==
  ASSUME NEW mem \in [Addr -> Contents \cup {NULL}], NEW n \in Nat \ {0},
         NEW a \in Addr, mem[a] # NULL
  PROVE  [Table(mem, n) EXCEPT ![Hash[mem[a]] % n][a] = @ - 1] = Table([mem EXCEPT ![a] = NULL], n)
<1> DEFINE s == Hash[mem[a]] % n
           new == [mem EXCEPT ![a] = NULL]
           T == Table(mem, n)
<1>1. s \in 0..n - 1  BY Constants, Division
<1>2. T \in [0..n - 1 -> [Addr -> Nat]]  BY TableType
<1>3. \A i \in 0..n - 1 : \A x \in Addr : T[i][x] = Linked(mem[x], n, i)  BY DEF Table
<1>4. \A i \in 0..n - 1 : \A x \in Addr \ {a} : Linked(new[x], n, i) = T[i][x]  BY <1>3
<1>5. \A i \in 0..n - 1 : Linked(new[a], n, i) = 0 /\ T[i][a] = (IF i = s THEN 1 ELSE 0)
  BY <1>1, <1>3 DEF Linked
<1> HIDE DEF s, T, new
<1>6. \A i \in 0..n - 1 : T[i] \in [Addr -> Nat]  BY <1>2
<1>7. [T[s] EXCEPT ![a] = @ - 1] = [x \in Addr |-> Linked(new[x], n, s)]
  <2>1. T[s][a] - 1 = Linked(new[a], n, s)  BY <1>1, <1>5
  <2> QED  BY <1>1, <1>4, <1>6, <2>1
<1>8. \A i \in (0..n - 1) \ {s} : T[i] = [x \in Addr |-> Linked(new[x], n, i)]
  BY <1>4, <1>5, <1>6
<1>9. [T EXCEPT ![s][a] = @ - 1] = [i \in 0..n - 1 |-> [x \in Addr |-> Linked(new[x], n, i)]]
  BY <1>1, <1>2, <1>7, <1>8
<1> QED  BY <1>9 DEF Table, s, T, new

LEMMA SweepTable ==
  ASSUME NEW mem \in [Addr -> Contents \cup {NULL}], NEW n \in Nat \ {0}, NEW gone \in SUBSET Addr
  PROVE  [i \in DOMAIN Table(mem, n) |->
            [a \in Addr |-> IF a \in gone THEN 0 ELSE Table(mem, n)[i][a]]]
           = Table([a \in Addr |-> IF a \in gone THEN NULL ELSE mem[a]], n)
BY DEF Table, Linked

LEMMA GrownTable ==
  ASSUME NEW t, t \in Heaps, Chained(t)
  PROVE  Grown(t).tab = Table(t.mem, 2 * t.size)
<1> DEFINE n == t.size
           High(a) == (Hash[t.mem[a]] \div n) % 2
<1>1. n \in Nat \ {0} /\ t.mem \in [Addr -> Contents \cup {NULL}]  BY SizesPositive DEF Chained, Heaps
<1>2. \A i \in 0..n - 1 : \A a \in Addr : t.tab[i][a] = Linked(t.mem[a], n, i)
  BY DEF Chained, Table
<1>3. Grown(t).tab = [i \in 0..2 * n - 1 |->
                        IF i < n THEN Split(t, i, FALSE) ELSE Split(t, i - n, TRUE)]
  BY DEF Grown, Heaps
<1>4. ASSUME NEW a \in Addr, t.mem[a] # NULL
      PROVE  /\ High(a) \in {0, 1} /\ Hash[t.mem[a]] % n \in 0..n - 1
             /\ Hash[t.mem[a]] % (2 * n) = IF High(a) = 1 THEN (Hash[t.mem[a]] % n) + n ELSE Hash[t.mem[a]] % n
  <2>1. Hash[t.mem[a]] \in Nat  BY <1>1, <1>4, Constants
  <2> QED  BY <1>1, <2>1, DoubleSlot, Division
<1>5. ASSUME NEW i \in 0..n - 1, NEW a \in Addr
      PROVE  Split(t, i, FALSE)[a] = Linked(t.mem[a], 2 * n, i)
  <2> DEFINE c == t.mem[a]
             p == Hash[c] % n
             q == Hash[c] % (2 * n)
             k == High(a)
             old == t.tab[i][a]
             new == Split(t, i, FALSE)[a]
             want == Linked(c, 2 * n, i)
  <2>1. new = IF old > 0 /\ k # 1 THEN old ELSE 0  BY DEF Split
  <2>2. old = IF c = NULL THEN 0 ELSE IF p = i THEN 1 ELSE 0  BY <1>2 DEF Linked
  <2>3. want = IF c = NULL THEN 0 ELSE IF q = i THEN 1 ELSE 0  BY DEF Linked
  <2>4. c # NULL => k \in {0, 1} /\ p \in 0..n - 1 /\ q = IF k = 1 THEN p + n ELSE p  BY <1>4
  <2> HIDE DEF c, p, q, k, old, new, want
  <2>5. new = want  BY <1>1, <2>1, <2>2, <2>3, <2>4
  <2> QED  BY <2>5 DEF new, want, c
<1>6. ASSUME NEW i \in n..2 * n - 1, NEW a \in Addr
      PROVE  Split(t, i - n, TRUE)[a] = Linked(t.mem[a], 2 * n, i)
  <2> DEFINE j == i - n
             c == t.mem[a]
             p == Hash[c] % n
             q == Hash[c] % (2 * n)
             k == High(a)
             old == t.tab[j][a]
             new == Split(t, j, TRUE)[a]
             want == Linked(c, 2 * n, i)
  <2>1. new = IF old > 0 /\ k = 1 THEN old ELSE 0  BY DEF Split
  <2>2. j \in 0..n - 1 /\ i = j + n  BY <1>1
  <2>3. old = IF c = NULL THEN 0 ELSE IF p = j THEN 1 ELSE 0  BY <1>2, <2>2 DEF Linked
  <2>4. want = IF c = NULL THEN 0 ELSE IF q = i THEN 1 ELSE 0  BY DEF Linked
  <2>5. c # NULL => k \in {0, 1} /\ p \in 0..n - 1 /\ q = IF k = 1 THEN p + n ELSE p  BY <1>4
  <2> HIDE DEF c, p, q, k, j, old, new, want
  <2>6. new = want  BY <1>1, <2>1, <2>2, <2>3, <2>4, <2>5
  <2> QED  BY <2>6 DEF new, want, c, j
<1>7. \A i \in 0..2 * n - 1 : (IF i < n THEN Split(t, i, FALSE) ELSE Split(t, i - n, TRUE))
                                = [a \in Addr |-> Linked(t.mem[a], 2 * n, i)]
  <2> TAKE i \in 0..2 * n - 1
  <2>1. \A j, b : Split(t, j, b) = [a \in Addr |-> Split(t, j, b)[a]]  BY DEF Split
  <2>2. CASE i < n
    <3>1. i \in 0..n - 1  BY <1>1, <2>2
    <3>2. Split(t, i, FALSE) = [a \in Addr |-> Split(t, i, FALSE)[a]]  BY <2>1
    <3>3. Split(t, i, FALSE) = [a \in Addr |-> Linked(t.mem[a], 2 * n, i)]  BY <1>5, <3>1, <3>2
    <3> QED  BY <2>2, <3>3
  <2>3. CASE ~(i < n)
    <3>1. i \in n..2 * n - 1  BY <1>1, <2>3
    <3>2. Split(t, i - n, TRUE) = [a \in Addr |-> Split(t, i - n, TRUE)[a]]  BY <2>1
    <3>3. Split(t, i - n, TRUE) = [a \in Addr |-> Linked(t.mem[a], 2 * n, i)]  BY <1>6, <3>1, <3>2
    <3> QED  BY <2>3, <3>3
  <2> QED  BY <2>2, <2>3
<1> HIDE DEF n
<1>8. Grown(t).tab = [i \in 0..2 * n - 1 |-> [a \in Addr |-> Linked(t.mem[a], 2 * n, i)]]
  BY <1>3, <1>7, Zenon
<1> QED  BY <1>8 DEF Table, n

LEMMA ShrunkTable ==
  ASSUME NEW t, t \in Heaps, Chained(t), t.size > MinSize
  PROVE  Shrunk(t).tab = Table(t.mem, t.size \div 2)
<1> DEFINE n == t.size \div 2
<1>1. n \in Sizes /\ t.size = 2 * n  BY SizesHalf DEF Chained
<1>2. n \in Nat \ {0} /\ t.mem \in [Addr -> Contents \cup {NULL}]  BY <1>1, SizesPositive DEF Heaps
<1>3. \A i \in 0..t.size - 1 : \A a \in Addr : t.tab[i][a] = Linked(t.mem[a], t.size, i)
  BY DEF Chained, Table
<1>4. Shrunk(t).tab = [i \in 0..n - 1 |-> [a \in Addr |-> t.tab[i][a] + t.tab[i + n][a]]]
  BY DEF Shrunk, Heaps
<1> HIDE DEF n
<1>5. ASSUME NEW i \in 0..n - 1, NEW a \in Addr
      PROVE  t.tab[i][a] + t.tab[i + n][a] = Linked(t.mem[a], n, i)
  <2> DEFINE c == t.mem[a]
             p == Hash[c] % n
             q == Hash[c] % (2 * n)
             low == t.tab[i][a]
             high == t.tab[i + n][a]
             want == Linked(c, n, i)
  <2>1. i \in 0..t.size - 1 /\ i + n \in 0..t.size - 1  BY <1>1, <1>2
  <2>2. low = IF c = NULL THEN 0 ELSE IF q = i THEN 1 ELSE 0  BY <1>1, <1>3, <2>1 DEF Linked
  <2>3. high = IF c = NULL THEN 0 ELSE IF q = i + n THEN 1 ELSE 0  BY <1>1, <1>3, <2>1 DEF Linked
  <2>4. want = IF c = NULL THEN 0 ELSE IF p = i THEN 1 ELSE 0  BY DEF Linked
  <2>5. c # NULL => q \in 0..2 * n - 1 /\ p = IF q < n THEN q ELSE q - n
    <3> SUFFICES ASSUME c # NULL PROVE q \in 0..2 * n - 1 /\ p = IF q < n THEN q ELSE q - n
      OBVIOUS
    <3>1. Hash[c] \in Nat  BY <1>2, Constants
    <3>2. 2 * n \in Nat \ {0}  BY <1>2
    <3> QED  BY <1>2, <3>1, <3>2, Division, HalfSlot
  <2> HIDE DEF c, p, q, low, high, want
  <2>6. low + high = want  BY <1>2, <2>2, <2>3, <2>4, <2>5
  <2> QED  BY <2>6 DEF low, high, want, c
<1>6. Shrunk(t).tab = [i \in 0..n - 1 |-> [a \in Addr |-> Linked(t.mem[a], n, i)]]
  BY <1>4, <1>5
<1> QED  BY <1>6 DEF Table, n

-----------------------------------------------------------------------------
(* The whole heap through the operations of the table.                     *)

LEMMA LiveFinite ==
  ASSUME NEW t
  PROVE  IsFiniteSet(Live(t)) /\ Cardinality(Live(t)) \in Nat
<1>1. Live(t) \in SUBSET Addr  BY DEF Live
<1> QED  BY <1>1, Constants, FS_Subset, FS_CardinalityType

\* Changing the table only.
LEMMA TableChange ==
  ASSUME NEW t, Good(t), NEW u \in Heaps, Chained(u), u.mem = t.mem, u.count = t.count,
         u.cache = t.cache, u.lit = t.lit, u.pinned = t.pinned
  PROVE  Good(u)
<1>1. Live(u) = Live(t)  BY DEF Live
<1> QED  BY <1>1 DEF Good, LitOK

LEMMA GrownOK ==
  ASSUME NEW t, Good(t)
  PROVE  Good(Grown(t)) /\ Grown(t).mem = t.mem /\ Grown(t).resizing = t.resizing
<1> DEFINE u == Grown(t)
<1>1. t \in Heaps /\ Chained(t) /\ t.size \in Sizes  BY DEF Good, Chained
<1>2. u.tab = Table(t.mem, 2 * t.size)  BY <1>1, GrownTable
<1>3. t.size \in Nat /\ 2 * t.size \in Sizes /\ 2 * t.size \in Nat
  BY <1>1, SizesDouble, SizesPositive
<1>4. u.tab \in Tables  BY <1>1, <1>2, <1>3, TableType DEF Heaps
<1>5. /\ u.mem = t.mem /\ u.count = t.count /\ u.cache = t.cache /\ u.lit = t.lit
      /\ u.pinned = t.pinned /\ u.resizing = t.resizing /\ u.size = 2 * t.size /\ u.tabptr = 1 - t.tabptr
  BY <1>1 DEF Grown, Heaps
<1>6. u = [t EXCEPT !.tab = u.tab, !.size = u.size, !.tabptr = u.tabptr]
  BY <1>1 DEF Grown, Heaps
<1>7. u.tabptr \in {0, 1}  BY <1>1, <1>5 DEF Heaps
<1> HIDE DEF u
<1>8. u \in Heaps  BY <1>1, <1>3, <1>4, <1>5, <1>6, <1>7 DEF Heaps
<1>9. Chained(u)  BY <1>2, <1>3, <1>5 DEF Chained
<1>10. Good(u)  BY <1>5, <1>8, <1>9, TableChange
<1> QED  BY <1>5, <1>10 DEF u

LEMMA ShrunkOK ==
  ASSUME NEW t, Good(t), t.size > MinSize
  PROVE  Good(Shrunk(t)) /\ Shrunk(t).mem = t.mem /\ Shrunk(t).resizing = t.resizing
         /\ Shrunk(t).tabptr = t.tabptr
<1> DEFINE u == Shrunk(t)
           n == t.size \div 2
<1>1. t \in Heaps /\ Chained(t) /\ t.size \in Sizes  BY DEF Good, Chained
<1>2. u.tab = Table(t.mem, n)  BY <1>1, ShrunkTable
<1>3. n \in Sizes /\ n \in Nat  BY <1>1, SizesHalf, SizesPositive
<1>4. u.tab \in Tables  BY <1>1, <1>2, <1>3, TableType DEF Heaps
<1>5. /\ u.mem = t.mem /\ u.count = t.count /\ u.cache = t.cache /\ u.lit = t.lit
      /\ u.pinned = t.pinned /\ u.resizing = t.resizing /\ u.size = n /\ u.tabptr = t.tabptr
  BY <1>1 DEF Shrunk, Heaps
<1>6. u = [t EXCEPT !.tab = u.tab, !.size = u.size]
  BY <1>1 DEF Shrunk, Heaps
<1> HIDE DEF u, n
<1>7. u \in Heaps  BY <1>1, <1>3, <1>4, <1>5, <1>6 DEF Heaps
<1>8. Chained(u)  BY <1>2, <1>3, <1>5 DEF Chained
<1>9. Good(u)  BY <1>5, <1>7, <1>8, TableChange
<1> QED  BY <1>5, <1>9 DEF u

\* st_resizing and the address of the table matter to nothing else.
LEMMA FlagsOK ==
  ASSUME NEW t, Good(t)
  PROVE  /\ \A b \in BOOLEAN : LET u == [t EXCEPT !.resizing = b]
                               IN  Good(u) /\ u.mem = t.mem /\ u.resizing = b /\ u.tabptr = t.tabptr
         /\ LET u == Moved(t) IN Good(u) /\ u.mem = t.mem /\ u.resizing = t.resizing
<1>1. t \in Heaps /\ Chained(t)  BY DEF Good
<1>2. ASSUME NEW b \in BOOLEAN
      PROVE  LET u == [t EXCEPT !.resizing = b]
             IN  Good(u) /\ u.mem = t.mem /\ u.resizing = b /\ u.tabptr = t.tabptr
  <2> DEFINE u == [t EXCEPT !.resizing = b]
  <2>1. u \in Heaps  BY <1>1, Zenon DEF Heaps
  <2>2. /\ u.mem = t.mem /\ u.count = t.count /\ u.cache = t.cache /\ u.lit = t.lit
        /\ u.pinned = t.pinned /\ u.size = t.size /\ u.tab = t.tab /\ u.tabptr = t.tabptr
    BY <1>1 DEF Heaps
  <2>3. u.resizing = b  BY <1>1, Zenon DEF Heaps
  <2>4. Chained(u)  BY <1>1, <2>2 DEF Chained
  <2> HIDE DEF u
  <2>5. Good(u)  BY <2>1, <2>2, <2>4, TableChange
  <2> QED  BY <2>2, <2>3, <2>5 DEF u
<1>3. LET u == Moved(t) IN Good(u) /\ u.mem = t.mem /\ u.resizing = t.resizing
  <2> DEFINE u == Moved(t)
  <2>1. u \in Heaps  BY <1>1 DEF Heaps, Moved
  <2>2. /\ u.mem = t.mem /\ u.count = t.count /\ u.cache = t.cache /\ u.lit = t.lit
        /\ u.pinned = t.pinned /\ u.size = t.size /\ u.tab = t.tab /\ u.resizing = t.resizing
    BY <1>1 DEF Heaps, Moved
  <2>3. Chained(u)  BY <1>1, <2>2 DEF Chained
  <2> HIDE DEF u
  <2>4. Good(u)  BY <2>1, <2>2, <2>3, TableChange
  <2> QED  BY <2>2, <2>4 DEF u
<1> QED  BY <1>2, <1>3

\* A new string whose content nobody has.
LEMMA InsertOK ==
  ASSUME NEW t, Good(t), NEW a \in Addr, t.mem[a] = NULL, NEW c \in Contents,
         \A x \in Addr : t.mem[x] # c
  PROVE  LET u == Insert(t, a, c)
         IN  /\ Good(u) /\ u.mem = [t.mem EXCEPT ![a] = c]
             /\ u.resizing = t.resizing /\ u.tabptr = t.tabptr
<1> DEFINE u == Insert(t, a, c)
           mem == [t.mem EXCEPT ![a] = c]
<1>1. t \in Heaps /\ Chained(t) /\ t.size \in Nat \ {0}  BY SizesPositive DEF Good, Chained
<1>2. t.mem \in [Addr -> Contents \cup {NULL}] /\ mem \in [Addr -> Contents \cup {NULL}]  BY <1>1 DEF Heaps
<1>3. [t.tab EXCEPT ![Hash[c] % t.size][a] = @ + 1] = Table(mem, t.size)
  BY <1>1, <1>2, InsertTable DEF Chained
<1>4. u = [t EXCEPT !.mem = mem, !.count = t.count + 1,
                    !.tab = [t.tab EXCEPT ![Hash[c] % t.size][a] = @ + 1]]
  BY DEF Insert, Slot
<1>5. u = [t EXCEPT !.mem = mem, !.count = t.count + 1, !.tab = Table(mem, t.size)]
  BY <1>3, <1>4
<1>6. Table(mem, t.size) \in Tables  BY <1>1, <1>2, TableType
<1> HIDE DEF u, mem
<1>7. /\ u.mem = mem /\ u.count = t.count + 1 /\ u.cache = t.cache /\ u.lit = t.lit
      /\ u.pinned = t.pinned /\ u.size = t.size /\ u.tab = Table(mem, t.size)
      /\ u.resizing = t.resizing /\ u.tabptr = t.tabptr
  BY <1>1, <1>5 DEF Heaps
<1>8. u \in Heaps
  <2>1. t.count + 1 \in Nat  BY <1>1 DEF Heaps
  <2> DEFINE n == t.count + 1
  <2> HIDE DEF n
  <2>2. u = [t EXCEPT !.mem = mem, !.count = n, !.tab = Table(mem, t.size)]  BY <1>5 DEF n
  <2> QED  BY <1>1, <1>2, <1>6, <2>1, <2>2 DEF Heaps, n
<1>9. Chained(u)  BY <1>1, <1>7 DEF Chained
<1>10. \A x \in Addr : mem[x] = IF x = a THEN c ELSE t.mem[x]  BY <1>2 DEF mem
<1>11. c # NULL  BY Constants
<1>12. Live(u) = Live(t) \cup {a} /\ a \notin Live(t)  BY <1>7, <1>10, <1>11 DEF Live
<1>13. u.count = Cardinality(Live(u))
  BY <1>7, <1>12, LiveFinite, FS_AddElement DEF Good
<1>14. Distinct(u.mem)  BY <1>7, <1>10 DEF Good, Distinct
<1>15. CacheOK(u.mem, u.cache)
  <2> SUFFICES ASSUME NEW i \in 1..CacheSize, t.cache[i].h # NULL
               PROVE  mem[t.cache[i].h] # NULL /\ Right(Utf8[mem[t.cache[i].h]], t.cache[i].c, t.cache[i].b)
    BY <1>7 DEF CacheOK, EntryOK
  <2>1. t.mem[t.cache[i].h] # NULL /\ Right(Utf8[t.mem[t.cache[i].h]], t.cache[i].c, t.cache[i].b)
    BY DEF Good, CacheOK, EntryOK
  <2>2. t.cache[i].h \in Addr /\ t.cache[i].h # a  BY <1>1, <2>1 DEF Heaps, Entry
  <2> QED  BY <1>10, <2>1, <2>2
<1>16. LitOK(u)
  <2>1. u.pinned \subseteq Live(u)  BY <1>7, <1>12 DEF Good, LitOK
  <2>2. \A k \in LitKeys : t.lit[k].addr # NULL => t.lit[k].h \in Live(t)  BY DEF Good, LitOK
  <2>3. \A x \in Live(t) : mem[x] = t.mem[x]  BY <1>10, <1>12 DEF Live
  <2> QED  BY <1>7, <2>1, <2>2, <2>3 DEF Good, LitOK
<1>17. Good(u)  BY <1>8, <1>9, <1>13, <1>14, <1>15, <1>16 DEF Good
<1> QED  BY <1>7, <1>17 DEF u, mem

\* Strings that go leave the offset cache too.
LEMMA UncachedOK ==
  ASSUME NEW mem \in [Addr -> Contents \cup {NULL}], NEW cache \in [1..CacheSize -> Entry],
         CacheOK(mem, cache), NEW gone \in SUBSET Addr,
         NEW left \in [Addr -> Contents \cup {NULL}], \A x \in Addr \ gone : left[x] = mem[x]
  PROVE  Uncached(cache, gone) \in [1..CacheSize -> Entry] /\ CacheOK(left, Uncached(cache, gone))
<1> DEFINE new == Uncached(cache, gone)
<1>1. NoEntry \in Entry /\ NoEntry.h = NULL  BY DEF NoEntry, Entry
<1>2. new = [i \in 1..CacheSize |-> IF cache[i].h \in gone THEN NoEntry ELSE cache[i]]
  BY DEF Uncached
<1> HIDE DEF new
<1>3. new \in [1..CacheSize -> Entry]  BY <1>1, <1>2
<1>4. ASSUME NEW i \in 1..CacheSize PROVE EntryOK(left, new[i])
  <2>1. CASE cache[i].h \in gone  BY <1>1, <1>2, <2>1 DEF EntryOK
  <2>2. CASE cache[i].h \notin gone
    <3>1. new[i] = cache[i] /\ cache[i] \in Entry /\ EntryOK(mem, cache[i])
      BY <1>2, <2>2 DEF CacheOK
    <3>2. cache[i].h # NULL => left[cache[i].h] = mem[cache[i].h]  BY <2>2, <3>1 DEF Entry
    <3> QED  BY <3>1, <3>2 DEF EntryOK
  <2> QED  BY <2>1, <2>2
<1> QED  BY <1>3, <1>4 DEF CacheOK, new

\* The last reference to a string that is not pinned.
LEMMA FreeStringOK ==
  ASSUME NEW t, Good(t), NEW a \in Addr, t.mem[a] # NULL, a \notin t.pinned
  PROVE  LET u == FreeString(t, a)
         IN  /\ Good(u) /\ u.mem = [t.mem EXCEPT ![a] = NULL]
             /\ u.resizing = t.resizing /\ u.tabptr = t.tabptr
<1> DEFINE u == FreeString(t, a)
           mem == [t.mem EXCEPT ![a] = NULL]
           cache == Uncached(t.cache, {a})
<1>1. t \in Heaps /\ Chained(t) /\ t.size \in Nat \ {0}  BY SizesPositive DEF Good, Chained
<1>2. t.mem \in [Addr -> Contents \cup {NULL}] /\ mem \in [Addr -> Contents \cup {NULL}]
      /\ t.cache \in [1..CacheSize -> Entry]
  BY <1>1 DEF Heaps
<1>3. [t.tab EXCEPT ![Hash[t.mem[a]] % t.size][a] = @ - 1] = Table(mem, t.size)
  <2>1. t.tab = Table(t.mem, t.size)  BY <1>1 DEF Chained
  <2>2. [Table(t.mem, t.size) EXCEPT ![Hash[t.mem[a]] % t.size][a] = @ - 1] = Table(mem, t.size)
    <3>1. PICK x \in [Addr -> Contents \cup {NULL}] : x = t.mem  BY <1>2
    <3>2. PICK n \in Nat \ {0} : n = t.size  BY <1>1
    <3>3. [Table(x, n) EXCEPT ![Hash[x[a]] % n][a] = @ - 1] = Table([x EXCEPT ![a] = NULL], n)
      BY <3>1, FreeTable
    <3> QED  BY <3>1, <3>2, <3>3
  <2> QED  BY <2>1, <2>2
<1>4. u = [t EXCEPT !.cache = cache, !.count = t.count - 1, !.mem = mem, !.pinned = t.pinned \ {a},
                    !.tab = [t.tab EXCEPT ![Hash[t.mem[a]] % t.size][a] = @ - 1]]
  BY DEF FreeString, Slot
<1>5. u = [t EXCEPT !.cache = cache, !.count = t.count - 1, !.mem = mem, !.pinned = t.pinned \ {a},
                    !.tab = Table(mem, t.size)]
  BY <1>3, <1>4
<1>6. Table(mem, t.size) \in Tables  BY <1>1, <1>2, TableType
<1>7. \A x \in Addr : mem[x] = IF x = a THEN NULL ELSE t.mem[x]  BY <1>2
<1>8. cache \in [1..CacheSize -> Entry] /\ CacheOK(mem, cache)
  <2>1. CacheOK(t.mem, t.cache) /\ {a} \in SUBSET Addr /\ \A x \in Addr \ {a} : mem[x] = t.mem[x]
    BY <1>7 DEF Good
  <2> HIDE DEF mem, cache
  <2>2. Uncached(t.cache, {a}) \in [1..CacheSize -> Entry] /\ CacheOK(mem, Uncached(t.cache, {a}))
    BY <1>2, <2>1, UncachedOK
  <2> QED  BY <2>2 DEF cache
<1>9. Live(t) \in SUBSET Addr /\ a \in Live(t)  BY DEF Live
<1>10. t.count = Cardinality(Live(t)) /\ t.count \in Nat  BY LiveFinite DEF Good
<1>11. t.count - 1 = Cardinality(Live(t) \ {a})
  <2>1. IsFiniteSet(Live(t))  BY LiveFinite
  <2>2. Cardinality(Live(t) \ {a}) = Cardinality(Live(t)) - 1  BY <1>9, <2>1, FS_RemoveElement
  <2> QED  BY <1>10, <2>2
<1>12. t.count - 1 \in Nat
  <2>1. IsFiniteSet(Live(t) \ {a})  BY LiveFinite, FS_RemoveElement
  <2> QED  BY <2>1, <1>11, FS_CardinalityType
<1> HIDE DEF u, mem, cache
<1>13. /\ u.mem = mem /\ u.count = t.count - 1 /\ u.cache = cache /\ u.lit = t.lit
       /\ u.pinned = t.pinned \ {a} /\ u.size = t.size /\ u.tab = Table(mem, t.size)
       /\ u.resizing = t.resizing /\ u.tabptr = t.tabptr
  BY <1>1, <1>5 DEF Heaps
<1>14. u \in Heaps  BY <1>1, <1>2, <1>5, <1>6, <1>8, <1>12 DEF Heaps
<1>15. Chained(u)  BY <1>1, <1>13 DEF Chained
<1>16. Live(u) = Live(t) \ {a}  BY <1>7, <1>13 DEF Live
<1>17. Distinct(u.mem)  BY <1>7, <1>13 DEF Good, Distinct
<1>18. LitOK(u)
  <2>1. u.pinned \subseteq Live(u)  BY <1>13, <1>16 DEF Good, LitOK
  <2>2. \A k \in LitKeys : t.lit[k].addr # NULL => t.lit[k].h \in t.pinned \ {a}  BY DEF Good, LitOK
  <2>3. \A x \in t.pinned \ {a} : mem[x] = t.mem[x]  BY <1>7, <1>1 DEF Heaps
  <2> QED  BY <1>13, <2>1, <2>2, <2>3 DEF Good, LitOK
<1>19. Good(u)  BY <1>8, <1>11, <1>13, <1>14, <1>15, <1>16, <1>17, <1>18 DEF Good
<1> QED  BY <1>13, <1>19 DEF u, mem

\* A collection empties the literal cache first.
LEMMA WipeOK ==
  ASSUME NEW t, Good(t)
  PROVE  LET u == WipeLitcache(t)
         IN  /\ Good(u) /\ u.mem = t.mem /\ u.resizing = t.resizing /\ u.tabptr = t.tabptr
             /\ \A k \in LitKeys : u.lit[k].addr = NULL
<1> DEFINE u == WipeLitcache(t)
           none == [addr |-> NULL, h |-> NULL]
           lit == [k \in LitKeys |-> none]
<1>1. t \in Heaps  BY DEF Good
<1>2. DOMAIN t.lit = LitKeys  BY <1>1 DEF Heaps
<1>3. none \in LitEntry /\ none.addr = NULL  BY DEF LitEntry
<1>4. lit \in [LitKeys -> LitEntry]
  <2> HIDE DEF none
  <2> QED  BY <1>3
<1>5. u = [t EXCEPT !.lit = lit]  BY <1>2 DEF WipeLitcache
<1>6. \A k \in LitKeys : lit[k].addr = NULL  BY <1>3
<1> HIDE DEF u, lit
<1>7. /\ u.mem = t.mem /\ u.count = t.count /\ u.cache = t.cache /\ u.lit = lit
      /\ u.pinned = t.pinned /\ u.size = t.size /\ u.tab = t.tab
      /\ u.resizing = t.resizing /\ u.tabptr = t.tabptr
  BY <1>1, <1>5 DEF Heaps
<1>8. u \in Heaps  BY <1>1, <1>4, <1>5 DEF Heaps
<1>9. Live(u) = Live(t)  BY <1>7 DEF Live
<1>10. LitOK(u)  BY <1>6, <1>7, <1>9 DEF Good, LitOK
<1>11. Good(u)  BY <1>7, <1>8, <1>9, <1>10 DEF Good, Chained
<1> QED  BY <1>6, <1>7, <1>11 DEF u

LEMMA SweepOK ==
  ASSUME NEW t, Good(t), \A k \in LitKeys : t.lit[k].addr = NULL, NEW gone \in SUBSET Live(t)
  PROVE  LET u == Sweep(t, gone)
         IN  /\ Good(u) /\ u.mem = [a \in Addr |-> IF a \in gone THEN NULL ELSE t.mem[a]]
             /\ u.resizing = t.resizing /\ u.tabptr = t.tabptr
<1> DEFINE u == Sweep(t, gone)
           mem == [a \in Addr |-> IF a \in gone THEN NULL ELSE t.mem[a]]
           cache == Uncached(t.cache, gone)
           n == t.count - Cardinality(gone)
           pinned == t.pinned \ gone
           T == [i \in DOMAIN t.tab |-> [a \in Addr |-> IF a \in gone THEN 0 ELSE t.tab[i][a]]]
<1>1. t \in Heaps /\ Chained(t) /\ t.size \in Nat \ {0}  BY SizesPositive DEF Good, Chained
<1>2. t.mem \in [Addr -> Contents \cup {NULL}] /\ mem \in [Addr -> Contents \cup {NULL}]
      /\ t.cache \in [1..CacheSize -> Entry] /\ gone \in SUBSET Addr
  BY <1>1 DEF Heaps, Live
<1>3. T = Table(mem, t.size)
  <2>1. PICK x \in [Addr -> Contents \cup {NULL}] : x = t.mem  BY <1>2
  <2>2. PICK k \in Nat \ {0} : k = t.size  BY <1>1
  <2>3. [i \in DOMAIN Table(x, k) |-> [a \in Addr |-> IF a \in gone THEN 0 ELSE Table(x, k)[i][a]]]
          = Table([a \in Addr |-> IF a \in gone THEN NULL ELSE x[a]], k)
    BY <1>2, SweepTable
  <2>4. t.tab = Table(x, k)  BY <1>1, <2>1, <2>2 DEF Chained
  <2> QED  BY <2>1, <2>2, <2>3, <2>4
<1>4. u = [t EXCEPT !.cache = cache, !.count = n, !.mem = mem, !.pinned = pinned, !.tab = T]
  BY DEF Sweep
<1>5. Table(mem, t.size) \in Tables  BY <1>1, <1>2, TableType
<1>6. \A x \in Addr : mem[x] = IF x \in gone THEN NULL ELSE t.mem[x]  OBVIOUS
<1>7. cache \in [1..CacheSize -> Entry] /\ CacheOK(mem, cache)
  <2>1. CacheOK(t.mem, t.cache) /\ \A x \in Addr \ gone : mem[x] = t.mem[x]  BY <1>6 DEF Good
  <2> HIDE DEF mem, cache
  <2>2. Uncached(t.cache, gone) \in [1..CacheSize -> Entry] /\ CacheOK(mem, Uncached(t.cache, gone))
    BY <1>2, <2>1, UncachedOK
  <2> QED  BY <2>2 DEF cache
<1>8. n = Cardinality(Live(t) \ gone)
  <2>1. IsFiniteSet(Live(t)) /\ t.count = Cardinality(Live(t))  BY LiveFinite DEF Good
  <2>2. Live(t) \cap gone = gone  OBVIOUS
  <2>3. Cardinality(Live(t) \ gone) = Cardinality(Live(t)) - Cardinality(Live(t) \cap gone)
    BY <2>1, FS_Difference
  <2> QED  BY <2>1, <2>2, <2>3
<1>9. n \in Nat
  <2>1. IsFiniteSet(Live(t) \ gone)  BY LiveFinite, FS_Difference
  <2> QED  BY <2>1, <1>8, FS_CardinalityType
<1>10. pinned \in SUBSET Addr  BY <1>1 DEF Heaps
<1> HIDE DEF u, mem, cache, n, pinned, T
<1>11. /\ u.mem = mem /\ u.count = n /\ u.cache = cache /\ u.lit = t.lit
       /\ u.pinned = pinned /\ u.size = t.size /\ u.tab = T
       /\ u.resizing = t.resizing /\ u.tabptr = t.tabptr
  BY <1>1, <1>4 DEF Heaps
<1>12. u \in Heaps  BY <1>1, <1>2, <1>3, <1>4, <1>5, <1>7, <1>9, <1>10 DEF Heaps
<1>13. Chained(u)  BY <1>1, <1>3, <1>11 DEF Chained
<1>14. Live(u) = Live(t) \ gone  BY <1>6, <1>11 DEF Live
<1>15. Distinct(u.mem)  BY <1>6, <1>11 DEF Good, Distinct
<1>16. LitOK(u)  BY <1>11, <1>14 DEF Good, LitOK, pinned
<1>17. Good(u)  BY <1>7, <1>8, <1>11, <1>12, <1>13, <1>14, <1>15, <1>16 DEF Good
<1> QED  BY <1>11, <1>17 DEF u, mem

\* intern_literal_checked fills an entry of the literal cache.
LEMMA LitSetOK ==
  ASSUME NEW t, Good(t), NEW a \in Addr, NEW l \in DOMAIN Lit, t.mem[a] = Lit[l]
  PROVE  LET u == [t EXCEPT !.lit[LitKey[l]] = [addr |-> l, h |-> a], !.pinned = @ \cup {a}]
         IN  Good(u) /\ u.mem = t.mem /\ u.resizing = t.resizing /\ u.tabptr = t.tabptr
<1> DEFINE e == [addr |-> l, h |-> a]
           k == LitKey[l]
           lit == [t.lit EXCEPT ![k] = e]
           pinned == t.pinned \cup {a}
           u == [t EXCEPT !.lit[k] = e, !.pinned = @ \cup {a}]
<1>1. t \in Heaps /\ Lit[l] # NULL /\ k \in LitKeys
  BY StringsAssumption DEF Good, LitKeys
<1>2. e \in LitEntry /\ e.addr = l /\ e.h = a  BY DEF LitEntry
<1>3. u = [t EXCEPT !.lit = lit, !.pinned = pinned]  OBVIOUS
<1> HIDE DEF e, u
<1>4. lit \in [LitKeys -> LitEntry] /\ pinned \in SUBSET Addr  BY <1>1, <1>2 DEF Heaps
<1>5. \A j \in LitKeys : lit[j] = IF j = k THEN e ELSE t.lit[j]  BY <1>1 DEF Heaps
<1> HIDE DEF lit, pinned
<1>6. /\ u.mem = t.mem /\ u.count = t.count /\ u.cache = t.cache /\ u.lit = lit
      /\ u.pinned = pinned /\ u.size = t.size /\ u.tab = t.tab
      /\ u.resizing = t.resizing /\ u.tabptr = t.tabptr
  BY <1>1, <1>3 DEF Heaps
<1>7. u \in Heaps  BY <1>1, <1>3, <1>4 DEF Heaps
<1>8. Live(u) = Live(t) /\ a \in Live(t)  BY <1>1, <1>6 DEF Live
<1>9. LitOK(u)
  <2>1. u.pinned \subseteq Live(u)  BY <1>6, <1>8 DEF Good, LitOK, pinned
  <2>2. ASSUME NEW j \in LitKeys, u.lit[j].addr # NULL
        PROVE  u.lit[j].h \in u.pinned /\ u.mem[u.lit[j].h] = Lit[u.lit[j].addr]
    <3>1. CASE j = k  BY <1>2, <1>5, <1>6, <3>1 DEF pinned
    <3>2. CASE j # k  BY <1>5, <1>6, <2>2, <3>2 DEF Good, LitOK, pinned
    <3> QED  BY <3>1, <3>2
  <2> QED  BY <2>1, <2>2 DEF LitOK
<1>10. Good(u)  BY <1>6, <1>7, <1>8, <1>9 DEF Good, Chained
<1> QED  BY <1>6, <1>10 DEF u, e

-----------------------------------------------------------------------------
(* A collection, wherever it happens: it keeps what the program holds, and *)
(* while finalizers are prevented it brings no string about; while the     *)
(* table is being resized it does not move it.                             *)

LEMMA CollectedOK ==
  ASSUME Good(m), NEW e, NEW t \in Collected(e)
  PROVE  /\ Good(t) /\ t.resizing = m.resizing
         /\ t.mem = [a \in Addr |-> IF a \in Live(m) /\ held[a] = 0 THEN NULL ELSE m.mem[a]]
         /\ m.resizing => t.tabptr = m.tabptr
<1> DEFINE w == WipeLitcache(m)
           gone == Unreachable(w)
           s == Sweep(w, gone)
<1>1. Good(w) /\ w.mem = m.mem /\ w.resizing = m.resizing /\ w.tabptr = m.tabptr
      /\ \A k \in LitKeys : w.lit[k].addr = NULL
  BY WipeOK
<1>2. gone \in SUBSET Live(w) /\ gone = {a \in Live(m) : held[a] = 0}
  BY <1>1 DEF Unreachable, Live
<1>3. t \in {s} \/ t \in ForceResize(s)  BY DEF Collected
<1> HIDE DEF w, gone
<1>4. Good(s) /\ s.mem = [a \in Addr |-> IF a \in gone THEN NULL ELSE w.mem[a]]
      /\ s.resizing = w.resizing /\ s.tabptr = w.tabptr
  BY <1>1, <1>2, SweepOK
<1>5. s.mem = [a \in Addr |-> IF a \in Live(m) /\ held[a] = 0 THEN NULL ELSE m.mem[a]]
  BY <1>1, <1>2, <1>4
<1> HIDE DEF s
<1>6. Good(s) /\ s.resizing = m.resizing /\ s.tabptr = m.tabptr  BY <1>1, <1>4
<1>7. CASE t = s  BY <1>5, <1>6, <1>7
<1>8. CASE t \in ForceResize(s) /\ t # s
  <2>1. \/ t = Grown(s) /\ ResizeNeeded(s) = "grow"
        \/ t = Moved(Shrunk(s)) /\ ResizeNeeded(s) = "shrink"
    BY <1>8 DEF ForceResize
  <2>2. ~s.resizing  BY <2>1 DEF ResizeNeeded
  <2>3. CASE t = Grown(s)  BY <1>5, <1>6, <2>2, <2>3, GrownOK
  <2>4. CASE t = Moved(Shrunk(s)) /\ ResizeNeeded(s) = "shrink"
    <3>1. s.size > MinSize  BY <2>4 DEF ResizeNeeded
    <3>2. PICK u : u = Shrunk(s)  OBVIOUS
    <3>3. Good(u) /\ u.mem = s.mem /\ u.resizing = s.resizing  BY <1>6, <3>1, <3>2, ShrunkOK
    <3>4. Good(t) /\ t.mem = u.mem /\ t.resizing = u.resizing  BY <2>4, <3>2, <3>3, FlagsOK
    <3> QED  BY <1>5, <1>6, <2>2, <3>3, <3>4
  <2> QED  BY <2>1, <2>3, <2>4
<1> QED  BY <1>3, <1>7, <1>8

LEMMA FinalizerInternsOK ==
  ASSUME NEW t, Good(t), NEW u \in FinalizerInterns(t)
  PROVE  /\ Good(u) /\ u.resizing = t.resizing /\ u.tabptr = t.tabptr
         /\ \A a \in Addr : t.mem[a] # NULL => u.mem[a] = t.mem[a]
         /\ pf > 0 => u = t
<1>1. CASE u = t  BY <1>1
<1>2. CASE u # t
  <2>1. ~(pf > 0)  BY <1>2 DEF FinalizerInterns
  <2>2. PICK a \in Addr \ Live(t), c \in {d \in Contents : Lookup(t, d) = NULL} : u = Insert(t, a, c)
    BY <1>2, <2>1 DEF FinalizerInterns
  <2>3. t \in Heaps /\ Chained(t)  BY DEF Good
  <2>4. \A x \in Addr : t.mem[x] # c  BY <2>2, <2>3, LookupOK
  <2>5. t.mem[a] = NULL  BY <2>2 DEF Live
  <2>6. Good(u) /\ u.mem = [t.mem EXCEPT ![a] = c] /\ u.resizing = t.resizing /\ u.tabptr = t.tabptr
    BY <2>2, <2>4, <2>5, InsertOK
  <2>7. \A x \in Addr : t.mem[x] # NULL => u.mem[x] = t.mem[x]  BY <2>3, <2>5, <2>6 DEF Heaps
  <2> QED  BY <2>1, <2>6, <2>7
<1> QED  BY <1>1, <1>2

LEMMA GCOK ==
  ASSUME Good(m), NEW e, GC(e)
  PROVE  /\ Good(m') /\ m'.resizing = m.resizing
         /\ m.resizing => m'.tabptr = m.tabptr
         /\ \A a \in Addr : held[a] # 0 /\ m.mem[a] # NULL => m'.mem[a] = m.mem[a]
         /\ pf > 0 => \A a \in Addr : m'.mem[a] # NULL => m'.mem[a] = m.mem[a]
<1>0. PICK t \in Collected(e) : \E u \in FinalizerInterns(t) : m' = u  BY DEF GC
<1>1. PICK u \in FinalizerInterns(t) : m' = u  BY <1>0
<1>2. /\ Good(t) /\ t.resizing = m.resizing
      /\ t.mem = [a \in Addr |-> IF a \in Live(m) /\ held[a] = 0 THEN NULL ELSE m.mem[a]]
      /\ m.resizing => t.tabptr = m.tabptr
  BY <1>0, CollectedOK
<1>3. \A a \in Addr : t.mem[a] = IF a \in Live(m) /\ held[a] = 0 THEN NULL ELSE m.mem[a]
  BY <1>2
<1>4. /\ Good(u) /\ u.resizing = t.resizing /\ u.tabptr = t.tabptr
      /\ \A a \in Addr : t.mem[a] # NULL => u.mem[a] = t.mem[a]
      /\ pf > 0 => u = t
  BY <1>1, <1>2, FinalizerInternsOK
<1> QED  BY <1>1, <1>2, <1>3, <1>4

-----------------------------------------------------------------------------
(* Characters and bytes: what the offset cache computes.                   *)

LEMMA BeginsCounted ==
  ASSUME NEW d \in Seq({0, 1}), NEW x \in Int, NEW y \in Int
  PROVE  IsFiniteSet(Begins(d, x, y)) /\ Cardinality(Begins(d, x, y)) \in Nat
<1>1. IsFiniteSet(x..y)  BY FS_Interval
<1>2. Begins(d, x, y) \in SUBSET (x..y)  BY DEF Begins
<1>3. IsFiniteSet(Begins(d, x, y))  BY <1>1, <1>2, FS_Subset
<1> QED  BY <1>3, FS_CardinalityType

LEMMA BeginsSplit ==
  ASSUME NEW d \in Seq({0, 1}), NEW x \in Int, NEW y \in Int, NEW z \in Int, x <= y, y <= z + 1
  PROVE  Cardinality(Begins(d, x, z)) = Cardinality(Begins(d, x, y - 1)) + Cardinality(Begins(d, y, z))
<1> DEFINE A == Begins(d, x, y - 1)
           B == Begins(d, y, z)
<1>1. A \cup B = Begins(d, x, z) /\ A \cap B = {}  BY DEF Begins
<1>2. y - 1 \in Int  OBVIOUS
<1>3. IsFiniteSet(A) /\ Cardinality(A) \in Nat /\ IsFiniteSet(B) /\ Cardinality(B) \in Nat
  BY <1>2, BeginsCounted
<1> HIDE DEF A, B
<1>4. Cardinality(A \cup B) = Cardinality(A) + Cardinality(B) - Cardinality(A \cap B)
  BY <1>3, FS_Union
<1>5. Cardinality({}) = 0  BY FS_EmptySet
<1>6. Cardinality(A \cup B) = Cardinality(A) + Cardinality(B)
  <2>1. Cardinality(A \cap B) = 0  BY <1>1, <1>5, Zenon
  <2>2. PICK i \in Nat : i = Cardinality(A)  BY <1>3
  <2>3. PICK j \in Nat : j = Cardinality(B)  BY <1>3
  <2>4. Cardinality(A \cup B) = i + j - 0  BY <1>4, <2>1, <2>2, <2>3, Zenon
  <2> QED  BY <2>2, <2>3, <2>4
<1> QED  BY <1>1, <1>6 DEF A, B

LEMMA RankFacts ==
  ASSUME NEW d \in Seq({0, 1})
  PROVE  /\ Rank(d, 0) = 0 /\ Rank(d, Len(d)) = Chars(d) /\ Len(d) \in Nat
         /\ \A p \in 0..Len(d) : Rank(d, p) \in Nat
         /\ \A p \in 0..Len(d) - 1 : Rank(d, p + 1) = Rank(d, p) + (IF d[p + 1] = 0 THEN 1 ELSE 0)
         /\ \A p, q \in 0..Len(d) : p <= q =>
              /\ Rank(d, p) <= Rank(d, q)
              /\ Cardinality(Begins(d, p, q - 1)) = Rank(d, q) - Rank(d, p)
<1>1. Len(d) \in Nat  OBVIOUS
<1>2. \A p \in 0..Len(d) : Rank(d, p) \in Nat
  <2> TAKE p \in 0..Len(d)
  <2>1. 0 \in Int /\ p - 1 \in Int  BY <1>1
  <2> QED  BY <2>1, BeginsCounted DEF Rank
<1>3. Rank(d, 0) = 0
  <2>1. Begins(d, 0, 0 - 1) = {}  BY DEF Begins
  <2> QED  BY <2>1, FS_EmptySet DEF Rank
<1>4. Rank(d, Len(d)) = Chars(d)  BY DEF Rank, Chars
<1>5. ASSUME NEW p \in 0..Len(d), NEW q \in 0..Len(d), p <= q
      PROVE  /\ Rank(d, p) <= Rank(d, q)
             /\ Cardinality(Begins(d, p, q - 1)) = Rank(d, q) - Rank(d, p)
  <2>1. 0 \in Int /\ p \in Int /\ q - 1 \in Int /\ 0 <= p /\ p <= (q - 1) + 1  BY <1>1, <1>5
  <2>2. PICK z \in Int : z = q - 1  BY <2>1
  <2>3. Cardinality(Begins(d, 0, z)) = Cardinality(Begins(d, 0, p - 1)) + Cardinality(Begins(d, p, z))
    BY <2>1, <2>2, BeginsSplit
  <2>4. Rank(d, q) = Rank(d, p) + Cardinality(Begins(d, p, q - 1))  BY <2>2, <2>3 DEF Rank
  <2>5. Cardinality(Begins(d, p, q - 1)) \in Nat  BY <2>1, BeginsCounted
  <2>6. Rank(d, p) \in Nat /\ Rank(d, q) \in Nat  BY <1>2
  <2> QED  BY <2>4, <2>5, <2>6
<1>6. ASSUME NEW p \in 0..Len(d) - 1
      PROVE  Rank(d, p + 1) = Rank(d, p) + (IF d[p + 1] = 0 THEN 1 ELSE 0)
  <2>1. p \in 0..Len(d) /\ p + 1 \in 0..Len(d) /\ p <= p + 1 /\ (p + 1) - 1 = p  BY <1>1
  <2>2. Cardinality(Begins(d, p, p)) = Rank(d, p + 1) - Rank(d, p)
    <3>1. PICK q \in 0..Len(d) : q = p + 1  BY <2>1
    <3>2. Cardinality(Begins(d, p, q - 1)) = Rank(d, q) - Rank(d, p)  BY <1>5, <2>1, <3>1
    <3> QED  BY <2>1, <3>1, <3>2
  <2>3. Begins(d, p, p) = IF d[p + 1] = 0 THEN {p} ELSE {}  BY DEF Begins
  <2>4. Cardinality(Begins(d, p, p)) = IF d[p + 1] = 0 THEN 1 ELSE 0
    BY <2>3, FS_EmptySet, FS_Singleton
  <2>5. Rank(d, p) \in Nat /\ Rank(d, p + 1) \in Nat  BY <1>2, <2>1
  <2> QED  BY <2>2, <2>4, <2>5
<1> QED  BY <1>1, <1>2, <1>3, <1>4, <1>5, <1>6

\* What begins after another character has a higher rank.
LEMMA RankGrows ==
  ASSUME NEW d \in Seq({0, 1}), NEW p \in 0..Len(d) - 1, d[p + 1] = 0, NEW q \in 0..Len(d), p < q
  PROVE  Rank(d, p) < Rank(d, q)
<1>1. Len(d) \in Nat /\ p + 1 \in 0..Len(d) /\ p \in 0..Len(d) /\ p + 1 <= q  OBVIOUS
<1>2. Rank(d, p + 1) = Rank(d, p) + 1  BY RankFacts
<1>3. Rank(d, p + 1) <= Rank(d, q)
  <2>1. PICK r \in 0..Len(d) : r = p + 1  BY <1>1
  <2> QED  BY <1>1, <2>1, RankFacts
<1>4. Rank(d, p) \in Nat /\ Rank(d, q) \in Nat  BY <1>1, RankFacts
<1> QED  BY <1>2, <1>3, <1>4

LEMMA RightUnique ==
  ASSUME NEW d \in Seq({0, 1}), NEW c, NEW x, NEW y, Right(d, c, x), Right(d, c, y)
  PROVE  x = y
<1>1. CASE c = Chars(d)  BY <1>1 DEF Right
<1>2. CASE c # Chars(d)
  <2>1. c < Chars(d)
    <3>1. Chars(d) \in Nat  BY RankFacts
    <3> QED  BY <1>2, <3>1 DEF Right
  <2>2. /\ x \in 0..Len(d) - 1 /\ d[x + 1] = 0 /\ Rank(d, x) = c /\ x \in 0..Len(d)
        /\ y \in 0..Len(d) - 1 /\ d[y + 1] = 0 /\ Rank(d, y) = c /\ y \in 0..Len(d)
    BY <2>1 DEF Right
  <2>3. c \in Int  BY <2>2, RankFacts
  <2>4. ~(x < y)  BY <2>2, <2>3, RankGrows
  <2>5. ~(y < x)  BY <2>2, <2>3, RankGrows
  <2> QED  BY <2>2, <2>4, <2>5
<1> QED  BY <1>1, <1>2

\* A byte that begins a character is where the character of its rank begins.
LEMMA BeginsRight ==
  ASSUME NEW d \in Seq({0, 1}), NEW p \in Begins(d, 0, Len(d) - 1)
  PROVE  Right(d, Rank(d, p), p) /\ Rank(d, p) < Chars(d)
         /\ Cardinality(Begins(d, 0, p)) = Rank(d, p) + 1
<1>1. p \in 0..Len(d) - 1 /\ d[p + 1] = 0 /\ Len(d) \in Nat  BY DEF Begins
<1>2. p \in 0..Len(d) /\ p + 1 \in 0..Len(d) /\ Len(d) \in 0..Len(d) /\ p < Len(d)  BY <1>1
<1>3. Rank(d, p) < Chars(d)  BY <1>1, <1>2, RankGrows, RankFacts
<1>4. Rank(d, p) \in Nat /\ Chars(d) \in Nat  BY <1>2, RankFacts
<1>5. Rank(d, p + 1) = Rank(d, p) + 1  BY <1>1, RankFacts
<1>6. Rank(d, p + 1) = Cardinality(Begins(d, 0, p))
  <2>1. (p + 1) - 1 = p  BY <1>1
  <2> QED  BY <2>1 DEF Rank
<1> QED  BY <1>1, <1>2, <1>3, <1>4, <1>5, <1>6 DEF Right

\* Every character begins somewhere.
LEMMA RightExists ==
  ASSUME NEW d \in Seq({0, 1}), NEW c \in 0..Chars(d)
  PROVE  \E b : Right(d, c, b)
<1>1. Len(d) \in Nat /\ Chars(d) \in Nat /\ Rank(d, Len(d)) = Chars(d)  BY RankFacts
<1>2. CASE c = Chars(d)
  <2>1. Right(d, c, Len(d))  BY <1>1, <1>2 DEF Right
  <2> QED  BY <2>1
<1>3. CASE c < Chars(d)
  <2> DEFINE S == Begins(d, 0, Len(d) - 1)
             T == 0..Chars(d) - 1
             f == [p \in S |-> Rank(d, p)]
  <2>1. \A p \in S : Right(d, Rank(d, p), p) /\ Rank(d, p) \in T
    <3> TAKE p \in S
    <3>1. Right(d, Rank(d, p), p) /\ Rank(d, p) < Chars(d)  BY BeginsRight
    <3> QED  BY <1>1, <3>1 DEF Right
  <2>2. f \in [S -> T]  BY <2>1
  <2>3. \A p, q \in S : f[p] = f[q] => p = q  BY <2>1, RightUnique
  <2>4. f \in Injection(S, T)
    <3> HIDE DEF f, S, T
    <3> QED  BY <2>2, <2>3 DEF Injection, IsInjective
  <2>5. Cardinality(S) = Chars(d)  BY DEF Chars
  <2>6. IsFiniteSet(T) /\ Cardinality(T) = Chars(d)
    <3>1. 0 \in Int /\ Chars(d) - 1 \in Int /\ ~(0 > Chars(d) - 1)  BY <1>1, <1>3
    <3>2. IsFiniteSet(T) /\ Cardinality(T) = (Chars(d) - 1) - 0 + 1
      <4>1. PICK y \in Int : y = Chars(d) - 1  BY <3>1
      <4>2. IsFiniteSet(0..y) /\ Cardinality(0..y) = y - 0 + 1  BY <3>1, <4>1, FS_Interval
      <4> QED  BY <4>1, <4>2
    <3> QED  BY <1>1, <3>2
  <2>7. f \in Surjection(S, T)
    <3> HIDE DEF f, S, T
    <3> QED  BY <2>4, <2>5, <2>6, FS_Injection
  <2>8. c \in T  BY <1>1, <1>3
  <2>9. \E p \in S : f[p] = c
    <3> HIDE DEF f, S, T
    <3> QED  BY <2>7, <2>8 DEF Surjection
  <2> QED  BY <2>1, <2>9
<1> QED  BY <1>1, <1>2, <1>3

LEMMA Ends ==
  ASSUME NEW d \in Seq({0, 1}), d # <<>> => d[1] = 0
  PROVE  Right(d, 0, 0) /\ Right(d, Chars(d), Len(d)) /\ Chars(d) \in Nat
<1>1. /\ Len(d) \in Nat /\ Chars(d) \in Nat /\ Rank(d, Len(d)) = Chars(d) /\ Rank(d, 0) = 0
  BY RankFacts
<1>2. Right(d, Chars(d), Len(d))  BY <1>1 DEF Right
<1>3. CASE Len(d) = 0  BY <1>1, <1>3 DEF Right
<1>4. CASE Len(d) > 0
  <2>1. 0 \in 0..Len(d) - 1 /\ d[0 + 1] = 0  BY <1>1, <1>4
  <2>2. 0 \in Begins(d, 0, Len(d) - 1)  BY <2>1 DEF Begins
  <2> QED  BY <1>1, <1>2, <2>2, BeginsRight
<1> QED  BY <1>1, <1>2, <1>3, <1>4

LEMMA ScanForwardsRight ==
  ASSUME NEW d \in Seq({0, 1}), NEW c, NEW p, Right(d, c, p), NEW n \in Nat,
         n > 0 => c + n < Chars(d)
  PROVE  Right(d, c + n, ScanForwards(d, p, n))
<1>1. Len(d) \in Nat /\ Chars(d) \in Nat  BY RankFacts
<1>2. c \in 0..Chars(d) /\ p \in 0..Len(d) /\ Rank(d, p) = c  BY DEF Right
<1>3. CASE n = 0
  <2>1. c + n = c /\ ScanForwards(d, p, n) = p  BY <1>1, <1>2, <1>3 DEF ScanForwards
  <2> QED  BY <2>1
<1>4. CASE n > 0
  <2> DEFINE far == {q \in Begins(d, p + 1, Len(d) - 1) : Cardinality(Begins(d, p + 1, q)) = n}
  <2>1. c < Chars(d) /\ c + n \in 0..Chars(d)  BY <1>1, <1>2, <1>4
  <2>2. p \in 0..Len(d) - 1 /\ d[p + 1] = 0 /\ p + 1 \in 0..Len(d)  BY <1>1, <2>1 DEF Right
  <2>3. Rank(d, p + 1) = c + 1  BY <1>2, <2>2, RankFacts
  <2>4. ASSUME NEW q \in Begins(d, 0, Len(d) - 1), q > p
        PROVE  /\ q \in Begins(d, p + 1, Len(d) - 1)
               /\ Cardinality(Begins(d, p + 1, q)) = Rank(d, q) - c
    <3>1. q \in 0..Len(d) - 1 /\ q \in Begins(d, p + 1, Len(d) - 1)  BY <1>2, <2>4 DEF Begins
    <3>2. q \in 0..Len(d) /\ q + 1 \in 0..Len(d) /\ p + 1 <= q + 1 /\ (q + 1) - 1 = q
      BY <1>1, <1>2, <2>4, <3>1
    <3>3. Rank(d, q + 1) = Rank(d, q) + 1
      <4>1. d[q + 1] = 0  BY DEF Begins
      <4> QED  BY <3>1, <4>1, RankFacts
    <3>4. Cardinality(Begins(d, p + 1, (q + 1) - 1)) = Rank(d, q + 1) - Rank(d, p + 1)
      <4>1. PICK x \in 0..Len(d) : x = p + 1  BY <2>2
      <4>2. PICK y \in 0..Len(d) : y = q + 1  BY <3>2
      <4>3. Cardinality(Begins(d, x, y - 1)) = Rank(d, y) - Rank(d, x)
        BY <3>2, <4>1, <4>2, RankFacts
      <4> QED  BY <4>1, <4>2, <4>3
    <3>5. Rank(d, q) \in Nat  BY <3>2, RankFacts
    <3>6. Cardinality(Begins(d, p + 1, q)) = (Rank(d, q) + 1) - (c + 1)  BY <2>3, <3>2, <3>3, <3>4
    <3> QED  BY <1>2, <3>1, <3>5, <3>6
  <2>5. PICK b : Right(d, c + n, b)  BY <2>1, RightExists
  <2>6. b \in far
    <3>1. b \in Begins(d, 0, Len(d) - 1) /\ Rank(d, b) = c + n /\ b \in 0..Len(d)
      BY <1>1, <1>2, <1>4, <2>5 DEF Right, Begins
    <3>2. b > p
      <4>1. b <= p => Rank(d, b) <= Rank(d, p)  BY <1>2, <3>1, RankFacts
      <4> QED  BY <1>1, <1>2, <1>4, <3>1, <4>1
    <3>3. Cardinality(Begins(d, p + 1, b)) = (c + n) - c  BY <2>4, <3>1, <3>2
    <3> QED  BY <1>2, <2>4, <3>1, <3>2, <3>3
  <2>7. ASSUME NEW q \in far PROVE Right(d, c + n, q)
    <3>1. q \in Begins(d, 0, Len(d) - 1) /\ q > p  BY <1>1, <1>2 DEF Begins
    <3>2. Rank(d, q) - c = n /\ Rank(d, q) \in Nat  BY <2>4, <3>1, BeginsRight DEF Right
    <3>3. Rank(d, q) = c + n  BY <1>2, <3>2
    <3> QED  BY <3>1, <3>3, BeginsRight
  <2>8. ScanForwards(d, p, n) = CHOOSE q \in far : TRUE  BY <1>4, <2>6 DEF ScanForwards
  <2> HIDE DEF far
  <2> QED  BY <2>6, <2>7, <2>8
<1> QED  BY <1>3, <1>4

LEMMA ScanBackwardsRight ==
  ASSUME NEW d \in Seq({0, 1}), NEW c, NEW p, Right(d, c, p), NEW n \in 0..c
  PROVE  Right(d, c - n, ScanBackwards(d, p, n))
<1>1. Len(d) \in Nat /\ Chars(d) \in Nat  BY RankFacts
<1>2. c \in 0..Chars(d) /\ p \in 0..Len(d) /\ Rank(d, p) = c  BY DEF Right
<1>3. CASE n = 0
  <2>1. c - n = c /\ ScanBackwards(d, p, n) = p  BY <1>1, <1>2, <1>3 DEF ScanBackwards
  <2> QED  BY <2>1
<1>4. CASE n > 0
  <2> DEFINE far == {q \in Begins(d, 0, p - 1) : Cardinality(Begins(d, q, p - 1)) = n}
  <2>1. c - n < Chars(d) /\ c - n < c /\ c - n \in 0..Chars(d)  BY <1>1, <1>2, <1>4
  <2>2. ASSUME NEW q \in Begins(d, 0, Len(d) - 1), q < p
        PROVE  q \in Begins(d, 0, p - 1) /\ Cardinality(Begins(d, q, p - 1)) = c - Rank(d, q)
    <3>1. q \in 0..Len(d) /\ q \in Begins(d, 0, p - 1) /\ q <= p  BY <1>1, <1>2, <2>2 DEF Begins
    <3> QED  BY <1>2, <3>1, RankFacts
  <2>3. PICK b : Right(d, c - n, b)  BY <2>1, RightExists
  <2>4. b \in far
    <3>1. b \in Begins(d, 0, Len(d) - 1) /\ Rank(d, b) = c - n /\ b \in 0..Len(d)
      BY <1>1, <1>2, <2>1, <2>3 DEF Right, Begins
    <3>2. b < p
      <4>1. p <= b => Rank(d, p) <= Rank(d, b)  BY <1>2, <3>1, RankFacts
      <4> QED  BY <1>1, <1>2, <2>1, <3>1, <4>1
    <3>3. Cardinality(Begins(d, b, p - 1)) = c - (c - n)  BY <2>2, <3>1, <3>2
    <3> QED  BY <1>2, <2>2, <3>1, <3>2, <3>3
  <2>5. ASSUME NEW q \in far PROVE Right(d, c - n, q)
    <3>1. q \in Begins(d, 0, Len(d) - 1) /\ q < p  BY <1>1, <1>2 DEF Begins
    <3>2. c - Rank(d, q) = n /\ Rank(d, q) \in Nat  BY <2>2, <3>1, BeginsRight DEF Right
    <3>3. Rank(d, q) = c - n  BY <1>2, <3>2
    <3> QED  BY <3>1, <3>3, BeginsRight
  <2>6. ScanBackwards(d, p, n) = CHOOSE q \in far : TRUE  BY <1>4, <2>4 DEF ScanBackwards
  <2> HIDE DEF far
  <2> QED  BY <2>4, <2>5, <2>6
<1> QED  BY <1>3, <1>4

\* A string of one-byte characters needs no scan.
LEMMA AsciiRight ==
  ASSUME NEW d \in Seq({0, 1}), Ascii(d), NEW off \in 0..Chars(d)
  PROVE  Right(d, off, off)
<1> DEFINE S == 0..Len(d) - 1
           B == Begins(d, 0, Len(d) - 1)
<1>1. Len(d) \in Nat /\ Chars(d) = Len(d)  BY DEF Ascii
<1>2. IsFiniteSet(S) /\ Cardinality(S) = Len(d)
  <2>1. PICK y \in Int : y = Len(d) - 1  BY <1>1
  <2>2. IsFiniteSet(0..y) /\ Cardinality(0..y) = IF 0 > y THEN 0 ELSE y - 0 + 1  BY FS_Interval
  <2> QED  BY <1>1, <2>1, <2>2
<1>3. B \in SUBSET S /\ Cardinality(B) = Len(d)  BY <1>1 DEF Begins, Chars
<1>4. B = S
  <2> HIDE DEF B, S
  <2> QED  BY <1>2, <1>3, FS_Subset
<1>5. CASE off = Len(d)  BY <1>1, <1>5, RankFacts DEF Right
<1>6. CASE off < Len(d)
  <2>1. Begins(d, 0, off - 1) = 0..off - 1  BY <1>1, <1>4, <1>6 DEF Begins
  <2>2. Cardinality(0..off - 1) = off
    <3>1. PICK y \in Int : y = off - 1  BY <1>1
    <3>2. Cardinality(0..y) = IF 0 > y THEN 0 ELSE y - 0 + 1  BY FS_Interval
    <3> QED  BY <1>1, <3>1, <3>2
  <2>3. Rank(d, off) = off  BY <2>1, <2>2 DEF Rank
  <2>4. off \in B  BY <1>1, <1>4, <1>6
  <2> QED  BY <2>3, <2>4, BeginsRight
<1> QED  BY <1>1, <1>5, <1>6

LEMMA CharStartRight ==
  ASSUME NEW d \in Seq({0, 1}), NEW off, NEW b, Right(d, off, b)
  PROVE  CharStart(d, off) = b
<1>1. Chars(d) \in Nat /\ off \in 0..Chars(d)
  <2>1. Chars(d) \in Nat  BY RankFacts
  <2>2. off \in 0..Chars(d)  BY DEF Right
  <2> QED  BY <2>1, <2>2
<1>2. CASE off = Chars(d)  BY <1>2 DEF Right, CharStart
<1>3. CASE off < Chars(d)
  <2> DEFINE S == Begins(d, 0, Len(d) - 1)
             P == {p \in S : Cardinality(Begins(d, 0, p)) = off + 1}
  <2>1. b \in S /\ Rank(d, b) = off  BY <1>3 DEF Right, Begins
  <2>2. b \in P  BY <2>1, BeginsRight
  <2>3. ASSUME NEW p \in P PROVE p = b
    <3>1. Right(d, Rank(d, p), p) /\ Rank(d, p) + 1 = off + 1 /\ Rank(d, p) \in Nat
      BY BeginsRight DEF Right
    <3>2. Rank(d, p) = off  BY <1>1, <3>1
    <3> QED  BY <3>1, <3>2, RightUnique
  <2>4. CharStart(d, off) = CHOOSE p \in S : Cardinality(Begins(d, 0, p)) = off + 1
    BY <1>1, <1>3 DEF CharStart
  <2> QED  BY <2>2, <2>3, <2>4
<1> QED  BY <1>1, <1>2, <1>3

\* A set of entries has a first one.
LEMMA LeastIndex ==
  ASSUME NEW S \in SUBSET Nat, S # {}
  PROVE  \E k \in S : \A j \in S : k <= j
<1> DEFINE R == OpToRel(<, Nat)
<1>1. PICK k \in S : \A j \in S : ~(<<j, k>> \in R)  BY NatLessThanWellFounded, WFMin
<1>2. \A j \in S : ~(j < k)  BY <1>1 DEF OpToRel
<1> QED  BY <1>2

\* The position computed for a character is right, whichever of the three starting
\* points is the nearest.
LEMMA Char2ByteRight ==
  ASSUME NEW t, Good(t), NEW a \in Live(t), NEW off \in 0..Chars(Utf8[t.mem[a]])
  PROVE  Right(Utf8[t.mem[a]], off, Char2Byte(t, a, off))
<1> DEFINE D == Utf8[t.mem[a]]
           i == IF UseCache(D) THEN CacheIndex(t, a) ELSE 0
           e == t.cache[i]
           near == i > 0 /\ Distance(off, e.c) <= off /\ Distance(off, e.c) <= Chars(D) - off
<1>1. a \in Addr /\ t.mem[a] # NULL /\ t.mem[a] \in Contents  BY DEF Live, Good, Heaps
<1>2. D \in Seq({0, 1}) /\ (D # <<>> => D[1] = 0)  BY <1>1, StringsAssumption
<1>3. PICK d \in Seq({0, 1}) : d = D /\ (d # <<>> => d[1] = 0)  BY <1>2
<1>4. Chars(d) \in Nat /\ Right(d, 0, 0) /\ Right(d, Chars(d), Len(d))  BY <1>3, Ends
<1>5. off \in 0..Chars(d)  BY <1>3
<1>6. Char2Byte(t, a, off) =
        IF Ascii(d) THEN off
        ELSE IF near THEN IF off >= e.c THEN ScanForwards(d, e.b, off - e.c)
                          ELSE ScanBackwards(d, e.b, e.c - off)
        ELSE IF off <= Chars(d) - off THEN ScanForwards(d, 0, off)
        ELSE ScanBackwards(d, Len(d), Chars(d) - off)
  BY <1>3 DEF Char2Byte
<1>7. i > 0 => i \in 1..CacheSize /\ t.cache[i].h = a
  <2> DEFINE found == {j \in 1..CacheSize : t.cache[j].h = a}
  <2>1. SUFFICES ASSUME CacheIndex(t, a) > 0
                 PROVE  CacheIndex(t, a) \in found
    OBVIOUS
  <2>2. CacheIndex(t, a) = IF found = {} THEN 0 ELSE CHOOSE k \in found : \A j \in found : k <= j
    BY DEF CacheIndex
  <2>3. found # {}  BY <2>1, <2>2
  <2>4. found \subseteq Nat  OBVIOUS
  <2>5. \E k \in found : \A j \in found : k <= j  BY <2>3, <2>4, LeastIndex
  <2> HIDE DEF found
  <2> QED  BY <2>2, <2>3, <2>5
<1>8. near => Right(d, e.c, e.b) /\ Distance(off, e.c) <= Chars(d) - off
  <2> SUFFICES ASSUME near PROVE Right(d, e.c, e.b)  BY <1>3
  <2>1. e.h = a /\ EntryOK(t.mem, e)  BY <1>7 DEF Good, CacheOK
  <2> HIDE DEF e
  <2> QED  BY <1>1, <1>3, <2>1, Constants DEF EntryOK
<1> DEFINE x == e.c
           y == e.b
           z == Char2Byte(t, a, off)
<1> HIDE DEF near, e, i
<1>9. CASE Ascii(d)
  <2>1. Right(d, off, off)  BY <1>5, <1>9, AsciiRight
  <2> QED  BY <1>3, <1>6, <1>9, <2>1
<1>10. CASE ~Ascii(d) /\ near /\ off >= x
  <2>1. z = ScanForwards(d, y, off - x)  BY <1>6, <1>10
  <2>2. Right(d, x, y) /\ x \in 0..Chars(d)  BY <1>8, <1>10 DEF Right
  <2>3. Distance(off, x) <= Chars(d) - off /\ Distance(off, x) = off - x
    BY <1>8, <1>10 DEF Distance
  <2> HIDE DEF x, y, z
  <2>4. off - x \in Nat /\ x + (off - x) = off /\ (off - x > 0 => x + (off - x) < Chars(d))
    BY <1>4, <1>5, <1>10, <2>2, <2>3
  <2>5. Right(d, x + (off - x), ScanForwards(d, y, off - x))
    <3>1. PICK n \in Nat : n = off - x  BY <2>4
    <3>2. Right(d, x + n, ScanForwards(d, y, n))  BY <2>2, <2>4, <3>1, ScanForwardsRight
    <3> QED  BY <3>1, <3>2
  <2>6. Right(d, off, z)  BY <2>1, <2>4, <2>5
  <2> QED  BY <1>3, <2>6 DEF z
<1>11. CASE ~Ascii(d) /\ near /\ ~(off >= x)
  <2>1. z = ScanBackwards(d, y, x - off)  BY <1>6, <1>11
  <2>2. Right(d, x, y) /\ x \in 0..Chars(d)  BY <1>8, <1>11 DEF Right
  <2> HIDE DEF x, y, z
  <2>3. x - off \in 0..x /\ x - (x - off) = off  BY <1>4, <1>5, <1>11, <2>2
  <2>4. Right(d, x - (x - off), ScanBackwards(d, y, x - off))
    <3>1. PICK n \in 0..x : n = x - off  BY <2>3
    <3>2. Right(d, x - n, ScanBackwards(d, y, n))  BY <2>2, ScanBackwardsRight
    <3> QED  BY <3>1, <3>2
  <2>5. Right(d, off, z)  BY <2>1, <2>3, <2>4
  <2> QED  BY <1>3, <2>5 DEF z
<1>12. CASE ~Ascii(d) /\ ~near /\ off <= Chars(d) - off
  <2>1. z = ScanForwards(d, 0, off)  BY <1>6, <1>12
  <2>2. off \in Nat /\ 0 + off = off /\ (off > 0 => 0 + off < Chars(d))  BY <1>4, <1>5, <1>12
  <2>3. Right(d, 0 + off, ScanForwards(d, 0, off))  BY <1>4, <2>2, ScanForwardsRight
  <2> HIDE DEF z
  <2>4. Right(d, off, z)  BY <2>1, <2>2, <2>3
  <2> QED  BY <1>3, <2>4 DEF z
<1>13. CASE ~Ascii(d) /\ ~near /\ ~(off <= Chars(d) - off)
  <2>1. z = ScanBackwards(d, Len(d), Chars(d) - off)  BY <1>6, <1>13
  <2>2. Chars(d) - off \in 0..Chars(d) /\ Chars(d) - (Chars(d) - off) = off  BY <1>4, <1>5
  <2>3. Right(d, Chars(d) - (Chars(d) - off), ScanBackwards(d, Len(d), Chars(d) - off))
    <3>1. PICK n \in 0..Chars(d) : n = Chars(d) - off  BY <2>2
    <3>2. Right(d, Chars(d) - n, ScanBackwards(d, Len(d), n))  BY <1>4, ScanBackwardsRight
    <3> QED  BY <3>1, <3>2
  <2> HIDE DEF z
  <2>4. Right(d, off, z)  BY <2>1, <2>2, <2>3
  <2> QED  BY <1>3, <2>4 DEF z
<1> QED  BY <1>9, <1>10, <1>11, <1>12, <1>13

\* So every entry the operation leaves in the cache is right.
LEMMA CachedOK ==
  ASSUME NEW t, Good(t), NEW a \in Live(t), NEW off \in 0..Chars(Utf8[t.mem[a]])
  PROVE  LET u == Cached(t, a, off)
         IN  Good(u) /\ u.mem = t.mem /\ u.resizing = t.resizing /\ u.tabptr = t.tabptr
<1> DEFINE u == Cached(t, a, off)
           k == IF CacheIndex(t, a) = 0 THEN CacheSize ELSE CacheIndex(t, a)
           e == [h |-> a, c |-> off, b |-> Char2Byte(t, a, off)]
           cache == [i \in 1..CacheSize |->
                       IF i = 1 THEN e ELSE IF i <= k THEN t.cache[i - 1] ELSE t.cache[i]]
<1>1. CASE u = t  BY <1>1
<1>2. CASE u # t
  <2>1. u = [t EXCEPT !.cache = cache]  BY <1>2 DEF Cached
  <2>2. t \in Heaps /\ a \in Addr /\ t.mem[a] # NULL /\ t.mem[a] \in Contents /\ CacheSize \in Nat
        /\ t.cache \in [1..CacheSize -> Entry]
    BY Constants DEF Live, Good, Heaps
  <2>3. Right(Utf8[t.mem[a]], off, Char2Byte(t, a, off))  BY Char2ByteRight
  <2>4. Utf8[t.mem[a]] \in Seq({0, 1})  BY <2>2, StringsAssumption
  <2>5. e \in Entry /\ EntryOK(t.mem, e)
    <3>1. off \in Nat  OBVIOUS
    <3>2. Char2Byte(t, a, off) \in Nat  BY <2>3, <2>4 DEF Right
    <3>3. e.h = a /\ e.c = off /\ e.b = Char2Byte(t, a, off)  OBVIOUS
    <3>4. e \in Entry  BY <2>2, <3>1, <3>2 DEF Entry
    <3> HIDE DEF e
    <3> QED  BY <2>2, <2>3, <3>3, <3>4 DEF EntryOK
  <2> HIDE DEF e, k, u
  <2>6. ASSUME NEW i \in 1..CacheSize PROVE cache[i] \in Entry /\ EntryOK(t.mem, cache[i])
    <3>1. \A j \in 1..CacheSize : t.cache[j] \in Entry /\ EntryOK(t.mem, t.cache[j])
      BY <2>2 DEF Good, CacheOK
    <3>2. CASE i = 1  BY <2>5, <3>2
    <3>3. CASE i # 1
      <4>1. i - 1 \in 1..CacheSize  BY <2>2, <3>3
      <4>2. cache[i] = t.cache[i - 1] \/ cache[i] = t.cache[i]  BY <3>3
      <4> HIDE DEF cache
      <4> QED  BY <3>1, <4>1, <4>2
    <3> QED  BY <3>2, <3>3
  <2>7. cache \in [1..CacheSize -> Entry] /\ CacheOK(t.mem, cache)
    <3>1. cache = [i \in 1..CacheSize |-> cache[i]]  OBVIOUS
    <3> HIDE DEF cache
    <3> QED  BY <2>6, <3>1 DEF CacheOK
  <2> HIDE DEF cache
  <2>8. /\ u.mem = t.mem /\ u.count = t.count /\ u.cache = cache /\ u.lit = t.lit
        /\ u.pinned = t.pinned /\ u.size = t.size /\ u.tab = t.tab
        /\ u.resizing = t.resizing /\ u.tabptr = t.tabptr
    BY <2>1, <2>2 DEF Heaps
  <2>9. u \in Heaps  BY <2>1, <2>2, <2>7 DEF Heaps
  <2>10. Live(u) = Live(t)  BY <2>8 DEF Live
  <2>11. Good(u)  BY <2>7, <2>8, <2>9, <2>10 DEF Good, Chained, LitOK
  <2> QED  BY <2>8, <2>11 DEF u
<1> QED  BY <1>1, <1>2

-----------------------------------------------------------------------------
(* The inductive invariant: the heap is good between any two steps, what   *)
(* the program holds is there, and the operation in progress has what it   *)
(* relies on.  From the moment do_intern found no string of the content    *)
(* until it links the new one, finalizers are prevented, so that there is  *)
(* still none; from the moment the resize read the address of the table    *)
(* until the reallocation, st_resizing keeps collections from moving it.   *)

Interning == {"resize", "grow", "shrink", "alloc"}
OpType == [pc : {"idle", "blk"} \cup Interning, c : Contents \cup {NULL},
           lit : DOMAIN Lit \cup {NULL}, try : Nat, ptr : {0, 1}]

HeldOK == held \in [Addr -> Nat] /\ \A a \in Addr : held[a] > 0 => m.mem[a] # NULL
OpOK ==
  /\ op \in OpType /\ blk \in [ptr : {0, 1}, stale : BOOLEAN] /\ ~blk.stale
  /\ pf = IF op.pc \in Interning THEN 1 ELSE 0
  /\ op.pc \in Interning =>
       /\ op.c \in Contents /\ (op.lit # NULL => op.c = Lit[op.lit])
       /\ \A a \in Addr : m.mem[a] # op.c
  /\ m.resizing <=> op.pc \in {"grow", "shrink"}
  /\ m.resizing => op.ptr = m.tabptr

StringsInv == Good(m) /\ HeldOK /\ OpOK

LEMMA StringsInit == Init => StringsInv
<1> SUFFICES ASSUME Init PROVE StringsInv  OBVIOUS
<1> DEFINE none == [addr |-> NULL, h |-> NULL]
           tab == [i \in 0..MinSize - 1 |-> [a \in Addr |-> 0]]
           mem == [a \in Addr |-> NULL]
           cache == [i \in 1..CacheSize |-> NoEntry]
           lit == [k \in LitKeys |-> none]
<1>1. /\ m.mem = mem /\ m.size = MinSize /\ m.tab = tab /\ m.count = 0 /\ m.tabptr = 0
      /\ m.resizing = FALSE /\ m.cache = cache /\ m.lit = lit /\ m.pinned = {}
  BY DEF Init
<1>2. MinSize \in Nat \ {0} /\ MinSize \in Sizes  BY StringsAssumption, SizesFirst
<1>3. mem \in [Addr -> Contents \cup {NULL}] /\ \A a \in Addr : mem[a] = NULL  OBVIOUS
<1>4. tab = Table(mem, MinSize)  BY DEF Table, Linked
<1>5. tab \in Tables  BY <1>2, <1>3, <1>4, TableType
<1>6. NoEntry \in Entry /\ NoEntry.h = NULL /\ none \in LitEntry /\ none.addr = NULL
  BY DEF NoEntry, Entry, LitEntry
<1>7. cache \in [1..CacheSize -> Entry] /\ (\A i \in 1..CacheSize : cache[i].h = NULL)
      /\ lit \in [LitKeys -> LitEntry] /\ (\A k \in LitKeys : lit[k].addr = NULL)
  <2> HIDE DEF none
  <2> QED  BY <1>6
<1>8. m = [mem |-> mem, size |-> MinSize, tab |-> tab, count |-> 0, tabptr |-> 0,
           resizing |-> FALSE, cache |-> cache, lit |-> lit, pinned |-> {}]
  BY DEF Init
<1> HIDE DEF mem, tab, cache, lit
<1>9. m \in Heaps  BY <1>2, <1>3, <1>5, <1>7, <1>8 DEF Heaps
<1>10. Chained(m)  BY <1>1, <1>2, <1>4 DEF Chained
<1>11. Live(m) = {}  BY <1>1, <1>3 DEF Live
<1>12. m.count = Cardinality(Live(m))  BY <1>1, <1>11, FS_EmptySet
<1>13. Distinct(m.mem)  BY <1>1, <1>3 DEF Distinct
<1>14. CacheOK(m.mem, m.cache)  BY <1>1, <1>7 DEF CacheOK, EntryOK
<1>15. LitOK(m)  BY <1>1, <1>7 DEF LitOK
<1>16. Good(m)  BY <1>9, <1>10, <1>12, <1>13, <1>14, <1>15 DEF Good
<1>17. HeldOK
  <2>1. held = [a \in Addr |-> 0]  BY DEF Init
  <2> QED  BY <2>1 DEF HeldOK
<1>18. OpOK
  <2>1. op = Idle /\ blk = [ptr |-> 0, stale |-> FALSE] /\ pf = 0  BY DEF Init
  <2>2. op \in OpType /\ op.pc = "idle" /\ op.pc \notin Interning /\ op.pc \notin {"grow", "shrink"}
    BY <2>1 DEF Idle, OpType, Interning
  <2>3. blk \in [ptr : {0, 1}, stale : BOOLEAN] /\ ~blk.stale  BY <2>1
  <2> QED  BY <1>1, <2>1, <2>2, <2>3 DEF OpOK
<1> QED  BY <1>16, <1>17, <1>18 DEF StringsInv


LEMMA ReturnedOK ==
  ASSUME NEW t, Good(t), NEW a \in Addr, t.mem[a] # NULL,
         NEW l \in DOMAIN Lit \cup {NULL}, l # NULL => t.mem[a] = Lit[l],
         held \in [Addr -> Nat], \A x \in Addr : held[x] > 0 => t.mem[x] # NULL,
         Returned(t, a, l)
  PROVE  Good(m') /\ HeldOK' /\ m'.resizing = t.resizing /\ m'.tabptr = t.tabptr
<1>1. /\ held' = [held EXCEPT ![a] = @ + 1]
      /\ m' = IF l = NULL THEN t
              ELSE [t EXCEPT !.lit[LitKey[l]] = [addr |-> l, h |-> a], !.pinned = @ \cup {a}]
  BY DEF Returned
<1>2. Good(m') /\ m'.mem = t.mem /\ m'.resizing = t.resizing /\ m'.tabptr = t.tabptr
  <2>1. CASE l = NULL  BY <1>1, <2>1
  <2>2. CASE l # NULL
    <3> DEFINE u == [t EXCEPT !.lit[LitKey[l]] = [addr |-> l, h |-> a], !.pinned = @ \cup {a}]
    <3>1. Good(u) /\ u.mem = t.mem /\ u.resizing = t.resizing /\ u.tabptr = t.tabptr
      BY <2>2, LitSetOK
    <3>2. m' = u  BY <1>1, <2>2
    <3> HIDE DEF u
    <3> QED  BY <3>1, <3>2
  <2> QED  BY <2>1, <2>2
<1>3. held' \in [Addr -> Nat] /\ \A x \in Addr \ {a} : held'[x] = held[x]  BY <1>1
<1>4. \A x \in Addr : held'[x] > 0 => m'.mem[x] # NULL  BY <1>2, <1>3
<1> QED  BY <1>2, <1>3, <1>4 DEF HeldOK

\* A step of the program outside any operation on the table.
LEMMA IdleStep ==
  ASSUME OpOK, op.pc = "idle", pf' = pf, op' = op, blk' = blk,
         m'.resizing = m.resizing, m'.tabptr = m.tabptr
  PROVE  OpOK'
<1>1. op.pc \notin Interning /\ op.pc \notin {"grow", "shrink"}  BY DEF Interning
<1>2. pf = 0 /\ ~m.resizing  BY <1>1 DEF OpOK
<1>3. op \in OpType /\ blk \in [ptr : {0, 1}, stale : BOOLEAN] /\ ~blk.stale  BY DEF OpOK
<1> QED  BY <1>1, <1>2, <1>3 DEF OpOK

\* A step that leaves the operation idle.
LEMMA BecomesIdle ==
  ASSUME op' = Idle, pf' = 0, ~m'.resizing,
         blk' \in [ptr : {0, 1}, stale : BOOLEAN], ~blk'.stale
  PROVE  OpOK'
<1>1. op' \in OpType /\ op'.pc = "idle"  BY DEF Idle, OpType
<1>2. op'.pc \notin Interning /\ op'.pc \notin {"grow", "shrink"}  BY <1>1 DEF Interning
<1> QED  BY <1>1, <1>2 DEF OpOK

LEMMA InternHitStep ==
  ASSUME StringsInv, NEW c \in Contents, NEW l \in DOMAIN Lit \cup {NULL}, l # NULL => c = Lit[l],
         InternHit(c, l)
  PROVE  StringsInv'
<1>1. Good(m) /\ HeldOK /\ OpOK /\ m \in Heaps /\ Chained(m)  BY DEF StringsInv, Good
<1>2. PICK a : a = Lookup(m, c)  OBVIOUS
<1>3. a # NULL /\ Returned(m, a, l) /\ op.pc = "idle" /\ UNCHANGED <<lost, pf, op, blk>>
  BY <1>2 DEF InternHit
<1>4. a \in Addr /\ m.mem[a] = c /\ c # NULL  BY <1>1, <1>2, <1>3, LookupOK, Constants
<1>5. held \in [Addr -> Nat] /\ \A x \in Addr : held[x] > 0 => m.mem[x] # NULL  BY <1>1 DEF HeldOK
<1>6. Good(m') /\ HeldOK' /\ m'.resizing = m.resizing /\ m'.tabptr = m.tabptr
  BY <1>1, <1>3, <1>4, <1>5, ReturnedOK
<1>7. OpOK'  BY <1>1, <1>3, <1>6, IdleStep
<1> QED  BY <1>6, <1>7 DEF StringsInv

LEMMA LitcacheHitStep ==
  ASSUME StringsInv, NEW l \in DOMAIN Lit, LitcacheHit(l)
  PROVE  StringsInv'
<1>1. Good(m) /\ HeldOK /\ OpOK  BY DEF StringsInv
<1> DEFINE e == m.lit[LitKey[l]]
<1>2. /\ op.pc = "idle" /\ e.addr = l /\ held' = [held EXCEPT ![e.h] = @ + 1]
      /\ UNCHANGED <<m, lost, pf, op, blk>>
  BY DEF LitcacheHit
<1>3. LitKey[l] \in LitKeys /\ l # NULL  BY Constants DEF LitKeys
<1>4. e.h \in Live(m)  BY <1>1, <1>2, <1>3 DEF Good, LitOK
<1> HIDE DEF e
<1>5. m.mem[e.h] # NULL /\ e.h \in Addr  BY <1>4 DEF Live
<1>6. HeldOK'
  <2>1. held' \in [Addr -> Nat] /\ \A x \in Addr \ {e.h} : held'[x] = held[x]  BY <1>1, <1>2, <1>5 DEF HeldOK
  <2>2. \A x \in Addr : held'[x] > 0 => m.mem[x] # NULL  BY <1>1, <1>5, <2>1 DEF HeldOK
  <2> QED  BY <1>2, <2>1, <2>2 DEF HeldOK
<1>7. OpOK'  BY <1>1, <1>2, IdleStep
<1> QED  BY <1>1, <1>2, <1>6, <1>7 DEF StringsInv

LEMMA InternMissStep ==
  ASSUME StringsInv, NEW c \in Contents, NEW l \in DOMAIN Lit \cup {NULL}, l # NULL => c = Lit[l],
         InternMiss(c, l)
  PROVE  StringsInv'
<1>1. Good(m) /\ HeldOK /\ OpOK /\ m \in Heaps /\ Chained(m)  BY DEF StringsInv, Good
<1>2. /\ op.pc = "idle" /\ Lookup(m, c) = NULL /\ pf' = pf + 1
      /\ op' = [Idle EXCEPT !.pc = IF m.count % CheckEvery = 0 THEN "resize" ELSE "alloc", !.c = c, !.lit = l]
      /\ UNCHANGED <<m, held, lost, blk>>
  BY DEF InternMiss, PreventFinalizers
<1>3. \A x \in Addr : m.mem[x] # c  BY <1>1, <1>2, LookupOK
<1>4. pf = 0 /\ ~m.resizing  BY <1>1, <1>2 DEF OpOK, Interning
<1> DEFINE k == IF m.count % CheckEvery = 0 THEN "resize" ELSE "alloc"
<1>5. k \in {"resize", "alloc"}  OBVIOUS
<1>6. op' = [Idle EXCEPT !.pc = k, !.c = c, !.lit = l]  BY <1>2
<1> HIDE DEF k
<1>7. op' = [pc |-> k, c |-> c, lit |-> l, try |-> 0, ptr |-> 0]  BY <1>6 DEF Idle
<1>8. op' \in OpType  BY <1>5, <1>7 DEF OpType, Interning
<1>9. op'.pc = k /\ op'.c = c /\ op'.lit = l /\ k \in Interning /\ k \notin {"grow", "shrink"}
  BY <1>5, <1>7 DEF Interning
<1>10. blk' \in [ptr : {0, 1}, stale : BOOLEAN] /\ ~blk'.stale /\ m' = m  BY <1>1, <1>2 DEF OpOK
<1>11. pf' = 1  BY <1>2, <1>4
<1>12. OpOK'  BY <1>3, <1>4, <1>8, <1>9, <1>10, <1>11 DEF OpOK
<1>13. Good(m') /\ HeldOK'  BY <1>1, <1>2 DEF HeldOK
<1> QED  BY <1>12, <1>13 DEF StringsInv

\* A step from one part of an interning to another.
LEMMA InterningStep ==
  ASSUME OpOK, op.pc \in Interning, pf' = pf, op' \in OpType, op'.pc \in Interning,
         op'.c = op.c, op'.lit = op.lit,
         \A a \in Addr : m'.mem[a] # NULL => m'.mem[a] = m.mem[a],
         blk' \in [ptr : {0, 1}, stale : BOOLEAN], ~blk'.stale,
         m'.resizing <=> op'.pc \in {"grow", "shrink"}, m'.resizing => op'.ptr = m'.tabptr
  PROVE  OpOK'
<1>1. pf = 1 /\ op.c \in Contents /\ (op.lit # NULL => op.c = Lit[op.lit])
      /\ \A a \in Addr : m.mem[a] # op.c
  BY DEF OpOK
<1>2. \A a \in Addr : m'.mem[a] # op.c  BY <1>1, Constants
<1> QED  BY <1>1, <1>2 DEF OpOK

LEMMA ResizeCheckStep ==
  ASSUME StringsInv, ResizeCheck
  PROVE  StringsInv'
<1>1. Good(m) /\ HeldOK /\ OpOK /\ op \in OpType  BY DEF StringsInv, OpOK
<1> DEFINE r == ResizeNeeded(m)
           k == IF r = "none" THEN "alloc" ELSE r
<1>2. r \in {"none", "grow", "shrink"} /\ (r = "shrink" => m.size > MinSize)
  BY DEF ResizeNeeded
<1>3. /\ op.pc = "resize"
      /\ m' = CASE r = "grow" -> [m EXCEPT !.resizing = TRUE]
                [] r = "shrink" -> [Shrunk(m) EXCEPT !.resizing = TRUE]
                [] r = "none" -> m
      /\ op' = [op EXCEPT !.pc = k, !.ptr = m.tabptr] /\ UNCHANGED <<held, lost, pf, blk>>
  BY DEF ResizeCheck
<1> HIDE DEF r
<1>4. /\ r = "none" => m' = m
      /\ r = "grow" => m' = [m EXCEPT !.resizing = TRUE]
      /\ r = "shrink" => m' = [Shrunk(m) EXCEPT !.resizing = TRUE]
  BY <1>2, <1>3
<1>5. ~m.resizing  BY <1>1, <1>3 DEF OpOK
<1>6. k \in Interning /\ op.pc \in Interning /\ (k \in {"grow", "shrink"} <=> r # "none")
  BY <1>2, <1>3 DEF Interning
<1> HIDE DEF k
<1>7. Good(m') /\ m'.mem = m.mem /\ m'.tabptr = m.tabptr /\ (m'.resizing <=> r # "none")
  <2>1. CASE r = "none"  BY <1>1, <1>4, <1>5, <2>1
  <2>2. CASE r = "grow"
    <3> DEFINE u == [m EXCEPT !.resizing = TRUE]
    <3>1. Good(u) /\ u.mem = m.mem /\ u.resizing = TRUE /\ u.tabptr = m.tabptr  BY <1>1, FlagsOK
    <3>2. m' = u  BY <1>4, <2>2
    <3> HIDE DEF u
    <3> QED  BY <2>2, <3>1, <3>2
  <2>3. CASE r = "shrink"
    <3>1. PICK s : s = Shrunk(m)  OBVIOUS
    <3>2. Good(s) /\ s.mem = m.mem /\ s.tabptr = m.tabptr  BY <1>1, <1>2, <2>3, <3>1, ShrunkOK
    <3> DEFINE u == [s EXCEPT !.resizing = TRUE]
    <3>3. Good(u) /\ u.mem = s.mem /\ u.resizing = TRUE /\ u.tabptr = s.tabptr  BY <3>2, FlagsOK
    <3>4. m' = u  BY <1>4, <2>3, <3>1
    <3> HIDE DEF u
    <3> QED  BY <2>3, <3>2, <3>3, <3>4
  <2> QED  BY <1>2, <2>1, <2>2, <2>3
<1>8. HeldOK'  BY <1>1, <1>3, <1>7 DEF HeldOK
<1>9. m.tabptr \in {0, 1}  BY <1>1 DEF Good, Heaps
<1>10. op' \in OpType /\ op'.pc = k /\ op'.c = op.c /\ op'.lit = op.lit /\ op'.ptr = m.tabptr
  BY <1>1, <1>3, <1>6, <1>9 DEF OpType
<1>11. blk' \in [ptr : {0, 1}, stale : BOOLEAN] /\ ~blk'.stale /\ pf' = pf  BY <1>1, <1>3 DEF OpOK
<1>12. OpOK'  BY <1>1, <1>6, <1>7, <1>10, <1>11, InterningStep
<1> QED  BY <1>7, <1>8, <1>12 DEF StringsInv

LEMMA ReallocedStep ==
  ASSUME StringsInv, Realloced
  PROVE  StringsInv'
<1>1. Good(m) /\ HeldOK /\ OpOK /\ op \in OpType  BY DEF StringsInv, OpOK
<1>2. PICK s : s = IF op.pc = "grow" THEN Grown(m) ELSE Moved(m)  OBVIOUS
<1> DEFINE u == [s EXCEPT !.resizing = FALSE]
           q == blk.stale \/ op.ptr # m.tabptr
<1>3. /\ op.pc \in {"grow", "shrink"} /\ m' = u /\ blk' = [blk EXCEPT !.stale = q]
      /\ op' = [op EXCEPT !.pc = "alloc", !.try = 0] /\ UNCHANGED <<held, lost, pf>>
  BY <1>2 DEF Realloced
<1>4. Good(s) /\ s.mem = m.mem  BY <1>1, <1>2, GrownOK, FlagsOK
<1>5. Good(u) /\ u.mem = s.mem /\ u.resizing = FALSE  BY <1>4, FlagsOK
<1> HIDE DEF u
<1>6. Good(m') /\ m'.mem = m.mem /\ m'.resizing = FALSE  BY <1>3, <1>4, <1>5
<1>7. HeldOK'  BY <1>1, <1>3, <1>6 DEF HeldOK
<1>8. q = FALSE  BY <1>1, <1>3 DEF OpOK
<1> HIDE DEF q
<1>9. blk' \in [ptr : {0, 1}, stale : BOOLEAN] /\ ~blk'.stale
  <2>1. blk \in [ptr : {0, 1}, stale : BOOLEAN] /\ blk' = [blk EXCEPT !.stale = FALSE]
    BY <1>1, <1>3, <1>8 DEF OpOK
  <2> QED  BY <2>1
<1>10. op' \in OpType /\ op'.pc = "alloc" /\ op'.c = op.c /\ op'.lit = op.lit
  BY <1>1, <1>3 DEF OpType, Interning
<1>11. "alloc" \in Interning /\ "alloc" \notin {"grow", "shrink"} /\ op.pc \in Interning
  BY <1>3 DEF Interning
<1>12. OpOK'  BY <1>1, <1>3, <1>6, <1>9, <1>10, <1>11, InterningStep
<1> QED  BY <1>6, <1>7, <1>12 DEF StringsInv

LEMMA GrowGiveUpStep ==
  ASSUME StringsInv, GrowGiveUp
  PROVE  StringsInv'
<1>1. Good(m) /\ HeldOK /\ OpOK /\ op \in OpType  BY DEF StringsInv, OpOK
<1> DEFINE u == [m EXCEPT !.resizing = FALSE]
<1>2. /\ op.pc = "grow" /\ m' = u /\ op' = [op EXCEPT !.pc = "alloc", !.try = 0]
      /\ UNCHANGED <<held, lost, pf, blk>>
  BY DEF GrowGiveUp
<1>3. Good(u) /\ u.mem = m.mem /\ u.resizing = FALSE  BY <1>1, FlagsOK
<1> HIDE DEF u
<1>4. Good(m') /\ m'.mem = m.mem /\ m'.resizing = FALSE  BY <1>2, <1>3
<1>5. HeldOK'  BY <1>1, <1>2, <1>4 DEF HeldOK
<1>6. blk' \in [ptr : {0, 1}, stale : BOOLEAN] /\ ~blk'.stale  BY <1>1, <1>2 DEF OpOK
<1>7. op' \in OpType /\ op'.pc = "alloc" /\ op'.c = op.c /\ op'.lit = op.lit
  BY <1>1, <1>2 DEF OpType, Interning
<1>8. "alloc" \in Interning /\ "alloc" \notin {"grow", "shrink"} /\ op.pc \in Interning
  BY <1>2 DEF Interning
<1>9. OpOK'  BY <1>1, <1>2, <1>4, <1>6, <1>7, <1>8, InterningStep
<1> QED  BY <1>4, <1>5, <1>9 DEF StringsInv

\* What the program holds outlives a collection.
LEMMA GCKeeps ==
  ASSUME Good(m), HeldOK, NEW e, GC(e), held' = held
  PROVE  Good(m') /\ HeldOK'
<1>1. held \in [Addr -> Nat] /\ \A a \in Addr : held[a] > 0 => m.mem[a] # NULL  BY DEF HeldOK
<1>2. Good(m') /\ \A a \in Addr : held[a] # 0 /\ m.mem[a] # NULL => m'.mem[a] = m.mem[a]
  BY GCOK
<1>3. \A a \in Addr : held'[a] > 0 => m'.mem[a] # NULL  BY <1>1, <1>2
<1> QED  BY <1>1, <1>2, <1>3 DEF HeldOK

LEMMA RetryStep ==
  ASSUME StringsInv, Retry
  PROVE  StringsInv'
<1>1. Good(m) /\ HeldOK /\ OpOK /\ op \in OpType  BY DEF StringsInv, OpOK
<1>2. PICK e : GC(e)  BY DEF Retry
<1>3. /\ op.pc \in {"grow", "shrink", "alloc", "blk"} /\ op' = [op EXCEPT !.try = @ + 1]
      /\ blk' = blk \/ blk' = [blk EXCEPT !.ptr = 1 - @]
      /\ held' = held /\ pf' = pf
  BY DEF Retry
<1>4. Good(m') /\ HeldOK'  BY <1>1, <1>2, <1>3, GCKeeps
<1>5. /\ m'.resizing = m.resizing /\ (m.resizing => m'.tabptr = m.tabptr)
      /\ pf > 0 => \A a \in Addr : m'.mem[a] # NULL => m'.mem[a] = m.mem[a]
  BY <1>1, <1>2, GCOK
<1>6. blk' \in [ptr : {0, 1}, stale : BOOLEAN] /\ ~blk'.stale
  <2>1. blk \in [ptr : {0, 1}, stale : BOOLEAN] /\ ~blk.stale  BY <1>1 DEF OpOK
  <2>2. CASE blk' = blk  BY <2>1, <2>2
  <2>3. CASE blk' = [blk EXCEPT !.ptr = 1 - @]
    <3>1. 1 - blk.ptr \in {0, 1}  BY <2>1
    <3> DEFINE p == 1 - blk.ptr
    <3>2. blk' = [blk EXCEPT !.ptr = p]  BY <2>3
    <3> HIDE DEF p
    <3>3. p \in {0, 1}  BY <3>1 DEF p
    <3> QED  BY <2>1, <3>2, <3>3, Zenon
  <2> QED  BY <1>3, <2>2, <2>3
<1>7. op' \in OpType /\ op'.pc = op.pc /\ op'.c = op.c /\ op'.lit = op.lit /\ op'.ptr = op.ptr
  <2>1. op.try + 1 \in Nat  BY <1>1 DEF OpType
  <2> DEFINE n == op.try + 1
  <2> HIDE DEF n
  <2>2. op' = [op EXCEPT !.try = n] /\ n \in Nat  BY <1>3, <2>1 DEF n
  <2> QED  BY <1>1, <2>2 DEF OpType
<1>8. m.resizing <=> op.pc \in {"grow", "shrink"}  BY <1>1 DEF OpOK
<1>9. m.resizing => op.ptr = m.tabptr  BY <1>1 DEF OpOK
<1>10. CASE op.pc \in Interning
  <2>1. pf > 0  BY <1>1, <1>10 DEF OpOK
  <2>2. OpOK'  BY <1>1, <1>3, <1>5, <1>6, <1>7, <1>8, <1>9, <1>10, <2>1, InterningStep
  <2> QED  BY <1>4, <2>2 DEF StringsInv
<1>11. CASE op.pc \notin Interning
  <2>1. op.pc \notin {"grow", "shrink"} /\ pf = 0  BY <1>1, <1>11 DEF OpOK, Interning
  <2>2. OpOK'  BY <1>3, <1>5, <1>6, <1>7, <1>8, <1>11, <2>1 DEF OpOK
  <2> QED  BY <1>4, <2>2 DEF StringsInv
<1> QED  BY <1>10, <1>11

LEMMA AllocOkStep ==
  ASSUME StringsInv, AllocOk
  PROVE  StringsInv'
<1>1. Good(m) /\ HeldOK /\ OpOK /\ op \in OpType /\ m \in Heaps  BY DEF StringsInv, OpOK, Good
<1>2. op.pc = "alloc" /\ op' = Idle /\ blk' = blk /\ pf' = IF pf = 0 THEN 0 ELSE pf - 1
  BY DEF AllocOk
<1>3. op.pc \in Interning /\ op.pc \notin {"grow", "shrink"}  BY <1>2 DEF Interning
<1>4. /\ pf = 1 /\ ~m.resizing /\ op.c \in Contents /\ (op.lit # NULL => op.c = Lit[op.lit])
      /\ \A a \in Addr : m.mem[a] # op.c
  BY <1>1, <1>3 DEF OpOK
<1>5. op.lit \in DOMAIN Lit \cup {NULL}  BY <1>1 DEF OpType
<1>6. PICK a \in Addr \ Live(m) : Returned(Insert(m, a, op.c), a, op.lit)  BY DEF AllocOk
<1>7. PICK c \in Contents, l \in DOMAIN Lit \cup {NULL} : c = op.c /\ l = op.lit  BY <1>4, <1>5
<1> DEFINE u == Insert(m, a, c)
<1>8. m.mem[a] = NULL  BY <1>6 DEF Live
<1>9. Good(u) /\ u.mem = [m.mem EXCEPT ![a] = c] /\ u.resizing = m.resizing
  <2>1. \A x \in Addr : m.mem[x] # c  BY <1>4, <1>7
  <2> QED  BY <1>1, <1>6, <1>8, <2>1, InsertOK
<1>10. u.mem[a] = c /\ c # NULL /\ \A x \in Addr \ {a} : u.mem[x] = m.mem[x]
  BY <1>1, <1>6, <1>9, Constants DEF Heaps
<1>11. Returned(u, a, l)  BY <1>6, <1>7
<1> HIDE DEF u
<1>12. held \in [Addr -> Nat] /\ \A x \in Addr : held[x] > 0 => u.mem[x] # NULL
  BY <1>1, <1>10 DEF HeldOK
<1>13. (l # NULL => u.mem[a] = Lit[l]) /\ u.mem[a] # NULL /\ a \in Addr
  BY <1>4, <1>6, <1>7, <1>10
<1>14. Good(m') /\ HeldOK' /\ m'.resizing = u.resizing  BY <1>9, <1>11, <1>12, <1>13, ReturnedOK
<1>15. blk' \in [ptr : {0, 1}, stale : BOOLEAN] /\ ~blk'.stale  BY <1>1, <1>2 DEF OpOK
<1>16. pf' = 0 /\ ~m'.resizing  BY <1>2, <1>4, <1>9, <1>14
<1>17. OpOK'  BY <1>2, <1>15, <1>16, BecomesIdle
<1> QED  BY <1>14, <1>17 DEF StringsInv

LEMMA AllocFailsStep ==
  ASSUME StringsInv, AllocFails
  PROVE  StringsInv'
<1>1. Good(m) /\ HeldOK /\ OpOK  BY DEF StringsInv
<1>2. op.pc = "alloc" /\ op' = Idle /\ pf' = pf - 1 /\ UNCHANGED <<m, held, lost, blk>>
  BY DEF AllocFails
<1>3. op.pc \in Interning /\ op.pc \notin {"grow", "shrink"}  BY <1>2 DEF Interning
<1>4. pf' = 0 /\ ~m'.resizing  BY <1>1, <1>2, <1>3 DEF OpOK
<1>5. blk' \in [ptr : {0, 1}, stale : BOOLEAN] /\ ~blk'.stale  BY <1>1, <1>2 DEF OpOK
<1>6. OpOK'  BY <1>2, <1>4, <1>5, BecomesIdle
<1>7. Good(m') /\ HeldOK'  BY <1>1, <1>2 DEF HeldOK
<1> QED  BY <1>6, <1>7 DEF StringsInv

LEMMA BlockSteps ==
  ASSUME StringsInv, BlkBegin \/ BlkOk \/ BlkFails
  PROVE  StringsInv'
<1>1. Good(m) /\ HeldOK /\ OpOK  BY DEF StringsInv
<1>2. op.pc \in {"idle", "blk"} /\ UNCHANGED <<m, held, lost, pf>>
  BY DEF BlkBegin, BlkOk, BlkFails
<1>3. Good(m') /\ HeldOK'  BY <1>1, <1>2 DEF HeldOK
<1>4. pf' = 0 /\ ~m'.resizing  BY <1>1, <1>2 DEF OpOK, Interning
<1>5. blk \in [ptr : {0, 1}, stale : BOOLEAN] /\ ~blk.stale  BY <1>1 DEF OpOK
<1>6. CASE BlkBegin
  <2>1. op' = [Idle EXCEPT !.pc = "blk", !.ptr = blk.ptr] /\ blk' = blk  BY <1>6 DEF BlkBegin
  <2>2. op' = [pc |-> "blk", c |-> NULL, lit |-> NULL, try |-> 0, ptr |-> blk.ptr]  BY <2>1 DEF Idle
  <2>3. op' \in OpType /\ op'.pc = "blk"  BY <1>5, <2>2 DEF OpType
  <2>4. op'.pc \notin Interning /\ op'.pc \notin {"grow", "shrink"}  BY <2>3 DEF Interning
  <2>5. OpOK'  BY <1>4, <1>5, <2>1, <2>3, <2>4 DEF OpOK
  <2> QED  BY <1>3, <2>5 DEF StringsInv
<1>7. CASE BlkOk
  <2> DEFINE q == blk.stale \/ GetPtr(op, blk) # blk.ptr
  <2>1. op' = Idle /\ blk' = [ptr |-> 1 - blk.ptr, stale |-> q]  BY <1>7 DEF BlkOk
  <2>2. q = FALSE  BY <1>5 DEF GetPtr
  <2> HIDE DEF q
  <2>3. blk' = [ptr |-> 1 - blk.ptr, stale |-> FALSE] /\ 1 - blk.ptr \in {0, 1}
    <3>1. blk' = [ptr |-> 1 - blk.ptr, stale |-> FALSE]  BY <2>1, <2>2, Zenon
    <3> QED  BY <1>5, <3>1
  <2>4. blk' \in [ptr : {0, 1}, stale : BOOLEAN] /\ ~blk'.stale  BY <2>3
  <2>5. OpOK'  BY <1>4, <2>1, <2>4, BecomesIdle
  <2> QED  BY <1>3, <2>5 DEF StringsInv
<1>8. CASE BlkFails
  <2>1. op' = Idle /\ blk' = blk  BY <1>8 DEF BlkFails
  <2>2. OpOK'  BY <1>4, <1>5, <2>1, BecomesIdle
  <2> QED  BY <1>3, <2>2 DEF StringsInv
<1> QED  BY <1>6, <1>7, <1>8

LEMMA ReleaseStep ==
  ASSUME StringsInv, NEW a \in Addr, Release(a) \/ Orphan(a)
  PROVE  StringsInv'
<1>1. Good(m) /\ HeldOK /\ OpOK /\ m \in Heaps  BY DEF StringsInv, Good
<1>2. op.pc = "idle" /\ held[a] > 0 /\ UNCHANGED <<pf, op, blk>>
  BY <1>1 DEF Release, Orphan, HeldOK
<1>3. m.mem[a] # NULL /\ held \in [Addr -> Nat]  BY <1>1, <1>2 DEF HeldOK
<1>4. held' = [held EXCEPT ![a] = held[a] - 1]
  <2>1. CASE Release(a)  BY <2>1 DEF Release
  <2>2. CASE Orphan(a)
    <3>1. held[a] = 1 /\ held[a] - 1 = 0 /\ held' = [held EXCEPT ![a] = 0]  BY <2>2 DEF Orphan
    <3> QED  BY <3>1
  <2> QED  BY <2>1, <2>2
<1>5. held' \in [Addr -> Nat] /\ held'[a] = held[a] - 1 /\ \A x \in Addr \ {a} : held'[x] = held[x]
  <2>1. held[a] - 1 \in Nat  BY <1>2, <1>3
  <2> QED  BY <1>3, <1>4, <2>1
<1>6. m' = m \/ (held[a] = 1 /\ a \notin m.pinned /\ m' = FreeString(m, a))
  BY DEF Release, Orphan
<1>7. CASE m' = m
  <2>1. HeldOK'  BY <1>1, <1>3, <1>5, <1>7 DEF HeldOK
  <2>2. OpOK'  BY <1>1, <1>2, <1>7, IdleStep
  <2> QED  BY <1>1, <1>7, <2>1, <2>2 DEF StringsInv
<1>8. CASE held[a] = 1 /\ a \notin m.pinned /\ m' = FreeString(m, a)
  <2>1. PICK u : u = FreeString(m, a)  OBVIOUS
  <2>2. Good(u) /\ u.mem = [m.mem EXCEPT ![a] = NULL] /\ u.resizing = m.resizing /\ u.tabptr = m.tabptr
    BY <1>1, <1>3, <1>8, <2>1, FreeStringOK
  <2>3. m' = u  BY <1>8, <2>1
  <2>4. \A x \in Addr \ {a} : u.mem[x] = m.mem[x]  BY <1>1, <2>2 DEF Heaps
  <2>5. held'[a] = 0  BY <1>5, <1>8
  <2>6. \A x \in Addr : held'[x] > 0 => u.mem[x] # NULL  BY <1>1, <1>5, <2>4, <2>5 DEF HeldOK
  <2>7. HeldOK'  BY <1>5, <2>3, <2>6 DEF HeldOK
  <2>8. OpOK'  BY <1>1, <1>2, <2>2, <2>3, IdleStep
  <2> QED  BY <2>2, <2>3, <2>7, <2>8 DEF StringsInv
<1> QED  BY <1>6, <1>7, <1>8

LEMMA CollectStep ==
  ASSUME StringsInv, Collect
  PROVE  StringsInv'
<1>1. Good(m) /\ HeldOK /\ OpOK  BY DEF StringsInv
<1>2. op.pc = "idle" /\ GC(FALSE) /\ UNCHANGED <<held, pf, op, blk>>  BY DEF Collect
<1>3. Good(m') /\ HeldOK'  BY <1>1, <1>2, GCKeeps
<1>4. m'.resizing = m.resizing  BY <1>1, <1>2, GCOK
<1>5. op.pc \notin Interning /\ op.pc \notin {"grow", "shrink"}  BY <1>2 DEF Interning
<1>6. OpOK'  BY <1>1, <1>2, <1>4, <1>5 DEF OpOK
<1> QED  BY <1>3, <1>6 DEF StringsInv

LEMMA CharAtStep ==
  ASSUME StringsInv, NEW a \in Addr, NEW off, CharAt(a, off)
  PROVE  StringsInv'
<1>1. Good(m) /\ HeldOK /\ OpOK  BY DEF StringsInv
<1>2. /\ op.pc = "idle" /\ held[a] > 0 /\ off \in 0..Chars(Utf8[m.mem[a]])
      /\ m' = Cached(m, a, off) /\ UNCHANGED <<held, lost, pf, op, blk>>
  BY DEF CharAt
<1>3. a \in Live(m)  BY <1>1, <1>2 DEF HeldOK, Live
<1>4. PICK u : u = Cached(m, a, off)  OBVIOUS
<1>5. Good(u) /\ u.mem = m.mem /\ u.resizing = m.resizing /\ u.tabptr = m.tabptr
  BY <1>1, <1>2, <1>3, <1>4, CachedOK
<1>6. m' = u  BY <1>2, <1>4
<1>7. HeldOK'  BY <1>1, <1>2, <1>5, <1>6 DEF HeldOK
<1>8. OpOK'  BY <1>1, <1>2, <1>5, <1>6, IdleStep
<1> QED  BY <1>5, <1>6, <1>7, <1>8 DEF StringsInv

LEMMA StringsNext == StringsInv /\ [Next]_vars => StringsInv'
<1> SUFFICES ASSUME StringsInv, [Next]_vars PROVE StringsInv'  OBVIOUS
<1>1. CASE UNCHANGED vars
  BY <1>1 DEF vars, StringsInv, HeldOK, OpOK
<1>2. ASSUME NEW c \in Contents, InternHit(c, NULL) \/ InternMiss(c, NULL) PROVE StringsInv'
  BY <1>2, InternHitStep, InternMissStep
<1>3. ASSUME NEW l \in DOMAIN Lit, LitcacheHit(l) \/ InternHit(Lit[l], l) \/ InternMiss(Lit[l], l)
      PROVE  StringsInv'
  <2>1. Lit[l] \in Contents /\ l \in DOMAIN Lit \cup {NULL}  BY StringsAssumption
  <2> QED  BY <1>3, <2>1, LitcacheHitStep, InternHitStep, InternMissStep
<1>4. CASE ResizeCheck \/ Realloced \/ GrowGiveUp \/ Retry \/ AllocOk \/ AllocFails
  BY <1>4, ResizeCheckStep, ReallocedStep, GrowGiveUpStep, RetryStep, AllocOkStep, AllocFailsStep
<1>5. CASE BlkBegin \/ BlkOk \/ BlkFails \/ Collect
  BY <1>5, BlockSteps, CollectStep
<1>6. ASSUME NEW a \in Addr, Release(a) \/ Orphan(a) \/ \E off \in 0..MaxChars : CharAt(a, off)
      PROVE  StringsInv'
  BY <1>6, ReleaseStep, CharAtStep
<1> QED  BY <1>1, <1>2, <1>3, <1>4, <1>5, <1>6 DEF Next

LEMMA StringsInvSound == StringsInv => StringsSound
<1> SUFFICES ASSUME StringsInv PROVE StringsSound  OBVIOUS
<1>1. Good(m) /\ HeldOK /\ OpOK /\ m \in Heaps /\ Chained(m)  BY DEF StringsInv, Good
<1>2. Interned  BY <1>1 DEF Interned, Good, Distinct, Live
<1>3. ChainsExact
  <2>1. m.size \in Nat \ {0} /\ m.tab = Table(m.mem, m.size)  BY <1>1, SizesPositive DEF Chained
  <2>2. DOMAIN m.tab = 0..m.size - 1  BY <2>1 DEF Table
  <2>3. ASSUME NEW i \in DOMAIN m.tab, NEW a \in Addr
        PROVE  m.tab[i][a] = IF m.mem[a] = NULL THEN 0 ELSE IF Slot(m, m.mem[a]) = i THEN 1 ELSE 0
    BY <2>1, <2>2 DEF Table, Linked, Slot
  <2>4. m.count = Cardinality(Live(m))  BY <1>1 DEF Good
  <2> QED  BY <2>2, <2>3, <2>4 DEF ChainsExact
<1>4. LitcacheFresh  BY <1>1 DEF LitcacheFresh, HeldOK, Good, LitOK
<1>5. OffsetsRight
  <2> SUFFICES ASSUME NEW a \in Live(m), NEW off \in 0..Chars(Utf8[m.mem[a]])
               PROVE  Char2Byte(m, a, off) = CharStart(Utf8[m.mem[a]], off)
    BY DEF OffsetsRight
  <2>1. Right(Utf8[m.mem[a]], off, Char2Byte(m, a, off))  BY <1>1, Char2ByteRight
  <2>2. Utf8[m.mem[a]] \in Seq({0, 1})
    <3>1. m.mem[a] \in Contents  BY <1>1 DEF Live, Heaps
    <3> QED  BY <3>1, StringsAssumption
  <2> QED  BY <2>1, <2>2, CharStartRight
<1>6. PointersFresh  BY <1>1 DEF OpOK, PointersFresh
<1> QED  BY <1>2, <1>3, <1>4, <1>5, <1>6 DEF StringsSound

\* In every behaviour of the string table, for any contents, hash function, table and
\* cache sizes and retry limits: no content is interned twice and the chains hold each
\* string exactly once, although collections and finalizers run inside duk__strtable_do_intern
\* and the resizing of the table; the literal cache and duk_heap_strcache_offset_char2byte
\* answer what a computation from scratch would; and no reallocation is given a pointer that
\* a collection moved.
THEOREM StringsAlwaysSound == Spec => []StringsSound
<1>1. Init => StringsInv  BY StringsInit
<1>2. StringsInv /\ [Next]_vars => StringsInv'  BY StringsNext
<1>3. StringsInv => StringsSound  BY StringsInvSound
<1> QED  BY <1>1, <1>2, <1>3, PTL DEF Spec
=============================================================================

-------------------------- MODULE DukMapSet_proofs --------------------------
(***************************************************************************)
(* Map and Set agree with ECMAScript's collections of what their keys are  *)
(* taken for, for every set of keys, values and addresses.                 *)
(*                                                                         *)
(* The name of an object is made from its address.  What makes that safe   *)
(* is that an object stays alive, and keeps its address to itself, as long *)
(* as a store that is in use holds it as a key (Unshared): then the names  *)
(* of two keys are equal exactly when the keys are taken for the same      *)
(* (Norm): strings as far as their first NUL, values without a heap        *)
(* address always, other keys by SameValueZero.  An iterator knows names   *)
(* only, which later objects may come to have; it gives no key twice       *)
(* because the name of a key never changes, and it owes only keys that are *)
(* still in its store, which need not be the collection's any more.        *)
(***************************************************************************)
EXTENDS DukMapSet, SequenceTheorems, NaturalsInduction, WellFoundedInduction, TLAPS

-----------------------------------------------------------------------------
(* Keys and their names.                                                   *)

\* The keys there are when n objects have been made.
KeysUpTo(n) ==
  {k \in Seq(Int) : k # <<>> /\ \/ k[1] = 1 /\ Len(k) > 1
                                \/ k[1] \in {2, 4}
                                \/ k[1] = 3 /\ Len(k) = 2 /\ k[2] \in 1..n}
\* The name of a key as map_set and map_delete see it.
Name(ad, k) == CASE k[1] = 1 -> <<1, k[2]>> [] k[1] = 3 -> <<3, ad[k[2]]>> [] k[1] = 4 -> <<4>> [] OTHER -> CString(k)
NameSet == {s \in Seq(Int) : ~HasNul(s)} \cup {<<3, p>> : p \in Addrs}

\* The objects of S have addresses of their own.
Unshared(ad, S) == \A x, y \in S : ad[x] = ad[y] => x = y
Within(k, S) == k[1] = 3 => k[2] \in S

\* A set of numbers has a first one.
LEMMA FirstOf ==
  ASSUME NEW S \in SUBSET Nat, S # {}
  PROVE  Min(S) \in S /\ \A j \in S : Min(S) <= j
<1> DEFINE R == OpToRel(<, Nat)
<1>1. PICK k \in S : \A j \in S : ~(<<j, k>> \in R)  BY NatLessThanWellFounded, WFMin
<1>2. \A j \in S : ~(j < k)  BY <1>1 DEF OpToRel
<1>3. \A j \in S : k <= j  BY <1>2
<1> QED  BY <1>3 DEF Min

\* A C string ends before the first NUL.
LEMMA CStringFacts ==
  ASSUME NEW k \in Seq(Int), k # <<>>, k[1] = 2
  PROVE  /\ CString(k) \in Seq(Int) /\ CString(k) # <<>> /\ CString(k)[1] = 2
         /\ ~Contains(CString(k), 0) /\ CString(CString(k)) = CString(k)
         /\ ~Contains(k, 0) => CString(k) = k
<1>1. ~Contains(k, 0) => CString(k) = k  BY DEF CString
<1>2. CASE Contains(k, 0)
  <2> DEFINE I == {i \in 1..Len(k) : k[i] = 0}
             p == Min(I)
             c == SubSeq(k, 1, p - 1)
  <2>1. SelectInSeq(k, LAMBDA x : x = 0) = IF I # {} THEN Min(I) ELSE 0  BY DEF SelectInSeq
  <2>2. I # {}  BY <1>2 DEF Contains
  <2>3. I \in SUBSET Nat  OBVIOUS
  <2>4. p \in I /\ \A i \in I : p <= i
    <3> HIDE DEF I
    <3> QED  BY <2>2, <2>3, FirstOf
  <2>5. p \in 1..Len(k) /\ p # 1 /\ Len(k) \in Nat  BY <2>4
  <2>6. \A i \in 1..p - 1 : k[i] # 0  BY <2>4, <2>5
  <2>7. CString(k) = c  BY <1>2, <2>1, <2>2 DEF CString
  <2> HIDE DEF I, p
  <2>8. c \in Seq(Int) /\ Len(c) = p - 1 /\ \A i \in 1..p - 1 : c[i] = k[i]  BY <2>5
  <2>9. c # <<>> /\ c[1] = 2  BY <2>5, <2>8
  <2>10. ~Contains(c, 0)  BY <2>6, <2>8 DEF Contains
  <2> HIDE DEF c
  <2>11. CString(c) = c  BY <2>10 DEF CString
  <2> QED  BY <1>2, <2>7, <2>8, <2>9, <2>10, <2>11
<1>3. CASE ~Contains(k, 0)  BY <1>1, <1>3
<1> QED  BY <1>2, <1>3

\* What Norm and Name make of a key, kind by kind.
LEMMA KindOfKey ==
  ASSUME NEW n \in Nat, NEW ad, NEW k \in KeysUpTo(n)
  PROVE  /\ k \in Seq(Int) /\ k # <<>> /\ k[1] \in {1, 2, 3, 4}
         /\ k[1] = 1 => k[2] \in Int /\ Norm(k) = <<1, k[2]>> /\ Name(ad, k) = <<1, k[2]>>
         /\ k[1] = 2 => Norm(k) = CString(k) /\ Name(ad, k) = CString(k)
         /\ k[1] = 3 => /\ Norm(k) = k /\ Name(ad, k) = <<3, ad[k[2]]>>
                        /\ Len(k) = 2 /\ k[2] \in 1..n /\ k = <<3, k[2]>>
         /\ k[1] = 4 => Norm(k) = <<4>> /\ Name(ad, k) = <<4>>
<1>1. k \in Seq(Int) /\ k # <<>> /\ k[1] \in {1, 2, 3, 4}  BY DEF KeysUpTo
<1>2. CASE k[1] = 1
  <2>1. k[2] \in Int  BY <1>1, <1>2 DEF KeysUpTo
  <2> QED  BY <1>1, <1>2, <2>1 DEF Norm, Name
<1>3. CASE k[1] = 2  BY <1>1, <1>3 DEF Norm, Name
<1>4. CASE k[1] = 3
  <2>1. Len(k) = 2 /\ k[2] \in 1..n  BY <1>4 DEF KeysUpTo
  <2>2. k = <<3, k[2]>>  BY <1>1, <1>4, <2>1
  <2>3. Norm(k) = k /\ Name(ad, k) = <<3, ad[k[2]]>>  BY <1>4 DEF Norm, Name
  <2> QED  BY <1>1, <1>4, <2>1, <2>2, <2>3
<1>5. CASE k[1] = 4  BY <1>1, <1>5 DEF Norm, Name
<1> QED  BY <1>1, <1>2, <1>3, <1>4, <1>5

LEMMA NormKey ==
  ASSUME NEW n \in Nat, NEW k \in KeysUpTo(n)
  PROVE  Norm(k) \in KeysUpTo(n) /\ Norm(Norm(k)) = Norm(k)
<1>1. k \in Seq(Int) /\ k # <<>> /\ k[1] \in {1, 2, 3, 4}  BY KindOfKey
<1>2. CASE k[1] = 1
  <2>1. k[2] \in Int /\ Norm(k) = <<1, k[2]>>  BY <1>2, KindOfKey
  <2>2. <<1, k[2]>> \in KeysUpTo(n)  BY <2>1 DEF KeysUpTo
  <2> QED  BY <2>1, <2>2 DEF Norm
<1>3. CASE k[1] = 2
  <2> DEFINE c == CString(k)
  <2>1. Norm(k) = c  BY <1>3, KindOfKey
  <2>2. c \in Seq(Int) /\ c # <<>> /\ c[1] = 2 /\ CString(c) = c  BY <1>1, <1>3, CStringFacts
  <2> HIDE DEF c
  <2>3. c \in KeysUpTo(n)  BY <2>2 DEF KeysUpTo
  <2>4. Norm(c) = c  BY <2>2, <2>3, KindOfKey
  <2> QED  BY <2>1, <2>3, <2>4
<1>4. CASE k[1] = 3  BY <1>4, KindOfKey
<1>5. CASE k[1] = 4
  <2>1. Norm(k) = <<4>>  BY <1>5, KindOfKey
  <2>2. <<4>> \in KeysUpTo(n) /\ Norm(<<4>>) = <<4>>  BY DEF KeysUpTo, Norm
  <2> QED  BY <2>1, <2>2
<1> QED  BY <1>1, <1>2, <1>3, <1>4, <1>5

LEMMA NameFacts ==
  ASSUME NEW ad \in Seq(Addrs), NEW k \in KeysUpTo(Len(ad))
  PROVE  /\ Name(ad, k) \in NameSet
         /\ Name(ad, Norm(k)) = Name(ad, k)
         /\ \A p \in Addrs : /\ Name(Append(ad, p), k) = Name(ad, k)
                             /\ k \in KeysUpTo(Len(Append(ad, p)))
<1>1. k \in Seq(Int) /\ k # <<>> /\ k[1] \in {1, 2, 3, 4} /\ Len(ad) \in Nat  BY KindOfKey
<1>2. CASE k[1] = 1
  <2>1. k[2] \in Int  BY <1>1, <1>2, KindOfKey
  <2>2. Norm(k) = <<1, k[2]>> /\ Name(ad, k) = <<1, k[2]>>  BY <1>1, <1>2, KindOfKey
  <2>3. Name(ad, <<1, k[2]>>) = <<1, k[2]>>  BY DEF Name
  <2>4. <<1, k[2]>> \in NameSet  BY <2>1 DEF NameSet, HasNul
  <2> QED  BY <1>2, <2>2, <2>3, <2>4 DEF Name, KeysUpTo
<1>3. CASE k[1] = 2
  <2> DEFINE c == CString(k)
  <2>1. c \in Seq(Int) /\ c # <<>> /\ c[1] = 2 /\ ~Contains(c, 0) /\ CString(c) = c  BY <1>1, <1>3, CStringFacts
  <2>2. Norm(k) = c /\ Name(ad, k) = c  BY <1>1, <1>3, KindOfKey
  <2> HIDE DEF c
  <2>3. c \in NameSet  BY <2>1 DEF NameSet, HasNul
  <2>4. Name(ad, c) = c  BY <2>1 DEF Name
  <2>5. \A p \in Addrs : Name(Append(ad, p), k) = Name(ad, k)  BY <1>3 DEF Name
  <2>6. \A p \in Addrs : k \in KeysUpTo(Len(Append(ad, p)))  BY <1>1, <1>3 DEF KeysUpTo
  <2> QED  BY <2>2, <2>3, <2>4, <2>5, <2>6
<1>4. CASE k[1] = 3
  <2>1. Len(k) = 2 /\ k[2] \in 1..Len(ad)  BY <1>4 DEF KeysUpTo
  <2>2. ad[k[2]] \in Addrs  BY <2>1
  <2>3. \A p \in Addrs : /\ Append(ad, p)[k[2]] = ad[k[2]]
                         /\ Len(Append(ad, p)) = Len(ad) + 1
    BY <2>1
  <2>4. Norm(k) = k  BY <1>1, <1>4, KindOfKey
  <2>5. \A bd : Name(bd, k) = <<3, bd[k[2]]>>  BY <1>4 DEF Name
  <2>6. <<3, ad[k[2]]>> \in NameSet  BY <2>2 DEF NameSet
  <2>7. \A p \in Addrs : k \in KeysUpTo(Len(Append(ad, p)))
    BY <1>1, <1>4, <2>1, <2>3 DEF KeysUpTo
  <2> QED  BY <2>3, <2>4, <2>5, <2>6, <2>7
<1>5. CASE k[1] = 4
  <2>1. Norm(k) = <<4>> /\ Name(ad, k) = <<4>>  BY <1>1, <1>5, KindOfKey
  <2>2. Name(ad, <<4>>) = <<4>> /\ <<4>> \in NameSet  BY DEF Name, NameSet, HasNul
  <2>3. \A p \in Addrs : Name(Append(ad, p), k) = Name(ad, k) /\ k \in KeysUpTo(Len(Append(ad, p)))
    BY <1>1, <1>5 DEF Name, KeysUpTo
  <2> QED  BY <2>1, <2>2, <2>3
<1> QED  BY <1>1, <1>2, <1>3, <1>4, <1>5

\* Names tell keys apart as long as objects do not share an address.
LEMMA NamesTellApart ==
  ASSUME NEW ad \in Seq(Addrs), NEW S \in SUBSET (1..Len(ad)), Unshared(ad, S),
         NEW k \in KeysUpTo(Len(ad)), NEW j \in KeysUpTo(Len(ad)), Within(k, S), Within(j, S)
  PROVE  Name(ad, k) = Name(ad, j) <=> Norm(k) = Norm(j)
<1>1. Len(ad) \in Nat  OBVIOUS
<1>2. ASSUME NEW q \in KeysUpTo(Len(ad))
      PROVE  /\ q[1] \in {1, 2, 3, 4} /\ Name(ad, q)[1] = q[1] /\ Norm(q)[1] = q[1]
             /\ q[1] # 3 => Name(ad, q) = Norm(q)
             /\ q[1] = 3 => Name(ad, q) = <<3, ad[q[2]]>> /\ Norm(q) = q /\ q = <<3, q[2]>>
  <2>1. q[1] \in {1, 2, 3, 4} /\ q \in Seq(Int) /\ q # <<>>  BY <1>1, KindOfKey
  <2>2. CASE q[1] = 1
    <3>1. Name(ad, q) = <<1, q[2]>> /\ Norm(q) = <<1, q[2]>>  BY <1>1, <2>2, KindOfKey
    <3> QED  BY <2>2, <3>1
  <2>3. CASE q[1] = 2
    <3>1. Name(ad, q) = CString(q) /\ Norm(q) = CString(q)  BY <1>1, <2>3, KindOfKey
    <3>2. CString(q)[1] = 2  BY <2>1, <2>3, CStringFacts
    <3> QED  BY <2>3, <3>1, <3>2
  <2>4. CASE q[1] = 3
    <3>1. Norm(q) = q /\ q = <<3, q[2]>>  BY <1>1, <2>4, KindOfKey
    <3>2. Name(ad, q) = <<3, ad[q[2]]>>  BY <2>4 DEF Name
    <3> QED  BY <2>4, <3>1, <3>2
  <2>5. CASE q[1] = 4
    <3>1. Name(ad, q) = <<4>> /\ Norm(q) = <<4>>  BY <1>1, <2>5, KindOfKey
    <3> QED  BY <2>5, <3>1
  <2> QED  BY <2>1, <2>2, <2>3, <2>4, <2>5
<1>3. CASE k[1] # j[1]  BY <1>2, <1>3
<1>4. CASE k[1] = j[1] /\ k[1] # 3  BY <1>2, <1>4
<1>5. CASE k[1] = 3 /\ j[1] = 3
  <2>1. k[2] \in S /\ j[2] \in S  BY <1>5 DEF Within
  <2>2. Name(ad, k) = Name(ad, j) => ad[k[2]] = ad[j[2]]  BY <1>2, <1>5
  <2>3. ad[k[2]] = ad[j[2]] => k[2] = j[2]  BY <2>1 DEF Unshared
  <2>4. Norm(k) = k /\ Norm(j) = j /\ k = <<3, k[2]>> /\ j = <<3, j[2]>>  BY <1>2, <1>5
  <2> QED  BY <2>2, <2>3, <2>4
<1> QED  BY <1>3, <1>4, <1>5

\* map_set and map_delete see the C string of a name; map_get and map_has the whole name,
\* which is the same unless it holds a NUL.
LEMMA NamesOfKeys ==
  ASSUME NEW n \in Nat, NEW k \in KeysUpTo(n)
  PROVE  /\ CString(KeyString(k)) = Name(addr, k)
         /\ ~HasNul(k) => KeyString(k) = Name(addr, k)
         /\ HasNul(k) => KeyString(k) = k
<1>1. k[1] \in {1, 2, 3, 4}  BY KindOfKey
<1>2. CASE k[1] = 2
  <2>1. KeyString(k) = k /\ Name(addr, k) = CString(k)  BY <1>2 DEF Name, KeyString
  <2> QED  BY <1>2, <2>1 DEF CString, HasNul
<1>3. CASE k[1] = 1
  <2>1. KeyString(k) = <<1, k[2]>> /\ Name(addr, k) = <<1, k[2]>>  BY <1>3 DEF Name, KeyString
  <2> QED  BY <1>3, <2>1 DEF CString, HasNul
<1>4. CASE k[1] = 3
  <2>1. KeyString(k) = <<3, addr[k[2]]>> /\ Name(addr, k) = <<3, addr[k[2]]>>  BY <1>4 DEF Name, KeyString
  <2> QED  BY <1>4, <2>1 DEF CString, HasNul
<1>5. CASE k[1] = 4
  <2>1. KeyString(k) = <<4>> /\ Name(addr, k) = <<4>>  BY <1>5 DEF Name, KeyString
  <2> QED  BY <1>5, <2>1 DEF CString, HasNul
<1> QED  BY <1>1, <1>2, <1>3, <1>4, <1>5

-----------------------------------------------------------------------------
(* Stores, and the collections they stand for.                             *)

LEMMA RemoveAtFacts ==
  ASSUME NEW S, NEW s \in Seq(S), NEW i \in 1..Len(s)
  PROVE  /\ RemoveAt(s, i) \in Seq(S) /\ Len(RemoveAt(s, i)) = Len(s) - 1
         /\ \A j \in 1..Len(s) - 1 : RemoveAt(s, i)[j] = IF j < i THEN s[j] ELSE s[j + 1]
<1> DEFINE a == SubSeq(s, 1, i - 1)
           b == SubSeq(s, i + 1, Len(s))
<1>1. Len(s) \in Nat  OBVIOUS
<1>2. a \in Seq(S) /\ Len(a) = i - 1 /\ \A j \in 1..i - 1 : a[j] = s[j]  BY <1>1
<1>3. b \in Seq(S) /\ Len(b) = Len(s) - i /\ \A j \in 1..Len(s) - i : b[j] = s[i + j]  BY <1>1
<1> HIDE DEF a, b
<1>4. /\ a \o b \in Seq(S) /\ Len(a \o b) = Len(a) + Len(b)
      /\ \A j \in 1..Len(a) + Len(b) : (a \o b)[j] = IF j <= Len(a) THEN a[j] ELSE b[j - Len(a)]
  BY <1>2, <1>3, ConcatProperties
<1>5. RemoveAt(s, i) = a \o b  BY DEF RemoveAt, a, b
<1>6. ASSUME NEW j \in 1..Len(s) - 1 PROVE (a \o b)[j] = IF j < i THEN s[j] ELSE s[j + 1]
  <2>1. CASE j < i  BY <2>1, <1>1, <1>2, <1>3, <1>4
  <2>2. CASE j >= i
    <3>1. (a \o b)[j] = b[j - (i - 1)] /\ j - (i - 1) \in 1..Len(s) - i  BY <2>2, <1>1, <1>2, <1>3, <1>4
    <3>2. b[j - (i - 1)] = s[i + (j - (i - 1))]  BY <3>1, <1>3
    <3>3. i + (j - (i - 1)) = j + 1  OBVIOUS
    <3> QED  BY <2>2, <3>1, <3>2, <3>3
  <2>3. j < i \/ j >= i  BY <1>1
  <2> QED  BY <2>1, <2>2, <2>3
<1>7. Len(a) + Len(b) = Len(s) - 1  BY <1>1, <1>2, <1>3
<1> QED  BY <1>4, <1>5, <1>6, <1>7

LEMMA FindFacts ==
  ASSUME NEW S, NEW st \in Seq(S), NEW name
  PROVE  /\ Find(st, name) \in 0..Len(st)
         /\ Find(st, name) # 0 => st[Find(st, name)].name = name
         /\ Find(st, name) = 0 => \A i \in 1..Len(st) : st[i].name # name
<1> DEFINE I == {i \in 1..Len(st) : st[i].name = name}
<1>1. Find(st, name) = IF I # {} THEN Min(I) ELSE 0  BY DEF Find, SelectInSeq
<1>2. I \in SUBSET Nat /\ I \in SUBSET (1..Len(st))  OBVIOUS
<1>3. I # {} => Min(I) \in I
  <2> HIDE DEF I
  <2> QED  BY <1>2, FirstOf
<1> QED  BY <1>1, <1>2, <1>3

LEMMA AFindFacts ==
  ASSUME NEW S, NEW a \in Seq(S), NEW k
  PROVE  /\ AFind(a, k) \in 0..Len(a)
         /\ AFind(a, k) # 0 => a[AFind(a, k)][1] = Norm(k)
         /\ AFind(a, k) = 0 => \A i \in 1..Len(a) : a[i][1] # Norm(k)
<1> DEFINE I == {i \in 1..Len(a) : a[i][1] = Norm(k)}
<1>1. AFind(a, k) = IF I # {} THEN Min(I) ELSE 0  BY DEF AFind, SelectInSeq
<1>2. I \in SUBSET Nat /\ I \in SUBSET (1..Len(a))  OBVIOUS
<1>3. I # {} => Min(I) \in I
  <2> HIDE DEF I
  <2> QED  BY <1>2, FirstOf
<1> QED  BY <1>1, <1>2, <1>3

\* A store holds each of its keys under its name, and once.
Entries(n) == [name : NameSet, k : KeysUpTo(n), v : MapValues]
StoreOK(ad, st) ==
  /\ st \in Seq(Entries(Len(ad)))
  /\ \A i \in 1..Len(st) : st[i].name = Name(ad, st[i].k)
  /\ \A i, j \in 1..Len(st) : st[i].name = st[j].name => i = j

\* ECMAScript's collection for a store, entry for entry.
Pairs(n) == KeysUpTo(n) \X MapValues
Exact(n, st, a) ==
  /\ a \in Seq(Pairs(n)) /\ Len(a) = Len(st)
  /\ \A i \in 1..Len(st) : a[i] = <<Norm(st[i].k), st[i].v>>

\* The objects of a store.
Objects(st, S) == \A i \in 1..Len(st) : Within(st[i].k, S)

LEMMA FoundInBoth ==
  ASSUME NEW ad \in Seq(Addrs), NEW S \in SUBSET (1..Len(ad)), Unshared(ad, S),
         NEW st, StoreOK(ad, st), Objects(st, S), NEW a, Exact(Len(ad), st, a),
         NEW k \in KeysUpTo(Len(ad)), Within(k, S)
  PROVE  Find(st, Name(ad, k)) = AFind(a, k)
<1>1. st \in Seq(Entries(Len(ad))) /\ a \in Seq(Pairs(Len(ad))) /\ Len(a) = Len(st)
  BY DEF StoreOK, Exact
<1>2. ASSUME NEW i \in 1..Len(st) PROVE st[i].name = Name(ad, k) <=> a[i][1] = Norm(k)
  <2>1. st[i] \in Entries(Len(ad))  BY <1>1
  <2>2. st[i].k \in KeysUpTo(Len(ad))  BY <2>1 DEF Entries
  <2>3. st[i].name = Name(ad, st[i].k) /\ a[i][1] = Norm(st[i].k) /\ Within(st[i].k, S)
    BY DEF StoreOK, Exact, Objects
  <2> QED  BY <2>2, <2>3, NamesTellApart
<1>3. {i \in 1..Len(st) : st[i].name = Name(ad, k)} = {i \in 1..Len(a) : a[i][1] = Norm(k)}
  BY <1>1, <1>2
<1> QED  BY <1>3 DEF Find, AFind, SelectInSeq

AKeys(a) == {a[i][1] : i \in 1..Len(a)}

\* Putting an entry changes the store as set changes the collection.
LEMMA PutKeeps ==
  ASSUME NEW ad \in Seq(Addrs), NEW S \in SUBSET (1..Len(ad)), Unshared(ad, S),
         NEW st, StoreOK(ad, st), Objects(st, S), NEW a, Exact(Len(ad), st, a),
         NEW k \in KeysUpTo(Len(ad)), Within(k, S), NEW v \in MapValues
  PROVE  /\ StoreOK(ad, Put(st, Name(ad, k), k, v))
         /\ Objects(Put(st, Name(ad, k), k, v), S)
         /\ Exact(Len(ad), Put(st, Name(ad, k), k, v), ASet(a, k, v))
         /\ AKeys(a) \subseteq AKeys(ASet(a, k, v))
<1> DEFINE n == Len(ad)
           E == Entries(n)
           P == Pairs(n)
           e == Entry(Name(ad, k), k, v)
           x == <<Norm(k), v>>
           f == Find(st, Name(ad, k))
<1>1. st \in Seq(E) /\ a \in Seq(P) /\ Len(a) = Len(st)  BY DEF StoreOK, Exact
<1>2. n \in Nat /\ Len(st) \in Nat  BY <1>1
<1>3. f = AFind(a, k)  BY FoundInBoth
<1>4. e \in E /\ e.name = Name(ad, k) /\ e.k = k /\ e.v = v  BY NameFacts DEF Entries, Entry
<1>5. x \in P /\ x[1] = Norm(k) /\ x[2] = v  BY <1>2, NormKey DEF Pairs
<1>6. /\ f \in 0..Len(st) /\ (f # 0 => st[f].name = Name(ad, k) /\ a[f][1] = Norm(k))
      /\ f = 0 => \A i \in 1..Len(st) : st[i].name # Name(ad, k)
  BY <1>1, <1>3, FindFacts, AFindFacts
<1> DEFINE t == Put(st, Name(ad, k), k, v)
           b == ASet(a, k, v)
<1>7. \A i \in 1..Len(st) : a[i] = <<Norm(st[i].k), st[i].v>>  BY DEF Exact
<1>8. CASE f # 0
  <2>1. t = [st EXCEPT ![f] = e]  BY <1>8 DEF Put, Has
  <2>2. b = [a EXCEPT ![f][2] = v]  BY <1>3, <1>8 DEF ASet
  <2>3. f \in 1..Len(st)  BY <1>2, <1>6, <1>8
  <2>4. a[f] \in P  BY <1>1, <2>3
  <2>5. [a[f] EXCEPT ![2] = v] = x
    <3>1. a[f] = <<Norm(st[f].k), st[f].v>>  BY <1>7, <2>3
    <3>2. [a[f] EXCEPT ![2] = v] = <<Norm(st[f].k), v>>  BY <3>1
    <3> QED  BY <3>1, <3>2, <1>6, <1>8
  <2>6. b = [a EXCEPT ![f] = x]  BY <2>2, <2>5
  <2> HIDE DEF t, b, e, x, f, E, P, n
  <2>7. t \in Seq(E) /\ Len(t) = Len(st) /\ \A i \in 1..Len(st) : t[i] = IF i = f THEN e ELSE st[i]
    BY <1>1, <1>4, <2>1, <2>3
  <2>8. b \in Seq(P) /\ Len(b) = Len(a) /\ \A i \in 1..Len(a) : b[i] = IF i = f THEN x ELSE a[i]
    BY <1>1, <1>5, <2>3, <2>6
  <2>9. \A i \in 1..Len(st) : t[i].name = st[i].name  BY <1>4, <1>6, <1>8, <2>7
  <2>10. StoreOK(ad, t)
    <3>1. \A i \in 1..Len(t) : t[i].name = Name(ad, t[i].k)  BY <1>4, <2>7 DEF StoreOK
    <3>2. \A i, j \in 1..Len(t) : t[i].name = t[j].name => i = j  BY <2>7, <2>9 DEF StoreOK
    <3> QED  BY <2>7, <3>1, <3>2 DEF StoreOK, E, n
  <2>11. Objects(t, S)  BY <1>4, <2>7 DEF Objects
  <2>12. Exact(Len(ad), t, b)
    <3>1. x = <<Norm(e.k), e.v>>  BY <1>4 DEF x
    <3>2. \A i \in 1..Len(t) : b[i] = <<Norm(t[i].k), t[i].v>>  BY <1>1, <1>7, <2>7, <2>8, <3>1
    <3> QED  BY <1>1, <2>7, <2>8, <3>2 DEF Exact, P, n
  <2>13. AKeys(a) \subseteq AKeys(b)
    <3>1. \A i \in 1..Len(a) : b[i][1] = a[i][1]  BY <1>5, <1>6, <1>8, <2>8
    <3> QED  BY <2>8, <3>1 DEF AKeys
  <2> QED  BY <2>10, <2>11, <2>12, <2>13 DEF t, b
<1>9. CASE f = 0
  <2>1. t = Append(st, e)  BY <1>9 DEF Put, Has
  <2>2. b = Append(a, x)  BY <1>3, <1>9 DEF ASet
  <2> HIDE DEF t, b, e, x, f, E, P, n
  <2>3. t \in Seq(E) /\ Len(t) = Len(st) + 1 /\ \A i \in 1..Len(st) + 1 : t[i] = IF i = Len(st) + 1 THEN e ELSE st[i]
    BY <1>1, <1>4, <2>1
  <2>4. b \in Seq(P) /\ Len(b) = Len(a) + 1 /\ \A i \in 1..Len(a) + 1 : b[i] = IF i = Len(a) + 1 THEN x ELSE a[i]
    BY <1>1, <1>5, <2>2
  <2>5. \A i \in 1..Len(st) + 1 : i = Len(st) + 1 \/ i \in 1..Len(st)  BY <1>2
  <2>6. StoreOK(ad, t)
    <3>1. \A i \in 1..Len(t) : t[i].name = Name(ad, t[i].k)  BY <1>4, <2>3, <2>5 DEF StoreOK
    <3>2. \A i, j \in 1..Len(t) : t[i].name = t[j].name => i = j
      BY <1>2, <1>4, <1>6, <1>9, <2>3, <2>5 DEF StoreOK
    <3> QED  BY <2>3, <3>1, <3>2 DEF StoreOK, E, n
  <2>7. Objects(t, S)  BY <1>4, <2>3, <2>5 DEF Objects
  <2>8. Exact(Len(ad), t, b)
    <3>1. x = <<Norm(e.k), e.v>>  BY <1>4 DEF x
    <3>2. \A i \in 1..Len(t) : b[i] = <<Norm(t[i].k), t[i].v>>  BY <1>1, <1>7, <2>3, <2>4, <2>5, <3>1
    <3> QED  BY <1>1, <2>3, <2>4, <3>2 DEF Exact, P, n
  <2>9. AKeys(a) \subseteq AKeys(b)
    <3>1. \A i \in 1..Len(a) : b[i][1] = a[i][1] /\ i \in 1..Len(b)  BY <1>1, <1>2, <2>4
    <3> QED  BY <3>1 DEF AKeys
  <2> QED  BY <2>6, <2>7, <2>8, <2>9 DEF t, b
<1> QED  BY <1>8, <1>9

\* Deleting a property changes the store as delete changes the collection.
LEMMA DelKeeps ==
  ASSUME NEW ad \in Seq(Addrs), NEW S \in SUBSET (1..Len(ad)), Unshared(ad, S),
         NEW st, StoreOK(ad, st), Objects(st, S), NEW a, Exact(Len(ad), st, a),
         NEW k \in KeysUpTo(Len(ad)), Within(k, S)
  PROVE  /\ StoreOK(ad, Del(st, Name(ad, k)))
         /\ Objects(Del(st, Name(ad, k)), S)
         /\ Exact(Len(ad), Del(st, Name(ad, k)), ADel(a, k))
         /\ AKeys(a) \ {Norm(k)} \subseteq AKeys(ADel(a, k))
         /\ \A i \in DOMAIN Del(st, Name(ad, k)) : \E j \in DOMAIN st : Del(st, Name(ad, k))[i] = st[j]
<1> DEFINE n == Len(ad)
           E == Entries(n)
           P == Pairs(n)
           f == Find(st, Name(ad, k))
           t == Del(st, Name(ad, k))
           b == ADel(a, k)
<1>1. st \in Seq(E) /\ a \in Seq(P) /\ Len(a) = Len(st)  BY DEF StoreOK, Exact
<1>2. n \in Nat /\ Len(st) \in Nat  BY <1>1
<1>3. f = AFind(a, k)  BY FoundInBoth
<1>4. f \in 0..Len(st) /\ (f # 0 => a[f][1] = Norm(k)) /\ (f = 0 => \A i \in 1..Len(a) : a[i][1] # Norm(k))
  BY <1>1, <1>3, FindFacts, AFindFacts
<1>5. CASE f = 0
  <2>1. t = st /\ b = a  BY <1>3, <1>5 DEF Del, Has, ADel
  <2> QED  BY <2>1
<1>6. CASE f # 0
  <2>1. t = RemoveAt(st, f) /\ b = RemoveAt(a, f)  BY <1>3, <1>6 DEF Del, Has, ADel
  <2>2. f \in 1..Len(st)  BY <1>2, <1>4, <1>6
  <2> HIDE DEF t, b, f, E, P, n
  <2> DEFINE m(i) == IF i < f THEN i ELSE i + 1
  <2>3. t \in Seq(E) /\ Len(t) = Len(st) - 1 /\ \A i \in 1..Len(st) - 1 : t[i] = st[m(i)]
    <3>1. \A i \in 1..Len(st) - 1 : RemoveAt(st, f)[i] = IF i < f THEN st[i] ELSE st[i + 1]
      BY <1>1, <2>2, RemoveAtFacts
    <3> QED  BY <1>1, <2>1, <2>2, <3>1, RemoveAtFacts
  <2>4. b \in Seq(P) /\ Len(b) = Len(a) - 1 /\ \A i \in 1..Len(a) - 1 : b[i] = a[m(i)]
    <3>1. f \in 1..Len(a)  BY <1>1, <2>2
    <3>2. \A i \in 1..Len(a) - 1 : RemoveAt(a, f)[i] = IF i < f THEN a[i] ELSE a[i + 1]
      BY <1>1, <3>1, RemoveAtFacts
    <3> QED  BY <1>1, <2>1, <3>1, <3>2, RemoveAtFacts
  <2>5. \A i \in 1..Len(st) - 1 : m(i) \in 1..Len(st)  BY <1>2, <2>2
  <2>6. \A i, j \in 1..Len(st) - 1 : m(i) = m(j) => i = j  BY <1>2, <2>2
  <2>7. \A i \in 1..Len(st) : i # f => \E j \in 1..Len(st) - 1 : m(j) = i
    <3> SUFFICES ASSUME NEW i \in 1..Len(st), i # f PROVE \E j \in 1..Len(st) - 1 : m(j) = i  OBVIOUS
    <3>1. CASE i < f
      <4>1. i \in 1..Len(st) - 1 /\ m(i) = i  BY <1>2, <2>2, <3>1
      <4> QED  BY <4>1
    <3>2. CASE i > f
      <4>1. i - 1 \in 1..Len(st) - 1 /\ m(i - 1) = i  BY <1>2, <2>2, <3>2
      <4> QED  BY <4>1
    <3>3. i < f \/ i > f  BY <1>2, <2>2
    <3> QED  BY <3>1, <3>2, <3>3
  <2> HIDE DEF m
  <2>8. StoreOK(ad, t)
    <3>1. \A i \in 1..Len(t) : t[i].name = Name(ad, t[i].k)  BY <2>3, <2>5 DEF StoreOK
    <3>2. \A i, j \in 1..Len(t) : t[i].name = t[j].name => i = j  BY <2>3, <2>5, <2>6 DEF StoreOK
    <3> QED  BY <2>3, <3>1, <3>2 DEF StoreOK, E, n
  <2>9. Objects(t, S)  BY <2>3, <2>5 DEF Objects
  <2>10. Exact(Len(ad), t, b)
    <3>1. \A i \in 1..Len(t) : b[i] = <<Norm(t[i].k), t[i].v>>  BY <1>1, <2>3, <2>4, <2>5 DEF Exact
    <3> QED  BY <1>1, <2>3, <2>4, <3>1 DEF Exact, P, n
  <2>11. AKeys(a) \ {Norm(k)} \subseteq AKeys(b)
    <3> SUFFICES ASSUME NEW i \in 1..Len(a), a[i][1] # Norm(k) PROVE a[i][1] \in AKeys(b)
      BY DEF AKeys
    <3>1. i \in 1..Len(st) /\ i # f  BY <1>1, <1>4, <1>6
    <3>2. PICK j \in 1..Len(st) - 1 : m(j) = i  BY <2>7, <3>1
    <3>3. j \in 1..Len(b) /\ b[j] = a[i]  BY <1>1, <2>4, <3>2
    <3> QED  BY <3>3 DEF AKeys
  <2>12. \A i \in DOMAIN t : \E j \in DOMAIN st : t[i] = st[j]
    <3>1. DOMAIN t = 1..Len(st) - 1 /\ DOMAIN st = 1..Len(st)  BY <1>1, <2>3
    <3> QED  BY <2>3, <2>5, <3>1
  <2> QED  BY <2>8, <2>9, <2>10, <2>11, <2>12 DEF t, b
<1> QED  BY <1>5, <1>6

-----------------------------------------------------------------------------
(* Iterators.                                                              *)

Iterators(n, m) == [store : 1..m, names : Seq(NameSet), idx : Nat, held : BOOLEAN, done : BOOLEAN,
                    gave : Seq(KeysUpTo(n)), owes : SUBSET KeysUpTo(n)]

\* A key of the collection that was there from the start was given, or is still to come:
\* it is still there, under a name the iterator has not reached.
Owed(ad, ak, it, k) ==
  \/ \E j \in 1..Len(it.gave) : it.gave[j] = k
  \/ /\ ~it.done /\ k \in ak
     /\ \E i \in it.idx..Len(it.names) : it.names[i] = Name(ad, k)

\* There are m stores, and ak are the keys of the iterator's.
ItOK(ad, m, ak, it) ==
  /\ it \in Iterators(Len(ad), m)
  /\ \A i, j \in 1..Len(it.names) : it.names[i] = it.names[j] => i = j
  /\ it.idx \in 1..Len(it.names) + 1
  /\ \A j \in 1..Len(it.gave) : /\ Norm(it.gave[j]) = it.gave[j]
                                /\ \E i \in 1..it.idx - 1 : it.names[i] = Name(ad, it.gave[j])
  /\ \A i, j \in 1..Len(it.gave) : it.gave[i] = it.gave[j] => i = j
  /\ \A k \in it.owes : Owed(ad, ak, it, k)

\* New objects, entries and stores, and deleted entries that are no longer owed, leave an
\* iterator as it should be.
LEMMA IteratorKept ==
  ASSUME NEW ad, NEW bd, \A k \in KeysUpTo(Len(ad)) : Name(bd, k) = Name(ad, k),
         NEW m, NEW n, NEW ak, NEW bk, NEW it, ItOK(ad, m, ak, it),
         NEW jt \in Iterators(Len(bd), n),
         jt.names = it.names, jt.idx = it.idx, jt.gave = it.gave, jt.done = it.done,
         jt.owes \subseteq it.owes,
         \A k \in jt.owes : k \in ak => k \in bk
  PROVE  ItOK(bd, n, bk, jt)
<1>1. it.gave \in Seq(KeysUpTo(Len(ad))) /\ it.owes \subseteq KeysUpTo(Len(ad))  BY DEF ItOK, Iterators
<1>2. \A j \in 1..Len(it.gave) : Name(bd, it.gave[j]) = Name(ad, it.gave[j])  BY <1>1
<1>3. \A j \in 1..Len(jt.gave) : /\ Norm(jt.gave[j]) = jt.gave[j]
                                 /\ \E i \in 1..jt.idx - 1 : jt.names[i] = Name(bd, jt.gave[j])
  BY <1>2 DEF ItOK
<1>4. \A k \in jt.owes : Owed(bd, bk, jt, k)
  <2> SUFFICES ASSUME NEW k \in jt.owes PROVE Owed(bd, bk, jt, k)  OBVIOUS
  <2>1. Owed(ad, ak, it, k) /\ Name(bd, k) = Name(ad, k)  BY <1>1 DEF ItOK
  <2> QED  BY <2>1 DEF Owed
<1> QED  BY <1>3, <1>4 DEF ItOK

\* An iterator that gives the entry of its next name that is still in its store.
LEMMA IteratorGives ==
  ASSUME NEW ad \in Seq(Addrs), NEW m, NEW ak, NEW it, ItOK(ad, m, ak, it),
         NEW st, StoreOK(ad, st),
         \A k \in ak : \E e \in 1..Len(st) : Norm(st[e].k) = k,
         NEW i \in it.idx..Len(it.names), Has(st, it.names[i]),
         \A h \in it.idx..Len(it.names) : Has(st, it.names[h]) => i <= h,
         NEW k, k = Norm(st[Find(st, it.names[i])].k)
  PROVE  ItOK(ad, m, ak, [it EXCEPT !.idx = i + 1, !.gave = Append(it.gave, k)])
<1> DEFINE f == Find(st, it.names[i])
           jt == [it EXCEPT !.idx = i + 1, !.gave = Append(it.gave, k)]
<1>1. it \in Iterators(Len(ad), m) /\ st \in Seq(Entries(Len(ad)))  BY DEF ItOK, StoreOK
<1>2. it.gave \in Seq(KeysUpTo(Len(ad))) /\ it.idx \in Nat /\ Len(it.names) \in Nat /\ i \in Nat
  BY <1>1 DEF Iterators
<1>3. f \in 1..Len(st) /\ st[f].name = it.names[i]
  <2>1. f # 0  BY DEF Has
  <2> QED  BY <1>1, <2>1, FindFacts
<1>4. st[f] \in Entries(Len(ad))  BY <1>1, <1>3
<1>5. st[f].k \in KeysUpTo(Len(ad)) /\ Len(ad) \in Nat  BY <1>4 DEF Entries
<1>6. k \in KeysUpTo(Len(ad)) /\ Norm(k) = k /\ Name(ad, k) = it.names[i]
  <2>1. st[f].name = Name(ad, st[f].k)  BY <1>3 DEF StoreOK
  <2> QED  BY <1>3, <1>5, <2>1, NormKey, NameFacts
<1>7. jt \in Iterators(Len(ad), m) /\ jt.names = it.names /\ jt.idx = i + 1 /\ jt.done = it.done
      /\ jt.gave = Append(it.gave, k) /\ jt.owes = it.owes /\ jt.store = it.store
  <2> DEFINE g == Append(it.gave, k)
             x == i + 1
  <2>1. g \in Seq(KeysUpTo(Len(ad))) /\ x \in Nat  BY <1>2, <1>6
  <2>2. jt = [it EXCEPT !.idx = x, !.gave = g]  OBVIOUS
  <2> HIDE DEF g, x, jt
  <2>3. jt \in Iterators(Len(ad), m) /\ jt.names = it.names /\ jt.idx = x /\ jt.done = it.done
        /\ jt.gave = g /\ jt.owes = it.owes /\ jt.store = it.store
    BY <1>1, <2>1, <2>2 DEF Iterators
  <2> QED  BY <2>3 DEF g, x
<1> HIDE DEF f, jt
<1>8. Len(jt.gave) = Len(it.gave) + 1
      /\ \A j \in 1..Len(jt.gave) : (j \in 1..Len(it.gave) /\ jt.gave[j] = it.gave[j]) \/ (j = Len(jt.gave) /\ jt.gave[j] = k)
  BY <1>2, <1>7
<1>9. jt.idx \in 1..Len(jt.names) + 1  BY <1>2, <1>7 DEF ItOK
<1>10. \A j \in 1..Len(it.gave) : \E h \in 1..i : h # i /\ it.names[h] = Name(ad, it.gave[j])
  <2> SUFFICES ASSUME NEW j \in 1..Len(it.gave)
               PROVE  \E h \in 1..i : h # i /\ it.names[h] = Name(ad, it.gave[j])
    OBVIOUS
  <2>1. PICK h \in 1..it.idx - 1 : it.names[h] = Name(ad, it.gave[j])  BY DEF ItOK
  <2>2. h \in 1..i /\ h # i  BY <1>2
  <2> QED  BY <2>1, <2>2
<1>11. \A j \in 1..Len(jt.gave) : /\ Norm(jt.gave[j]) = jt.gave[j]
                                  /\ \E h \in 1..jt.idx - 1 : jt.names[h] = Name(ad, jt.gave[j])
  <2>1. jt.idx - 1 = i /\ i \in 1..i
    <3>1. i >= 1  BY <1>2 DEF ItOK
    <3> QED  BY <1>2, <1>7, <3>1
  <2>2. \A j \in 1..Len(it.gave) : Norm(it.gave[j]) = it.gave[j]  BY DEF ItOK
  <2> QED  BY <1>6, <1>7, <1>8, <1>10, <2>1, <2>2
<1>12. \A j \in 1..Len(it.gave) : it.gave[j] # k
  <2> SUFFICES ASSUME NEW j \in 1..Len(it.gave), it.gave[j] = k PROVE FALSE  OBVIOUS
  <2>1. PICK h \in 1..i : h # i /\ it.names[h] = Name(ad, it.gave[j])  BY <1>10
  <2>2. h \in 1..Len(it.names) /\ i \in 1..Len(it.names)  BY <1>2 DEF ItOK
  <2> QED  BY <1>6, <2>1, <2>2 DEF ItOK
<1>13. \A j, h \in 1..Len(jt.gave) : jt.gave[j] = jt.gave[h] => j = h  BY <1>8, <1>12 DEF ItOK
<1>14. \A q \in jt.owes : Owed(ad, ak, jt, q)
  <2> SUFFICES ASSUME NEW q \in it.owes PROVE Owed(ad, ak, jt, q)  BY <1>7
  <2>1. Owed(ad, ak, it, q)  BY DEF ItOK
  <2>2. CASE \E j \in 1..Len(it.gave) : it.gave[j] = q
    <3>1. PICK j \in 1..Len(it.gave) : it.gave[j] = q  BY <2>2
    <3>2. j \in 1..Len(jt.gave) /\ jt.gave[j] = q  BY <1>2, <1>7, <3>1
    <3> QED  BY <3>2 DEF Owed
  <2>3. CASE ~it.done /\ q \in ak /\ \E h \in it.idx..Len(it.names) : it.names[h] = Name(ad, q)
    <3>1. PICK h \in it.idx..Len(it.names) : it.names[h] = Name(ad, q)  BY <2>3
    <3>2. PICK e \in 1..Len(st) : Norm(st[e].k) = q  BY <2>1, <2>3
    <3>3. st[e] \in Entries(Len(ad))  BY <1>1
    <3>4. st[e].name = it.names[h]
      <4>1. st[e].k \in KeysUpTo(Len(ad))  BY <3>3 DEF Entries
      <4>2. Name(ad, q) = Name(ad, st[e].k)  BY <3>2, <4>1, NameFacts
      <4> QED  BY <3>1, <4>2 DEF StoreOK
    <3>5. Has(st, it.names[h])  BY <1>1, <3>4, FindFacts DEF Has
    <3>6. i <= h  BY <3>5
    <3>7. CASE h = i
      <4>1. st[f].name = st[e].name  BY <1>3, <3>4, <3>7
      <4>2. f = e  BY <1>3, <4>1 DEF StoreOK
      <4>3. k = q  BY <3>2, <4>2 DEF f
      <4>4. Len(jt.gave) \in 1..Len(jt.gave) /\ jt.gave[Len(jt.gave)] = q  BY <1>2, <1>7, <4>3
      <4> QED  BY <4>4 DEF Owed
    <3>8. CASE h # i
      <4>1. h \in jt.idx..Len(jt.names)  BY <1>2, <1>7, <3>6, <3>8
      <4> QED  BY <1>7, <2>3, <3>1, <4>1 DEF Owed
    <3> QED  BY <3>7, <3>8
  <2> QED  BY <2>1, <2>2, <2>3 DEF Owed
<1> QED  BY <1>7, <1>9, <1>11, <1>13, <1>14 DEF ItOK, jt

\* An iterator that finds no more names in its store has given what it owes.
LEMMA IteratorEnds ==
  ASSUME NEW ad \in Seq(Addrs), NEW m, NEW ak, NEW it, ItOK(ad, m, ak, it),
         NEW st, StoreOK(ad, st),
         \A k \in ak : \E e \in 1..Len(st) : Norm(st[e].k) = k,
         \A h \in it.idx..Len(it.names) : ~Has(st, it.names[h])
  PROVE  ItOK(ad, m, ak, [it EXCEPT !.done = TRUE])
<1> DEFINE jt == [it EXCEPT !.done = TRUE]
<1>1. it \in Iterators(Len(ad), m) /\ st \in Seq(Entries(Len(ad)))  BY DEF ItOK, StoreOK
<1>2. jt \in Iterators(Len(ad), m) /\ jt.names = it.names /\ jt.idx = it.idx
      /\ jt.gave = it.gave /\ jt.owes = it.owes /\ jt.store = it.store
  BY <1>1 DEF Iterators
<1> HIDE DEF jt
<1>3. \A q \in jt.owes : Owed(ad, ak, jt, q)
  <2> SUFFICES ASSUME NEW q \in it.owes PROVE Owed(ad, ak, jt, q)  BY <1>2
  <2>1. Owed(ad, ak, it, q)  BY DEF ItOK
  <2>2. ~(q \in ak /\ \E h \in it.idx..Len(it.names) : it.names[h] = Name(ad, q))
    <3> SUFFICES ASSUME q \in ak, NEW h \in it.idx..Len(it.names), it.names[h] = Name(ad, q) PROVE FALSE
      OBVIOUS
    <3>2. PICK e \in 1..Len(st) : Norm(st[e].k) = q  BY <2>1
    <3>3. st[e] \in Entries(Len(ad))  BY <1>1
    <3>4. st[e].name = it.names[h]
      <4>1. st[e].k \in KeysUpTo(Len(ad))  BY <3>3 DEF Entries
      <4>2. Name(ad, q) = Name(ad, st[e].k)  BY <3>2, <4>1, NameFacts
      <4> QED  BY <4>2 DEF StoreOK
    <3>5. Has(st, it.names[h])  BY <1>1, <3>4, FindFacts DEF Has
    <3> QED  BY <3>5
  <2> QED  BY <1>2, <2>1, <2>2 DEF Owed
<1> QED  BY <1>2, <1>3 DEF ItOK, jt

-----------------------------------------------------------------------------
(* The invariant.                                                          *)

AliveIn(r, n, ss, c, its) ==
  r \cup {o \in 1..n : \E s \in {c} \cup {its[j].store : j \in {h \in 1..Len(its) : its[h].held}} :
                         \E i \in 1..Len(ss[s]) : ss[s][i].k = <<3, o>>}

MapTypes == /\ addr \in Seq(Addrs) /\ reach \in SUBSET (1..Len(addr))
            /\ stores \in Seq(Seq(Entries(Len(addr)))) /\ cur \in 1..Len(stores)
            /\ iters \in Seq(Iterators(Len(addr), Len(stores)))
            /\ abs \in Seq(Seq(Pairs(Len(addr)))) /\ Len(abs) = Len(stores)
StoresOK == \A n \in 1..Len(stores) : StoreOK(addr, stores[n])
ExactAll == \A n \in 1..Len(stores) : Exact(Len(addr), stores[n], abs[n])
ItersOK == \A n \in 1..Len(iters) : ItOK(addr, Len(stores), AKeys(abs[iters[n].store]), iters[n])
AliveNow == AliveIn(reach, Len(addr), stores, cur, iters)

MapInv == /\ MapTypes /\ StoresOK /\ ExactAll /\ ItersOK
          /\ Unshared(addr, AliveNow)
          /\ ret = aret

LEMMA AliveIsNow ==
  ASSUME MapTypes PROVE Alive = AliveNow
<1>1. DOMAIN addr = 1..Len(addr) /\ DOMAIN iters = 1..Len(iters)  BY DEF MapTypes
<1>2. \A s \in 1..Len(stores) : stores[s] \in Seq(Entries(Len(addr)))  BY DEF MapTypes
<1>3. \A s \in 1..Len(stores) : DOMAIN stores[s] = 1..Len(stores[s])  BY <1>2
<1>4. \A j \in 1..Len(iters) : iters[j] \in Iterators(Len(addr), Len(stores))  BY DEF MapTypes
<1>5. StoresInUse \subseteq 1..Len(stores)  BY <1>1, <1>4 DEF StoresInUse, Iterators, MapTypes
<1>6. StoresInUse = {cur} \cup {iters[j].store : j \in {h \in 1..Len(iters) : iters[h].held}}
  BY <1>1 DEF StoresInUse
<1>7. KeyObjects = {o \in 1..Len(addr) : \E s \in StoresInUse : \E i \in 1..Len(stores[s]) : stores[s][i].k = <<3, o>>}
  BY <1>1, <1>3, <1>5 DEF KeyObjects
<1> QED  BY <1>6, <1>7 DEF Alive, AliveNow, AliveIn

\* The objects that are keys of a store in use are alive.
LEMMA KeyObjectsAlive ==
  ASSUME NEW r, NEW n \in Nat, NEW ss, NEW c, NEW its,
         NEW s, \/ s = c
                \/ \E j \in 1..Len(its) : its[j].held /\ s = its[j].store,
         ss[s] \in Seq(Entries(n))
  PROVE  Objects(ss[s], AliveIn(r, n, ss, c, its))
<1> SUFFICES ASSUME NEW i \in 1..Len(ss[s]), ss[s][i].k[1] = 3
             PROVE  ss[s][i].k[2] \in AliveIn(r, n, ss, c, its)
  BY DEF Objects, Within
<1> DEFINE k == ss[s][i].k
<1>1. ss[s][i] \in Entries(n)  OBVIOUS
<1>2. k \in KeysUpTo(n)  BY <1>1 DEF Entries
<1>3. k \in Seq(Int) /\ Len(k) = 2 /\ k[2] \in 1..n  BY <1>2 DEF KeysUpTo
<1>4. k = <<3, k[2]>>  BY <1>3
<1>5. s \in {c} \cup {its[j].store : j \in {h \in 1..Len(its) : its[h].held}}  OBVIOUS
<1> QED  BY <1>3, <1>4, <1>5 DEF AliveIn

LEMMA CurFacts ==
  ASSUME MapInv
  PROVE  /\ AliveNow \in SUBSET (1..Len(addr)) /\ Len(addr) \in Nat
         /\ StoreOK(addr, stores[cur]) /\ Objects(stores[cur], AliveNow)
         /\ stores[cur] \in Seq(Entries(Len(addr)))
         /\ \A k \in Keys : k \in KeysUpTo(Len(addr)) /\ Within(k, AliveNow)
         /\ Exact(Len(addr), stores[cur], abs[cur])
         /\ \A s \in 1..Len(stores) : \A k \in AKeys(abs[s]) : \E e \in 1..Len(stores[s]) : Norm(stores[s][e].k) = k
<1>1. Len(addr) \in Nat /\ cur \in 1..Len(stores) /\ reach \in SUBSET (1..Len(addr))  BY DEF MapInv, MapTypes
<1>2. AliveNow \in SUBSET (1..Len(addr))  BY <1>1 DEF AliveNow, AliveIn
<1>3. StoreOK(addr, stores[cur])  BY <1>1 DEF MapInv, StoresOK
<1>4. stores[cur] \in Seq(Entries(Len(addr)))  BY <1>3 DEF StoreOK
<1>5. Objects(stores[cur], AliveNow)  BY <1>1, <1>4, KeyObjectsAlive DEF AliveNow
<1>6. ASSUME NEW k \in Keys PROVE k \in KeysUpTo(Len(addr)) /\ Within(k, AliveNow)
  <2>1. CASE k \in Scalars  BY <2>1, MapAssumption DEF KeysUpTo, Within
  <2>2. CASE k \in {<<3, o>> : o \in reach}
    <3>1. PICK o \in reach : k = <<3, o>>  BY <2>2
    <3>2. o \in 1..Len(addr) /\ o \in Int  BY <1>1
    <3>3. k \in Seq(Int) /\ k # <<>> /\ k[1] = 3 /\ Len(k) = 2 /\ k[2] = o  BY <3>1, <3>2
    <3>4. o \in AliveNow  BY DEF AliveNow, AliveIn
    <3> QED  BY <3>2, <3>3, <3>4 DEF KeysUpTo, Within
  <2> QED  BY <2>1, <2>2 DEF Keys
<1>7. ASSUME NEW s \in 1..Len(stores), NEW k \in AKeys(abs[s])
      PROVE  \E e \in 1..Len(stores[s]) : Norm(stores[s][e].k) = k
  <2>1. Exact(Len(addr), stores[s], abs[s])  BY DEF MapInv, ExactAll
  <2>2. Len(abs[s]) = Len(stores[s]) /\ \A i \in 1..Len(abs[s]) : abs[s][i][1] = Norm(stores[s][i].k)
    BY <2>1 DEF Exact
  <2> QED  BY <2>2 DEF AKeys
<1>8. Exact(Len(addr), stores[cur], abs[cur])  BY <1>1 DEF MapInv, ExactAll
<1> QED  BY <1>1, <1>2, <1>3, <1>4, <1>5, <1>6, <1>7, <1>8

\* No more objects are alive when no more stores are in use.
LEMMA AliveLess ==
  ASSUME NEW r, NEW n, NEW ss, NEW c, NEW its, NEW q \in SUBSET AliveIn(r, n, ss, c, its), NEW jts,
         \A j \in 1..Len(jts) : jts[j].held =>
           \/ jts[j].store = c
           \/ \E h \in 1..Len(its) : its[h].held /\ its[h].store = jts[j].store
  PROVE  AliveIn(q, n, ss, c, jts) \in SUBSET AliveIn(r, n, ss, c, its)
<1> SUFFICES ASSUME NEW o \in AliveIn(q, n, ss, c, jts), o \notin q PROVE o \in AliveIn(r, n, ss, c, its)
  OBVIOUS
<1>1. o \in 1..n  BY DEF AliveIn
<1>2. PICK s \in {c} \cup {jts[j].store : j \in {h \in 1..Len(jts) : jts[h].held}} :
        \E i \in 1..Len(ss[s]) : ss[s][i].k = <<3, o>>
  BY DEF AliveIn
<1>3. s \in {c} \cup {its[j].store : j \in {h \in 1..Len(its) : its[h].held}}  OBVIOUS
<1> QED  BY <1>1, <1>2, <1>3 DEF AliveIn

\* Fewer objects alive share no address either.
LEMMA StillUnshared ==
  ASSUME NEW ad, NEW S, NEW T \in SUBSET S, Unshared(ad, S) PROVE Unshared(ad, T)
BY DEF Unshared

\* Steps that answer, and leave the collection and its iterators alone.
LEMMA SameCollection ==
  ASSUME MapInv, UNCHANGED <<stores, cur, iters, addr, abs>>, reach' \in SUBSET reach, ret' = aret'
  PROVE  MapInv'
<1>1. MapTypes' /\ StoresOK' /\ ItersOK' /\ ExactAll'
  BY DEF MapInv, MapTypes, StoresOK, ItersOK, ExactAll
<1>2. AliveNow' \in SUBSET AliveNow  BY DEF AliveNow, AliveIn
<1>3. Unshared(addr', AliveNow')  BY <1>2, StillUnshared DEF MapInv
<1> QED  BY <1>1, <1>3 DEF MapInv

LEMMA MapInitOK == MapInit => MapInv
<1> SUFFICES ASSUME MapInit PROVE MapInv  OBVIOUS
<1> USE DEF MapInit
<1>1. addr = <<>> /\ reach = {} /\ stores = <<<<>>>> /\ cur = 1 /\ iters = <<>> /\ abs = <<<<>>>> /\ ret = aret  OBVIOUS
<1>2. Len(addr) = 0 /\ Len(stores) = 1 /\ stores[1] = <<>> /\ abs[1] = <<>> /\ Len(abs) = 1 /\ Len(iters) = 0  OBVIOUS
<1>3. MapTypes  BY DEF MapTypes
<1>4. StoreOK(addr, <<>>) /\ Exact(Len(addr), <<>>, <<>>)  BY DEF StoreOK, Exact
<1>5. StoresOK /\ ItersOK /\ ExactAll  BY <1>2, <1>4 DEF StoresOK, ItersOK, ExactAll
<1>6. AliveNow = {}  BY <1>2 DEF AliveNow, AliveIn
<1> QED  BY <1>2, <1>3, <1>4, <1>5, <1>6 DEF MapInv, Unshared

-----------------------------------------------------------------------------
(* Every operation keeps the invariant.                                    *)

\* A new object has an address that no living object has.
LEMMA NewObjectKeeps ==
  ASSUME MapInv, NewObject PROVE MapInv'
<1>1. PICK p \in Addrs \ {addr[o] : o \in Alive} : addr' = Append(addr, p)  BY DEF NewObject
<1>2. /\ reach' = reach \cup {Len(addr) + 1} /\ ret' = aret'
      /\ UNCHANGED <<stores, cur, iters, abs>>
  BY DEF NewObject, Answer, Quiet
<1> DEFINE n == Len(addr)
           m == Len(stores)
<1>3. addr \in Seq(Addrs) /\ n \in Nat  BY DEF MapInv, MapTypes
<1>4. addr' \in Seq(Addrs) /\ Len(addr') = n + 1 /\ addr'[n + 1] = p /\ \A o \in 1..n : addr'[o] = addr[o]
  BY <1>1, <1>3
<1>5. \A k \in KeysUpTo(n) : k \in KeysUpTo(n + 1) /\ Name(addr', k) = Name(addr, k)
  BY <1>1, <1>3, <1>4, NameFacts
<1>6. KeysUpTo(n) \subseteq KeysUpTo(n + 1)  BY <1>5
<1>7. Entries(n) \subseteq Entries(n + 1) /\ Pairs(n) \subseteq Pairs(n + 1)  BY <1>6 DEF Entries, Pairs
<1>8. Iterators(n, m) \subseteq Iterators(n + 1, m)
  <2>1. Seq(KeysUpTo(n)) \subseteq Seq(KeysUpTo(n + 1))  BY <1>6
  <2> QED  BY <1>6, <2>1 DEF Iterators
<1>9. Seq(Entries(n)) \subseteq Seq(Entries(n + 1)) /\ Seq(Pairs(n)) \subseteq Seq(Pairs(n + 1))
  BY <1>7
<1>10. MapTypes'
  <2>1. reach' \in SUBSET (1..n + 1)
    <3>1. \A o \in reach : o \in 1..n  BY DEF MapInv, MapTypes
    <3>2. 1..n \subseteq 1..n + 1 /\ n + 1 \in 1..n + 1  BY <1>3
    <3> QED  BY <1>2, <3>1, <3>2
  <2>2. stores' \in Seq(Seq(Entries(n + 1)))  BY <1>2, <1>9 DEF MapInv, MapTypes
  <2>3. iters' \in Seq(Iterators(n + 1, m))  BY <1>2, <1>8 DEF MapInv, MapTypes
  <2>4. cur' \in 1..Len(stores') /\ Len(abs') = Len(stores')  BY <1>2 DEF MapInv, MapTypes
  <2>5. abs' \in Seq(Seq(Pairs(n + 1)))  BY <1>2, <1>9 DEF MapInv, MapTypes
  <2> QED  BY <1>2, <1>4, <2>1, <2>2, <2>3, <2>4, <2>5 DEF MapTypes
<1>11. \A s \in 1..Len(stores') : StoreOK(addr', stores'[s])
  <2> SUFFICES ASSUME NEW s \in 1..Len(stores) PROVE StoreOK(addr', stores[s])  BY <1>2
  <2>1. StoreOK(addr, stores[s])  BY DEF MapInv, StoresOK
  <2>2. stores[s] \in Seq(Entries(n))  BY <2>1 DEF StoreOK
  <2>3. \A i \in 1..Len(stores[s]) : Name(addr', stores[s][i].k) = Name(addr, stores[s][i].k)
    <3> SUFFICES ASSUME NEW i \in 1..Len(stores[s]) PROVE Name(addr', stores[s][i].k) = Name(addr, stores[s][i].k)
      OBVIOUS
    <3>1. stores[s][i] \in Entries(n)  BY <2>2
    <3> QED  BY <1>5, <3>1 DEF Entries
  <2> QED  BY <1>4, <1>9, <2>1, <2>2, <2>3 DEF StoreOK
<1>12. \A j \in 1..Len(iters') : ItOK(addr', Len(stores'), AKeys(abs'[iters'[j].store]), iters'[j])
  <2> SUFFICES ASSUME NEW j \in 1..Len(iters) PROVE ItOK(addr', m, AKeys(abs[iters[j].store]), iters[j])  BY <1>2
  <2>1. ItOK(addr, m, AKeys(abs[iters[j].store]), iters[j])  BY DEF MapInv, ItersOK
  <2>2. iters[j] \in Iterators(Len(addr'), m)  BY <1>4, <1>8, <2>1 DEF ItOK
  <2> QED  BY <1>5, <2>1, <2>2, IteratorKept
<1>13. \A s \in 1..Len(stores') : Exact(Len(addr'), stores'[s], abs'[s])
  BY <1>2, <1>4, <1>9 DEF MapInv, ExactAll, Exact
<1>14. Unshared(addr', AliveNow')
  <2>1. AliveNow' \in SUBSET (AliveNow \cup {n + 1})
    <3>1. \A o \in 1..n + 1 : o \in 1..n \/ o = n + 1  BY <1>3
    <3> QED  BY <1>2, <1>4, <3>1 DEF AliveNow, AliveIn
  <2>2. \A o \in AliveNow : o \in 1..n /\ addr'[o] = addr[o] /\ addr[o] # p
    BY <1>1, <1>4, CurFacts, AliveIsNow DEF MapInv
  <2>3. Unshared(addr', AliveNow \cup {n + 1})  BY <1>4, <2>2 DEF MapInv, Unshared
  <2> QED  BY <2>1, <2>3, StillUnshared
<1> QED  BY <1>2, <1>10, <1>11, <1>12, <1>13, <1>14 DEF MapInv, StoresOK, ItersOK, ExactAll

\* Changing the entries of the collection while iterators go on.
LEMMA EntriesChange ==
  ASSUME MapInv, NEW t, StoreOK(addr, t), Objects(t, AliveNow), NEW b, Exact(Len(addr), t, b),
         stores' = [stores EXCEPT ![cur] = t], abs' = [abs EXCEPT ![cur] = b],
         UNCHANGED <<cur, addr, reach>>, ret' = aret',
         NEW R, AKeys(abs[cur]) \ R \subseteq AKeys(b),
         iters' \in Seq(Iterators(Len(addr), Len(stores))), Len(iters') = Len(iters),
         \A j \in 1..Len(iters) :
           /\ iters'[j].store = iters[j].store /\ iters'[j].names = iters[j].names
           /\ iters'[j].idx = iters[j].idx /\ iters'[j].held = iters[j].held
           /\ iters'[j].done = iters[j].done /\ iters'[j].gave = iters[j].gave
           /\ iters'[j].owes \subseteq iters[j].owes
           /\ iters[j].store = cur => iters'[j].owes \cap R = {}
  PROVE  MapInv'
<1>1. t \in Seq(Entries(Len(addr))) /\ b \in Seq(Pairs(Len(addr)))  BY DEF StoreOK, Exact
<1>2. /\ stores \in Seq(Seq(Entries(Len(addr)))) /\ cur \in 1..Len(stores)
      /\ abs \in Seq(Seq(Pairs(Len(addr)))) /\ Len(abs) = Len(stores)
  BY DEF MapInv, MapTypes
<1>3. /\ stores' \in Seq(Seq(Entries(Len(addr)))) /\ Len(stores') = Len(stores) /\ stores'[cur] = t
      /\ \A s \in 1..Len(stores) : s # cur => stores'[s] = stores[s]
  BY <1>1, <1>2
<1>3a. /\ abs' \in Seq(Seq(Pairs(Len(addr)))) /\ Len(abs') = Len(stores) /\ abs'[cur] = b
       /\ \A s \in 1..Len(stores) : s # cur => abs'[s] = abs[s]
  BY <1>1, <1>2
<1>4. MapTypes'  BY <1>3, <1>3a DEF MapInv, MapTypes
<1>5. StoresOK'
  <2>1. \A s \in 1..Len(stores') : StoreOK(addr', stores'[s])  BY <1>3 DEF MapInv, StoresOK
  <2> QED  BY <2>1 DEF StoresOK
<1>6. ASSUME NEW j \in 1..Len(iters') PROVE ItOK(addr', Len(stores'), AKeys(abs'[iters'[j].store]), iters'[j])
  <2> DEFINE s == iters[j].store
             ak == AKeys(abs[s])
             bk == AKeys(abs'[s])
             jt == iters'[j]
  <2>1. ItOK(addr, Len(stores), ak, iters[j])  BY DEF MapInv, ItersOK
  <2>2. jt \in Iterators(Len(addr), Len(stores)) /\ s \in 1..Len(stores) /\ jt.store = s
    <3>1. j \in 1..Len(iters)  OBVIOUS
    <3>2. jt \in Iterators(Len(addr), Len(stores)) /\ jt.store = s  BY <3>1
    <3> HIDE DEF jt
    <3> QED  BY <3>2 DEF Iterators
  <2>4. jt.owes \subseteq iters[j].owes /\ \A k \in jt.owes : k \in ak => k \in bk
    <3>1. CASE s = cur  BY <1>3a, <3>1
    <3>2. CASE s # cur  BY <1>3a, <2>2, <3>2
    <3> QED  BY <3>1, <3>2
  <2> DEFINE it == iters[j]
  <2>5. jt.names = it.names /\ jt.idx = it.idx /\ jt.done = it.done /\ jt.gave = it.gave /\ jt.owes \subseteq it.owes
    BY <2>4
  <2>5a. ItOK(addr, Len(stores), ak, it)  BY <2>1
  <2> HIDE DEF ak, bk, jt, s, it
  <2>6. ItOK(addr, Len(stores), bk, jt)  BY <2>2, <2>4, <2>5, <2>5a, IteratorKept
  <2> QED  BY <1>3, <2>2, <2>6 DEF bk, jt
<1>7. AliveNow' \in SUBSET AliveNow
  <2> SUFFICES ASSUME NEW o \in AliveNow', o \notin reach PROVE o \in AliveNow
    BY DEF AliveNow, AliveIn
  <2> DEFINE U == {cur} \cup {iters[j].store : j \in {h \in 1..Len(iters) : iters[h].held}}
  <2>1. U = {cur'} \cup {iters'[j].store : j \in {h \in 1..Len(iters') : iters'[h].held}}  OBVIOUS
  <2>2. PICK s \in U : \E i \in 1..Len(stores'[s]) : stores'[s][i].k = <<3, o>>
    BY <2>1 DEF AliveNow, AliveIn
  <2>3. o \in 1..Len(addr)  BY DEF AliveNow, AliveIn
  <2>4. CASE s = cur
    <3>1. PICK i \in 1..Len(t) : t[i].k = <<3, o>>  BY <1>3, <2>2, <2>4
    <3>2. Within(t[i].k, AliveNow)  BY DEF Objects
    <3> QED  BY <3>1, <3>2 DEF Within
  <2>5. CASE s # cur
    <3>1. s \in 1..Len(stores)
      <4>1. \A j \in 1..Len(iters) : iters[j] \in Iterators(Len(addr), Len(stores))  BY DEF MapInv, MapTypes
      <4> QED  BY <2>5, <4>1 DEF Iterators
    <3>2. stores'[s] = stores[s]  BY <1>3, <2>5, <3>1
    <3>3. \E i \in 1..Len(stores[s]) : stores[s][i].k = <<3, o>>  BY <2>2, <3>2
    <3>4. o \in AliveIn(reach, Len(addr), stores, cur, iters)
      <4> HIDE DEF AliveNow
      <4> QED  BY <2>3, <3>3 DEF AliveIn
    <3> QED  BY <3>4 DEF AliveNow
  <2> QED  BY <2>4, <2>5
<1>8. Unshared(addr', AliveNow')  BY <1>7, StillUnshared DEF MapInv
<1>9. \A s \in 1..Len(stores') : Exact(Len(addr'), stores'[s], abs'[s])
  BY <1>3, <1>3a DEF MapInv, ExactAll
<1> QED  BY <1>4, <1>5, <1>6, <1>8, <1>9 DEF MapInv, ItersOK, ExactAll

LEMMA SetKeyKeeps ==
  ASSUME MapInv, SetKey PROVE MapInv'
<1>1. PICK k \in Keys, v \in MapValues : /\ stores' = [stores EXCEPT ![cur] = MapSet(stores[cur], k, v)]
                                         /\ abs' = [abs EXCEPT ![cur] = ASet(abs[cur], k, v)]
  BY DEF SetKey
<1>2. ret' = aret' /\ UNCHANGED <<cur, building, iters, addr, reach>>  BY DEF SetKey, Answer
<1> DEFINE t == Put(stores[cur], Name(addr, k), k, v)
           b == ASet(abs[cur], k, v)
<1>4. addr \in Seq(Addrs) /\ Exact(Len(addr), stores[cur], abs[cur]) /\ Unshared(addr, AliveNow)
      /\ iters \in Seq(Iterators(Len(addr), Len(stores)))
  BY CurFacts DEF MapInv, MapTypes
<1>5. /\ k \in KeysUpTo(Len(addr)) /\ Within(k, AliveNow) /\ AliveNow \in SUBSET (1..Len(addr))
      /\ StoreOK(addr, stores[cur]) /\ Objects(stores[cur], AliveNow) /\ Len(addr) \in Nat
  BY CurFacts
<1>3. MapSet(stores[cur], k, v) = t  BY <1>5, NamesOfKeys DEF MapSet
<1>6. /\ StoreOK(addr, t) /\ Objects(t, AliveNow) /\ Exact(Len(addr), t, b)
      /\ AKeys(abs[cur]) \subseteq AKeys(b)
  BY <1>4, <1>5, PutKeeps
<1>7. stores' = [stores EXCEPT ![cur] = t] /\ abs' = [abs EXCEPT ![cur] = b]  BY <1>1, <1>3
<1> HIDE DEF t, b
<1> DEFINE R == {}
<1>8. /\ AKeys(abs[cur]) \ R \subseteq AKeys(b)
      /\ \A j \in 1..Len(iters) : iters'[j] = iters[j] /\ iters'[j].owes \cap R = {}
  BY <1>2, <1>6
<1> HIDE DEF R
<1> QED  BY <1>2, <1>4, <1>6, <1>7, <1>8, EntriesChange

LEMMA DeleteKeyKeeps ==
  ASSUME MapInv, DeleteKey PROVE MapInv'
<1>1. PICK k \in Keys :
        /\ ret' = <<Has(stores[cur], CString(KeyString(k)))>> /\ aret' = <<AFind(abs[cur], k) # 0>>
        /\ stores' = [stores EXCEPT ![cur] = Del(stores[cur], CString(KeyString(k)))]
        /\ abs' = [abs EXCEPT ![cur] = ADel(abs[cur], k)] /\ iters' = Dropped(k)
  BY DEF DeleteKey, Answer
<1>2. UNCHANGED <<cur, addr, reach>>  BY DEF DeleteKey, Operation
<1> DEFINE t == Del(stores[cur], Name(addr, k))
           b == ADel(abs[cur], k)
<1>3. addr \in Seq(Addrs) /\ Exact(Len(addr), stores[cur], abs[cur]) /\ Unshared(addr, AliveNow)
      /\ iters \in Seq(Iterators(Len(addr), Len(stores)))
  BY CurFacts DEF MapInv, MapTypes
<1>4. /\ k \in KeysUpTo(Len(addr)) /\ Within(k, AliveNow) /\ AliveNow \in SUBSET (1..Len(addr))
      /\ StoreOK(addr, stores[cur]) /\ Objects(stores[cur], AliveNow) /\ Len(addr) \in Nat
  BY CurFacts
<1>5. CString(KeyString(k)) = Name(addr, k)  BY <1>4, NamesOfKeys
<1>6. /\ StoreOK(addr, t) /\ Objects(t, AliveNow) /\ Exact(Len(addr), t, b)
      /\ AKeys(abs[cur]) \ {Norm(k)} \subseteq AKeys(b)
  BY <1>3, <1>4, DelKeeps
<1>7. ret' = aret'
  <2>1. Find(stores[cur], Name(addr, k)) = AFind(abs[cur], k)  BY <1>3, <1>4, FoundInBoth
  <2> QED  BY <1>1, <1>5, <2>1 DEF Has
<1>8. stores' = [stores EXCEPT ![cur] = t] /\ abs' = [abs EXCEPT ![cur] = b]  BY <1>1, <1>5
<1> HIDE DEF t, b
<1> DEFINE R == {Norm(k)}
           It(i) == IF iters[i].store = cur THEN [iters[i] EXCEPT !.owes = iters[i].owes \ R] ELSE iters[i]
<1>9. iters' = [i \in 1..Len(iters) |-> It(i)]  BY <1>1, <1>3 DEF Dropped
<1>10. AKeys(abs[cur]) \ R \subseteq AKeys(b)  BY <1>6
<1> HIDE DEF R
<1>11. \A j \in 1..Len(iters) :
         /\ iters'[j] \in Iterators(Len(addr), Len(stores))
         /\ iters'[j].store = iters[j].store /\ iters'[j].names = iters[j].names
         /\ iters'[j].idx = iters[j].idx /\ iters'[j].held = iters[j].held
         /\ iters'[j].done = iters[j].done /\ iters'[j].gave = iters[j].gave
         /\ iters'[j].owes \subseteq iters[j].owes
         /\ iters[j].store = cur => iters'[j].owes \cap R = {}
  <2> TAKE j \in 1..Len(iters)
  <2>1. iters[j] \in Iterators(Len(addr), Len(stores))  BY <1>3
  <2>2. iters'[j] = It(j)  BY <1>9
  <2>3. CASE iters[j].store = cur
    <3>1. iters'[j] = [iters[j] EXCEPT !.owes = iters[j].owes \ R]  BY <2>2, <2>3
    <3> QED  BY <2>1, <2>3, <3>1 DEF Iterators
  <2>4. CASE iters[j].store # cur  BY <2>1, <2>2, <2>4
  <2> QED  BY <2>3, <2>4
<1>12. iters' \in Seq(Iterators(Len(addr), Len(stores))) /\ Len(iters') = Len(iters)
  <2> DEFINE T == Iterators(Len(addr), Len(stores))
  <2>1. Len(iters) \in Nat /\ \A j \in 1..Len(iters) : iters'[j] \in T  BY <1>3, <1>11
  <2>1a. DOMAIN iters' = 1..Len(iters) /\ iters' = [j \in 1..Len(iters) |-> iters'[j]]  BY <1>9
  <2> HIDE DEF T
  <2>2. iters' \in [1..Len(iters) -> T]  BY <2>1, <2>1a
  <2>3. iters' \in Seq(T) /\ Len(iters') = Len(iters)  BY <2>1, <2>2
  <2> QED  BY <2>3 DEF T
<1> QED  BY <1>2, <1>6, <1>7, <1>8, <1>10, <1>11, <1>12, EntriesChange

\* A new, empty store; the iterators there are stay with theirs, and with what they owe.
LEMMA FreshStore ==
  ASSUME MapInv, stores' = Append(stores, <<>>), cur' = Len(stores) + 1, abs' = Append(abs, <<>>),
         UNCHANGED <<addr, reach>>, ret' = aret',
         NEW l \in Nat, iters' = [j \in 1..l |-> iters[j]], 1..l \subseteq 1..Len(iters)
  PROVE  MapInv'
<1> DEFINE n == Len(addr)
           m == Len(stores)
<1>1. /\ addr \in Seq(Addrs) /\ n \in Nat /\ m \in Nat /\ stores \in Seq(Seq(Entries(n))) /\ cur \in 1..m
      /\ reach \in SUBSET (1..n) /\ iters \in Seq(Iterators(n, m))
      /\ abs \in Seq(Seq(Pairs(n))) /\ Len(abs) = m
  BY DEF MapInv, MapTypes
<1>2. /\ <<>> \in Seq(Entries(n)) /\ <<>> \in Seq(Pairs(n))
      /\ StoreOK(addr, <<>>) /\ Exact(n, <<>>, <<>>)
  BY DEF StoreOK, Exact
<1>3. /\ stores' \in Seq(Seq(Entries(n))) /\ Len(stores') = m + 1 /\ stores'[m + 1] = <<>>
      /\ \A s \in 1..m : stores'[s] = stores[s]
  BY <1>1, <1>2
<1>3a. /\ abs' \in Seq(Seq(Pairs(n))) /\ Len(abs') = m + 1 /\ abs'[m + 1] = <<>>
       /\ \A s \in 1..m : abs'[s] = abs[s]
  <2> DEFINE P == Seq(Pairs(n))
             e == <<>>
  <2>1. abs \in Seq(P) /\ e \in P /\ abs' = Append(abs, e) /\ Len(abs) = m  BY <1>1, <1>2
  <2> HIDE DEF P, n, m, e
  <2>2. abs' \in Seq(P) /\ Len(abs') = m + 1 /\ abs'[m + 1] = e /\ \A s \in 1..m : abs'[s] = abs[s]
    BY <2>1
  <2> QED  BY <2>2 DEF P, e
<1>4. ASSUME NEW j \in 1..l
      PROVE  iters'[j] = iters[j] /\ iters'[j] \in Iterators(n, m + 1) /\ iters[j].store \in 1..m
  <2>1. iters[j] \in Iterators(n, m)  BY <1>1
  <2>2. iters'[j] = iters[j]  OBVIOUS
  <2>3. 1..m \subseteq 1..m + 1  BY <1>1
  <2> HIDE DEF n, m
  <2> QED  BY <2>1, <2>2, <2>3 DEF Iterators
<1>5. iters' \in Seq(Iterators(n, m + 1)) /\ Len(iters') = l
  <2>1. iters' \in [1..l -> Iterators(n, m + 1)]  BY <1>4
  <2> QED  BY <2>1
<1>6. MapTypes'
  <2>1. cur' \in 1..Len(stores') /\ Len(abs') = Len(stores')  BY <1>1, <1>3, <1>3a
  <2>2. iters' \in Seq(Iterators(Len(addr'), Len(stores')))  BY <1>3, <1>5
  <2> QED  BY <1>1, <1>3, <1>3a, <2>1, <2>2 DEF MapTypes
<1>7. \A s \in 1..Len(stores') : StoreOK(addr', stores'[s]) /\ Exact(Len(addr'), stores'[s], abs'[s])
  <2>1. \A s \in 1..m + 1 : s = m + 1 \/ s \in 1..m  BY <1>1
  <2> QED  BY <1>2, <1>3, <1>3a, <2>1 DEF MapInv, StoresOK, ExactAll
<1>8. \A j \in 1..Len(iters') : ItOK(addr', Len(stores'), AKeys(abs'[iters'[j].store]), iters'[j])
  <2> SUFFICES ASSUME NEW j \in 1..l PROVE ItOK(addr, m + 1, AKeys(abs[iters[j].store]), iters[j])
    BY <1>3, <1>3a, <1>4, <1>5
  <2>1. ItOK(addr, m, AKeys(abs[iters[j].store]), iters[j])  BY DEF MapInv, ItersOK
  <2> DEFINE M == m + 1
             it == iters[j]
             bk == AKeys(abs[iters[j].store])
  <2>2. it \in Iterators(Len(addr), M)  BY <1>4
  <2>3. ItOK(addr, m, bk, it)  BY <2>1
  <2> HIDE DEF M, it, bk
  <2>4. ItOK(addr, M, bk, it)  BY <2>2, <2>3, IteratorKept
  <2> QED  BY <2>4 DEF M, it, bk
<1>9. AliveNow' \in SUBSET AliveNow
  <2> SUFFICES ASSUME NEW o \in AliveNow', o \notin reach PROVE o \in AliveNow
    BY DEF AliveNow, AliveIn
  <2>1. PICK s \in {m + 1} \cup {iters'[j].store : j \in {h \in 1..l : iters'[h].held}} :
          \E i \in 1..Len(stores'[s]) : stores'[s][i].k = <<3, o>>
    BY <1>5 DEF AliveNow, AliveIn
  <2>2. o \in 1..n  BY DEF AliveNow, AliveIn
  <2>3. s # m + 1  BY <1>3, <2>1
  <2>4. PICK j \in 1..l : iters'[j].held /\ s = iters'[j].store  BY <2>1, <2>3
  <2>5. iters[j].held /\ s = iters[j].store /\ s \in 1..m /\ j \in 1..Len(iters)  BY <1>4, <2>4
  <2>6. \E i \in 1..Len(stores[s]) : stores[s][i].k = <<3, o>>  BY <1>3, <2>1, <2>5
  <2>7. s \in {cur} \cup {iters[h].store : h \in {q \in 1..Len(iters) : iters[q].held}}  BY <2>5
  <2>8. o \in AliveIn(reach, n, stores, cur, iters)
    <3> HIDE DEF AliveNow
    <3> QED  BY <2>2, <2>6, <2>7 DEF AliveIn
  <2> QED  BY <2>8 DEF AliveNow
<1>10. Unshared(addr', AliveNow')  BY <1>9, StillUnshared DEF MapInv
<1> QED  BY <1>6, <1>7, <1>8, <1>10 DEF MapInv, StoresOK, ItersOK, ExactAll

LEMMA ClearAllKeeps ==
  ASSUME MapInv, ClearAll PROVE MapInv'
<1>1. /\ stores' = Append(stores, <<>>) /\ cur' = Len(stores) + 1 /\ abs' = Append(abs, <<>>)
      /\ UNCHANGED <<iters, addr, reach>> /\ ret' = aret'
  BY DEF ClearAll, Operation, Answer
<1>2. Len(iters) \in Nat /\ iters' = [j \in 1..Len(iters) |-> iters[j]]  BY <1>1 DEF MapInv, MapTypes
<1> QED  BY <1>1, <1>2, FreshStore

LEMMA ConstructKeeps ==
  ASSUME MapInv, Construct PROVE MapInv'
<1>1. /\ stores' = Append(stores, <<>>) /\ cur' = Len(stores) + 1 /\ abs' = Append(abs, <<>>) /\ iters' = <<>>
      /\ UNCHANGED <<addr, reach>> /\ ret' = aret'
  BY DEF Construct, Answer
<1>2. iters' = [j \in 1..0 |-> iters[j]] /\ 1..0 \subseteq 1..Len(iters)  BY <1>1
<1> QED  BY <1>1, <1>2, FreshStore

LEMMA IterateKeeps ==
  ASSUME MapInv, Iterate PROVE MapInv'
<1> DEFINE n == Len(addr)
           m == Len(stores)
           st == stores[cur]
           a == abs[cur]
           W == {a[i][1] : i \in DOMAIN a}
           jt == [store |-> cur, names |-> NamesOf(st), idx |-> 1, held |-> TRUE,
                  done |-> FALSE, gave |-> <<>>, owes |-> W]
<1>1. /\ iters' = Append(iters, jt) /\ ret' = aret' /\ UNCHANGED <<stores, cur, reach, abs, addr>>
  BY DEF Iterate, Operation, Answer
<1>2. /\ addr \in Seq(Addrs) /\ n \in Nat /\ m \in Nat /\ cur \in 1..m /\ iters \in Seq(Iterators(n, m))
      /\ StoreOK(addr, st) /\ Exact(n, st, a)
  BY CurFacts DEF MapInv, MapTypes
<1>3. st \in Seq(Entries(n)) /\ a \in Seq(Pairs(n)) /\ Len(a) = Len(st)  BY <1>2 DEF StoreOK, Exact
<1>4. /\ NamesOf(st) \in Seq(NameSet) /\ Len(NamesOf(st)) = Len(st)
      /\ \A i \in 1..Len(st) : NamesOf(st)[i] = st[i].name
  <2>1. NamesOf(st) = [i \in 1..Len(st) |-> st[i].name]  BY <1>3 DEF NamesOf
  <2>2. \A i \in 1..Len(st) : st[i].name \in NameSet
    <3>1. \A i \in 1..Len(st) : st[i] \in Entries(n)  BY <1>3
    <3> QED  BY <3>1 DEF Entries
  <2>3. NamesOf(st) \in [1..Len(st) -> NameSet] /\ Len(st) \in Nat  BY <1>3, <2>1, <2>2
  <2> QED  BY <2>1, <2>3
<1>5. W = AKeys(a) /\ W \in SUBSET KeysUpTo(n)
  <2>1. DOMAIN a = 1..Len(a)  BY <1>3
  <2>2. \A i \in 1..Len(a) : a[i] \in Pairs(n)  BY <1>3
  <2>3. \A i \in 1..Len(a) : a[i][1] \in KeysUpTo(n)  BY <2>2 DEF Pairs
  <2> QED  BY <2>1, <2>3 DEF AKeys
<1> DEFINE names == NamesOf(st)
<1>6. jt = [store |-> cur, names |-> names, idx |-> 1, held |-> TRUE, done |-> FALSE, gave |-> <<>>, owes |-> W]
  OBVIOUS
<1> HIDE DEF jt, W, names, st, a
<1>7. jt \in Iterators(n, m) /\ jt.store = cur /\ jt.names = names /\ jt.idx = 1 /\ ~jt.done
      /\ jt.gave = <<>> /\ jt.owes = W
  <2>1. <<>> \in Seq(KeysUpTo(n)) /\ names \in Seq(NameSet)  BY <1>4 DEF names
  <2> HIDE DEF n, m
  <2> QED  BY <1>2, <1>5, <1>6, <2>1 DEF Iterators
<1>8. ItOK(addr, m, AKeys(a), jt)
  <2>1. \A i, j \in 1..Len(jt.names) : jt.names[i] = jt.names[j] => i = j
    BY <1>2, <1>4, <1>7 DEF StoreOK, names
  <2>2. jt.idx \in 1..Len(jt.names) + 1  BY <1>3, <1>4, <1>7 DEF names
  <2>3. ASSUME NEW k \in W PROVE Owed(addr, AKeys(a), jt, k)
    <3>1. PICK i \in 1..Len(a) : a[i][1] = k  BY <1>5 DEF AKeys
    <3>2. i \in 1..Len(st) /\ k = Norm(st[i].k)  BY <1>2, <1>3, <3>1 DEF Exact
    <3>3. st[i] \in Entries(n)  BY <1>3, <3>2
    <3>4. Name(addr, k) = Name(addr, st[i].k)
      <4>1. st[i].k \in KeysUpTo(Len(addr))  BY <3>3 DEF Entries
      <4> QED  BY <1>2, <3>2, <4>1, NameFacts
    <3>5. jt.names[i] = Name(addr, k)  BY <1>2, <1>4, <1>7, <3>2, <3>4 DEF StoreOK, names
    <3>6. i \in jt.idx..Len(jt.names)  BY <1>3, <1>4, <1>7, <3>2 DEF names
    <3> QED  BY <1>5, <1>7, <3>5, <3>6 DEF Owed
  <2>4. Len(jt.gave) = 0  BY <1>7
  <2> QED  BY <1>7, <2>1, <2>2, <2>3, <2>4 DEF ItOK
<1>9. /\ iters' \in Seq(Iterators(n, m)) /\ Len(iters') = Len(iters) + 1 /\ iters'[Len(iters) + 1] = jt
      /\ \A j \in 1..Len(iters) : iters'[j] = iters[j]
  BY <1>1, <1>2, <1>7
<1>10. \A j \in 1..Len(iters') : j = Len(iters) + 1 \/ j \in 1..Len(iters)  BY <1>2, <1>9
<1>11. MapTypes' /\ StoresOK' /\ ExactAll'
  BY <1>1, <1>9 DEF MapInv, MapTypes, StoresOK, ExactAll
<1>12. \A j \in 1..Len(iters') : ItOK(addr', Len(stores'), AKeys(abs'[iters'[j].store]), iters'[j])
  <2>1. ItOK(addr, m, AKeys(abs[jt.store]), jt)  BY <1>7, <1>8 DEF a
  <2> QED  BY <1>1, <1>9, <1>10, <2>1 DEF MapInv, ItersOK
<1>13. AliveNow' \in SUBSET AliveNow
  <2>1. \A j \in 1..Len(iters') : iters'[j].held =>
          \/ iters'[j].store = cur
          \/ \E h \in 1..Len(iters) : iters[h].held /\ iters[h].store = iters'[j].store
    BY <1>7, <1>9, <1>10
  <2>2. reach \in SUBSET AliveIn(reach, n, stores, cur, iters)  BY DEF AliveIn
  <2>3. AliveIn(reach, n, stores, cur, iters') \in SUBSET AliveIn(reach, n, stores, cur, iters)
    BY <2>1, <2>2, AliveLess
  <2> QED  BY <1>1, <2>3 DEF AliveNow
<1>14. Unshared(addr', AliveNow')  BY <1>1, <1>13, StillUnshared DEF MapInv
<1> QED  BY <1>1, <1>11, <1>12, <1>14 DEF MapInv, ItersOK

\* A step of one iterator, which may give an object back to the program.
LEMMA OneIterator ==
  ASSUME MapInv, UNCHANGED <<stores, cur, abs, addr>>, ret' = aret',
         NEW x \in 1..Len(iters), NEW jt, ItOK(addr, Len(stores), AKeys(abs[jt.store]), jt),
         iters' = [iters EXCEPT ![x] = jt], jt.store = iters[x].store, jt.held => iters[x].held,
         reach' \in SUBSET AliveNow
  PROVE  MapInv'
<1> DEFINE n == Len(addr)
           m == Len(stores)
<1>1. jt \in Iterators(n, m) /\ iters \in Seq(Iterators(n, m))  BY DEF ItOK, MapInv, MapTypes
<1>2. /\ iters' \in Seq(Iterators(n, m)) /\ Len(iters') = Len(iters) /\ iters'[x] = jt
      /\ \A j \in 1..Len(iters) : j # x => iters'[j] = iters[j]
  BY <1>1
<1>3. MapTypes' /\ StoresOK' /\ ExactAll'
  BY <1>2, CurFacts DEF MapInv, MapTypes, StoresOK, ExactAll
<1>4. \A j \in 1..Len(iters') : ItOK(addr', Len(stores'), AKeys(abs'[iters'[j].store]), iters'[j])
  BY <1>2 DEF MapInv, ItersOK
<1>5. AliveNow' \in SUBSET AliveNow
  <2>1. \A j \in 1..Len(iters') : iters'[j].held => iters[j].held /\ iters'[j].store = iters[j].store
    BY <1>2
  <2>2. AliveIn(reach', n, stores, cur, iters') \in SUBSET AliveIn(reach, n, stores, cur, iters)
    <3>1. reach' \in SUBSET AliveIn(reach, n, stores, cur, iters)  BY DEF AliveNow
    <3>2. \A j \in 1..Len(iters') : iters'[j].held =>
            \E h \in 1..Len(iters) : iters[h].held /\ iters[h].store = iters'[j].store
      BY <1>2, <2>1
    <3> QED  BY <3>1, <3>2, AliveLess
  <2> QED  BY <2>2 DEF AliveNow
<1>6. Unshared(addr', AliveNow')  BY <1>5, StillUnshared DEF MapInv
<1> QED  BY <1>3, <1>4, <1>6 DEF MapInv, ItersOK

LEMMA DropIteratorKeeps ==
  ASSUME MapInv, DropIterator PROVE MapInv'
<1>1. PICK x \in DOMAIN iters : iters[x].held /\ iters' = [iters EXCEPT ![x].held = FALSE]  BY DEF DropIterator
<1>2. ret' = aret' /\ UNCHANGED <<stores, cur, reach, abs, addr>>  BY DEF DropIterator, Operation, Answer
<1> DEFINE it == iters[x]
           jt == [it EXCEPT !.held = FALSE]
<1>3. x \in 1..Len(iters) /\ iters' = [iters EXCEPT ![x] = jt]  BY <1>1 DEF MapInv, MapTypes
<1>4. ItOK(addr, Len(stores), AKeys(abs[it.store]), it)  BY <1>3 DEF MapInv, ItersOK
<1>5. it \in Iterators(Len(addr), Len(stores))  BY <1>4 DEF ItOK
<1> HIDE DEF it
<1>6. /\ jt \in Iterators(Len(addr), Len(stores)) /\ jt.store = it.store /\ jt.names = it.names
      /\ jt.idx = it.idx /\ jt.done = it.done /\ jt.gave = it.gave /\ jt.owes = it.owes /\ ~jt.held
  BY <1>5 DEF Iterators
<1> HIDE DEF jt
<1>7. ItOK(addr, Len(stores), AKeys(abs[jt.store]), jt)  BY <1>4, <1>5, <1>6, IteratorKept
<1>8. jt.store = iters[x].store  BY <1>6 DEF it
<1>9. reach' \in SUBSET AliveNow  BY <1>2 DEF AliveNow, AliveIn
<1> QED  BY <1>2, <1>3, <1>6, <1>7, <1>8, <1>9, OneIterator

\* What next gives is in the collection, was not given before, and what is owed is not passed over.
LEMMA IterNextKeeps ==
  ASSUME MapInv, IterNext PROVE MapInv'
<1> USE DEF Operation, Answer
<1>1. UNCHANGED <<stores, cur, abs, addr>>  BY DEF IterNext
<1>2. PICK x \in DOMAIN iters :
        LET it == iters[x]   i == NextIndex(it)   st == stores[it.store] IN
          /\ it.held
          /\ IF i > Len(it.names)
             THEN iters' = [iters EXCEPT ![x].done = TRUE] /\ ret' = NONE /\ aret' = NONE /\ UNCHANGED reach
             ELSE LET f == Find(st, it.names[i])   k == IF f = 0 THEN NONE ELSE Norm(st[f].k) IN
                  /\ iters' = [iters EXCEPT ![x].idx = i + 1, ![x].gave = Append(@, k)]
                  /\ reach' = IF k[1] = 3 THEN reach \cup {k[2]} ELSE reach
                  /\ ret' = <<f # 0 /\ AFind(abs[it.store], k) # 0>> /\ aret' = <<TRUE>>
  BY DEF IterNext
<1> DEFINE n == Len(addr)
           m == Len(stores)
           it == iters[x]
           i == NextIndex(it)
           st == stores[it.store]
           l == Len(it.names)
           a == abs[it.store]
<1>3. x \in 1..Len(iters) /\ it.held
  <2>1. DOMAIN iters = 1..Len(iters)  BY DEF MapInv, MapTypes
  <2>2. it.held  BY <1>2
  <2> QED  BY <2>1, <2>2
<1>4. addr \in Seq(Addrs) /\ ItOK(addr, m, AKeys(a), it)  BY <1>3 DEF MapInv, MapTypes, ItersOK
<1>5. it \in Iterators(n, m) /\ it.idx \in 1..l + 1  BY <1>4 DEF ItOK
<1>6. it.store \in 1..m /\ l \in Nat /\ it.idx \in Nat /\ it.gave \in Seq(KeysUpTo(n))  BY <1>5 DEF Iterators
<1>7. StoreOK(addr, st)  BY <1>6 DEF MapInv, StoresOK
<1>8. \A k \in AKeys(a) : \E e \in 1..Len(st) : Norm(st[e].k) = k  BY <1>6, CurFacts
<1>9. i \in it.idx..l + 1 /\ (i <= l => Has(st, it.names[i])) /\ \A h \in it.idx..l : Has(st, it.names[h]) => i <= h
  <2> DEFINE I == {h \in it.idx..l : Has(st, it.names[h])} \cup {l + 1}
  <2>1. I \in SUBSET Nat /\ I # {}  BY <1>6
  <2>2. i = Min(I)  BY DEF NextIndex
  <2>3. \A h \in I : h \in it.idx..l + 1 /\ (h <= l => Has(st, it.names[h]))  BY <1>5, <1>6
  <2>4. \A h \in it.idx..l : Has(st, it.names[h]) => h \in I  OBVIOUS
  <2> HIDE DEF I, i
  <2>5. i \in I /\ \A h \in I : i <= h  BY <2>1, <2>2, FirstOf
  <2> QED  BY <2>3, <2>4, <2>5
<1>10. CASE i > l
  <2> DEFINE jt == [it EXCEPT !.done = TRUE]
  <2>1. iters' = [iters EXCEPT ![x] = jt] /\ ret' = aret' /\ reach' = reach  BY <1>2, <1>10
  <2>2. \A h \in it.idx..l : ~Has(st, it.names[h])  BY <1>6, <1>9, <1>10
  <2>3. ItOK(addr, m, AKeys(a), jt)  BY <1>4, <1>7, <1>8, <2>2, IteratorEnds
  <2>4. jt.store = iters[x].store /\ jt.held = iters[x].held  BY <1>5 DEF Iterators
  <2>5. reach' \in SUBSET AliveNow  BY <2>1 DEF AliveNow, AliveIn
  <2>6. ItOK(addr, Len(stores), AKeys(abs[jt.store]), jt)  BY <2>3, <2>4
  <2> HIDE DEF jt, it, i, st, a, m
  <2> QED  BY <1>1, <1>3, <2>1, <2>4, <2>5, <2>6, OneIterator
<1>11. CASE ~(i > l)
  <2> DEFINE f == Find(st, it.names[i])
             k == Norm(st[f].k)
             jt == [it EXCEPT !.idx = i + 1, !.gave = Append(it.gave, k)]
  <2>1. i \in it.idx..l /\ Has(st, it.names[i])  BY <1>6, <1>9, <1>11
  <2>2. st \in Seq(Entries(n))  BY <1>7 DEF StoreOK
  <2>3. f # 0 /\ f \in 1..Len(st)  BY <2>1, <2>2, FindFacts DEF Has
  <2>4. st[f] \in Entries(n)  BY <2>2, <2>3
  <2>5. st[f].k \in KeysUpTo(n) /\ n \in Nat  BY <1>4, <2>4 DEF Entries
  <2>6. /\ iters' = [iters EXCEPT ![x].idx = i + 1, ![x].gave = Append(@, k)]
        /\ reach' = IF k[1] = 3 THEN reach \cup {k[2]} ELSE reach
        /\ ret' = <<f # 0 /\ AFind(abs[it.store], k) # 0>> /\ aret' = <<TRUE>>
    BY <1>2, <1>11, <2>3
  <2>7. ItOK(addr, m, AKeys(a), jt)
    <3> HIDE DEF it, i, st, k
    <3>1. k = Norm(st[Find(st, it.names[i])].k)  BY DEF k
    <3> QED  BY <1>4, <1>7, <1>8, <1>9, <2>1, <3>1, IteratorGives
  <2>8. jt.store = iters[x].store /\ jt.held = iters[x].held
    <3> HIDE DEF k, i, st
    <3> QED  BY <1>5 DEF Iterators
  <2>9. iters' = [iters EXCEPT ![x] = jt]
    <3> HIDE DEF k, i, st
    <3> QED  BY <1>3, <1>5, <2>6 DEF Iterators, MapInv, MapTypes
  <2>10. ret' = aret'
    <3>1. Exact(n, st, a)  BY <1>6 DEF MapInv, ExactAll
    <3>2. a \in Seq(Pairs(n)) /\ f \in 1..Len(a) /\ a[f][1] = k  BY <2>3, <3>1 DEF Exact
    <3>3. Norm(k) = k  BY <2>5, NormKey
    <3>4. AFind(a, k) # 0
      <4> HIDE DEF k, f, a
      <4> QED  BY <3>2, <3>3, AFindFacts
    <3> QED  BY <2>3, <2>6, <3>4
  <2>11. reach' \in SUBSET AliveNow
    <3>1. Objects(st, AliveNow)
      <4>1. \E j \in 1..Len(iters) : iters[j].held /\ it.store = iters[j].store  BY <1>3
      <4> QED  BY <2>2, <2>5, <4>1, KeyObjectsAlive DEF AliveNow
    <3>2. Within(st[f].k, AliveNow)  BY <2>3, <3>1 DEF Objects
    <3>3. reach \in SUBSET AliveNow  BY DEF AliveNow, AliveIn
    <3>4. k[1] = 3 => k[2] \in AliveNow
      <4> DEFINE q == st[f].k
      <4>1. CASE q[1] = 3
        <5>1. k = q  BY <2>5, <4>1, KindOfKey
        <5> QED  BY <3>2, <5>1 DEF Within
      <4>2. CASE q[1] # 3
        <5>1. q[1] \in {1, 2, 4} /\ q \in Seq(Int) /\ q # <<>>  BY <2>5, <4>2, KindOfKey
        <5>2. k = <<1, q[2]>> \/ (q[1] = 2 /\ k = CString(q)) \/ k = <<4>>  BY <2>5, <5>1, KindOfKey
        <5>3. q[1] = 2 => CString(q)[1] = 2  BY <5>1, CStringFacts
        <5> HIDE DEF q, k
        <5>4. k[1] # 3  BY <5>2, <5>3
        <5> QED  BY <5>4
      <4> QED  BY <4>1, <4>2
    <3> HIDE DEF k
    <3> QED  BY <2>6, <3>3, <3>4
  <2>12. ItOK(addr, Len(stores), AKeys(abs[jt.store]), jt)
    <3> HIDE DEF jt
    <3> QED  BY <2>7, <2>8
  <2> HIDE DEF jt, it, i, st, k, f, a, m
  <2> QED  BY <1>1, <1>3, <2>8, <2>9, <2>10, <2>11, <2>12, OneIterator
<1> QED  BY <1>10, <1>11

\* get, has and size find the same in the store as in the collection, but no name with a NUL.
LEMMA AnswersKeep ==
  ASSUME MapInv, GetKey \/ HasKey \/ GetSize PROVE MapInv'
<1> DEFINE a == abs[cur]
           st == stores[cur]
<1>1. UNCHANGED <<stores, cur, iters, addr, abs>> /\ reach' \in SUBSET reach
  BY DEF GetKey, HasKey, GetSize, Operation, Quiet
<1>2. addr \in Seq(Addrs) /\ Exact(Len(addr), st, a) /\ Unshared(addr, AliveNow)
  BY CurFacts DEF MapInv, MapTypes
<1>3. ASSUME NEW k \in Keys
      PROVE  Find(st, KeyString(k)) = IF HasNul(k) THEN 0 ELSE AFind(a, k)
  <2>1. k \in KeysUpTo(Len(addr)) /\ Len(addr) \in Nat /\ Within(k, AliveNow)  BY CurFacts
  <2>2. CASE ~HasNul(k)
    <3>1. KeyString(k) = Name(addr, k)  BY <2>1, <2>2, NamesOfKeys
    <3> QED  BY <1>2, <2>1, <2>2, <3>1, CurFacts, FoundInBoth
  <2>3. CASE HasNul(k)
    <3>1. KeyString(k) = k /\ k[1] = 2  BY <2>1, <2>3, NamesOfKeys DEF HasNul
    <3>2. st \in Seq(Entries(Len(addr)))  BY CurFacts
    <3>3. ASSUME NEW i \in 1..Len(st) PROVE st[i].name # k
      <4>1. st[i] \in Entries(Len(addr))  BY <3>2
      <4>2. st[i].name \in NameSet  BY <4>1 DEF Entries
      <4>3. \A p \in Addrs : <<3, p>> # k
        <5>1. \A p \in Addrs : <<3, p>>[1] = 3  OBVIOUS
        <5> QED  BY <3>1, <5>1
      <4> QED  BY <2>3, <4>2, <4>3 DEF NameSet
    <3>4. Find(st, k) \in 0..Len(st) /\ (Find(st, k) # 0 => st[Find(st, k)].name = k) /\ Len(st) \in Nat
      BY <3>2, FindFacts
    <3>5. Find(st, k) = 0
      <4> DEFINE f == Find(st, k)
      <4> HIDE DEF f
      <4>1. f \in 0..Len(st) /\ (f # 0 => st[f].name = k)  BY <3>4 DEF f
      <4>2. f # 0 => f \in 1..Len(st)  BY <3>4, <4>1
      <4>3. f = 0  BY <3>3, <4>1, <4>2
      <4> QED  BY <4>3 DEF f
    <3> QED  BY <2>3, <3>1, <3>5
  <2> QED  BY <2>2, <2>3
<1>4. ret' = aret'
  <2>1. CASE GetKey
    <3>1. PICK k \in Keys : LET i == Find(st, KeyString(k))   j == AFind(a, k) IN
            /\ ret' = IF i = 0 THEN NONE ELSE <<st[i].v>>
            /\ aret' = IF j = 0 \/ HasNul(k) THEN NONE ELSE <<a[j][2]>>
      BY <2>1 DEF GetKey, Answer
    <3> DEFINE i == AFind(a, k)
    <3>2. i # 0 => i \in 1..Len(st)
      <4>1. a \in Seq(Pairs(Len(addr))) /\ Len(a) = Len(st)  BY <1>2 DEF Exact
      <4>2. i \in 0..Len(a) /\ Len(a) \in Nat  BY <4>1, AFindFacts
      <4> QED  BY <4>1, <4>2
    <3>3. i # 0 => a[i][2] = st[i].v  BY <1>2, <3>2 DEF Exact
    <3>4. Find(st, KeyString(k)) = IF HasNul(k) THEN 0 ELSE i  BY <1>3
    <3> HIDE DEF i
    <3>5. CASE HasNul(k)  BY <3>1, <3>4, <3>5
    <3>6. CASE ~HasNul(k)  BY <3>1, <3>3, <3>4, <3>6 DEF i
    <3> QED  BY <3>5, <3>6
  <2>2. CASE HasKey
    <3>1. PICK k \in Keys : ret' = <<Find(st, KeyString(k)) # 0>> /\ aret' = <<AFind(a, k) # 0 /\ ~HasNul(k)>>
      BY <2>2 DEF HasKey, Answer, Has
    <3>2. (Find(st, KeyString(k)) # 0) <=> (AFind(a, k) # 0 /\ ~HasNul(k))  BY <1>3
    <3> DEFINE P == Find(st, KeyString(k)) # 0
               Q == AFind(a, k) # 0 /\ ~HasNul(k)
    <3>3. P \in BOOLEAN /\ Q \in BOOLEAN /\ (P <=> Q) /\ ret' = <<P>> /\ aret' = <<Q>>  BY <3>1, <3>2
    <3> HIDE DEF P, Q
    <3>4. P = Q  BY <3>3
    <3> QED  BY <3>3, <3>4
  <2>3. CASE GetSize  BY <1>2, <2>3 DEF GetSize, Answer, Exact
  <2> QED  BY <2>1, <2>2, <2>3
<1> QED  BY <1>1, <1>4, SameCollection

LEMMA MapInvImplies ==
  ASSUME MapInv PROVE MapSetAgrees
<1>1. ASSUME NEW s \in StoresInUse
      PROVE  /\ [i \in DOMAIN stores[s] |-> <<Norm(stores[s][i].k), stores[s][i].v>>] = abs[s]
             /\ \A i \in DOMAIN stores[s] : stores[s][i].name = CString(KeyString(stores[s][i].k))
  <2> DEFINE st == stores[s]
             a == abs[s]
  <2>1. s \in 1..Len(stores)
    <3>1. \A j \in DOMAIN iters : iters[j] \in Iterators(Len(addr), Len(stores))  BY DEF MapInv, MapTypes
    <3> QED  BY <3>1 DEF StoresInUse, Iterators, MapInv, MapTypes
  <2>2. StoreOK(addr, st) /\ Exact(Len(addr), st, a)  BY <2>1 DEF MapInv, StoresOK, ExactAll
  <2>3. st \in Seq(Entries(Len(addr))) /\ Len(addr) \in Nat  BY <2>2, CurFacts DEF StoreOK
  <2>4. a \in Seq(Pairs(Len(addr))) /\ Len(a) = Len(st)  BY <2>2 DEF Exact
  <2> HIDE DEF st, a
  <2>5. [i \in DOMAIN st |-> <<Norm(st[i].k), st[i].v>>] = a
    <3>1. DOMAIN st = 1..Len(st) /\ DOMAIN a = 1..Len(st)  BY <2>3, <2>4
    <3>2. a = [i \in 1..Len(st) |-> a[i]]  BY <2>4
    <3>3. \A i \in 1..Len(st) : a[i] = <<Norm(st[i].k), st[i].v>>  BY <2>2 DEF Exact
    <3> QED  BY <3>1, <3>2, <3>3
  <2>6. ASSUME NEW i \in DOMAIN st PROVE st[i].name = CString(KeyString(st[i].k))
    <3>1. i \in 1..Len(st)  BY <2>3
    <3>2. st[i] \in Entries(Len(addr))  BY <2>3, <3>1
    <3>3. st[i].k \in KeysUpTo(Len(addr))  BY <3>2 DEF Entries
    <3>4. st[i].name = Name(addr, st[i].k)  BY <2>2, <3>1 DEF StoreOK
    <3> QED  BY <2>3, <3>3, <3>4, NamesOfKeys
  <2> QED  BY <2>5, <2>6 DEF st, a
<1>5. StoreExact  BY <1>1 DEF StoreExact
<1>6. ASSUME NEW x \in DOMAIN iters
      PROVE  IsInjective(iters[x].gave) /\ (iters[x].done => iters[x].owes \subseteq Range(iters[x].gave))
  <2>1. x \in 1..Len(iters)  BY DEF MapInv, MapTypes
  <2>2. ItOK(addr, Len(stores), AKeys(abs[iters[x].store]), iters[x])  BY <2>1 DEF MapInv, ItersOK
  <2>3. iters[x].gave \in Seq(KeysUpTo(Len(addr)))  BY <2>2 DEF ItOK, Iterators
  <2>4. DOMAIN iters[x].gave = 1..Len(iters[x].gave)  BY <2>3
  <2>5. IsInjective(iters[x].gave)  BY <2>2, <2>4 DEF ItOK, IsInjective
  <2>6. iters[x].done => \A k \in iters[x].owes : \E j \in 1..Len(iters[x].gave) : iters[x].gave[j] = k
    BY <2>2 DEF ItOK, Owed
  <2> QED  BY <2>4, <2>5, <2>6 DEF Range
<1> QED  BY <1>5, <1>6 DEF MapSetAgrees, MapAnswers, MapInv, IterationComplete

-----------------------------------------------------------------------------

\* However often addresses are reused, whatever is set, deleted or cleared while iterators
\* run, and whatever the iterable of a constructor does: the store of a Map or Set
\* (duk_rp_map_set.c) is ECMAScript's collection, in the order of insertion, of what the keys
\* are taken for (strings up to their first NUL, all values without a heap address as one,
\* every other key by SameValueZero); operations answer for that collection, except that get
\* and has find no key with a NUL; and an iteration gives no entry twice and every entry that
\* is not deleted one by one, also after clear().
THEOREM MapSetAlwaysAgrees == MapSpec => []MapSetAgrees
<1>1. MapInv /\ [MapNext]_mapVars => MapInv'
  <2> SUFFICES ASSUME MapInv, [MapNext]_mapVars PROVE MapInv'  OBVIOUS
  <2>1. CASE NewObject  BY <2>1, NewObjectKeeps
  <2>2. CASE DropObject
    <3>1. UNCHANGED <<stores, cur, iters, addr, abs>> /\ reach' \in SUBSET reach /\ ret' = aret'
      BY <2>2 DEF DropObject, Quiet, Answer
    <3> QED  BY <3>1, SameCollection
  <2>3. CASE SetKey  BY <2>3, SetKeyKeeps
  <2>4. CASE GetKey \/ HasKey \/ GetSize  BY <2>4, AnswersKeep
  <2>5. CASE DeleteKey  BY <2>5, DeleteKeyKeeps
  <2>6. CASE ClearAll  BY <2>6, ClearAllKeeps
  <2>7. CASE Construct  BY <2>7, ConstructKeeps
  <2>8. CASE Constructed
    <3>1. UNCHANGED <<stores, cur, iters, addr, abs>> /\ reach' \in SUBSET reach /\ ret' = aret'
      BY <2>8 DEF Constructed, Quiet, Answer
    <3> QED  BY <3>1, SameCollection
  <2>9. CASE Iterate  BY <2>9, IterateKeeps
  <2>10. CASE IterNext  BY <2>10, IterNextKeeps
  <2>11. CASE DropIterator  BY <2>11, DropIteratorKeeps
  <2>12. CASE UNCHANGED mapVars
    <3>1. UNCHANGED <<stores, cur, iters, addr, abs>> /\ reach' \in SUBSET reach /\ ret' = aret'
      BY <2>12 DEF mapVars, MapInv
    <3> QED  BY <3>1, SameCollection
  <2> QED  BY <2>1, <2>2, <2>3, <2>4, <2>5, <2>6, <2>7, <2>8, <2>9, <2>10, <2>11, <2>12 DEF MapNext
<1>2. MapInv => MapSetAgrees  BY MapInvImplies
<1> QED  BY <1>1, <1>2, MapInitOK, PTL DEF MapSpec
=============================================================================

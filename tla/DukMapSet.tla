----------------------------- MODULE DukMapSet -----------------------------
(***************************************************************************)
(* Map and Set (duk_rp_map_set.c).  A collection is a plain object whose   *)
(* property names are built from the keys and whose values are records     *)
(* [k, v]; names of objects hold their address, and an address is reused   *)
(* once its object is freed.  Iterators and forEach work on a list of      *)
(* names taken when they start, over the store of that moment.             *)
(*                                                                         *)
(* A key is a tuple: <<1, n>> a number (<<1, 0, 1>> is -0), <<2, c, ...>>  *)
(* a string (character 0 is NUL), <<3, i>> the i-th object, <<4, i>> a     *)
(* value without a heap address (a plain pointer or a lightfunc).  abs[n]  *)
(* is the ECMAScript collection store n stands for: keys in the order of   *)
(* their insertion, compared by SameValueZero of what the code takes them  *)
(* for.                                                                    *)
(***************************************************************************)
EXTENDS Integers, Sequences, SequencesExt, FiniteSets, FiniteSetsExt

CONSTANTS Scalars,      \* the keys that are not heap objects
          MapValues,    \* values
          Addrs,        \* addresses of objects
          MaxObjs, MaxIters, MaxSteps

ASSUME MapAssumption ==
  \A k \in Scalars : k \in Seq(Int) /\ k # <<>> /\ k[1] \in {1, 2, 4} /\ (k[1] = 1 => Len(k) > 1)

VARIABLES stores,    \* the stores made so far, each a sequence of entries
          cur,       \* the store of the collection
          building,  \* the constructor is running
          iters,     \* iterators made for the collection
          addr,      \* addresses of the objects made so far
          reach,     \* the objects the program refers to
          abs,       \* ECMAScript's collections, one for each store
          ret, aret, \* what the last operation answered, and what ECMAScript answers
          steps

mapVars == <<stores, cur, building, iters, addr, reach, abs, ret, aret, steps>>

NONE == <<0>>
Entry(name, k, v) == [name |-> name, k |-> k, v |-> v]

-----------------------------------------------------------------------------

\* map_push_key_string; duk_get_heapptr is NULL for every value without a heap address
KeyString(k) == CASE k[1] = 1 -> <<1, k[2]>> [] k[1] = 3 -> <<3, addr[k[2]]>> [] k[1] = 4 -> <<4>> [] OTHER -> k
\* duk_get_string and the _prop_string calls see a C string
CString(ks) == IF ks[1] = 2 /\ Contains(ks, 0) THEN SubSeq(ks, 1, SelectInSeq(ks, LAMBDA c : c = 0) - 1) ELSE ks

Find(st, name) == SelectInSeq(st, LAMBDA en : en.name = name)
Has(st, name) == Find(st, name) # 0
\* Putting an existing property keeps its place, a new one comes last
MovesToEnd(st, name, k, v) ==                     \* mutant of Put
  Append(SelectSeq(st, LAMBDA en : en.name # name), Entry(name, k, v))
Put(st, name, k, v) == IF Has(st, name) THEN [st EXCEPT ![Find(st, name)] = Entry(name, k, v)] ELSE Append(st, Entry(name, k, v))
Del(st, name) == IF Has(st, name) THEN RemoveAt(st, Find(st, name)) ELSE st
NamesOf(st) == [i \in DOMAIN st |-> st[i].name]
MapSet(st, k, v) == Put(st, CString(KeyString(k)), k, v)

\* The objects that are keys in a store that the collection or an iterator refers to
StoresInUse == {cur} \cup {iters[n].store : n \in {j \in DOMAIN iters : iters[j].held}}
KeyObjects == {o \in DOMAIN addr : \E n \in StoresInUse : \E i \in DOMAIN stores[n] : stores[n][i].k = <<3, o>>}
Alive == reach \cup KeyObjects
Keys == Scalars \cup {<<3, o>> : o \in reach}

-----------------------------------------------------------------------------
(* ECMAScript's collection.                                                 *)

\* SameValueZero of what the code takes a key for: a string ends at its first NUL, and
\* values without a heap address are all the same.  On other keys it is SameValueZero.
Norm(k) == CASE k[1] = 1 -> <<1, k[2]>> [] k[1] = 3 -> k [] k[1] = 4 -> <<4>> [] OTHER -> CString(k)
HasNul(k) == k[1] = 2 /\ Contains(k, 0)
AFind(a, k) == SelectInSeq(a, LAMBDA en : en[1] = Norm(k))
ASet(a, k, v) == IF AFind(a, k) # 0 THEN [a EXCEPT ![AFind(a, k)][2] = v] ELSE Append(a, <<Norm(k), v>>)
ADel(a, k) == IF AFind(a, k) # 0 THEN RemoveAt(a, AFind(a, k)) ELSE a

-----------------------------------------------------------------------------

MapInit == /\ stores = <<<<>>>> /\ cur = 1 /\ building = FALSE /\ iters = <<>> /\ abs = <<<<>>>>
           /\ addr = <<>> /\ reach = {} /\ ret = NONE /\ aret = NONE /\ steps = 0

Step == steps < MaxSteps /\ steps' = steps + 1
Operation == Step /\ ~building /\ UNCHANGED <<building, addr>>
Answer(r, a) == ret' = r /\ aret' = a
Quiet == UNCHANGED <<stores, cur, iters, abs>>
\* What an iterator still owes: the entries of its start that were not removed since
Dropped(k) == [i \in DOMAIN iters |-> IF iters[i].store = cur THEN [iters[i] EXCEPT !.owes = @ \ {Norm(k)}] ELSE iters[i]]

NewObject == /\ Step /\ Len(addr) < MaxObjs
             /\ \E p \in Addrs \ {addr[o] : o \in Alive} : addr' = Append(addr, p)
             /\ reach' = reach \cup {Len(addr) + 1}
             /\ Answer(NONE, NONE) /\ Quiet /\ UNCHANGED building
\* The program forgets an object; it is freed unless a store still holds it
DropObject == /\ Step /\ \E o \in reach : reach' = reach \ {o}
              /\ Answer(NONE, NONE) /\ Quiet /\ UNCHANGED <<building, addr>>

\* map_set and set_add, which the constructor calls too
SetKey == /\ Step
          /\ \E k \in Keys, v \in MapValues : /\ stores' = [stores EXCEPT ![cur] = MapSet(@, k, v)]
                                              /\ abs' = [abs EXCEPT ![cur] = ASet(@, k, v)]
          /\ Answer(NONE, NONE) /\ UNCHANGED <<cur, building, iters, addr, reach>>
\* get and has look for the whole name, and no name in a store holds a NUL
GetKey == /\ Operation
          /\ \E k \in Keys : LET st == stores[cur]   i == Find(st, KeyString(k))   j == AFind(abs[cur], k) IN
               Answer(IF i = 0 THEN NONE ELSE <<st[i].v>>, IF j = 0 \/ HasNul(k) THEN NONE ELSE <<abs[cur][j][2]>>)
          /\ Quiet /\ UNCHANGED reach
HasKey == /\ Operation
          /\ \E k \in Keys : Answer(<<Has(stores[cur], KeyString(k))>>, <<AFind(abs[cur], k) # 0 /\ ~HasNul(k)>>)
          /\ Quiet /\ UNCHANGED reach
DeleteKey == /\ Operation
             /\ \E k \in Keys : LET name == CString(KeyString(k)) IN
                  /\ Answer(<<Has(stores[cur], name)>>, <<AFind(abs[cur], k) # 0>>)
                  /\ stores' = [stores EXCEPT ![cur] = Del(@, name)]
                  /\ abs' = [abs EXCEPT ![cur] = ADel(@, k)]
                  /\ iters' = Dropped(k)
             /\ UNCHANGED <<cur, reach>>
\* map_clear gives the collection a new store and leaves iterators with the old one
ClearAll == /\ Operation /\ stores' = Append(stores, <<>>) /\ cur' = Len(stores) + 1 /\ abs' = Append(abs, <<>>)
            /\ Answer(NONE, NONE) /\ UNCHANGED <<iters, reach>>
GetSize == Operation /\ Answer(<<Len(stores[cur])>>, <<Len(abs[cur])>>) /\ Quiet /\ UNCHANGED reach

\* map_constructor and set_constructor make a new collection and call set for every value
\* of the iterable, whose next method runs in between; only then is the collection known.
Construct == /\ Step /\ ~building /\ building' = TRUE
             /\ stores' = Append(stores, <<>>) /\ cur' = Len(stores) + 1 /\ abs' = Append(abs, <<>>) /\ iters' = <<>>
             /\ Answer(NONE, NONE) /\ UNCHANGED <<addr, reach>>
Constructed == /\ Step /\ building /\ building' = FALSE
               /\ Answer(NONE, NONE) /\ Quiet /\ UNCHANGED <<addr, reach>>

\* map_push_iterator, and the enumerator of forEach
Iterate == /\ Operation /\ Len(iters) < MaxIters
           /\ iters' = Append(iters, [store |-> cur, names |-> NamesOf(stores[cur]), idx |-> 1, held |-> TRUE,
                                      done |-> FALSE, gave |-> <<>>, owes |-> {abs[cur][i][1] : i \in DOMAIN abs[cur]}])
           /\ Answer(NONE, NONE) /\ UNCHANGED <<stores, cur, reach, abs>>
\* map_iter_next and duk_next: names whose property is gone are passed over.  The index is
\* not moved when the iterator answers that it is done, which done only records.  The
\* program gets the key.
NextIndex(it) == Min({i \in it.idx..Len(it.names) : Has(stores[it.store], it.names[i])} \cup {Len(it.names) + 1})
IterNext == /\ Operation
            /\ \E n \in DOMAIN iters : LET it == iters[n]   i == NextIndex(it)   st == stores[it.store] IN
                 /\ it.held
                 /\ IF i > Len(it.names)
                    THEN iters' = [iters EXCEPT ![n].done = TRUE] /\ Answer(NONE, NONE) /\ UNCHANGED reach
                    ELSE LET f == Find(st, it.names[i])   k == IF f = 0 THEN NONE ELSE Norm(st[f].k) IN
                         /\ iters' = [iters EXCEPT ![n].idx = i + 1, ![n].gave = Append(@, k)]
                         /\ reach' = IF k[1] = 3 THEN reach \cup {k[2]} ELSE reach
                         /\ Answer(<<f # 0 /\ AFind(abs[it.store], k) # 0>>, <<TRUE>>)
            /\ UNCHANGED <<stores, cur, abs>>
\* The program forgets an iterator
DropIterator == /\ Operation
                /\ \E n \in DOMAIN iters : iters[n].held /\ iters' = [iters EXCEPT ![n].held = FALSE]
                /\ Answer(NONE, NONE) /\ UNCHANGED <<stores, cur, reach, abs>>

MapNext == \/ NewObject \/ DropObject \/ SetKey \/ GetKey \/ HasKey \/ DeleteKey \/ ClearAll \/ GetSize
           \/ Construct \/ Constructed \/ Iterate \/ IterNext \/ DropIterator
MapSpec == MapInit /\ [][MapNext]_mapVars

-----------------------------------------------------------------------------

(* Every store in use is the ECMAScript collection of what its keys are     *)
(* taken for: a key is there under its name exactly once, in the order of   *)
(* insertion, and an address in a name is the address of the object it was  *)
(* made for, however often memory is reused.                                *)
StoreExact == \A n \in StoresInUse :
  /\ [i \in DOMAIN stores[n] |-> <<Norm(stores[n][i].k), stores[n][i].v>>] = abs[n]
  /\ \A i \in DOMAIN stores[n] : stores[n][i].name = CString(KeyString(stores[n][i].k))

(* get, has, delete and size answer for that collection, except that get    *)
(* and has find no key that holds a NUL; and next never gives an entry      *)
(* deleted since the iterator was made.                                     *)
MapAnswers == ret = aret

(* An iteration gives no entry twice, and by its end has given every entry  *)
(* that was in the collection from its start on; a clear() is a new         *)
(* collection, so the iteration goes on over the entries cleared away.      *)
IterationComplete == \A n \in DOMAIN iters : LET it == iters[n] IN
  /\ IsInjective(it.gave)
  /\ it.done => it.owes \subseteq Range(it.gave)

(* The store is the ECMAScript collection of what the code takes the keys   *)
(* for, in insertion order and however often memory is reused; operations   *)
(* answer for that collection, but no key with a NUL is found again; and an *)
(* iteration gives every entry there from its start on, once, whether or    *)
(* not the collection has been cleared meanwhile.                           *)
MapSetAgrees == StoreExact /\ MapAnswers /\ IterationComplete
=============================================================================

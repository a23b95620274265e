------------------------- MODULE DukPromise_proofs -------------------------
(***************************************************************************)
(* Proofs about DukPromise for every number of promises, resolving         *)
(* functions and operations: the stored state is consistent, no wakeup is  *)
(* lost, and, when jobs do not drain the queue themselves, every reaction  *)
(* is in one place and the abstract specification is implemented.          *)
(***************************************************************************)
EXTENDS DukPromise, FiniteSetTheorems, SequenceTheorems, TLAPS

-----------------------------------------------------------------------------
(* The inductive invariant.  Its parts speak of a store s, the targets tg   *)
(* of the pairs and the sources src of the then() calls, so that they apply *)
(* to the intermediate results of an action as well.                        *)

States == {"free", "pending", "fulfilled", "rejected"}
Final == {"fulfilled", "rejected"}

StoreType ==
  [state : [Promise -> States], result : [Promise -> Value],
   fq : [Promise -> Seq(Reaction)], rq : [Promise -> Seq(Reaction)],
   queue : Seq(Job), lost : SUBSET Pair]

PairMap == [Pair -> Promise \cup {NONE}]

\* Promises and pairs are created in the order of their numbers.
CreatedTo(s, n) == \A p \in Promise : s.state[p] # "free" <=> p <= n
PairsTo(tg, n) == \A c \in Pair : tg[c] # NONE <=> c <= n

\* What a pair settles, and what a then() call was made on, exists.
PairsOK(s, tg, src) ==
  \A c \in Pair : /\ tg[c] # NONE => s.state[tg[c]] # "free"
                  /\ src[c] # NONE => tg[c] # NONE /\ s.state[src[c]] # "free"

\* A handler that is a capability function comes from an adoption: it passes on what
\* happened to the adopted promise.
CapOK(h, k, tg) == h \in Cap => h[2] = k /\ tg[h[1]] # NONE

\* The two lists of a promise hold the reactions of the then() calls on it.
ListsOK(s, tg, src) ==
  \A p \in Promise :
    /\ Len(s.fq[p]) = Len(s.rq[p])
    /\ \A i \in 1..Len(s.fq[p]) :
         /\ src[s.fq[p][i].pair] = p /\ s.rq[p][i].pair = s.fq[p][i].pair
         /\ CapOK(s.fq[p][i].handler, "resolve", tg) /\ CapOK(s.rq[p][i].handler, "reject", tg)

JobOK(m, s, tg, src) ==
  /\ m.type = "reaction" =>
       /\ src[m.pair] # NONE
       /\ m.rtype = s.state[src[m.pair]] /\ m.value = s.result[src[m.pair]]
       /\ CapOK(m.handler, IF m.rtype = "fulfilled" THEN "resolve" ELSE "reject", tg)
  /\ m.type = "thenable" =>
       /\ s.state[m.promise] # "free"
       /\ m.thenable \in Promise => s.state[m.thenable] # "free"

JobsOK(s, tg, src) == \A i \in 1..Len(s.queue) : JobOK(s.queue[i], s, tg, src)

Unwrapped(s) == \A p \in Promise : s.state[p] = "fulfilled" => s.result[p] = PLAIN

StoreOK(s, tg, src) ==
  /\ s \in StoreType /\ tg \in PairMap /\ src \in PairMap
  /\ PairsOK(s, tg, src) /\ ListsOK(s, tg, src) /\ JobsOK(s, tg, src) /\ Unwrapped(s)

\* The code that runs refers to existing promises and pairs; a microtask that was not
\* unlinked is in the queue.
FrameOK(f, st, tg, ul, q) ==
  /\ f.kind = "ctor" => st[f.promise] # "free"
  /\ f.kind \in {"handler", "then"} =>
       /\ tg[f.pair] # NONE
       /\ f.pos <= ul + 1 /\ (f.pos = ul + 1 => q # <<>>)

ContextOK ==
  /\ \E n \in 0..MaxPromise : CreatedTo(Store, n)
  /\ \E n \in 0..MaxPair : PairsTo(target, n)
  /\ \A p \in known : state[p] # "free"
  /\ \A c \in held : target[c] # NONE
  /\ \A i \in 1..Len(frames) : FrameOK(frames[i], state, target, unlinked, queue)

BaseInv == TypeOK /\ StoreOK(Store, target, source) /\ ContextOK

-----------------------------------------------------------------------------
(* The part that needs jobs not to drain the queue themselves.              *)

Queued(s, c) == \E i \in 1..Len(s.queue) : s.queue[i].type = "reaction" /\ s.queue[i].pair = c
Among(J, c) == \E k \in 1..Len(J) : J[k].type = "reaction" /\ J[k].pair = c
Happened(rn, c) == \E i \in 1..Len(rn) : rn[i] = c

\* The lists of a promise and its microtasks are in the order of the then() calls.
Before(m, n, src) == m.type = "reaction" /\ n.type = "reaction" /\ src[m.pair] = src[n.pair]
                       => m.pair < n.pair
InOrder(q, src) == \A i, j \in 1..Len(q) : i < j => Before(q[i], q[j], src)
Ordered(s, src) ==
  /\ \A p \in Promise : \A i, j \in 1..Len(s.fq[p]) : i < j => s.fq[p][i].pair < s.fq[p][j].pair
  /\ InOrder(s.queue, src)

\* The reaction of a then() call on a pending promise is in its lists, that on a settled one
\* is queued, has run, or was lost.
Placed(s, src, rn) ==
  /\ \A c \in Pair : src[c] # NONE /\ s.state[src[c]] = "pending" =>
       \E i \in 1..Len(s.fq[src[c]]) : s.fq[src[c]][i].pair = c
  /\ \A c \in Pair : src[c] # NONE /\ s.state[src[c]] \in Final =>
       Queued(s, c) \/ Happened(rn, c) \/ c \in s.lost
  /\ \A c \in s.lost : /\ src[c] # NONE /\ s.state[src[c]] \in Final
                       /\ ~Queued(s, c) /\ ~Happened(rn, c)
  /\ \A i \in 1..Len(rn) : src[rn[i]] # NONE /\ s.state[src[rn[i]]] \in Final
  /\ \A i, j \in 1..Len(rn) : rn[i] = rn[j] => i = j

\* One drain, below its job; the job is at the head of the queue, and a handler that runs is
\* counted as run.
FramesOK(fs, ul, q, rn) ==
  /\ \A i, j \in 1..Len(fs) : fs[i].kind = "drain" /\ fs[j].kind = "drain" => i = j
  /\ \A i \in 1..Len(fs) : fs[i].kind \in {"handler", "then"} =>
       /\ i + 1 \in 1..Len(fs) /\ fs[i + 1].kind = "drain"
       /\ fs[i].pos = ul + 1 /\ q # <<>>
       /\ fs[i].kind = "then" => q[1].type = "thenable"
       /\ fs[i].kind = "handler" => /\ q[1].type = "reaction" /\ q[1].pair = fs[i].pair
                                    /\ Happened(rn, fs[i].pair)

InJob(fs, c) == \E i \in 1..Len(fs) : fs[i].kind = "handler" /\ fs[i].pair = c

\* A reaction that has run is queued only while its handler runs.
Running(s, fs, rn) == \A c \in Pair : Queued(s, c) /\ Happened(rn, c) => InJob(fs, c)

OnceInv ==
  /\ Ordered(Store, source) /\ Placed(Store, source, ran)
  /\ FramesOK(frames, unlinked, queue, ran) /\ Running(Store, frames, ran)

-----------------------------------------------------------------------------
(* What the helpers do to a store.                                          *)

\* An element of a list has a handler and a pair.
LEMMA ReactionParts ==
  ASSUME NEW r \in Reaction
  PROVE  r.handler \in Handler /\ r.pair \in Pair
BY DEF Reaction

\* A microtask for a reaction is a job.
LEMMA ReactionOfType ==
  ASSUME NEW r \in Reaction, NEW st \in Final, NEW v \in Value
  PROVE  /\ ReactionOf(r, st, v) \in Job
         /\ ReactionOf(r, st, v).type = "reaction" /\ ReactionOf(r, st, v).rtype = st
         /\ ReactionOf(r, st, v).pair = r.pair /\ ReactionOf(r, st, v).value = v
         /\ ReactionOf(r, st, v).handler = r.handler
BY DEF ReactionOf, Reaction, Job, ReactionJob, Final

\* Enqueuing: a prefix of the jobs is appended, the pairs of the others are lost.
EnqueuedTo(s, e, jobs, room, n) ==
  /\ n = Least(room, Len(jobs)) /\ e \in StoreType
  /\ e.queue = s.queue \o SubSeq(jobs, 1, n)
  /\ e.lost = s.lost \cup {jobs[i].pair : i \in (n + 1)..Len(jobs)}
  /\ e.state = s.state /\ e.result = s.result /\ e.fq = s.fq /\ e.rq = s.rq

LEMMA EnqueueParts ==
  ASSUME NEW s \in StoreType, NEW jobs \in Seq(Job), NEW room \in Nat,
         \A i \in 1..Len(jobs) : jobs[i].pair \in Pair
  PROVE  \E n \in 0..Len(jobs) : EnqueuedTo(s, Enqueue(s, jobs, room), jobs, room, n)
<1> DEFINE n == Least(room, Len(jobs))
           q == s.queue \o SubSeq(jobs, 1, n)
           l == s.lost \cup {jobs[i].pair : i \in (n + 1)..Len(jobs)}
<1>1. n \in 0..Len(jobs)
  BY LenProperties DEF Least
<1>2. SubSeq(jobs, 1, n) \in Seq(Job)
  BY <1>1, SubSeqProperties, LenProperties
<1>3. q \in Seq(Job)
  BY <1>2, ConcatProperties DEF StoreType
<1>4. l \in SUBSET Pair
  BY <1>1 DEF StoreType
<1>5. Enqueue(s, jobs, room) = [s EXCEPT !.queue = q, !.lost = l]
  BY DEF Enqueue
<1> HIDE DEF n, q, l
<1>6. /\ Enqueue(s, jobs, room) \in StoreType
      /\ Enqueue(s, jobs, room).queue = q /\ Enqueue(s, jobs, room).lost = l
      /\ Enqueue(s, jobs, room).state = s.state /\ Enqueue(s, jobs, room).result = s.result
      /\ Enqueue(s, jobs, room).fq = s.fq /\ Enqueue(s, jobs, room).rq = s.rq
  BY <1>3, <1>4, <1>5 DEF StoreType
<1>7. EnqueuedTo(s, Enqueue(s, jobs, room), jobs, room, n)
  BY <1>6 DEF EnqueuedTo, n, q, l
<1> QED
  BY <1>1, <1>7

\* Settling a pending promise: its state and result are set, a prefix of the reactions is
\* queued and the rest lost, and the lists are emptied or, if some were lost, kept.
SettledTo(s, t, p, st, v, n, J) ==
  /\ t \in StoreType
  /\ t.state = [s.state EXCEPT ![p] = st] /\ t.result = [s.result EXCEPT ![p] = v]
  /\ J \in Seq(Job) /\ Len(J) = n
  /\ \A i \in 1..n : J[i] = ReactionOf(Reactions(s, p, st)[i], st, v)
  /\ t.queue = s.queue \o J
  /\ t.lost = s.lost \cup {Reactions(s, p, st)[i].pair : i \in (n + 1)..Len(Reactions(s, p, st))}
  /\ \A q \in Promise : \/ t.fq[q] = s.fq[q] /\ t.rq[q] = s.rq[q]
                        \/ q = p /\ t.fq[q] = <<>> /\ t.rq[q] = <<>>

LEMMA SettleParts ==
  ASSUME NEW s \in StoreType, NEW p \in Promise, NEW st \in Final, NEW v \in Value,
         NEW room \in Nat, s.state[p] = "pending"
  PROVE  \E n \in 0..Len(Reactions(s, p, st)), J \in Seq(Job) :
           SettledTo(s, Settle(s, p, st, v, room), p, st, v, n, J)
<1> DEFINE rs == Reactions(s, p, st)
           jobs == [i \in 1..Len(rs) |-> ReactionOf(rs[i], st, v)]
           e == Enqueue(s, jobs, room)
           t == [e EXCEPT !.state[p] = st, !.result[p] = v]
           u == IF room < Len(rs) THEN t ELSE [t EXCEPT !.fq[p] = <<>>, !.rq[p] = <<>>]
<1>1. rs \in Seq(Reaction) /\ Len(rs) \in Nat
  BY LenProperties DEF Reactions, StoreType
<1>2. \A i \in 1..Len(rs) : rs[i] \in Reaction /\ rs[i].pair \in Pair
  BY <1>1, ElementOfSeq, ReactionParts
<1>3. /\ jobs \in Seq(Job) /\ Len(jobs) = Len(rs)
      /\ \A i \in 1..Len(rs) : jobs[i] = ReactionOf(rs[i], st, v) /\ jobs[i].pair = rs[i].pair
  <2>1. \A i \in 1..Len(rs) : ReactionOf(rs[i], st, v) \in Job /\ ReactionOf(rs[i], st, v).pair = rs[i].pair
    BY <1>2, ReactionOfType
  <2>2. jobs \in [1..Len(rs) -> Job]
    BY <2>1
  <2>3. jobs \in Seq(Job) /\ Len(jobs) = Len(rs)
    BY <1>1, <2>2 
  <2> QED
    BY <2>1, <2>3
<1> HIDE DEF jobs
<1>4. PICK n \in 0..Len(jobs) : EnqueuedTo(s, e, jobs, room, n)
  <2>1. \A i \in 1..Len(jobs) : jobs[i].pair \in Pair
    BY <1>2, <1>3
  <2> QED
    BY <1>3, <2>1, EnqueueParts
<1> HIDE DEF e
<1>5. /\ e \in StoreType /\ e.queue = s.queue \o SubSeq(jobs, 1, n)
      /\ e.lost = s.lost \cup {jobs[i].pair : i \in (n + 1)..Len(jobs)}
      /\ e.state = s.state /\ e.result = s.result /\ e.fq = s.fq /\ e.rq = s.rq
  BY <1>4 DEF EnqueuedTo
<1>6. /\ t \in StoreType /\ t.queue = e.queue /\ t.lost = e.lost /\ t.fq = s.fq /\ t.rq = s.rq
      /\ t.state = [s.state EXCEPT ![p] = st] /\ t.result = [s.result EXCEPT ![p] = v]
  BY <1>5 DEF StoreType, States, Final
<1> HIDE DEF t
<1>7. /\ u \in StoreType /\ u.queue = t.queue /\ u.lost = t.lost
      /\ u.state = t.state /\ u.result = t.result
      /\ \A q \in Promise : \/ u.fq[q] = s.fq[q] /\ u.rq[q] = s.rq[q]
                            \/ q = p /\ u.fq[q] = <<>> /\ u.rq[q] = <<>>
  BY <1>6, EmptySeq DEF StoreType
<1>8. Settle(s, p, st, v, room) = u
  BY DEF Settle, t, e, jobs
<1> DEFINE J == SubSeq(jobs, 1, n)
<1>9. J \in Seq(Job) /\ Len(J) = n /\ \A i \in 1..n : J[i] = jobs[i]
  BY <1>3, <1>4, SubSeqProperties, LenProperties, ElementOfSeq
<1>10. {jobs[i].pair : i \in (n + 1)..Len(jobs)} = {rs[i].pair : i \in (n + 1)..Len(rs)}
  <2> HIDE DEF rs
  <2>1. \A i \in (n + 1)..Len(rs) : i \in 1..Len(rs)
    BY <1>1, <1>3, <1>4
  <2>2. \A i \in (n + 1)..Len(rs) : jobs[i].pair = rs[i].pair
    BY <2>1, <1>3
  <2> QED
    BY <1>3, <2>2
<1> HIDE DEF J, u
<1>11. n \in 0..Len(rs)
  BY <1>3, <1>4
<1>12. SettledTo(s, u, p, st, v, n, J)
  <2>1. u.queue = s.queue \o J
    BY <1>5, <1>6, <1>7 DEF J
  <2>2. u.lost = s.lost \cup {rs[i].pair : i \in (n + 1)..Len(rs)}
    BY <1>5, <1>6, <1>7, <1>10
  <2>3. \A i \in 1..n : J[i] = ReactionOf(rs[i], st, v)
    BY <1>1, <1>3, <1>9, <1>11
  <2> QED
    BY <1>6, <1>7, <1>9, <2>1, <2>2, <2>3 DEF SettledTo
<1> QED
  BY <1>8, <1>9, <1>11, <1>12

\* What a job holds.
LEMMA JobParts ==
  ASSUME NEW m \in Job
  PROVE  /\ m.type \in {"reaction", "thenable"}
         /\ m.type = "reaction" => /\ m.rtype \in Final /\ m.pair \in Pair
                                   /\ m.value \in Value /\ m.handler \in Handler
         /\ m.type = "thenable" => m.promise \in Promise /\ m.thenable \in Promise \cup {THENABLE}
BY DEF Job, ReactionJob, ThenableJob, Final

\* A concatenation has the elements of both sequences.
LEMMA ConcatElements ==
  ASSUME NEW S, NEW a \in Seq(S), NEW b \in Seq(S), NEW i \in 1..Len(a \o b)
  PROVE  \/ i \in 1..Len(a) /\ (a \o b)[i] = a[i]
         \/ \E k \in 1..Len(b) : i = Len(a) + k /\ (a \o b)[i] = b[k]
<1>1. Len(a) \in Nat /\ Len(b) \in Nat /\ Len(a \o b) = Len(a) + Len(b)
  BY ConcatProperties, LenProperties
<1>2. CASE i <= Len(a)
  BY <1>1, <1>2, ConcatProperties
<1>3. CASE i > Len(a)
  <2>1. i - Len(a) \in 1..Len(b) /\ i = Len(a) + (i - Len(a)) /\ (a \o b)[i] = b[i - Len(a)]
    BY <1>1, <1>3, ConcatProperties
  <2> QED
    BY <2>1
<1> QED
  BY <1>1, <1>2, <1>3

\* The first list of a promise decides the reactions of its settlement.
LEMMA ReactionsOK ==
  ASSUME NEW s, NEW tg, NEW src, StoreOK(s, tg, src), NEW p \in Promise, NEW st \in Final,
         NEW i \in 1..Len(Reactions(s, p, st))
  PROVE  /\ Reactions(s, p, st)[i] \in Reaction
         /\ i \in 1..Len(s.fq[p]) /\ Reactions(s, p, st)[i].pair = s.fq[p][i].pair
         /\ src[Reactions(s, p, st)[i].pair] = p
         /\ CapOK(Reactions(s, p, st)[i].handler, IF st = "fulfilled" THEN "resolve" ELSE "reject", tg)
<1>1. s.fq[p] \in Seq(Reaction) /\ s.rq[p] \in Seq(Reaction)
  BY DEF StoreOK, StoreType
<1>2. /\ Len(s.fq[p]) = Len(s.rq[p])
      /\ \A k \in 1..Len(s.fq[p]) :
           /\ src[s.fq[p][k].pair] = p /\ s.rq[p][k].pair = s.fq[p][k].pair
           /\ CapOK(s.fq[p][k].handler, "resolve", tg) /\ CapOK(s.rq[p][k].handler, "reject", tg)
  BY DEF StoreOK, ListsOK
<1>3. CASE st = "fulfilled"
  BY <1>1, <1>2, <1>3, ElementOfSeq DEF Reactions
<1>4. CASE st # "fulfilled"
  BY <1>1, <1>2, <1>4, ElementOfSeq DEF Reactions
<1> QED
  BY <1>3, <1>4

\* Settling a pending promise keeps the store consistent.
LEMMA SettledToOK ==
  ASSUME NEW s, NEW tg, NEW src, StoreOK(s, tg, src), NEW p \in Promise, NEW st \in Final,
         NEW v \in Value, st = "fulfilled" => v = PLAIN, s.state[p] = "pending",
         NEW t, NEW n \in 0..Len(Reactions(s, p, st)), NEW J, SettledTo(s, t, p, st, v, n, J)
  PROVE  StoreOK(t, tg, src)
<1>1. s \in StoreType /\ t \in StoreType
  BY DEF StoreOK, SettledTo
<1>2. /\ t.state[p] = st /\ t.result[p] = v
      /\ \A q \in Promise \ {p} : t.state[q] = s.state[q] /\ t.result[q] = s.result[q]
  BY <1>1 DEF SettledTo, StoreType
<1>3. PairsOK(t, tg, src)
  BY <1>2 DEF StoreOK, PairsOK, PairMap, Final
<1>4. ListsOK(t, tg, src)
  <2> USE DEF ListsOK
  <2> TAKE q \in Promise
  <2>1. CASE t.fq[q] = s.fq[q] /\ t.rq[q] = s.rq[q]
    BY <2>1 DEF StoreOK, ListsOK
  <2>2. CASE t.fq[q] = <<>> /\ t.rq[q] = <<>>
    BY <2>2
  <2> QED
    BY <2>1, <2>2 DEF SettledTo
<1>5. JobsOK(t, tg, src)
  <2> SUFFICES ASSUME NEW i \in 1..Len(t.queue)
               PROVE  JobOK(t.queue[i], t, tg, src)
    BY DEF JobsOK
  <2>1. J \in Seq(Job) /\ s.queue \in Seq(Job) /\ t.queue = s.queue \o J
    BY <1>1 DEF SettledTo, StoreType
  <2>2. CASE i \in 1..Len(s.queue) /\ t.queue[i] = s.queue[i]
    <3> DEFINE m == s.queue[i]
    <3>1. m \in Job /\ JobOK(m, s, tg, src)
      BY <2>1, <2>2, ElementOfSeq DEF StoreOK, JobsOK
    <3> HIDE DEF m
    <3>2. ASSUME m.type = "reaction" PROVE src[m.pair] \in Promise \ {p}
      BY <3>1, <3>2, JobParts DEF JobOK, StoreOK, PairMap, Final
    <3>3. JobOK(m, t, tg, src)
      BY <1>2, <3>1, <3>2, JobParts DEF JobOK, Final
    <3> QED
      BY <2>2, <3>3 DEF m
  <2>3. ASSUME NEW k \in 1..Len(J), t.queue[i] = J[k]
        PROVE  JobOK(t.queue[i], t, tg, src)
    <3>1. k \in 1..n /\ k \in 1..Len(Reactions(s, p, st))
      BY <2>3, ReactionsOK, LenProperties DEF SettledTo, StoreType, Reactions
    <3> DEFINE r == Reactions(s, p, st)[k]
    <3>2. /\ r \in Reaction /\ src[r.pair] = p
          /\ CapOK(r.handler, IF st = "fulfilled" THEN "resolve" ELSE "reject", tg)
      BY <3>1, ReactionsOK
    <3>3. t.queue[i] = ReactionOf(r, st, v)
      BY <2>3, <3>1 DEF SettledTo
    <3> HIDE DEF r
    <3>4. /\ t.queue[i].type = "reaction" /\ t.queue[i].rtype = st /\ t.queue[i].pair = r.pair
          /\ t.queue[i].value = v /\ t.queue[i].handler = r.handler
      BY <3>2, <3>3, ReactionOfType
    <3> QED
      BY <1>2, <3>2, <3>4, PromiseAssumption DEF JobOK
  <2>4. \/ i \in 1..Len(s.queue) /\ t.queue[i] = s.queue[i]
        \/ \E k \in 1..Len(J) : t.queue[i] = J[k]
    BY <2>1, ConcatElements
  <2> QED
    BY <2>2, <2>3, <2>4
<1>6. Unwrapped(t)
  BY <1>2 DEF StoreOK, Unwrapped
<1> QED
  BY <1>1, <1>3, <1>4, <1>5, <1>6 DEF StoreOK

\* A settlement seen from outside: promises settle once, jobs are only added.
Evolves(s, t) ==
  /\ \A p \in Promise : \/ t.state[p] = s.state[p] /\ t.result[p] = s.result[p]
                        \/ s.state[p] = "pending" /\ t.state[p] \in Final
  /\ \E J \in Seq(Job) : t.queue = s.queue \o J
  /\ s.lost \subseteq t.lost

LEMMA EvolvesRefl ==
  ASSUME NEW s \in StoreType
  PROVE  Evolves(s, s)
<1>1. s.queue \in Seq(Job)
  BY DEF StoreType
<1>2. <<>> \in Seq(Job) /\ s.queue = s.queue \o <<>>
  BY <1>1, ConcatEmptySeq, EmptySeq
<1> QED
  BY <1>2 DEF Evolves

LEMMA EvolvesTrans ==
  ASSUME NEW s \in StoreType, NEW t \in StoreType, NEW u \in StoreType, Evolves(s, t), Evolves(t, u)
  PROVE  Evolves(s, u)
<1>1. PICK J \in Seq(Job) : t.queue = s.queue \o J
  BY DEF Evolves
<1>2. PICK K \in Seq(Job) : u.queue = t.queue \o K
  BY DEF Evolves
<1>3. s.queue \in Seq(Job)
  BY DEF StoreType
<1>4. J \o K \in Seq(Job) /\ u.queue = s.queue \o (J \o K)
  <2>1. J \o K \in Seq(Job)
    BY ConcatProperties
  <2>2. (s.queue \o J) \o K = s.queue \o (J \o K)
    <3> DEFINE q == s.queue
    <3>1. q \in Seq(Job)
      BY <1>3
    <3> HIDE DEF q
    <3>2. (q \o J) \o K = q \o (J \o K)
      BY <3>1, ConcatAssociative
    <3> QED
      BY <3>2 DEF q
  <2>3. u.queue = (s.queue \o J) \o K
    BY <1>1, <1>2
  <2> QED
    BY <2>1, <2>2, <2>3
<1>5. \A p \in Promise : \/ u.state[p] = s.state[p] /\ u.result[p] = s.result[p]
                         \/ s.state[p] = "pending" /\ u.state[p] \in Final
  BY DEF Evolves, Final
<1> QED
  BY <1>4, <1>5 DEF Evolves

\* Settling keeps the store consistent, whatever memory there is.
LEMMA SettleOK ==
  ASSUME NEW s, NEW tg, NEW src, StoreOK(s, tg, src), NEW p \in Promise, NEW st \in Final,
         NEW v \in Value, st = "fulfilled" => v = PLAIN, NEW room \in Nat
  PROVE  /\ StoreOK(Settle(s, p, st, v, room), tg, src)
         /\ Evolves(s, Settle(s, p, st, v, room))
<1>1. s \in StoreType
  BY DEF StoreOK
<1>2. CASE s.state[p] # "pending"
  BY <1>1, <1>2, EvolvesRefl DEF Settle
<1>3. CASE s.state[p] = "pending"
  <2> DEFINE t == Settle(s, p, st, v, room)
  <2>1. PICK n \in 0..Len(Reactions(s, p, st)), J \in Seq(Job) : SettledTo(s, t, p, st, v, n, J)
    BY <1>1, <1>3, SettleParts
  <2> HIDE DEF t
  <2>2. StoreOK(t, tg, src)
    BY <1>3, <2>1, SettledToOK
  <2>3. Evolves(s, t)
    BY <1>1, <1>3, <2>1 DEF Evolves, SettledTo, StoreType
  <2> QED
    BY <2>2, <2>3 DEF t
<1> QED
  BY <1>2, <1>3

\* So does queueing the adoption of an existing promise or a foreign thenable.
LEMMA AdoptLaterOK ==
  ASSUME NEW s, NEW tg, NEW src, StoreOK(s, tg, src), NEW p \in Promise, s.state[p] # "free",
         NEW v \in Promise \cup {THENABLE}, v \in Promise => s.state[v] # "free", NEW room \in Nat
  PROVE  /\ StoreOK(AdoptLater(s, p, v, room), tg, src)
         /\ Evolves(s, AdoptLater(s, p, v, room))
<1>1. s \in StoreType /\ s.queue \in Seq(Job)
  BY DEF StoreOK, StoreType
<1>2. CASE room = 0
  BY <1>1, <1>2, EvolvesRefl DEF AdoptLater
<1>3. CASE room # 0
  <2> DEFINE m == [type |-> "thenable", promise |-> p, thenable |-> v]
             t == [s EXCEPT !.queue = Append(@, m)]
  <2>1. AdoptLater(s, p, v, room) = t
    BY <1>3 DEF AdoptLater
  <2>2. m \in Job /\ JobOK(m, s, tg, src)
    BY DEF Job, ThenableJob, JobOK
  <2> HIDE DEF m
  <2>3. /\ Append(s.queue, m) \in Seq(Job) /\ Append(s.queue, m) = s.queue \o <<m>>
        /\ Len(Append(s.queue, m)) = Len(s.queue) + 1
        /\ \A i \in 1..Len(s.queue) : Append(s.queue, m)[i] = s.queue[i]
        /\ Append(s.queue, m)[Len(s.queue) + 1] = m
    BY <1>1, <2>2, AppendProperties, AppendIsConcat
  <2>4. /\ t \in StoreType /\ t.queue = Append(s.queue, m) /\ t.state = s.state
        /\ t.result = s.result /\ t.fq = s.fq /\ t.rq = s.rq /\ t.lost = s.lost
    BY <1>1, <2>3 DEF StoreType
  <2> HIDE DEF t
  <2>5. JobsOK(t, tg, src)
    <3> SUFFICES ASSUME NEW i \in 1..Len(t.queue) PROVE JobOK(t.queue[i], t, tg, src)
      BY DEF JobsOK
    <3>1. JobOK(t.queue[i], s, tg, src)
      BY <1>1, <2>2, <2>3, <2>4, LenProperties DEF StoreOK, JobsOK
    <3> QED
      BY <2>4, <3>1 DEF JobOK
  <2>6. StoreOK(t, tg, src)
    BY <2>4, <2>5 DEF StoreOK, PairsOK, ListsOK, Unwrapped
  <2>7. Evolves(s, t)
    <3>1. <<m>> \in Seq(Job)
      BY <2>2
    <3> QED
      BY <2>3, <2>4, <3>1 DEF Evolves
  <2> QED
    BY <2>1, <2>6, <2>7
<1> QED
  BY <1>2, <1>3

\* What a promise may be resolved with: anything but an error object, and only promises
\* that exist.
Resolvable(s, v) == v \in Value /\ (v \in Promise => s.state[v] # "free")
                    /\ (v \notin Promise => v \in {PLAIN, THENABLE, BADTHEN})

\* Resolving keeps the store consistent.
LEMMA ResolveOK ==
  ASSUME NEW s, NEW tg, NEW src, StoreOK(s, tg, src), NEW p \in Promise,
         NEW v, Resolvable(s, v), NEW room \in Nat
  PROVE  /\ StoreOK(Resolve(s, p, v, room), tg, src)
         /\ Evolves(s, Resolve(s, p, v, room))
<1>1. s \in StoreType /\ v \in Value /\ ERR \in Value
  BY DEF StoreOK, Resolvable, Value
<1>2. CASE s.state[p] # "pending" \/ v = BADTHEN
  BY <1>1, <1>2, EvolvesRefl DEF Resolve
<1>3. CASE ~(s.state[p] # "pending" \/ v = BADTHEN) /\ v = p
  <2>1. Resolve(s, p, v, room) = Settle(s, p, "rejected", ERR, room)
    BY <1>3 DEF Resolve
  <2> QED
    BY <1>1, <2>1, SettleOK DEF Final
<1>4. CASE /\ ~(s.state[p] # "pending" \/ v = BADTHEN) /\ v # p
           /\ v \in Promise /\ s.state[v] \in Final
  <2>1. Resolve(s, p, v, room) = Settle(s, p, s.state[v], s.result[v], room)
    BY <1>4 DEF Resolve, Final
  <2>2. s.result[v] \in Value /\ (s.state[v] = "fulfilled" => s.result[v] = PLAIN)
    BY <1>1, <1>4 DEF StoreOK, Unwrapped, StoreType
  <2> QED
    BY <1>4, <2>1, <2>2, SettleOK
<1>5. CASE /\ ~(s.state[p] # "pending" \/ v = BADTHEN) /\ v # p
           /\ ~(v \in Promise /\ s.state[v] \in Final) /\ v \in Promise \cup {THENABLE}
  <2>1. Resolve(s, p, v, room) = AdoptLater(s, p, v, room)
    BY <1>5 DEF Resolve, Final
  <2> QED
    BY <1>5, <2>1, AdoptLaterOK DEF Resolvable
<1>6. CASE /\ ~(s.state[p] # "pending" \/ v = BADTHEN) /\ v # p
           /\ v \notin Promise \cup {THENABLE}
  <2>1. Resolve(s, p, v, room) = Settle(s, p, "fulfilled", v, room) /\ v = PLAIN
    BY <1>6 DEF Resolve, Resolvable
  <2> QED
    BY <1>1, <2>1, SettleOK DEF Final
<1> QED
  BY <1>2, <1>3, <1>4, <1>5, <1>6

\* So does a call of a capability function.
LEMMA CallOK ==
  ASSUME NEW s, NEW src, StoreOK(s, target, src), NEW cap \in Cap, target[cap[1]] # NONE,
         NEW v \in Value, cap[2] = "resolve" => Resolvable(s, v), NEW room \in Nat
  PROVE  /\ StoreOK(Call(s, cap, v, room), target, src)
         /\ Evolves(s, Call(s, cap, v, room))
<1>1. s \in StoreType /\ target[cap[1]] \in Promise
  BY DEF StoreOK, PairMap, Cap
<1>2. CASE cap \in done
  BY <1>1, <1>2, EvolvesRefl DEF Call
<1>3. CASE cap \notin done /\ cap[2] = "resolve"
  <2>1. Call(s, cap, v, room) = Resolve(s, target[cap[1]], v, room)
    BY <1>3 DEF Call
  <2> QED
    BY <1>1, <1>3, <2>1, ResolveOK
<1>4. CASE cap \notin done /\ cap[2] # "resolve"
  <2>1. Call(s, cap, v, room) = Settle(s, target[cap[1]], "rejected", v, room)
    BY <1>4 DEF Call
  <2> QED
    BY <1>1, <2>1, SettleOK DEF Final
<1> QED
  BY <1>2, <1>3, <1>4

\* A promise is created.
LEMMA NewOK ==
  ASSUME NEW s, NEW tg, NEW src, StoreOK(s, tg, src), NEW p \in Promise, s.state[p] = "free"
  PROVE  /\ StoreOK(New(s, p), tg, src)
         /\ New(s, p).state = [s.state EXCEPT ![p] = "pending"]
         /\ New(s, p).result = s.result /\ New(s, p).fq = s.fq /\ New(s, p).rq = s.rq
         /\ New(s, p).queue = s.queue /\ New(s, p).lost = s.lost
<1> DEFINE t == New(s, p)
<1>1. s \in StoreType
  BY DEF StoreOK
<1>2. /\ t \in StoreType /\ t.state = [s.state EXCEPT ![p] = "pending"]
      /\ t.result = s.result /\ t.fq = s.fq /\ t.rq = s.rq
      /\ t.queue = s.queue /\ t.lost = s.lost
  BY <1>1 DEF New, StoreType, States
<1> HIDE DEF t
<1>3. t.state[p] = "pending" /\ \A q \in Promise \ {p} : t.state[q] = s.state[q]
  BY <1>1, <1>2 DEF StoreType
<1>4. PairsOK(t, tg, src) /\ ListsOK(t, tg, src) /\ Unwrapped(t)
  BY <1>2, <1>3 DEF StoreOK, PairsOK, ListsOK, Unwrapped, PairMap
<1>5. JobsOK(t, tg, src)
  <2> SUFFICES ASSUME NEW i \in 1..Len(s.queue) PROVE JobOK(s.queue[i], t, tg, src)
    BY <1>2 DEF JobsOK
  <2> DEFINE m == s.queue[i]
  <2>1. m \in Job /\ JobOK(m, s, tg, src)
    BY <1>1, ElementOfSeq DEF StoreOK, JobsOK, StoreType
  <2> HIDE DEF m
  <2>2. ASSUME m.type = "reaction" PROVE src[m.pair] \in Promise \ {p}
    BY <2>1, <2>2, JobParts DEF JobOK, StoreOK, PairMap, Final
  <2>3. JobOK(m, t, tg, src)
    BY <1>2, <1>3, <2>1, <2>2, JobParts DEF JobOK
  <2> QED
    BY <2>3 DEF m
<1>6. StoreOK(t, tg, src)
  BY <1>2, <1>4, <1>5 DEF StoreOK
<1> QED
  BY <1>2, <1>6 DEF t

\* Pairs are created for existing promises, one of them for a then() call.
Wider(s, tg, tg2) ==
  tg2 \in PairMap /\ \A c \in Pair : /\ tg[c] # NONE => tg2[c] = tg[c]
                                     /\ tg2[c] # NONE => s.state[tg2[c]] # "free"

LEMMA WiderOK ==
  ASSUME NEW s, NEW tg, NEW src, StoreOK(s, tg, src), NEW tg2, Wider(s, tg, tg2),
         NEW src2 \in PairMap,
         \A c \in Pair : \/ src2[c] = src[c]
                         \/ src[c] = NONE /\ tg2[c] # NONE /\ s.state[src2[c]] # "free"
  PROVE  StoreOK(s, tg2, src2)
<1>1. \A h, k : CapOK(h, k, tg) => CapOK(h, k, tg2)
  BY DEF CapOK, Cap, Wider
<1>2. \A c \in Pair : src[c] # NONE => src2[c] = src[c]
  OBVIOUS
<1>3. PairsOK(s, tg2, src2)
  BY DEF StoreOK, PairsOK, Wider
<1>4. ListsOK(s, tg2, src2)
  <2>1. \A p \in Promise : \A i \in 1..Len(s.fq[p]) : s.fq[p][i].pair \in Pair /\ p # NONE
    BY ElementOfSeq, ReactionParts, PromiseAssumption DEF StoreOK, StoreType
  <2> QED
    BY <1>1, <1>2, <2>1 DEF StoreOK, ListsOK
<1>5. JobsOK(s, tg2, src2)
  <2> SUFFICES ASSUME NEW i \in 1..Len(s.queue) PROVE JobOK(s.queue[i], s, tg2, src2)
    BY DEF JobsOK
  <2>1. s.queue[i] \in Job /\ JobOK(s.queue[i], s, tg, src)
    BY ElementOfSeq DEF StoreOK, JobsOK, StoreType
  <2> QED
    BY <1>1, <1>2, <2>1, JobParts DEF JobOK
<1> QED
  BY <1>3, <1>4, <1>5 DEF StoreOK, Wider

\* A then() call: both reactions are stored, or the right one is queued or lost.
ThenTo(s, t, p, hf, hr, c) ==
  /\ t \in StoreType /\ t.state = s.state /\ t.result = s.result
  /\ \/ /\ s.state[p] = "pending" /\ t.queue = s.queue /\ t.lost = s.lost
        /\ t.fq = [s.fq EXCEPT ![p] = Append(@, [handler |-> hf, pair |-> c])]
        /\ t.rq = [s.rq EXCEPT ![p] = Append(@, [handler |-> hr, pair |-> c])]
     \/ /\ s.state[p] \in Final /\ t.fq = s.fq /\ t.rq = s.rq
        /\ \/ /\ t.lost = s.lost
              /\ t.queue = Append(s.queue, ReactionOf([handler |-> IF s.state[p] = "fulfilled" THEN hf ELSE hr,
                                                       pair |-> c], s.state[p], s.result[p]))
           \/ t.queue = s.queue /\ t.lost = s.lost \cup {c}

LEMMA ThenParts ==
  ASSUME NEW s \in StoreType, NEW p \in Promise, s.state[p] # "free", NEW hf \in Handler,
         NEW hr \in Handler, NEW c \in Pair, NEW room \in Nat
  PROVE  ThenTo(s, ThenReactions(s, p, hf, hr, c, room), p, hf, hr, c)
<1>1. [handler |-> hf, pair |-> c] \in Reaction /\ [handler |-> hr, pair |-> c] \in Reaction
  BY DEF Reaction
<1>2. CASE s.state[p] = "pending"
  <2> DEFINE F == Append(s.fq[p], [handler |-> hf, pair |-> c])
             R == Append(s.rq[p], [handler |-> hr, pair |-> c])
             t == [s EXCEPT !.fq[p] = F, !.rq[p] = R]
  <2>1. F \in Seq(Reaction) /\ R \in Seq(Reaction)
    BY <1>1, AppendProperties DEF StoreType
  <2>2. ThenReactions(s, p, hf, hr, c, room) = t
    BY <1>2 DEF ThenReactions
  <2> HIDE DEF F, R
  <2>3. /\ t \in StoreType /\ t.state = s.state /\ t.result = s.result /\ t.queue = s.queue
        /\ t.lost = s.lost /\ t.fq = [s.fq EXCEPT ![p] = F] /\ t.rq = [s.rq EXCEPT ![p] = R]
    BY <2>1 DEF StoreType
  <2> QED
    BY <1>2, <2>2, <2>3 DEF ThenTo, F, R
<1>3. CASE s.state[p] # "pending"
  <2>1. s.state[p] \in Final /\ s.result[p] \in Value
    BY <1>3 DEF StoreType, States, Final
  <2> DEFINE r == [handler |-> IF s.state[p] = "fulfilled" THEN hf ELSE hr, pair |-> c]
             m == ReactionOf(r, s.state[p], s.result[p])
             t == Enqueue(s, <<m>>, room)
  <2>2. r \in Reaction
    BY <1>1
  <2>3. m \in Job /\ m.pair = c
    BY <2>1, <2>2, ReactionOfType
  <2>4. ThenReactions(s, p, hf, hr, c, room) = t
    BY <1>3 DEF ThenReactions
  <2> HIDE DEF m
  <2>5. <<m>> \in Seq(Job) /\ Len(<<m>>) = 1 /\ <<m>>[1] = m
    BY <2>3
  <2> DEFINE J == <<m>>
  <2>6. PICK n \in 0..1 :
          /\ t \in StoreType /\ t.queue = s.queue \o SubSeq(<<m>>, 1, n)
          /\ t.lost = s.lost \cup {<<m>>[i].pair : i \in (n + 1)..1}
          /\ t.state = s.state /\ t.result = s.result /\ t.fq = s.fq /\ t.rq = s.rq
    <3>1. J \in Seq(Job) /\ Len(J) = 1 /\ \A i \in 1..Len(J) : J[i].pair \in Pair
      BY <2>3, <2>5
    <3> HIDE DEF J
    <3>2. PICK n \in 0..Len(J) : EnqueuedTo(s, Enqueue(s, J, room), J, room, n)
      BY <3>1, EnqueueParts
    <3>3. EnqueuedTo(s, t, J, room, n) /\ n \in 0..1
      BY <3>1, <3>2 DEF J
    <3> HIDE DEF t
    <3> QED
      BY <3>1, <3>3 DEF EnqueuedTo, J
  <2> HIDE DEF t, r
  <2>7. s.queue \in Seq(Job)
    BY DEF StoreType
  <2>8. CASE n = 0
    <3>1. SubSeq(<<m>>, 1, 0) = <<>>
      BY SubSeqEmpty
    <3>2. s.queue \o <<>> = s.queue
      BY <2>7, ConcatEmptySeq
    <3>3. t.queue = s.queue
      BY <2>6, <2>8, <3>1, <3>2
    <3>4. {<<m>>[i].pair : i \in (0 + 1)..1} = {c}
      BY <2>3, <2>5
    <3> QED
      BY <2>1, <2>4, <2>6, <2>8, <3>3, <3>4 DEF ThenTo
  <2>9. CASE n = 1
    <3>1. SubSeq(<<m>>, 1, 1) = <<m>>
      BY <2>5, SubSeqFull
    <3>2. s.queue \o <<m>> = Append(s.queue, m)
      BY <2>3, <2>7, AppendIsConcat
    <3>3. t.queue = Append(s.queue, m)
      BY <2>6, <2>9, <3>1, <3>2
    <3>4. t.lost = s.lost
      BY <2>6, <2>9
    <3> QED
      BY <2>1, <2>4, <2>6, <3>3, <3>4 DEF ThenTo, m, r
  <2> QED
    BY <2>8, <2>9
<1> QED
  BY <1>2, <1>3

\* A then() call with a pair of its own keeps the store consistent.
LEMMA ThenOK ==
  ASSUME NEW s, NEW tg, NEW src, StoreOK(s, tg, src), NEW p \in Promise, s.state[p] # "free",
         NEW hf \in Handler, NEW hr \in Handler, CapOK(hf, "resolve", tg), CapOK(hr, "reject", tg),
         NEW c \in Pair, src[c] = p, NEW t, ThenTo(s, t, p, hf, hr, c)
  PROVE  StoreOK(t, tg, src)
<1>1. s \in StoreType /\ t \in StoreType /\ t.state = s.state /\ t.result = s.result
  BY DEF StoreOK, ThenTo
<1>2. PairsOK(t, tg, src) /\ Unwrapped(t)
  BY <1>1 DEF StoreOK, PairsOK, Unwrapped
<1>3. ListsOK(t, tg, src)
  <2> SUFFICES ASSUME NEW q \in Promise
               PROVE  /\ Len(t.fq[q]) = Len(t.rq[q])
                      /\ \A i \in 1..Len(t.fq[q]) :
                           /\ src[t.fq[q][i].pair] = q /\ t.rq[q][i].pair = t.fq[q][i].pair
                           /\ CapOK(t.fq[q][i].handler, "resolve", tg)
                           /\ CapOK(t.rq[q][i].handler, "reject", tg)
    BY DEF ListsOK
  <2>1. CASE t.fq[q] = s.fq[q] /\ t.rq[q] = s.rq[q]
    BY <2>1 DEF StoreOK, ListsOK
  <2>2. CASE /\ q = p /\ t.fq[q] = Append(s.fq[q], [handler |-> hf, pair |-> c])
             /\ t.rq[q] = Append(s.rq[q], [handler |-> hr, pair |-> c])
    <3>1. /\ [handler |-> hf, pair |-> c] \in Reaction /\ [handler |-> hr, pair |-> c] \in Reaction
          /\ s.fq[q] \in Seq(Reaction) /\ s.rq[q] \in Seq(Reaction)
      BY <1>1 DEF Reaction, StoreType
    <3>2. /\ Len(t.fq[q]) = Len(s.fq[q]) + 1 /\ Len(t.rq[q]) = Len(s.rq[q]) + 1
          /\ \A i \in 1..Len(s.fq[q]) : t.fq[q][i] = s.fq[q][i]
          /\ \A i \in 1..Len(s.rq[q]) : t.rq[q][i] = s.rq[q][i]
          /\ t.fq[q][Len(s.fq[q]) + 1] = [handler |-> hf, pair |-> c]
          /\ t.rq[q][Len(s.rq[q]) + 1] = [handler |-> hr, pair |-> c]
          /\ Len(s.fq[q]) \in Nat
      BY <2>2, <3>1, AppendProperties, LenProperties
    <3>3. /\ Len(s.fq[q]) = Len(s.rq[q])
          /\ \A i \in 1..Len(s.fq[q]) :
               /\ src[s.fq[q][i].pair] = q /\ s.rq[q][i].pair = s.fq[q][i].pair
               /\ CapOK(s.fq[q][i].handler, "resolve", tg) /\ CapOK(s.rq[q][i].handler, "reject", tg)
      BY DEF StoreOK, ListsOK
    <3>4. src[c] = q /\ CapOK(hf, "resolve", tg) /\ CapOK(hr, "reject", tg)
      BY <2>2
    <3>5. ASSUME NEW i \in 1..Len(t.fq[q])
          PROVE  /\ src[t.fq[q][i].pair] = q /\ t.rq[q][i].pair = t.fq[q][i].pair
                 /\ CapOK(t.fq[q][i].handler, "resolve", tg)
                 /\ CapOK(t.rq[q][i].handler, "reject", tg)
      <4>1. CASE i = Len(s.fq[q]) + 1
        <5>1. t.fq[q][i] = [handler |-> hf, pair |-> c] /\ t.rq[q][i] = [handler |-> hr, pair |-> c]
          BY <3>2, <3>3, <4>1
        <5>2. /\ t.fq[q][i].pair = c /\ t.fq[q][i].handler = hf
              /\ t.rq[q][i].pair = c /\ t.rq[q][i].handler = hr
          BY <5>1
        <5> QED
          BY <3>4, <5>2
      <4>2. CASE i \in 1..Len(s.fq[q])
        BY <3>2, <3>3, <4>2
      <4>3. i = Len(s.fq[q]) + 1 \/ i \in 1..Len(s.fq[q])
        BY <3>2
      <4> QED
        BY <4>1, <4>2, <4>3, Zenon
    <3> QED
      BY <3>2, <3>3, <3>5
  <2>3. \/ t.fq[q] = s.fq[q] /\ t.rq[q] = s.rq[q]
        \/ /\ q = p /\ t.fq[q] = Append(s.fq[q], [handler |-> hf, pair |-> c])
           /\ t.rq[q] = Append(s.rq[q], [handler |-> hr, pair |-> c])
    BY <1>1 DEF ThenTo, StoreType
  <2> QED
    BY <2>1, <2>2, <2>3
<1>4. JobsOK(t, tg, src)
  <2> SUFFICES ASSUME NEW i \in 1..Len(t.queue) PROVE JobOK(t.queue[i], s, tg, src)
    BY <1>1 DEF JobsOK, JobOK
  <2>1. CASE t.queue = s.queue
    BY <2>1 DEF StoreOK, JobsOK
  <2>2. CASE s.state[p] \in Final /\ t.queue # s.queue
    <3> DEFINE r == [handler |-> IF s.state[p] = "fulfilled" THEN hf ELSE hr, pair |-> c]
               m == ReactionOf(r, s.state[p], s.result[p])
    <3>1. t.queue = Append(s.queue, m) /\ s.queue \in Seq(Job)
      BY <1>1, <2>2 DEF ThenTo, StoreType
    <3>2. r \in Reaction /\ s.result[p] \in Value
      BY <1>1 DEF Reaction, StoreType
    <3>3. /\ m \in Job /\ m.type = "reaction" /\ m.rtype = s.state[p] /\ m.pair = c
          /\ m.value = s.result[p] /\ m.handler = r.handler
      BY <2>2, <3>2, ReactionOfType
    <3>4. JobOK(m, s, tg, src)
      BY <2>2, <3>3, PromiseAssumption DEF JobOK, Final
    <3> HIDE DEF m
    <3>5. t.queue[i] = m \/ (i \in 1..Len(s.queue) /\ t.queue[i] = s.queue[i])
      BY <3>1, <3>3, AppendProperties, LenProperties
    <3> QED
      BY <3>4, <3>5 DEF StoreOK, JobsOK
  <2> QED
    BY <2>1, <2>2 DEF ThenTo
<1> QED
  BY <1>1, <1>2, <1>3, <1>4 DEF StoreOK

-----------------------------------------------------------------------------
(* Sequences of frames, and the numbers of new promises and pairs.          *)

LEMMA PushFrame ==
  ASSUME NEW f \in Frame, NEW fs \in Seq(Frame)
  PROVE  /\ <<f>> \o fs \in Seq(Frame) /\ Len(<<f>> \o fs) = Len(fs) + 1 /\ Len(fs) \in Nat
         /\ (<<f>> \o fs)[1] = f /\ \A i \in 1..Len(fs) : (<<f>> \o fs)[i + 1] = fs[i]
         /\ \A i \in 1..Len(<<f>> \o fs) :
              i = 1 \/ (i - 1 \in 1..Len(fs) /\ (<<f>> \o fs)[i] = fs[i - 1])
<1>1. <<f>> \in Seq(Frame) /\ Len(<<f>>) = 1 /\ <<f>>[1] = f /\ Len(fs) \in Nat
  BY LenProperties
<1>2. /\ <<f>> \o fs \in Seq(Frame) /\ Len(<<f>> \o fs) = 1 + Len(fs)
      /\ \A i \in 1..1 + Len(fs) : (<<f>> \o fs)[i] = IF i <= 1 THEN <<f>>[i] ELSE fs[i - 1]
  BY <1>1, ConcatProperties
<1> QED
  BY <1>1, <1>2

LEMMA PopFrame ==
  ASSUME NEW fs \in Seq(Frame), fs # <<>>
  PROVE  /\ Tail(fs) \in Seq(Frame) /\ Len(Tail(fs)) = Len(fs) - 1 /\ Len(fs) \in Nat \ {0}
         /\ fs[1] \in Frame
         /\ \A i \in 1..Len(Tail(fs)) : i + 1 \in 1..Len(fs) /\ Tail(fs)[i] = fs[i + 1]
<1>1. Len(fs) \in Nat \ {0}
  BY EmptySeq
<1>2. /\ Tail(fs) \in Seq(Frame) /\ Len(Tail(fs)) = Len(fs) - 1
      /\ \A i \in 1..Len(Tail(fs)) : Tail(fs)[i] = fs[i + 1]
  BY HeadTailProperties
<1>3. fs[1] \in Frame
  BY <1>1, ElementOfSeq
<1> QED
  BY <1>1, <1>2, <1>3

\* What a frame holds.
LEMMA FrameParts ==
  ASSUME NEW f \in Frame
  PROVE  /\ f.kind \in {"drain", "ctor", "handler", "then"}
         /\ f.kind = "ctor" => f.promise \in Promise
         /\ f.kind \in {"handler", "then"} => f.pair \in Pair /\ f.pos \in Nat
BY DEF Frame

\* The next promise and the next pair are the first free ones.
LEMMA NextPromiseIs ==
  ASSUME TypeOK, NEW n \in 0..MaxPromise, CreatedTo(Store, n)
  PROVE  NextPromise = n + 1
<1>1. \A p \in Promise : state[p] # "free" <=> p <= n
  BY DEF CreatedTo, Store
<1>2. {p \in Promise : state[p] # "free"} = 1..n
  BY <1>1, PromiseAssumption DEF Promise
<1>3. Cardinality(1..n) = n
  BY FS_Interval
<1>4. Cardinality({p \in Promise : state[p] # "free"}) = n
  BY <1>2, <1>3, Zenon
<1> QED
  BY <1>4, PromiseAssumption DEF NextPromise

LEMMA NextPairIs ==
  ASSUME TypeOK, NEW n \in 0..MaxPair, PairsTo(target, n)
  PROVE  NextPair = n + 1
<1>1. {c \in Pair : target[c] # NONE} = 1..n
  BY PromiseAssumption DEF PairsTo, Pair
<1>2. Cardinality(1..n) = n
  BY FS_Interval
<1>3. Cardinality({c \in Pair : target[c] # NONE}) = n
  BY <1>1, <1>2, Zenon
<1> QED
  BY <1>3, PromiseAssumption DEF NextPair

\* They are fresh when the bounds leave room.
LEMMA Fresh ==
  ASSUME BaseInv
  PROVE  /\ NextPromise \in Nat /\ NextPair \in Nat \ {0}
         /\ CanCreate(1, 0) => NextPromise \in Promise /\ state[NextPromise] = "free"
         /\ CanCreate(1, 1) => NextPromise \in Promise /\ state[NextPromise] = "free"
         /\ CanCreate(1, 2) => NextPromise \in Promise /\ state[NextPromise] = "free"
         /\ CanCreate(0, 1) => NextPair \in Pair
         /\ CanCreate(1, 1) => NextPair \in Pair
         /\ CanCreate(1, 2) => NextPair \in Pair /\ NextPair + 1 \in Pair
         /\ \A c \in Pair : target[c] # NONE <=> c < NextPair
         /\ \A p \in Promise : state[p] # "free" <=> p < NextPromise
<1>1. PICK n \in 0..MaxPromise : CreatedTo(Store, n)
  BY DEF BaseInv, ContextOK
<1>2. PICK k \in 0..MaxPair : PairsTo(target, k)
  BY DEF BaseInv, ContextOK
<1>3. NextPromise = n + 1 /\ NextPair = k + 1
  BY <1>1, <1>2, NextPromiseIs, NextPairIs DEF BaseInv
<1>4. /\ \A c \in Pair : target[c] # NONE <=> c < NextPair
      /\ \A p \in Promise : state[p] # "free" <=> p < NextPromise
  BY <1>1, <1>2, <1>3, PromiseAssumption DEF CreatedTo, PairsTo, Store, Pair, Promise
<1> QED
  BY <1>3, <1>4, PromiseAssumption DEF CanCreate, Pair, Promise

\* Promises and pairs that are created one after the other stay numbered in order.
LEMMA StillNumbered ==
  ASSUME BaseInv, NEW a \in 0..1, NEW b \in 0..2,
         NextPromise + a <= MaxPromise + 1, NextPair + b <= MaxPair + 1,
         \A p \in Promise : state'[p] # "free" <=> p < NextPromise + a,
         \A c \in Pair : target'[c] # NONE <=> c < NextPair + b
  PROVE  /\ \E n \in 0..MaxPromise : CreatedTo(Store', n)
         /\ \E n \in 0..MaxPair : PairsTo(target', n)
<1>1. PICK n \in 0..MaxPromise : CreatedTo(Store, n)
  BY DEF BaseInv, ContextOK
<1>2. PICK k \in 0..MaxPair : PairsTo(target, k)
  BY DEF BaseInv, ContextOK
<1>3. NextPromise = n + 1 /\ NextPair = k + 1
  BY <1>1, <1>2, NextPromiseIs, NextPairIs DEF BaseInv
<1>4. n + a \in 0..MaxPromise /\ CreatedTo(Store', n + a)
  BY <1>3, PromiseAssumption DEF CreatedTo, Store, Promise
<1>5. k + b \in 0..MaxPair /\ PairsTo(target', k + b)
  BY <1>3, PromiseAssumption DEF PairsTo, Pair
<1> QED
  BY <1>4, <1>5

-----------------------------------------------------------------------------
(* What a step has to show.                                                 *)

\* The stored state becomes t, of whose queue the part that is left is kept.
LEMMA BecomesOK ==
  ASSUME NEW t, StoreOK(t, target', source'), Becomes(t), queue' \in Seq(Job),
         \A i \in 1..Len(queue') : \E j \in 1..Len(t.queue) : queue'[i] = t.queue[j]
  PROVE  /\ StoreOK(Store', target', source')
         /\ state' \in [Promise -> States] /\ result' \in [Promise -> Value]
         /\ fq' \in [Promise -> Seq(Reaction)] /\ rq' \in [Promise -> Seq(Reaction)]
         /\ lost' \subseteq Pair
<1> DEFINE u == Store'
<1>1. /\ t \in StoreType /\ state' = t.state /\ result' = t.result /\ fq' = t.fq
      /\ rq' = t.rq /\ lost' = t.lost
  BY DEF StoreOK, Becomes
<1>2. /\ u.state = t.state /\ u.result = t.result /\ u.fq = t.fq /\ u.rq = t.rq
      /\ u.lost = t.lost /\ u.queue = queue' /\ u \in StoreType
  BY <1>1 DEF StoreType, Store
<1> HIDE DEF u
<1>3. PairsOK(u, target', source') /\ ListsOK(u, target', source') /\ Unwrapped(u)
  BY <1>2 DEF StoreOK, PairsOK, ListsOK, Unwrapped
<1>4. JobsOK(u, target', source')
  <2> SUFFICES ASSUME NEW i \in 1..Len(queue') PROVE JobOK(queue'[i], u, target', source')
    BY <1>2 DEF JobsOK
  <2>1. PICK j \in 1..Len(t.queue) : queue'[i] = t.queue[j]
    OBVIOUS
  <2>2. JobOK(t.queue[j], t, target', source')
    BY DEF StoreOK, JobsOK
  <2> QED
    BY <1>2, <2>1, <2>2 DEF JobOK
<1>5. StoreOK(u, target', source')
  BY <1>2, <1>3, <1>4 DEF StoreOK
<1> QED
  BY <1>1, <1>5 DEF u, StoreType

\* A job that is done leaves the queue, or a garbage next pointer cuts it anywhere.
LEMMA UnlinkOK ==
  ASSUME NEW t \in StoreType, NEW pos \in Nat, unlinked \in Nat, Unlink(t, pos),
         pos = unlinked + 1 => t.queue # <<>>
  PROVE  /\ queue' \in Seq(Job) /\ unlinked' = unlinked + 1 /\ unlinked' \in Nat
         /\ \A i \in 1..Len(queue') : \E j \in 1..Len(t.queue) : queue'[i] = t.queue[j]
         /\ queue' # <<>> => t.queue # <<>>
<1> DEFINE q == t.queue
<1>1. q \in Seq(Job) /\ Len(q) \in Nat
  BY LenProperties DEF StoreType
<1>2. unlinked' = unlinked + 1
  BY DEF Unlink
<1>3. CASE pos = unlinked + 1
  <2>1. queue' = Tail(q) /\ q # <<>>
    BY <1>3 DEF Unlink, UnlinkFirst
  <2> HIDE DEF q
  <2>2. Tail(q) \in Seq(Job) /\ Len(Tail(q)) = Len(q) - 1 /\ \A i \in 1..Len(Tail(q)) : Tail(q)[i] = q[i + 1]
    BY <1>1, <2>1, HeadTailProperties
  <2>3. \A i \in 1..Len(queue') : i + 1 \in 1..Len(q) /\ queue'[i] = q[i + 1]
    BY <1>1, <2>1, <2>2
  <2> QED
    BY <1>2, <2>1, <2>2, <2>3 DEF q
<1>4. CASE pos # unlinked + 1
  <2>1. PICK n \in 0..Len(q) : queue' = SubSeq(q, n + 1, Len(q))
    BY <1>4 DEF Unlink, UnlinkFirst
  <2> HIDE DEF q
  <2>2. /\ SubSeq(q, n + 1, Len(q)) \in Seq(Job)
        /\ Len(SubSeq(q, n + 1, Len(q))) = Len(q) - n
        /\ \A i \in 1..Len(q) - n : SubSeq(q, n + 1, Len(q))[i] = q[i + n]
    BY <1>1, SubSeqProperties
  <2>3. \A i \in 1..Len(queue') : i + n \in 1..Len(q) /\ queue'[i] = q[i + n]
    BY <1>1, <2>1, <2>2
  <2>4. queue' # <<>> => q # <<>>
    <3>1. q = <<>> => Len(queue') = 0
      BY <1>1, <2>1, <2>2
    <3> QED
      BY <2>1, <2>2, <3>1, EmptySeq
  <2> QED
    BY <1>2, <2>1, <2>2, <2>3, <2>4 DEF q
<1> QED
  BY <1>3, <1>4

\* Frames stay right when promises and pairs stay, and a job that is not unlinked stays
\* in the queue.
LEMMA ContextStep ==
  ASSUME BaseInv, TypeOK', NEW a \in 0..1, NEW b \in 0..2,
         NextPromise + a <= MaxPromise + 1, NextPair + b <= MaxPair + 1,
         \A p \in Promise : state'[p] # "free" <=> p < NextPromise + a,
         \A c \in Pair : target'[c] # NONE <=> c < NextPair + b,
         \A p \in known' : p \in known \/ state'[p] # "free",
         \A c \in held' : c \in held \/ target'[c] # NONE,
         (unlinked' = unlinked /\ (queue # <<>> => queue' # <<>>)) \/ unlinked' = unlinked + 1,
         \A i \in 1..Len(frames') : \/ FrameOK(frames'[i], state', target', unlinked', queue')
                                    \/ \E j \in 1..Len(frames) : frames'[i] = frames[j]
  PROVE  ContextOK'
<1>1. /\ \E n \in 0..MaxPromise : CreatedTo(Store', n)
      /\ \E n \in 0..MaxPair : PairsTo(target', n)
  BY StillNumbered
<1>2. /\ \A p \in Promise : state[p] # "free" => state'[p] # "free"
      /\ \A c \in Pair : target[c] # NONE => target'[c] # NONE
  BY Fresh, PromiseAssumption DEF Promise, Pair
<1>3. /\ \A p \in known' : state'[p] # "free"
      /\ \A c \in held' : target'[c] # NONE
  BY <1>2 DEF BaseInv, ContextOK, TypeOK
<1>4. ASSUME NEW i \in 1..Len(frames')
      PROVE  FrameOK(frames'[i], state', target', unlinked', queue')
  <2>1. SUFFICES ASSUME NEW j \in 1..Len(frames), frames'[i] = frames[j]
                 PROVE  FrameOK(frames'[i], state', target', unlinked', queue')
    OBVIOUS
  <2> DEFINE f == frames[j]
  <2>2. f \in Frame /\ FrameOK(f, state, target, unlinked, queue)
    BY ElementOfSeq DEF BaseInv, ContextOK, TypeOK
  <2>3. unlinked \in Nat
    BY DEF BaseInv, TypeOK
  <2> HIDE DEF f
  <2>4. FrameOK(f, state', target', unlinked', queue')
    BY <1>2, <2>2, <2>3, FrameParts DEF FrameOK
  <2> QED
    BY <2>1, <2>4 DEF f
<1> QED
  BY <1>1, <1>3, <1>4 DEF ContextOK

\* An operation that creates nothing leaves the numbering alone.
LEMMA NothingCreated ==
  ASSUME BaseInv, NEW t, Evolves(Store, t), state' = t.state, target' = target
  PROVE  /\ NextPromise + 0 <= MaxPromise + 1 /\ NextPair + 0 <= MaxPair + 1
         /\ \A p \in Promise : state'[p] # "free" <=> p < NextPromise + 0
         /\ \A c \in Pair : target'[c] # NONE <=> c < NextPair + 0
<1>1. PICK n \in 0..MaxPromise : CreatedTo(Store, n)
  BY DEF BaseInv, ContextOK
<1>2. PICK k \in 0..MaxPair : PairsTo(target, k)
  BY DEF BaseInv, ContextOK
<1>3. NextPromise = n + 1 /\ NextPair = k + 1
  BY <1>1, <1>2, NextPromiseIs, NextPairIs DEF BaseInv
<1>4. \A p \in Promise : state'[p] # "free" <=> state[p] # "free"
  BY DEF Evolves, Store, Final
<1> QED
  BY <1>3, <1>4, Fresh, PromiseAssumption

\* The notifier is called for the first microtask, and draining goes on.
LEMMA WakeStep ==
  ASSUME TypeOK, NoLostWakeup, NEW t, Becomes(t), queue' # <<>> => t.queue # <<>>,
         Draining => Draining'
  PROVE  NoLostWakeup'
BY DEF NoLostWakeup, Becomes, Wakes

\* The queue of an intermediate result begins with the old queue.
LEMMA EvolvesQueue ==
  ASSUME NEW s \in StoreType, NEW t \in StoreType, Evolves(s, t)
  PROVE  /\ s.queue # <<>> => t.queue # <<>>
         /\ Len(s.queue) \in Nat /\ Len(t.queue) \in Nat /\ Len(s.queue) <= Len(t.queue)
         /\ \A i \in 1..Len(s.queue) : t.queue[i] = s.queue[i]
         /\ \A p \in Promise : s.state[p] = "free" <=> t.state[p] = "free"
<1>1. PICK J \in Seq(Job) : t.queue = s.queue \o J
  BY DEF Evolves
<1>2. s.queue \in Seq(Job)
  BY DEF StoreType
<1>3. /\ Len(s.queue) \in Nat /\ Len(J) \in Nat /\ Len(t.queue) = Len(s.queue) + Len(J)
      /\ \A i \in 1..Len(s.queue) : t.queue[i] = s.queue[i]
  BY <1>1, <1>2, ConcatProperties, LenProperties
<1>4. s.queue # <<>> => t.queue # <<>>
  BY <1>2, <1>3, EmptySeq
<1>5. \A p \in Promise : s.state[p] = "free" <=> t.state[p] = "free"
  BY DEF Evolves, Final
<1>6. Len(t.queue) \in Nat /\ Len(s.queue) <= Len(t.queue)
  BY <1>3
<1> QED
  BY <1>3, <1>4, <1>5, <1>6

\* What a microtask that is done, or a call that queues some, does to the queue.
QueueStep(t) ==
  \/ unlinked' = unlinked /\ queue' = t.queue
  \/ \E pos \in Nat : Unlink(t, pos) /\ (pos = unlinked + 1 => queue # <<>>)

\* A step that creates a promises and b pairs.
Creates(a, b) ==
  /\ NextPromise + a <= MaxPromise + 1 /\ NextPair + b <= MaxPair + 1
  /\ \A p \in Promise : state'[p] # "free" <=> p < NextPromise + a
  /\ \A c \in Pair : target'[c] # NONE <=> c < NextPair + b

LEMMA HeadUnlinked ==
  ASSUME TypeOK, queue # <<>>, NEW t, Unlink(t, unlinked + 1)
  PROVE  QueueStep(t)
<1>1. unlinked + 1 \in Nat
  BY DEF TypeOK
<1> QED
  BY <1>1, Zenon DEF QueueStep

\* Every operation stores an intermediate result.
LEMMA StepOK ==
  ASSUME BaseInv, NoLostWakeup, NEW t, StoreOK(t, target', source'), Becomes(t),
         queue # <<>> => t.queue # <<>>, QueueStep(t),
         NEW a \in 0..1, NEW b \in 0..2, Creates(a, b),
         done' \subseteq Cap, held' \subseteq Pair, known' \subseteq Promise,
         \A p \in known' : p \in known \/ state'[p] # "free",
         \A c \in held' : c \in held \/ target'[c] # NONE,
         frames' \in Seq(Frame), ops' \in 0..MaxOps, ran' \in Seq(Pair),
         Draining => Draining',
         \A i \in 1..Len(frames') : \/ FrameOK(frames'[i], state', target', unlinked', queue')
                                    \/ \E j \in 1..Len(frames) : frames'[i] = frames[j]
  PROVE  BaseInv' /\ NoLostWakeup'
<1>1. t \in StoreType /\ unlinked \in Nat /\ wake \in BOOLEAN
  BY DEF StoreOK, BaseInv, TypeOK
<1>2. /\ queue' \in Seq(Job) /\ unlinked' \in Nat
      /\ (unlinked' = unlinked /\ queue' = t.queue) \/ unlinked' = unlinked + 1
      /\ \A i \in 1..Len(queue') : \E j \in 1..Len(t.queue) : queue'[i] = t.queue[j]
      /\ queue' # <<>> => t.queue # <<>>
  <2>1. CASE unlinked' = unlinked /\ queue' = t.queue
    BY <1>1, <2>1 DEF StoreType
  <2>2. ASSUME NEW pos \in Nat, Unlink(t, pos), pos = unlinked + 1 => queue # <<>>
        PROVE  <1>2!:
    BY <1>1, <2>2, UnlinkOK
  <2> QED
    BY <2>1, <2>2 DEF QueueStep
<1>3. /\ StoreOK(Store', target', source')
      /\ state' \in [Promise -> States] /\ result' \in [Promise -> Value]
      /\ fq' \in [Promise -> Seq(Reaction)] /\ rq' \in [Promise -> Seq(Reaction)]
      /\ lost' \subseteq Pair
  BY <1>2, BecomesOK
<1>4. wake' \in BOOLEAN
  BY <1>1 DEF Becomes
<1>5. TypeOK'
  BY <1>2, <1>3, <1>4 DEF TypeOK, States, StoreOK, PairMap
<1>6. ContextOK'
  BY <1>2, <1>5, ContextStep DEF Creates
<1>7. NoLostWakeup'
  BY <1>2, WakeStep DEF BaseInv
<1> QED
  BY <1>3, <1>5, <1>6, <1>7 DEF BaseInv

\* An operation that creates nothing.
LEMMA EvolveStep ==
  ASSUME BaseInv, NoLostWakeup, NEW t, StoreOK(t, target, source), Evolves(Store, t), Becomes(t),
         QueueStep(t), target' = target, source' = source,
         done' \subseteq Cap, held' = held, known' \subseteq Promise,
         \A p \in known' : p \in known \/ state'[p] # "free",
         frames' \in Seq(Frame), ops' \in 0..MaxOps, ran' \in Seq(Pair),
         Draining => Draining',
         \A i \in 1..Len(frames') : \/ FrameOK(frames'[i], state', target', unlinked', queue')
                                    \/ \E j \in 1..Len(frames) : frames'[i] = frames[j]
  PROVE  BaseInv' /\ NoLostWakeup'
<1>1. Creates(0, 0)
  BY NothingCreated DEF Creates, Becomes
<1>2. Store \in StoreType /\ t \in StoreType /\ Store.queue = queue
  BY DEF BaseInv, StoreOK, Store
<1>3. queue # <<>> => t.queue # <<>>
  BY <1>2, EvolvesQueue
<1>4. held' \subseteq Pair
  BY DEF BaseInv, TypeOK
<1>5. StoreOK(t, target', source')
  OBVIOUS
<1>6. 0 \in 0..1 /\ 0 \in 0..2
  OBVIOUS
<1> QED
  BY <1>1, <1>3, <1>4, <1>5, <1>6, StepOK

\* Popping a frame that is not a drain.
LEMMA PopKeeps ==
  ASSUME TypeOK, frames # <<>>, frames' = Tail(frames)
  PROVE  /\ frames[1] \in Frame /\ frames' \in Seq(Frame)
         /\ \A i \in 1..Len(frames') : \E j \in 1..Len(frames) : frames'[i] = frames[j]
         /\ frames[1].kind # "drain" => (Draining => Draining')
         /\ 1 \in 1..Len(frames)
<1>1. /\ frames' \in Seq(Frame) /\ Len(frames') = Len(frames) - 1 /\ Len(frames) \in Nat \ {0}
      /\ frames[1] \in Frame
      /\ \A i \in 1..Len(frames') : i + 1 \in 1..Len(frames) /\ frames'[i] = frames[i + 1]
  BY PopFrame DEF TypeOK
<1>2. ASSUME frames[1].kind # "drain", NEW i \in 1..Len(frames), frames[i].kind = "drain"
      PROVE  i - 1 \in 1..Len(frames') /\ frames'[i - 1].kind = "drain"
  <2>1. i - 1 \in 1..Len(frames')
    BY <1>1, <1>2
  <2>2. frames'[i - 1] = frames[i]
    BY <1>1, <2>1
  <2> QED
    BY <1>2, <2>1, <2>2
<1> QED
  BY <1>1, <1>2 DEF Draining

-----------------------------------------------------------------------------
(* The steps that create nothing.                                           *)

\* Facts every step starts from.
LEMMA Facts ==
  ASSUME BaseInv
  PROVE  /\ TypeOK /\ StoreOK(Store, target, source) /\ Store \in StoreType
         /\ Store.queue = queue /\ Store.state = state /\ Store.result = result
         /\ Store.fq = fq /\ Store.rq = rq /\ Store.lost = lost
         /\ Evolves(Store, Store)
         /\ \A i \in 1..Len(frames) : \E j \in 1..Len(frames) : frames[i] = frames[j]
<1>1. TypeOK /\ StoreOK(Store, target, source)
  BY DEF BaseInv
<1>2. Store \in StoreType
  BY <1>1 DEF StoreOK
<1> QED
  BY <1>1, <1>2, EvolvesRefl DEF Store

LEMMA CtorReturnOK ==
  ASSUME BaseInv, NoLostWakeup, NEW throws \in BOOLEAN, CtorReturn(throws)
  PROVE  BaseInv' /\ NoLostWakeup'
<1> DEFINE p == frames[1].promise
           s == IF throws THEN Settle(Store, p, "rejected", ERR, 0) ELSE Store
<1>1. /\ frames # <<>> /\ frames[1].kind = "ctor" /\ frames' = Tail(frames)
      /\ Becomes(s) /\ queue' = s.queue /\ known' = known \cup {p}
      /\ UNCHANGED <<target, done, held, unlinked, ops, source, ran>>
  BY DEF CtorReturn
<1>2. /\ frames[1] \in Frame /\ frames' \in Seq(Frame) /\ (Draining => Draining')
      /\ \A i \in 1..Len(frames') : \E j \in 1..Len(frames) : frames'[i] = frames[j]
      /\ 1 \in 1..Len(frames)
  BY <1>1, Facts, PopKeeps
<1>3. p \in Promise /\ state[p] # "free"
  BY <1>1, <1>2, FrameParts DEF BaseInv, ContextOK, FrameOK
<1>4. StoreOK(s, target, source) /\ Evolves(Store, s)
  <2>1. "rejected" \in Final /\ ERR \in Value /\ 0 \in Nat /\ "rejected" # "fulfilled"
    BY DEF Final, Value
  <2> QED
    BY <1>3, <2>1, Facts, SettleOK
<1> HIDE DEF s
<1>5. s \in StoreType /\ state' = s.state
  BY <1>1, <1>4 DEF StoreOK, Becomes
<1>6. state'[p] # "free"
  BY <1>3, <1>4, <1>5, Facts, EvolvesQueue
<1>7. QueueStep(s)
  BY <1>1 DEF QueueStep
<1> HIDE DEF p
<1>8. /\ done' \subseteq Cap /\ held' = held /\ known' \subseteq Promise
      /\ \A q \in known' : q \in known \/ state'[q] # "free"
      /\ ops' \in 0..MaxOps /\ ran' \in Seq(Pair) /\ target' = target /\ source' = source
  BY <1>1, <1>3, <1>6, Facts DEF TypeOK
<1> QED
  BY <1>1, <1>2, <1>4, <1>7, <1>8, EvolveStep

LEMMA CapCallOK ==
  ASSUME BaseInv, NoLostWakeup, NEW cap \in Cap, NEW v \in Value, NEW room \in Nat,
         cap[2] = "resolve" => Resolvable(Store, v), CapCall(cap, v, room)
  PROVE  BaseInv' /\ NoLostWakeup'
<1> DEFINE s == Call(Store, cap, v, room)
<1>1. /\ Op /\ cap[1] \in held /\ Becomes(s) /\ queue' = s.queue /\ done' = done \cup {cap}
      /\ UNCHANGED <<target, held, known, unlinked, frames, source, ran>>
  BY DEF CapCall
<1>2. target[cap[1]] # NONE
  BY <1>1 DEF BaseInv, ContextOK
<1>3. StoreOK(s, target, source) /\ Evolves(Store, s)
  BY <1>2, Facts, CallOK
<1> HIDE DEF s
<1>4. QueueStep(s)
  BY <1>1 DEF QueueStep
<1>5. ops' \in 0..MaxOps
  BY <1>1, Facts, PromiseAssumption DEF Op, TypeOK
<1>6. /\ done' \subseteq Cap /\ held' = held /\ known' \subseteq Promise
      /\ \A q \in known' : q \in known \/ state'[q] # "free"
      /\ ran' \in Seq(Pair) /\ target' = target /\ source' = source
      /\ frames' \in Seq(Frame) /\ (Draining => Draining')
      /\ \A i \in 1..Len(frames') : \E j \in 1..Len(frames) : frames'[i] = frames[j]
  BY <1>1, Facts DEF TypeOK, Draining
<1> QED
  BY <1>1, <1>3, <1>4, <1>5, <1>6, EvolveStep

\* The head of the queue, and what follows from it.
LEMMA HeadOK ==
  ASSUME BaseInv, queue # <<>>
  PROVE  1 \in 1..Len(queue) /\ queue[1] \in Job /\ JobOK(queue[1], Store, target, source)
<1>1. queue \in Seq(Job)
  BY Facts DEF TypeOK
<1>2. 1 \in 1..Len(queue)
  BY <1>1, EmptySeq, LenProperties
<1> QED
  BY <1>1, <1>2, ElementOfSeq DEF BaseInv, StoreOK, JobsOK, Store

LEMMA PassThroughOK ==
  ASSUME BaseInv, NoLostWakeup, NEW room \in Nat, PassThrough(room)
  PROVE  BaseInv' /\ NoLostWakeup'
<1> DEFINE m == queue[1]
           cap == PassThroughCap(m)
           s == Call(Store, cap, m.value, room)
<1>1. /\ queue # <<>> /\ m.type = "reaction" /\ Becomes(s) /\ Unlink(s, unlinked + 1)
      /\ done' = done \cup {cap} /\ ran' = Append(ran, m.pair)
      /\ UNCHANGED <<target, held, known, frames, ops, source>>
  BY DEF PassThrough
<1>2. m \in Job /\ JobOK(m, Store, target, source)
  BY <1>1, HeadOK
<1>3. m.rtype \in Final /\ m.pair \in Pair /\ m.value \in Value
  BY <1>1, <1>2, JobParts
<1>4. /\ source[m.pair] \in Promise /\ target[m.pair] # NONE
      /\ m.rtype = state[source[m.pair]] /\ m.value = result[source[m.pair]]
  BY <1>1, <1>2, <1>3, Facts DEF JobOK, StoreOK, PairsOK, PairMap
<1>5. m.rtype = "fulfilled" => m.value = PLAIN
  BY <1>4, Facts DEF StoreOK, Unwrapped
<1> HIDE DEF m
<1>6. cap \in Cap /\ cap[1] = m.pair /\ (cap[2] = "resolve" => m.rtype = "fulfilled")
  BY <1>3 DEF PassThroughCap, Cap, Kind
<1>7. cap[2] = "resolve" => Resolvable(Store, m.value)
  BY <1>5, <1>6, PromiseAssumption DEF Resolvable, Value
<1> HIDE DEF cap
<1>8. StoreOK(s, target, source) /\ Evolves(Store, s)
  BY <1>3, <1>4, <1>6, <1>7, Facts, CallOK
<1> HIDE DEF s
<1>9. QueueStep(s)
  BY <1>1, Facts, HeadUnlinked
<1>10. ran' \in Seq(Pair)
  BY <1>1, <1>3, Facts, AppendProperties DEF TypeOK
<1>11. /\ done' \subseteq Cap /\ held' = held /\ known' \subseteq Promise
       /\ \A q \in known' : q \in known \/ state'[q] # "free"
       /\ ops' \in 0..MaxOps /\ target' = target /\ source' = source
       /\ frames' \in Seq(Frame) /\ (Draining => Draining')
       /\ \A i \in 1..Len(frames') : \E j \in 1..Len(frames) : frames'[i] = frames[j]
  BY <1>1, <1>6, Facts DEF TypeOK, Draining
<1> QED
  BY <1>1, <1>8, <1>9, <1>10, <1>11, EvolveStep

LEMMA AdoptedSettlesOK ==
  ASSUME BaseInv, NoLostWakeup, NEW room \in Nat, AdoptedSettles(room)
  PROVE  BaseInv' /\ NoLostWakeup'
<1> DEFINE m == queue[1]
           fails == CallFails(Store, m.handler, room)
           s == Call(Store, m.handler, m.value, room)
           cap == <<m.pair, IF fails THEN "reject" ELSE "resolve">>
           v == IF fails THEN ERR ELSE PLAIN
           t == Call(s, cap, v, 0)
<1>1. /\ queue # <<>> /\ m.type = "reaction" /\ m.handler \in Cap /\ Becomes(t)
      /\ Unlink(t, unlinked + 1)
      /\ done' = done \cup {m.handler, cap} /\ ran' = Append(ran, m.pair)
      /\ UNCHANGED <<target, held, known, frames, ops, source>>
  BY DEF AdoptedSettles
<1>2. m \in Job /\ JobOK(m, Store, target, source)
  BY <1>1, HeadOK
<1>3. m.rtype \in Final /\ m.pair \in Pair /\ m.value \in Value
  BY <1>1, <1>2, JobParts
<1>4. /\ source[m.pair] \in Promise /\ target[m.pair] # NONE
      /\ m.rtype = state[source[m.pair]] /\ m.value = result[source[m.pair]]
      /\ target[m.handler[1]] # NONE
      /\ m.handler[2] = IF m.rtype = "fulfilled" THEN "resolve" ELSE "reject"
  BY <1>1, <1>2, <1>3, Facts DEF JobOK, StoreOK, PairsOK, PairMap, CapOK
<1>5. m.rtype = "fulfilled" => m.value = PLAIN
  BY <1>4, Facts DEF StoreOK, Unwrapped
<1> HIDE DEF m
<1>6. m.handler[2] = "resolve" => Resolvable(Store, m.value)
  BY <1>4, <1>5, PromiseAssumption DEF Resolvable, Value
<1>7. StoreOK(s, target, source) /\ Evolves(Store, s)
  BY <1>1, <1>3, <1>4, <1>6, Facts, CallOK
<1>8. /\ cap \in Cap /\ cap[1] = m.pair /\ v \in Value
      /\ cap[2] = "resolve" => v = PLAIN
  BY <1>3 DEF Cap, Kind, Value
<1> HIDE DEF cap, v, s
<1>9. cap[2] = "resolve" => Resolvable(s, v)
  BY <1>8, PromiseAssumption DEF Resolvable, Value
<1>10. StoreOK(t, target, source) /\ Evolves(s, t)
  BY <1>4, <1>7, <1>8, <1>9, CallOK
<1> HIDE DEF t
<1>11. s \in StoreType /\ t \in StoreType
  BY <1>7, <1>10 DEF StoreOK
<1>12. Evolves(Store, t)
  BY <1>7, <1>10, <1>11, Facts, EvolvesTrans
<1>13. QueueStep(t)
  BY <1>1, Facts, HeadUnlinked
<1>14. ran' \in Seq(Pair)
  BY <1>1, <1>3, Facts, AppendProperties DEF TypeOK
<1>15. /\ done' \subseteq Cap /\ held' = held /\ known' \subseteq Promise
       /\ \A q \in known' : q \in known \/ state'[q] # "free"
       /\ ops' \in 0..MaxOps /\ target' = target /\ source' = source
       /\ frames' \in Seq(Frame) /\ (Draining => Draining')
       /\ \A i \in 1..Len(frames') : \E j \in 1..Len(frames) : frames'[i] = frames[j]
  BY <1>1, <1>8, Facts DEF TypeOK, Draining
<1> QED
  BY <1>1, <1>10, <1>12, <1>13, <1>14, <1>15, EvolveStep

\* The end of a job that is user code.
LEMMA JobEndOK ==
  ASSUME BaseInv, NoLostWakeup, frames # <<>>, frames[1].kind \in {"handler", "then"},
         NEW s, StoreOK(s, target, source), Evolves(Store, s), Becomes(s), Unlink(s, frames[1].pos),
         done' \subseteq Cap, frames' = Tail(frames), UNCHANGED <<target, held, known, ops, source, ran>>
  PROVE  BaseInv' /\ NoLostWakeup'
<1>1. /\ frames[1] \in Frame /\ frames' \in Seq(Frame) /\ (Draining => Draining')
      /\ \A i \in 1..Len(frames') : \E j \in 1..Len(frames) : frames'[i] = frames[j]
      /\ 1 \in 1..Len(frames)
  BY Facts, PopKeeps
<1>2. /\ frames[1].pos \in Nat /\ (frames[1].pos = unlinked + 1 => queue # <<>>)
  BY <1>1, FrameParts DEF BaseInv, ContextOK, FrameOK
<1>3. QueueStep(s)
  BY <1>2 DEF QueueStep
<1>4. /\ held' = held /\ known' \subseteq Promise
      /\ \A q \in known' : q \in known \/ state'[q] # "free"
      /\ ops' \in 0..MaxOps /\ target' = target /\ source' = source /\ ran' \in Seq(Pair)
  BY Facts DEF TypeOK
<1> QED
  BY <1>1, <1>3, <1>4, EvolveStep

LEMMA HandlerReturnOK ==
  ASSUME BaseInv, NoLostWakeup, NEW kind \in Kind, NEW v \in Value, NEW room \in Nat,
         kind = "resolve" => Resolvable(Store, v), HandlerReturn(kind, v, room)
  PROVE  BaseInv' /\ NoLostWakeup'
<1> DEFINE f == frames[1]
           cap == <<f.pair, kind>>
           s == Call(Store, cap, v, room)
<1>1. /\ frames # <<>> /\ f.kind = "handler" /\ Becomes(s) /\ Unlink(s, f.pos)
      /\ done' = done \cup {cap} /\ frames' = Tail(frames)
      /\ UNCHANGED <<target, held, known, ops, source, ran>>
  BY DEF HandlerReturn
<1>2. f \in Frame /\ FrameOK(f, state, target, unlinked, queue)
  BY <1>1, Facts, PopKeeps DEF BaseInv, ContextOK
<1>3. f.pair \in Pair /\ target[f.pair] # NONE
  BY <1>1, <1>2, FrameParts DEF FrameOK
<1>4. cap \in Cap /\ cap[1] = f.pair /\ cap[2] = kind
  BY <1>3 DEF Cap
<1> HIDE DEF cap
<1>5. StoreOK(s, target, source) /\ Evolves(Store, s)
  BY <1>3, <1>4, Facts, CallOK
<1> HIDE DEF s
<1>6. done' \subseteq Cap
  BY <1>1, <1>4, Facts DEF TypeOK
<1> QED
  BY <1>1, <1>5, <1>6, JobEndOK

LEMMA ThenMethodReturnOK ==
  ASSUME BaseInv, NoLostWakeup, NEW throws \in BOOLEAN, NEW room \in Nat,
         ThenMethodReturn(throws, room)
  PROVE  BaseInv' /\ NoLostWakeup'
<1> DEFINE f == frames[1]
           cap == <<f.pair, "reject">>
           s == IF throws THEN Call(Store, cap, ERR, room) ELSE Store
<1>1. /\ frames # <<>> /\ f.kind = "then" /\ Becomes(s) /\ Unlink(s, f.pos)
      /\ done' = (IF throws THEN done \cup {cap} ELSE done) /\ frames' = Tail(frames)
      /\ UNCHANGED <<target, held, known, ops, source, ran>>
  BY DEF ThenMethodReturn
<1>2. f \in Frame /\ FrameOK(f, state, target, unlinked, queue)
  BY <1>1, Facts, PopKeeps DEF BaseInv, ContextOK
<1>3. f.pair \in Pair /\ target[f.pair] # NONE
  BY <1>1, <1>2, FrameParts DEF FrameOK
<1>4. cap \in Cap /\ cap[1] = f.pair /\ cap[2] # "resolve" /\ ERR \in Value
  BY <1>3 DEF Cap, Kind, Value
<1> HIDE DEF cap
<1>5. StoreOK(s, target, source) /\ Evolves(Store, s)
  BY <1>3, <1>4, Facts, CallOK
<1> HIDE DEF s
<1>6. done' \subseteq Cap
  BY <1>1, <1>4, Facts DEF TypeOK
<1> QED
  BY <1>1, <1>5, <1>6, JobEndOK

LEMMA AdoptionAbandonedOK ==
  ASSUME BaseInv, NoLostWakeup, AdoptionAbandoned
  PROVE  BaseInv' /\ NoLostWakeup'
<1>1. /\ queue # <<>> /\ Unlink(Store, unlinked + 1)
      /\ UNCHANGED <<state, result, fq, rq, lost, target, done, held, known, wake, frames, ops,
                     source, ran>>
  BY DEF AdoptionAbandoned
<1>2. Becomes(Store)
  BY <1>1, Facts DEF Becomes, Wakes, TypeOK
<1>3. QueueStep(Store)
  BY <1>1, Facts, HeadUnlinked
<1>4. /\ done' \subseteq Cap /\ held' = held /\ known' \subseteq Promise /\ ran' \in Seq(Pair)
      /\ \A q \in known' : q \in known \/ state'[q] # "free"
      /\ ops' \in 0..MaxOps /\ target' = target /\ source' = source
      /\ frames' \in Seq(Frame) /\ (Draining => Draining')
      /\ \A i \in 1..Len(frames') : \E j \in 1..Len(frames) : frames'[i] = frames[j]
  BY <1>1, Facts DEF TypeOK, Draining
<1> QED
  BY <1>2, <1>3, <1>4, Facts, EvolveStep

\* Pushing a frame.
LEMMA PushKeeps ==
  ASSUME TypeOK, NEW f \in Frame, frames' = <<f>> \o frames
  PROVE  /\ frames' \in Seq(Frame) /\ (Draining => Draining')
         /\ f.kind = "drain" => Draining'
         /\ \A i \in 1..Len(frames') : frames'[i] = f \/ \E j \in 1..Len(frames) : frames'[i] = frames[j]
<1>1. /\ frames' \in Seq(Frame) /\ Len(frames') = Len(frames) + 1 /\ Len(frames) \in Nat
      /\ frames'[1] = f /\ \A i \in 1..Len(frames) : frames'[i + 1] = frames[i]
      /\ \A i \in 1..Len(frames') : i = 1 \/ (i - 1 \in 1..Len(frames) /\ frames'[i] = frames[i - 1])
  BY PushFrame DEF TypeOK
<1>2. \A i \in 1..Len(frames) : i + 1 \in 1..Len(frames')
  BY <1>1
<1>3. Draining => Draining'
  BY <1>1, <1>2 DEF Draining
<1>4. 1 \in 1..Len(frames')
  BY <1>1
<1>5. f.kind = "drain" => Draining'
  BY <1>1, <1>4 DEF Draining
<1> QED
  BY <1>1, <1>3, <1>5

LEMMA CallHandlerOK ==
  ASSUME BaseInv, NoLostWakeup, CallHandler
  PROVE  BaseInv' /\ NoLostWakeup'
<1> DEFINE m == queue[1]
           f == [kind |-> "handler", pair |-> m.pair, pos |-> unlinked + 1]
<1>1. /\ queue # <<>> /\ m.type = "reaction" /\ frames' = <<f>> \o frames
      /\ ran' = Append(ran, m.pair)
      /\ UNCHANGED <<stored, target, done, held, known, unlinked, wake, ops, source>>
  BY DEF CallHandler
<1>2. m \in Job /\ JobOK(m, Store, target, source)
  BY <1>1, HeadOK
<1>3. m.pair \in Pair
  BY <1>1, <1>2, JobParts
<1>4. target[m.pair] # NONE
  BY <1>1, <1>2, <1>3, Facts DEF JobOK, StoreOK, PairsOK, PairMap
<1> HIDE DEF m
<1>5. f \in Frame /\ FrameOK(f, state', target', unlinked', queue')
  BY <1>1, <1>3, <1>4, Facts DEF Frame, FrameOK, stored, TypeOK
<1> HIDE DEF f
<1>6. /\ frames' \in Seq(Frame) /\ (Draining => Draining')
      /\ \A i \in 1..Len(frames') : frames'[i] = f \/ \E j \in 1..Len(frames) : frames'[i] = frames[j]
  BY <1>1, <1>5, Facts, PushKeeps
<1>7. ran' \in Seq(Pair)
  BY <1>1, <1>3, Facts, AppendProperties DEF TypeOK
<1>8. Becomes(Store) /\ QueueStep(Store)
  BY <1>1, Facts DEF Becomes, Wakes, stored, QueueStep, TypeOK
<1>9. /\ done' \subseteq Cap /\ held' = held /\ known' \subseteq Promise
      /\ \A q \in known' : q \in known \/ state'[q] # "free"
      /\ ops' \in 0..MaxOps /\ target' = target /\ source' = source
  BY <1>1, Facts DEF TypeOK
<1>10. \A i \in 1..Len(frames') : \/ FrameOK(frames'[i], state', target', unlinked', queue')
                                  \/ \E j \in 1..Len(frames) : frames'[i] = frames[j]
  BY <1>5, <1>6
<1> QED
  BY <1>6, <1>7, <1>8, <1>9, <1>10, Facts, EvolveStep

\* The drain loop starts and ends; nothing is stored.
LEMMA FramesOnly ==
  ASSUME BaseInv, UNCHANGED <<stored, drained>>, wake' \in BOOLEAN, frames' \in Seq(Frame),
         \A i \in 1..Len(frames') : frames'[i].kind = "drain" \/ \E j \in 1..Len(frames) : frames'[i] = frames[j]
  PROVE  BaseInv'
<1>1. Store' = Store /\ target' = target /\ source' = source /\ state' = state /\ queue' = queue
  BY DEF Store, stored, drained
<1>2. TypeOK'
  BY Facts DEF TypeOK, stored, drained
<1>3. Creates(0, 0)
  BY <1>1, Facts, NothingCreated DEF Creates
<1>4. /\ \A p \in known' : p \in known \/ state'[p] # "free"
      /\ \A c \in held' : c \in held \/ target'[c] # NONE
      /\ unlinked' = unlinked
  BY DEF drained
<1>5. \A i \in 1..Len(frames') : \/ FrameOK(frames'[i], state', target', unlinked', queue')
                                 \/ \E j \in 1..Len(frames) : frames'[i] = frames[j]
  BY DEF FrameOK
<1>6. 0 \in 0..1 /\ 0 \in 0..2
  OBVIOUS
<1>7. ContextOK'
  BY <1>1, <1>2, <1>3, <1>4, <1>5, <1>6, ContextStep DEF Creates
<1>8. StoreOK(Store', target', source')
  BY <1>1, Facts
<1> QED
  BY <1>2, <1>7, <1>8 DEF BaseInv

LEMMA DrainStartOK ==
  ASSUME BaseInv, NoLostWakeup, WakeDrain \/ CallDrain
  PROVE  BaseInv' /\ NoLostWakeup'
<1> DEFINE f == [kind |-> "drain"]
<1>1. f \in Frame /\ f.kind = "drain"
  BY DEF Frame
<1> HIDE DEF f
<1>2. /\ UNCHANGED <<stored, drained>> /\ wake' \in BOOLEAN
      /\ frames' = <<f>> \o frames
  <2>1. CASE WakeDrain
    <3>1. <<f>> \in Seq(Frame)
      BY <1>1
    <3>2. <<f>> \o <<>> = <<f>>
      BY <3>1, ConcatEmptySeq
    <3> QED
      BY <2>1, <3>2 DEF WakeDrain, f
  <2>2. CASE CallDrain
    BY <2>2, Facts DEF CallDrain, f, TypeOK
  <2> QED
    BY <2>1, <2>2
<1>3. /\ frames' \in Seq(Frame) /\ Draining'
      /\ \A i \in 1..Len(frames') : frames'[i] = f \/ \E j \in 1..Len(frames) : frames'[i] = frames[j]
  BY <1>1, <1>2, Facts, PushKeeps
<1> QED
  BY <1>1, <1>2, <1>3, FramesOnly DEF NoLostWakeup

LEMMA DrainEndOK ==
  ASSUME BaseInv, NoLostWakeup, DrainEnd
  PROVE  BaseInv' /\ NoLostWakeup'
<1>1. /\ frames # <<>> /\ queue = <<>> /\ frames' = Tail(frames) /\ wake' = wake
      /\ UNCHANGED <<stored, drained>>
  BY DEF DrainEnd, AtLoopTop
<1>2. /\ frames' \in Seq(Frame)
      /\ \A i \in 1..Len(frames') : \E j \in 1..Len(frames) : frames'[i] = frames[j]
  BY <1>1, Facts, PopKeeps
<1>3. BaseInv'
  BY <1>1, <1>2, Facts, FramesOnly DEF TypeOK
<1>4. NoLostWakeup'
  BY <1>1 DEF NoLostWakeup, stored
<1> QED
  BY <1>3, <1>4

-----------------------------------------------------------------------------
(* The steps that create promises and pairs.                                *)

\* Creating the next promise and pairs for it or for other promises.
LEMMA CreatesNext ==
  ASSUME BaseInv, NEW a \in 0..1, NEW b \in 0..2, CanCreate(a, b),
         NEW t, t.state = [state EXCEPT ![NextPromise] = "pending"] \/ (a = 0 /\ t.state = state),
         NEW u, Evolves(t, u), state' = u.state, a = 1 \/ t.state = state,
         \A c \in Pair : target'[c] # NONE <=> target[c] # NONE \/ c \in NextPair..(NextPair + b - 1)
  PROVE  Creates(a, b)
<1>1. NextPromise \in Nat /\ NextPair \in Nat
  BY Fresh
<1>2. \A p \in Promise : state'[p] # "free" <=> t.state[p] # "free"
  BY DEF Evolves, Final
<1>3. \A p \in Promise : state'[p] # "free" <=> p < NextPromise + a
  <2>1. CASE a = 0 /\ t.state = state
    BY <1>1, <1>2, <2>1, Fresh
  <2>2. CASE a = 1 /\ t.state = [state EXCEPT ![NextPromise] = "pending"]
    <3>1. \A p \in Promise : t.state[p] # "free" <=> state[p] # "free" \/ p = NextPromise
      BY <2>2, Facts DEF TypeOK
    <3> QED
      BY <1>1, <1>2, <2>2, <3>1, Fresh, PromiseAssumption DEF Promise
  <2> QED
    BY <2>1, <2>2
<1>4. \A c \in Pair : target'[c] # NONE <=> c < NextPair + b
  BY <1>1, Fresh, PromiseAssumption DEF Pair
<1> QED
  BY <1>3, <1>4 DEF Creates, CanCreate

LEMMA NewPromiseOK ==
  ASSUME BaseInv, NoLostWakeup, NewPromise
  PROVE  BaseInv' /\ NoLostWakeup'
<1> DEFINE p == NextPromise
           c == NextPair
           t == New(Store, p)
           f == [kind |-> "ctor", promise |-> p]
<1>1. /\ Op /\ CanCreate(1, 1) /\ Becomes(t) /\ target' = [target EXCEPT ![c] = p]
      /\ held' = held \cup {c} /\ frames' = <<f>> \o frames
      /\ UNCHANGED <<queue, done, known, unlinked, source, ran>>
  BY DEF NewPromise
<1>2. /\ p \in Promise /\ state[p] = "free" /\ c \in Pair /\ target[c] = NONE /\ p # NONE
  BY <1>1, Fresh, PromiseAssumption
<1> HIDE DEF p, c
<1>3. /\ StoreOK(t, target, source) /\ t.state = [state EXCEPT ![p] = "pending"] /\ t.queue = queue
  BY <1>2, Facts, NewOK
<1> HIDE DEF t
<1>4. t.state[p] = "pending"
  BY <1>2, <1>3, Facts DEF TypeOK
<1>5. /\ target' \in PairMap /\ target'[c] = p /\ \A d \in Pair \ {c} : target'[d] = target[d]
  BY <1>1, <1>2, Facts DEF TypeOK, PairMap
<1>6. Wider(t, target, target')
  BY <1>2, <1>3, <1>4, <1>5 DEF Wider, StoreOK, PairsOK
<1>7. StoreOK(t, target', source')
  <2>1. source' = source /\ source \in PairMap
    BY <1>1, Facts DEF StoreOK
  <2> QED
    BY <1>3, <1>6, <2>1, WiderOK
<1>8. state' = t.state
  BY <1>1 DEF Becomes
<1>9. Creates(1, 1)
  <2>1. 1 \in 0..1 /\ 1 \in 0..2
    OBVIOUS
  <2>2. Evolves(t, t)
    BY <1>3, EvolvesRefl DEF StoreOK
  <2>3. \A d \in Pair : target'[d] # NONE <=> target[d] # NONE \/ d \in NextPair..(NextPair + 1 - 1)
    BY <1>2, <1>5, Fresh DEF c, Pair
  <2> QED
    BY <1>1, <1>3, <1>8, <2>1, <2>2, <2>3, CreatesNext DEF p
<1>10. f \in Frame /\ FrameOK(f, state', target', unlinked', queue')
  BY <1>2, <1>4, <1>8 DEF Frame, FrameOK
<1> HIDE DEF f
<1>11. /\ frames' \in Seq(Frame) /\ (Draining => Draining')
       /\ \A i \in 1..Len(frames') : frames'[i] = f \/ \E j \in 1..Len(frames) : frames'[i] = frames[j]
  BY <1>1, <1>10, Facts, PushKeeps
<1>12. QueueStep(t)
  BY <1>1, <1>3 DEF QueueStep
<1>13. ops' \in 0..MaxOps
  BY <1>1, Facts, PromiseAssumption DEF Op, TypeOK
<1>14. /\ done' \subseteq Cap /\ held' \subseteq Pair /\ known' \subseteq Promise
       /\ \A q \in known' : q \in known \/ state'[q] # "free"
       /\ \A d \in held' : d \in held \/ target'[d] # NONE
       /\ ran' \in Seq(Pair)
  BY <1>1, <1>2, <1>5, Facts DEF TypeOK
<1>15. \A i \in 1..Len(frames') : \/ FrameOK(frames'[i], state', target', unlinked', queue')
                                  \/ \E j \in 1..Len(frames) : frames'[i] = frames[j]
  BY <1>10, <1>11
<1>16. 1 \in 0..1 /\ 1 \in 0..2 /\ (queue # <<>> => t.queue # <<>>)
  BY <1>3
<1> QED
  BY <1>1, <1>7, <1>9, <1>11, <1>12, <1>13, <1>14, <1>15, <1>16, StepOK

\* A then() call only adds.
LEMMA ThenEvolves ==
  ASSUME NEW s \in StoreType, NEW p \in Promise, NEW hf \in Handler, NEW hr \in Handler,
         NEW c \in Pair, NEW t, ThenTo(s, t, p, hf, hr, c)
  PROVE  Evolves(s, t)
<1>1. s.queue \in Seq(Job) /\ t.state = s.state /\ t.result = s.result /\ s.lost \subseteq t.lost
  BY DEF StoreType, ThenTo
<1>2. CASE t.queue = s.queue
  <2>1. <<>> \in Seq(Job) /\ s.queue = s.queue \o <<>>
    BY <1>1, ConcatEmptySeq, EmptySeq
  <2> QED
    BY <1>1, <1>2, <2>1 DEF Evolves
<1>3. CASE t.queue # s.queue
  <2> DEFINE r == [handler |-> IF s.state[p] = "fulfilled" THEN hf ELSE hr, pair |-> c]
             m == ReactionOf(r, s.state[p], s.result[p])
  <2>1. t.queue = Append(s.queue, m) /\ s.state[p] \in Final
    BY <1>3 DEF ThenTo
  <2>2. r \in Reaction /\ s.result[p] \in Value
    BY DEF Reaction, StoreType
  <2>3. m \in Job
    BY <2>1, <2>2, ReactionOfType
  <2> HIDE DEF m
  <2>4. <<m>> \in Seq(Job) /\ Append(s.queue, m) = s.queue \o <<m>>
    BY <1>1, <2>3, AppendIsConcat
  <2> QED
    BY <1>1, <2>1, <2>4 DEF Evolves
<1> QED
  BY <1>2, <1>3

\* The next promise is created in the store.
LEMMA NextCreated ==
  ASSUME BaseInv, NextPromise \in Promise, state[NextPromise] = "free"
  PROVE  /\ StoreOK(New(Store, NextPromise), target, source)
         /\ New(Store, NextPromise).state = [state EXCEPT ![NextPromise] = "pending"]
         /\ New(Store, NextPromise).queue = queue /\ New(Store, NextPromise).lost = lost
         /\ New(Store, NextPromise).state[NextPromise] = "pending"
         /\ \A p \in Promise \ {NextPromise} : New(Store, NextPromise).state[p] = state[p]
         /\ New(Store, NextPromise).result = result
         /\ New(Store, NextPromise).fq = fq
<1>1. /\ StoreOK(New(Store, NextPromise), target, source)
      /\ New(Store, NextPromise).state = [state EXCEPT ![NextPromise] = "pending"]
      /\ New(Store, NextPromise).queue = queue /\ New(Store, NextPromise).lost = lost
      /\ New(Store, NextPromise).result = result /\ New(Store, NextPromise).fq = fq
  BY Facts, NewOK
<1> QED
  BY <1>1, Facts DEF TypeOK

LEMMA ThenStepOK ==
  ASSUME BaseInv, NoLostWakeup, NEW q \in known, NEW hf \in {NONE, USER}, NEW hr \in {NONE, USER},
         NEW room \in Nat, Then(q, hf, hr, room)
  PROVE  BaseInv' /\ NoLostWakeup'
<1> DEFINE p == NextPromise
           c == NextPair
           s == New(Store, p)
           t == ThenReactions(s, q, hf, hr, c, room)
<1>1. /\ Op /\ CanCreate(1, 1) /\ Becomes(t) /\ queue' = t.queue
      /\ target' = [target EXCEPT ![c] = p] /\ source' = [source EXCEPT ![c] = q]
      /\ known' = (IF state[q] # "pending" /\ room = 0 THEN known ELSE known \cup {p})
      /\ UNCHANGED <<done, held, unlinked, frames, ran>>
  BY DEF Then
<1>2. /\ p \in Promise /\ state[p] = "free" /\ c \in Pair /\ target[c] = NONE /\ p # NONE
      /\ q \in Promise /\ q # NONE /\ state[q] # "free" /\ hf \in Handler /\ hr \in Handler
  <2>1. p \in Promise /\ state[p] = "free" /\ c \in Pair /\ target[c] = NONE
    BY <1>1, Fresh
  <2>2. q \in Promise /\ state[q] # "free"
    BY Facts DEF TypeOK, BaseInv, ContextOK
  <2>3. hf \in Handler /\ hr \in Handler
    BY DEF Handler
  <2>4. \A x \in Promise : x # NONE
    BY PromiseAssumption
  <2> HIDE DEF p, c
  <2> QED
    BY <2>1, <2>2, <2>3, <2>4
<1>3. /\ StoreOK(s, target, source) /\ s.state = [state EXCEPT ![p] = "pending"] /\ s.queue = queue
      /\ s.state[p] = "pending" /\ s.state[q] # "free"
  BY <1>2, NextCreated
<1> HIDE DEF p, c, s
<1>4. /\ target' \in PairMap /\ target'[c] = p /\ \A d \in Pair \ {c} : target'[d] = target[d]
      /\ source' \in PairMap /\ source'[c] = q /\ \A d \in Pair \ {c} : source'[d] = source[d]
  BY <1>1, <1>2, Facts DEF TypeOK, PairMap
<1>5. source[c] = NONE
  BY <1>2, Facts DEF StoreOK, PairsOK
<1>6. StoreOK(s, target', source')
  <2>1. Wider(s, target, target')
    BY <1>2, <1>3, <1>4 DEF Wider, StoreOK, PairsOK
  <2>2. \A d \in Pair : \/ source'[d] = source[d]
                        \/ source[d] = NONE /\ target'[d] # NONE /\ s.state[source'[d]] # "free"
    BY <1>2, <1>3, <1>4, <1>5
  <2> DEFINE tg2 == target'
             src2 == source'
  <2>3. /\ Wider(s, target, tg2) /\ src2 \in PairMap
        /\ \A d \in Pair : \/ src2[d] = source[d]
                           \/ source[d] = NONE /\ tg2[d] # NONE /\ s.state[src2[d]] # "free"
    BY <1>4, <2>1, <2>2
  <2> HIDE DEF tg2, src2
  <2>4. StoreOK(s, tg2, src2)
    BY <1>3, <2>3, WiderOK
  <2> QED
    BY <2>4 DEF tg2, src2
<1>7. s \in StoreType /\ ThenTo(s, t, q, hf, hr, c)
  BY <1>2, <1>3, ThenParts DEF StoreOK
<1> HIDE DEF t
<1>8. StoreOK(t, target', source')
  <2>1. CapOK(hf, "resolve", target') /\ CapOK(hr, "reject", target')
    BY PromiseAssumption DEF CapOK
  <2> QED
    BY <1>2, <1>3, <1>4, <1>6, <1>7, <2>1, ThenOK
<1>9. Evolves(s, t)
  BY <1>2, <1>7, ThenEvolves
<1>10. state' = t.state /\ t \in StoreType
  BY <1>1, <1>8 DEF Becomes, StoreOK
<1>11. Creates(1, 1)
  <2>1. 1 \in 0..1 /\ 1 \in 0..2
    OBVIOUS
  <2>2. \A d \in Pair : target'[d] # NONE <=> target[d] # NONE \/ d \in NextPair..(NextPair + 1 - 1)
    BY <1>2, <1>4, Fresh DEF c, Pair
  <2> QED
    BY <1>1, <1>3, <1>9, <1>10, <2>1, <2>2, CreatesNext DEF p
<1>12. (queue # <<>> => t.queue # <<>>) /\ state'[p] # "free"
  BY <1>2, <1>3, <1>7, <1>9, <1>10, EvolvesQueue
<1>13. QueueStep(t)
  BY <1>1 DEF QueueStep
<1>14. ops' \in 0..MaxOps
  BY <1>1, Facts, PromiseAssumption DEF Op, TypeOK
<1>15. /\ done' \subseteq Cap /\ held' \subseteq Pair /\ known' \subseteq Promise
       /\ \A x \in known' : x \in known \/ state'[x] # "free"
       /\ \A d \in held' : d \in held \/ target'[d] # NONE
       /\ ran' \in Seq(Pair) /\ frames' \in Seq(Frame) /\ (Draining => Draining')
       /\ \A i \in 1..Len(frames') : \E j \in 1..Len(frames) : frames'[i] = frames[j]
  BY <1>1, <1>2, <1>12, Facts DEF TypeOK, Draining
<1>16. 1 \in 0..1 /\ 1 \in 0..2
  OBVIOUS
<1> QED
  BY <1>1, <1>8, <1>11, <1>12, <1>13, <1>14, <1>15, <1>16, StepOK

\* Promise.resolve() and Promise.reject() create a promise that needs no pair.
LEMMA MadeOK ==
  ASSUME BaseInv, NoLostWakeup, NEW t, Op, CanCreate(1, 0),
         Evolves(New(Store, NextPromise), t), StoreOK(t, target, source), Becomes(t), queue' = t.queue,
         known' \subseteq known \cup {NextPromise},
         UNCHANGED <<target, done, held, unlinked, frames, source, ran>>
  PROVE  BaseInv' /\ NoLostWakeup'
<1> DEFINE p == NextPromise
           s == New(Store, p)
<1>1. p \in Promise /\ state[p] = "free"
  BY Fresh
<1>2. /\ StoreOK(s, target, source) /\ s.state = [state EXCEPT ![p] = "pending"] /\ s.queue = queue
      /\ s.state[p] = "pending" /\ Evolves(s, t)
  BY <1>1, NextCreated
<1> HIDE DEF p, s
<1>3. state' = t.state /\ t \in StoreType /\ s \in StoreType
  BY <1>2 DEF Becomes, StoreOK
<1>4. Creates(1, 0)
  <2>1. 1 \in 0..1 /\ 0 \in 0..2
    OBVIOUS
  <2>2. \A d \in Pair : target'[d] # NONE <=> target[d] # NONE \/ d \in NextPair..(NextPair + 0 - 1)
    BY Fresh DEF Pair
  <2> QED
    BY <1>2, <1>3, <2>1, <2>2, CreatesNext DEF p
<1>5. (queue # <<>> => t.queue # <<>>) /\ state'[p] # "free"
  BY <1>1, <1>2, <1>3, EvolvesQueue
<1>6. QueueStep(t)
  BY DEF QueueStep
<1>7. ops' \in 0..MaxOps
  BY Facts, PromiseAssumption DEF Op, TypeOK
<1>8. known' \subseteq known \cup {p}
  BY DEF p
<1>9. /\ done' \subseteq Cap /\ held' \subseteq Pair /\ known' \subseteq Promise
      /\ \A x \in known' : x \in known \/ state'[x] # "free"
      /\ \A d \in held' : d \in held \/ target'[d] # NONE
      /\ ran' \in Seq(Pair) /\ frames' \in Seq(Frame) /\ (Draining => Draining')
      /\ \A i \in 1..Len(frames') : \E j \in 1..Len(frames) : frames'[i] = frames[j]
      /\ StoreOK(t, target', source')
  BY <1>1, <1>5, <1>8, Facts DEF TypeOK, Draining
<1>10. 1 \in 0..1 /\ 0 \in 0..2
  OBVIOUS
<1> QED
  BY <1>4, <1>5, <1>6, <1>7, <1>9, <1>10, StepOK

LEMMA PromiseResolveOK ==
  ASSUME BaseInv, NoLostWakeup, NEW v \in Values, NEW room \in Nat, PromiseResolve(v, room)
  PROVE  BaseInv' /\ NoLostWakeup'
<1> DEFINE s == New(Store, NextPromise)
           t == Resolve(s, NextPromise, v, room)
<1>1. /\ Op /\ CanCreate(1, 0) /\ v \notin Promise /\ Becomes(t) /\ queue' = t.queue
      /\ known' \subseteq known \cup {NextPromise}
      /\ UNCHANGED <<target, done, held, unlinked, frames, source, ran>>
  BY DEF PromiseResolve
<1>2. NextPromise \in Promise /\ state[NextPromise] = "free"
  BY <1>1, Fresh
<1>3. StoreOK(s, target, source)
  BY <1>2, NextCreated
<1> HIDE DEF s
<1>4. Resolvable(s, v)
  BY <1>1, Facts DEF Resolvable, Values, Value, TypeOK
<1>5. StoreOK(t, target, source) /\ Evolves(s, t)
  BY <1>2, <1>3, <1>4, ResolveOK
<1> HIDE DEF t
<1> QED
  BY <1>1, <1>5, MadeOK DEF s

LEMMA PromiseRejectOK ==
  ASSUME BaseInv, NoLostWakeup, NEW v \in Reasons, PromiseReject(v)
  PROVE  BaseInv' /\ NoLostWakeup'
<1> DEFINE s == New(Store, NextPromise)
           t == Settle(s, NextPromise, "rejected", v, 0)
<1>1. /\ Op /\ CanCreate(1, 0) /\ Becomes(t) /\ queue' = t.queue
      /\ known' \subseteq known \cup {NextPromise}
      /\ UNCHANGED <<target, done, held, unlinked, frames, source, ran>>
  BY DEF PromiseReject
<1>2. NextPromise \in Promise /\ state[NextPromise] = "free"
  BY <1>1, Fresh
<1>3. StoreOK(s, target, source)
  BY <1>2, NextCreated
<1> HIDE DEF s
<1>4. v \in Value /\ "rejected" \in Final /\ 0 \in Nat /\ "rejected" # "fulfilled"
  BY Facts DEF Reasons, Value, TypeOK, Final
<1>5. StoreOK(t, target, source) /\ Evolves(s, t)
  BY <1>2, <1>3, <1>4, SettleOK
<1> HIDE DEF t
<1> QED
  BY <1>1, <1>5, MadeOK DEF s

LEMMA CallThenOK ==
  ASSUME BaseInv, NoLostWakeup, CallThen
  PROVE  BaseInv' /\ NoLostWakeup'
<1> DEFINE m == queue[1]
           c == NextPair
           f == [kind |-> "then", pair |-> c, pos |-> unlinked + 1]
<1>1. /\ queue # <<>> /\ m.type = "thenable" /\ CanCreate(0, 1)
      /\ target' = [target EXCEPT ![c] = m.promise] /\ held' = held \cup {c}
      /\ frames' = <<f>> \o frames
      /\ UNCHANGED <<stored, done, known, unlinked, wake, ops, source, ran>>
  BY DEF CallThen
<1>2. m \in Job /\ JobOK(m, Store, target, source)
  BY <1>1, HeadOK
<1>3. m.promise \in Promise /\ state[m.promise] # "free" /\ m.promise # NONE
  BY <1>1, <1>2, JobParts, Facts, PromiseAssumption DEF JobOK
<1>4. c \in Pair /\ target[c] = NONE
  BY <1>1, Fresh
<1> HIDE DEF m, c
<1>5. /\ target' \in PairMap /\ target'[c] = m.promise /\ \A d \in Pair \ {c} : target'[d] = target[d]
  BY <1>1, <1>3, <1>4, Facts DEF TypeOK, PairMap
<1>6. Wider(Store, target, target')
  BY <1>3, <1>4, <1>5, Facts DEF Wider, StoreOK, PairsOK
<1>7. StoreOK(Store, target', source')
  <2>1. source' = source /\ source \in PairMap
    BY <1>1, Facts DEF StoreOK
  <2> QED
    BY <1>6, <2>1, Facts, WiderOK
<1>8. state' = Store.state /\ Store.state = state
  BY <1>1, Facts DEF stored
<1>9. Creates(0, 1)
  <2>1. 0 \in 0..1 /\ 1 \in 0..2
    OBVIOUS
  <2>2. \A d \in Pair : target'[d] # NONE <=> target[d] # NONE \/ d \in NextPair..(NextPair + 1 - 1)
    BY <1>3, <1>4, <1>5, Fresh DEF c, Pair
  <2> QED
    BY <1>1, <1>8, <2>1, <2>2, Facts, CreatesNext
<1>10. f \in Frame /\ FrameOK(f, state', target', unlinked', queue')
  BY <1>1, <1>3, <1>4, <1>5, Facts DEF Frame, FrameOK, stored, TypeOK
<1> HIDE DEF f
<1>11. /\ frames' \in Seq(Frame) /\ (Draining => Draining')
       /\ \A i \in 1..Len(frames') : frames'[i] = f \/ \E j \in 1..Len(frames) : frames'[i] = frames[j]
  BY <1>1, <1>10, Facts, PushKeeps
<1>12. Becomes(Store) /\ QueueStep(Store)
  BY <1>1, Facts DEF Becomes, Wakes, stored, QueueStep, TypeOK
<1>13. /\ done' \subseteq Cap /\ held' \subseteq Pair /\ known' \subseteq Promise
       /\ \A x \in known' : x \in known \/ state'[x] # "free"
       /\ \A d \in held' : d \in held \/ target'[d] # NONE
       /\ ran' \in Seq(Pair) /\ ops' \in 0..MaxOps
  BY <1>1, <1>3, <1>4, <1>5, Facts DEF TypeOK
<1>14. \A i \in 1..Len(frames') : \/ FrameOK(frames'[i], state', target', unlinked', queue')
                                  \/ \E j \in 1..Len(frames) : frames'[i] = frames[j]
  BY <1>10, <1>11
<1>15. 0 \in 0..1 /\ 1 \in 0..2 /\ (queue # <<>> => Store.queue # <<>>)
  BY Facts
<1> QED
  BY <1>7, <1>9, <1>11, <1>12, <1>13, <1>14, <1>15, StepOK

\* The adoption of a native promise, its intermediate results and what is known of them.
Adoption(room, m, p, c, s, t, fails, u) ==
  /\ m = queue[1] /\ p = NextPromise /\ c = NextPair /\ s = New(Store, p)
  /\ fails = (state[m.thenable] # "pending" /\ room = 0)
  /\ t = ThenReactions(s, m.thenable, <<c, "resolve">>, <<c, "reject">>, c + 1, room)
  /\ u = IF fails THEN Settle(t, m.promise, "rejected", ERR, room) ELSE t
  /\ queue # <<>> /\ m \in Job /\ m.type = "thenable" /\ CanCreate(1, 2)
  /\ p \in Promise /\ c \in Pair /\ c + 1 \in Pair /\ c \in Nat
  /\ m.promise \in Promise /\ m.thenable \in Promise
  /\ state[p] = "free" /\ target[c] = NONE /\ target[c + 1] = NONE
  /\ source[c] = NONE /\ source[c + 1] = NONE
  /\ s \in StoreType /\ s.state = [state EXCEPT ![p] = "pending"] /\ s.queue = queue
  /\ target' \in PairMap /\ source' \in PairMap
  /\ target' = [target EXCEPT ![c] = m.promise, ![c + 1] = p]
  /\ source' = [source EXCEPT ![c + 1] = m.thenable]
  /\ StoreOK(s, target', source')
  /\ ThenTo(s, t, m.thenable, <<c, "resolve">>, <<c, "reject">>, c + 1)
  /\ StoreOK(t, target', source') /\ Evolves(s, t)
  /\ StoreOK(u, target', source') /\ Evolves(t, u) /\ Evolves(s, u)
  /\ Becomes(u) /\ Unlink(u, unlinked + 1)
  /\ done' \subseteq Cap
  /\ UNCHANGED <<held, known, frames, ops, ran>>

LEMMA AdoptionParts ==
  ASSUME BaseInv, NEW room \in Nat, AdoptPromise(room)
  PROVE  \E m, p, c, s, t, fails, u : Adoption(room, m, p, c, s, t, fails, u)
<1> DEFINE m == queue[1]
           p == NextPromise
           c == NextPair
           s == New(Store, p)
           fails == state[m.thenable] # "pending" /\ room = 0
           t == ThenReactions(s, m.thenable, <<c, "resolve">>, <<c, "reject">>, c + 1, room)
           u == IF fails THEN Settle(t, m.promise, "rejected", ERR, room) ELSE t
<1>1. /\ queue # <<>> /\ m.type = "thenable" /\ m.thenable \in Promise /\ CanCreate(1, 2)
      /\ UNCHANGED <<held, known, frames, ops, ran>>
      /\ Becomes(u) /\ Unlink(u, unlinked + 1)
      /\ target' = [target EXCEPT ![c] = m.promise, ![c + 1] = p]
      /\ source' = [source EXCEPT ![c + 1] = m.thenable]
      /\ done' = IF fails THEN done \cup {<<c, "reject">>} ELSE done
  BY DEF AdoptPromise, AdoptHandlers
<1>2. m \in Job /\ JobOK(m, Store, target, source)
  BY <1>1, HeadOK
<1>3. /\ m.promise \in Promise /\ state[m.promise] # "free" /\ m.promise # NONE
      /\ state[m.thenable] # "free" /\ m.thenable # NONE
  BY <1>1, <1>2, JobParts, Facts, PromiseAssumption DEF JobOK
<1>4. /\ p \in Promise /\ state[p] = "free" /\ p # NONE /\ c \in Pair /\ c + 1 \in Pair /\ c \in Nat
      /\ target[c] = NONE /\ target[c + 1] = NONE
  BY <1>1, Fresh, PromiseAssumption
<1>5. /\ StoreOK(s, target, source) /\ s.state = [state EXCEPT ![p] = "pending"] /\ s.queue = queue
      /\ s.state[p] = "pending" /\ s.state[m.promise] # "free" /\ s.state[m.thenable] # "free"
  BY <1>1, <1>3, <1>4, NextCreated
<1>6. /\ m = queue[1] /\ p = NextPromise /\ c = NextPair /\ s = New(Store, p)
      /\ fails = (state[m.thenable] # "pending" /\ room = 0)
      /\ t = ThenReactions(s, m.thenable, <<c, "resolve">>, <<c, "reject">>, c + 1, room)
      /\ u = IF fails THEN Settle(t, m.promise, "rejected", ERR, room) ELSE t
  OBVIOUS
<1>7. done' \subseteq Cap
  <2>1. <<c, "reject">> \in Cap
    BY <1>4 DEF Cap, Kind
  <2> HIDE DEF fails, c
  <2> QED
    BY <1>1, <2>1, Facts DEF TypeOK
<1> HIDE DEF m, p, c, s
<1>8. /\ target' \in PairMap /\ target'[c] = m.promise /\ target'[c + 1] = p
      /\ \A d \in Pair \ {c, c + 1} : target'[d] = target[d]
      /\ source' \in PairMap /\ source'[c + 1] = m.thenable
      /\ \A d \in Pair \ {c + 1} : source'[d] = source[d]
  <2>1. /\ target' = [target EXCEPT ![c] = m.promise, ![c + 1] = p]
        /\ source' = [source EXCEPT ![c + 1] = m.thenable] /\ c # c + 1
    BY <1>1, <1>4
  <2>2. target \in PairMap /\ source \in PairMap
    BY Facts DEF TypeOK, PairMap
  <2> DEFINE a == m.promise
             b == m.thenable
  <2>3. a \in Promise /\ b \in Promise /\ p \in Promise /\ c \in Pair /\ c + 1 \in Pair
    BY <1>1, <1>3, <1>4
  <2> HIDE DEF a, b
  <2>4. target' = [target EXCEPT ![c] = a, ![c + 1] = p] /\ source' = [source EXCEPT ![c + 1] = b]
    BY <2>1 DEF a, b
  <2>5. /\ target' \in PairMap /\ target'[c] = a /\ target'[c + 1] = p
        /\ \A d \in Pair \ {c, c + 1} : target'[d] = target[d]
    BY <2>1, <2>2, <2>3, <2>4 DEF PairMap
  <2>6. /\ source' \in PairMap /\ source'[c + 1] = b
        /\ \A d \in Pair \ {c + 1} : source'[d] = source[d]
    BY <2>2, <2>3, <2>4 DEF PairMap
  <2> QED
    BY <2>5, <2>6 DEF a, b
<1>9. source[c] = NONE /\ source[c + 1] = NONE
  BY <1>4, Facts DEF StoreOK, PairsOK
<1>10. StoreOK(s, target', source')
  <2>1. Wider(s, target, target')
    <3> HIDE DEF p, c
    <3>1. \A d \in Pair : target[d] # NONE => d # c /\ d # c + 1
      BY <1>4
    <3> QED
      BY <1>3, <1>4, <1>5, <1>8, <3>1 DEF Wider, StoreOK, PairsOK
  <2>2. \A d \in Pair : \/ source'[d] = source[d]
                        \/ source[d] = NONE /\ target'[d] # NONE /\ s.state[source'[d]] # "free"
    <3>1. \A d \in Pair \ {c + 1} : source'[d] = source[d]
      BY <1>8
    <3>2. source[c + 1] = NONE /\ target'[c + 1] # NONE /\ s.state[source'[c + 1]] # "free"
      BY <1>4, <1>5, <1>8, <1>9
    <3> HIDE DEF p, c
    <3> QED
      BY <3>1, <3>2
  <2> DEFINE tg2 == target'
             src2 == source'
  <2>3. /\ Wider(s, target, tg2) /\ src2 \in PairMap
        /\ \A d \in Pair : \/ src2[d] = source[d]
                           \/ source[d] = NONE /\ tg2[d] # NONE /\ s.state[src2[d]] # "free"
    BY <1>8, <2>1, <2>2
  <2> HIDE DEF tg2, src2
  <2>4. StoreOK(s, tg2, src2)
    BY <1>5, <2>3, WiderOK
  <2> QED
    BY <2>4 DEF tg2, src2
<1> DEFINE hf == <<c, "resolve">>
           hr == <<c, "reject">>
<1>11. /\ hf \in Handler /\ hr \in Handler /\ hf[1] = c /\ hf[2] = "resolve" /\ hr[1] = c
       /\ hr[2] = "reject"
  BY <1>4 DEF Handler, Cap, Kind
<1>12. CapOK(hf, "resolve", target') /\ CapOK(hr, "reject", target')
  BY <1>3, <1>8, <1>11 DEF CapOK
<1> HIDE DEF hf, hr
<1>13. s \in StoreType /\ ThenTo(s, t, m.thenable, hf, hr, c + 1)
  BY <1>1, <1>4, <1>5, <1>11, ThenParts DEF StoreOK, hf, hr
<1> HIDE DEF t
<1>14. StoreOK(t, target', source')
  BY <1>1, <1>4, <1>5, <1>8, <1>10, <1>11, <1>12, <1>13, ThenOK
<1>15. Evolves(s, t) /\ t \in StoreType
  BY <1>1, <1>4, <1>11, <1>13, <1>14, ThenEvolves DEF StoreOK
<1>16. StoreOK(u, target', source') /\ Evolves(t, u)
  <2>1. "rejected" \in Final /\ ERR \in Value /\ "rejected" # "fulfilled"
    BY DEF Final, Value
  <2>2. CASE fails
    BY <1>3, <1>14, <2>1, <2>2, SettleOK
  <2>3. CASE ~fails
    BY <1>14, <1>15, <2>3, EvolvesRefl
  <2> QED
    BY <2>2, <2>3
<1> HIDE DEF u, fails
<1>17. Evolves(s, u)
  BY <1>13, <1>15, <1>16, EvolvesTrans DEF StoreOK
<1>18. ThenTo(s, t, m.thenable, <<c, "resolve">>, <<c, "reject">>, c + 1)
  BY <1>13 DEF hf, hr
<1>19. Adoption(room, m, p, c, s, t, fails, u)
  BY <1>1, <1>2, <1>3, <1>4, <1>5, <1>6, <1>7, <1>8, <1>9, <1>10, <1>13, <1>14, <1>15, <1>16,
     <1>17, <1>18 DEF Adoption
<1> QED
  BY <1>19

LEMMA AdoptPromiseOK ==
  ASSUME BaseInv, NoLostWakeup, NEW room \in Nat, AdoptPromise(room)
  PROVE  BaseInv' /\ NoLostWakeup'
<1>1. PICK m, p, c, s, t, fails, u : Adoption(room, m, p, c, s, t, fails, u)
  BY AdoptionParts
<1>2. /\ queue # <<>> /\ CanCreate(1, 2) /\ p \in Promise /\ c \in Pair /\ c + 1 \in Pair /\ c \in Nat
      /\ m.promise \in Promise /\ s \in StoreType
      /\ s.state = [state EXCEPT ![p] = "pending"] /\ s.queue = queue
      /\ target' = [target EXCEPT ![c] = m.promise, ![c + 1] = p]
      /\ StoreOK(u, target', source') /\ Evolves(s, u) /\ Becomes(u) /\ Unlink(u, unlinked + 1)
      /\ done' \subseteq Cap /\ UNCHANGED <<held, known, frames, ops, ran>>
      /\ p = NextPromise /\ c = NextPair
  BY <1>1 DEF Adoption
<1>3. state' = u.state /\ u \in StoreType /\ p = NextPromise /\ c = NextPair
  BY <1>2 DEF Becomes, StoreOK
<1>4. Creates(1, 2)
  <2>1. 1 \in 0..1 /\ 2 \in 0..2
    OBVIOUS
  <2>2. p # NONE /\ m.promise # NONE
    BY <1>2, PromiseAssumption
  <2>3. \A d \in Pair : target'[d] # NONE <=> target[d] # NONE \/ d \in {c, c + 1}
    BY <1>2, <2>2, Facts DEF TypeOK
  <2>4. NextPair..(NextPair + 2 - 1) = {c, c + 1}
    BY <1>2
  <2>5. \A d \in Pair : target'[d] # NONE <=> target[d] # NONE \/ d \in NextPair..(NextPair + 2 - 1)
    BY <2>3, <2>4
  <2> QED
    BY <1>2, <1>3, <2>1, <2>5, CreatesNext
<1>5. queue # <<>> => u.queue # <<>>
  BY <1>2, <1>3, EvolvesQueue
<1>6. QueueStep(u)
  BY <1>2, Facts, HeadUnlinked
<1>7. /\ held' \subseteq Pair /\ known' \subseteq Promise
      /\ \A x \in known' : x \in known \/ state'[x] # "free"
      /\ \A d \in held' : d \in held \/ target'[d] # NONE
      /\ ran' \in Seq(Pair) /\ ops' \in 0..MaxOps /\ frames' \in Seq(Frame) /\ (Draining => Draining')
      /\ \A i \in 1..Len(frames') : \E j \in 1..Len(frames) : frames'[i] = frames[j]
  BY <1>2, Facts DEF TypeOK, Draining
<1>8. 1 \in 0..1 /\ 2 \in 0..2
  OBVIOUS
<1> QED
  BY <1>2, <1>4, <1>5, <1>6, <1>7, <1>8, StepOK

-----------------------------------------------------------------------------
(* The invariants for every schedule, nested drains included.               *)

\* What user code can name exists, so it can resolve with it.
LEMMA ValuesOK ==
  ASSUME BaseInv
  PROVE  /\ \A v \in Values : v \in Value /\ Resolvable(Store, v)
         /\ \A v \in Reasons : v \in Value
         /\ ERR \in Value
         /\ \A c \in Pair, k \in Kind : <<c, k>> \in Cap /\ <<c, k>>[2] = k
         /\ \A room \in Rooms : room \in Nat
<1>1. \A v \in known : v \in Promise /\ state[v] # "free"
  BY DEF BaseInv, ContextOK, TypeOK
<1>2. \A v \in Values : v \in Value /\ Resolvable(Store, v)
  BY <1>1, Facts, PromiseAssumption DEF Values, Value, Resolvable
<1> QED
  BY <1>1, <1>2, PromiseAssumption DEF Reasons, Value, Cap, Kind

LEMMA BaseInit ==
  ASSUME Init
  PROVE  BaseInv /\ NoLostWakeup
<1>1. TypeOK
  <2>1. <<>> \in Seq(Reaction) /\ <<>> \in Seq(Job) /\ <<>> \in Seq(Frame) /\ <<>> \in Seq(Pair)
    BY EmptySeq
  <2>2. PLAIN \in Value /\ 0 \in 0..MaxOps
    BY PromiseAssumption DEF Value
  <2> QED
    BY <2>1, <2>2 DEF Init, TypeOK
<1>2. StoreOK(Store, target, source)
  <2>1. Store \in StoreType /\ target \in PairMap /\ source \in PairMap
    BY <1>1 DEF TypeOK, Store, StoreType, States, PairMap
  <2>2. /\ Store.state = [p \in Promise |-> "free"] /\ Store.queue = <<>>
        /\ Store.fq = [p \in Promise |-> <<>>] /\ Store.rq = [p \in Promise |-> <<>>]
    BY DEF Init, Store
  <2>3. PairsOK(Store, target, source) /\ Unwrapped(Store)
    BY <2>2 DEF Init, PairsOK, Unwrapped
  <2>4. ListsOK(Store, target, source) /\ JobsOK(Store, target, source)
    BY <2>2, EmptySeq DEF ListsOK, JobsOK
  <2> QED
    BY <2>1, <2>3, <2>4 DEF StoreOK
<1>3. ContextOK
  <2>1. CreatedTo(Store, 0) /\ PairsTo(target, 0)
    BY DEF Init, CreatedTo, PairsTo, Store, Promise, Pair
  <2>2. 0 \in 0..MaxPromise /\ 0 \in 0..MaxPair
    BY PromiseAssumption
  <2>3. \A i \in 1..Len(frames) : FrameOK(frames[i], state, target, unlinked, queue)
    BY EmptySeq DEF Init
  <2> QED
    BY <2>1, <2>2, <2>3 DEF Init, ContextOK
<1> QED
  BY <1>1, <1>2, <1>3 DEF BaseInv, NoLostWakeup, Init

LEMMA BaseStep ==
  ASSUME BaseInv, NoLostWakeup, [Next]_vars
  PROVE  BaseInv' /\ NoLostWakeup'
<1>1. CASE User
  <2>1. CASE NewPromise
    BY <2>1, NewPromiseOK
  <2>2. ASSUME NEW c \in Pair, NEW v \in Values, NEW room \in Rooms, CapCall(<<c, "resolve">>, v, room)
        PROVE  BaseInv' /\ NoLostWakeup'
    BY <2>2, ValuesOK, CapCallOK DEF Kind
  <2>3. ASSUME NEW c \in Pair, NEW v \in Reasons, NEW room \in Rooms, CapCall(<<c, "reject">>, v, room)
        PROVE  BaseInv' /\ NoLostWakeup'
    <3>1. <<c, "reject">> \in Cap /\ <<c, "reject">>[2] # "resolve" /\ v \in Value /\ room \in Nat
      BY ValuesOK DEF Kind
    <3> QED
      BY <2>3, <3>1, CapCallOK
  <2>4. ASSUME NEW p \in known, NEW hf \in {NONE, USER}, NEW hr \in {NONE, USER}, NEW room \in Rooms,
               Then(p, hf, hr, room)
        PROVE  BaseInv' /\ NoLostWakeup'
    BY <2>4, ValuesOK, ThenStepOK
  <2>5. ASSUME NEW v \in Values, NEW room \in Rooms, PromiseResolve(v, room)
        PROVE  BaseInv' /\ NoLostWakeup'
    BY <2>5, ValuesOK, PromiseResolveOK
  <2>6. ASSUME NEW v \in Reasons, PromiseReject(v)
        PROVE  BaseInv' /\ NoLostWakeup'
    BY <2>6, PromiseRejectOK
  <2> QED
    BY <1>1, <2>1, <2>2, <2>3, <2>4, <2>5, <2>6 DEF User
<1>2. CASE Return
  <2>1. ASSUME NEW throws \in BOOLEAN, CtorReturn(throws) PROVE BaseInv' /\ NoLostWakeup'
    BY <2>1, CtorReturnOK
  <2>2. ASSUME NEW v \in Values, NEW room \in Rooms, HandlerReturn("resolve", v, room)
        PROVE  BaseInv' /\ NoLostWakeup'
    BY <2>2, ValuesOK, HandlerReturnOK DEF Kind
  <2>3. ASSUME NEW room \in Rooms, HandlerReturn("reject", ERR, room)
        PROVE  BaseInv' /\ NoLostWakeup'
    BY <2>3, ValuesOK, HandlerReturnOK DEF Kind
  <2>4. ASSUME NEW throws \in BOOLEAN, NEW room \in Rooms, ThenMethodReturn(throws, room)
        PROVE  BaseInv' /\ NoLostWakeup'
    BY <2>4, ValuesOK, ThenMethodReturnOK
  <2> QED
    BY <1>2, <2>1, <2>2, <2>3, <2>4 DEF Return
<1>3. CASE WakeDrain \/ CallDrain
  BY <1>3, DrainStartOK
<1>4. CASE RunJob
  <2>1. ASSUME NEW room \in Rooms, PassThrough(room) \/ AdoptedSettles(room) \/ AdoptPromise(room)
        PROVE  BaseInv' /\ NoLostWakeup'
    BY <2>1, ValuesOK, PassThroughOK, AdoptedSettlesOK, AdoptPromiseOK
  <2>2. CASE CallHandler
    BY <2>2, CallHandlerOK
  <2>3. CASE CallThen
    BY <2>3, CallThenOK
  <2>4. CASE AdoptionAbandoned
    BY <2>4, AdoptionAbandonedOK
  <2> QED
    BY <1>4, <2>1, <2>2, <2>3, <2>4 DEF RunJob
<1>5. CASE DrainEnd
  BY <1>5, DrainEndOK
<1>6. CASE UNCHANGED vars
  <2>1. UNCHANGED <<stored, drained>> /\ frames' = frames /\ wake' = wake
    BY <1>6 DEF vars, drained
  <2>2. BaseInv'
    BY <2>1, Facts, FramesOnly DEF TypeOK
  <2>3. NoLostWakeup'
    BY <2>1 DEF NoLostWakeup, Draining, stored
  <2> QED
    BY <2>2, <2>3
<1> QED
  BY <1>1, <1>2, <1>3, <1>4, <1>5, <1>6 DEF Next

\* The inductive invariant holds however drains nest.
THEOREM BaseAlways == Spec => [](BaseInv /\ NoLostWakeup)
<1>1. Init => BaseInv /\ NoLostWakeup
  BY BaseInit
<1>2. (BaseInv /\ NoLostWakeup) /\ [Next]_vars => (BaseInv /\ NoLostWakeup)'
  BY BaseStep
<1> QED
  BY <1>1, <1>2, PTL DEF Spec

\* A queued reaction carries the state and the value its promise settled with, and promises are
\* fulfilled with unwrapped values only, after any sequence of calls, adoptions, nested drains and
\* allocation failures of duk_rp_promise_native.c.
THEOREM PromiseStateHolds == Spec => []PromiseState
<1>1. BaseInv => PromiseState
  <2> SUFFICES ASSUME BaseInv PROVE PromiseState
    OBVIOUS
  <2>1. FulfilledUnwrapped
    BY Facts DEF FulfilledUnwrapped, StoreOK, Unwrapped
  <2>2. JobsMatch
    BY Facts DEF JobsMatch, StoreOK, JobsOK, JobOK
  <2> QED
    BY <2>1, <2>2, Facts DEF PromiseState
<1> QED
  BY <1>1, BaseAlways, PTL

\* Whenever a microtask is queued a drain runs or has been asked for, although drains nest, jobs
\* queue jobs and user code calls the drainer.
THEOREM NoWakeupLost == Spec => []NoLostWakeup
BY BaseAlways, PTL

-----------------------------------------------------------------------------
(* Each reaction in one place, when jobs do not drain the queue themselves. *)

\* The reactions queued before and after jobs are added.
LEMMA QueuedConcat ==
  ASSUME NEW s, NEW t, s.queue \in Seq(Job), NEW J \in Seq(Job), t.queue = s.queue \o J, NEW c
  PROVE  Queued(t, c) <=> Queued(s, c) \/ Among(J, c)
<1> DEFINE q == s.queue
<1>1. /\ q \in Seq(Job) /\ Len(q) \in Nat /\ Len(J) \in Nat /\ Len(q \o J) = Len(q) + Len(J)
      /\ \A i \in 1..Len(q) : (q \o J)[i] = q[i]
      /\ \A k \in 1..Len(J) : (q \o J)[Len(q) + k] = J[k]
  BY ConcatProperties, LenProperties
<1> HIDE DEF q
<1>2. t.queue = q \o J
  BY DEF q
<1>3. ASSUME Queued(t, c)
      PROVE  Queued(s, c) \/ \E k \in 1..Len(J) : J[k].type = "reaction" /\ J[k].pair = c
  <2>1. PICK i \in 1..Len(q \o J) : (q \o J)[i].type = "reaction" /\ (q \o J)[i].pair = c
    BY <1>2, <1>3 DEF Queued
  <2>2. \/ i \in 1..Len(q) /\ (q \o J)[i] = q[i]
        \/ \E k \in 1..Len(J) : i = Len(q) + k /\ (q \o J)[i] = J[k]
    BY <1>1, ConcatElements
  <2> QED
    BY <2>1, <2>2 DEF Queued, q
<1>4. ASSUME Queued(s, c) PROVE Queued(t, c)
  <2>1. PICK i \in 1..Len(q) : q[i].type = "reaction" /\ q[i].pair = c
    BY <1>4 DEF Queued, q
  <2>2. i \in 1..Len(q \o J) /\ (q \o J)[i] = q[i]
    BY <1>1
  <2> QED
    BY <1>2, <2>1, <2>2 DEF Queued
<1>5. ASSUME NEW k \in 1..Len(J), J[k].type = "reaction" /\ J[k].pair = c PROVE Queued(t, c)
  <2>1. Len(q) + k \in 1..Len(q \o J) /\ (q \o J)[Len(q) + k] = J[k]
    BY <1>1
  <2> QED
    BY <1>2, <1>5, <2>1 DEF Queued
<1> QED
  BY <1>3, <1>4, <1>5 DEF Among

\* A queued reaction belongs to a then() call on a settled promise.
LEMMA QueuedSettled ==
  ASSUME NEW s, NEW tg, NEW src, StoreOK(s, tg, src), NEW c, Queued(s, c)
  PROVE  c \in Pair /\ src[c] \in Promise /\ src[c] # NONE /\ s.state[src[c]] \in Final
<1>1. PICK i \in 1..Len(s.queue) : s.queue[i].type = "reaction" /\ s.queue[i].pair = c
  BY DEF Queued
<1> DEFINE m == s.queue[i]
<1>2. m \in Job /\ JobOK(m, s, tg, src) /\ m.type = "reaction" /\ m.pair = c
  BY <1>1, ElementOfSeq DEF StoreOK, JobsOK, StoreType
<1> HIDE DEF m
<1> QED
  BY <1>2, JobParts DEF JobOK, StoreOK, PairMap

\* The queue stays in order when the added jobs are in order and come after the others.
LEMMA OrderedConcat ==
  ASSUME NEW q \in Seq(Job), NEW J \in Seq(Job), NEW src, InOrder(q, src), InOrder(J, src),
         \A i \in 1..Len(q), j \in 1..Len(J) : Before(q[i], J[j], src)
  PROVE  InOrder(q \o J, src)
<1> DEFINE r == q \o J
<1> SUFFICES ASSUME NEW x \in 1..Len(r), NEW y \in 1..Len(r), x < y
             PROVE  Before(r[x], r[y], src)
  BY DEF InOrder
<1>1. Len(q) \in Nat /\ Len(J) \in Nat
  BY LenProperties
<1>2. \/ x \in 1..Len(q) /\ r[x] = q[x]
      \/ \E k \in 1..Len(J) : x = Len(q) + k /\ r[x] = J[k]
  BY ConcatElements
<1>3. \/ y \in 1..Len(q) /\ r[y] = q[y]
      \/ \E k \in 1..Len(J) : y = Len(q) + k /\ r[y] = J[k]
  BY ConcatElements
<1> HIDE DEF r
<1>4. CASE x \in 1..Len(q) /\ r[x] = q[x] /\ y \in 1..Len(q) /\ r[y] = q[y]
  BY <1>4 DEF InOrder
<1>5. ASSUME x \in 1..Len(q), r[x] = q[x], NEW k \in 1..Len(J), r[y] = J[k]
      PROVE  Before(r[x], r[y], src)
  BY <1>5
<1>6. ASSUME NEW k \in 1..Len(J), x = Len(q) + k, y \in 1..Len(q)
      PROVE  FALSE
  BY <1>1, <1>6
<1>7. ASSUME NEW k \in 1..Len(J), x = Len(q) + k, r[x] = J[k],
             NEW l \in 1..Len(J), y = Len(q) + l, r[y] = J[l]
      PROVE  Before(r[x], r[y], src)
  <2>1. k < l
    BY <1>1, <1>7
  <2> QED
    BY <1>7, <2>1 DEF InOrder
<1> QED
  BY <1>2, <1>3, <1>4, <1>5, <1>6, <1>7

\* What holds of every intermediate result, for the reactions rn that have run.
OnceStore(s, tg, src, rn) ==
  StoreOK(s, tg, src) /\ Ordered(s, src) /\ Placed(s, src, rn) /\ rn \in Seq(Pair)

\* No reaction that has run is queued again.
Fewer(s, t, rn) == \A c \in Pair : Queued(t, c) /\ Happened(rn, c) => Queued(s, c)

\* A reaction that has run, or was lost, belongs to a then() call on a settled promise.
LEMMA GoneSettled ==
  ASSUME NEW s, NEW tg, NEW src, NEW rn, OnceStore(s, tg, src, rn), NEW c, Happened(rn, c) \/ c \in s.lost
  PROVE  c \in Pair /\ src[c] \in Promise /\ src[c] # NONE /\ s.state[src[c]] \in Final
<1>1. c \in Pair
  BY ElementOfSeq DEF OnceStore, Happened, StoreOK, StoreType
<1>2. src[c] # NONE /\ s.state[src[c]] \in Final
  BY DEF OnceStore, Happened, Placed
<1> QED
  BY <1>1, <1>2 DEF OnceStore, StoreOK, PairMap

\* Settling moves every waiting reaction of the promise to the queue, or loses it.
LEMMA SettledOnce ==
  ASSUME NEW s, NEW tg, NEW src, NEW rn, OnceStore(s, tg, src, rn), NEW p \in Promise,
         NEW st \in Final, NEW v \in Value, st = "fulfilled" => v = PLAIN, s.state[p] = "pending",
         NEW t, NEW n \in 0..Len(Reactions(s, p, st)), NEW J, SettledTo(s, t, p, st, v, n, J)
  PROVE  OnceStore(t, tg, src, rn) /\ Fewer(s, t, rn)
<1> DEFINE rs == Reactions(s, p, st)
<1>1. StoreOK(s, tg, src) /\ Ordered(s, src) /\ Placed(s, src, rn) /\ rn \in Seq(Pair)
  BY DEF OnceStore
<1>2. StoreOK(t, tg, src)
  BY <1>1, SettledToOK
<1>3. s \in StoreType /\ t \in StoreType /\ s.queue \in Seq(Job)
  BY <1>1, <1>2 DEF StoreOK, StoreType
<1>4. /\ t.state[p] = st /\ \A q \in Promise \ {p} : t.state[q] = s.state[q]
  BY <1>3 DEF SettledTo, StoreType
<1>5. /\ J \in Seq(Job) /\ Len(J) = n /\ t.queue = s.queue \o J
      /\ \A k \in 1..n : J[k] = ReactionOf(rs[k], st, v)
      /\ t.lost = s.lost \cup {rs[k].pair : k \in (n + 1)..Len(rs)}
  BY DEF SettledTo
<1>6. Len(rs) \in Nat /\ Len(rs) = Len(s.fq[p]) /\ n \in Nat /\ n <= Len(rs)
  <2>1. Len(rs) \in Nat
    BY <1>3, LenProperties DEF Reactions, StoreType
  <2>2. Len(rs) = Len(s.fq[p])
    BY <1>1 DEF Reactions, StoreOK, ListsOK
  <2> QED
    BY <2>1, <2>2
<1>7. \A k \in 1..Len(rs) : rs[k] \in Reaction /\ rs[k].pair = s.fq[p][k].pair /\ src[rs[k].pair] = p
                            /\ rs[k].pair \in Pair
  BY <1>1, ReactionsOK, ReactionParts
<1> HIDE DEF rs
<1>8. \A k \in 1..Len(J) : /\ J[k].type = "reaction" /\ J[k].pair = rs[k].pair /\ src[J[k].pair] = p
                           /\ k \in 1..Len(rs)
  <2> SUFFICES ASSUME NEW k \in 1..Len(J)
               PROVE  /\ J[k].type = "reaction" /\ J[k].pair = rs[k].pair /\ src[J[k].pair] = p
                      /\ k \in 1..Len(rs)
    OBVIOUS
  <2>1. k \in 1..n /\ k \in 1..Len(rs)
    BY <1>5, <1>6
  <2>2. J[k].type = "reaction" /\ J[k].pair = rs[k].pair
    BY <1>5, <1>7, <2>1, ReactionOfType
  <2> QED
    BY <1>7, <2>1, <2>2
<1>9. \A k, l \in 1..Len(rs) : k < l => rs[k].pair < rs[l].pair
  <2>1. \A k, l \in 1..Len(s.fq[p]) : k < l => s.fq[p][k].pair < s.fq[p][l].pair
    BY <1>1 DEF Ordered
  <2> QED
    BY <1>6, <1>7, <2>1
<1>10. \A c : Queued(s, c) => src[c] \in Promise \ {p} /\ s.state[src[c]] \in Final
  BY <1>1, QueuedSettled DEF Final
<1>11. \A c : Happened(rn, c) \/ c \in s.lost => src[c] \in Promise \ {p} /\ s.state[src[c]] \in Final
  BY GoneSettled DEF Final
<1>12. \A c : Queued(t, c) <=> Queued(s, c) \/ Among(J, c)
  BY <1>3, <1>5, QueuedConcat
<1>13. \A c : Queued(t, c) => Queued(s, c) \/ src[c] = p
  <2> SUFFICES ASSUME NEW c, Queued(t, c), ~Queued(s, c) PROVE src[c] = p
    OBVIOUS
  <2>1. PICK k \in 1..Len(J) : J[k].pair = c
    BY <1>12 DEF Among
  <2> QED
    BY <1>8, <2>1
<1>14. \A c : Queued(s, c) => Queued(t, c)
  BY <1>12
<1>15. Ordered(t, src)
  <2>1. ASSUME NEW q \in Promise, NEW i \in 1..Len(t.fq[q]), NEW j \in 1..Len(t.fq[q]), i < j
        PROVE  t.fq[q][i].pair < t.fq[q][j].pair
    <3>1. CASE t.fq[q] = s.fq[q]
      BY <1>1, <2>1, <3>1 DEF Ordered
    <3>2. CASE t.fq[q] = <<>>
      BY <3>2, EmptySeq
    <3> QED
      BY <3>1, <3>2 DEF SettledTo
  <2>2. \A i \in 1..Len(s.queue), j \in 1..Len(J) : Before(s.queue[i], J[j], src)
    BY <1>8, <1>10 DEF Queued, Before
  <2>3. InOrder(J, src)
    BY <1>8, <1>9 DEF InOrder, Before
  <2>4. InOrder(s.queue, src)
    BY <1>1 DEF Ordered
  <2>5. InOrder(t.queue, src)
    <3> DEFINE q == s.queue
    <3>1. q \in Seq(Job) /\ InOrder(q, src) /\ \A i \in 1..Len(q), j \in 1..Len(J) : Before(q[i], J[j], src)
      BY <1>3, <2>2, <2>4
    <3> HIDE DEF q
    <3>2. InOrder(q \o J, src)
      BY <1>5, <2>3, <3>1, OrderedConcat
    <3> QED
      BY <1>5, <3>2 DEF q
  <2> QED
    BY <2>1, <2>5 DEF Ordered
<1>16. Placed(t, src, rn)
  <2>1. ASSUME NEW c \in Pair, src[c] # NONE, t.state[src[c]] = "pending"
        PROVE  \E i \in 1..Len(t.fq[src[c]]) : t.fq[src[c]][i].pair = c
    <3>1. src[c] \in Promise \ {p} /\ s.state[src[c]] = "pending"
      BY <1>1, <1>4, <2>1 DEF StoreOK, PairMap, Final
    <3>2. t.fq[src[c]] = s.fq[src[c]]
      BY <3>1 DEF SettledTo
    <3> QED
      BY <1>1, <2>1, <3>1, <3>2 DEF Placed
  <2>2. ASSUME NEW c \in Pair, src[c] # NONE, t.state[src[c]] \in Final
        PROVE  Queued(t, c) \/ Happened(rn, c) \/ c \in t.lost
    <3>1. src[c] \in Promise
      BY <1>1, <2>2 DEF StoreOK, PairMap
    <3>2. CASE src[c] = p
      <4>1. PICK i \in 1..Len(s.fq[p]) : s.fq[p][i].pair = c
        BY <1>1, <2>2, <3>2 DEF Placed
      <4>2. i \in 1..Len(rs) /\ rs[i].pair = c
        BY <1>6, <1>7, <4>1
      <4>3. CASE i <= n
        <5>1. i \in 1..Len(J)
          BY <1>5, <1>6, <4>2, <4>3
        <5> QED
          BY <1>8, <1>12, <4>2, <5>1 DEF Among
      <4>4. CASE i > n
        <5>1. i \in (n + 1)..Len(rs)
          BY <1>6, <4>2, <4>4
        <5> QED
          BY <1>5, <4>2, <5>1
      <4> QED
        BY <1>6, <4>2, <4>3, <4>4
    <3>3. CASE src[c] # p
      BY <1>1, <1>4, <1>5, <1>14, <2>2, <3>1, <3>3 DEF Placed
    <3> QED
      BY <3>2, <3>3
  <2>3. ASSUME NEW c \in t.lost
        PROVE  src[c] # NONE /\ t.state[src[c]] \in Final /\ ~Queued(t, c) /\ ~Happened(rn, c)
    <3>1. CASE c \in s.lost
      BY <1>1, <1>4, <1>11, <1>13, <3>1, PromiseAssumption DEF Placed
    <3>2. ASSUME NEW k \in (n + 1)..Len(rs), c = rs[k].pair
          PROVE  src[c] # NONE /\ t.state[src[c]] \in Final /\ ~Queued(t, c) /\ ~Happened(rn, c)
      <4>1. k \in 1..Len(rs) /\ src[c] = p /\ k > n
        BY <1>6, <1>7, <3>2
      <4>2. ~Queued(s, c) /\ ~Happened(rn, c)
        BY <1>10, <1>11, <4>1
      <4>3. ASSUME NEW l \in 1..Len(J), J[l].pair = c PROVE FALSE
        <5>1. l \in 1..Len(rs) /\ rs[l].pair = c /\ l <= n
          BY <1>5, <1>6, <1>8, <4>3
        <5>2. l < k
          BY <1>6, <4>1, <5>1
        <5>3. rs[l].pair < rs[k].pair
          BY <1>9, <4>1, <5>1, <5>2
        <5> QED
          BY <1>7, <3>2, <4>1, <5>1, <5>3, PromiseAssumption DEF Pair
      <4>4. ~Queued(t, c)
        BY <1>12, <4>2, <4>3 DEF Among
      <4> QED
        BY <1>4, <4>1, <4>2, <4>4, PromiseAssumption
    <3> QED
      BY <1>5, <3>1, <3>2
  <2>4. \A i \in 1..Len(rn) : src[rn[i]] # NONE /\ t.state[src[rn[i]]] \in Final
    BY <1>1, <1>4, <1>11 DEF Placed, Happened
  <2> QED
    BY <1>1, <2>1, <2>2, <2>3, <2>4 DEF Placed
<1>17. Fewer(s, t, rn)
  BY <1>11, <1>13 DEF Fewer
<1> QED
  BY <1>1, <1>2, <1>15, <1>16, <1>17 DEF OnceStore

LEMMA SettleOnce ==
  ASSUME NEW s, NEW tg, NEW src, NEW rn, OnceStore(s, tg, src, rn), NEW p \in Promise,
         NEW st \in Final, NEW v \in Value, st = "fulfilled" => v = PLAIN, NEW room \in Nat
  PROVE  OnceStore(Settle(s, p, st, v, room), tg, src, rn) /\ Fewer(s, Settle(s, p, st, v, room), rn)
<1>1. CASE s.state[p] # "pending"
  BY <1>1 DEF Settle, Fewer
<1>2. CASE s.state[p] = "pending"
  <2> DEFINE t == Settle(s, p, st, v, room)
  <2>1. s \in StoreType
    BY DEF OnceStore, StoreOK
  <2>2. PICK n \in 0..Len(Reactions(s, p, st)), J \in Seq(Job) : SettledTo(s, t, p, st, v, n, J)
    BY <1>2, <2>1, SettleParts
  <2> HIDE DEF t
  <2>3. OnceStore(t, tg, src, rn) /\ Fewer(s, t, rn)
    BY <1>2, <2>2, SettledOnce
  <2> QED
    BY <2>3 DEF t
<1> QED
  BY <1>1, <1>2

\* Adding a job that is not a reaction, or a reaction that is after the others of its promise.
LEMMA AddJobOrdered ==
  ASSUME NEW s, NEW t, NEW src, s.queue \in Seq(Job), InOrder(s.queue, src), NEW m \in Job,
         t.queue = Append(s.queue, m), \A i \in 1..Len(s.queue) : Before(s.queue[i], m, src)
  PROVE  /\ InOrder(t.queue, src)
         /\ \A c : Queued(t, c) <=> Queued(s, c) \/ (m.type = "reaction" /\ m.pair = c)
<1> DEFINE q == s.queue
           J == <<m>>
<1>1. q \in Seq(Job) /\ InOrder(q, src) /\ J \in Seq(Job) /\ Len(J) = 1 /\ J[1] = m
  OBVIOUS
<1>2. t.queue = q \o J
  BY AppendIsConcat
<1>3. \A i \in 1..Len(q), j \in 1..Len(J) : Before(q[i], J[j], src)
  BY <1>1
<1>4. InOrder(J, src)
  BY <1>1 DEF InOrder
<1>5. \A c : Among(J, c) <=> m.type = "reaction" /\ m.pair = c
  BY <1>1 DEF Among
<1> HIDE DEF J
<1>6. \A c : Queued(t, c) <=> Queued(s, c) \/ Among(J, c)
  BY <1>1, <1>2, QueuedConcat
<1> HIDE DEF q
<1>7. InOrder(q \o J, src)
  BY <1>1, <1>3, <1>4, OrderedConcat
<1> QED
  BY <1>2, <1>5, <1>6, <1>7

LEMMA AdoptLaterOnce ==
  ASSUME NEW s, NEW tg, NEW src, NEW rn, OnceStore(s, tg, src, rn), NEW p \in Promise, s.state[p] # "free",
         NEW v \in Promise \cup {THENABLE}, v \in Promise => s.state[v] # "free", NEW room \in Nat
  PROVE  OnceStore(AdoptLater(s, p, v, room), tg, src, rn) /\ Fewer(s, AdoptLater(s, p, v, room), rn)
<1>1. StoreOK(s, tg, src) /\ s \in StoreType /\ s.queue \in Seq(Job)
  BY DEF OnceStore, StoreOK, StoreType
<1>2. CASE room = 0
  BY <1>2 DEF AdoptLater, Fewer
<1>3. CASE room # 0
  <2> DEFINE m == [type |-> "thenable", promise |-> p, thenable |-> v]
             t == AdoptLater(s, p, v, room)
  <2>1. t = [s EXCEPT !.queue = Append(s.queue, m)]
    BY <1>3 DEF AdoptLater
  <2>2. m \in Job /\ m.type = "thenable"
    BY DEF Job, ThenableJob
  <2>3. StoreOK(t, tg, src)
    BY <1>1, AdoptLaterOK
  <2> HIDE DEF t, m
  <2>4. /\ t.queue = Append(s.queue, m) /\ t.state = s.state /\ t.fq = s.fq /\ t.lost = s.lost
    BY <1>1, <2>1 DEF StoreType
  <2>5. InOrder(s.queue, src)
    BY DEF OnceStore, Ordered
  <2>6. \A i \in 1..Len(s.queue) : Before(s.queue[i], m, src)
    BY <2>2 DEF Before
  <2>7. /\ InOrder(t.queue, src)
        /\ \A c : Queued(t, c) <=> Queued(s, c) \/ (m.type = "reaction" /\ m.pair = c)
    BY <1>1, <2>2, <2>4, <2>5, <2>6, AddJobOrdered
  <2>8. \A c : Queued(t, c) <=> Queued(s, c)
    BY <2>2, <2>7
  <2>9. Ordered(t, src)
    BY <2>4, <2>7 DEF OnceStore, Ordered
  <2>10. Placed(t, src, rn)
    BY <2>4, <2>8 DEF OnceStore, Placed
  <2>11. Fewer(s, t, rn)
    BY <2>8 DEF Fewer
  <2>12. OnceStore(t, tg, src, rn)
    BY <2>3, <2>9, <2>10 DEF OnceStore
  <2> QED
    BY <2>11, <2>12 DEF t
<1> QED
  BY <1>2, <1>3

LEMMA ResolveOnce ==
  ASSUME NEW s, NEW tg, NEW src, NEW rn, OnceStore(s, tg, src, rn), NEW p \in Promise,
         NEW v, Resolvable(s, v), NEW room \in Nat
  PROVE  OnceStore(Resolve(s, p, v, room), tg, src, rn) /\ Fewer(s, Resolve(s, p, v, room), rn)
<1>1. s \in StoreType /\ v \in Value /\ ERR \in Value /\ StoreOK(s, tg, src)
  BY DEF OnceStore, StoreOK, Resolvable, Value
<1>2. CASE s.state[p] # "pending" \/ v = BADTHEN
  BY <1>1, <1>2 DEF Resolve, Fewer
<1>3. CASE ~(s.state[p] # "pending" \/ v = BADTHEN) /\ v = p
  <2>1. Resolve(s, p, v, room) = Settle(s, p, "rejected", ERR, room)
    BY <1>3 DEF Resolve
  <2> QED
    BY <1>1, <2>1, SettleOnce DEF Final
<1>4. CASE /\ ~(s.state[p] # "pending" \/ v = BADTHEN) /\ v # p
           /\ v \in Promise /\ s.state[v] \in Final
  <2>1. Resolve(s, p, v, room) = Settle(s, p, s.state[v], s.result[v], room)
    BY <1>4 DEF Resolve, Final
  <2>2. s.result[v] \in Value /\ (s.state[v] = "fulfilled" => s.result[v] = PLAIN)
    BY <1>1, <1>4 DEF StoreOK, Unwrapped, StoreType
  <2> QED
    BY <1>4, <2>1, <2>2, SettleOnce
<1>5. CASE /\ ~(s.state[p] # "pending" \/ v = BADTHEN) /\ v # p
           /\ ~(v \in Promise /\ s.state[v] \in Final) /\ v \in Promise \cup {THENABLE}
  <2>1. Resolve(s, p, v, room) = AdoptLater(s, p, v, room)
    BY <1>5 DEF Resolve, Final
  <2> QED
    BY <1>5, <2>1, AdoptLaterOnce DEF Resolvable
<1>6. CASE /\ ~(s.state[p] # "pending" \/ v = BADTHEN) /\ v # p
           /\ v \notin Promise \cup {THENABLE}
  <2>1. Resolve(s, p, v, room) = Settle(s, p, "fulfilled", v, room) /\ v = PLAIN
    BY <1>6 DEF Resolve, Resolvable
  <2> QED
    BY <1>1, <2>1, SettleOnce DEF Final
<1> QED
  BY <1>2, <1>3, <1>4, <1>5, <1>6

LEMMA CallOnce ==
  ASSUME NEW s, NEW src, NEW rn, OnceStore(s, target, src, rn), NEW cap \in Cap, target[cap[1]] # NONE,
         NEW v \in Value, cap[2] = "resolve" => Resolvable(s, v), NEW room \in Nat
  PROVE  OnceStore(Call(s, cap, v, room), target, src, rn) /\ Fewer(s, Call(s, cap, v, room), rn)
<1>1. target[cap[1]] \in Promise
  BY DEF OnceStore, StoreOK, PairMap, Cap
<1>2. CASE cap \in done
  BY <1>2 DEF Call, Fewer
<1>3. CASE cap \notin done /\ cap[2] = "resolve"
  <2>1. Call(s, cap, v, room) = Resolve(s, target[cap[1]], v, room)
    BY <1>3 DEF Call
  <2> QED
    BY <1>1, <1>3, <2>1, ResolveOnce
<1>4. CASE cap \notin done /\ cap[2] # "resolve"
  <2>1. Call(s, cap, v, room) = Settle(s, target[cap[1]], "rejected", v, room)
    BY <1>4 DEF Call
  <2> QED
    BY <1>1, <2>1, SettleOnce DEF Final
<1> QED
  BY <1>2, <1>3, <1>4

\* Nothing waits for a promise that is created.
LEMMA NewOnce ==
  ASSUME NEW s, NEW tg, NEW src, NEW rn, OnceStore(s, tg, src, rn), NEW p \in Promise, s.state[p] = "free"
  PROVE  OnceStore(New(s, p), tg, src, rn) /\ \A c : Queued(New(s, p), c) <=> Queued(s, c)
<1> DEFINE t == New(s, p)
<1>1. StoreOK(s, tg, src) /\ s \in StoreType
  BY DEF OnceStore, StoreOK
<1>2. /\ StoreOK(t, tg, src) /\ t.state = [s.state EXCEPT ![p] = "pending"]
      /\ t.fq = s.fq /\ t.queue = s.queue /\ t.lost = s.lost
  BY <1>1, NewOK
<1> HIDE DEF t
<1>3. t.state[p] = "pending" /\ \A q \in Promise \ {p} : t.state[q] = s.state[q]
  BY <1>1, <1>2 DEF StoreType
<1>4. \A c \in Pair : src[c] # NONE => src[c] \in Promise \ {p}
  BY <1>1 DEF StoreOK, PairsOK, PairMap
<1>5. \A c : Queued(t, c) <=> Queued(s, c)
  BY <1>2 DEF Queued
<1>6. Ordered(t, src)
  BY <1>2 DEF OnceStore, Ordered
<1>7. /\ \A c \in s.lost : c \in Pair
      /\ \A i \in 1..Len(rn) : rn[i] \in Pair
  BY <1>1, ElementOfSeq DEF OnceStore, StoreType
<1>8. Placed(t, src, rn)
  BY <1>2, <1>3, <1>4, <1>5, <1>7 DEF OnceStore, Placed
<1>9. OnceStore(t, tg, src, rn)
  BY <1>2, <1>6, <1>8 DEF OnceStore
<1> QED
  BY <1>5, <1>9 DEF t

\* A then() call attaches after all earlier ones, in its list or in the queue.
LEMMA ThenOnce ==
  ASSUME NEW s, NEW tg, NEW src, NEW rn, OnceStore(s, tg, src, rn), NEW p \in Promise, s.state[p] # "free",
         NEW c \in Pair, src[c] = NONE, \A d \in Pair : src[d] # NONE => d < c,
         NEW hf \in Handler, NEW hr \in Handler, NEW t, NEW tg2, NEW src2, src2 = [src EXCEPT ![c] = p],
         StoreOK(t, tg2, src2), ThenTo(s, t, p, hf, hr, c)
  PROVE  OnceStore(t, tg2, src2, rn) /\ Fewer(s, t, rn)
<1>1. /\ StoreOK(s, tg, src) /\ s \in StoreType /\ s.queue \in Seq(Job) /\ src \in PairMap
      /\ t \in StoreType
  BY DEF OnceStore, StoreOK, StoreType, ThenTo
<1>2. src2[c] = p /\ (\A d \in Pair \ {c} : src2[d] = src[d]) /\ p # NONE /\ t.state = s.state
  BY <1>1, PromiseAssumption DEF PairMap, ThenTo
<1>3. \A d : Queued(s, d) => d \in Pair \ {c} /\ src[d] # NONE /\ src2[d] = src[d] /\ d < c
  BY <1>1, <1>2, QueuedSettled
<1>4. \A d : Happened(rn, d) \/ d \in s.lost => d \in Pair \ {c} /\ src[d] # NONE /\ src2[d] = src[d]
  BY <1>1, <1>2, GoneSettled
<1>5. \A q \in Promise : \A i \in 1..Len(s.fq[q]) : s.fq[q][i].pair \in Pair /\ s.fq[q][i].pair < c
  <2>1. \A q \in Promise : \A i \in 1..Len(s.fq[q]) : s.fq[q][i] \in Reaction
    BY <1>1, ElementOfSeq DEF StoreType
  <2>2. \A q \in Promise : \A i \in 1..Len(s.fq[q]) : src[s.fq[q][i].pair] = q /\ q # NONE
    BY <1>1, PromiseAssumption DEF StoreOK, ListsOK
  <2> QED
    BY <2>1, <2>2, ReactionParts
<1>6. InOrder(s.queue, src2)
  <2> SUFFICES ASSUME NEW i \in 1..Len(s.queue), NEW j \in 1..Len(s.queue), i < j
               PROVE  Before(s.queue[i], s.queue[j], src2)
    BY DEF InOrder
  <2>1. Before(s.queue[i], s.queue[j], src)
    BY DEF OnceStore, Ordered, InOrder
  <2>2. s.queue[i].type = "reaction" => src2[s.queue[i].pair] = src[s.queue[i].pair]
    BY <1>3 DEF Queued
  <2>3. s.queue[j].type = "reaction" => src2[s.queue[j].pair] = src[s.queue[j].pair]
    BY <1>3 DEF Queued
  <2> QED
    BY <2>1, <2>2, <2>3 DEF Before
<1>7. CASE s.state[p] = "pending"
  <2> DEFINE r == [handler |-> hf, pair |-> c]
  <2>1. /\ t.queue = s.queue /\ t.lost = s.lost /\ t.fq = [s.fq EXCEPT ![p] = Append(@, r)]
    BY <1>7 DEF ThenTo, Final
  <2>2. r \in Reaction /\ r.pair = c /\ s.fq[p] \in Seq(Reaction) /\ Len(s.fq[p]) \in Nat
    BY <1>1, LenProperties DEF Reaction, StoreType
  <2> HIDE DEF r
  <2>3. /\ Len(Append(s.fq[p], r)) = Len(s.fq[p]) + 1 /\ Append(s.fq[p], r)[Len(s.fq[p]) + 1] = r
        /\ \A i \in 1..Len(s.fq[p]) : Append(s.fq[p], r)[i] = s.fq[p][i]
    BY <2>2, AppendProperties
  <2>4. t.fq[p] = Append(s.fq[p], r) /\ \A q \in Promise \ {p} : t.fq[q] = s.fq[q]
    BY <1>1, <2>1 DEF StoreType
  <2>5. \A d : Queued(t, d) <=> Queued(s, d)
    BY <2>1 DEF Queued
  <2>6. Ordered(t, src2)
    <3>1. ASSUME NEW q \in Promise, NEW i \in 1..Len(t.fq[q]), NEW j \in 1..Len(t.fq[q]), i < j
          PROVE  t.fq[q][i].pair < t.fq[q][j].pair
      <4>1. CASE q # p
        BY <2>4, <3>1, <4>1 DEF OnceStore, Ordered
      <4>2. CASE q = p /\ j = Len(s.fq[p]) + 1
        <5>1. i \in 1..Len(s.fq[p])
          BY <2>2, <2>3, <2>4, <3>1, <4>2
        <5> QED
          BY <1>5, <2>2, <2>3, <2>4, <4>2, <5>1
      <4>3. CASE q = p /\ j # Len(s.fq[p]) + 1
        <5>1. i \in 1..Len(s.fq[p]) /\ j \in 1..Len(s.fq[p])
          BY <2>2, <2>3, <2>4, <3>1, <4>3
        <5> QED
          BY <2>3, <2>4, <3>1, <4>3, <5>1 DEF OnceStore, Ordered
      <4> QED
        BY <4>1, <4>2, <4>3
    <3> QED
      BY <1>6, <2>1, <3>1 DEF Ordered
  <2>7. Placed(t, src2, rn)
    <3>1. ASSUME NEW d \in Pair, src2[d] # NONE, t.state[src2[d]] = "pending"
          PROVE  \E i \in 1..Len(t.fq[src2[d]]) : t.fq[src2[d]][i].pair = d
      <4>1. CASE d = c
        <5>1. Len(s.fq[p]) + 1 \in 1..Len(t.fq[p]) /\ t.fq[p][Len(s.fq[p]) + 1].pair = c
          BY <2>2, <2>3, <2>4
        <5> QED
          BY <1>2, <4>1, <5>1
      <4>2. CASE d # c
        <5>1. src2[d] = src[d] /\ src[d] \in Promise
          BY <1>1, <1>2, <3>1, <4>2 DEF PairMap
        <5>2. PICK i \in 1..Len(s.fq[src[d]]) : s.fq[src[d]][i].pair = d
          BY <1>2, <3>1, <5>1 DEF OnceStore, Placed
        <5>3. i \in 1..Len(t.fq[src[d]]) /\ t.fq[src[d]][i] = s.fq[src[d]][i]
          <6>1. CASE src[d] = p
            BY <2>2, <2>3, <2>4, <5>1, <6>1
          <6>2. CASE src[d] # p
            BY <2>2, <2>3, <2>4, <5>1, <6>2
          <6> QED
            BY <6>1, <6>2
        <5> QED
          BY <5>1, <5>2, <5>3
      <4> QED
        BY <4>1, <4>2
    <3>2. ASSUME NEW d \in Pair, src2[d] # NONE, t.state[src2[d]] \in Final
          PROVE  Queued(t, d) \/ Happened(rn, d) \/ d \in t.lost
      <4>1. d # c
        BY <1>2, <1>7, <3>2 DEF Final
      <4> QED
        BY <1>2, <2>1, <2>5, <3>2, <4>1 DEF OnceStore, Placed
    <3>3. \A d \in t.lost : src2[d] # NONE /\ t.state[src2[d]] \in Final /\ ~Queued(t, d) /\ ~Happened(rn, d)
      BY <1>2, <1>4, <2>1, <2>5 DEF OnceStore, Placed
    <3>4. \A i \in 1..Len(rn) : src2[rn[i]] # NONE /\ t.state[src2[rn[i]]] \in Final
      BY <1>2, <1>4 DEF OnceStore, Placed, Happened
    <3> QED
      BY <3>1, <3>2, <3>3, <3>4 DEF OnceStore, Placed
  <2> QED
    BY <2>5, <2>6, <2>7 DEF OnceStore, Fewer
<1>8. CASE s.state[p] # "pending"
  <2>1. s.state[p] \in Final /\ t.fq = s.fq
    BY <1>8 DEF ThenTo
  <2>2. /\ InOrder(t.queue, src2)
        /\ \/ t.lost = s.lost /\ \A d : Queued(t, d) <=> Queued(s, d) \/ d = c
           \/ t.lost = s.lost \cup {c} /\ \A d : Queued(t, d) <=> Queued(s, d)
    <3>1. CASE t.queue = s.queue /\ t.lost = s.lost \cup {c}
      BY <1>6, <3>1 DEF Queued
    <3>2. CASE ~(t.queue = s.queue /\ t.lost = s.lost \cup {c})
      <4> DEFINE r == [handler |-> IF s.state[p] = "fulfilled" THEN hf ELSE hr, pair |-> c]
                 m == ReactionOf(r, s.state[p], s.result[p])
      <4>1. t.queue = Append(s.queue, m) /\ t.lost = s.lost
        BY <1>8, <3>2 DEF ThenTo
      <4>2. r \in Reaction /\ s.result[p] \in Value /\ r.pair = c
        BY <1>1 DEF Reaction, StoreType
      <4>3. m \in Job /\ m.type = "reaction" /\ m.pair = c
        BY <2>1, <4>2, ReactionOfType
      <4> HIDE DEF m
      <4>4. \A i \in 1..Len(s.queue) : Before(s.queue[i], m, src2)
        BY <1>3, <4>3 DEF Before, Queued
      <4>5. /\ InOrder(t.queue, src2)
            /\ \A d : Queued(t, d) <=> Queued(s, d) \/ (m.type = "reaction" /\ m.pair = d)
        <5>1. s.queue \in Seq(Job) /\ t.queue = Append(s.queue, m)
          BY <1>1, <4>1
        <5> HIDE DEF r
        <5>2. InOrder(s.queue, src2) /\ m \in Job
          BY <1>6, <4>3
        <5> QED
          BY <4>4, <5>1, <5>2, AddJobOrdered
      <4>6. \A d : Queued(t, d) <=> Queued(s, d) \/ d = c
        BY <4>3, <4>5
      <4> QED
        BY <4>1, <4>5, <4>6
    <3> QED
      BY <3>1, <3>2
  <2>3. Ordered(t, src2)
    BY <2>1, <2>2 DEF OnceStore, Ordered
  <2>4. Placed(t, src2, rn)
    <3>1. ASSUME NEW d \in Pair, src2[d] # NONE, t.state[src2[d]] = "pending"
          PROVE  \E i \in 1..Len(t.fq[src2[d]]) : t.fq[src2[d]][i].pair = d
      <4>1. d # c /\ src2[d] = src[d]
        BY <1>2, <1>8, <3>1
      <4> QED
        BY <1>2, <2>1, <3>1, <4>1 DEF OnceStore, Placed
    <3>2. ASSUME NEW d \in Pair, src2[d] # NONE, t.state[src2[d]] \in Final
          PROVE  Queued(t, d) \/ Happened(rn, d) \/ d \in t.lost
      <4>1. CASE d = c
        BY <2>2, <4>1
      <4>2. CASE d # c
        <5>1. Queued(s, d) \/ Happened(rn, d) \/ d \in s.lost
          BY <1>2, <3>2, <4>2 DEF OnceStore, Placed
        <5> QED
          BY <2>2, <5>1
      <4> QED
        BY <4>1, <4>2
    <3>3. ASSUME NEW d \in t.lost
          PROVE  src2[d] # NONE /\ t.state[src2[d]] \in Final /\ ~Queued(t, d) /\ ~Happened(rn, d)
      <4>1. CASE d \in s.lost
        <5>1. d # c /\ src2[d] = src[d]
          BY <1>4, <4>1
        <5>2. src[d] # NONE /\ s.state[src[d]] \in Final /\ ~Queued(s, d) /\ ~Happened(rn, d)
          BY <4>1 DEF OnceStore, Placed
        <5> QED
          BY <1>2, <2>2, <5>1, <5>2
      <4>2. CASE d \notin s.lost
        <5>1. d = c /\ ~Queued(t, c)
          BY <1>3, <2>2, <4>2
        <5>2. ~Happened(rn, c)
          BY <1>4
        <5> QED
          BY <1>2, <2>1, <5>1, <5>2
      <4> QED
        BY <4>1, <4>2
    <3>4. \A i \in 1..Len(rn) : src2[rn[i]] # NONE /\ t.state[src2[rn[i]]] \in Final
      BY <1>2, <1>4 DEF OnceStore, Placed, Happened
    <3> QED
      BY <3>1, <3>2, <3>3, <3>4 DEF OnceStore, Placed
  <2>5. Fewer(s, t, rn)
    BY <1>4, <2>2 DEF Fewer
  <2> QED
    BY <2>3, <2>4, <2>5 DEF OnceStore
<1> QED
  BY <1>7, <1>8

\* A queued reaction runs.
LEMMA RunOnce ==
  ASSUME NEW s, NEW tg, NEW src, NEW rn, OnceStore(s, tg, src, rn), NEW c, Queued(s, c), ~Happened(rn, c)
  PROVE  /\ OnceStore(s, tg, src, Append(rn, c))
         /\ \A d : Happened(Append(rn, c), d) <=> Happened(rn, d) \/ d = c
<1> DEFINE r2 == Append(rn, c)
<1>1. c \in Pair /\ src[c] # NONE /\ s.state[src[c]] \in Final
  BY QueuedSettled DEF OnceStore
<1>2. /\ rn \in Seq(Pair) /\ Len(rn) \in Nat /\ r2 \in Seq(Pair) /\ Len(r2) = Len(rn) + 1
      /\ r2[Len(rn) + 1] = c /\ \A i \in 1..Len(rn) : r2[i] = rn[i]
  BY <1>1, AppendProperties, LenProperties DEF OnceStore
<1> HIDE DEF r2
<1>3. \A i \in 1..Len(r2) : (i \in 1..Len(rn) /\ r2[i] = rn[i]) \/ (i = Len(rn) + 1 /\ r2[i] = c)
  BY <1>2
<1>4. \A d : Happened(r2, d) <=> Happened(rn, d) \/ d = c
  <2>1. \A d : Happened(r2, d) => Happened(rn, d) \/ d = c
    BY <1>3 DEF Happened
  <2>2. \A d : Happened(rn, d) => Happened(r2, d)
    BY <1>2 DEF Happened
  <2>3. Len(rn) + 1 \in 1..Len(r2)
    BY <1>2
  <2>4. Happened(r2, c)
    BY <1>2, <2>3 DEF Happened
  <2> QED
    BY <2>1, <2>2, <2>4
<1>5. Placed(s, src, r2)
  <2>1. Placed(s, src, rn)
    BY DEF OnceStore
  <2>2. \A d \in s.lost : ~Happened(r2, d)
    BY <1>4, <2>1 DEF Placed
  <2>3. \A i \in 1..Len(r2) : src[r2[i]] # NONE /\ s.state[src[r2[i]]] \in Final
    BY <1>1, <1>3, <2>1 DEF Placed
  <2>4. ASSUME NEW i \in 1..Len(r2), NEW j \in 1..Len(r2), r2[i] = r2[j] PROVE i = j
    <3>1. CASE i \in 1..Len(rn) /\ j \in 1..Len(rn)
      BY <1>2, <2>1, <2>4, <3>1 DEF Placed
    <3>2. CASE i \in 1..Len(rn) /\ j = Len(rn) + 1
      BY <1>2, <2>4, <3>2 DEF Happened
    <3>3. CASE j \in 1..Len(rn) /\ i = Len(rn) + 1
      BY <1>2, <2>4, <3>3 DEF Happened
    <3> QED
      BY <1>3, <3>1, <3>2, <3>3
  <2>5. \A d \in Pair : src[d] # NONE /\ s.state[src[d]] \in Final =>
          Queued(s, d) \/ Happened(r2, d) \/ d \in s.lost
    BY <1>4, <2>1 DEF Placed
  <2> QED
    BY <2>1, <2>2, <2>3, <2>4, <2>5 DEF Placed
<1>6. OnceStore(s, tg, src, r2)
  BY <1>2, <1>5 DEF OnceStore
<1> QED
  BY <1>4, <1>6 DEF r2

\* A microtask that has run leaves the queue, and no other of the same then() call is in it.
LEMMA UnlinkOnce ==
  ASSUME NEW t, NEW tg, NEW src, NEW rn, OnceStore(t, tg, src, rn), t.queue # <<>>,
         t.queue[1].type = "reaction" => Happened(rn, t.queue[1].pair),
         NEW u, StoreOK(u, tg, src), u.queue = Tail(t.queue), u.state = t.state, u.fq = t.fq, u.lost = t.lost
  PROVE  /\ OnceStore(u, tg, src, rn)
         /\ \A c : Queued(u, c) => Queued(t, c) /\ ~(t.queue[1].type = "reaction" /\ t.queue[1].pair = c)
<1> DEFINE q == t.queue
           r == u.queue
<1>1. q \in Seq(Job) /\ q # <<>> /\ r = Tail(q)
  BY DEF OnceStore, StoreOK, StoreType
<1>2. /\ Len(q) \in Nat \ {0} /\ Len(r) = Len(q) - 1
      /\ \A i \in 1..Len(r) : r[i] = q[i + 1]
  <2> HIDE DEF q, r
  <2>1. Len(q) \in Nat \ {0}
    BY <1>1, EmptySeq
  <2> QED
    BY <1>1, <2>1, HeadTailProperties
<1>3. \A i \in 1..Len(r) : i + 1 \in 1..Len(q) /\ 1 < i + 1 /\ r[i] = q[i + 1]
  <2> HIDE DEF q, r
  <2> QED
    BY <1>2
<1>4. InOrder(q, src)
  BY DEF OnceStore, Ordered
<1>5. InOrder(r, src)
  <2> HIDE DEF q, r
  <2> SUFFICES ASSUME NEW i \in 1..Len(r), NEW j \in 1..Len(r), i < j PROVE Before(r[i], r[j], src)
    BY DEF InOrder
  <2>1. i + 1 \in 1..Len(q) /\ j + 1 \in 1..Len(q) /\ i + 1 < j + 1
    BY <1>2, <1>3
  <2> QED
    BY <1>3, <1>4, <2>1 DEF InOrder
<1>6. ASSUME NEW c, Queued(u, c)
      PROVE  Queued(t, c) /\ ~(q[1].type = "reaction" /\ q[1].pair = c)
  <2>1. PICK i \in 1..Len(r) : r[i].type = "reaction" /\ r[i].pair = c
    BY <1>6 DEF Queued
  <2>2. i + 1 \in 1..Len(q) /\ 1 < i + 1 /\ q[i + 1].type = "reaction" /\ q[i + 1].pair = c /\ 1 \in 1..Len(q)
    <3> HIDE DEF q, r
    <3> QED
      BY <1>2, <1>3, <2>1
  <2>3. Queued(t, c)
    BY <2>2 DEF Queued
  <2>4. c \in Pair
    BY <2>3, QueuedSettled DEF OnceStore
  <2>5. Before(q[1], q[i + 1], src)
    <3> HIDE DEF q, r
    <3> QED
      BY <1>4, <2>2 DEF InOrder
  <2>6. ~(q[1].type = "reaction" /\ q[1].pair = c)
    <3> HIDE DEF q, r
    <3> QED
      BY <2>2, <2>4, <2>5, PromiseAssumption DEF Before, Pair
  <2> QED
    BY <2>3, <2>6
<1>7. ASSUME NEW c, Queued(t, c) PROVE Queued(u, c) \/ (q[1].type = "reaction" /\ q[1].pair = c)
  <2>1. PICK i \in 1..Len(q) : q[i].type = "reaction" /\ q[i].pair = c
    BY <1>7 DEF Queued
  <2>2. CASE i = 1
    BY <2>1, <2>2
  <2>3. CASE i # 1
    <3>1. i - 1 \in 1..Len(r) /\ r[i - 1] = q[i]
      <4> HIDE DEF q, r
      <4>1. i - 1 \in 1..Len(r)
        BY <1>2, <2>3
      <4> QED
        BY <1>2, <4>1
    <3> QED
      BY <2>1, <3>1 DEF Queued
  <2> QED
    BY <2>2, <2>3
<1>8. Ordered(u, src)
  BY <1>5 DEF OnceStore, Ordered
<1>9. Placed(u, src, rn)
  <2>1. Placed(t, src, rn)
    BY DEF OnceStore
  <2>2. \A c \in Pair : src[c] # NONE /\ u.state[src[c]] \in Final =>
          Queued(u, c) \/ Happened(rn, c) \/ c \in u.lost
    BY <1>7, <2>1 DEF Placed
  <2>3. \A c \in u.lost : src[c] # NONE /\ u.state[src[c]] \in Final /\ ~Queued(u, c) /\ ~Happened(rn, c)
    BY <1>6, <2>1 DEF Placed
  <2> QED
    BY <2>1, <2>2, <2>3 DEF Placed
<1> QED
  BY <1>6, <1>8, <1>9 DEF OnceStore

\* The frames: nothing but the queue behind the head changes.
LEMMA FramesKeep ==
  ASSUME NEW fs, NEW ul, NEW q, NEW rn, FramesOK(fs, ul, q, rn),
         NEW q2, q # <<>> => q2 # <<>> /\ q2[1] = q[1],
         NEW rn2, \A c : Happened(rn, c) => Happened(rn2, c)
  PROVE  FramesOK(fs, ul, q2, rn2)
BY DEF FramesOK

\* At the top of the drain loop, or outside of any code, no job runs.
LEMMA NoJob ==
  ASSUME NEW fs \in Seq(Frame), NEW ul, NEW q, NEW rn, FramesOK(fs, ul, q, rn),
         fs = <<>> \/ fs[1].kind = "drain"
  PROVE  /\ \A i \in 1..Len(fs) : fs[i].kind \notin {"handler", "then"}
         /\ \A c : ~InJob(fs, c)
         /\ \A ul2, q2, rn2 : FramesOK(fs, ul2, q2, rn2)
<1>1. ASSUME NEW i \in 1..Len(fs) PROVE fs[i].kind \notin {"handler", "then"}
  <2>1. CASE fs = <<>>
    BY <2>1, EmptySeq
  <2>2. CASE fs # <<>> /\ fs[1].kind = "drain"
    <3>1. 1 \in 1..Len(fs) /\ i + 1 # 1
      BY <2>2, EmptySeq, LenProperties
    <3> QED
      BY <2>2, <3>1 DEF FramesOK
  <2> QED
    BY <2>1, <2>2
<1> QED
  BY <1>1 DEF InJob, FramesOK

LEMMA FramesPush ==
  ASSUME NEW fs \in Seq(Frame), NEW ul, NEW q, NEW rn, FramesOK(fs, ul, q, rn), NEW f \in Frame,
         f.kind = "ctor" \/ (f.kind = "drain" /\ \A i \in 1..Len(fs) : fs[i].kind # "drain")
  PROVE  FramesOK(<<f>> \o fs, ul, q, rn) /\ \A c : InJob(fs, c) => InJob(<<f>> \o fs, c)
<1> DEFINE g == <<f>> \o fs
<1>1. /\ Len(g) = Len(fs) + 1 /\ Len(fs) \in Nat
      /\ g[1] = f /\ \A i \in 1..Len(fs) : g[i + 1] = fs[i]
      /\ \A i \in 1..Len(g) : i = 1 \/ (i - 1 \in 1..Len(fs) /\ g[i] = fs[i - 1])
  BY PushFrame
<1> HIDE DEF g
<1>2. \A i \in 1..Len(fs) : i + 1 \in 1..Len(g)
  BY <1>1
<1>3. ASSUME NEW i \in 1..Len(g), NEW j \in 1..Len(g), g[i].kind = "drain", g[j].kind = "drain"
      PROVE  i = j
  <2>1. CASE f.kind = "ctor"
    <3>1. i - 1 \in 1..Len(fs) /\ g[i] = fs[i - 1] /\ j - 1 \in 1..Len(fs) /\ g[j] = fs[j - 1]
      BY <1>1, <1>3, <2>1
    <3>2. i - 1 = j - 1
      BY <1>3, <3>1 DEF FramesOK
    <3> QED
      BY <3>2
  <2>2. CASE f.kind = "drain" /\ \A k \in 1..Len(fs) : fs[k].kind # "drain"
    BY <1>1, <1>3, <2>2
  <2> QED
    BY <2>1, <2>2
<1>4. ASSUME NEW i \in 1..Len(g), g[i].kind \in {"handler", "then"}
      PROVE  /\ i + 1 \in 1..Len(g) /\ g[i + 1].kind = "drain"
             /\ g[i].pos = ul + 1 /\ q # <<>>
             /\ g[i].kind = "then" => q[1].type = "thenable"
             /\ g[i].kind = "handler" => /\ q[1].type = "reaction" /\ q[1].pair = g[i].pair
                                         /\ Happened(rn, g[i].pair)
  <2>1. i - 1 \in 1..Len(fs) /\ g[i] = fs[i - 1]
    BY <1>1, <1>4
  <2>2. /\ (i - 1) + 1 \in 1..Len(fs) /\ fs[(i - 1) + 1].kind = "drain"
        /\ fs[i - 1].pos = ul + 1 /\ q # <<>>
        /\ fs[i - 1].kind = "then" => q[1].type = "thenable"
        /\ fs[i - 1].kind = "handler" => /\ q[1].type = "reaction" /\ q[1].pair = fs[i - 1].pair
                                         /\ Happened(rn, fs[i - 1].pair)
    BY <1>4, <2>1 DEF FramesOK
  <2>3. i \in 1..Len(fs) /\ fs[i].kind = "drain"
    BY <1>1, <2>2
  <2> QED
    BY <1>1, <1>2, <2>1, <2>2, <2>3
<1>5. \A c : InJob(fs, c) => InJob(g, c)
  BY <1>1, <1>2 DEF InJob
<1> QED
  BY <1>3, <1>4, <1>5 DEF FramesOK, g

LEMMA FramesPop ==
  ASSUME NEW fs \in Seq(Frame), NEW ul, NEW q, NEW rn, FramesOK(fs, ul, q, rn), fs # <<>>
  PROVE  /\ FramesOK(Tail(fs), ul, q, rn)
         /\ fs[1].kind # "handler" => \A c : InJob(fs, c) => InJob(Tail(fs), c)
         /\ fs[1].kind \in {"handler", "then"} => Tail(fs) # <<>> /\ Tail(fs)[1].kind = "drain"
<1> DEFINE g == Tail(fs)
<1>1. /\ Len(g) = Len(fs) - 1 /\ Len(fs) \in Nat \ {0}
      /\ \A i \in 1..Len(g) : i + 1 \in 1..Len(fs) /\ g[i] = fs[i + 1]
      /\ g \in Seq(Frame)
  BY PopFrame
<1> HIDE DEF g
<1>2. \A i \in 1..Len(fs) : i # 1 => i - 1 \in 1..Len(g) /\ g[i - 1] = fs[i]
  BY <1>1
<1>3. ASSUME NEW i \in 1..Len(g), NEW j \in 1..Len(g), g[i].kind = "drain", g[j].kind = "drain"
      PROVE  i = j
  <2>1. i + 1 = j + 1
    BY <1>1, <1>3 DEF FramesOK
  <2> QED
    BY <2>1
<1>4. ASSUME NEW i \in 1..Len(g), g[i].kind \in {"handler", "then"}
      PROVE  /\ i + 1 \in 1..Len(g) /\ g[i + 1].kind = "drain"
             /\ g[i].pos = ul + 1 /\ q # <<>>
             /\ g[i].kind = "then" => q[1].type = "thenable"
             /\ g[i].kind = "handler" => /\ q[1].type = "reaction" /\ q[1].pair = g[i].pair
                                         /\ Happened(rn, g[i].pair)
  <2>1. i + 1 \in 1..Len(fs) /\ g[i] = fs[i + 1]
    BY <1>1
  <2>2. /\ (i + 1) + 1 \in 1..Len(fs) /\ fs[(i + 1) + 1].kind = "drain"
        /\ fs[i + 1].pos = ul + 1 /\ q # <<>>
        /\ fs[i + 1].kind = "then" => q[1].type = "thenable"
        /\ fs[i + 1].kind = "handler" => /\ q[1].type = "reaction" /\ q[1].pair = fs[i + 1].pair
                                         /\ Happened(rn, fs[i + 1].pair)
    BY <1>4, <2>1 DEF FramesOK
  <2>3. i + 1 \in 1..Len(g)
    BY <1>1, <2>2
  <2> QED
    BY <1>1, <2>1, <2>2, <2>3
<1>5. fs[1].kind # "handler" => \A c : InJob(fs, c) => InJob(g, c)
  BY <1>2 DEF InJob
<1>6. fs[1].kind \in {"handler", "then"} => g # <<>> /\ g[1].kind = "drain"
  <2> SUFFICES ASSUME fs[1].kind \in {"handler", "then"} PROVE g # <<>> /\ g[1].kind = "drain"
    OBVIOUS
  <2>1. 1 \in 1..Len(fs)
    BY <1>1
  <2>2. 1 + 1 \in 1..Len(fs) /\ fs[1 + 1].kind = "drain"
    BY <2>1 DEF FramesOK
  <2>3. 1 \in 1..Len(g) /\ g[1].kind = "drain"
    BY <1>1, <2>2
  <2> QED
    BY <2>3, EmptySeq
<1> QED
  BY <1>3, <1>4, <1>5, <1>6 DEF FramesOK, g

-----------------------------------------------------------------------------
(* The steps of the abstract specification.                                 *)

Grows(s, t) ==
  \A p \in Promise : \/ t.state[p] = s.state[p] /\ t.result[p] = s.result[p]
                     \/ s.state[p] = "free" /\ t.state[p] # "free"
                     \/ s.state[p] = "pending" /\ t.state[p] \in Final

\* What a step does to the then() calls.
CallsStep == UNCHANGED <<source, ran>> \/ \E c \in Pair : Abstract!Attach(c) \/ Abstract!Run(c)

LEMMA AbstractStep ==
  ASSUME BaseInv, NEW t, Becomes(t), Grows(Store, t), lost \subseteq t.lost,
         OnceStore(t, target', source', ran), CallsStep
  PROVE  Abstract!Next
<1>1. state' = t.state /\ result' = t.result /\ lost' = t.lost
  BY DEF Becomes
<1>2. \A p \in Promise : Abstract!PromiseStep(p)
  BY <1>1, Facts DEF Grows, Abstract!PromiseStep, Final
<1>3. \A c \in lost' : source'[c] # NONE /\ ~Happened(ran, c)
  BY <1>1 DEF OnceStore, Placed
<1>4. \A c \in lost' \ lost : source'[c] # NONE /\ c \notin Abstract!Done
  BY <1>3 DEF Abstract!Done, Happened
<1>5. Abstract!Abandon
  BY <1>1, <1>4 DEF Abstract!Abandon
<1> QED
  BY <1>2, <1>5 DEF Abstract!Next, CallsStep

\* The stored state, field by field.
LEMMA StoreNext ==
  ASSUME NEW t, Becomes(t)
  PROVE  /\ Store'.state = t.state /\ Store'.fq = t.fq /\ Store'.lost = t.lost /\ Store'.queue = queue'
         /\ Store'.result = t.result
BY DEF Store, Becomes

\* A step that unlinks nothing.
LEMMA OnceKeep ==
  ASSUME BaseInv, OnceInv, BaseInv', NEW t, OnceStore(t, target', source', ran), Fewer(Store, t, ran),
         queue # <<>> => t.queue # <<>> /\ t.queue[1] = queue[1],
         Becomes(t), queue' = t.queue, unlinked' = unlinked, ran' = ran,
         FramesOK(frames', unlinked, queue, ran), \A c : InJob(frames, c) => InJob(frames', c)
  PROVE  OnceInv'
<1> DEFINE u == Store'
<1>1. u.state = t.state /\ u.fq = t.fq /\ u.lost = t.lost /\ u.queue = t.queue
  BY StoreNext
<1> HIDE DEF u
<1>2. \A c : Queued(u, c) <=> Queued(t, c)
  BY <1>1 DEF Queued
<1>3. Ordered(u, source')
  BY <1>1 DEF OnceStore, Ordered
<1>4. Placed(u, source', ran')
  BY <1>1, <1>2 DEF OnceStore, Placed
<1>5. FramesOK(frames', unlinked', queue', ran')
  BY FramesKeep
<1>6. Running(u, frames', ran')
  BY <1>2 DEF Running, Fewer, OnceInv
<1> QED
  BY <1>3, <1>4, <1>5, <1>6 DEF OnceInv, u

\* A step at the end of a job, which unlinks it.
LEMMA OnceUnlink ==
  ASSUME BaseInv, OnceInv, BaseInv', NEW t, OnceStore(t, target', source', ran), Fewer(Store, t, ran),
         queue # <<>>, t.queue # <<>>, t.queue[1] = queue[1], Becomes(t), Unlink(t, unlinked + 1),
         \/ ran' = ran
         \/ /\ ran' = Append(ran, queue[1].pair) /\ queue[1].type = "reaction"
            /\ ~Happened(ran, queue[1].pair),
         queue[1].type = "reaction" => Happened(ran', queue[1].pair),
         frames' = <<>> \/ frames'[1].kind = "drain", FramesOK(frames', unlinked, queue, ran)
  PROVE  OnceInv'
<1> DEFINE u == Store'
           m == queue[1]
<1>1. /\ u.state = t.state /\ u.fq = t.fq /\ u.lost = t.lost /\ u.queue = queue'
      /\ queue' = Tail(t.queue) /\ StoreOK(u, target', source')
  <2>1. queue' = Tail(t.queue)
    BY DEF Unlink, UnlinkFirst
  <2> QED
    BY <2>1, StoreNext DEF BaseInv
<1> HIDE DEF u
<1>2. frames' \in Seq(Frame)
  BY DEF BaseInv, TypeOK
<1>3. FramesOK(frames', unlinked', queue', ran')
  BY <1>2, NoJob
<1>4. /\ OnceStore(t, target', source', ran')
      /\ \A c : Happened(ran', c) => Happened(ran, c) \/ (m.type = "reaction" /\ m.pair = c)
  <2>1. CASE ran' = ran
    BY <2>1
  <2>2. CASE /\ ran' = Append(ran, m.pair) /\ m.type = "reaction" /\ ~Happened(ran, m.pair)
    <3>1. t.queue \in Seq(Job)
      BY DEF OnceStore, StoreOK, StoreType
    <3>2. 1 \in 1..Len(t.queue)
      BY <3>1, EmptySeq, LenProperties
    <3>3. Queued(t, m.pair)
      BY <2>2, <3>2 DEF Queued
    <3> HIDE DEF m
    <3>4. /\ OnceStore(t, target', source', Append(ran, m.pair))
          /\ \A d : Happened(Append(ran, m.pair), d) <=> Happened(ran, d) \/ d = m.pair
      BY <2>2, <3>3, RunOnce
    <3> QED
      BY <2>2, <3>4
  <2> QED
    BY <2>1, <2>2
<1>5. /\ OnceStore(u, target', source', ran')
      /\ \A c : Queued(u, c) => Queued(t, c) /\ ~(m.type = "reaction" /\ m.pair = c)
  <2>1. t.queue[1].type = "reaction" => Happened(ran', t.queue[1].pair)
    OBVIOUS
  <2>2. /\ OnceStore(u, target', source', ran')
        /\ \A c : Queued(u, c) => Queued(t, c) /\ ~(t.queue[1].type = "reaction" /\ t.queue[1].pair = c)
    BY <1>1, <1>4, <2>1, UnlinkOnce
  <2> QED
    BY <2>2
<1>6. ASSUME NEW c \in Pair, Queued(u, c), Happened(ran', c) PROVE FALSE
  <2>1. Queued(Store, c) /\ Happened(ran, c) /\ ~(m.type = "reaction" /\ m.pair = c)
    BY <1>4, <1>5, <1>6 DEF Fewer
  <2>2. InJob(frames, c)
    BY <2>1 DEF OnceInv, Running
  <2>3. m.type = "reaction" /\ m.pair = c
    BY <2>2 DEF OnceInv, FramesOK, InJob
  <2> QED
    BY <2>1, <2>3
<1> QED
  BY <1>3, <1>5, <1>6 DEF OnceInv, OnceStore, Running, u

\* The head of the queue may run next: it has not run, and the reactions attached to its promise
\* before it have, unless they were lost.
LEMMA HeadRuns ==
  ASSUME BaseInv, OnceInv, AtLoopTop, queue # <<>>, queue[1].type = "reaction",
         ran' = Append(ran, queue[1].pair), source' = source
  PROVE  CallsStep /\ ~Happened(ran, queue[1].pair) /\ Queued(Store, queue[1].pair)
<1> DEFINE c == queue[1].pair
<1>1. 1 \in 1..Len(queue) /\ queue[1] \in Job
  BY HeadOK
<1>2. Queued(Store, c)
  BY <1>1, Facts DEF Queued
<1>3. c \in Pair /\ source[c] \in Promise /\ source[c] # NONE /\ state[source[c]] \in Final
  BY <1>2, Facts, QueuedSettled
<1>4. ~Happened(ran, c)
  <2>1. \A d : ~InJob(frames, d)
    BY Facts, NoJob DEF AtLoopTop, OnceInv, TypeOK
  <2> QED
    BY <1>2, <1>3, <2>1 DEF OnceInv, Running
<1>5. c \notin lost
  BY <1>2, Facts DEF OnceInv, Placed
<1>6. c \notin Abstract!Done
  BY <1>4, <1>5 DEF Abstract!Done, Happened
<1>7. ASSUME NEW d \in Pair, source[d] = source[c], d < c PROVE d \in Abstract!Done
  <2>1. ~Queued(Store, d)
    <3> SUFFICES ASSUME NEW i \in 1..Len(queue), queue[i].type = "reaction", queue[i].pair = d PROVE FALSE
      BY Facts DEF Queued
    <3>1. i # 1 /\ Len(queue) \in Nat
      BY <1>3, <1>7, Facts, LenProperties, PromiseAssumption DEF Pair, TypeOK
    <3>2. 1 < i
      BY <3>1
    <3>3. Before(queue[1], queue[i], source)
      BY <1>1, <3>2, Facts DEF OnceInv, Ordered, InOrder
    <3>4. c < d
      BY <1>7, <3>3 DEF Before
    <3> QED
      BY <1>3, <1>7, <3>4, PromiseAssumption DEF Pair
  <2>2. Happened(ran, d) \/ d \in lost
    BY <1>3, <1>7, <2>1, Facts DEF OnceInv, Placed
  <2> QED
    BY <2>2 DEF Abstract!Done, Happened
<1>8. Abstract!Run(c)
  BY <1>3, <1>6, <1>7 DEF Abstract!Run, Abstract!Settled, Final
<1> QED
  BY <1>2, <1>3, <1>4, <1>8 DEF CallsStep

-----------------------------------------------------------------------------
(* The steps, with one drain at a time.                                     *)

LEMMA OnceFacts ==
  ASSUME BaseInv, OnceInv
  PROVE  /\ OnceStore(Store, target, source, ran) /\ Fewer(Store, Store, ran)
         /\ FramesOK(frames, unlinked, queue, ran) /\ frames \in Seq(Frame)
BY Facts DEF OnceInv, OnceStore, Fewer, TypeOK

\* A promise is created and what was queued for others only grows.
LEMMA EvolvesGrows ==
  ASSUME BaseInv, NEW t \in StoreType, Evolves(Store, t)
  PROVE  /\ Grows(Store, t) /\ lost \subseteq t.lost
         /\ queue # <<>> => t.queue # <<>> /\ t.queue[1] = queue[1]
<1>1. Grows(Store, t) /\ lost \subseteq t.lost
  BY Facts DEF Evolves, Grows
<1>2. queue # <<>> => 1 \in 1..Len(queue)
  BY HeadOK
<1> QED
  BY <1>1, <1>2, Facts, EvolvesQueue

LEMMA NewGrows ==
  ASSUME BaseInv, NextPromise \in Promise, state[NextPromise] = "free", NEW t \in StoreType,
         Evolves(New(Store, NextPromise), t)
  PROVE  /\ Grows(Store, t) /\ lost \subseteq t.lost
         /\ queue # <<>> => t.queue # <<>> /\ t.queue[1] = queue[1]
<1> DEFINE p == NextPromise
           s == New(Store, p)
<1>1. /\ StoreOK(s, target, source) /\ s.queue = queue /\ s.lost = lost /\ s.state[p] = "pending"
      /\ s.result = result /\ \A q \in Promise \ {p} : s.state[q] = state[q]
  BY NextCreated
<1> HIDE DEF s
<1>2. s \in StoreType /\ Evolves(s, t)
  BY <1>1 DEF StoreOK, s
<1> HIDE DEF p
<1>3. state[p] = "free" /\ p \in Promise
  BY DEF p
<1>4. lost \subseteq t.lost
  BY <1>1, <1>2 DEF Evolves
<1>5. ASSUME NEW q \in Promise
      PROVE  \/ t.state[q] = state[q] /\ t.result[q] = result[q]
             \/ state[q] = "free" /\ t.state[q] # "free"
             \/ state[q] = "pending" /\ t.state[q] \in Final
  <2>1. \/ t.state[q] = s.state[q] /\ t.result[q] = s.result[q]
        \/ s.state[q] = "pending" /\ t.state[q] \in Final
    BY <1>2 DEF Evolves
  <2>2. CASE q = p
    BY <1>1, <1>3, <2>1, <2>2 DEF Final
  <2>3. CASE q # p
    BY <1>1, <2>1, <2>3
  <2> QED
    BY <2>2, <2>3
<1>6. queue # <<>> => 1 \in 1..Len(queue)
  BY HeadOK
<1>7. queue # <<>> => t.queue # <<>> /\ t.queue[1] = queue[1]
  BY <1>1, <1>2, <1>6, EvolvesQueue
<1> QED
  BY <1>4, <1>5, <1>7, Facts DEF Grows

\* The stored state is the intermediate result when nothing is unlinked.
LEMMA StoreIs ==
  ASSUME NEW t \in StoreType, Becomes(t), queue' = t.queue
  PROVE  Store' = t
BY DEF Store, Becomes, StoreType

\* A step that creates no pair and unlinks nothing.
LEMMA OnceEvolve ==
  ASSUME BaseInv, OnceInv, BaseInv', NEW t, OnceStore(t, target, source, ran), Evolves(Store, t),
         Fewer(Store, t, ran), Becomes(t), queue' = t.queue, UNCHANGED <<target, source, unlinked, ran>>,
         FramesOK(frames', unlinked, queue, ran), \A c : InJob(frames, c) => InJob(frames', c)
  PROVE  OnceInv' /\ Abstract!Next
<1>1. t \in StoreType
  BY DEF OnceStore, StoreOK
<1>2. /\ Grows(Store, t) /\ lost \subseteq t.lost
      /\ queue # <<>> => t.queue # <<>> /\ t.queue[1] = queue[1]
  BY <1>1, EvolvesGrows
<1>3. CallsStep /\ OnceStore(t, target', source', ran)
  BY DEF CallsStep
<1>4. OnceInv'
  BY <1>2, <1>3, OnceKeep
<1>5. Abstract!Next
  BY <1>2, <1>3, AbstractStep
<1> QED
  BY <1>4, <1>5

\* A step that creates no pair, at the end of a job.
LEMMA OnceJobEnd ==
  ASSUME BaseInv, OnceInv, BaseInv', NEW t, OnceStore(t, target, source, ran), Evolves(Store, t),
         Fewer(Store, t, ran), queue # <<>>, Becomes(t), Unlink(t, unlinked + 1), UNCHANGED <<target, source>>,
         CallsStep,
         \/ ran' = ran
         \/ /\ ran' = Append(ran, queue[1].pair) /\ queue[1].type = "reaction"
            /\ ~Happened(ran, queue[1].pair),
         queue[1].type = "reaction" => Happened(ran', queue[1].pair),
         frames' = <<>> \/ frames'[1].kind = "drain", FramesOK(frames', unlinked, queue, ran)
  PROVE  OnceInv' /\ Abstract!Next
<1>1. t \in StoreType
  BY DEF OnceStore, StoreOK
<1>2. /\ Grows(Store, t) /\ lost \subseteq t.lost /\ t.queue # <<>> /\ t.queue[1] = queue[1]
  BY <1>1, EvolvesGrows
<1>3. OnceStore(t, target', source', ran)
  OBVIOUS
<1>4. OnceInv'
  BY <1>2, <1>3, OnceUnlink
<1>5. Abstract!Next
  BY <1>2, <1>3, AbstractStep
<1> QED
  BY <1>4, <1>5

LEMMA CtorReturnOnce ==
  ASSUME BaseInv, OnceInv, BaseInv', NEW throws \in BOOLEAN, CtorReturn(throws)
  PROVE  OnceInv' /\ Abstract!Next
<1> DEFINE p == frames[1].promise
           s == IF throws THEN Settle(Store, p, "rejected", ERR, 0) ELSE Store
<1>1. /\ frames # <<>> /\ frames[1].kind = "ctor" /\ frames' = Tail(frames)
      /\ Becomes(s) /\ queue' = s.queue
      /\ UNCHANGED <<target, source, unlinked, ran>>
  BY DEF CtorReturn
<1>2. frames[1] \in Frame
  BY <1>1, Facts, PopKeeps
<1>3. p \in Promise
  BY <1>1, <1>2, FrameParts
<1>4. /\ OnceStore(s, target, source, ran) /\ Fewer(Store, s, ran) /\ Evolves(Store, s)
  <2>1. "rejected" \in Final /\ ERR \in Value /\ 0 \in Nat /\ "rejected" # "fulfilled"
    BY DEF Final, Value
  <2> QED
    BY <1>3, <2>1, Facts, OnceFacts, SettleOK, SettleOnce
<1> HIDE DEF s
<1>5. FramesOK(frames', unlinked, queue, ran) /\ \A c : InJob(frames, c) => InJob(frames', c)
  BY <1>1, OnceFacts, FramesPop
<1> QED
  BY <1>1, <1>4, <1>5, OnceEvolve

LEMMA CapCallOnce ==
  ASSUME BaseInv, OnceInv, BaseInv', NEW cap \in Cap, NEW v \in Value, NEW room \in Nat,
         cap[2] = "resolve" => Resolvable(Store, v), CapCall(cap, v, room)
  PROVE  OnceInv' /\ Abstract!Next
<1> DEFINE s == Call(Store, cap, v, room)
<1>1. /\ cap[1] \in held /\ Becomes(s) /\ queue' = s.queue
      /\ UNCHANGED <<target, source, unlinked, ran>> /\ frames' = frames
  BY DEF CapCall
<1>2. target[cap[1]] # NONE
  BY <1>1 DEF BaseInv, ContextOK
<1>3. OnceStore(s, target, source, ran) /\ Fewer(Store, s, ran) /\ Evolves(Store, s)
  BY <1>2, Facts, OnceFacts, CallOK, CallOnce
<1> HIDE DEF s
<1>4. FramesOK(frames', unlinked, queue, ran) /\ \A c : InJob(frames, c) => InJob(frames', c)
  BY <1>1, OnceFacts
<1> QED
  BY <1>1, <1>3, <1>4, OnceEvolve

LEMMA PassThroughOnce ==
  ASSUME BaseInv, OnceInv, BaseInv', NEW room \in Nat, PassThrough(room)
  PROVE  OnceInv' /\ Abstract!Next
<1> DEFINE m == queue[1]
           cap == PassThroughCap(m)
           s == Call(Store, cap, m.value, room)
<1>1. /\ AtLoopTop /\ queue # <<>> /\ m.type = "reaction" /\ Becomes(s) /\ Unlink(s, unlinked + 1)
      /\ ran' = Append(ran, m.pair) /\ UNCHANGED <<target, source>> /\ frames' = frames
  BY DEF PassThrough
<1>2. m \in Job /\ JobOK(m, Store, target, source)
  BY <1>1, HeadOK
<1>3. m.rtype \in Final /\ m.pair \in Pair /\ m.value \in Value
  BY <1>1, <1>2, JobParts
<1>4. /\ source[m.pair] \in Promise /\ target[m.pair] # NONE
      /\ m.rtype = state[source[m.pair]] /\ m.value = result[source[m.pair]]
  BY <1>1, <1>2, <1>3, Facts DEF JobOK, StoreOK, PairsOK, PairMap
<1>5. m.rtype = "fulfilled" => m.value = PLAIN
  BY <1>4, Facts DEF StoreOK, Unwrapped
<1>6. CallsStep /\ ~Happened(ran, m.pair) /\ Queued(Store, m.pair)
  BY <1>1, HeadRuns
<1>7. Happened(ran', m.pair)
  BY <1>1, <1>6, OnceFacts, RunOnce
<1>8. frames'[1].kind = "drain" /\ FramesOK(frames', unlinked, queue, ran)
  BY <1>1, OnceFacts DEF AtLoopTop
<1> HIDE DEF m
<1>9. cap \in Cap /\ cap[1] = m.pair /\ (cap[2] = "resolve" => m.rtype = "fulfilled")
  BY <1>3 DEF PassThroughCap, Cap, Kind
<1>10. cap[2] = "resolve" => Resolvable(Store, m.value)
  BY <1>5, <1>9, PromiseAssumption DEF Resolvable, Value
<1> HIDE DEF cap
<1>11. OnceStore(s, target, source, ran) /\ Fewer(Store, s, ran) /\ Evolves(Store, s)
  BY <1>3, <1>4, <1>9, <1>10, Facts, OnceFacts, CallOK, CallOnce
<1> HIDE DEF s
<1> QED
  BY <1>1, <1>6, <1>7, <1>8, <1>11, OnceJobEnd DEF m

LEMMA AdoptedSettlesOnce ==
  ASSUME BaseInv, OnceInv, BaseInv', NEW room \in Nat, AdoptedSettles(room)
  PROVE  OnceInv' /\ Abstract!Next
<1> DEFINE m == queue[1]
           fails == CallFails(Store, m.handler, room)
           s == Call(Store, m.handler, m.value, room)
           cap == <<m.pair, IF fails THEN "reject" ELSE "resolve">>
           v == IF fails THEN ERR ELSE PLAIN
           t == Call(s, cap, v, 0)
<1>1. /\ AtLoopTop /\ queue # <<>> /\ m.type = "reaction" /\ m.handler \in Cap /\ Becomes(t)
      /\ Unlink(t, unlinked + 1)
      /\ ran' = Append(ran, m.pair) /\ UNCHANGED <<target, source>> /\ frames' = frames
  BY DEF AdoptedSettles
<1>2. m \in Job /\ JobOK(m, Store, target, source)
  BY <1>1, HeadOK
<1>3. m.rtype \in Final /\ m.pair \in Pair /\ m.value \in Value
  BY <1>1, <1>2, JobParts
<1>4. /\ source[m.pair] \in Promise /\ target[m.pair] # NONE
      /\ m.rtype = state[source[m.pair]] /\ m.value = result[source[m.pair]]
      /\ target[m.handler[1]] # NONE
      /\ m.handler[2] = IF m.rtype = "fulfilled" THEN "resolve" ELSE "reject"
  BY <1>1, <1>2, <1>3, Facts DEF JobOK, StoreOK, PairsOK, PairMap, CapOK
<1>5. m.rtype = "fulfilled" => m.value = PLAIN
  BY <1>4, Facts DEF StoreOK, Unwrapped
<1>6. CallsStep /\ ~Happened(ran, m.pair) /\ Queued(Store, m.pair)
  BY <1>1, HeadRuns
<1>7. Happened(ran', m.pair)
  BY <1>1, <1>6, OnceFacts, RunOnce
<1>8. frames'[1].kind = "drain" /\ FramesOK(frames', unlinked, queue, ran)
  BY <1>1, OnceFacts DEF AtLoopTop
<1> HIDE DEF m
<1>9. m.handler[2] = "resolve" => Resolvable(Store, m.value)
  BY <1>4, <1>5, PromiseAssumption DEF Resolvable, Value
<1>10. StoreOK(s, target, source) /\ Evolves(Store, s)
  BY <1>1, <1>3, <1>4, <1>9, Facts, CallOK
<1>11. OnceStore(s, target, source, ran) /\ Fewer(Store, s, ran)
  BY <1>1, <1>3, <1>4, <1>9, OnceFacts, CallOnce
<1>12. /\ cap \in Cap /\ cap[1] = m.pair /\ v \in Value
       /\ cap[2] = "resolve" => v = PLAIN
  BY <1>3 DEF Cap, Kind, Value
<1> HIDE DEF cap, v, s
<1>13. cap[2] = "resolve" => Resolvable(s, v)
  BY <1>12, PromiseAssumption DEF Resolvable, Value
<1>14. StoreOK(t, target, source) /\ Evolves(s, t)
  BY <1>4, <1>10, <1>12, <1>13, CallOK
<1>15. OnceStore(t, target, source, ran) /\ Fewer(s, t, ran)
  BY <1>4, <1>11, <1>12, <1>13, CallOnce
<1> HIDE DEF t
<1>16. s \in StoreType /\ t \in StoreType
  BY <1>10, <1>14 DEF StoreOK
<1>17. Evolves(Store, t)
  BY <1>10, <1>14, <1>16, Facts, EvolvesTrans
<1>18. Fewer(Store, t, ran)
  BY <1>11, <1>15 DEF Fewer
<1> QED
  BY <1>1, <1>6, <1>7, <1>8, <1>15, <1>17, <1>18, OnceJobEnd DEF m

\* The innermost frame is a job: it is the head of the queue, and below it is the drain.
LEMMA JobOnTop ==
  ASSUME BaseInv, OnceInv, frames # <<>>, frames[1].kind \in {"handler", "then"}, frames' = Tail(frames)
  PROVE  /\ frames[1] \in Frame /\ frames[1].pos = unlinked + 1 /\ queue # <<>>
         /\ frames[1].pair \in Pair /\ target[frames[1].pair] # NONE
         /\ frames[1].kind = "then" => queue[1].type # "reaction"
         /\ frames[1].kind = "handler" => queue[1].pair = frames[1].pair /\ Happened(ran, frames[1].pair)
         /\ frames'[1].kind = "drain" /\ FramesOK(frames', unlinked, queue, ran)
<1>1. frames[1] \in Frame /\ 1 \in 1..Len(frames)
  BY Facts, PopKeeps
<1>2. FrameOK(frames[1], state, target, unlinked, queue)
  BY <1>1 DEF BaseInv, ContextOK
<1>3. frames[1].pair \in Pair /\ target[frames[1].pair] # NONE
  BY <1>1, <1>2, FrameParts DEF FrameOK
<1>4. /\ frames[1].pos = unlinked + 1 /\ queue # <<>>
      /\ frames[1].kind = "then" => queue[1].type = "thenable"
      /\ frames[1].kind = "handler" => queue[1].pair = frames[1].pair /\ Happened(ran, frames[1].pair)
  BY <1>1, OnceFacts DEF FramesOK
<1>5. frames'[1].kind = "drain" /\ FramesOK(frames', unlinked, queue, ran)
  BY OnceFacts, FramesPop
<1> QED
  BY <1>1, <1>3, <1>4, <1>5

LEMMA HandlerReturnOnce ==
  ASSUME BaseInv, OnceInv, BaseInv', NEW kind \in Kind, NEW v \in Value, NEW room \in Nat,
         kind = "resolve" => Resolvable(Store, v), HandlerReturn(kind, v, room)
  PROVE  OnceInv' /\ Abstract!Next
<1> DEFINE f == frames[1]
           cap == <<f.pair, kind>>
           s == Call(Store, cap, v, room)
<1>1. /\ frames # <<>> /\ f.kind = "handler" /\ Becomes(s) /\ Unlink(s, f.pos)
      /\ frames' = Tail(frames) /\ UNCHANGED <<target, source>> /\ ran' = ran
  BY DEF HandlerReturn
<1>2. /\ f.pos = unlinked + 1 /\ queue # <<>> /\ f.pair \in Pair /\ target[f.pair] # NONE
      /\ queue[1].pair = f.pair /\ Happened(ran, f.pair)
      /\ frames'[1].kind = "drain" /\ FramesOK(frames', unlinked, queue, ran)
  BY <1>1, JobOnTop
<1>3. cap \in Cap /\ cap[1] = f.pair /\ cap[2] = kind
  BY <1>2 DEF Cap
<1> HIDE DEF cap
<1>4. OnceStore(s, target, source, ran) /\ Fewer(Store, s, ran) /\ Evolves(Store, s)
  BY <1>2, <1>3, Facts, OnceFacts, CallOK, CallOnce
<1> HIDE DEF s
<1>5. CallsStep /\ Unlink(s, unlinked + 1) /\ Happened(ran', queue[1].pair)
  BY <1>1, <1>2 DEF CallsStep
<1> QED
  BY <1>1, <1>2, <1>4, <1>5, OnceJobEnd

LEMMA ThenMethodReturnOnce ==
  ASSUME BaseInv, OnceInv, BaseInv', NEW throws \in BOOLEAN, NEW room \in Nat,
         ThenMethodReturn(throws, room)
  PROVE  OnceInv' /\ Abstract!Next
<1> DEFINE f == frames[1]
           cap == <<f.pair, "reject">>
           s == IF throws THEN Call(Store, cap, ERR, room) ELSE Store
<1>1. /\ frames # <<>> /\ f.kind = "then" /\ Becomes(s) /\ Unlink(s, f.pos)
      /\ frames' = Tail(frames) /\ UNCHANGED <<target, source>> /\ ran' = ran
  BY DEF ThenMethodReturn
<1>2. /\ f.pos = unlinked + 1 /\ queue # <<>> /\ f.pair \in Pair /\ target[f.pair] # NONE
      /\ queue[1].type # "reaction"
      /\ frames'[1].kind = "drain" /\ FramesOK(frames', unlinked, queue, ran)
  BY <1>1, JobOnTop
<1>3. cap \in Cap /\ cap[1] = f.pair /\ cap[2] # "resolve" /\ ERR \in Value
  BY <1>2 DEF Cap, Kind, Value
<1> HIDE DEF cap
<1>4. OnceStore(s, target, source, ran) /\ Fewer(Store, s, ran) /\ Evolves(Store, s)
  BY <1>2, <1>3, Facts, OnceFacts, CallOK, CallOnce
<1> HIDE DEF s
<1>5. CallsStep /\ Unlink(s, unlinked + 1)
  BY <1>1, <1>2 DEF CallsStep
<1> QED
  BY <1>1, <1>2, <1>4, <1>5, OnceJobEnd

LEMMA AdoptionAbandonedOnce ==
  ASSUME BaseInv, OnceInv, BaseInv', AdoptionAbandoned
  PROVE  OnceInv' /\ Abstract!Next
<1>1. /\ AtLoopTop /\ queue # <<>> /\ queue[1].type = "thenable" /\ Unlink(Store, unlinked + 1)
      /\ UNCHANGED <<target, source>> /\ ran' = ran /\ frames' = frames
  BY DEF AdoptionAbandoned
<1>2. Becomes(Store)
  BY Facts DEF AdoptionAbandoned, Becomes, Wakes, TypeOK
<1>3. /\ CallsStep /\ queue[1].type # "reaction" /\ frames'[1].kind = "drain"
      /\ FramesOK(frames', unlinked, queue, ran)
  BY <1>1, OnceFacts DEF CallsStep, AtLoopTop
<1> QED
  BY <1>1, <1>2, <1>3, Facts, OnceFacts, OnceJobEnd

\* A job starts.
LEMMA FramesPushJob ==
  ASSUME NEW fs \in Seq(Frame), NEW ul, NEW q, NEW rn, FramesOK(fs, ul, q, rn), fs # <<>>,
         fs[1].kind = "drain", NEW f \in Frame, f.kind \in {"handler", "then"}, f.pos = ul + 1, q # <<>>,
         f.kind = "then" => q[1].type = "thenable",
         NEW rn2, f.kind = "handler" => q[1].type = "reaction" /\ q[1].pair = f.pair /\ Happened(rn2, f.pair)
  PROVE  /\ FramesOK(<<f>> \o fs, ul, q, rn2) /\ \A c : ~InJob(fs, c)
         /\ f.kind = "handler" => InJob(<<f>> \o fs, f.pair)
<1> DEFINE g == <<f>> \o fs
<1>1. /\ Len(g) = Len(fs) + 1 /\ Len(fs) \in Nat
      /\ g[1] = f /\ \A i \in 1..Len(fs) : g[i + 1] = fs[i]
      /\ \A i \in 1..Len(g) : i = 1 \/ (i - 1 \in 1..Len(fs) /\ g[i] = fs[i - 1])
  BY PushFrame
<1> HIDE DEF g
<1>2. /\ \A i \in 1..Len(fs) : fs[i].kind \notin {"handler", "then"}
      /\ \A c : ~InJob(fs, c)
  BY NoJob
<1>3. Len(fs) # 0
  BY EmptySeq
<1>4. 1 \in 1..Len(fs) /\ 1 + 1 \in 1..Len(g) /\ 1 \in 1..Len(g) /\ g[1 + 1].kind = "drain"
  BY <1>1, <1>3
<1>5. ASSUME NEW i \in 1..Len(g), NEW j \in 1..Len(g), g[i].kind = "drain", g[j].kind = "drain"
      PROVE  i = j
  <2>1. i - 1 \in 1..Len(fs) /\ g[i] = fs[i - 1] /\ j - 1 \in 1..Len(fs) /\ g[j] = fs[j - 1]
    BY <1>1, <1>5
  <2>2. i - 1 = j - 1
    BY <1>5, <2>1 DEF FramesOK
  <2> QED
    BY <2>2
<1>6. ASSUME NEW i \in 1..Len(g), g[i].kind \in {"handler", "then"} PROVE i = 1
  BY <1>1, <1>2, <1>6
<1>7. FramesOK(g, ul, q, rn2)
  BY <1>1, <1>4, <1>5, <1>6 DEF FramesOK
<1>8. f.kind = "handler" => InJob(g, f.pair)
  BY <1>1, <1>4 DEF InJob
<1> QED
  BY <1>2, <1>7, <1>8 DEF g

LEMMA CallHandlerOnce ==
  ASSUME BaseInv, OnceInv, BaseInv', CallHandler
  PROVE  OnceInv' /\ Abstract!Next
<1> DEFINE m == queue[1]
           f == [kind |-> "handler", pair |-> m.pair, pos |-> unlinked + 1]
<1>1. /\ AtLoopTop /\ queue # <<>> /\ m.type = "reaction" /\ frames' = <<f>> \o frames
      /\ ran' = Append(ran, m.pair) /\ UNCHANGED <<stored, wake>>
      /\ target' = target /\ unlinked' = unlinked /\ source' = source
  BY DEF CallHandler
<1>2. m.pair \in Pair
  BY <1>1, HeadOK, JobParts
<1>3. f \in Frame /\ f.kind = "handler" /\ f.pair = m.pair /\ f.pos = unlinked + 1
  BY <1>2, Facts DEF Frame, TypeOK
<1> HIDE DEF f
<1>4. CallsStep /\ ~Happened(ran, m.pair) /\ Queued(Store, m.pair)
  BY <1>1, HeadRuns
<1>5. /\ OnceStore(Store, target, source, ran')
      /\ \A d : Happened(ran', d) <=> Happened(ran, d) \/ d = m.pair
  BY <1>1, <1>4, OnceFacts, RunOnce
<1> DEFINE rn == ran'
<1>6. /\ FramesOK(frames', unlinked, queue, ran') /\ \A c : ~InJob(frames, c)
      /\ InJob(frames', m.pair)
  <2>1. \A d : Happened(rn, d) <=> Happened(ran, d) \/ d = m.pair
    BY <1>5
  <2> HIDE DEF rn
  <2>2. /\ FramesOK(<<f>> \o frames, unlinked, queue, rn) /\ \A c : ~InJob(frames, c)
        /\ InJob(<<f>> \o frames, m.pair)
    <3>1. /\ frames \in Seq(Frame) /\ FramesOK(frames, unlinked, queue, ran)
          /\ frames # <<>> /\ frames[1].kind = "drain"
      BY <1>1, OnceFacts DEF AtLoopTop
    <3>2. /\ queue # <<>> /\ queue[1].type = "reaction" /\ queue[1].pair = f.pair
          /\ Happened(rn, f.pair)
      BY <1>1, <1>3, <2>1
    <3>3. f \in Frame /\ f.kind \in {"handler", "then"} /\ f.pos = unlinked + 1 /\ f.kind # "then"
      BY <1>3
    <3>4. f.kind = "handler" /\ f.pair = m.pair
      BY <1>3
    <3> HIDE DEF m
    <3>5. /\ FramesOK(<<f>> \o frames, unlinked, queue, rn) /\ \A c : ~InJob(frames, c)
          /\ f.kind = "handler" => InJob(<<f>> \o frames, f.pair)
      <4>1. f.kind = "handler" => queue[1].type = "reaction" /\ queue[1].pair = f.pair /\ Happened(rn, f.pair)
        BY <3>2
      <4>2. f.kind = "then" => queue[1].type = "thenable"
        BY <3>3
      <4> QED
        BY <3>1, <3>2, <3>3, <4>1, <4>2, FramesPushJob
    <3> QED
      BY <3>4, <3>5
  <2> QED
    BY <1>1, <2>2 DEF rn
<1>7. Store' = Store /\ queue' = queue
  BY <1>1 DEF Store, stored
<1>8. Running(Store, frames', ran')
  BY <1>5, <1>6 DEF OnceInv, Running
<1>9. OnceInv'
  BY <1>1, <1>5, <1>6, <1>7, <1>8 DEF OnceInv, OnceStore
<1>10. Becomes(Store)
  BY <1>1, Facts DEF Becomes, Wakes, stored, TypeOK
<1>11. Abstract!Next
  <2>1. Grows(Store, Store) /\ lost \subseteq Store.lost
    BY Facts, EvolvesGrows
  <2> QED
    BY <1>1, <1>4, <1>10, <2>1, OnceFacts, AbstractStep
<1> QED
  BY <1>9, <1>11

\* Only the frames change.
LEMMA OnceFrames ==
  ASSUME BaseInv, OnceInv, UNCHANGED <<stored, unlinked, source, ran>>,
         FramesOK(frames', unlinked, queue, ran), \A c : InJob(frames, c) => InJob(frames', c)
  PROVE  OnceInv' /\ Abstract!Next
<1>1. Store' = Store /\ queue' = queue
  BY DEF Store, stored
<1>2. OnceInv'
  BY <1>1 DEF OnceInv, Running
<1>3. Abstract!Next
  BY DEF Abstract!Next, Abstract!PromiseStep, Abstract!Abandon, stored
<1> QED
  BY <1>2, <1>3

LEMMA CallThenOnce ==
  ASSUME BaseInv, OnceInv, BaseInv', CallThen
  PROVE  OnceInv' /\ Abstract!Next
<1> DEFINE f == [kind |-> "then", pair |-> NextPair, pos |-> unlinked + 1]
<1>1. /\ AtLoopTop /\ queue # <<>> /\ queue[1].type = "thenable" /\ frames' = <<f>> \o frames
      /\ CanCreate(0, 1) /\ UNCHANGED <<stored, unlinked, source, ran>>
  BY DEF CallThen
<1>2. NextPair \in Pair
  BY <1>1, Fresh
<1>3. f \in Frame /\ f.kind = "then" /\ f.pos = unlinked + 1
  BY <1>2, Facts DEF Frame, TypeOK
<1> HIDE DEF f
<1>4. FramesOK(frames', unlinked, queue, ran) /\ \A c : ~InJob(frames, c)
  BY <1>1, <1>3, OnceFacts, FramesPushJob DEF AtLoopTop
<1> QED
  BY <1>1, <1>4, OnceFrames

LEMMA DrainStartOnce ==
  ASSUME BaseInv, OnceInv, ~Reentrant, WakeDrain \/ CallDrain
  PROVE  OnceInv' /\ Abstract!Next
<1> DEFINE f == [kind |-> "drain"]
<1>1. f \in Frame /\ f.kind = "drain"
  BY DEF Frame
<1> HIDE DEF f
<1>2. /\ UNCHANGED <<stored, unlinked, source, ran>> /\ frames' = <<f>> \o frames
      /\ \A i \in 1..Len(frames) : frames[i].kind # "drain"
  <2>1. CASE WakeDrain
    <3>1. <<f>> \in Seq(Frame)
      BY <1>1
    <3>2. <<f>> \o <<>> = <<f>>
      BY <3>1, ConcatEmptySeq
    <3> QED
      BY <2>1, <3>2, EmptySeq DEF WakeDrain, f, drained
  <2>2. CASE CallDrain
    BY <2>2 DEF CallDrain, f, drained, Draining
  <2> QED
    BY <2>1, <2>2
<1>3. FramesOK(frames', unlinked, queue, ran) /\ \A c : InJob(frames, c) => InJob(frames', c)
  BY <1>1, <1>2, OnceFacts, FramesPush
<1> QED
  BY <1>2, <1>3, OnceFrames

LEMMA DrainEndOnce ==
  ASSUME BaseInv, OnceInv, DrainEnd
  PROVE  OnceInv' /\ Abstract!Next
<1>1. /\ frames # <<>> /\ frames[1].kind = "drain" /\ frames' = Tail(frames)
      /\ UNCHANGED <<stored, unlinked, source, ran>>
  BY DEF DrainEnd, AtLoopTop, drained
<1>2. FramesOK(frames', unlinked, queue, ran) /\ \A c : InJob(frames, c) => InJob(frames', c)
  BY <1>1, OnceFacts, FramesPop
<1> QED
  BY <1>1, <1>2, OnceFrames

LEMMA NewPromiseOnce ==
  ASSUME BaseInv, OnceInv, BaseInv', NewPromise
  PROVE  OnceInv' /\ Abstract!Next
<1> DEFINE p == NextPromise
           t == New(Store, p)
           f == [kind |-> "ctor", promise |-> p]
<1>1. /\ CanCreate(1, 1) /\ Becomes(t) /\ frames' = <<f>> \o frames
      /\ UNCHANGED <<queue, unlinked, source, ran>>
  BY DEF NewPromise
<1>2. p \in Promise /\ state[p] = "free"
  BY <1>1, Fresh
<1>3. /\ OnceStore(t, target, source, ran) /\ (\A c : Queued(t, c) <=> Queued(Store, c)) /\ t.queue = queue
  BY <1>2, Facts, OnceFacts, NewOnce, NextCreated
<1>4. t \in StoreType /\ Evolves(t, t)
  BY <1>3, EvolvesRefl DEF OnceStore, StoreOK
<1>5. /\ Grows(Store, t) /\ lost \subseteq t.lost
      /\ queue # <<>> => t.queue # <<>> /\ t.queue[1] = queue[1]
  BY <1>2, <1>4, NewGrows
<1> HIDE DEF t
<1>6. Store' = t
  BY <1>1, <1>3, <1>4, StoreIs
<1>7. OnceStore(t, target', source', ran)
  BY <1>1, <1>3, <1>6 DEF OnceStore, BaseInv
<1>8. f \in Frame /\ f.kind = "ctor"
  BY <1>2 DEF Frame
<1> HIDE DEF f
<1>9. FramesOK(frames', unlinked, queue, ran) /\ \A c : InJob(frames, c) => InJob(frames', c)
  BY <1>1, <1>8, OnceFacts, FramesPush
<1>10. Fewer(Store, t, ran) /\ CallsStep
  BY <1>1, <1>3 DEF Fewer, CallsStep
<1>11. OnceInv'
  BY <1>1, <1>3, <1>5, <1>7, <1>9, <1>10, OnceKeep
<1>12. Abstract!Next
  BY <1>1, <1>5, <1>7, <1>10, AbstractStep
<1> QED
  BY <1>11, <1>12

\* A new then() call is the last one.
LEMMA AttachLast ==
  ASSUME BaseInv, NEW c \in Pair, c >= NextPair
  PROVE  source[c] = NONE /\ \A d \in Pair : source[d] # NONE => d < c
<1>1. NextPair \in Nat /\ \A d \in Pair : target[d] # NONE <=> d < NextPair
  BY Fresh
<1>2. \A d \in Pair : source[d] # NONE => target[d] # NONE
  BY Facts DEF StoreOK, PairsOK
<1> QED
  BY <1>1, <1>2, PromiseAssumption DEF Pair

LEMMA ThenStepOnce ==
  ASSUME BaseInv, OnceInv, BaseInv', NEW q \in known, NEW hf \in {NONE, USER}, NEW hr \in {NONE, USER},
         NEW room \in Nat, Then(q, hf, hr, room)
  PROVE  OnceInv' /\ Abstract!Next
<1> DEFINE p == NextPromise
           c == NextPair
           s == New(Store, p)
           t == ThenReactions(s, q, hf, hr, c, room)
<1>1. /\ CanCreate(1, 1) /\ Becomes(t) /\ queue' = t.queue /\ source' = [source EXCEPT ![c] = q]
      /\ UNCHANGED <<unlinked, ran>> /\ frames' = frames
  BY DEF Then
<1>2. /\ p \in Promise /\ state[p] = "free" /\ c \in Pair /\ c >= NextPair
      /\ q \in Promise /\ state[q] # "free" /\ hf \in Handler /\ hr \in Handler
  <2>1. p \in Promise /\ state[p] = "free" /\ c \in Pair /\ c \in Nat
    BY <1>1, Fresh
  <2>2. q \in Promise /\ state[q] # "free"
    BY Facts DEF TypeOK, BaseInv, ContextOK
  <2>3. hf \in Handler /\ hr \in Handler
    BY DEF Handler
  <2> HIDE DEF p
  <2>4. c >= NextPair
    BY <2>1
  <2> QED
    BY <2>1, <2>2, <2>3, <2>4
<1>3. /\ OnceStore(s, target, source, ran) /\ (\A d : Queued(s, d) <=> Queued(Store, d)) /\ s.state[q] # "free"
  BY <1>2, Facts, OnceFacts, NewOnce, NextCreated
<1>4. s \in StoreType /\ ThenTo(s, t, q, hf, hr, c)
  BY <1>2, <1>3, ThenParts DEF OnceStore, StoreOK
<1> HIDE DEF t
<1>5. Evolves(s, t) /\ t \in StoreType
  <2> HIDE DEF s, p, c
  <2>1. Evolves(s, t)
    BY <1>2, <1>4, ThenEvolves
  <2> QED
    BY <1>4, <2>1 DEF ThenTo
<1>6. /\ Grows(Store, t) /\ lost \subseteq t.lost
      /\ queue # <<>> => t.queue # <<>> /\ t.queue[1] = queue[1]
  BY <1>2, <1>5, NewGrows
<1>7. Store' = t
  BY <1>1, <1>5, StoreIs
<1>8. StoreOK(t, target', source')
  BY <1>7 DEF BaseInv
<1>9. source[c] = NONE /\ \A d \in Pair : source[d] # NONE => d < c
  BY <1>2, AttachLast
<1> HIDE DEF s, c, p
<1>10. OnceStore(t, target', source', ran) /\ Fewer(s, t, ran)
  BY <1>1, <1>2, <1>3, <1>4, <1>8, <1>9, ThenOnce
<1>11. Fewer(Store, t, ran)
  BY <1>3, <1>10 DEF Fewer
<1>12. Abstract!Attach(c)
  BY <1>1, <1>2, <1>9 DEF Abstract!Attach
<1>13. CallsStep
  BY <1>2, <1>12 DEF CallsStep
<1>14. FramesOK(frames', unlinked, queue, ran) /\ \A d : InJob(frames, d) => InJob(frames', d)
  BY <1>1, OnceFacts
<1>15. OnceInv'
  BY <1>1, <1>6, <1>10, <1>11, <1>14, OnceKeep
<1>16. Abstract!Next
  BY <1>1, <1>6, <1>10, <1>13, AbstractStep
<1> QED
  BY <1>15, <1>16

LEMMA MadeOnce ==
  ASSUME BaseInv, OnceInv, BaseInv', NEW t, NextPromise \in Promise, state[NextPromise] = "free",
         Evolves(New(Store, NextPromise), t), OnceStore(t, target, source, ran),
         Fewer(New(Store, NextPromise), t, ran), Becomes(t), queue' = t.queue,
         UNCHANGED <<target, unlinked, frames, source, ran>>
  PROVE  OnceInv' /\ Abstract!Next
<1>1. \A d : Queued(New(Store, NextPromise), d) <=> Queued(Store, d)
  BY Facts, OnceFacts, NewOnce
<1>2. t \in StoreType
  BY DEF OnceStore, StoreOK
<1>3. /\ Grows(Store, t) /\ lost \subseteq t.lost
      /\ queue # <<>> => t.queue # <<>> /\ t.queue[1] = queue[1]
  BY <1>2, NewGrows
<1>4. OnceStore(t, target', source', ran) /\ CallsStep /\ Fewer(Store, t, ran)
  BY <1>1 DEF CallsStep, Fewer
<1>5. FramesOK(frames', unlinked, queue, ran) /\ \A d : InJob(frames, d) => InJob(frames', d)
  BY OnceFacts
<1>6. OnceInv'
  BY <1>3, <1>4, <1>5, OnceKeep
<1>7. Abstract!Next
  BY <1>3, <1>4, AbstractStep
<1> QED
  BY <1>6, <1>7

LEMMA PromiseResolveOnce ==
  ASSUME BaseInv, OnceInv, BaseInv', NEW v \in Values, NEW room \in Nat, PromiseResolve(v, room)
  PROVE  OnceInv' /\ Abstract!Next
<1> DEFINE s == New(Store, NextPromise)
           t == Resolve(s, NextPromise, v, room)
<1>1. /\ CanCreate(1, 0) /\ v \notin Promise /\ Becomes(t) /\ queue' = t.queue
      /\ UNCHANGED <<target, unlinked, frames, source, ran>>
  BY DEF PromiseResolve
<1>2. NextPromise \in Promise /\ state[NextPromise] = "free"
  BY <1>1, Fresh
<1>3. OnceStore(s, target, source, ran)
  BY <1>2, Facts, OnceFacts, NewOnce
<1> HIDE DEF s
<1>4. Resolvable(s, v)
  BY <1>1, Facts DEF Resolvable, Values, Value, TypeOK
<1>5. OnceStore(t, target, source, ran) /\ Fewer(s, t, ran) /\ Evolves(s, t)
  BY <1>2, <1>3, <1>4, ResolveOK, ResolveOnce DEF OnceStore
<1> HIDE DEF t
<1> QED
  BY <1>1, <1>2, <1>5, MadeOnce DEF s

LEMMA PromiseRejectOnce ==
  ASSUME BaseInv, OnceInv, BaseInv', NEW v \in Reasons, PromiseReject(v)
  PROVE  OnceInv' /\ Abstract!Next
<1> DEFINE s == New(Store, NextPromise)
           t == Settle(s, NextPromise, "rejected", v, 0)
<1>1. /\ CanCreate(1, 0) /\ Becomes(t) /\ queue' = t.queue
      /\ UNCHANGED <<target, unlinked, frames, source, ran>>
  BY DEF PromiseReject
<1>2. NextPromise \in Promise /\ state[NextPromise] = "free"
  BY <1>1, Fresh
<1>3. OnceStore(s, target, source, ran)
  BY <1>2, Facts, OnceFacts, NewOnce
<1> HIDE DEF s
<1>4. v \in Value /\ "rejected" \in Final /\ 0 \in Nat /\ "rejected" # "fulfilled"
  BY Facts DEF Reasons, Value, TypeOK, Final
<1>5. OnceStore(t, target, source, ran) /\ Fewer(s, t, ran) /\ Evolves(s, t)
  BY <1>2, <1>3, <1>4, SettleOK, SettleOnce DEF OnceStore
<1> HIDE DEF t
<1> QED
  BY <1>1, <1>2, <1>5, MadeOnce DEF s

LEMMA AdoptPromiseOnce ==
  ASSUME BaseInv, OnceInv, BaseInv', NEW room \in Nat, AdoptPromise(room)
  PROVE  OnceInv' /\ Abstract!Next
<1>1. PICK m, p, c, s, t, fails, u : Adoption(room, m, p, c, s, t, fails, u)
  BY AdoptionParts
<1> DEFINE q == m.thenable
           d == c + 1
           hf == <<c, "resolve">>
           hr == <<c, "reject">>
<1>2. /\ queue # <<>> /\ queue[1].type = "thenable" /\ p = NextPromise /\ s = New(Store, p)
      /\ p \in Promise /\ d \in Pair /\ c \in Nat /\ c = NextPair /\ c \in Pair
      /\ m.promise \in Promise /\ q \in Promise
      /\ state[p] = "free" /\ s \in StoreType
      /\ source' = [source EXCEPT ![d] = q]
      /\ ThenTo(s, t, q, hf, hr, d) /\ StoreOK(t, target', source')
      /\ StoreOK(u, target', source') /\ Evolves(t, u) /\ Evolves(s, u)
      /\ Becomes(u) /\ Unlink(u, unlinked + 1)
      /\ frames' = frames /\ ran' = ran
      /\ u = IF fails THEN Settle(t, m.promise, "rejected", ERR, room) ELSE t
      /\ s.state = [state EXCEPT ![p] = "pending"]
  BY <1>1 DEF Adoption
<1>3. state[q] # "free" /\ AtLoopTop
  <2>1. queue[1] \in Job /\ JobOK(queue[1], Store, target, source) /\ m = queue[1]
    BY <1>1, <1>2, HeadOK DEF Adoption
  <2> QED
    BY <1>2, <2>1, Facts DEF JobOK, AdoptPromise
<1>4. hf \in Handler /\ hr \in Handler /\ d >= NextPair
  BY <1>2 DEF Handler, Cap, Kind
<1> HIDE DEF q, d, hf, hr
<1>5. s.state[q] # "free"
  BY <1>2, <1>3, Facts DEF TypeOK
<1>6. OnceStore(s, target, source, ran) /\ \A e : Queued(s, e) <=> Queued(Store, e)
  BY <1>2, Facts, OnceFacts, NewOnce
<1>7. source[d] = NONE /\ \A e \in Pair : source[e] # NONE => e < d
  BY <1>2, <1>4, AttachLast
<1>8. OnceStore(t, target', source', ran) /\ Fewer(s, t, ran)
  BY <1>2, <1>4, <1>5, <1>6, <1>7, ThenOnce
<1>9. OnceStore(u, target', source', ran) /\ Fewer(t, u, ran)
  <2>1. "rejected" \in Final /\ ERR \in Value /\ "rejected" # "fulfilled"
    BY DEF Final, Value
  <2>2. CASE fails
    BY <1>2, <1>8, <2>1, <2>2, SettleOnce
  <2>3. CASE ~fails
    BY <1>2, <1>8, <2>3 DEF Fewer
  <2> QED
    BY <2>2, <2>3
<1>10. u \in StoreType /\ Fewer(Store, u, ran)
  BY <1>6, <1>8, <1>9 DEF Fewer, OnceStore, StoreOK
<1>11. /\ Grows(Store, u) /\ lost \subseteq u.lost /\ u.queue # <<>> /\ u.queue[1] = queue[1]
  BY <1>2, <1>10, NewGrows
<1>12. Abstract!Attach(d)
  BY <1>2, <1>3, <1>7 DEF Abstract!Attach
<1>13. CallsStep
  BY <1>2, <1>12 DEF CallsStep
<1>14. /\ queue[1].type # "reaction" /\ frames'[1].kind = "drain"
       /\ FramesOK(frames', unlinked, queue, ran)
  BY <1>2, <1>3, OnceFacts DEF AtLoopTop
<1>15. OnceInv'
  BY <1>2, <1>9, <1>10, <1>11, <1>14, OnceUnlink
<1>16. Abstract!Next
  BY <1>2, <1>9, <1>11, <1>13, AbstractStep
<1> QED
  BY <1>15, <1>16

LEMMA OnceInit ==
  ASSUME Init
  PROVE  OnceInv /\ Abstract!Init
<1>1. /\ Store.queue = <<>> /\ Store.fq = fq /\ Store.state = state /\ Store.lost = {}
      /\ Len(<<>>) = 0 /\ queue = <<>> /\ ran = <<>> /\ frames = <<>>
  BY DEF Init, Store
<1>2. Ordered(Store, source)
  BY <1>1 DEF Ordered, InOrder, Init
<1>3. \A c \in Pair : source[c] = NONE
  BY DEF Init
<1>4. Placed(Store, source, ran)
  BY <1>1, <1>3 DEF Placed, Happened
<1>5. FramesOK(frames, unlinked, queue, ran) /\ Running(Store, frames, ran)
  BY <1>1 DEF FramesOK, Running, Happened
<1>6. Abstract!Init
  BY <1>1, <1>3 DEF Init, Abstract!Init
<1> QED
  BY <1>2, <1>4, <1>5, <1>6 DEF OnceInv

LEMMA OnceStep ==
  ASSUME BaseInv, OnceInv, BaseInv', ~Reentrant, Next
  PROVE  OnceInv' /\ Abstract!Next
<1> DEFINE Goal == OnceInv' /\ Abstract!Next
<1>1. CASE User
  <2>1. CASE NewPromise
    BY <2>1, NewPromiseOnce
  <2>2. ASSUME NEW c \in Pair, NEW v \in Values, NEW room \in Rooms, CapCall(<<c, "resolve">>, v, room)
        PROVE  Goal
    BY <2>2, ValuesOK, CapCallOnce DEF Kind
  <2>3. ASSUME NEW c \in Pair, NEW v \in Reasons, NEW room \in Rooms, CapCall(<<c, "reject">>, v, room)
        PROVE  Goal
    <3>1. <<c, "reject">> \in Cap /\ <<c, "reject">>[2] # "resolve" /\ v \in Value /\ room \in Nat
      BY ValuesOK DEF Kind
    <3> QED
      BY <2>3, <3>1, CapCallOnce
  <2>4. ASSUME NEW p \in known, NEW hf \in {NONE, USER}, NEW hr \in {NONE, USER}, NEW room \in Rooms,
               Then(p, hf, hr, room)
        PROVE  Goal
    BY <2>4, ValuesOK, ThenStepOnce
  <2>5. ASSUME NEW v \in Values, NEW room \in Rooms, PromiseResolve(v, room)
        PROVE  Goal
    BY <2>5, ValuesOK, PromiseResolveOnce
  <2>6. ASSUME NEW v \in Reasons, PromiseReject(v)
        PROVE  Goal
    BY <2>6, PromiseRejectOnce
  <2> QED
    BY <1>1, <2>1, <2>2, <2>3, <2>4, <2>5, <2>6 DEF User
<1>2. CASE Return
  <2>1. ASSUME NEW throws \in BOOLEAN, CtorReturn(throws) PROVE Goal
    BY <2>1, CtorReturnOnce
  <2>2. ASSUME NEW v \in Values, NEW room \in Rooms, HandlerReturn("resolve", v, room) PROVE Goal
    BY <2>2, ValuesOK, HandlerReturnOnce DEF Kind
  <2>3. ASSUME NEW room \in Rooms, HandlerReturn("reject", ERR, room) PROVE Goal
    BY <2>3, ValuesOK, HandlerReturnOnce DEF Kind
  <2>4. ASSUME NEW throws \in BOOLEAN, NEW room \in Rooms, ThenMethodReturn(throws, room) PROVE Goal
    BY <2>4, ValuesOK, ThenMethodReturnOnce
  <2> QED
    BY <1>2, <2>1, <2>2, <2>3, <2>4 DEF Return
<1>3. CASE WakeDrain \/ CallDrain
  BY <1>3, DrainStartOnce
<1>4. CASE RunJob
  <2>1. ASSUME NEW room \in Rooms, PassThrough(room) \/ AdoptedSettles(room) \/ AdoptPromise(room)
        PROVE  Goal
    BY <2>1, ValuesOK, PassThroughOnce, AdoptedSettlesOnce, AdoptPromiseOnce
  <2>2. CASE CallHandler
    BY <2>2, CallHandlerOnce
  <2>3. CASE CallThen
    BY <2>3, CallThenOnce
  <2>4. CASE AdoptionAbandoned
    BY <2>4, AdoptionAbandonedOnce
  <2> QED
    BY <1>4, <2>1, <2>2, <2>3, <2>4 DEF RunJob
<1>5. CASE DrainEnd
  BY <1>5, DrainEndOnce
<1> QED
  BY <1>1, <1>2, <1>3, <1>4, <1>5 DEF Next

\* A step that changes nothing.
LEMMA OnceStutter ==
  ASSUME OnceInv, UNCHANGED vars
  PROVE  OnceInv' /\ UNCHANGED Abstract!vars
<1>1. /\ UNCHANGED <<state, result, fq, rq, queue, lost>>
      /\ UNCHANGED <<unlinked, frames, source, ran>>
  BY DEF vars, stored
<1>2. Store' = Store
  BY <1>1 DEF Store
<1>3. OnceInv'
  BY <1>1, <1>2 DEF OnceInv
<1>4. UNCHANGED Abstract!vars
  BY <1>1 DEF Abstract!vars
<1> QED
  BY <1>3, <1>4

\* The stronger inductive invariant holds when jobs do not call the drainer.
THEOREM OnceAlways ==
  ASSUME ~Reentrant
  PROVE  Spec => [](BaseInv /\ OnceInv)
<1>1. Init => OnceInv
  BY OnceInit
<1>2. BaseInv /\ OnceInv /\ BaseInv' /\ [Next]_vars => OnceInv'
  BY OnceStep, OnceStutter
<1> QED
  BY <1>1, <1>2, BaseAlways, PTL DEF Spec

\* What makes a reaction's places add up, for each then() call.
LEMMA OnePlace ==
  ASSUME BaseInv, OnceInv, NEW c \in Attached
  PROVE  /\ Waiting(c) <=> state[source[c]] = "pending"
         /\ Cardinality(QueuedAt(c)) = IF Queued(Store, c) THEN 1 ELSE 0
         /\ Cardinality(RanAt(c)) = IF Happened(ran, c) THEN 1 ELSE 0
         /\ RunningHead(c) <=> Queued(Store, c) /\ Happened(ran, c)
<1>1. /\ c \in Pair /\ source[c] # NONE /\ Store.queue = queue /\ Store.fq = fq /\ Store.state = state
      /\ queue \in Seq(Job) /\ ran \in Seq(Pair) /\ Len(queue) \in Nat /\ Len(ran) \in Nat
  BY Facts, LenProperties DEF Attached, TypeOK
<1>2. Waiting(c) <=> state[source[c]] = "pending"
  BY <1>1 DEF Waiting, OnceInv, Placed
<1>3. Cardinality(QueuedAt(c)) = IF Queued(Store, c) THEN 1 ELSE 0
  <2>1. CASE Queued(Store, c)
    <3>1. PICK i \in 1..Len(queue) : queue[i].type = "reaction" /\ queue[i].pair = c
      BY <1>1, <2>1 DEF Queued
    <3>2. ASSUME NEW j \in 1..Len(queue), queue[j].type = "reaction", queue[j].pair = c
          PROVE  j = i
      <4>1. InOrder(queue, source) /\ ~(c < c)
        BY <1>1 DEF OnceInv, Ordered, Pair
      <4>2. ~(i < j) /\ ~(j < i)
        BY <3>1, <3>2, <4>1 DEF InOrder, Before
      <4> QED
        BY <1>1, <4>2
    <3>3. QueuedAt(c) = {i}
      BY <3>1, <3>2 DEF QueuedAt
    <3> QED
      BY <2>1, <3>3, FS_Singleton
  <2>2. CASE ~Queued(Store, c)
    <3>1. QueuedAt(c) = {}
      BY <1>1, <2>2 DEF QueuedAt, Queued
    <3> QED
      BY <2>2, <3>1, FS_EmptySet
  <2> QED
    BY <2>1, <2>2
<1>4. Cardinality(RanAt(c)) = IF Happened(ran, c) THEN 1 ELSE 0
  <2>1. CASE Happened(ran, c)
    <3>1. PICK i \in 1..Len(ran) : ran[i] = c
      BY <2>1 DEF Happened
    <3>2. \A j \in 1..Len(ran) : ran[j] = c => j = i
      BY <3>1 DEF OnceInv, Placed
    <3>3. RanAt(c) = {i}
      BY <3>1, <3>2 DEF RanAt
    <3> QED
      BY <2>1, <3>3, FS_Singleton
  <2>2. CASE ~Happened(ran, c)
    <3>1. RanAt(c) = {}
      BY <2>2 DEF RanAt, Happened
    <3> QED
      BY <2>2, <3>1, FS_EmptySet
  <2> QED
    BY <2>1, <2>2
<1>5. RunningHead(c) => Queued(Store, c) /\ Happened(ran, c)
  <2> SUFFICES ASSUME NEW i \in 1..Len(frames), frames[i].kind = "handler", frames[i].pair = c
               PROVE  Queued(Store, c) /\ Happened(ran, c)
    BY DEF RunningHead
  <2>1. queue # <<>> /\ queue[1].type = "reaction" /\ queue[1].pair = c /\ Happened(ran, c)
    BY DEF OnceInv, FramesOK
  <2>2. 1 \in 1..Len(queue)
    BY <1>1, <2>1, EmptySeq
  <2> QED
    BY <1>1, <2>1, <2>2 DEF Queued
<1>6. Queued(Store, c) /\ Happened(ran, c) => RunningHead(c)
  BY <1>1 DEF OnceInv, Running, RunningHead, InJob
<1> QED
  BY <1>2, <1>3, <1>4, <1>5, <1>6

\* Every reaction of a then() call is in exactly one place, waiting, queued or run, unless memory ran
\* out for it: none is lost or doubled by duk__ptrigger_reactions() and the drain, for any number of
\* promises and calls, when jobs do not call the drainer.
THEOREM ReactionOnceHolds ==
  ASSUME ~Reentrant
  PROVE  Spec => []ReactionOnce
<1>1. BaseInv /\ OnceInv => ReactionOnce
  <2> SUFFICES ASSUME BaseInv, OnceInv, NEW c \in Attached
               PROVE  (IF Waiting(c) THEN 1 ELSE 0) + Cardinality(QueuedAt(c)) + Cardinality(RanAt(c))
                        - (IF RunningHead(c) THEN 1 ELSE 0) = IF c \in lost THEN 0 ELSE 1
    BY DEF ReactionOnce
  <2>1. c \in Pair /\ source[c] # NONE /\ Store.state = state /\ Store.lost = lost
    BY Facts DEF Attached
  <2>2. source[c] \in Promise
    BY <2>1, Facts DEF TypeOK
  <2>3. OnceStore(Store, target, source, ran) /\ StoreOK(Store, target, source)
    BY OnceFacts, Facts
  <2>4. Queued(Store, c) => state[source[c]] \in Final
    BY <2>1, <2>3, QueuedSettled
  <2>5. Happened(ran, c) \/ c \in lost => state[source[c]] \in Final
    BY <2>1, <2>3, GoneSettled
  <2>6. state[source[c]] \in Final => Queued(Store, c) \/ Happened(ran, c) \/ c \in lost
    BY <2>1 DEF OnceInv, Placed
  <2>7. c \in lost => ~Queued(Store, c) /\ ~Happened(ran, c)
    BY <2>1 DEF OnceInv, Placed
  <2>8. state[source[c]] = "pending" \/ state[source[c]] \in Final
    BY <2>1, <2>2, Facts DEF TypeOK, Final, StoreOK, PairsOK
  <2>9. "pending" \notin Final
    BY DEF Final
  <2> QED
    BY <2>4, <2>5, <2>6, <2>7, <2>8, <2>9, OnePlace
<1> QED
  BY <1>1, OnceAlways, PTL

\* A microtask whose user code runs is still the head of the queue and is unlinked once, when that
\* code returned to duk_rp_microtask_drain(), if jobs do not call the drainer.
THEOREM UnlinkedOnceHolds ==
  ASSUME ~Reentrant
  PROVE  Spec => []UnlinkedOnce
<1>1. OnceInv => UnlinkedOnce
  BY DEF OnceInv, FramesOK, UnlinkedOnce
<1> QED
  BY <1>1, OnceAlways, PTL

\* The queues and jobs of duk_rp_promise_native.c implement what promises promise: they settle once
\* and for good, and each reaction runs at most once, after its promise settled, in the order of the
\* then() calls.
THEOREM Refinement ==
  ASSUME ~Reentrant
  PROVE  Spec => ImplementsPromises
<1>1. Init => Abstract!Init
  BY OnceInit
<1>2. BaseInv /\ OnceInv /\ BaseInv' /\ [Next]_vars => [Abstract!Next]_(Abstract!vars)
  BY OnceStep, OnceStutter
<1> QED
  BY <1>1, <1>2, OnceAlways, PTL DEF Spec, ImplementsPromises, Abstract!Spec
=============================================================================

--------------------------- MODULE DukThread_proofs ---------------------------
(***************************************************************************)
(* Proofs about DukThread, for every finite set of threads, every limit    *)
(* and every set of statement kinds: the type invariant, the states of     *)
(* threads, the agreement of C stack and callstacks, and the counters.     *)
(***************************************************************************)
EXTENDS DukThread, FiniteSetTheorems, WellFoundedInduction,
        NaturalsInduction, TLAPS

-----------------------------------------------------------------------------
(* The inductive invariant.                                                *)

CallKinds == {"exec", "native"}
SafeKinds == {"safe", "fin"}

\* A protected call on a thread other than the one it was made from.
Cross(f) == f.thr # f.ecurr

\* The C frames among themselves: the first is entered from no thread; only
\* protected calls change the thread, and then to one without frames; the frames of
\* one thread have growing callstack tops; native functions called by native
\* functions are neighbours in the callstack too.
FrameOK(f, i) ==
  /\ f.ecurr = NONE <=> i = 1
  /\ f.kind \in CallKinds => ~Cross(f)
  /\ f.delayed => f.kind = "exec"
  /\ f.estate = IF Cross(f) THEN "inactive" ELSE "running"
  /\ Cross(f) => f.top = 0
PairOK(f, g) ==
  /\ Cross(f) /\ Cross(g) => f.ecurr # g.ecurr
  /\ f.thr = g.thr => ~Cross(g) /\ f.top <= g.top /\ (f.kind \in CallKinds => f.top < g.top)
RunOK(cs, i, j) ==
  (\A l \in i..j : cs[l].kind = "native") =>
    cs[i].thr = cs[j].thr /\ cs[j].top = cs[i].top + (j - i)
StackOK(cs) ==
  /\ \A i \in 1..Len(cs) : FrameOK(cs[i], i)
  /\ \A i, j \in 1..Len(cs) : i < j => PairOK(cs[i], cs[j])
  /\ \A i, j \in 1..Len(cs) : i <= j => RunOK(cs, i, j)

\* A C frame and the thread states.
Placed(f) ==
  /\ Cross(f) => resumer[f.thr] = NONE
  /\ Cross(f) /\ f.ecurr # NONE => tstate[f.ecurr] = "running" /\ f.ecurr # curr
  /\ tstate[f.thr] \in {"running", "resumed"}
  /\ resumer[f.thr] # NONE => f.top >= 1

\* Only a finalizer runs while an executor still has a catch clause to set up.
DelaysOK(cs) == \A i \in 1..Len(cs) : cs[i].delayed /\ i # Len(cs) => cs[i + 1].kind = "fin"

Frames ==
  /\ cstack = <<>> <=> curr = NONE
  /\ cstack = <<>> => Running
  /\ ~Running => Frame.kind # "native" /\ ~Frame.delayed
  /\ StackOK(cstack) /\ DelaysOK(cstack)
  /\ \A i \in 1..Len(cstack) : Placed(cstack[i])

\* Who runs, and who waits for whom.
States ==
  /\ curr # NONE => tstate[curr] = "running"
  /\ \A t \in Thread :
       /\ tstate[t] = "running" =>
            t = curr \/ \E i \in 1..Len(cstack) : Cross(cstack[i]) /\ cstack[i].ecurr = t
       /\ tstate[t] = "resumed" <=> \E u \in Thread : resumer[u] = t
       /\ resumer[t] # NONE => tstate[t] \in {"running", "resumed"}
       /\ \A u \in Thread : resumer[t] = resumer[u] /\ t # u => resumer[t] = NONE
       /\ resumer[t] # NONE /\ callstack[t] = <<>> => t = curr /\ lj.type = "throw"

\* The thread current in C frame i: the one the frame inside it was entered from.
Ctx(i) == IF i = Len(cstack) THEN curr ELSE cstack[i + 1].ecurr

\* Coroutine u was resumed under executor h[u], as number d[u] of those that wait
\* for each other there.  A frame's thread is current in it, or else, in an
\* executor, the last coroutine resumed under it.
LinkOK(h, d, u) ==
  /\ h[u] \in 1..Len(cstack) /\ cstack[h[u]].kind = "exec"
  /\ \A j \in 1..h[u] : cstack[j].thr # u
  /\ \/ resumer[u] = cstack[h[u]].thr /\ d[u] = 1
     \/ /\ resumer[u] # cstack[h[u]].thr
        /\ h[resumer[u]] = h[u] /\ d[u] = d[resumer[u]] + 1
  /\ Ctx(h[u]) # cstack[h[u]].thr /\ d[u] >= 1 /\ d[u] <= d[Ctx(h[u])]
ChainOK(h, d) ==
  /\ \A u \in Thread : resumer[u] = NONE => h[u] = 0
  /\ \A u \in Thread : resumer[u] # NONE => LinkOK(h, d, u)
  /\ \A u, v \in Thread : resumer[u] # NONE /\ h[u] = h[v] /\ d[u] = d[v] => u = v
  /\ \A i \in 1..Len(cstack) :
       Ctx(i) = cstack[i].thr \/ (cstack[i].kind = "exec" /\ h[Ctx(i)] = i)

\* Every C frame finds the activation it was entered for.
Bonus(f) == IF f.kind \in CallKinds THEN 1 ELSE 0
MatchF(f, s) ==
  /\ f.top + Bonus(f) <= Len(s)
  /\ f.kind \in CallKinds =>
       /\ s[f.top + 1].prevent
       /\ s[f.top + 1].fn = IF f.kind = "exec" THEN "ecma" ELSE "native"
Match == \A i \in 1..Len(cstack) : MatchF(cstack[i], callstack[cstack[i].thr])

\* The callstack as C frame i left it: native code runs in the activation it was
\* entered for, an executor in an ECMAScript activation.
Depth(i) == IF i = Len(cstack) THEN Len(callstack[curr])
            ELSE IF Cross(cstack[i + 1]) THEN Len(callstack[cstack[i + 1].ecurr])
            ELSE cstack[i + 1].top
Level(f, s, n) ==
  /\ f.kind = "native" => n = f.top + 1
  /\ f.kind \in SafeKinds => n = f.top
  /\ f.kind = "exec" => n >= 1 /\ s[n].fn = "ecma"
Levels ==
  \A i \in 1..Len(cstack) :
    i < Len(cstack) \/ lj.type \in {"none", "return"} =>
      Level(cstack[i], callstack[Ctx(i)], Depth(i))

\* Every activation entered through C has its frame, unless an error has jumped
\* over it.
HasFrame(t, k) ==
  \E i \in 1..Len(cstack) : cstack[i].thr = t /\ cstack[i].top = k - 1 /\ cstack[i].kind \in CallKinds
Lost(t, k) ==
  /\ lj.type = "throw" /\ t = curr
  /\ \A l \in k..Len(callstack[t]) : callstack[t][l].cats = <<>>
  /\ Frame.thr = t => k > Frame.top
Owned ==
  \A t \in Thread : \A k \in 1..Len(callstack[t]) :
    callstack[t][k].prevent /\ callstack[t][k].fn \in {"ecma", "native"} =>
      HasFrame(t, k) \/ Lost(t, k)

\* Only ECMAScript activations have catchers; what does not prevent yielding was
\* called by an ECMAScript activation; a break continues at a label further out.
ActOK(s, k) ==
  /\ s[k].fn # "ecma" => s[k].cats = <<>> /\ s[k].prevent
  /\ ~s[k].prevent /\ k > 1 => s[k - 1].fn = "ecma"
  /\ \A j \in 1..Len(s[k].cats) : s[k].cats[j].cont = "break" => s[k].cats[j].label <= j
ActsOK(s) == \A k \in 1..Len(s) : ActOK(s, k)
Acts == \A t \in Thread : ActsOK(callstack[t])

\* Suspended threads, and what a longjmp being handled has found.
OnEcma(s, fn) == Len(s) >= 2 /\ s[Len(s)].fn = fn /\ s[Len(s) - 1].fn = "ecma"
ShapeOf(t) ==
  /\ tstate[t] = "yielded" => OnEcma(callstack[t], "yield") /\ preventcount[t] = 1
  /\ tstate[t] = "resumed" => OnEcma(callstack[t], "resume")
  /\ tstate[t] \in {"inactive", "terminated"} => callstack[t] = <<>> /\ preventcount[t] = 0
Shape == \A t \in Thread : ShapeOf(t)
Pending ==
  /\ lj.type = "resume" => /\ lj.thr \in Thread /\ tstate[lj.thr] \in {"inactive", "yielded"}
                           /\ OnEcma(callstack[curr], "resume")
  /\ lj.type = "yield" => /\ OnEcma(callstack[curr], "yield") /\ preventcount[curr] = 1
                          /\ resumer[curr] # NONE
  /\ lj.type = "return" => Frame.kind = "exec"

Base == /\ TypeOK /\ Frames /\ States /\ Match /\ Levels /\ Owned /\ Acts
        /\ Shape /\ Pending /\ PreventExact /\ PfExact
Chained == \E h, d \in [Thread -> Nat] : ChainOK(h, d)
ThreadInv == Base /\ Chained

-----------------------------------------------------------------------------
(* Sequences.                                                              *)

\* The largest element of a set of positions.
LEMMA MaxOf ==
  ASSUME NEW n \in Nat, NEW I \in SUBSET (1..n), I # {}
  PROVE  Max(I) \in I /\ \A i \in I : i <= Max(I)
<1> DEFINE R == OpToRel(<, Nat)
           J == {n - i : i \in I}
<1>0. \A i \in I : i \in 1..n /\ n - i \in Nat
  OBVIOUS
<1>1. J \subseteq Nat /\ J # {}
  BY <1>0
<1>2. PICK x \in J : \A y \in J : ~(<<y, x>> \in R)
  BY <1>1, NatLessThanWellFounded, WFMin
<1>3. PICK m \in I : x = n - m
  OBVIOUS
<1>4. \A i \in I : ~(n - i < n - m)
  BY <1>1, <1>2, <1>3 DEF OpToRel
<1>5. \A i \in I : i <= m
  BY <1>4
<1> QED
  BY <1>5 DEF Max

\* The position found by SelectLastInSeq.
LEMMA LastOf ==
  ASSUME NEW n \in Nat, NEW I \in SUBSET (1..n), NEW m, m = IF I # {} THEN Max(I) ELSE 0
  PROVE  m \in 0..n /\ (m > 0 => m \in I) /\ \A i \in I : i <= m
<1>1. CASE I = {}
  BY <1>1
<1>2. CASE I # {}
  <2>1. m \in I /\ \A i \in I : i <= m
    BY <1>2, MaxOf
  <2>2. I \subseteq 1..n
    OBVIOUS
  <2> QED
    BY <2>1, <2>2
<1> QED
  BY <1>1, <1>2

\* FinallyCat finds a catcher or none.
LEMMA FinallyCatIs ==
  ASSUME NEW c \in Seq(Catcher)
  PROVE  FinallyCat(c) \in 0..Len(c)
<1> DEFINE I == {i \in 1..Len(c) : c[i].finally}
<1>1. FinallyCat(c) = IF I # {} THEN Max(I) ELSE 0
  BY DEF FinallyCat, SelectLastInSeq
<1>2. Len(c) \in Nat /\ I \in SUBSET (1..Len(c))
  OBVIOUS
<1> HIDE DEF I
<1> QED
  BY <1>1, <1>2, LastOf

\* Only native frames are jumped over.
CaughtAt(cs, m) ==
  /\ m \in 0..Len(cs) /\ Caught(cs) = SubSeq(cs, 1, m)
  /\ m > 0 => cs[m].kind # "native"
  /\ \A i \in m + 1..Len(cs) : cs[i].kind = "native"
LEMMA CaughtIs ==
  ASSUME NEW cs \in Seq(CFrame)
  PROVE  \E m : CaughtAt(cs, m)
<1> DEFINE I == {i \in 1..Len(cs) : cs[i].kind # "native"}
           m == IF I # {} THEN Max(I) ELSE 0
<1>1. Caught(cs) = SubSeq(cs, 1, m)
  BY DEF Caught, SelectLastInSeq
<1>2. m \in 0..Len(cs) /\ (m > 0 => m \in I) /\ \A i \in I : i <= m
  <2>1. Len(cs) \in Nat /\ I \in SUBSET (1..Len(cs))
    OBVIOUS
  <2> HIDE DEF I
  <2> QED
    BY <2>1, LastOf
<1> HIDE DEF m
<1>3. \A i \in m + 1..Len(cs) : cs[i].kind = "native"
  BY <1>2
<1> QED
  BY <1>1, <1>2, <1>3 DEF CaughtAt

\* The beginning of a sequence.
LEMMA CutIs ==
  ASSUME NEW S, NEW s \in Seq(S), NEW m \in 0..Len(s)
  PROVE  /\ SubSeq(s, 1, m) \in Seq(S) /\ Len(SubSeq(s, 1, m)) = m
         /\ \A i \in 1..m : SubSeq(s, 1, m)[i] = s[i]
<1>1. \A i \in 1..m : SubSeq(s, 1, m)[i] = s[i]
  OBVIOUS
<1>2. SubSeq(s, 1, m) \in Seq(S) /\ Len(SubSeq(s, 1, m)) = m
  OBVIOUS
<1> QED
  BY <1>1, <1>2

\* A sequence with one element replaced.
LEMMA PutIs ==
  ASSUME NEW S, NEW s \in Seq(S), NEW i \in 1..Len(s), NEW e \in S
  PROVE  /\ [s EXCEPT ![i] = e] \in Seq(S) /\ Len([s EXCEPT ![i] = e]) = Len(s)
         /\ [s EXCEPT ![i] = e][i] = e
         /\ \A j \in 1..Len(s) : j # i => [s EXCEPT ![i] = e][j] = s[j]
OBVIOUS

-----------------------------------------------------------------------------
(* Counting.                                                               *)

LEMMA CountFinite ==
  ASSUME NEW n \in Nat, NEW S \in SUBSET (1..n)
  PROVE  IsFiniteSet(S) /\ Cardinality(S) \in Nat
<1>1. IsFiniteSet(1..n)
  BY FS_Interval
<1> QED
  BY <1>1, FS_Subset, FS_CardinalityType

LEMMA CountAdd ==
  ASSUME NEW n \in Nat, NEW S \in SUBSET (1..n)
  PROVE  Cardinality(S \cup {n + 1}) = Cardinality(S) + 1
<1>1. IsFiniteSet(S)
  BY CountFinite
<1>2. n + 1 \notin S
  OBVIOUS
<1> QED
  BY <1>1, <1>2, FS_AddElement

LEMMA CountSplit ==
  ASSUME NEW n \in Nat, NEW S \in SUBSET (1..n), NEW m \in Nat
  PROVE  Cardinality(S) = Cardinality({k \in S : k <= m}) + Cardinality({k \in S : k > m})
<1> DEFINE A == {k \in S : k <= m}
           B == {k \in S : k > m}
<1>1. IsFiniteSet(A) /\ IsFiniteSet(B)
  <2>1. A \in SUBSET (1..n) /\ B \in SUBSET (1..n)
    OBVIOUS
  <2> HIDE DEF A, B
  <2> QED
    BY <2>1, CountFinite
<1>0. \A k \in S : (k <= m \/ k > m) /\ ~(k <= m /\ k > m)
  OBVIOUS
<1>2. S = A \cup B /\ A \cap B = {}
  <2>1. S = A \cup B
    BY <1>0
  <2>2. A \cap B = {}
    BY <1>0
  <2> QED
    BY <2>1, <2>2
<1> HIDE DEF A, B
<1>3. Cardinality(A \cup B) = Cardinality(A) + Cardinality(B) - Cardinality({})
  BY <1>1, <1>2, FS_Union
<1>4. Cardinality(A) \in Nat /\ Cardinality(B) \in Nat /\ Cardinality({}) = 0
  BY <1>1, FS_CardinalityType, FS_EmptySet
<1>5. Cardinality(S) = Cardinality(A) + Cardinality(B)
  BY <1>2, <1>3, <1>4
<1> QED
  BY <1>5 DEF A, B

\* The activations of a callstack that prevent a yield, the protected calls on a
\* thread and the finalizers of a C stack.
PreventSet(s) == {k \in DOMAIN s : s[k].prevent}
SafeSet(cs, t) == {i \in DOMAIN cs : cs[i].kind \in {"safe", "fin"} /\ cs[i].thr = t}
FinSet(cs) == {i \in DOMAIN cs : cs[i].kind = "fin"}

LEMMA Sets ==
  /\ \A s \in Seq(Activation) : PreventSet(s) \in SUBSET (1..Len(s)) /\ Len(s) \in Nat
  /\ \A cs \in Seq(CFrame) : Len(cs) \in Nat /\ FinSet(cs) \in SUBSET (1..Len(cs))
                             /\ \A t \in Thread : SafeSet(cs, t) \in SUBSET (1..Len(cs))
BY DEF PreventSet, SafeSet, FinSet

LEMMA CountsNat ==
  /\ \A s \in Seq(Activation) : Cardinality(PreventSet(s)) \in Nat
  /\ \A cs \in Seq(CFrame) : /\ Cardinality(FinSet(cs)) \in Nat
                             /\ \A t \in Thread : Cardinality(SafeSet(cs, t)) \in Nat
BY Sets, CountFinite

LEMMA ActPush ==
  ASSUME NEW s \in Seq(Activation), NEW a \in Activation
  PROVE  Cardinality(PreventSet(Append(s, a))) =
           Cardinality(PreventSet(s)) + (IF a.prevent THEN 1 ELSE 0)
<1>1. PreventSet(Append(s, a)) =
        IF a.prevent THEN PreventSet(s) \cup {Len(s) + 1} ELSE PreventSet(s)
  BY DEF PreventSet
<1>2. Cardinality(PreventSet(s)) \in Nat /\ Len(s) \in Nat /\ PreventSet(s) \in SUBSET (1..Len(s))
  BY CountsNat, Sets
<1> QED
  BY <1>1, <1>2, CountAdd

LEMMA ActCut ==
  ASSUME NEW s \in Seq(Activation), NEW m \in 0..Len(s)
  PROVE  /\ Cardinality(PreventSet(s)) - Cardinality({k \in m + 1..Len(s) : s[k].prevent})
              = Cardinality(PreventSet(SubSeq(s, 1, m)))
         /\ SubSeq(s, 1, m) \in Seq(Activation)
         /\ Cardinality({k \in m + 1..Len(s) : s[k].prevent}) \in Nat
<1> DEFINE S == PreventSet(s)
           A == {k \in S : k <= m}
           B == {k \in S : k > m}
<1>1. Len(s) \in Nat /\ m \in Nat /\ S \in SUBSET (1..Len(s))
  BY Sets
<1>2. SubSeq(s, 1, m) \in Seq(Activation)
  OBVIOUS
<1>3. A = PreventSet(SubSeq(s, 1, m))
  BY DEF PreventSet
<1>4. B = {k \in m + 1..Len(s) : s[k].prevent}
  BY DEF PreventSet
<1>5. Cardinality(S) = Cardinality(A) + Cardinality(B)
  <2> HIDE DEF S
  <2> QED
    BY <1>1, CountSplit
<1>6. Cardinality(S) \in Nat /\ Cardinality(A) \in Nat
  BY CountsNat, <1>2, <1>3
<1>7. Cardinality(B) \in Nat
  <2>1. B \in SUBSET (1..Len(s))
    BY <1>1
  <2> HIDE DEF B
  <2> QED
    BY <2>1, <1>1, CountFinite
<1> HIDE DEF S, A, B
<1>8. Cardinality(S) - Cardinality(B) = Cardinality(A)
  BY <1>5, <1>6, <1>7
<1> QED
  BY <1>2, <1>3, <1>4, <1>7, <1>8 DEF S

LEMMA FramePush ==
  ASSUME NEW cs \in Seq(CFrame), NEW f \in CFrame, NEW t \in Thread
  PROVE  /\ Cardinality(SafeSet(Append(cs, f), t)) =
              Cardinality(SafeSet(cs, t)) + (IF f.kind \in {"safe", "fin"} /\ f.thr = t THEN 1 ELSE 0)
         /\ Cardinality(FinSet(Append(cs, f))) =
              Cardinality(FinSet(cs)) + (IF f.kind = "fin" THEN 1 ELSE 0)
<1>1. SafeSet(Append(cs, f), t) =
        IF f.kind \in {"safe", "fin"} /\ f.thr = t THEN SafeSet(cs, t) \cup {Len(cs) + 1}
                                                   ELSE SafeSet(cs, t)
  BY DEF SafeSet
<1>2. FinSet(Append(cs, f)) = IF f.kind = "fin" THEN FinSet(cs) \cup {Len(cs) + 1} ELSE FinSet(cs)
  BY DEF FinSet
<1>3. /\ Cardinality(SafeSet(cs, t)) \in Nat /\ Len(cs) \in Nat
      /\ SafeSet(cs, t) \in SUBSET (1..Len(cs)) /\ FinSet(cs) \in SUBSET (1..Len(cs))
      /\ Cardinality(FinSet(cs)) \in Nat
  BY CountsNat, Sets
<1> QED
  BY <1>1, <1>2, <1>3, CountAdd, SMTT(30)

LEMMA FramePop ==
  ASSUME NEW cs \in Seq(CFrame), cs # <<>>, NEW t \in Thread
  PROVE  /\ Front(cs) \in Seq(CFrame) /\ Last(cs) \in CFrame
         /\ Len(Front(cs)) = Len(cs) - 1 /\ Len(cs) \in Nat \ {0}
         /\ \A i \in 1..Len(cs) - 1 : Front(cs)[i] = cs[i]
         /\ Cardinality(SafeSet(cs, t)) =
              Cardinality(SafeSet(Front(cs), t))
                + (IF Last(cs).kind \in {"safe", "fin"} /\ Last(cs).thr = t THEN 1 ELSE 0)
         /\ Cardinality(FinSet(cs)) =
              Cardinality(FinSet(Front(cs))) + (IF Last(cs).kind = "fin" THEN 1 ELSE 0)
<1>1. Len(cs) \in Nat \ {0}
  OBVIOUS
<1>2. /\ Front(cs) \in Seq(CFrame) /\ Last(cs) \in CFrame /\ Len(Front(cs)) = Len(cs) - 1
      /\ \A i \in 1..Len(cs) - 1 : Front(cs)[i] = cs[i]
  <2>1. Len(cs) - 1 \in 0..Len(cs) /\ Len(cs) \in 1..Len(cs)
    BY <1>1
  <2>2. Last(cs) \in CFrame
    BY <2>1 DEF Last
  <2>3. /\ Front(cs) \in Seq(CFrame) /\ Len(Front(cs)) = Len(cs) - 1
        /\ \A i \in 1..Len(cs) - 1 : Front(cs)[i] = cs[i]
    BY <2>1, CutIs DEF Front
  <2> QED
    BY <2>2, <2>3
<1>3. cs = Append(Front(cs), Last(cs))
  BY <1>1, <1>2 DEF Last
<1>4. /\ Cardinality(SafeSet(Append(Front(cs), Last(cs)), t)) =
           Cardinality(SafeSet(Front(cs), t))
             + (IF Last(cs).kind \in {"safe", "fin"} /\ Last(cs).thr = t THEN 1 ELSE 0)
      /\ Cardinality(FinSet(Append(Front(cs), Last(cs)))) =
           Cardinality(FinSet(Front(cs))) + (IF Last(cs).kind = "fin" THEN 1 ELSE 0)
  <2> HIDE <1>3
  <2> QED
    BY <1>2, FramePush
<1> QED
  BY <1>1, <1>2, <1>3, <1>4, Zenon

\* ds is the first m frames of cs.
Prefix(cs, ds, m) ==
  m \in 0..Len(cs) /\ ds \in Seq(CFrame) /\ Len(ds) = m /\ \A i \in 1..m : ds[i] = cs[i]

LEMMA FrameCut ==
  ASSUME NEW cs \in Seq(CFrame), NEW ds, NEW m, Prefix(cs, ds, m), NEW t \in Thread,
         \A i \in m + 1..Len(cs) : cs[i].kind \in CallKinds
  PROVE  SafeSet(ds, t) = SafeSet(cs, t) /\ FinSet(ds) = FinSet(cs)
<1>1. Len(cs) \in Nat /\ m \in 0..Len(cs) /\ DOMAIN ds = 1..m /\ \A i \in 1..m : ds[i] = cs[i]
  BY DEF Prefix
<1>2. DOMAIN cs = 1..Len(cs) /\ \A i \in 1..Len(cs) : i \in 1..m \/ cs[i].kind \in {"exec", "native"}
  BY <1>1 DEF CallKinds
<1>3. \A i \in 1..m : i \in 1..Len(cs)
  BY <1>1
<1> QED
  BY <1>1, <1>2, <1>3 DEF SafeSet, FinSet

LEMMA FrameSame ==
  ASSUME NEW cs \in Seq(CFrame), NEW ds \in Seq(CFrame), NEW t \in Thread, Len(ds) = Len(cs),
         \A i \in 1..Len(cs) : ds[i].kind = cs[i].kind /\ ds[i].thr = cs[i].thr
  PROVE  SafeSet(ds, t) = SafeSet(cs, t) /\ FinSet(ds) = FinSet(cs)
BY DEF SafeSet, FinSet

LEMMA ActSame ==
  ASSUME NEW s \in Seq(Activation), NEW r \in Seq(Activation), Len(r) = Len(s),
         \A k \in 1..Len(s) : r[k].prevent = s[k].prevent
  PROVE  PreventSet(r) = PreventSet(s)
BY DEF PreventSet

-----------------------------------------------------------------------------
(* The C stack.                                                            *)

LEMMA FrameType ==
  ASSUME NEW f \in CFrame
  PROVE  /\ f.kind \in {"exec", "native", "safe", "fin"} /\ f.thr \in Thread
         /\ f.ecurr \in Thread \cup {NONE} /\ f.estate \in {"inactive", "running"}
         /\ f.top \in Nat /\ f.delayed \in BOOLEAN
         /\ Bonus(f) \in {0, 1} /\ f.top + Bonus(f) \in Nat
BY DEF CFrame, Bonus

\* Two states of one frame.
Same(f, g) == /\ g.kind = f.kind /\ g.thr = f.thr /\ g.ecurr = f.ecurr
              /\ g.estate = f.estate /\ g.top = f.top

SameFrames(cs, ds, m) == \A i \in 1..m : Same(cs[i], ds[i]) /\ (ds[i].delayed => ds[i].kind = "exec")

LEMMA StackPrefix ==
  ASSUME NEW cs \in Seq(CFrame), NEW ds \in Seq(CFrame), Len(ds) <= Len(cs),
         SameFrames(cs, ds, Len(ds)), StackOK(cs)
  PROVE  StackOK(ds)
<1>1. Len(ds) \in Nat /\ Len(cs) \in Nat /\ \A i \in 1..Len(ds) : i \in 1..Len(cs)
  OBVIOUS
<1>2. \A i \in 1..Len(ds) : FrameOK(ds[i], i)
  BY <1>1 DEF SameFrames, Same, StackOK, FrameOK, Cross
<1>3. \A i, j \in 1..Len(ds) : i < j => PairOK(ds[i], ds[j])
  BY <1>1 DEF SameFrames, Same, StackOK, PairOK, Cross
<1>4. ASSUME NEW i \in 1..Len(ds), NEW j \in 1..Len(ds), i <= j
      PROVE  RunOK(ds, i, j)
  <2>1. RunOK(cs, i, j)
    BY <1>1, <1>4 DEF StackOK
  <2>2. \A l \in i..j : l \in 1..Len(ds) /\ Same(cs[l], ds[l])
    BY <1>1, <1>4 DEF SameFrames
  <2>3. Same(cs[i], ds[i]) /\ Same(cs[j], ds[j])
    BY <1>4 DEF SameFrames
  <2>4. (\A l \in i..j : ds[l].kind = "native") => \A l \in i..j : cs[l].kind = "native"
    BY <2>2 DEF Same
  <2> QED
    BY <2>1, <2>3, <2>4 DEF RunOK, Same
<1> QED
  BY <1>2, <1>3, <1>4 DEF StackOK

\* What a new frame f has to satisfy on top of cs.
Fits(cs, f) ==
  /\ FrameOK(f, Len(cs) + 1)
  /\ \A i \in 1..Len(cs) : PairOK(cs[i], f)
  /\ f.kind = "native" /\ cs # <<>> /\ cs[Len(cs)].kind = "native" =>
       f.thr = cs[Len(cs)].thr /\ f.top = cs[Len(cs)].top + 1

LEMMA StackPush ==
  ASSUME NEW cs \in Seq(CFrame), NEW f \in CFrame, StackOK(cs), Fits(cs, f)
  PROVE  StackOK(Append(cs, f))
<1> DEFINE n == Len(cs)
           ds == Append(cs, f)
<1>1. n \in Nat /\ Len(ds) = n + 1 /\ ds[n + 1] = f /\ \A i \in 1..n : ds[i] = cs[i]
  OBVIOUS
<1>2. \A i \in 1..n + 1 : i \in 1..n \/ i = n + 1
  BY <1>1
<1> HIDE DEF ds, n
<1>3. \A i \in 1..n + 1 : FrameOK(ds[i], i)
  BY <1>1, <1>2 DEF StackOK, Fits, n
<1>4. \A i, j \in 1..n + 1 : i < j => PairOK(ds[i], ds[j])
  BY <1>1, <1>2 DEF StackOK, Fits, n
<1>5. ASSUME NEW i \in 1..n + 1, NEW j \in 1..n + 1, i <= j
      PROVE  RunOK(ds, i, j)
  <2>1. CASE j \in 1..n
    <3>1. i \in 1..n /\ \A l \in i..j : l \in 1..n
      BY <1>1, <1>5, <2>1
    <3>2. RunOK(cs, i, j)
      BY <3>1, <1>5, <2>1 DEF StackOK, n
    <3> QED
      BY <3>1, <3>2, <2>1, <1>1 DEF RunOK
  <2>2. CASE j = n + 1 /\ i = n + 1
    <3>1. i \in Nat /\ f.top \in Nat
      BY <1>1, FrameType
    <3> QED
      BY <3>1, <2>2, <1>1 DEF RunOK
  <2>3. CASE j = n + 1 /\ i \in 1..n
    <3> SUFFICES ASSUME \A l \in i..j : ds[l].kind = "native"
                 PROVE  ds[i].thr = ds[j].thr /\ ds[j].top = ds[i].top + (j - i)
      BY DEF RunOK
    <3>1. n \in 1..n /\ i <= n /\ \A l \in i..n : l \in 1..n /\ l \in i..j
      BY <2>3, <1>1
    <3>2. \A l \in i..n : cs[l].kind = "native"
      BY <3>1, <1>1
    <3>3. cs[i].thr = cs[n].thr /\ cs[n].top = cs[i].top + (n - i)
      BY <3>1, <3>2, <2>3 DEF StackOK, RunOK, n
    <3>4. f.kind = "native" /\ cs # <<>> /\ cs[n].kind = "native"
      <4>1. j \in i..j /\ n \in i..n
        BY <2>3, <1>1
      <4>2. cs # <<>>
        BY <3>1 DEF n
      <4> QED
        BY <4>1, <4>2, <2>3, <1>1, <3>1, <3>2
    <3>5. f.thr = cs[n].thr /\ f.top = cs[n].top + 1
      BY <3>4 DEF Fits, n
    <3>6. cs[i].top \in Nat /\ i \in Nat
      BY <2>3, FrameType DEF n
    <3> QED
      BY <3>3, <3>5, <3>6, <1>1, <2>3, SMTT(30)
  <2> QED
    BY <1>2, <2>1, <2>2, <2>3
<1> QED
  BY <1>1, <1>3, <1>4, <1>5 DEF StackOK, ds

-----------------------------------------------------------------------------
(* Coroutines and the executors they were resumed under.                   *)

FramesAre(m) == Len(cstack') = m /\ \A i \in 1..m : i <= Len(cstack) => Same(cstack[i], cstack'[i])

LEMMA ChainSame ==
  ASSUME TypeOK, NEW h \in [Thread -> Nat], NEW d \in [Thread -> Nat], ChainOK(h, d),
         FramesAre(Len(cstack)), resumer' = resumer, curr' = curr
  PROVE  ChainOK(h, d)'
<1> DEFINE n == Len(cstack)
<1>1. n \in Nat /\ Len(cstack') = n /\ \A i \in 1..n : Same(cstack[i], cstack'[i])
  BY DEF TypeOK, FramesAre
<1>2. ASSUME NEW i \in 1..n
      PROVE  Ctx(i)' = Ctx(i) /\ cstack'[i].kind = cstack[i].kind /\ cstack'[i].thr = cstack[i].thr
  <2>1. i # n => i + 1 \in 1..n
    BY <1>1
  <2> QED
    BY <2>1, <1>1, <1>2 DEF Ctx, Same
<1>3. ASSUME NEW u \in Thread, resumer[u] # NONE
      PROVE  LinkOK(h, d, u)'
  <2>1. LinkOK(h, d, u)
    BY <1>3 DEF ChainOK
  <2>2. h[u] \in 1..n /\ \A j \in 1..h[u] : j \in 1..n
    BY <2>1, <1>1 DEF LinkOK
  <2> QED
    BY <2>1, <2>2, <1>1, <1>2 DEF LinkOK
<1> QED
  BY <1>1, <1>2, <1>3 DEF ChainOK

\* A new frame.
LEMMA ChainPush ==
  ASSUME TypeOK, NEW h \in [Thread -> Nat], NEW d \in [Thread -> Nat], ChainOK(h, d),
         FramesAre(Len(cstack) + 1), resumer' = resumer,
         cstack'[Len(cstack) + 1].ecurr = curr, curr' = cstack'[Len(cstack) + 1].thr
  PROVE  ChainOK(h, d)'
<1> DEFINE n == Len(cstack)
<1>1. n \in Nat /\ Len(cstack') = n + 1 /\ \A i \in 1..n : i \in 1..n + 1 /\ Same(cstack[i], cstack'[i])
  BY DEF TypeOK, FramesAre
<1>2. ASSUME NEW i \in 1..n
      PROVE  Ctx(i)' = Ctx(i) /\ cstack'[i].kind = cstack[i].kind /\ cstack'[i].thr = cstack[i].thr
  <2>1. i # n + 1 /\ (i # n => i + 1 \in 1..n)
    BY <1>1
  <2>2. i = n => Ctx(i)' = curr /\ Ctx(i) = curr
    BY <2>1, <1>1 DEF Ctx
  <2>3. i # n => Ctx(i)' = cstack'[i + 1].ecurr /\ Ctx(i) = cstack[i + 1].ecurr
    BY <2>1, <1>1 DEF Ctx
  <2> QED
    BY <2>1, <2>2, <2>3, <1>1, <1>2 DEF Same
<1>3. ASSUME NEW u \in Thread, resumer[u] # NONE
      PROVE  LinkOK(h, d, u)'
  <2>1. LinkOK(h, d, u)
    BY <1>3 DEF ChainOK
  <2>2. h[u] \in 1..n /\ \A j \in 1..h[u] : j \in 1..n
    BY <2>1, <1>1 DEF LinkOK
  <2> QED
    BY <2>1, <2>2, <1>1, <1>2 DEF LinkOK
<1>4. ASSUME NEW i \in 1..n + 1
      PROVE  Ctx(i)' = cstack'[i].thr \/ (cstack'[i].kind = "exec" /\ h[Ctx(i)'] = i)
  <2>1. CASE i \in 1..n
    BY <2>1, <1>2 DEF ChainOK
  <2>2. CASE i = n + 1
    BY <2>2, <1>1 DEF Ctx
  <2> QED
    BY <2>1, <2>2, <1>1
<1> QED
  BY <1>1, <1>3, <1>4 DEF ChainOK

\* Frames that are left in the thread they were entered for.
LEMMA ChainCut ==
  ASSUME TypeOK, NEW h \in [Thread -> Nat], NEW d \in [Thread -> Nat], ChainOK(h, d),
         NEW m \in Nat, m < Len(cstack), FramesAre(m), resumer' = resumer,
         \A i \in m + 1..Len(cstack) : Ctx(i) = cstack[i].thr, curr' = cstack[m + 1].ecurr
  PROVE  ChainOK(h, d)'
<1> DEFINE n == Len(cstack)
<1>1. n \in Nat /\ m < n /\ Len(cstack') = m /\ \A i \in 1..m : i \in 1..n /\ Same(cstack[i], cstack'[i])
  BY DEF TypeOK, FramesAre
<1>2. ASSUME NEW i \in 1..m
      PROVE  Ctx(i)' = Ctx(i) /\ cstack'[i].kind = cstack[i].kind /\ cstack'[i].thr = cstack[i].thr
  <2>1. i # n /\ (i # m => i + 1 \in 1..m)
    BY <1>1
  <2>2. i = m => Ctx(i)' = cstack[m + 1].ecurr /\ Ctx(i) = cstack[m + 1].ecurr
    BY <2>1, <1>1 DEF Ctx
  <2>3. i # m => Ctx(i)' = cstack'[i + 1].ecurr /\ Ctx(i) = cstack[i + 1].ecurr
    BY <2>1, <1>1 DEF Ctx
  <2> QED
    BY <2>1, <2>2, <2>3, <1>1, <1>2 DEF Same
<1>3. ASSUME NEW u \in Thread, resumer[u] # NONE
      PROVE  LinkOK(h, d, u)'
  <2>1. LinkOK(h, d, u)
    BY <1>3 DEF ChainOK
  <2>2. h[u] \in 1..n /\ h[u] \notin m + 1..n
    BY <2>1, <1>1 DEF LinkOK
  <2>3. h[u] \in 1..m /\ \A j \in 1..h[u] : j \in 1..m
    BY <2>2, <1>1
  <2> QED
    BY <2>1, <2>3, <1>1, <1>2 DEF LinkOK
<1>4. ASSUME NEW i \in 1..m
      PROVE  Ctx(i)' = cstack'[i].thr \/ (cstack'[i].kind = "exec" /\ h[Ctx(i)'] = i)
  BY <1>1, <1>2 DEF ChainOK
<1> QED
  BY <1>1, <1>3, <1>4 DEF ChainOK

\* Unless the current thread is the one the innermost frame was entered for, it has
\* no frames at all.
LEMMA CurrFrames ==
  ASSUME TypeOK, NEW h \in [Thread -> Nat], NEW d \in [Thread -> Nat], ChainOK(h, d),
         cstack # <<>>, Frame.thr # curr, curr \in Thread
  PROVE  /\ Frame.kind = "exec" /\ resumer[curr] # NONE /\ h[curr] = Len(cstack)
         /\ \A i \in 1..Len(cstack) : cstack[i].thr # curr
<1> DEFINE n == Len(cstack)
<1>1. n \in 1..n /\ Frame = cstack[n] /\ Ctx(n) = curr
  BY DEF TypeOK, Frame, Last, Ctx
<1>2. Frame.kind = "exec" /\ h[curr] = n
  BY <1>1 DEF ChainOK
<1>3. resumer[curr] # NONE
  BY <1>1, <1>2 DEF ChainOK
<1> QED
  BY <1>1, <1>2, <1>3 DEF ChainOK, LinkOK

\* The current thread resumes t.
LEMMA ChainSwitch ==
  ASSUME TypeOK, NEW h \in [Thread -> Nat], NEW d \in [Thread -> Nat], ChainOK(h, d),
         NEW t \in Thread, resumer' = [resumer EXCEPT ![t] = curr], curr' = t, cstack' = cstack,
         cstack # <<>>, Frame.kind = "exec", curr \in Thread, t # curr, resumer[t] = NONE,
         \A u \in Thread : resumer[u] # t,
         \A i \in 1..Len(cstack) : cstack[i].thr # t
  PROVE  Chained'
<1> DEFINE n == Len(cstack)
           f == cstack[n]
<1>1. n \in Nat /\ n \in 1..n /\ Frame = f /\ Ctx(n) = curr /\ Ctx(n)' = t /\ NONE \notin Thread
  <2>1. n \in Nat /\ n # 0
    BY DEF TypeOK
  <2>2. Ctx(n) = curr /\ Ctx(n)' = t /\ Frame = f
    BY DEF Ctx, Frame, Last
  <2> QED
    BY <2>1, <2>2, ThreadAssumption
<1>e. PICK e \in Nat : e = IF curr = f.thr THEN 1 ELSE d[curr] + 1
  OBVIOUS
<1>h. PICK h2 \in [Thread -> Nat] : h2 = [h EXCEPT ![t] = n]
  BY <1>1
<1>d. PICK d2 \in [Thread -> Nat] : d2 = [d EXCEPT ![t] = e]
  OBVIOUS
<1>2. h2[t] = n /\ d2[t] = e /\ e >= 1
      /\ \A u \in Thread : u # t => h2[u] = h[u] /\ d2[u] = d[u]
  BY <1>1, <1>e, <1>h, <1>d
<1>3. h[t] = 0 /\ \A i \in 1..n : i # n => Ctx(i)' = Ctx(i) /\ Ctx(i) # t
  <2>1. h[t] = 0
    BY DEF ChainOK
  <2>2. ASSUME NEW i \in 1..n, i # n
        PROVE  Ctx(i)' = Ctx(i) /\ Ctx(i) # t
    <3>1. Ctx(i)' = Ctx(i)
      BY <2>2 DEF Ctx
    <3>2. cstack[i].thr # t /\ i # 0
      BY <1>1
    <3> QED
      BY <3>1, <3>2, <2>1 DEF ChainOK
  <2> QED
    BY <2>1, <2>2
<1>4. resumer'[t] = curr /\ \A u \in Thread : u # t => resumer'[u] = resumer[u]
  BY DEF TypeOK
<1>5. curr # f.thr => h[curr] = n
  BY <1>1 DEF ChainOK
<1>6. \A u \in Thread : resumer[u] # NONE /\ h[u] = n => d[u] < e
  <2> SUFFICES ASSUME NEW u \in Thread, resumer[u] # NONE, h[u] = n
               PROVE  d[u] < e
    OBVIOUS
  <2>1. LinkOK(h, d, u)
    BY DEF ChainOK
  <2>2. curr # f.thr /\ d[u] <= d[curr]
    BY <2>1, <1>1 DEF LinkOK
  <2> QED
    BY <2>2, <1>e
<1>7. LinkOK(h2, d2, t)'
  <2>1. h2[t] \in 1..n /\ cstack[h2[t]].kind = "exec" /\ \A j \in 1..h2[t] : cstack[j].thr # t
    BY <1>1, <1>2
  <2>2. \/ curr = f.thr /\ d2[t] = 1
        \/ curr # f.thr /\ h2[curr] = n /\ d2[t] = d2[curr] + 1
    BY <1>2, <1>5, <1>e
  <2>3. t # f.thr
    BY <1>1
  <2> HIDE DEF f
  <2> QED
    BY <2>1, <2>2, <2>3, <1>1, <1>2, <1>4 DEF LinkOK, f
<1>8. ASSUME NEW u \in Thread, u # t, resumer[u] # NONE
      PROVE  LinkOK(h2, d2, u)'
  <2>1. LinkOK(h, d, u) /\ resumer'[u] = resumer[u] /\ h2[u] = h[u] /\ d2[u] = d[u]
    BY <1>2, <1>4, <1>8 DEF ChainOK
  <2>2. resumer[u] \in Thread /\ resumer[u] # t
    BY <1>8 DEF TypeOK
  <2>3. h2[resumer[u]] = h[resumer[u]] /\ d2[resumer[u]] = d[resumer[u]]
    BY <2>2, <1>2
  <2>4. h[u] \in 1..n /\ d[u] \in Nat /\ d[u] >= 1
    BY <2>1 DEF LinkOK
  <2>5. Ctx(h[u])' # cstack[h[u]].thr /\ d[u] <= d2[Ctx(h[u])']
    <3>1. CASE h[u] = n
      BY <3>1, <1>1, <1>2, <1>6, <1>8, <2>4
    <3>2. CASE h[u] # n
      <4>1. Ctx(h[u])' = Ctx(h[u]) /\ Ctx(h[u]) # t
        BY <3>2, <2>4, <1>3
      <4>2. Ctx(h[u]) # cstack[h[u]].thr /\ d[u] <= d[Ctx(h[u])]
        BY <2>1 DEF LinkOK
      <4>3. d2[Ctx(h[u])] = d[Ctx(h[u])]
        BY <4>1, <1>d
      <4> QED
        BY <4>1, <4>2, <4>3
    <3> QED
      BY <3>1, <3>2
  <2>6. /\ cstack[h[u]].kind = "exec" /\ \A j \in 1..h[u] : cstack[j].thr # u
        /\ \/ resumer[u] = cstack[h[u]].thr /\ d[u] = 1
           \/ /\ resumer[u] # cstack[h[u]].thr
              /\ h2[resumer[u]] = h[u] /\ d[u] = d2[resumer[u]] + 1
    BY <2>1, <2>3 DEF LinkOK
  <2> QED
    BY <2>1, <2>4, <2>5, <2>6 DEF LinkOK
<1>9. \A u \in Thread : resumer'[u] = NONE => h2[u] = 0
  BY <1>1, <1>2, <1>4 DEF ChainOK
<1>10. ASSUME NEW u \in Thread, NEW v \in Thread, resumer'[u] # NONE, h2[u] = h2[v], d2[u] = d2[v]
       PROVE  u = v
  <2>1. CASE u # t /\ v # t
    BY <2>1, <1>2, <1>4, <1>10 DEF ChainOK
  <2>2. CASE u = t /\ v # t
    <3>1. resumer[v] # NONE
      BY <2>2, <1>1, <1>2, <1>10 DEF ChainOK
    <3> QED
      BY <3>1, <2>2, <1>2, <1>6, <1>10
  <2>3. CASE u # t /\ v = t
    BY <2>3, <1>2, <1>4, <1>6, <1>10
  <2> QED
    BY <2>1, <2>2, <2>3
<1>11. ASSUME NEW i \in 1..n
       PROVE  Ctx(i)' = cstack[i].thr \/ (cstack[i].kind = "exec" /\ h2[Ctx(i)'] = i)
  <2>1. CASE i = n
    BY <2>1, <1>1, <1>2
  <2>2. CASE i # n
    <3>1. Ctx(i)' = Ctx(i) /\ Ctx(i) # t
      BY <2>2, <1>3
    <3>2. h2[Ctx(i)] = h[Ctx(i)]
      BY <3>1, <1>h
    <3> QED
      BY <3>1, <3>2 DEF ChainOK
  <2> QED
    BY <2>1, <2>2
<1>12. ASSUME NEW u \in Thread, resumer'[u] # NONE
       PROVE  LinkOK(h2, d2, u)'
  BY <1>4, <1>7, <1>8, <1>12
<1>13. ChainOK(h2, d2)'
  BY <1>9, <1>10, <1>11, <1>12 DEF ChainOK
<1> QED
  BY <1>2, <1>13 DEF Chained

\* The current thread stops and its resumer goes on.
LEMMA ChainLeave ==
  ASSUME TypeOK, NEW h \in [Thread -> Nat], NEW d \in [Thread -> Nat], ChainOK(h, d),
         cstack # <<>>, curr \in Thread, resumer[curr] \in Thread, Frame.thr # curr,
         \A u \in Thread : resumer[u] # curr,
         resumer' = [resumer EXCEPT ![curr] = NONE], curr' = resumer[curr], cstack' = cstack
  PROVE  Chained'
<1> DEFINE n == Len(cstack)
           f == cstack[n]
<1> PICK c \in Thread : c = curr
  OBVIOUS
<1> PICK r \in Thread : r = resumer[c]
  OBVIOUS
<1>1. n \in Nat /\ n \in 1..n /\ Frame = f /\ Ctx(n) = c /\ Ctx(n)' = r /\ NONE \notin Thread /\ r # c
  <2>1. n \in Nat /\ n # 0
    BY DEF TypeOK
  <2>2. Ctx(n) = c /\ Ctx(n)' = r /\ Frame = f
    BY DEF Ctx, Frame, Last
  <2> QED
    BY <2>1, <2>2, ThreadAssumption
<1>2. h[c] = n /\ \A i \in 1..n : cstack[i].thr # c
  BY CurrFrames
<1>3. PICK h2 \in [Thread -> Nat] : h2 = [h EXCEPT ![c] = 0]
  OBVIOUS
<1>4. h2[c] = 0 /\ \A u : u # c => h2[u] = h[u]
  BY <1>3
<1>5. resumer'[c] = NONE /\ \A u \in Thread : u # c => resumer'[u] = resumer[u]
  BY DEF TypeOK
<1>6. ASSUME NEW i \in 1..n, i # n
      PROVE  Ctx(i)' = Ctx(i) /\ Ctx(i) # c
  <2>1. Ctx(i)' = Ctx(i)
    BY <1>6 DEF Ctx
  <2> QED
    BY <2>1, <1>2, <1>6 DEF ChainOK
<1>7. /\ d[c] >= 1
      /\ \/ r = f.thr /\ d[c] = 1
         \/ r # f.thr /\ h[r] = n /\ d[c] = d[r] + 1
  <2>1. LinkOK(h, d, c)
    BY ThreadAssumption DEF ChainOK
  <2> QED
    BY <2>1, <1>2 DEF LinkOK
<1>8. ASSUME NEW u \in Thread, u # c, resumer[u] # NONE
      PROVE  LinkOK(h, d, u) /\ (h[u] = n => r # f.thr /\ d[u] <= d[r])
  <2>1. LinkOK(h, d, u)
    BY <1>8 DEF ChainOK
  <2>2. ASSUME h[u] = n
        PROVE  r # f.thr /\ d[u] <= d[r]
    <3>1. d[u] <= d[c] /\ d[u] >= 1
      BY <2>1, <2>2, <1>1 DEF LinkOK
    <3>2. d[u] # d[c]
      BY <1>2, <1>8, <2>2 DEF ChainOK
    <3>3. d[u] \in Nat /\ d[c] \in Nat /\ d[r] \in Nat
      OBVIOUS
    <3> QED
      BY <3>1, <3>2, <3>3, <1>7
  <2> QED
    BY <2>1, <2>2
<1>9. ASSUME NEW u \in Thread, u # c, resumer[u] # NONE
      PROVE  LinkOK(h2, d, u)'
  <2>1. LinkOK(h, d, u) /\ resumer'[u] = resumer[u] /\ h2[u] = h[u] /\ h[u] \in 1..n
    BY <1>4, <1>5, <1>8, <1>9 DEF LinkOK
  <2>2. h2[resumer[u]] = h[resumer[u]]
    BY <1>4
  <2>3. Ctx(h[u])' # cstack[h[u]].thr /\ d[u] >= 1 /\ d[u] <= d[Ctx(h[u])']
    <3>1. CASE h[u] = n
      BY <3>1, <1>1, <1>8, <1>9, <2>1 DEF LinkOK
    <3>2. CASE h[u] # n
      <4>1. Ctx(h[u])' = Ctx(h[u])
        BY <3>2, <2>1, <1>6
      <4> QED
        BY <4>1, <2>1 DEF LinkOK
    <3> QED
      BY <3>1, <3>2
  <2>4. /\ cstack[h[u]].kind = "exec" /\ \A j \in 1..h[u] : cstack[j].thr # u
        /\ \/ resumer[u] = cstack[h[u]].thr /\ d[u] = 1
           \/ /\ resumer[u] # cstack[h[u]].thr
              /\ h2[resumer[u]] = h[u] /\ d[u] = d[resumer[u]] + 1
    BY <2>1, <2>2 DEF LinkOK
  <2> QED
    BY <2>1, <2>3, <2>4 DEF LinkOK
<1>10. \A u \in Thread : resumer'[u] = NONE => h2[u] = 0
  BY <1>4, <1>5 DEF ChainOK
<1>11. ASSUME NEW u \in Thread, NEW v \in Thread, resumer'[u] # NONE, h2[u] = h2[v], d[u] = d[v]
       PROVE  u = v
  <2>1. u # c /\ h[u] # 0
    <3>1. u # c
      BY <1>5, <1>11
    <3>2. LinkOK(h, d, u)
      BY <3>1, <1>5, <1>11 DEF ChainOK
    <3> QED
      BY <3>1, <3>2 DEF LinkOK
  <2>2. v # c
    BY <2>1, <1>4, <1>11
  <2> QED
    BY <2>1, <2>2, <1>4, <1>5, <1>11 DEF ChainOK
<1>12. ASSUME NEW i \in 1..n
       PROVE  Ctx(i)' = cstack[i].thr \/ (cstack[i].kind = "exec" /\ h2[Ctx(i)'] = i)
  <2>1. CASE i = n
    <3>1. f.kind = "exec"
      BY <1>1, CurrFrames
    <3> QED
      BY <2>1, <3>1, <1>1, <1>4, <1>7
  <2>2. CASE i # n
    <3>1. Ctx(i)' = Ctx(i) /\ Ctx(i) # c
      BY <2>2, <1>6
    <3> QED
      BY <3>1, <1>4 DEF ChainOK
  <2> QED
    BY <2>1, <2>2
<1>13. ASSUME NEW u \in Thread, resumer'[u] # NONE
       PROVE  LinkOK(h2, d, u)'
  BY <1>5, <1>9, <1>13
<1>14. ChainOK(h2, d)'
  BY <1>10, <1>11, <1>12, <1>13 DEF ChainOK
<1> QED
  BY <1>14 DEF Chained

-----------------------------------------------------------------------------
(* Frames whose activations a step leaves alone.                           *)

SameAct(a, b) == b.fn = a.fn /\ b.prevent = a.prevent
KeepActs(s, r, k) == k <= Len(r) /\ \A l \in 1..k : SameAct(s[l], r[l])
KeepFrame(f) ==
  /\ KeepActs(callstack[f.thr], callstack'[f.thr], f.top + Bonus(f))
  /\ Cross(f) /\ f.ecurr # NONE => callstack'[f.ecurr] = callstack[f.ecurr]
Keep(m) == \A i \in 1..m : Same(cstack[i], cstack'[i]) /\ KeepFrame(cstack[i])

LEMMA KeepMatch ==
  ASSUME TypeOK, Match, NEW m \in Nat, m <= Len(cstack), Keep(m)
  PROVE  \A i \in 1..m : MatchF(cstack'[i], callstack'[cstack'[i].thr])
<1> SUFFICES ASSUME NEW i \in 1..m
             PROVE  MatchF(cstack'[i], callstack'[cstack'[i].thr])
  OBVIOUS
<1> DEFINE f == cstack[i]
           s == callstack[f.thr]
           r == callstack'[f.thr]
<1>1. f \in CFrame /\ i \in 1..Len(cstack)
  BY DEF TypeOK
<1>2. f.top \in Nat /\ Bonus(f) \in {0, 1} /\ (f.kind \in CallKinds => Bonus(f) = 1)
  BY <1>1, FrameType DEF Bonus
<1>3. MatchF(f, s)
  BY <1>1 DEF Match
<1>4. Same(f, cstack'[i]) /\ KeepActs(s, r, f.top + Bonus(f))
  BY DEF Keep, KeepFrame
<1>5. f.kind \in CallKinds => f.top + 1 \in 1..f.top + Bonus(f)
  BY <1>2
<1> HIDE DEF f, s, r
<1>6. MatchF(f, r)
  BY <1>2, <1>3, <1>4, <1>5 DEF MatchF, KeepActs, SameAct
<1>7. cstack'[i].thr = f.thr
  BY <1>4 DEF Same
<1>8. MatchF(cstack'[i], r)
  BY <1>4, <1>6 DEF MatchF, Same, Bonus
<1> QED
  BY <1>7, <1>8 DEF r

LEMMA KeepLevels ==
  ASSUME TypeOK, StackOK(cstack), Levels, NEW m \in Nat, m <= Len(cstack), m <= Len(cstack'), Keep(m),
         Len(cstack') \in Nat, NEW i \in Nat, i \in 1..m, i # m
  PROVE  Level(cstack'[i], callstack'[Ctx(i)'], Depth(i)')
<1> DEFINE f == cstack[i]
           g == cstack[i + 1]
<1>1. i \in 1..Len(cstack) /\ i + 1 \in 1..m /\ i + 1 \in 1..Len(cstack) /\ i < Len(cstack)
      /\ i # Len(cstack) /\ i # Len(cstack') /\ Len(cstack) \in Nat
  BY DEF TypeOK
<1>2. Ctx(i) = g.ecurr /\ Ctx(i)' = cstack'[i + 1].ecurr
  BY <1>1 DEF Ctx
<1>3. /\ Depth(i) = IF Cross(g) THEN Len(callstack[g.ecurr]) ELSE g.top
      /\ Depth(i)' = IF Cross(cstack'[i + 1]) THEN Len(callstack'[cstack'[i + 1].ecurr])
                                                ELSE cstack'[i + 1].top
  BY <1>1 DEF Depth
<1>4. Level(f, callstack[g.ecurr], Depth(i))
  BY <1>1, <1>2 DEF Levels
<1>5. Same(f, cstack'[i]) /\ Same(g, cstack'[i + 1]) /\ KeepFrame(g)
  BY <1>1 DEF Keep
<1>6. g.ecurr # NONE /\ g \in CFrame
  BY <1>1 DEF StackOK, FrameOK, TypeOK
<1>7. g.top \in Nat /\ Bonus(g) \in {0, 1}
  BY <1>6, FrameType
<1>8. Depth(i)' = Depth(i) /\ Ctx(i)' = g.ecurr
  <2>1. cstack'[i + 1].ecurr = g.ecurr /\ cstack'[i + 1].top = g.top /\ (Cross(cstack'[i + 1]) <=> Cross(g))
    BY <1>5 DEF Same, Cross
  <2>2. Cross(g) => callstack'[g.ecurr] = callstack[g.ecurr]
    BY <1>5, <1>6 DEF KeepFrame
  <2> HIDE DEF g
  <2> QED
    BY <2>1, <2>2, <1>2, <1>3
<1>9. Level(f, callstack'[g.ecurr], Depth(i))
  <2>1. CASE Cross(g)
    BY <2>1, <1>4, <1>5, <1>6 DEF KeepFrame
  <2>2. CASE ~Cross(g)
    <3>1. g.thr = g.ecurr /\ Depth(i) = g.top
      BY <2>2, <1>3 DEF Cross
    <3>2. KeepActs(callstack[g.ecurr], callstack'[g.ecurr], g.top + Bonus(g))
      BY <3>1, <1>5 DEF KeepFrame
    <3>3. g.top >= 1 => g.top \in 1..g.top + Bonus(g)
      BY <1>7
    <3>4. g.top >= 1 => callstack'[g.ecurr][g.top].fn = callstack[g.ecurr][g.top].fn
      BY <3>2, <3>3 DEF KeepActs, SameAct
    <3> QED
      BY <3>1, <3>4, <1>4 DEF Level
  <2> QED
    BY <2>1, <2>2
<1>10. Level(cstack'[i], callstack'[g.ecurr], Depth(i))
  BY <1>5, <1>9 DEF Level, Same
<1> QED
  BY <1>8, <1>10

\* The activations of a frame that are there stay there when nothing changes.
LEMMA KeepRefl ==
  ASSUME NEW f \in CFrame, NEW s \in Seq(Activation), MatchF(f, s)
  PROVE  KeepActs(s, s, f.top + Bonus(f))
BY DEF KeepActs, SameAct, MatchF

LEMMA KeepIf ==
  ASSUME TypeOK, Match, NEW m \in Nat, m <= Len(cstack),
         \A i \in 1..m : Same(cstack[i], cstack'[i]),
         \A i \in 1..m : \/ callstack'[cstack[i].thr] = callstack[cstack[i].thr]
                         \/ KeepActs(callstack[cstack[i].thr], callstack'[cstack[i].thr],
                                     cstack[i].top + Bonus(cstack[i])),
         \A i \in 1..m : Cross(cstack[i]) /\ cstack[i].ecurr # NONE =>
                           callstack'[cstack[i].ecurr] = callstack[cstack[i].ecurr]
  PROVE  Keep(m)
<1> SUFFICES ASSUME NEW i \in 1..m
             PROVE  KeepActs(callstack[cstack[i].thr], callstack'[cstack[i].thr],
                             cstack[i].top + Bonus(cstack[i]))
  BY DEF Keep, KeepFrame
<1>1. i \in 1..Len(cstack) /\ cstack[i] \in CFrame
  BY DEF TypeOK
<1>2. callstack[cstack[i].thr] \in Seq(Activation)
  BY <1>1, FrameType DEF TypeOK
<1>3. MatchF(cstack[i], callstack[cstack[i].thr])
  BY <1>1 DEF Match
<1> QED
  BY <1>1, <1>2, <1>3, KeepRefl

\* Only the callstack of the current thread changes.
OnlyCurr == \A t \in Thread : t # curr => callstack'[t] = callstack[t]
LEMMA KeepCurr ==
  ASSUME TypeOK, Frames, Match, NEW m \in Nat, m <= Len(cstack), OnlyCurr,
         \A i \in 1..m : Same(cstack[i], cstack'[i]),
         \A i \in 1..m : cstack[i].thr = curr =>
           KeepActs(callstack[curr], callstack'[curr], cstack[i].top + Bonus(cstack[i]))
  PROVE  Keep(m)
<1>1. ASSUME NEW i \in 1..m
      PROVE  i \in 1..Len(cstack) /\ cstack[i].thr \in Thread /\ cstack[i].ecurr \in Thread \cup {NONE}
             /\ Placed(cstack[i])
  <2>1. i \in 1..Len(cstack) /\ cstack[i] \in CFrame
    BY DEF TypeOK
  <2> QED
    BY <2>1, FrameType DEF Frames
<1>2. ASSUME NEW i \in 1..m
      PROVE  \/ callstack'[cstack[i].thr] = callstack[cstack[i].thr]
             \/ KeepActs(callstack[cstack[i].thr], callstack'[cstack[i].thr],
                         cstack[i].top + Bonus(cstack[i]))
  BY <1>1 DEF OnlyCurr
<1>3. ASSUME NEW i \in 1..m, Cross(cstack[i]), cstack[i].ecurr # NONE
      PROVE  callstack'[cstack[i].ecurr] = callstack[cstack[i].ecurr]
  BY <1>1, <1>3 DEF Placed, OnlyCurr
<1> QED
  BY <1>2, <1>3, KeepIf

\* The frames of the current thread.
LEMMA Exposed ==
  ASSUME TypeOK, Frames, Match, NEW h \in [Thread -> Nat], NEW d \in [Thread -> Nat], ChainOK(h, d),
         NEW i \in 1..Len(cstack), curr \in Thread, cstack[i].thr = curr
  PROVE  /\ Frame.thr = curr
         /\ i # Len(cstack) => cstack[i].top + Bonus(cstack[i]) <= Frame.top
         /\ Frame.top + Bonus(Frame) <= Len(callstack[curr])
<1> DEFINE n == Len(cstack)
<1>1. n \in Nat /\ n \in 1..n /\ Frame = cstack[n] /\ cstack # <<>>
  BY DEF TypeOK, Frame, Last
<1>2. Frame.thr = curr
  BY <1>1, CurrFrames
<1>3. cstack[i] \in CFrame /\ Frame \in CFrame
  BY <1>1 DEF TypeOK
<1>4. cstack[i].top \in Nat /\ Frame.top \in Nat
  BY <1>3, FrameType
<1>5. i # n => PairOK(cstack[i], Frame)
  BY <1>1 DEF Frames, StackOK
<1>6. i # n => cstack[i].top + Bonus(cstack[i]) <= Frame.top
  BY <1>2, <1>4, <1>5 DEF PairOK, Bonus
<1>7. MatchF(Frame, callstack[curr])
  BY <1>1, <1>2 DEF Match
<1> QED
  BY <1>2, <1>6, <1>7 DEF MatchF

-----------------------------------------------------------------------------
(* Steps that stay in the innermost frame and thread.                      *)

\* The C stack keeps its frames; an executor may have noted or done the setup of a
\* catch clause.
SameStack == /\ cstack' \in Seq(CFrame) /\ Len(cstack') = Len(cstack)
             /\ SameFrames(cstack, cstack', Len(cstack))
             /\ \A i \in 1..Len(cstack) : i # Len(cstack) => cstack'[i] = cstack[i]

LEMMA FramesSame ==
  ASSUME TypeOK, Frames, SameStack, tstate' = tstate, resumer' = resumer, curr' = curr,
         ~Running' => cstack # <<>> /\ Frame'.kind # "native" /\ ~Frame'.delayed
  PROVE  Frames'
<1>1. Len(cstack') \in Nat /\ Len(cstack) \in Nat /\ cstack \in Seq(CFrame)
  BY DEF TypeOK
<1>2. cstack' = <<>> <=> cstack = <<>>
  BY <1>1 DEF SameStack
<1>3. StackOK(cstack')
  BY <1>1, StackPrefix DEF SameStack, Frames
<1>4. ASSUME NEW i \in 1..Len(cstack')
      PROVE  Placed(cstack[i])'
  <2>1. Placed(cstack[i]) /\ Same(cstack[i], cstack'[i])
    BY DEF SameStack, SameFrames, Frames
  <2> QED
    BY <2>1 DEF Placed, Same, Cross
<1>5. DelaysOK(cstack')
  <2>1. ASSUME NEW i \in 1..Len(cstack), i # Len(cstack), cstack'[i].delayed
        PROVE  cstack'[i + 1].kind = "fin"
    <3>1. i + 1 \in 1..Len(cstack)
      BY <1>1, <2>1
    <3>2. cstack'[i] = cstack[i] /\ Same(cstack[i + 1], cstack'[i + 1])
      BY <2>1, <3>1 DEF SameStack, SameFrames
    <3> QED
      BY <2>1, <3>2 DEF Frames, DelaysOK, Same
  <2> QED
    BY <2>1 DEF DelaysOK, SameStack
<1> QED
  BY <1>2, <1>3, <1>4, <1>5 DEF Frames

LEMMA StatesSame ==
  ASSUME TypeOK, States, SameStack, tstate' = tstate, resumer' = resumer, curr' = curr, curr \in Thread,
         \A t \in Thread : t # curr => callstack'[t] = callstack[t],
         resumer[curr] # NONE /\ callstack'[curr] = <<>> => lj'.type = "throw"
  PROVE  States'
<1>1. curr' # NONE => tstate'[curr'] = "running"
  BY DEF States
<1>2. ASSUME NEW t \in Thread, tstate[t] = "running", t # curr
      PROVE  \E i \in 1..Len(cstack') : Cross(cstack'[i]) /\ cstack'[i].ecurr = t
  <2>1. PICK i \in 1..Len(cstack) : Cross(cstack[i]) /\ cstack[i].ecurr = t
    BY <1>2 DEF States
  <2>2. Same(cstack[i], cstack'[i]) /\ i \in 1..Len(cstack')
    BY DEF SameStack, SameFrames
  <2> QED
    BY <2>1, <2>2 DEF Same, Cross
<1>3. ASSUME NEW t \in Thread, resumer[t] # NONE, callstack'[t] = <<>>
      PROVE  t = curr /\ lj'.type = "throw"
  <2>1. t # curr => FALSE
    BY <1>3 DEF States
  <2> QED
    BY <2>1, <1>3
<1>4. ASSUME NEW t \in Thread
      PROVE  /\ tstate[t] = "resumed" <=> \E u \in Thread : resumer[u] = t
             /\ resumer[t] # NONE => tstate[t] \in {"running", "resumed"}
             /\ \A u \in Thread : resumer[t] = resumer[u] /\ t # u => resumer[t] = NONE
  BY DEF States
<1> QED
  BY <1>1, <1>2, <1>3, <1>4 DEF States

\* Frames found before are found again.
LEMMA HasFrameSame ==
  ASSUME TypeOK, SameStack, NEW t \in Thread, NEW k \in Nat, HasFrame(t, k)
  PROVE  HasFrame(t, k)'
<1>1. PICK i \in 1..Len(cstack) :
        cstack[i].thr = t /\ cstack[i].top = k - 1 /\ cstack[i].kind \in CallKinds
  BY DEF HasFrame
<1>2. Same(cstack[i], cstack'[i]) /\ i \in 1..Len(cstack')
  BY DEF SameStack, SameFrames
<1> QED
  BY <1>1, <1>2 DEF HasFrame, Same

LEMMA FrameIs ==
  ASSUME TypeOK, cstack # <<>>
  PROVE  /\ Len(cstack) \in Nat \ {0} /\ Len(cstack) \in 1..Len(cstack) /\ Frame = cstack[Len(cstack)]
         /\ Frame \in CFrame /\ Ctx(Len(cstack)) = curr
         /\ curr \in Thread => Depth(Len(cstack)) = Len(callstack[curr])
<1>1. Len(cstack) \in Nat \ {0}
  BY DEF TypeOK
<1>2. Len(cstack) \in 1..Len(cstack)
  BY <1>1
<1> QED
  BY <1>1, <1>2 DEF TypeOK, Frame, Last, Ctx, Depth

LEMMA ActType ==
  ASSUME NEW a \in Activation
  PROVE  a.fn \in {"ecma", "native", "resume", "yield"} /\ a.prevent \in BOOLEAN /\ a.cats \in Seq(Catcher)
BY DEF Activation

\* The catchers of the innermost activation are replaced.
CatsSet(s, r, cats) ==
  /\ r \in Seq(Activation) /\ Len(r) = Len(s)
  /\ \A k \in 1..Len(s) : k # Len(s) => r[k] = s[k]
  /\ r[Len(s)] = [s[Len(s)] EXCEPT !.cats = cats]
LEMMA WithCatsIs ==
  ASSUME TypeOK, NEW t \in Thread, callstack[t] # <<>>, NEW cats \in Seq(Catcher),
         callstack' = WithCats(t, cats)
  PROVE  /\ callstack' \in [Thread -> Seq(Activation)]
         /\ \A u \in Thread : u # t => callstack'[u] = callstack[u]
         /\ CatsSet(callstack[t], callstack'[t], cats)
<1> DEFINE s == callstack[t]
           n == Len(s)
           a == [s[n] EXCEPT !.cats = cats]
<1>1. s \in Seq(Activation) /\ n \in Nat /\ n # 0
  BY DEF TypeOK
<1>2. n \in 1..n /\ s[n] \in Activation
  BY <1>1
<1>3. a \in Activation
  BY <1>2 DEF Activation
<1>4. callstack' = [callstack EXCEPT ![t] = [s EXCEPT ![n] = a]]
  BY DEF WithCats, ReplaceAt, Last, TypeOK
<1>5. callstack'[t] = [s EXCEPT ![n] = a] /\ \A u \in Thread : u # t => callstack'[u] = callstack[u]
  BY <1>4 DEF TypeOK
<1> HIDE DEF a
<1>6. /\ [s EXCEPT ![n] = a] \in Seq(Activation) /\ Len([s EXCEPT ![n] = a]) = n
      /\ [s EXCEPT ![n] = a][n] = a /\ \A k \in 1..n : k # n => [s EXCEPT ![n] = a][k] = s[k]
  BY <1>1, <1>2, <1>3
<1>7. callstack' \in [Thread -> Seq(Activation)]
  BY <1>4, <1>6 DEF TypeOK
<1> QED
  BY <1>5, <1>6, <1>7 DEF CatsSet, a

LEMMA CatsSetIs ==
  ASSUME NEW s \in Seq(Activation), s # <<>>, NEW r, NEW cats \in Seq(Catcher), CatsSet(s, r, cats)
  PROVE  /\ Len(s) \in Nat \ {0} /\ r # <<>>
         /\ \A k \in 1..Len(s) : SameAct(s[k], r[k]) /\ (k # Len(s) => r[k] = s[k])
         /\ r[Len(s)].cats = cats
<1>1. Len(s) \in Nat \ {0} /\ Len(s) \in 1..Len(s) /\ s[Len(s)] \in Activation
  OBVIOUS
<1>2. r[Len(s)].cats = cats /\ SameAct(s[Len(s)], r[Len(s)])
  BY <1>1 DEF CatsSet, SameAct, Activation
<1>3. r # <<>>
  BY <1>1 DEF CatsSet
<1> QED
  BY <1>1, <1>2, <1>3 DEF CatsSet, SameAct

\* Catchers that a break continues at are further out.
BreaksOK(cats) == \A j \in 1..Len(cats) : cats[j].cont = "break" => cats[j].label <= j

LEMMA CatsActs ==
  ASSUME NEW s \in Seq(Activation), s # <<>>, NEW r, NEW cats \in Seq(Catcher), CatsSet(s, r, cats),
         ActsOK(s), s[Len(s)].fn = "ecma" \/ cats = <<>>, BreaksOK(cats)
  PROVE  ActsOK(r)
<1>1. /\ Len(s) \in Nat \ {0} /\ Len(r) = Len(s)
      /\ \A k \in 1..Len(s) : SameAct(s[k], r[k]) /\ (k # Len(s) => r[k] = s[k])
      /\ r[Len(s)].cats = cats
  BY CatsSetIs, SMTT(30) DEF CatsSet
<1>2. ASSUME NEW k \in 1..Len(s)
      PROVE  ActOK(r, k)
  <2>1. ActOK(s, k) /\ SameAct(s[k], r[k])
    BY <1>1 DEF ActsOK
  <2>2. k > 1 => r[k - 1].fn = s[k - 1].fn
    <3>1. k > 1 => k - 1 \in 1..Len(s)
      BY <1>1
    <3> QED
      BY <3>1, <1>1 DEF SameAct
  <2>3. CASE k = Len(s)
    BY <2>1, <2>2, <2>3, <1>1 DEF ActOK, SameAct, BreaksOK
  <2>4. CASE k # Len(s)
    BY <2>1, <2>2, <2>4, <1>1 DEF ActOK, SameAct
  <2> QED
    BY <2>3, <2>4
<1> QED
  BY <1>1, <1>2 DEF ActsOK

Lj == [type : LjType, iserror : BOOLEAN, thr : Thread \cup {NONE}]
LEMMA LjTypes ==
  /\ NoLj \in Lj /\ NoLj.type = "none" /\ Thrown \in Lj /\ Thrown.type = "throw"
  /\ \A e \in BOOLEAN, t \in Thread \cup {NONE}, y \in LjType :
       [type |-> y, iserror |-> e, thr |-> t] \in Lj
BY DEF NoLj, Thrown, LjType, Lj

\* The counters in terms of the sets they count.
LEMMA PreventIs ==
  /\ PreventExact <=> \A t \in Thread : preventcount[t] =
                        Cardinality(PreventSet(callstack[t])) + Cardinality(SafeSet(cstack, t))
  /\ PfExact <=> pf = Cardinality(FinSet(cstack)) + (IF Running THEN 0 ELSE 1)
BY DEF PreventExact, PfExact, PreventSet, SafeSet, FinSet

LEMMA SameSets ==
  ASSUME TypeOK, SameStack, NEW t \in Thread
  PROVE  SafeSet(cstack', t) = SafeSet(cstack, t) /\ FinSet(cstack') = FinSet(cstack)
<1>1. cstack' \in Seq(CFrame) /\ cstack \in Seq(CFrame) /\ Len(cstack') = Len(cstack)
  BY DEF SameStack, TypeOK
<1>2. \A i \in 1..Len(cstack) : cstack'[i].kind = cstack[i].kind /\ cstack'[i].thr = cstack[i].thr
  BY DEF SameStack, SameFrames, Same
<1> QED
  BY <1>1, <1>2, FrameSame

\* Within the innermost activation of an executor, catchers come and go; then the
\* bytecode goes on.
LEMMA CatsStep ==
  ASSUME ThreadInv, curr \in Thread, callstack[curr] # <<>>, Top(curr).fn = "ecma",
         NEW cats \in Seq(Catcher), Len(cats) <= MaxStmt, BreaksOK(cats),
         callstack' = WithCats(curr, cats), SameStack, In({"exec"}), lj' \in Lj, lj'.type = "none",
         tstate' = tstate, resumer' = resumer, preventcount' = preventcount, curr' = curr,
         lj.type = "throw" => Top(curr).cats # <<>>,
         pf' = Cardinality(FinSet(cstack)), armed' \in BOOLEAN
  PROVE  ThreadInv'
<1> DEFINE n == Len(cstack)
           s == callstack[curr]
           r == callstack'[curr]
<1> USE DEF ThreadInv, Base
<1>h. PICK h \in [Thread -> Nat], d \in [Thread -> Nat] : ChainOK(h, d)
  BY DEF Chained
<1>1. /\ callstack' \in [Thread -> Seq(Activation)] /\ OnlyCurr /\ CatsSet(s, r, cats)
      /\ s \in Seq(Activation)
  BY WithCatsIs DEF OnlyCurr, TypeOK
<1>2. /\ Len(s) \in Nat \ {0} /\ r # <<>> /\ Len(r) = Len(s)
      /\ \A k \in 1..Len(s) : SameAct(s[k], r[k]) /\ (k # Len(s) => r[k] = s[k])
      /\ r[Len(s)].cats = cats /\ Top(curr) = s[Len(s)] /\ Len(s) \in 1..Len(s)
  <2>1. s # <<>> /\ Top(curr) = s[Len(s)]
    BY DEF Top, Last
  <2> HIDE DEF s, r
  <2>2. /\ Len(s) \in Nat \ {0} /\ r # <<>>
        /\ \A k \in 1..Len(s) : SameAct(s[k], r[k]) /\ (k # Len(s) => r[k] = s[k])
        /\ r[Len(s)].cats = cats
    BY <2>1, <1>1, CatsSetIs
  <2>3. Len(r) = Len(s) /\ Len(s) \in 1..Len(s)
    BY <2>2, <1>1 DEF CatsSet
  <2> QED
    BY <2>1, <2>2, <2>3
<1>3. cstack # <<>> /\ Frame.kind = "exec" /\ Frame = cstack[n] /\ n \in 1..n /\ n \in Nat
  BY FrameIs DEF In
<1>4. TypeOK'
  <2>1. ASSUME NEW t \in Thread
        PROVE  Len(callstack'[t]) <= MaxCall /\ \A k \in DOMAIN callstack'[t] : Len(callstack'[t][k].cats) <= MaxStmt
    <3>1. CASE t # curr
      BY <3>1, <1>1 DEF OnlyCurr, TypeOK
    <3>2. CASE t = curr
      <4>1. DOMAIN r = 1..Len(s) /\ DOMAIN s = 1..Len(s)
        BY <1>1, <1>2
      <4> QED
        BY <3>2, <4>1, <1>2 DEF TypeOK
    <3> QED
      BY <3>1, <3>2
  <2>2. pf' \in Nat
    BY CountsNat DEF TypeOK
  <2>3. cstack' \in Seq(CFrame) /\ Len(cstack') <= MaxC
    BY DEF SameStack, TypeOK
  <2> QED
    BY <1>1, <2>1, <2>2, <2>3, LjTypes DEF TypeOK, Lj
<1>5. Frames'
  <2>1. Running'
    BY DEF Running
  <2> QED
    BY <2>1, FramesSame
<1>6. States'
  BY <1>1, <1>2, StatesSame DEF OnlyCurr
<1>7. Keep(n)
  <2>1. ASSUME NEW i \in 1..n, cstack[i].thr = curr
        PROVE  KeepActs(s, r, cstack[i].top + Bonus(cstack[i]))
    <3>1. MatchF(cstack[i], s) /\ cstack[i] \in CFrame
      BY <2>1 DEF Match, TypeOK
    <3>2. cstack[i].top + Bonus(cstack[i]) \in Nat /\ cstack[i].top + Bonus(cstack[i]) <= Len(s)
      BY <3>1, FrameType DEF MatchF
    <3> QED
      BY <3>2, <1>2 DEF KeepActs
  <2>2. \A i \in 1..n : Same(cstack[i], cstack'[i])
    BY DEF SameStack, SameFrames
  <2>3. \A i \in 1..n : cstack[i].thr = curr => KeepActs(s, r, cstack[i].top + Bonus(cstack[i]))
    BY <2>1
  <2>4. n <= Len(cstack)
    BY <1>3
  <2> QED
    BY <2>2, <2>3, <2>4, <1>1, <1>3, KeepCurr
<1>8. Match'
  <2>1. \A i \in 1..n : MatchF(cstack'[i], callstack'[cstack'[i].thr])
    BY <1>3, <1>7, KeepMatch
  <2> QED
    BY <2>1 DEF Match, SameStack
<1>9. Levels'
  <2>1. Len(cstack') = n
    BY DEF SameStack
  <2>2. ASSUME NEW i \in 1..n
        PROVE  Level(cstack'[i], callstack'[Ctx(i)'], Depth(i)')
    <3>1. CASE i # n
      BY <3>1, <2>1, <1>3, <1>7, KeepLevels DEF Frames
    <3>2. CASE i = n
      <4>1. Ctx(i)' = curr /\ Depth(i)' = Len(s)
        BY <3>2, <2>1, <1>2 DEF Ctx, Depth
      <4>2. cstack'[n].kind = "exec"
        BY <1>3 DEF SameStack, SameFrames, Same
      <4>3. r[Len(s)].fn = "ecma"
        BY <1>2 DEF SameAct
      <4>4. Level(cstack'[n], r, Len(s))
        BY <4>2, <4>3, <1>2 DEF Level, SafeKinds
      <4> QED
        BY <3>2, <4>1, <4>4
    <3> QED
      BY <3>1, <3>2
  <2> QED
    BY <2>1, <2>2 DEF Levels
<1>10. Owned'
  <2>1. ASSUME NEW t \in Thread, NEW k \in 1..Len(callstack'[t]),
               callstack'[t][k].prevent, callstack'[t][k].fn \in {"ecma", "native"}
        PROVE  HasFrame(t, k)'
    <3>1. k \in 1..Len(callstack[t]) /\ SameAct(callstack[t][k], callstack'[t][k])
      BY <1>1, <1>2 DEF OnlyCurr, SameAct
    <3>2. HasFrame(t, k) \/ Lost(t, k)
      BY <3>1, <2>1 DEF Owned, SameAct
    <3>3. ~Lost(t, k)
      <4>1. t = curr => Len(s) \in k..Len(s)
        BY <3>1, <1>2
      <4> QED
        BY <4>1, <1>2 DEF Lost
    <3>4. k \in Nat
      BY <3>1 DEF TypeOK
    <3> QED
      BY <3>2, <3>3, <3>4, HasFrameSame
  <2> QED
    BY <2>1 DEF Owned
<1>11. Acts'
  <2>1. ActsOK(r)
    BY <1>1, <1>2, CatsActs DEF Acts
  <2> QED
    BY <2>1, <1>1 DEF Acts, OnlyCurr
<1>12. Shape'
  <2>1. ASSUME NEW t \in Thread
        PROVE  ShapeOf(t)'
    <3>1. CASE t # curr
      BY <3>1, <1>1 DEF Shape, ShapeOf, OnlyCurr
    <3>2. CASE t = curr
      BY <3>2, ThreadAssumption DEF ShapeOf, States
    <3> QED
      BY <3>1, <3>2
  <2> QED
    BY <2>1 DEF Shape
<1>13. Pending'
  BY DEF Pending
<1>14. PreventExact'
  <2>1. ASSUME NEW t \in Thread
        PROVE  PreventSet(callstack'[t]) = PreventSet(callstack[t]) /\ SafeSet(cstack', t) = SafeSet(cstack, t)
    <3>1. SafeSet(cstack', t) = SafeSet(cstack, t)
      BY SameSets
    <3>2. PreventSet(r) = PreventSet(s)
      <4>1. r \in Seq(Activation) /\ \A k \in 1..Len(s) : r[k].prevent = s[k].prevent
        BY <1>1, <1>2 DEF SameAct, CatsSet
      <4> HIDE DEF s, r
      <4> QED
        BY <4>1, <1>1, <1>2, ActSame
    <3> QED
      BY <3>1, <3>2, <1>1 DEF OnlyCurr
  <2>2. \A t \in Thread : preventcount'[t] =
          Cardinality(PreventSet(callstack'[t])) + Cardinality(SafeSet(cstack', t))
    BY <2>1, PreventIs
  <2> QED
    BY <2>2 DEF PreventExact, PreventSet, SafeSet
<1>15. PfExact'
  <2>1. FinSet(cstack') = FinSet(cstack)
    BY SameSets, ThreadAssumption
  <2>2. Cardinality(FinSet(cstack)) \in Nat /\ lj'.type = "none"
    BY CountsNat DEF TypeOK
  <2>3. pf' = Cardinality(FinSet(cstack')) + 0 /\ Running'
    BY <2>1, <2>2 DEF Running
  <2> QED
    BY <2>3 DEF PfExact, FinSet
<1>16. Chained'
  <2>1. FramesAre(n)
    BY DEF SameStack, SameFrames, FramesAre
  <2>2. ChainOK(h, d)'
    BY <2>1, <1>h, ChainSame
  <2> QED
    BY <2>2 DEF Chained
<1> QED
  BY <1>4, <1>5, <1>6, <1>8, <1>9, <1>10, <1>11, <1>12, <1>13, <1>14, <1>15, <1>16

-----------------------------------------------------------------------------
(* Catchers.                                                               *)

GoodCats(cats) == cats \in Seq(Catcher) /\ Len(cats) <= MaxStmt /\ BreaksOK(cats)

LEMMA CutCats ==
  ASSUME NEW cats, GoodCats(cats), NEW m \in 0..Len(cats)
  PROVE  GoodCats(SubSeq(cats, 1, m)) /\ Len(SubSeq(cats, 1, m)) = m
<1>1. cats \in Seq(Catcher) /\ Len(cats) \in Nat /\ MaxStmt \in Nat
  BY ThreadAssumption DEF GoodCats
<1>2. /\ SubSeq(cats, 1, m) \in Seq(Catcher) /\ Len(SubSeq(cats, 1, m)) = m
      /\ \A i \in 1..m : SubSeq(cats, 1, m)[i] = cats[i]
  BY <1>1, CutIs
<1>3. \A j \in 1..m : j \in 1..Len(cats)
  BY <1>1
<1> QED
  BY <1>1, <1>2, <1>3 DEF GoodCats, BreaksOK

LEMMA FrontCats ==
  ASSUME NEW cats, GoodCats(cats), cats # <<>>
  PROVE  GoodCats(Front(cats))
<1>1. Len(cats) - 1 \in 0..Len(cats)
  BY DEF GoodCats
<1> QED
  BY <1>1, CutCats DEF Front

\* One catcher is changed.
LEMMA PutCats ==
  ASSUME NEW cats, GoodCats(cats), NEW i \in 1..Len(cats), NEW c \in Catcher,
         c.cont = "break" => c.label <= i
  PROVE  GoodCats([cats EXCEPT ![i] = c])
<1>1. cats \in Seq(Catcher) /\ Len(cats) \in Nat
  BY DEF GoodCats
<1>2. /\ [cats EXCEPT ![i] = c] \in Seq(Catcher) /\ Len([cats EXCEPT ![i] = c]) = Len(cats)
      /\ \A j \in 1..Len(cats) : [cats EXCEPT ![i] = c][j] = IF j = i THEN c ELSE cats[j]
  BY <1>1
<1> QED
  BY <1>1, <1>2 DEF GoodCats, BreaksOK

LEMMA EnterFinallyCats ==
  ASSUME NEW cats, GoodCats(cats), NEW i \in 1..Len(cats), NEW l \in Nat,
         NEW cont \in {"none", "normal", "throw", "return", "break"}, cont = "break" => l <= i
  PROVE  GoodCats(EnterFinally(cats, i, cont, l)) /\ Len(EnterFinally(cats, i, cont, l)) = i
<1> DEFINE s == SubSeq(cats, 1, i)
           c == [s[i] EXCEPT !.finally = FALSE, !.at = "finally", !.cont = cont, !.label = l]
<1>1. i \in 0..Len(cats) /\ i \in Nat
  BY DEF GoodCats
<1>2. GoodCats(s) /\ Len(s) = i /\ s \in Seq(Catcher) /\ i \in 1..Len(s)
  BY <1>1, CutCats DEF GoodCats
<1> HIDE DEF s
<1>3. s[i] \in Catcher
  BY <1>2
<1>4. c \in Catcher /\ c.cont = cont /\ c.label = l
  BY <1>3 DEF Catcher
<1>5. EnterFinally(cats, i, cont, l) = [s EXCEPT ![i] = c]
  BY <1>2, <1>3 DEF EnterFinally, Catcher, s
<1> HIDE DEF c
<1>6. GoodCats([s EXCEPT ![i] = c])
  BY <1>2, <1>4, PutCats
<1>7. Len([s EXCEPT ![i] = c]) = i
  BY <1>2
<1> QED
  BY <1>5, <1>6, <1>7

LEMMA EnterCatchCats ==
  ASSUME NEW cats, GoodCats(cats), NEW i \in 1..Len(cats)
  PROVE  GoodCats(EnterCatch(cats, i))
<1> DEFINE s == SubSeq(cats, 1, i)
           c == [s[i] EXCEPT !.catch = FALSE, !.at = "catch"]
<1>1. i \in 0..Len(cats) /\ i \in Nat
  BY DEF GoodCats
<1>2. GoodCats(s) /\ Len(s) = i /\ s \in Seq(Catcher) /\ i \in 1..Len(s)
  BY <1>1, CutCats DEF GoodCats
<1> HIDE DEF s
<1>3. s[i] \in Catcher
  BY <1>2
<1>4. c \in Catcher /\ c.cont = s[i].cont /\ c.label = s[i].label
  BY <1>3 DEF Catcher
<1>5. EnterCatch(cats, i) = [s EXCEPT ![i] = c]
  BY <1>2, <1>3 DEF EnterCatch, Catcher, s
<1>6. c.cont = "break" => c.label <= i
  BY <1>2, <1>4 DEF GoodCats, BreaksOK
<1> HIDE DEF c
<1>7. GoodCats([s EXCEPT ![i] = c])
  BY <1>2, <1>4, <1>6, PutCats
<1> QED
  BY <1>5, <1>7

-----------------------------------------------------------------------------
(* Where the executor is.                                                  *)

\* Bytecode runs in an ECMAScript activation of the current thread.
LEMMA ExecFacts ==
  ASSUME ThreadInv, In({"exec"}), lj.type \in {"none", "return"}
  PROVE  /\ curr \in Thread /\ callstack[curr] \in Seq(Activation) /\ callstack[curr] # <<>>
         /\ Top(curr) = callstack[curr][Len(callstack[curr])] /\ Top(curr).fn = "ecma"
         /\ Top(curr) \in Activation /\ GoodCats(Top(curr).cats)
         /\ Len(callstack[curr]) \in Nat \ {0} /\ Len(callstack[curr]) \in 1..Len(callstack[curr])
<1> DEFINE n == Len(cstack)
           s == callstack[curr]
<1> USE DEF ThreadInv, Base
<1>1. cstack # <<>> /\ Frame.kind = "exec" /\ Frame = cstack[n] /\ n \in 1..n /\ Ctx(n) = curr
  BY FrameIs DEF In
<1>2. curr \in Thread
  BY <1>1 DEF Frames, TypeOK
<1>3. Depth(n) = Len(s) /\ s \in Seq(Activation)
  BY <1>1, <1>2, FrameIs DEF TypeOK
<1>4. Level(Frame, s, Len(s))
  BY <1>1, <1>3 DEF Levels
<1>5. Len(s) >= 1 /\ s[Len(s)].fn = "ecma"
  BY <1>1, <1>4 DEF Level
<1>6. Len(s) \in Nat \ {0} /\ Len(s) \in 1..Len(s) /\ s # <<>>
  BY <1>3, <1>5
<1>7. Top(curr) = s[Len(s)]
  BY DEF Top, Last
<1>8. s[Len(s)] \in Activation /\ s[Len(s)].cats \in Seq(Catcher)
  BY <1>3, <1>6, ActType
<1>9. Len(s[Len(s)].cats) <= MaxStmt
  BY <1>2, <1>3, <1>6 DEF TypeOK
<1>10. BreaksOK(s[Len(s)].cats)
  BY <1>2, <1>6 DEF Acts, ActsOK, ActOK, BreaksOK
<1> QED
  BY <1>2, <1>3, <1>5, <1>6, <1>7, <1>8, <1>9, <1>10 DEF GoodCats

\* The same for an activation that an error has found.
LEMMA ThrowFacts ==
  ASSUME ThreadInv, curr \in Thread, callstack[curr] # <<>>
  PROVE  /\ callstack[curr] \in Seq(Activation)
         /\ Top(curr) = callstack[curr][Len(callstack[curr])]
         /\ Top(curr) \in Activation /\ GoodCats(Top(curr).cats)
         /\ Len(callstack[curr]) \in Nat \ {0} /\ Len(callstack[curr]) \in 1..Len(callstack[curr])
         /\ Top(curr).cats # <<>> => Top(curr).fn = "ecma"
<1> DEFINE s == callstack[curr]
<1> USE DEF ThreadInv, Base
<1>3. s \in Seq(Activation)
  BY DEF TypeOK
<1>6. Len(s) \in Nat \ {0} /\ Len(s) \in 1..Len(s) /\ s # <<>>
  BY <1>3
<1>7. Top(curr) = s[Len(s)]
  BY DEF Top, Last
<1>8. s[Len(s)] \in Activation /\ s[Len(s)].cats \in Seq(Catcher)
  BY <1>3, <1>6, ActType
<1>9. Len(s[Len(s)].cats) <= MaxStmt
  BY <1>3, <1>6 DEF TypeOK
<1>10. BreaksOK(s[Len(s)].cats) /\ (s[Len(s)].cats # <<>> => s[Len(s)].fn = "ecma")
  BY <1>6 DEF Acts, ActsOK, ActOK, BreaksOK
<1> QED
  BY <1>3, <1>6, <1>7, <1>8, <1>9, <1>10 DEF GoodCats

LEMMA PfIs ==
  ASSUME ThreadInv
  PROVE  /\ Cardinality(FinSet(cstack)) \in Nat
         /\ Running => pf = Cardinality(FinSet(cstack))
         /\ ~Running => pf = Cardinality(FinSet(cstack)) + 1 /\ pf - 1 = Cardinality(FinSet(cstack))
<1>1. pf = Cardinality(FinSet(cstack)) + (IF Running THEN 0 ELSE 1)
  BY PreventIs DEF ThreadInv, Base
<1>2. Cardinality(FinSet(cstack)) \in Nat
  BY CountsNat DEF ThreadInv, Base, TypeOK
<1> QED
  BY <1>1, <1>2

LEMMA StackStays ==
  ASSUME ThreadInv, cstack' = cstack
  PROVE  SameStack
<1>1. cstack \in Seq(CFrame) /\ \A i \in 1..Len(cstack) : FrameOK(cstack[i], i)
  BY DEF ThreadInv, Base, TypeOK, Frames, StackOK
<1> QED
  BY <1>1 DEF SameStack, SameFrames, Same, FrameOK

LEMMA CatsGo ==
  ASSUME ThreadInv, InBytecode, NEW cats, GoodCats(cats), callstack' = WithCats(curr, cats),
         tstate' = tstate, resumer' = resumer, preventcount' = preventcount, curr' = curr,
         cstack' = cstack, lj' = lj, pf' = pf, armed' = armed
  PROVE  ThreadInv'
<1>1. Running /\ lj.type = "none" /\ In({"exec"}) /\ lj \in Lj /\ armed \in BOOLEAN
  BY DEF InBytecode, Running, ThreadInv, Base, TypeOK, Lj
<1>2. curr \in Thread /\ callstack[curr] # <<>> /\ Top(curr).fn = "ecma"
  BY <1>1, ExecFacts
<1>3. pf' = Cardinality(FinSet(cstack))
  BY <1>1, PfIs
<1>4. SameStack
  BY StackStays
<1> QED
  BY <1>1, <1>2, <1>3, <1>4, CatsStep DEF GoodCats

-----------------------------------------------------------------------------
(* Statements.                                                             *)

\* The statements of one activation are among the open ones.
LEMMA OpenCats ==
  ASSUME ThreadInv, InBytecode, Cardinality(OpenStmts) < MaxStmt
  PROVE  Len(Top(curr).cats) < MaxStmt
<1> DEFINE k == Len(callstack[curr])
           m == Len(Top(curr).cats)
           P == (1..MaxCall) \X (1..MaxStmt)
           g == [p \in OpenStmts |-> <<p[1], <<p[2], p[3]>>>>]
           f == [j \in 1..m |-> <<curr, k, j>>]
<1>1. /\ curr \in Thread /\ k \in 1..MaxCall /\ m \in Nat /\ m <= MaxStmt
      /\ Top(curr) = callstack[curr][k] /\ k \in DOMAIN callstack[curr]
      /\ DOMAIN Top(curr).cats = 1..m /\ MaxCall \in Nat /\ MaxStmt \in Nat
  <2>1. In({"exec"}) /\ lj.type = "none"
    BY DEF InBytecode, Running
  <2>2. /\ curr \in Thread /\ callstack[curr] \in Seq(Activation)
        /\ Top(curr) = callstack[curr][k] /\ GoodCats(Top(curr).cats) /\ k \in Nat \ {0}
    BY <2>1, ExecFacts
  <2>3. k <= MaxCall /\ k \in 1..k /\ DOMAIN callstack[curr] = 1..k
    BY <2>2 DEF ThreadInv, Base, TypeOK
  <2> QED
    BY <2>2, <2>3, ThreadAssumption DEF GoodCats
<1>2. \A j \in 1..m : j \in 1..MaxStmt /\ <<curr, k, j>> \in OpenStmts
  <2>1. \A j \in 1..m : j \in 1..MaxStmt
    BY <1>1
  <2> QED
    BY <2>1, <1>1 DEF OpenStmts
<1>3. IsFiniteSet(OpenStmts)
  <2>1. IsFiniteSet(1..MaxCall) /\ IsFiniteSet(1..MaxStmt) /\ IsFiniteSet(Thread)
    BY <1>1, FS_Interval, ThreadAssumption
  <2>2. IsFiniteSet(Thread \X P)
    BY <2>1, FS_Product
  <2>3. g \in Injection(OpenStmts, Thread \X P)
    <3>1. \A p \in OpenStmts : /\ p[1] \in Thread /\ p[2] \in 1..MaxCall /\ p[3] \in 1..MaxStmt
                               /\ p = <<p[1], p[2], p[3]>>
      BY DEF OpenStmts
    <3>2. g \in [OpenStmts -> Thread \X P]
      BY <3>1
    <3>3. ASSUME NEW p \in OpenStmts, NEW q \in OpenStmts, g[p] = g[q]
          PROVE  p = q
      <4>1. p[1] = q[1] /\ p[2] = q[2] /\ p[3] = q[3]
        BY <3>3
      <4> QED
        BY <4>1, <3>1
    <3> QED
      BY <3>2, <3>3 DEF Injection, IsInjective
  <2> QED
    BY <2>2, <2>3, FS_Injection
<1>4. f \in Injection(1..m, OpenStmts)
  BY <1>2 DEF Injection, IsInjective
<1> HIDE DEF f, m
<1>5. Cardinality(1..m) <= Cardinality(OpenStmts)
  BY <1>3, <1>4, FS_Injection
<1>6. Cardinality(1..m) = m
  <2>1. m \in Int /\ 1 \in Int /\ m \in Nat
    BY <1>1
  <2>2. Cardinality(1..m) = IF 1 > m THEN 0 ELSE m - 1 + 1
    BY <2>1, FS_Interval
  <2> QED
    BY <2>1, <2>2
<1> QED
  BY <1>1, <1>3, <1>5, <1>6, FS_CardinalityType DEF m

LEMMA NewCats ==
  ASSUME NEW cats, GoodCats(cats), Len(cats) < MaxStmt, NEW s
  PROVE  GoodCats(Append(cats, NewCat(s)))
<1>1. NewCat(s) \in Catcher /\ NewCat(s).cont = "none"
  BY DEF NewCat, Catcher
<1>2. cats \in Seq(Catcher) /\ Len(cats) \in Nat /\ MaxStmt \in Nat
  BY ThreadAssumption DEF GoodCats
<1> DEFINE c == NewCat(s)
<1> HIDE DEF c
<1>3. /\ Append(cats, c) \in Seq(Catcher) /\ Len(Append(cats, c)) = Len(cats) + 1
      /\ Append(cats, c)[Len(cats) + 1] = c /\ \A j \in 1..Len(cats) : Append(cats, c)[j] = cats[j]
  BY <1>1, <1>2 DEF c
<1>4. BreaksOK(Append(cats, c))
  BY <1>1, <1>2, <1>3 DEF BreaksOK, GoodCats, c
<1> QED
  BY <1>2, <1>3, <1>4 DEF GoodCats, c

LEMMA EnterStep ==
  ASSUME ThreadInv, NEW s \in Stmts, Enter(s)
  PROVE  ThreadInv'
<1>1. InBytecode /\ Len(Top(curr).cats) < MaxStmt
  BY OpenCats DEF Enter
<1>2. GoodCats(Append(Top(curr).cats, NewCat(s)))
  BY <1>1, ExecFacts, NewCats DEF InBytecode, Running
<1> QED
  BY <1>1, <1>2, CatsGo DEF Enter

LEMMA EndLabelStep ==
  ASSUME ThreadInv, EndLabel
  PROVE  ThreadInv'
<1>1. InBytecode /\ Top(curr).cats # <<>>
  BY DEF EndLabel, AtEndOf
<1>2. GoodCats(Front(Top(curr).cats))
  BY <1>1, ExecFacts, FrontCats DEF InBytecode, Running
<1> QED
  BY <1>1, <1>2, CatsGo DEF EndLabel

LEMMA EndTryStep ==
  ASSUME ThreadInv, EndTry
  PROVE  ThreadInv'
<1> DEFINE cats == Top(curr).cats
           n == Len(cats)
           fin == EnterFinally(cats, n, "normal", 0)
           new == IF cats[n].finally THEN [fin EXCEPT ![n].catch = FALSE] ELSE Front(cats)
<1>1. InBytecode /\ cats # <<>>
  BY DEF EndTry, AtEndOf
<1>2. GoodCats(cats)
  BY <1>1, ExecFacts DEF InBytecode, Running
<1>3. n \in 1..n
  BY <1>1, <1>2 DEF GoodCats
<1>4. GoodCats(fin) /\ Len(fin) = n
  <2> HIDE DEF cats
  <2>1. 0 \in Nat /\ "normal" # "break"
        /\ "normal" \in {"none", "normal", "throw", "return", "break"}
    OBVIOUS
  <2> QED
    BY <2>1, <1>2, <1>3, EnterFinallyCats
<1>5. GoodCats([fin EXCEPT ![n].catch = FALSE])
  <2> HIDE DEF fin, n
  <2> DEFINE c == [fin[n] EXCEPT !.catch = FALSE]
  <2>1. fin[n] \in Catcher /\ (fin[n].cont = "break" => fin[n].label <= n)
    BY <1>3, <1>4 DEF GoodCats, BreaksOK
  <2>2. c \in Catcher /\ c.cont = fin[n].cont /\ c.label = fin[n].label
    BY <2>1 DEF Catcher
  <2> HIDE DEF c
  <2>3. GoodCats([fin EXCEPT ![n] = c])
    BY <2>1, <2>2, <1>3, <1>4, PutCats
  <2> QED
    BY <2>3 DEF c
<1>6. GoodCats(Front(cats))
  BY <1>1, <1>2, FrontCats
<1>7. GoodCats(new)
  BY <1>5, <1>6
<1>8. callstack' = WithCats(curr, new)
  BY DEF EndTry
<1> HIDE DEF new
<1> QED
  BY <1>1, <1>7, <1>8, CatsGo DEF EndTry

LEMMA EndCatchStep ==
  ASSUME ThreadInv, EndCatch
  PROVE  ThreadInv'
<1> DEFINE old == Top(curr).cats
           n == Len(old)
           c == [old[n] EXCEPT !.lexenv = FALSE]
           cats == [old EXCEPT ![n] = c]
           b == [c EXCEPT !.kind = "bare", !.at = "finally", !.cont = "throw"]
           new == CASE c.finally -> EnterFinally(cats, n, "normal", 0)
                    [] ~c.finally /\ c.hasFinally -> [cats EXCEPT ![n] = b]
                    [] OTHER -> Front(cats)
<1>1. InBytecode /\ old # <<>>
  BY DEF EndCatch, AtEndOf
<1>2. GoodCats(old)
  BY <1>1, ExecFacts DEF InBytecode, Running
<1>3. n \in 1..n /\ old \in Seq(Catcher) /\ old[n] \in Catcher
      /\ (old[n].cont = "break" => old[n].label <= n)
  <2> HIDE DEF old
  <2>1. old \in Seq(Catcher) /\ n \in 1..n
    BY <1>1, <1>2 DEF GoodCats
  <2> QED
    BY <2>1, <1>2 DEF GoodCats, BreaksOK
<1>4. c \in Catcher /\ c.cont = old[n].cont /\ c.label = old[n].label
  <2> HIDE DEF old, n
  <2> QED
    BY <1>3 DEF Catcher
<1>5. b \in Catcher /\ b.cont = "throw"
  <2> HIDE DEF c
  <2> QED
    BY <1>4 DEF Catcher
<1> HIDE DEF b, c
<1>6. GoodCats(cats)
  <2> HIDE DEF old
  <2> QED
    BY <1>2, <1>3, <1>4, PutCats
<1>7. Len(cats) = n /\ cats[n] = c /\ cats # <<>>
  <2> HIDE DEF old
  <2> QED
    BY <1>3
<1>8. callstack' = WithCats(curr, new)
  <2>1. cats = [old EXCEPT ![Len(old)].lexenv = FALSE]
    BY DEF c
  <2>2. ReplaceAt(cats, n, [cats[n] EXCEPT !.kind = "bare", !.at = "finally", !.cont = "throw"])
          = [cats EXCEPT ![n] = b]
    <3> HIDE DEF cats
    <3> QED
      BY <1>7 DEF ReplaceAt, b
  <2> HIDE DEF cats
  <2>3. callstack' = WithCats(curr,
          CASE cats[n].finally    -> EnterFinally(cats, n, "normal", 0)
            [] ~cats[n].finally /\ cats[n].hasFinally ->
                 ReplaceAt(cats, n, [cats[n] EXCEPT !.kind = "bare", !.at = "finally",
                                                    !.cont = "throw"])
            [] OTHER              -> Front(cats))
    BY <2>1, <1>7 DEF EndCatch
  <2> QED
    BY <2>2, <2>3, <1>7
<1> HIDE DEF cats
<1>9. GoodCats(new)
  <2>0. n \in 1..Len(cats)
    BY <1>3, <1>7
  <2>1. GoodCats(EnterFinally(cats, n, "normal", 0))
    <3>1. 0 \in Nat /\ "normal" # "break"
          /\ "normal" \in {"none", "normal", "throw", "return", "break"}
      OBVIOUS
    <3> QED
      BY <3>1, <2>0, <1>6, EnterFinallyCats
  <2>2. GoodCats([cats EXCEPT ![n] = b])
    <3>1. b.cont = "break" => b.label <= n
      BY <1>5
    <3> QED
      BY <3>1, <2>0, <1>5, <1>6, PutCats
  <2>3. GoodCats(Front(cats))
    BY <1>6, <1>7, FrontCats
  <2> QED
    BY <2>1, <2>2, <2>3
<1> HIDE DEF new
<1> QED
  BY <1>1, <1>8, <1>9, CatsGo DEF EndCatch

\* After the step bytecode runs again.
Goes == /\ lj' \in Lj /\ lj'.type = "none" /\ armed' \in BOOLEAN
        /\ pf' = Cardinality(FinSet(cstack))

LEMMA CatsDone ==
  ASSUME ThreadInv, In({"exec"}), lj.type \in {"none", "return"}, NEW cats, GoodCats(cats),
         callstack' = WithCats(curr, cats), tstate' = tstate, resumer' = resumer,
         preventcount' = preventcount, curr' = curr, cstack' = cstack, Goes
  PROVE  ThreadInv'
<1>1. curr \in Thread /\ callstack[curr] # <<>> /\ Top(curr).fn = "ecma"
  BY ExecFacts
<1>2. SameStack
  BY StackStays
<1> QED
  BY <1>1, <1>2, CatsStep DEF GoodCats, Goes

LEMMA GoesOn ==
  ASSUME ThreadInv, Running, lj' = lj, pf' = pf, armed' = armed
  PROVE  Goes
<1>1. pf = Cardinality(FinSet(cstack))
  BY PfIs
<1> QED
  BY <1>1 DEF Goes, ThreadInv, Base, TypeOK, Running, Lj

LEMMA GoesDone ==
  ASSUME ThreadInv, ~Running, LjDone, armed' \in BOOLEAN
  PROVE  Goes
<1>1. pf' = Cardinality(FinSet(cstack))
  BY PfIs DEF LjDone
<1> QED
  BY <1>1, LjTypes DEF Goes, LjDone

\* break.
LEMMA BreakCats ==
  ASSUME ThreadInv, In({"exec"}), lj.type = "none", Goes, NEW d \in 0..Len(Top(curr).cats),
         HandleBreak(d)
  PROVE  ThreadInv'
<1> DEFINE cats == Top(curr).cats
           i == FinallyCat(cats)
           new == IF i > d THEN EnterFinally(cats, i, "break", d) ELSE SubSeq(cats, 1, d)
<1>1. GoodCats(cats) /\ cats \in Seq(Catcher) /\ Len(cats) \in Nat
  BY ExecFacts DEF GoodCats
<1>2. callstack' = WithCats(curr, new)
  BY DEF HandleBreak
<1>3. i \in 0..Len(cats)
  <2> HIDE DEF cats
  <2> QED
    BY <1>1, FinallyCatIs
<1>4. GoodCats(new)
  <2> HIDE DEF cats, i
  <2>1. d \in 0..Len(cats) /\ d \in Nat
    BY DEF cats
  <2>2. i > d => i \in 1..Len(cats) /\ d <= i
    BY <1>1, <1>3, <2>1
  <2>3. i > d => GoodCats(EnterFinally(cats, i, "break", d))
    <3>1. "break" \in {"none", "normal", "throw", "return", "break"}
      OBVIOUS
    <3> QED
      BY <3>1, <2>1, <2>2, <1>1, EnterFinallyCats
  <2>4. GoodCats(SubSeq(cats, 1, d))
    BY <1>1, <2>1, CutCats
  <2> QED
    BY <2>3, <2>4
<1> HIDE DEF new
<1> QED
  BY <1>2, <1>4, CatsDone DEF HandleBreak

LEMMA BreakStep ==
  ASSUME ThreadInv, Break
  PROVE  ThreadInv'
<1>1. In({"exec"}) /\ lj.type = "none" /\ Running /\ lj' = lj /\ pf' = pf /\ armed' = armed
  BY DEF Break, InBytecode, Running
<1>2. Goes
  BY <1>1, GoesOn
<1>3. GoodCats(Top(curr).cats)
  BY <1>1, ExecFacts
<1>4. PICK d \in DOMAIN Top(curr).cats : HandleBreak(d)
  BY DEF Break
<1>5. d \in 0..Len(Top(curr).cats)
  BY <1>3 DEF GoodCats
<1> QED
  BY <1>1, <1>2, <1>4, <1>5, BreakCats

\* return in a try statement.
LEMMA ReturnCats ==
  ASSUME ThreadInv, In({"exec"}), lj.type \in {"none", "return"}, Goes, FinallyCat(Top(curr).cats) > 0,
         callstack' = WithCats(curr, EnterFinally(Top(curr).cats, FinallyCat(Top(curr).cats), "return", 0)),
         tstate' = tstate, resumer' = resumer, preventcount' = preventcount, curr' = curr, cstack' = cstack
  PROVE  ThreadInv'
<1> DEFINE cats == Top(curr).cats
           i == FinallyCat(cats)
           new == EnterFinally(cats, i, "return", 0)
<1>1. GoodCats(cats) /\ cats \in Seq(Catcher) /\ Len(cats) \in Nat
  BY ExecFacts DEF GoodCats
<1>2. callstack' = WithCats(curr, new) /\ i > 0
  OBVIOUS
<1>3. i \in 0..Len(cats)
  <2> HIDE DEF cats
  <2> QED
    BY <1>1, FinallyCatIs
<1>4. GoodCats(new)
  <2> HIDE DEF cats, i
  <2>1. 0 \in Nat /\ "return" # "break" /\ "return" \in {"none", "normal", "throw", "return", "break"}
        /\ i \in 1..Len(cats)
    BY <1>1, <1>2, <1>3
  <2> QED
    BY <2>1, <1>1, EnterFinallyCats
<1> HIDE DEF new
<1> QED
  BY <1>2, <1>4, CatsDone

-----------------------------------------------------------------------------
(* Errors.                                                                 *)

\* The catcher found for an error.
LEMMA ThrowCatIs ==
  ASSUME ThreadInv, curr \in Thread, callstack[curr] # <<>>
  PROVE  /\ ThrowCat \in 0..Len(Top(curr).cats)
         /\ ThrowCat > 0 => Top(curr).cats # <<>> /\ Top(curr).fn = "ecma" /\ ThrowCat \in 1..Len(Top(curr).cats)
<1> DEFINE c == Top(curr).cats
           I == {i \in 1..Len(c) : c[i].catch \/ c[i].finally}
<1>1. ThrowCat = IF I # {} THEN Max(I) ELSE 0
  BY DEF ThrowCat, SelectLastInSeq
<1>2. c \in Seq(Catcher) /\ Len(c) \in Nat /\ I \in SUBSET (1..Len(c))
  BY ThrowFacts DEF GoodCats
<1>3. ThrowCat \in 0..Len(c)
  <2> HIDE DEF I
  <2> QED
    BY <1>1, <1>2, LastOf
<1>4. ThrowCat > 0 => ThrowCat \in 1..Len(c) /\ c # <<>>
  BY <1>2, <1>3
<1> QED
  BY <1>3, <1>4, ThrowFacts

LEMMA CatchStep ==
  ASSUME ThreadInv, In({"exec"}), lj.type = "throw", callstack[curr] # <<>>, curr \in Thread, ThrowCat > 0,
         NEW cats, GoodCats(cats), callstack' = WithCats(curr, cats), SameStack, LjDone,
         tstate' = tstate, resumer' = resumer, preventcount' = preventcount, curr' = curr, armed' = armed
  PROVE  ThreadInv'
<1>1. Goes
  BY GoesDone DEF ThreadInv, Base, TypeOK, Running
<1>2. Top(curr).fn = "ecma" /\ Top(curr).cats # <<>>
  BY ThrowCatIs
<1> QED
  BY <1>1, <1>2, CatsStep DEF GoodCats, Goes

LEMMA HandlingFacts ==
  ASSUME ThreadInv, In({"exec"})
  PROVE  /\ curr \in Thread /\ cstack # <<>> /\ Frame.kind = "exec" /\ Frame \in CFrame
         /\ Frame = cstack[Len(cstack)] /\ Len(cstack) \in 1..Len(cstack) /\ Len(cstack) \in Nat
<1>1. cstack # <<>> /\ Frame.kind = "exec"
  BY DEF In
<1>2. curr \in Thread
  BY <1>1 DEF ThreadInv, Base, Frames, TypeOK
<1> QED
  BY <1>1, <1>2, FrameIs DEF ThreadInv, Base

\* delayed_catch_setup is set or cleared.
LEMMA DelayedStack ==
  ASSUME ThreadInv, In({"exec"}), NEW b \in BOOLEAN,
         cstack' = ReplaceAt(cstack, Len(cstack), [Frame EXCEPT !.delayed = b])
  PROVE  SameStack /\ Frame'.delayed = b /\ Frame'.kind = "exec"
<1> DEFINE n == Len(cstack)
           f == [Frame EXCEPT !.delayed = b]
<1>1. /\ cstack # <<>> /\ Frame.kind = "exec" /\ Frame \in CFrame /\ Frame = cstack[n]
      /\ n \in 1..n /\ n \in Nat /\ cstack \in Seq(CFrame)
  BY HandlingFacts DEF ThreadInv, Base, TypeOK
<1>2. f \in CFrame /\ f.delayed = b /\ f.kind = "exec" /\ Same(Frame, f)
  BY <1>1 DEF CFrame, Same
<1> HIDE DEF f
<1>3. cstack' = [cstack EXCEPT ![n] = f]
  BY <1>1 DEF ReplaceAt, f
<1>4. /\ cstack' \in Seq(CFrame) /\ Len(cstack') = n /\ cstack'[n] = f
      /\ \A i \in 1..n : i # n => cstack'[i] = cstack[i]
  <2> DEFINE new == [cstack EXCEPT ![n] = f]
  <2>1. /\ new \in Seq(CFrame) /\ Len(new) = n /\ new[n] = f
        /\ \A i \in 1..n : i # n => new[i] = cstack[i]
    BY <1>1, <1>2, PutIs
  <2>2. cstack' = new
    BY <1>3
  <2> HIDE DEF new
  <2> QED
    BY <2>1, <2>2
<1>5. \A i \in 1..n : FrameOK(cstack[i], i)
  BY DEF ThreadInv, Base, Frames, StackOK
<1>6. SameFrames(cstack, cstack', n)
  BY <1>1, <1>2, <1>4, <1>5 DEF SameFrames, Same, FrameOK
<1>7. Frame' = f
  BY <1>4 DEF Frame, Last
<1> QED
  BY <1>2, <1>4, <1>6, <1>7 DEF SameStack

LEMMA HandleCatchStep ==
  ASSUME ThreadInv, HandleCatch
  PROVE  ThreadInv'
<1> DEFINE cats == Top(curr).cats
           i == ThrowCat
           new == EnterCatch(cats, i)
<1>1. In({"exec"}) /\ lj.type = "throw" /\ callstack[curr] # <<>> /\ i > 0
  BY DEF HandleCatch, Handling
<1>2. curr \in Thread
  BY <1>1, HandlingFacts
<1>3. GoodCats(cats) /\ i \in 1..Len(cats)
  BY <1>1, <1>2, ThrowFacts, ThrowCatIs
<1>4. GoodCats(new)
  <2> HIDE DEF cats, i
  <2> QED
    BY <1>3, EnterCatchCats
<1>5. SameStack
  BY <1>1, DelayedStack DEF HandleCatch
<1>6. callstack' = WithCats(curr, new)
  BY DEF HandleCatch
<1> HIDE DEF new
<1> QED
  BY <1>1, <1>2, <1>4, <1>5, <1>6, CatchStep DEF HandleCatch

LEMMA HandleFinallyStep ==
  ASSUME ThreadInv, HandleFinally
  PROVE  ThreadInv'
<1> DEFINE cats == Top(curr).cats
           i == ThrowCat
           new == EnterFinally(cats, i, "throw", 0)
<1>1. In({"exec"}) /\ lj.type = "throw" /\ callstack[curr] # <<>> /\ i > 0
  BY DEF HandleFinally, Handling
<1>2. curr \in Thread
  BY <1>1, HandlingFacts
<1>3. GoodCats(cats) /\ i \in 1..Len(cats)
  BY <1>1, <1>2, ThrowFacts, ThrowCatIs
<1>4. GoodCats(new)
  <2> HIDE DEF cats, i
  <2>1. 0 \in Nat /\ "throw" # "break" /\ "throw" \in {"none", "normal", "throw", "return", "break"}
    OBVIOUS
  <2> QED
    BY <2>1, <1>3, EnterFinallyCats
<1>5. SameStack
  BY StackStays DEF HandleFinally
<1>6. callstack' = WithCats(curr, new)
  BY DEF HandleFinally
<1> HIDE DEF new
<1> QED
  BY <1>1, <1>2, <1>4, <1>5, <1>6, CatchStep DEF HandleFinally

\* A longjmp caught by the innermost frame.
LEMMA RaiseStep ==
  ASSUME ThreadInv, lj.type = "none", cstack # <<>>, Frame.kind # "native", SameStack, ~Frame'.delayed,
         tstate' = tstate, resumer' = resumer, callstack' = callstack, preventcount' = preventcount,
         curr' = curr, lj' \in Lj, lj'.type \in {"throw", "return"},
         lj'.type = "return" => Frame.kind = "exec",
         pf' = Cardinality(FinSet(cstack)) + 1, armed' = armed
  PROVE  ThreadInv'
<1> DEFINE n == Len(cstack)
<1> USE DEF ThreadInv, Base
<1>h. PICK h \in [Thread -> Nat], d \in [Thread -> Nat] : ChainOK(h, d)
  BY DEF Chained
<1>1. Frame = cstack[n] /\ n \in 1..n /\ n \in Nat /\ Len(cstack') = n /\ cstack' \in Seq(CFrame)
  BY FrameIs DEF SameStack
<1>2. curr \in Thread
  BY DEF Frames, TypeOK
<1>3. Frame'.kind = Frame.kind /\ Frame' = cstack'[n]
  BY <1>1 DEF Frame, Last, SameStack, SameFrames, Same
<1>4. TypeOK'
  <2>1. pf' \in Nat
    BY CountsNat DEF TypeOK
  <2> QED
    BY <2>1, <1>1 DEF TypeOK, Lj
<1>5. Frames'
  BY <1>3, FramesSame DEF Running
<1>6. States'
  <2>1. resumer[curr] # NONE => callstack[curr] # <<>>
    BY <1>2 DEF States
  <2> QED
    BY <2>1, <1>2, StatesSame
<1>7. Keep(n)
  <2>1. \A i \in 1..n : Same(cstack[i], cstack'[i])
    BY DEF SameStack, SameFrames
  <2>2. n <= Len(cstack)
    BY <1>1
  <2> QED
    BY <2>1, <2>2, <1>1, KeepIf
<1>8. Match'
  <2>1. \A i \in 1..n : MatchF(cstack'[i], callstack'[cstack'[i].thr])
    BY <1>1, <1>7, KeepMatch
  <2> QED
    BY <2>1, <1>1 DEF Match
<1>9. Levels'
  <2>1. ASSUME NEW i \in 1..n, i # n
        PROVE  Level(cstack'[i], callstack'[Ctx(i)'], Depth(i)')
    BY <2>1, <1>1, <1>7, KeepLevels DEF Frames
  <2>2. Level(cstack'[n], callstack'[Ctx(n)'], Depth(n)')
    <3>1. Ctx(n)' = curr /\ Ctx(n) = curr /\ Depth(n)' = Len(callstack[curr]) /\ Depth(n) = Len(callstack[curr])
      BY <1>1 DEF Ctx, Depth
    <3>2. Level(cstack[n], callstack[curr], Len(callstack[curr]))
      BY <3>1, <1>1 DEF Levels
    <3>3. Same(cstack[n], cstack'[n])
      BY <1>1 DEF SameStack, SameFrames
    <3>4. Level(cstack'[n], callstack[curr], Len(callstack[curr]))
      BY <3>2, <3>3 DEF Level, Same
    <3> QED
      BY <3>1, <3>4
  <2> QED
    BY <2>1, <2>2, <1>1 DEF Levels
<1>10. Owned'
  <2>1. ASSUME NEW t \in Thread, NEW k \in 1..Len(callstack[t]),
               callstack[t][k].prevent, callstack[t][k].fn \in {"ecma", "native"}
        PROVE  HasFrame(t, k)'
    <3>1. HasFrame(t, k)
      BY <2>1 DEF Owned, Lost
    <3>2. k \in Nat
      BY DEF TypeOK
    <3> QED
      BY <3>1, <3>2, HasFrameSame
  <2> QED
    BY <2>1 DEF Owned
<1>11. Acts' /\ Shape'
  BY DEF Acts, Shape, ShapeOf
<1>13. Pending'
  BY <1>3 DEF Pending
<1>14. PreventExact'
  <2>1. \A t \in Thread : SafeSet(cstack', t) = SafeSet(cstack, t)
    BY SameSets
  <2>2. \A t \in Thread : preventcount'[t] =
          Cardinality(PreventSet(callstack'[t])) + Cardinality(SafeSet(cstack', t))
    BY <2>1, PreventIs
  <2> QED
    BY <2>2 DEF PreventExact, PreventSet, SafeSet
<1>15. PfExact'
  <2>1. FinSet(cstack') = FinSet(cstack)
    BY SameSets, ThreadAssumption
  <2>3. pf' = Cardinality(FinSet(cstack')) + 1 /\ ~Running'
    BY <2>1 DEF Running
  <2> QED
    BY <2>3 DEF PfExact, FinSet
<1>16. Chained'
  <2>1. FramesAre(n)
    BY DEF SameStack, SameFrames, FramesAre
  <2>2. ChainOK(h, d)'
    BY <2>1, <1>h, ChainSame
  <2> QED
    BY <2>2 DEF Chained
<1> QED
  BY <1>4, <1>5, <1>6, <1>8, <1>9, <1>10, <1>11, <1>13, <1>14, <1>15, <1>16

\* A longjmp from an executor or a protected call stays in its frame.
LEMMA CaughtHere ==
  ASSUME ThreadInv, cstack # <<>>, Frame.kind # "native"
  PROVE  Caught(cstack) = cstack
<1> DEFINE n == Len(cstack)
<1>1. cstack \in Seq(CFrame) /\ n \in 1..n /\ n \in Nat /\ Frame = cstack[n]
  BY FrameIs DEF ThreadInv, Base, TypeOK
<1>2. PICK m : CaughtAt(cstack, m)
  BY <1>1, CaughtIs
<1>3. m = n
  <2>1. m \in 0..n /\ (m # n => n \in m + 1..n)
    BY <1>1, <1>2 DEF CaughtAt
  <2> QED
    BY <2>1, <1>1, <1>2 DEF CaughtAt
<1>4. SubSeq(cstack, 1, n) = cstack
  BY <1>1
<1> QED
  BY <1>2, <1>3, <1>4 DEF CaughtAt

LEMMA RaiseHere ==
  ASSUME ThreadInv, lj.type = "none", In({"exec", "safe", "fin"}), ~Frame.delayed, NEW l \in Lj,
         l.type \in {"throw", "return"}, l.type = "return" => Frame.kind = "exec",
         Longjmp(l), UNCHANGED <<threads, armed>>
  PROVE  ThreadInv'
<1>1. cstack # <<>> /\ Frame.kind # "native"
  BY DEF In
<1>2. cstack' = cstack /\ SameStack
  BY <1>1, CaughtHere, StackStays DEF Longjmp
<1>3. ~Frame'.delayed
  BY <1>2 DEF Frame
<1>4. pf' = Cardinality(FinSet(cstack)) + 1
  BY PfIs DEF Longjmp, Running
<1> QED
  BY <1>1, <1>2, <1>3, <1>4, RaiseStep DEF Longjmp, threads

LEMMA NotDelayed ==
  ASSUME ThreadInv, In({"safe", "fin", "native"})
  PROVE  ~Frame.delayed
<1>1. cstack # <<>> /\ Frame.kind # "exec"
  BY DEF In
<1>2. Frame = cstack[Len(cstack)] /\ Len(cstack) \in 1..Len(cstack)
  BY <1>1, FrameIs DEF ThreadInv, Base
<1> QED
  BY <1>1, <1>2 DEF ThreadInv, Base, Frames, StackOK, FrameOK

LEMMA InterruptStep ==
  ASSUME ThreadInv, Interrupt
  PROVE  ThreadInv'
<1> DEFINE l == [type |-> "return", iserror |-> FALSE, thr |-> NONE]
<1>1. lj.type = "none" /\ In({"exec", "safe", "fin"}) /\ ~Frame.delayed /\ Frame.kind = "exec"
  BY DEF Interrupt, InBytecode, Running, In
<1>2. l \in Lj /\ l.type = "return"
  BY DEF Lj, LjType
<1>3. Longjmp(l)
  BY DEF Interrupt
<1> HIDE DEF l
<1> QED
  BY <1>1, <1>2, <1>3, RaiseHere DEF Interrupt

LEMMA CatchSetupStep ==
  ASSUME ThreadInv, CatchSetup
  PROVE  ThreadInv'
<1> DEFINE cats == Top(curr).cats
           n == Len(cats)
           new == [cats EXCEPT ![n].lexenv = TRUE]
<1>1. Running /\ lj.type = "none" /\ In({"exec"})
  BY DEF CatchSetup, Running
<1>2. SameStack /\ ~Frame'.delayed
  BY <1>1, DelayedStack DEF CatchSetup
<1>3. /\ curr \in Thread /\ callstack[curr] # <<>> /\ Top(curr).fn = "ecma"
      /\ GoodCats(cats) /\ cats \in Seq(Catcher)
  BY <1>1, ExecFacts DEF GoodCats
<1>4. CASE callstack' = WithCats(curr, new) /\ UNCHANGED <<lj, pf>>
  <2>1. GoodCats(new)
    <3>1. CASE cats = <<>>
      <4> HIDE DEF cats
      <4>1. new = cats
        BY <1>3, <3>1
      <4> QED
        BY <4>1, <1>3
    <3>2. CASE cats # <<>>
      <4> HIDE DEF cats
      <4> DEFINE c == [cats[n] EXCEPT !.lexenv = TRUE]
      <4>1. n \in 1..n
        BY <1>3, <3>2
      <4>2. cats[n] \in Catcher /\ (cats[n].cont = "break" => cats[n].label <= n)
        BY <4>1, <1>3 DEF GoodCats, BreaksOK
      <4>3. c \in Catcher /\ c.cont = cats[n].cont /\ c.label = cats[n].label
        BY <4>2 DEF Catcher
      <4> HIDE DEF c
      <4>4. GoodCats([cats EXCEPT ![n] = c])
        BY <4>1, <4>2, <4>3, <1>3, PutCats
      <4> QED
        BY <4>4 DEF c
    <3> QED
      BY <3>1, <3>2
  <2>2. Goes
    BY <1>1, <1>4, GoesOn DEF CatchSetup
  <2>3. tstate' = tstate /\ resumer' = resumer /\ preventcount' = preventcount /\ curr' = curr
    BY DEF CatchSetup
  <2> HIDE DEF new
  <2> QED
    BY <1>1, <1>2, <1>3, <1>4, <2>1, <2>2, <2>3, CatsStep DEF GoodCats, Goes
<1>5. CASE lj' = Thrown /\ pf' = pf + 1 /\ UNCHANGED callstack
  <2>1. cstack # <<>> /\ Frame.kind # "native"
    BY <1>1 DEF In
  <2>2. pf' = Cardinality(FinSet(cstack)) + 1
    BY <1>1, <1>5, PfIs
  <2> QED
    BY <1>1, <1>2, <1>5, <2>1, <2>2, RaiseStep, LjTypes DEF CatchSetup
<1> QED
  BY <1>4, <1>5 DEF CatchSetup

\* The frames above m, which a longjmp jumps over.
Jumped(m) ==
  /\ m \in Nat /\ m < Len(cstack)
  /\ \A i \in m + 1..Len(cstack) : i # Len(cstack) => cstack[i].kind = "native"
  /\ cstack[Len(cstack)].kind \in CallKinds

LEMMA JumpedFrames ==
  ASSUME ThreadInv, NEW m, Jumped(m), Frame.thr = curr
  PROVE  /\ m >= 1 /\ curr \in Thread
         /\ \A i \in m + 1..Len(cstack) :
              /\ cstack[i].thr = curr /\ cstack[i].ecurr = curr /\ Ctx(i) = curr
              /\ cstack[i].kind \in CallKinds
              /\ Frame.top = cstack[i].top + (Len(cstack) - i)
<1> DEFINE n == Len(cstack)
<1> USE DEF ThreadInv, Base
<1>h. PICK h \in [Thread -> Nat], d \in [Thread -> Nat] : ChainOK(h, d)
  BY DEF Chained
<1>1. m \in Nat /\ m < n /\ n \in Nat /\ n \in 1..n /\ n \in m + 1..n /\ cstack # <<>> /\ cstack \in Seq(CFrame)
  <2>1. m \in Nat /\ m < n /\ cstack \in Seq(CFrame) /\ n \in Nat
    BY DEF Jumped, TypeOK
  <2> QED
    BY <2>1
<1>2. Frame = cstack[n] /\ Ctx(n) = curr /\ Frame \in CFrame
  BY <1>1, FrameIs
<1>3. \A i \in m + 1..n : i \in 1..n /\ cstack[i] \in CFrame /\ cstack[i].top \in Nat /\ cstack[i].thr \in Thread
  <2>1. \A i \in m + 1..n : i \in 1..n /\ cstack[i] \in CFrame
    BY <1>1
  <2> QED
    BY <2>1, FrameType
<1>4. \A i \in m + 1..n : cstack[i].kind \in CallKinds /\ cstack[i].ecurr = cstack[i].thr
  <2>1. \A i \in m + 1..n : cstack[i].kind \in CallKinds
    BY DEF Jumped, CallKinds
  <2> QED
    BY <2>1, <1>3 DEF Frames, StackOK, FrameOK, Cross
<1>5. m >= 1
  <2>1. m # 0
    <3> SUFFICES ASSUME m = 0
                 PROVE  FALSE
      OBVIOUS
    <3>1. 1 \in m + 1..n
      BY <1>1
    <3>2. cstack[1].ecurr = NONE
      BY <3>1, <1>3 DEF Frames, StackOK, FrameOK
    <3> QED
      BY <3>1, <3>2, <1>3, <1>4, ThreadAssumption
  <2> QED
    BY <2>1, <1>1
<1>6. ASSUME NEW i \in m + 1..n, i # n
      PROVE  cstack[i].thr = curr /\ Frame.top = cstack[i].top + (n - i)
  <2>1. /\ n - 1 \in m + 1..n /\ n - 1 # n /\ n - 1 < n /\ n - 1 + 1 = n /\ i <= n - 1 /\ i \in Nat
        /\ \A l \in i..n - 1 : l \in m + 1..n /\ l # n
    BY <1>1, <1>6
  <2>2. \A l \in i..n - 1 : cstack[l].kind = "native"
    BY <2>1 DEF Jumped
  <2>3. cstack[i].thr = cstack[n - 1].thr /\ cstack[n - 1].top = cstack[i].top + ((n - 1) - i)
    BY <2>1, <2>2, <1>3 DEF Frames, StackOK, RunOK
  <2>4. Ctx(n - 1) = Frame.ecurr /\ Depth(n - 1) = Frame.top
    BY <2>1, <1>1, <1>2, <1>4 DEF Ctx, Depth, Cross
  <2>5. cstack[n - 1].thr = Ctx(n - 1)
    BY <1>h, <2>1, <1>3 DEF Jumped, ChainOK
  <2>6. Frame.ecurr = curr
    BY <1>1, <1>2, <1>4
  <2>7. Frame.top = cstack[n - 1].top + 1
    <3>1. Level(cstack[n - 1], callstack[Ctx(n - 1)], Depth(n - 1))
      BY <2>1, <1>3 DEF Levels
    <3> QED
      BY <3>1, <2>1, <2>4 DEF Level, Jumped
  <2>8. cstack[i].top \in Nat /\ n \in Nat /\ i \in Nat
    BY <2>1, <1>1, <1>3
  <2>9. Frame.top = cstack[i].top + (n - i)
    <3> DEFINE a == cstack[i].top
               b == cstack[n - 1].top
    <3>1. b = a + ((n - 1) - i) /\ Frame.top = b + 1 /\ a \in Nat /\ n \in Nat /\ i \in Nat
      BY <2>3, <2>7, <2>8
    <3> HIDE DEF a, b, n
    <3>2. Frame.top = a + (n - i)
      BY <3>1
    <3> QED
      BY <3>2 DEF a
  <2> QED
    BY <2>3, <2>4, <2>5, <2>6, <2>9
<1>7. ASSUME NEW i \in m + 1..n
      PROVE  cstack[i].thr = curr /\ Frame.top = cstack[i].top + (n - i)
  <2>1. CASE i = n
    BY <2>1, <1>1, <1>2, <1>3
  <2> QED
    BY <2>1, <1>6
<1>8. ASSUME NEW i \in m + 1..n
      PROVE  Ctx(i) = curr
  <2>1. i # n => i + 1 \in m + 1..n
    BY <1>1
  <2> QED
    BY <2>1, <1>4, <1>7 DEF Ctx
<1>9. curr \in Thread
  BY <1>1, <1>3, <1>7
<1> QED
  BY <1>4, <1>5, <1>7, <1>8, <1>9

LEMMA JumpSum ==
  ASSUME NEW i \in Nat, NEW k \in Nat, NEW l \in Nat, NEW n \in Nat, NEW m \in Nat, NEW top \in Nat,
         top = (k - 1) + (n - i), l >= k, l < top + 1, i >= m + 1, i <= n,
         NEW j, j = i + (l - k)
  PROVE  j \in m + 1..n /\ j # n /\ \A x \in Nat : top = x + (n - j) => x + 1 = l
OBVIOUS

CatsGone(s, r) == CatsSet(s, r, <<>>)

\* An error jumps over the frames above m: their activations stay until the
\* executor that caught the error unwinds them.
LEMMA CutStep ==
  ASSUME ThreadInv, lj.type \in {"none", "throw"}, NEW m \in Nat, Jumped(m), AtEntry,
         cstack[m].kind # "native", Prefix(cstack, cstack', m), callstack' \in [Thread -> Seq(Activation)], OnlyCurr,
         CatsGone(callstack[curr], callstack'[curr]),
         tstate' = tstate, resumer' = resumer, preventcount' = preventcount, curr' = curr,
         lj' \in Lj, lj'.type = "throw", pf' = Cardinality(FinSet(cstack)) + 1, armed' = armed
  PROVE  ThreadInv'
<1> DEFINE n == Len(cstack)
           s == callstack[curr]
           r == callstack'[curr]
<1> USE DEF ThreadInv, Base
<1>h. PICK h \in [Thread -> Nat], d \in [Thread -> Nat] : ChainOK(h, d)
  BY DEF Chained
<1>1. /\ m \in Nat /\ m >= 1 /\ m < n /\ n \in Nat /\ n \in 1..n /\ m \in 1..m /\ m \in 0..n
      /\ m + 1 \in m + 1..n /\ curr \in Thread /\ cstack # <<>> /\ cstack \in Seq(CFrame)
      /\ \A i \in 1..m : i \in 1..n
  <2>1. m \in Nat /\ m < n /\ n \in Nat /\ cstack \in Seq(CFrame)
    BY DEF Jumped, TypeOK
  <2>2. m >= 1 /\ curr \in Thread
    BY JumpedFrames DEF AtEntry
  <2> QED
    BY <2>1, <2>2
<1>2. \A i \in m + 1..n :
        /\ i \in 1..n /\ cstack[i].thr = curr /\ cstack[i].ecurr = curr /\ Ctx(i) = curr
        /\ cstack[i].kind \in CallKinds /\ cstack[i].kind # "fin" /\ cstack[i].top \in Nat
  <2>1. \A i \in m + 1..n : i \in 1..n /\ cstack[i] \in CFrame
    BY <1>1
  <2>2. \A i \in m + 1..n : /\ cstack[i].thr = curr /\ cstack[i].ecurr = curr /\ Ctx(i) = curr
                              /\ cstack[i].kind \in CallKinds
    BY JumpedFrames DEF AtEntry
  <2> QED
    BY <2>1, <2>2, FrameType DEF CallKinds
<1>2a. /\ \A i \in m + 1..n : Frame.top = cstack[i].top + (n - i)
       /\ Frame.top \in Nat /\ Len(s) = Frame.top + 1
  BY <1>1, JumpedFrames, FrameIs, FrameType DEF AtEntry
<1>3. cstack' \in Seq(CFrame) /\ Len(cstack') = m /\ \A i \in 1..m : cstack'[i] = cstack[i]
  BY DEF Prefix
<1>4. /\ s \in Seq(Activation) /\ Len(s) \in Nat \ {0} /\ Len(s) \in 1..Len(s)
      /\ Len(r) = Len(s) /\ r # <<>> /\ s # <<>>
      /\ \A k \in 1..Len(s) : SameAct(s[k], r[k]) /\ (k # Len(s) => r[k] = s[k])
      /\ r[Len(s)].cats = <<>>
  <2>1. s \in Seq(Activation)
    BY <1>1 DEF TypeOK
  <2>2. Frame.top \in Nat /\ Len(s) = Frame.top + 1
    BY <1>1, FrameIs, FrameType DEF AtEntry
  <2>3. s # <<>> /\ <<>> \in Seq(Catcher) /\ CatsSet(s, r, <<>>)
    BY <2>1, <2>2 DEF CatsGone
  <2> HIDE DEF s, r
  <2>4. /\ Len(s) \in Nat \ {0} /\ r # <<>>
        /\ \A k \in 1..Len(s) : SameAct(s[k], r[k]) /\ (k # Len(s) => r[k] = s[k])
        /\ r[Len(s)].cats = <<>>
    BY <2>1, <2>3, CatsSetIs
  <2>5. Len(r) = Len(s) /\ Len(s) \in 1..Len(s)
    BY <2>3, <2>4 DEF CatsSet
  <2> QED
    BY <2>1, <2>3, <2>4, <2>5
<1>5. TypeOK'
  <2>1. ASSUME NEW t \in Thread
        PROVE  Len(callstack'[t]) <= MaxCall /\ \A k \in DOMAIN callstack'[t] : Len(callstack'[t][k].cats) <= MaxStmt
    <3>1. CASE t # curr
      BY <3>1 DEF OnlyCurr, TypeOK
    <3>2. CASE t = curr
      <4>1. DOMAIN r = 1..Len(s) /\ DOMAIN s = 1..Len(s)
        BY <1>1, <1>4
      <4>2. \A k \in 1..Len(s) : Len(r[k].cats) <= MaxStmt
        <5>1. Len(<<>>) <= MaxStmt
          BY ThreadAssumption
        <5> QED
          BY <5>1, <4>1, <1>1, <1>4 DEF TypeOK
      <4> QED
        BY <3>2, <4>1, <4>2, <1>1, <1>4 DEF TypeOK
    <3> QED
      BY <3>1, <3>2
  <2>2. pf' \in Nat
    BY CountsNat, SMTT(30) DEF TypeOK
  <2>3. Len(cstack') <= MaxC
    BY <1>1, <1>3, ThreadAssumption DEF TypeOK
  <2> QED
    BY <1>3, <2>1, <2>2, <2>3 DEF TypeOK, Lj
<1>6. Frame' = cstack[m]
  BY <1>1, <1>3 DEF Frame, Last
<1>7. Frames'
  <2>1. SameFrames(cstack, cstack', m)
    BY <1>1, <1>3 DEF SameFrames, Same, Frames, StackOK, FrameOK
  <2>2. StackOK(cstack')
    BY <2>1, <1>1, <1>3, StackPrefix DEF Frames
  <2>3. DelaysOK(cstack')
    <3>1. ASSUME NEW i \in 1..m, i # m, cstack'[i].delayed
          PROVE  cstack'[i + 1].kind = "fin"
      <4>1. i \in 1..n /\ i # n /\ i + 1 \in 1..m
        BY <3>1, <1>1
      <4> QED
        BY <3>1, <4>1, <1>3 DEF Frames, DelaysOK
    <3> QED
      BY <3>1, <1>3 DEF DelaysOK
  <2>4. ~cstack[m].delayed
    <3>1. m \in 1..n /\ m # n /\ cstack[m + 1].kind # "fin"
      BY <1>1, <1>2
    <3> QED
      BY <3>1 DEF Frames, DelaysOK
  <2>5. \A i \in 1..m : Placed(cstack[i])'
    BY <1>1, <1>3 DEF Frames, Placed
  <2>6. cstack' # <<>> /\ curr # NONE
    BY <1>1, <1>3, ThreadAssumption
  <2> QED
    BY <2>2, <2>3, <2>4, <2>5, <2>6, <1>3, <1>6 DEF Frames
<1>8. States'
  <2>1. ASSUME NEW t \in Thread, tstate[t] = "running", t # curr
        PROVE  \E i \in 1..m : Cross(cstack'[i]) /\ cstack'[i].ecurr = t
    <3>1. PICK i \in 1..n : Cross(cstack[i]) /\ cstack[i].ecurr = t
      BY <2>1 DEF States
    <3>2. i \notin m + 1..n
      BY <3>1, <1>2, <2>1
    <3>3. i \in 1..m
      BY <3>2, <1>1
    <3> QED
      BY <3>1, <3>3, <1>3
  <2>2. ASSUME NEW t \in Thread, resumer[t] # NONE
        PROVE  callstack'[t] # <<>> \/ t = curr
    <3>1. callstack[t] # <<>> \/ t = curr
      BY <2>2 DEF States
    <3> QED
      BY <3>1 DEF OnlyCurr
  <2>3. ASSUME NEW t \in Thread
        PROVE  /\ tstate[t] = "resumed" <=> \E u \in Thread : resumer[u] = t
               /\ resumer[t] # NONE => tstate[t] \in {"running", "resumed"}
               /\ \A u \in Thread : resumer[t] = resumer[u] /\ t # u => resumer[t] = NONE
    BY DEF States
  <2>4. tstate[curr] = "running"
    BY <1>1, ThreadAssumption DEF States
  <2> QED
    BY <2>1, <2>2, <2>3, <2>4, <1>3 DEF States
<1>9. Keep(m)
  <2>1. ASSUME NEW i \in 1..m, cstack[i].thr = curr
        PROVE  KeepActs(s, r, cstack[i].top + Bonus(cstack[i]))
    <3>1. MatchF(cstack[i], s) /\ cstack[i] \in CFrame
      BY <2>1, <1>1 DEF Match, TypeOK
    <3>2. cstack[i].top + Bonus(cstack[i]) \in Nat /\ cstack[i].top + Bonus(cstack[i]) <= Len(s)
      BY <3>1, FrameType DEF MatchF
    <3> QED
      BY <3>2, <1>4 DEF KeepActs
  <2>2. \A i \in 1..m : Same(cstack[i], cstack'[i])
    BY <1>3 DEF Same
  <2>3. \A i \in 1..m : cstack[i].thr = curr => KeepActs(s, r, cstack[i].top + Bonus(cstack[i]))
    BY <2>1
  <2>4. m <= Len(cstack)
    BY <1>1
  <2> QED
    BY <2>2, <2>3, <2>4, <1>1, KeepCurr
<1>10. Match'
  <2>1. m <= Len(cstack)
    BY <1>1
  <2>2. \A i \in 1..m : MatchF(cstack'[i], callstack'[cstack'[i].thr])
    BY <2>1, <1>1, <1>9, KeepMatch
  <2> QED
    BY <2>2, <1>3 DEF Match
<1>11. Levels'
  <2>1. ASSUME NEW i \in 1..m, i # m
        PROVE  Level(cstack'[i], callstack'[Ctx(i)'], Depth(i)')
    <3>1. m <= Len(cstack) /\ m <= Len(cstack') /\ Len(cstack') \in Nat /\ i \in Nat
      BY <1>1, <1>3
    <3> QED
      BY <2>1, <3>1, <1>1, <1>9, KeepLevels DEF Frames
  <2>2. \A i \in 1..m : i < m => i # m
    BY <1>1
  <2> QED
    BY <2>1, <2>2, <1>3 DEF Levels
<1>12. Owned'
  <2> SUFFICES ASSUME NEW t \in Thread, NEW k \in 1..Len(callstack'[t]),
                      callstack'[t][k].prevent, callstack'[t][k].fn \in {"ecma", "native"}
               PROVE  HasFrame(t, k)' \/ Lost(t, k)'
    BY DEF Owned
  <2>1. k \in 1..Len(callstack[t]) /\ SameAct(callstack[t][k], callstack'[t][k]) /\ k \in Nat
    <3>1. CASE t = curr
      BY <3>1, <1>4
    <3>2. CASE t # curr
      <4>1. callstack'[t] = callstack[t]
        BY <3>2 DEF OnlyCurr
      <4>2. Len(callstack[t]) \in Nat
        BY DEF TypeOK
      <4>3. k \in 1..Len(callstack[t])
        BY <4>1
      <4>4. SameAct(callstack[t][k], callstack'[t][k])
        BY <4>1, Zenon DEF SameAct
      <4> QED
        BY <4>2, <4>3, <4>4
    <3> QED
      BY <3>1, <3>2
  <2>2. HasFrame(t, k) \/ Lost(t, k)
    BY <2>1 DEF Owned, SameAct
  <2>3. cstack[m] \in CFrame /\ cstack[m].top \in Nat /\ m \in 1..n
    <3>1. m \in 1..n
      BY <1>1
    <3>2. cstack[m] \in CFrame
      BY <3>1, <1>1
    <3> QED
      BY <3>1, <3>2, FrameType
  <2>4. \A i \in m + 1..n : cstack[m].thr = curr => cstack[m].top <= cstack[i].top
    <3>1. \A i \in m + 1..n : m < i
      BY <1>1
    <3> QED
      BY <3>1, <2>3, <1>2 DEF Frames, StackOK, PairOK
  <2>5. CASE Lost(t, k)
    <3>1. t = curr /\ k \in 1..Len(s)
      BY <2>1, <2>5 DEF Lost
    <3>2. \A l \in k..Len(r) : r[l].cats = <<>>
      <4>1. \A l \in k..Len(s) : l \in 1..Len(s) /\ s[l].cats = <<>>
        BY <2>1, <2>5, <3>1, <1>4 DEF Lost
      <4> QED
        BY <4>1, <1>4
    <3>3. cstack[m].thr = curr => k > cstack[m].top
      <4>1. Frame = cstack[n] /\ n \in m + 1..n
        BY <1>1, FrameIs
      <4>2. k > Frame.top
        BY <2>5, <3>1, <4>1, <1>2 DEF Lost
      <4>3. cstack[m].thr = curr => cstack[m].top <= Frame.top
        BY <4>1, <2>4
      <4>4. Frame.top \in Nat /\ k \in Nat /\ cstack[m].top \in Nat
        BY <2>1, <2>3, <1>2a
      <4> QED
        BY <4>2, <4>3, <4>4
    <3> QED
      BY <3>1, <3>2, <3>3, <1>6 DEF Lost
  <2>6. CASE HasFrame(t, k)
    <3>1. PICK i \in 1..n : cstack[i].thr = t /\ cstack[i].top = k - 1 /\ cstack[i].kind \in CallKinds
      BY <2>6 DEF HasFrame
    <3>2. CASE i \in 1..m
      BY <3>1, <3>2, <1>3 DEF HasFrame
    <3>3. CASE i \in m + 1..n
      <4>1. t = curr /\ k \in 1..Len(s)
        BY <3>1, <3>3, <1>2, <2>1
      <4>2. ASSUME NEW l \in k..Len(s), l # Len(s)
            PROVE  s[l].cats = <<>>
        <5> DEFINE j == i + (l - k)
        <5>0. /\ i \in Nat /\ k \in Nat /\ l \in Nat /\ n \in Nat /\ l >= k /\ l < Len(s)
              /\ i >= m + 1 /\ i <= n /\ Frame.top \in Nat /\ Len(s) = Frame.top + 1
          <6>1. k \in Nat /\ n \in Nat /\ Frame.top \in Nat /\ Len(s) = Frame.top + 1
            BY <1>1, <1>2a, <2>1
          <6>2. i \in Nat /\ i >= m + 1 /\ i <= n
            BY <3>3, <1>1
          <6>3. l \in Nat /\ l >= k /\ l < Len(s)
            BY <4>2, <6>1
          <6> QED
            BY <6>1, <6>2, <6>3
        <5>a. Frame.top = (k - 1) + (n - i)
          BY <3>1, <3>3, <1>2a
        <5>b. j = i + (l - k) /\ l < Frame.top + 1
          BY <5>0
        <5> HIDE DEF j, n
        <5>1. j \in m + 1..n /\ j # n /\ \A x \in Nat : Frame.top = x + (n - j) => x + 1 = l
          BY <5>0, <5>a, <5>b, JumpSum
        <5> USE DEF n
        <5>2. cstack[j].kind = "native" /\ cstack[j].thr = curr /\ Frame.top = cstack[j].top + (n - j)
              /\ cstack[j].top \in Nat
          BY <5>1, <1>2, <1>2a DEF Jumped
        <5>3. cstack[j].top + 1 = l
          BY <5>1, <5>2
        <5>4. MatchF(cstack[j], s)
          BY <5>1, <5>2, <1>2 DEF Match
        <5>5. s[l].fn = "native"
          BY <5>2, <5>3, <5>4 DEF MatchF, CallKinds
        <5>6. l \in 1..Len(s)
          BY <4>1, <4>2, <1>4
        <5> QED
          BY <5>5, <5>6, <1>1 DEF Acts, ActsOK, ActOK
      <4>3. \A l \in k..Len(r) : r[l].cats = <<>>
        <5>1. \A l \in k..Len(s) : l \in 1..Len(s)
          BY <4>1, <1>4
        <5> QED
          BY <5>1, <4>2, <1>4
      <4>4. cstack[m].thr = curr => k > cstack[m].top
        BY <3>1, <3>3, <2>1, <2>3, <2>4, SMTT(30)
      <4> QED
        BY <4>1, <4>3, <4>4, <1>6 DEF Lost
    <3> QED
      BY <3>2, <3>3, <1>1
  <2> QED
    BY <2>2, <2>5, <2>6
<1>13. Acts'
  <2>1. ActsOK(r)
    <3>1. BreaksOK(<<>>) /\ <<>> \in Seq(Catcher)
      BY DEF BreaksOK
    <3> QED
      BY <3>1, <1>1, <1>4, CatsActs DEF Acts, CatsGone
  <2> QED
    BY <2>1 DEF Acts, OnlyCurr
<1>14. Shape'
  <2>1. ASSUME NEW t \in Thread
        PROVE  ShapeOf(t)'
    <3>1. CASE t # curr
      BY <3>1 DEF Shape, ShapeOf, OnlyCurr
    <3>2. CASE t = curr
      BY <3>2, ThreadAssumption DEF ShapeOf, States
    <3> QED
      BY <3>1, <3>2
  <2> QED
    BY <2>1 DEF Shape
<1>15. Pending'
  BY DEF Pending
<1>16. PreventExact'
  <2>1. ASSUME NEW t \in Thread
        PROVE  PreventSet(callstack'[t]) = PreventSet(callstack[t]) /\ SafeSet(cstack', t) = SafeSet(cstack, t)
    <3>1. SafeSet(cstack', t) = SafeSet(cstack, t)
      BY <1>1, <1>2, FrameCut
    <3>2. PreventSet(r) = PreventSet(s)
      <4>1. r \in Seq(Activation)
        BY <1>1
      <4> HIDE DEF s, r
      <4>2. \A k \in 1..Len(s) : r[k].prevent = s[k].prevent
        BY <1>4 DEF SameAct
      <4> QED
        BY <4>1, <4>2, <1>4, ActSame
    <3> QED
      BY <3>1, <3>2 DEF OnlyCurr
  <2>2. \A t \in Thread : preventcount'[t] =
          Cardinality(PreventSet(callstack'[t])) + Cardinality(SafeSet(cstack', t))
    BY <2>1, PreventIs
  <2> QED
    BY <2>2 DEF PreventExact, PreventSet, SafeSet
<1>17. PfExact'
  <2>1. FinSet(cstack') = FinSet(cstack)
    BY <1>1, <1>2, FrameCut
  <2>2. pf' = Cardinality(FinSet(cstack')) + 1 /\ ~Running'
    BY <2>1 DEF Running
  <2> QED
    BY <2>2 DEF PfExact, FinSet
<1>18. Chained'
  <2>1. FramesAre(m)
    BY <1>3 DEF FramesAre, Same
  <2>2. curr' = cstack[m + 1].ecurr /\ \A i \in m + 1..Len(cstack) : Ctx(i) = cstack[i].thr
    BY <1>1, <1>2
  <2>3. ChainOK(h, d)'
    BY <2>1, <2>2, <1>1, <1>h, ChainCut
  <2> QED
    BY <2>3 DEF Chained
<1> QED
  BY <1>5, <1>7, <1>8, <1>10, <1>11, <1>12, <1>13, <1>14, <1>15, <1>16, <1>17, <1>18

\* A native function throws.
LEMMA ThrowNative ==
  ASSUME ThreadInv, lj.type = "none", In({"native"}), Longjmp(Thrown), UNCHANGED <<threads, armed>>
  PROVE  ThreadInv'
<1> DEFINE n == Len(cstack)
           s == callstack[curr]
<1> USE DEF ThreadInv, Base
<1>h. PICK h \in [Thread -> Nat], d \in [Thread -> Nat] : ChainOK(h, d)
  BY DEF Chained
<1>1. /\ cstack # <<>> /\ Frame.kind = "native" /\ n \in 1..n /\ n \in Nat /\ Frame = cstack[n]
      /\ Ctx(n) = curr /\ cstack \in Seq(CFrame) /\ curr \in Thread /\ Depth(n) = Len(s)
  <2>1. cstack # <<>> /\ Frame.kind = "native"
    BY DEF In
  <2>2. curr \in Thread
    BY <2>1 DEF Frames, TypeOK
  <2> QED
    BY <2>1, <2>2, FrameIs DEF TypeOK
<1>2. PICK m : CaughtAt(cstack, m)
  BY <1>1, CaughtIs
<1>3. m \in Nat /\ m < n
  <2>1. m \in 0..n /\ m # n
    BY <1>1, <1>2 DEF CaughtAt
  <2> QED
    BY <2>1, <1>1
<1>4. Jumped(m)
  BY <1>1, <1>2, <1>3 DEF Jumped, CaughtAt, CallKinds
<1>5. Frame.thr = curr
  BY <1>1, <1>h DEF ChainOK
<1>6. AtEntry
  <2>1. Level(Frame, s, Len(s))
    BY <1>1 DEF Levels
  <2> QED
    BY <2>1, <1>1, <1>5 DEF AtEntry, Level
<1>7. cstack[m].kind # "native"
  BY <1>2, <1>3, <1>4, <1>5, JumpedFrames DEF CaughtAt
<1>8. Prefix(cstack, cstack', m)
  <2>1. cstack' = SubSeq(cstack, 1, m) /\ m \in 0..n
    BY <1>2 DEF Longjmp, CaughtAt
  <2> QED
    BY <2>1, <1>1, CutIs DEF Prefix
<1>9. callstack' = callstack /\ OnlyCurr
  BY DEF threads, OnlyCurr
<1>10. CatsGone(s, s)
  <2>1. s \in Seq(Activation) /\ Frame.top \in Nat /\ Len(s) = Frame.top + 1
    BY <1>1, <1>6, FrameIs, FrameType DEF AtEntry, TypeOK
  <2>2. Len(s) \in 1..Len(s) /\ s[Len(s)] \in Activation
    BY <2>1
  <2>3. MatchF(Frame, s)
    BY <1>1, <1>5 DEF Match
  <2>4. s[Len(s)].fn = "native"
    BY <2>1, <2>3, <1>1 DEF MatchF, CallKinds
  <2>5. s[Len(s)].cats = <<>>
    BY <2>2, <2>4, <1>1 DEF Acts, ActsOK, ActOK
  <2> DEFINE a == s[Len(s)]
  <2>6. [a EXCEPT !.cats = <<>>] = a
    <3> HIDE DEF a
    <3>1. a \in Activation /\ a.cats = <<>>
      BY <2>2, <2>5 DEF a
    <3> QED
      BY <3>1 DEF Activation
  <2> QED
    BY <2>1, <2>6 DEF CatsGone, CatsSet
<1>11. pf' = Cardinality(FinSet(cstack)) + 1 /\ lj' \in Lj /\ lj'.type = "throw"
  BY PfIs, LjTypes DEF Longjmp, Running
<1>12. callstack' \in [Thread -> Seq(Activation)] /\ CatsGone(callstack[curr], callstack'[curr])
  BY <1>9, <1>10 DEF TypeOK
<1> QED
  BY <1>3, <1>4, <1>6, <1>7, <1>8, <1>9, <1>11, <1>12, CutStep DEF threads

LEMMA ThrowStep ==
  ASSUME ThreadInv, InBytecode \/ InC, Longjmp(Thrown), UNCHANGED <<threads, armed>>
  PROVE  ThreadInv'
<1>1. lj.type = "none"
  BY DEF InBytecode, InC, Running
<1>2. CASE In({"native"})
  BY <1>1, <1>2, ThrowNative
<1>3. CASE In({"exec", "safe", "fin"}) /\ ~Frame.delayed
  BY <1>1, <1>3, RaiseHere, LjTypes
<1>4. In({"native"}) \/ (In({"exec", "safe", "fin"}) /\ ~Frame.delayed)
  BY NotDelayed DEF InBytecode, InC, In
<1> QED
  BY <1>2, <1>3, <1>4

\* An error leaves an executor.
LEMMA LeaveExecutor ==
  ASSUME ThreadInv, HandleUnwind, AtEntry
  PROVE  ThreadInv'
<1> DEFINE n == Len(cstack)
           cs == Front(cstack)
<1> USE DEF ThreadInv, Base
<1>1. /\ cstack # <<>> /\ Frame.kind = "exec" /\ n \in 1..n /\ n \in Nat /\ Frame = cstack[n]
      /\ cstack \in Seq(CFrame) /\ curr \in Thread /\ lj.type = "throw" /\ callstack[curr] # <<>>
  <2>1. In({"exec"}) /\ lj.type = "throw" /\ callstack[curr] # <<>>
    BY DEF HandleUnwind, Handling
  <2> QED
    BY <2>1, HandlingFacts DEF TypeOK
<1>2. cs \in Seq(CFrame) /\ Len(cs) = n - 1 /\ \A i \in 1..n - 1 : cs[i] = cstack[i]
  BY <1>1, FramePop, ThreadAssumption
<1>3. PICK m : CaughtAt(cs, m)
  BY <1>2, CaughtIs
<1>4. m \in Nat /\ m <= n - 1 /\ m < n /\ m \in 0..n /\ m \in 0..n - 1
  <2>1. m \in 0..n - 1
    BY <1>2, <1>3 DEF CaughtAt
  <2> QED
    BY <2>1, <1>1
<1>5. Jumped(m)
  <2>1. \A i \in m + 1..n : i # n => i \in m + 1..n - 1 /\ i \in 1..n - 1
    BY <1>1, <1>4
  <2>2. \A i \in m + 1..n : i # n => cstack[i].kind = "native"
    BY <2>1, <1>2, <1>3 DEF CaughtAt
  <2> QED
    BY <2>2, <1>1, <1>4 DEF Jumped, CallKinds
<1>6. Frame.thr = curr
  BY DEF AtEntry
<1>7. cstack[m].kind # "native"
  <2>1. m \in 1..n - 1
    BY <1>1, <1>4, <1>5, <1>6, JumpedFrames
  <2> QED
    BY <2>1, <1>2, <1>3 DEF CaughtAt
<1>8. Prefix(cstack, cstack', m)
  <2>1. cstack' = SubSeq(cs, 1, m)
    BY <1>3 DEF HandleUnwind, Outer, CaughtAt
  <2>2. m \in 0..Len(cs)
    BY <1>2, <1>4
  <2>3. SubSeq(cs, 1, m) \in Seq(CFrame) /\ Len(SubSeq(cs, 1, m)) = m /\ \A i \in 1..m : SubSeq(cs, 1, m)[i] = cs[i]
    BY <2>2, <1>2, CutIs
  <2>4. \A i \in 1..m : i \in 1..n - 1
    BY <1>1, <1>4
  <2> DEFINE ds == SubSeq(cs, 1, m)
  <2>5. cstack' = ds /\ ds \in Seq(CFrame) /\ Len(ds) = m /\ \A i \in 1..m : ds[i] = cstack[i]
    BY <2>1, <2>3, <2>4, <1>2
  <2> HIDE DEF ds
  <2> QED
    BY <2>5, <1>4 DEF Prefix
<1>9. /\ callstack' \in [Thread -> Seq(Activation)] /\ OnlyCurr
      /\ CatsGone(callstack[curr], callstack'[curr])
  <2>1. callstack' = WithCats(curr, <<>>) /\ <<>> \in Seq(Catcher)
    BY DEF HandleUnwind
  <2> QED
    BY <2>1, <1>1, WithCatsIs DEF CatsGone, OnlyCurr
<1>10. pf' = Cardinality(FinSet(cstack)) + 1 /\ lj' \in Lj /\ lj'.type = "throw"
  <2>1. pf' = pf /\ lj' = lj /\ ~Running
    BY <1>1 DEF HandleUnwind, Running
  <2> QED
    BY <2>1, <1>1, PfIs DEF TypeOK, Lj
<1>11. tstate' = tstate /\ resumer' = resumer /\ preventcount' = preventcount /\ curr' = curr /\ armed' = armed
  BY DEF HandleUnwind
<1> QED
  BY <1>1, <1>4, <1>5, <1>7, <1>8, <1>9, <1>10, <1>11, CutStep

-----------------------------------------------------------------------------
(* Unwinding activations.                                                  *)

\* r is the first m activations of s.
ActPrefix(s, r, m) == r \in Seq(Activation) /\ Len(r) = m /\ \A k \in 1..m : r[k] = s[k]

LEMMA UnwoundIs ==
  ASSUME TypeOK, PreventExact, NEW t \in Thread, NEW m \in 0..Len(callstack[t])
  PROVE  /\ ActPrefix(callstack[t], SubSeq(callstack[t], 1, m), m)
         /\ PreventUnwound(t, m) = Cardinality(PreventSet(SubSeq(callstack[t], 1, m))) + Cardinality(SafeSet(cstack, t))
         /\ PreventUnwound(t, m) \in Nat
<1> DEFINE s == callstack[t]
           r == SubSeq(s, 1, m)
           B == {k \in m + 1..Len(s) : s[k].prevent}
<1>1. s \in Seq(Activation)
  BY DEF TypeOK
<1>2. /\ Cardinality(PreventSet(s)) - Cardinality(B) = Cardinality(PreventSet(r))
      /\ r \in Seq(Activation) /\ Cardinality(B) \in Nat
  <2> HIDE DEF s
  <2> QED
    BY <1>1, ActCut DEF s
<1>3. Len(r) = m /\ \A k \in 1..m : r[k] = s[k]
  <2> HIDE DEF s
  <2> QED
    BY <1>1, CutIs DEF s
<1>5. PreventUnwound(t, m) = preventcount[t] - Cardinality(B)
  BY DEF PreventUnwound
<1>6. preventcount[t] = Cardinality(PreventSet(s)) + Cardinality(SafeSet(cstack, t))
  BY PreventIs
<1>7. /\ Cardinality(PreventSet(s)) \in Nat /\ Cardinality(SafeSet(cstack, t)) \in Nat
      /\ Cardinality(PreventSet(r)) \in Nat
  BY <1>1, <1>2, CountsNat DEF TypeOK
<1> HIDE DEF r, B
<1> DEFINE x == preventcount[t] - Cardinality(B)
<1>10. x = Cardinality(PreventSet(r)) + Cardinality(SafeSet(cstack, t)) /\ x \in Nat
  <2> DEFINE p == Cardinality(PreventSet(s))
             q == Cardinality(SafeSet(cstack, t))
             v == Cardinality(PreventSet(r))
             b == Cardinality(B)
  <2>1. p - b = v /\ b \in Nat /\ p \in Nat /\ q \in Nat /\ v \in Nat /\ x = (p + q) - b
    BY <1>2, <1>6, <1>7
  <2> HIDE DEF p, q, v, b, x
  <2>2. x = v + q /\ x \in Nat
    BY <2>1
  <2> QED
    BY <2>2 DEF v, q
<1> HIDE DEF x
<1>11. PreventUnwound(t, m) = x
  BY <1>5 DEF x
<1>12. ActPrefix(s, r, m)
  BY <1>2, <1>3 DEF ActPrefix
<1> QED
  BY <1>10, <1>11, <1>12 DEF r

LEMMA UnwindIs ==
  ASSUME TypeOK, PreventExact, NEW t \in Thread, NEW m \in 0..Len(callstack[t]), UnwindTo(t, m)
  PROVE  /\ callstack' \in [Thread -> Seq(Activation)]
         /\ \A u \in Thread : u # t => callstack'[u] = callstack[u] /\ preventcount'[u] = preventcount[u]
         /\ ActPrefix(callstack[t], callstack'[t], m)
         /\ preventcount' \in [Thread -> Nat]
         /\ preventcount'[t] = Cardinality(PreventSet(callstack'[t])) + Cardinality(SafeSet(cstack, t))
<1> DEFINE r == SubSeq(callstack[t], 1, m)
           x == PreventUnwound(t, m)
<1>1. callstack' = [callstack EXCEPT ![t] = r] /\ preventcount' = [preventcount EXCEPT ![t] = x]
  BY DEF UnwindTo, Unwound
<1>2. /\ ActPrefix(callstack[t], r, m) /\ x \in Nat
      /\ x = Cardinality(PreventSet(r)) + Cardinality(SafeSet(cstack, t))
  BY UnwoundIs
<1> HIDE DEF r, x
<1>3. r \in Seq(Activation)
  BY <1>2 DEF ActPrefix
<1>4. callstack' \in [Thread -> Seq(Activation)] /\ callstack'[t] = r /\ preventcount'[t] = x
  BY <1>1, <1>3 DEF TypeOK
<1>5. preventcount' \in [Thread -> Nat]
  BY <1>1, <1>2 DEF TypeOK
<1>6. \A u \in Thread : u # t => callstack'[u] = callstack[u] /\ preventcount'[u] = preventcount[u]
  BY <1>1 DEF TypeOK
<1> QED
  BY <1>2, <1>4, <1>5, <1>6

\* What a prefix of a callstack keeps.
LEMMA PrefixActs ==
  ASSUME NEW s \in Seq(Activation), NEW r, NEW m \in 0..Len(s), ActPrefix(s, r, m), ActsOK(s)
  PROVE  ActsOK(r)
<1>1. Len(s) \in Nat /\ Len(r) = m /\ \A k \in 1..m : k \in 1..Len(s) /\ r[k] = s[k]
  BY DEF ActPrefix
<1>2. ASSUME NEW k \in 1..m
      PROVE  ActOK(r, k)
  <2>1. ActOK(s, k) /\ r[k] = s[k] /\ (k > 1 => k - 1 \in 1..m)
    BY <1>1, <1>2 DEF ActsOK
  <2> QED
    BY <2>1, <1>1 DEF ActOK
<1> QED
  BY <1>1, <1>2 DEF ActsOK

\* The innermost activation of an executor, when it is not the one the executor was
\* entered for, was called by an ECMAScript activation.
LEMMA NotEntered ==
  ASSUME ThreadInv, In({"exec"}), lj.type \in {"none", "return"}, ~AtEntry
  PROVE  /\ ~Top(curr).prevent
         /\ Len(callstack[curr]) >= 2 => callstack[curr][Len(callstack[curr]) - 1].fn = "ecma"
<1> DEFINE n == Len(cstack)
           s == callstack[curr]
           k == Len(s)
<1> USE DEF ThreadInv, Base
<1>h. PICK h \in [Thread -> Nat], d \in [Thread -> Nat] : ChainOK(h, d)
  BY DEF Chained
<1>1. /\ curr \in Thread /\ s \in Seq(Activation) /\ Top(curr) = s[k] /\ s[k].fn = "ecma"
      /\ k \in Nat \ {0} /\ k \in 1..k
  BY ExecFacts
<1>2. /\ Frame.kind = "exec" /\ Frame \in CFrame /\ Frame = cstack[n] /\ n \in Nat /\ Frame.top \in Nat
  BY HandlingFacts, FrameType
<1>3. ~s[k].prevent
  <2> SUFFICES ASSUME s[k].prevent
               PROVE  FALSE
    OBVIOUS
  <2>1. HasFrame(curr, k)
    BY <1>1 DEF Owned, Lost
  <2>2. PICK i \in 1..n : cstack[i].thr = curr /\ cstack[i].top = k - 1 /\ cstack[i].kind \in CallKinds
    BY <2>1 DEF HasFrame
  <2>3. /\ Frame.thr = curr
        /\ i # n => cstack[i].top + Bonus(cstack[i]) <= Frame.top
        /\ Frame.top + Bonus(Frame) <= k
    BY <2>2, <1>1, <1>h, Exposed
  <2>4. Bonus(cstack[i]) = 1 /\ Bonus(Frame) = 1
    BY <2>2, <1>2 DEF Bonus, CallKinds
  <2>5. i # n
    <3>1. i = n => k = Frame.top + 1
      BY <2>2, <1>1, <1>2
    <3> QED
      BY <3>1, <2>3 DEF AtEntry
  <2> QED
    BY <2>2, <2>3, <2>4, <2>5, <1>1, <1>2
<1>4. k >= 2 => s[k - 1].fn = "ecma"
  <2>1. ActOK(s, k)
    BY <1>1 DEF Acts, ActsOK
  <2>2. k >= 2 => k > 1
    BY <1>1
  <2> QED
    BY <2>1, <2>2, <1>3 DEF ActOK
<1> QED
  BY <1>1, <1>3, <1>4

\* The activations of frames are below the one unwound.
LEMMA BelowTop ==
  ASSUME ThreadInv, In({"exec"}), ~AtEntry, curr \in Thread, callstack[curr] # <<>>,
         NEW i \in 1..Len(cstack), cstack[i].thr = curr
  PROVE  cstack[i].top + Bonus(cstack[i]) <= Len(callstack[curr]) - 1
<1> DEFINE n == Len(cstack)
           k == Len(callstack[curr])
<1> USE DEF ThreadInv, Base
<1>h. PICK h \in [Thread -> Nat], d \in [Thread -> Nat] : ChainOK(h, d)
  BY DEF Chained
<1>1. k \in Nat
  BY DEF TypeOK
<1>2. Frame.kind = "exec" /\ Frame \in CFrame /\ Frame = cstack[n] /\ Frame.top \in Nat
  BY HandlingFacts, FrameType
<1>3. cstack[i] \in CFrame /\ cstack[i].top + Bonus(cstack[i]) \in Nat
  <2>1. cstack[i] \in CFrame
    BY DEF TypeOK
  <2> QED
    BY <2>1, FrameType
<1>4. /\ Frame.thr = curr
      /\ i # n => cstack[i].top + Bonus(cstack[i]) <= Frame.top
      /\ Frame.top + Bonus(Frame) <= k
  BY <1>h, Exposed
<1>5. Bonus(Frame) = 1
  BY <1>2 DEF Bonus, CallKinds
<1>6. k # Frame.top + 1
  BY <1>4 DEF AtEntry
<1>7. Frame.top + 1 <= k - 1
  BY <1>1, <1>2, <1>4, <1>5, <1>6
<1>8. CASE i = n
  BY <1>2, <1>5, <1>7, <1>8
<1>9. CASE i # n
  BY <1>1, <1>2, <1>3, <1>4, <1>7, <1>9
<1> QED
  BY <1>8, <1>9

-----------------------------------------------------------------------------
(* Steps that change the callstack of the current thread only.             *)

\* Its new callstack r is a callstack and has what the C frames need.
Callstack(r) ==
  /\ r \in Seq(Activation) /\ Len(r) <= MaxCall /\ ActsOK(r)
  /\ \A k \in 1..Len(r) : Len(r[k].cats) <= MaxStmt
Carries(s, r) ==
  \A i \in 1..Len(cstack) : cstack[i].thr = curr => KeepActs(s, r, cstack[i].top + Bonus(cstack[i]))
OwnedNow(r) ==
  \A k \in 1..Len(r) : r[k].prevent /\ r[k].fn \in {"ecma", "native"} =>
                         HasFrame(curr, k) \/ Lost(curr, k)'
\* The counters and the longjmp after the step.
Counted ==
  /\ preventcount' \in [Thread -> Nat]
  /\ \A t \in Thread : t # curr => preventcount'[t] = preventcount[t]
  /\ preventcount'[curr] = Cardinality(PreventSet(callstack'[curr])) + Cardinality(SafeSet(cstack, curr))
LjNext ==
  /\ lj' \in Lj /\ armed' \in BOOLEAN
  /\ pf' = Cardinality(FinSet(cstack)) + (IF lj'.type = "none" THEN 0 ELSE 1)
  /\ lj'.type # "none" => Frame.kind # "native" /\ ~Frame.delayed

LEMMA StayStep ==
  ASSUME ThreadInv, cstack # <<>>, cstack' = cstack, tstate' = tstate, resumer' = resumer, curr' = curr,
         callstack' \in [Thread -> Seq(Activation)], OnlyCurr, Callstack(callstack'[curr]),
         Carries(callstack[curr], callstack'[curr]), OwnedNow(callstack'[curr]), Counted, LjNext,
         resumer[curr] # NONE /\ callstack'[curr] = <<>> => lj'.type = "throw",
         lj'.type \in {"none", "return"} => Level(Frame, callstack'[curr], Len(callstack'[curr])),
         Pending'
  PROVE  ThreadInv'
<1> DEFINE n == Len(cstack)
           s == callstack[curr]
           r == callstack'[curr]
<1> USE DEF ThreadInv, Base
<1>h. PICK h \in [Thread -> Nat], d \in [Thread -> Nat] : ChainOK(h, d)
  BY DEF Chained
<1>1. Frame = cstack[n] /\ n \in 1..n /\ n \in Nat /\ SameStack
  BY FrameIs, StackStays
<1>2. curr \in Thread
  BY DEF Frames, TypeOK
<1>4. TypeOK'
  <2>1. ASSUME NEW t \in Thread
        PROVE  Len(callstack'[t]) <= MaxCall /\ \A k \in DOMAIN callstack'[t] : Len(callstack'[t][k].cats) <= MaxStmt
    <3>1. CASE t # curr
      BY <3>1 DEF OnlyCurr, TypeOK
    <3>2. CASE t = curr
      <4>1. DOMAIN r = 1..Len(r)
        BY DEF Callstack
      <4> QED
        BY <3>2, <4>1 DEF Callstack
    <3> QED
      BY <3>1, <3>2
  <2>2. pf' \in Nat
    <3>1. Cardinality(FinSet(cstack)) \in Nat
      BY CountsNat DEF TypeOK
    <3> QED
      BY <3>1 DEF LjNext
  <2> QED
    BY <2>1, <2>2 DEF TypeOK, Counted, LjNext, Lj
<1>5. Frames'
  <2>1. ~Running' => Frame'.kind # "native" /\ ~Frame'.delayed
    BY DEF LjNext, Running, Frame
  <2> QED
    BY <2>1, <1>1, FramesSame
<1>6. States'
  BY <1>1, <1>2, StatesSame DEF OnlyCurr
<1>7. Keep(n)
  <2>1. \A i \in 1..n : Same(cstack[i], cstack'[i])
    BY DEF Same
  <2>2. n <= Len(cstack)
    BY <1>1
  <2> QED
    BY <2>1, <2>2, <1>1, KeepCurr DEF Carries
<1>a. n <= Len(cstack) /\ n <= Len(cstack') /\ Len(cstack') \in Nat /\ \A i \in 1..n : i \in Nat
  BY <1>1
<1>8. Match'
  <2>1. \A i \in 1..n : MatchF(cstack'[i], callstack'[cstack'[i].thr])
    BY <1>1, <1>7, <1>a, KeepMatch, Zenon
  <2> QED
    BY <2>1 DEF Match
<1>9. Levels'
  <2>1. ASSUME NEW i \in 1..n, i # n
        PROVE  Level(cstack'[i], callstack'[Ctx(i)'], Depth(i)')
    BY <2>1, <1>1, <1>7, <1>a, KeepLevels, Zenon DEF Frames
  <2>2. Ctx(n)' = curr /\ Depth(n)' = Len(r)
    BY <1>1 DEF Ctx, Depth
  <2>3. lj'.type \in {"none", "return"} => Level(cstack[n], callstack'[Ctx(n)'], Depth(n)')
    BY <2>2, <1>1
  <2>4. \A i \in 1..n : i < n => i # n
    BY <1>1
  <2> QED
    BY <2>1, <2>3, <2>4 DEF Levels
<1>10. Owned'
  <2>1. ASSUME NEW t \in Thread, NEW k \in 1..Len(callstack'[t]),
               callstack'[t][k].prevent, callstack'[t][k].fn \in {"ecma", "native"}
        PROVE  HasFrame(t, k)' \/ Lost(t, k)'
    <3>1. HasFrame(t, k) => HasFrame(t, k)'
      BY DEF HasFrame
    <3>2. CASE t = curr
      BY <2>1, <3>1, <3>2 DEF OwnedNow
    <3>3. CASE t # curr
      <4>1. callstack'[t] = callstack[t]
        BY <3>3 DEF OnlyCurr
      <4>2. HasFrame(t, k) \/ Lost(t, k)
        BY <2>1, <4>1 DEF Owned
      <4> QED
        BY <4>2, <3>1, <3>3 DEF Lost
    <3> QED
      BY <3>2, <3>3
  <2> QED
    BY <2>1 DEF Owned
<1>11. Acts'
  BY DEF Acts, OnlyCurr, Callstack
<1>12. Shape'
  <2>1. ASSUME NEW t \in Thread
        PROVE  ShapeOf(t)'
    <3>1. CASE t # curr
      BY <3>1 DEF Shape, ShapeOf, OnlyCurr, Counted
    <3>2. CASE t = curr
      BY <3>2, ThreadAssumption DEF ShapeOf, States
    <3> QED
      BY <3>1, <3>2
  <2> QED
    BY <2>1 DEF Shape
<1>14. PreventExact'
  <2>1. \A t \in Thread : preventcount[t] =
          Cardinality(PreventSet(callstack[t])) + Cardinality(SafeSet(cstack, t))
    BY PreventIs
  <2>2. \A t \in Thread : preventcount'[t] =
          Cardinality(PreventSet(callstack'[t])) + Cardinality(SafeSet(cstack', t))
    BY <2>1 DEF OnlyCurr, Counted
  <2> QED
    BY <2>2 DEF PreventExact, PreventSet, SafeSet
<1>15. PfExact'
  <2>1. pf' = Cardinality(FinSet(cstack')) + (IF Running' THEN 0 ELSE 1)
    BY DEF LjNext, Running
  <2> QED
    BY <2>1 DEF PfExact, FinSet
<1>16. Chained'
  <2>1. FramesAre(n)
    BY DEF FramesAre, Same
  <2>2. ChainOK(h, d)'
    BY <2>1, <1>h, ChainSame
  <2> QED
    BY <2>2 DEF Chained
<1> QED
  BY <1>4, <1>5, <1>6, <1>8, <1>9, <1>10, <1>11, <1>12, <1>14, <1>15, <1>16

LEMMA PopIs ==
  ASSUME ThreadInv, In({"exec"}), curr \in Thread, callstack[curr] # <<>>, ~AtEntry,
         UnwindTo(curr, Len(callstack[curr]) - 1)
  PROVE  /\ callstack' \in [Thread -> Seq(Activation)] /\ OnlyCurr /\ Counted
         /\ Callstack(callstack'[curr]) /\ Carries(callstack[curr], callstack'[curr])
         /\ ActPrefix(callstack[curr], callstack'[curr], Len(callstack[curr]) - 1)
         /\ Len(callstack[curr]) \in Nat \ {0}
<1> DEFINE s == callstack[curr]
           r == callstack'[curr]
           m == Len(s) - 1
<1> USE DEF ThreadInv, Base
<1>1. s \in Seq(Activation) /\ Len(s) \in Nat \ {0} /\ m \in 0..Len(s) /\ m \in Nat
  <2>1. s \in Seq(Activation) /\ Len(s) \in Nat \ {0}
    BY DEF TypeOK
  <2> QED
    BY <2>1
<1>2. /\ callstack' \in [Thread -> Seq(Activation)] /\ ActPrefix(s, r, m)
      /\ \A u \in Thread : u # curr => callstack'[u] = callstack[u] /\ preventcount'[u] = preventcount[u]
      /\ preventcount' \in [Thread -> Nat]
      /\ preventcount'[curr] = Cardinality(PreventSet(r)) + Cardinality(SafeSet(cstack, curr))
  BY <1>1, UnwindIs
<1>3. OnlyCurr /\ Counted
  BY <1>2 DEF OnlyCurr, Counted
<1> HIDE DEF r
<1>4. Callstack(r)
  <2>1. r \in Seq(Activation) /\ Len(r) = m /\ \A k \in 1..m : r[k] = s[k]
    BY <1>2 DEF ActPrefix
  <2>2. Len(s) <= MaxCall /\ \A k \in 1..Len(s) : Len(s[k].cats) <= MaxStmt
    BY <1>1 DEF TypeOK
  <2>3. m <= MaxCall /\ \A k \in 1..m : k \in 1..Len(s)
    BY <2>2, <1>1, ThreadAssumption
  <2>4. ActsOK(r)
    <3> HIDE DEF s, m
    <3>1. ActsOK(s)
      BY DEF Acts, s
    <3> QED
      BY <3>1, <1>1, <1>2, PrefixActs
  <2> QED
    BY <2>1, <2>2, <2>3, <2>4 DEF Callstack
<1>5. Carries(s, r)
  <2>1. ASSUME NEW i \in 1..Len(cstack), cstack[i].thr = curr
        PROVE  KeepActs(s, r, cstack[i].top + Bonus(cstack[i]))
    <3>1. cstack[i].top + Bonus(cstack[i]) <= m
      BY <2>1, BelowTop
    <3>2. cstack[i] \in CFrame
      BY DEF TypeOK
    <3>3. cstack[i].top + Bonus(cstack[i]) \in Nat
      BY <3>2, FrameType
    <3> DEFINE x == cstack[i].top + Bonus(cstack[i])
    <3>4. x \in Nat /\ x <= m /\ \A l \in 1..x : l \in 1..m
      BY <3>1, <3>3, <1>1
    <3> HIDE DEF x
    <3>5. KeepActs(s, r, x)
      BY <3>4, <1>2 DEF KeepActs, SameAct, ActPrefix
    <3> QED
      BY <3>5 DEF x
  <2> QED
    BY <2>1 DEF Carries
<1> QED
  BY <1>1, <1>2, <1>3, <1>4, <1>5 DEF r

\* A function returns to the ECMAScript function that called it.
LEMMA ReturnPop ==
  ASSUME ThreadInv, In({"exec"}), lj.type \in {"none", "return"}, Goes, ~AtEntry,
         Len(callstack[curr]) >= 2, UnwindTo(curr, Len(callstack[curr]) - 1),
         tstate' = tstate, resumer' = resumer, curr' = curr, cstack' = cstack
  PROVE  ThreadInv'
<1> DEFINE s == callstack[curr]
           r == callstack'[curr]
           m == Len(s) - 1
<1> USE DEF ThreadInv, Base
<1>1. curr \in Thread /\ s # <<>> /\ s \in Seq(Activation)
  BY ExecFacts
<1>2. /\ callstack' \in [Thread -> Seq(Activation)] /\ OnlyCurr /\ Counted
      /\ Callstack(r) /\ Carries(s, r) /\ ActPrefix(s, r, m) /\ Len(s) \in Nat \ {0}
  BY <1>1, PopIs
<1>3. m \in Nat /\ m >= 1 /\ m \in 1..m /\ m \in 1..Len(s) /\ \A k \in 1..m : k \in 1..Len(s)
  BY <1>2
<1>4. s[m].fn = "ecma"
  BY NotEntered
<1>5. OwnedNow(r)
  <2>1. ASSUME NEW k \in 1..Len(r), r[k].prevent, r[k].fn \in {"ecma", "native"}
        PROVE  HasFrame(curr, k)
    <3>1. k \in 1..Len(s) /\ r[k] = s[k]
      BY <1>2, <1>3 DEF ActPrefix
    <3> QED
      BY <2>1, <3>1, <1>1 DEF Owned, Lost
  <2> QED
    BY <2>1 DEF OwnedNow
<1>6. LjNext
  <2>1. Cardinality(FinSet(cstack)) \in Nat
    BY PfIs
  <2> QED
    BY <2>1 DEF Goes, LjNext
<1>7. r # <<>> /\ Len(r) = m /\ r[m].fn = "ecma"
  BY <1>2, <1>3, <1>4 DEF ActPrefix
<1>8. Level(Frame, r, Len(r))
  BY <1>3, <1>7 DEF Level, In, SafeKinds
<1>9. Pending' /\ cstack # <<>>
  BY DEF Pending, Goes, In
<1> QED
  BY <1>2, <1>5, <1>6, <1>7, <1>8, <1>9, StayStep

\* An error unwinds an activation.
LEMMA ErrorPop ==
  ASSUME ThreadInv, HandleUnwind, ~AtEntry
  PROVE  ThreadInv'
<1> DEFINE s == callstack[curr]
           r == callstack'[curr]
           m == Len(s) - 1
<1> USE DEF ThreadInv, Base
<1>0. /\ In({"exec"}) /\ lj.type = "throw" /\ s # <<>> /\ UnwindTo(curr, m)
      /\ tstate' = tstate /\ resumer' = resumer /\ curr' = curr /\ cstack' = cstack
      /\ lj' = lj /\ pf' = pf /\ armed' = armed
  BY DEF HandleUnwind, Handling
<1>1. curr \in Thread /\ cstack # <<>> /\ Frame.kind = "exec"
  BY <1>0, HandlingFacts
<1>2. /\ callstack' \in [Thread -> Seq(Activation)] /\ OnlyCurr /\ Counted
      /\ Callstack(r) /\ Carries(s, r) /\ ActPrefix(s, r, m) /\ Len(s) \in Nat \ {0}
  BY <1>0, <1>1, PopIs
<1>3. m \in Nat /\ \A k \in 1..m : k \in 1..Len(s)
  BY <1>2
<1>5. OwnedNow(r)
  <2>1. ASSUME NEW k \in 1..Len(r), r[k].prevent, r[k].fn \in {"ecma", "native"}
        PROVE  HasFrame(curr, k) \/ Lost(curr, k)'
    <3>1. k \in 1..Len(s) /\ r[k] = s[k]
      BY <1>2, <1>3 DEF ActPrefix
    <3>2. HasFrame(curr, k) \/ Lost(curr, k)
      BY <2>1, <3>1, <1>1 DEF Owned
    <3>3. ASSUME Lost(curr, k)
          PROVE  Lost(curr, k)'
      <4>1. Len(r) = m /\ \A l \in k..m : l \in k..Len(s) /\ l \in 1..m
        BY <1>2, <1>3, <3>1 DEF ActPrefix
      <4>2. \A l \in k..m : r[l].cats = <<>>
        BY <4>1, <3>3, <1>2 DEF Lost, ActPrefix
      <4>3. Frame' = Frame
        BY <1>0 DEF Frame
      <4> QED
        BY <4>1, <4>2, <4>3, <3>3, <1>0 DEF Lost
    <3> QED
      BY <3>2, <3>3
  <2> QED
    BY <2>1 DEF OwnedNow
<1>6. LjNext
  <2>1. pf' = Cardinality(FinSet(cstack)) + 1
    BY <1>0, PfIs DEF Running
  <2>2. ~Frame.delayed
    BY <1>0 DEF Frames, Running
  <2> QED
    BY <2>1, <2>2, <1>0, <1>1 DEF LjNext, TypeOK, Lj
<1>9. Pending'
  BY <1>0 DEF Pending
<1> QED
  BY <1>0, <1>1, <1>2, <1>5, <1>6, <1>9, StayStep

LEMMA HandleUnwindStep ==
  ASSUME ThreadInv, HandleUnwind
  PROVE  ThreadInv'
BY LeaveExecutor, ErrorPop

-----------------------------------------------------------------------------
(* New activations.                                                        *)

\* A new innermost activation a of the current thread.
LEMMA PushIs ==
  ASSUME ThreadInv, curr \in Thread, NEW a \in Activation, a.cats = <<>>, a.fn # "ecma" => a.prevent,
         ~a.prevent => callstack[curr] # <<>> /\ Top(curr).fn = "ecma",
         callstack' = [callstack EXCEPT ![curr] = Append(@, a)], Len(callstack[curr]) < MaxCall
  PROVE  /\ callstack' \in [Thread -> Seq(Activation)] /\ OnlyCurr
         /\ Callstack(callstack'[curr]) /\ Carries(callstack[curr], callstack'[curr])
         /\ Len(callstack[curr]) \in Nat /\ Len(callstack'[curr]) = Len(callstack[curr]) + 1
         /\ callstack'[curr][Len(callstack[curr]) + 1] = a
         /\ \A k \in 1..Len(callstack[curr]) : callstack'[curr][k] = callstack[curr][k]
         /\ Cardinality(PreventSet(callstack'[curr])) =
              Cardinality(PreventSet(callstack[curr])) + (IF a.prevent THEN 1 ELSE 0)
<1> DEFINE s == callstack[curr]
           r == Append(s, a)
           n == Len(s)
<1> USE DEF ThreadInv, Base
<1>1. s \in Seq(Activation) /\ n \in Nat
  BY DEF TypeOK
<1>2. r \in Seq(Activation) /\ Len(r) = n + 1 /\ r[n + 1] = a /\ \A k \in 1..n : r[k] = s[k]
  <2> HIDE DEF s
  <2> QED
    BY <1>1
<1>3. Cardinality(PreventSet(r)) = Cardinality(PreventSet(s)) + (IF a.prevent THEN 1 ELSE 0)
  BY <1>1, ActPush
<1>4. callstack' = [callstack EXCEPT ![curr] = r]
  OBVIOUS
<1> HIDE DEF r
<1>5. callstack'[curr] = r /\ OnlyCurr /\ callstack' \in [Thread -> Seq(Activation)]
  BY <1>2, <1>4 DEF TypeOK, OnlyCurr
<1>6. ActsOK(r)
  <2>1. ASSUME NEW k \in 1..n
        PROVE  ActOK(r, k)
    <3>1. ActOK(s, k) /\ r[k] = s[k] /\ (k > 1 => k - 1 \in 1..n)
      BY <1>1, <1>2 DEF Acts, ActsOK
    <3> QED
      BY <3>1, <1>2 DEF ActOK
  <2>2. ActOK(r, n + 1)
    <3>1. ~a.prevent => n \in 1..n /\ s[n].fn = "ecma" /\ r[n] = s[n]
      BY <1>1, <1>2 DEF Top, Last
    <3>2. (n + 1) - 1 = n
      BY <1>1
    <3> QED
      BY <3>1, <3>2, <1>2 DEF ActOK
  <2>3. \A k \in 1..n + 1 : k \in 1..n \/ k = n + 1
    BY <1>1
  <2> QED
    BY <2>1, <2>2, <2>3, <1>2 DEF ActsOK
<1>7. Callstack(r)
  <2>1. n + 1 <= MaxCall
    BY <1>1, ThreadAssumption
  <2>2. \A k \in 1..n : Len(s[k].cats) <= MaxStmt
    BY <1>1 DEF TypeOK
  <2>3. Len(a.cats) <= MaxStmt
    BY ThreadAssumption
  <2>4. \A k \in 1..n + 1 : k \in 1..n \/ k = n + 1
    BY <1>1
  <2> QED
    BY <2>1, <2>2, <2>3, <2>4, <1>2, <1>6 DEF Callstack
<1>8. Carries(s, r)
  <2>1. ASSUME NEW i \in 1..Len(cstack), cstack[i].thr = curr
        PROVE  KeepActs(s, r, cstack[i].top + Bonus(cstack[i]))
    <3>1. MatchF(cstack[i], s) /\ cstack[i] \in CFrame
      BY <2>1, SMTT(30) DEF Match, TypeOK
    <3> DEFINE x == cstack[i].top + Bonus(cstack[i])
    <3>2. x \in Nat /\ x <= n
      BY <3>1, FrameType DEF MatchF
    <3> HIDE DEF x
    <3>3. x <= n + 1 /\ \A l \in 1..x : l \in 1..n
      BY <3>2, <1>1
    <3>4. KeepActs(s, r, x)
      BY <3>3, <1>2 DEF KeepActs, SameAct
    <3> QED
      BY <3>4 DEF x
  <2> QED
    BY <2>1 DEF Carries
<1> QED
  BY <1>1, <1>2, <1>3, <1>5, <1>7, <1>8

LEMMA ActIs ==
  ASSUME NEW fn \in {"ecma", "native", "resume", "yield"}, NEW p \in BOOLEAN
  PROVE  Act(fn, p) \in Activation /\ Act(fn, p).fn = fn /\ Act(fn, p).prevent = p /\ Act(fn, p).cats = <<>>
BY DEF Act, Activation

\* Activations of the current thread that were there have their frames.
LEMMA OwnedBefore ==
  ASSUME ThreadInv, lj.type # "throw", curr \in Thread, NEW k \in 1..Len(callstack[curr]),
         callstack[curr][k].prevent, callstack[curr][k].fn \in {"ecma", "native"}
  PROVE  HasFrame(curr, k)
BY DEF ThreadInv, Base, Owned, Lost

LEMMA EcmaCallStep ==
  ASSUME ThreadInv, EcmaCall
  PROVE  ThreadInv'
<1> DEFINE s == callstack[curr]
           r == callstack'[curr]
           n == Len(s)
           a == Act("ecma", FALSE)
<1> USE DEF ThreadInv, Base
<1>0. /\ Running /\ lj.type = "none" /\ In({"exec"}) /\ Len(s) < MaxCall
      /\ callstack' = [callstack EXCEPT ![curr] = Append(@, a)]
      /\ tstate' = tstate /\ resumer' = resumer /\ preventcount' = preventcount /\ curr' = curr
      /\ cstack' = cstack /\ lj' = lj /\ pf' = pf /\ armed' = armed
  BY DEF EcmaCall, InBytecode, Running, WithinLimits
<1>1. curr \in Thread /\ s # <<>> /\ Top(curr).fn = "ecma" /\ cstack # <<>> /\ Frame.kind = "exec"
  BY <1>0, ExecFacts DEF In
<1>2. a \in Activation /\ a.fn = "ecma" /\ ~a.prevent /\ a.cats = <<>>
  BY ActIs
<1> HIDE DEF a
<1>3. /\ callstack' \in [Thread -> Seq(Activation)] /\ OnlyCurr /\ Callstack(r) /\ Carries(s, r)
      /\ n \in Nat /\ Len(r) = n + 1 /\ r[n + 1] = a /\ \A k \in 1..n : r[k] = s[k]
      /\ Cardinality(PreventSet(r)) = Cardinality(PreventSet(s)) + (IF a.prevent THEN 1 ELSE 0)
  BY <1>0, <1>1, <1>2, PushIs
<1>4. Counted
  <2>1. preventcount[curr] = Cardinality(PreventSet(s)) + Cardinality(SafeSet(cstack, curr))
    BY <1>1, PreventIs
  <2>2. Cardinality(PreventSet(s)) \in Nat
    BY <1>1, CountsNat DEF TypeOK
  <2>3. Cardinality(PreventSet(r)) = Cardinality(PreventSet(s))
    BY <2>2, <1>2, <1>3
  <2> QED
    BY <2>1, <2>3, <1>0 DEF Counted, TypeOK
<1>5. OwnedNow(r)
  <2>1. ASSUME NEW k \in 1..Len(r), r[k].prevent, r[k].fn \in {"ecma", "native"}
        PROVE  HasFrame(curr, k)
    <3>1. k # n + 1
      BY <2>1, <1>2, <1>3
    <3>2. k \in 1..n
      BY <2>1, <3>1, <1>3
    <3> QED
      BY <2>1, <3>2, <1>0, <1>1, <1>3, OwnedBefore
  <2> QED
    BY <2>1 DEF OwnedNow
<1>6. LjNext
  <2>1. Goes /\ Cardinality(FinSet(cstack)) \in Nat
    BY <1>0, GoesOn, PfIs
  <2> QED
    BY <2>1 DEF Goes, LjNext
<1>7. r # <<>> /\ Level(Frame, r, Len(r))
  <2>1. n + 1 >= 1 /\ r # <<>>
    BY <1>3
  <2> QED
    BY <2>1, <1>1, <1>2, <1>3 DEF Level, SafeKinds
<1>8. Pending'
  BY <1>0 DEF Pending
<1> QED
  BY <1>0, <1>1, <1>3, <1>4, <1>5, <1>6, <1>7, <1>8, StayStep

LEMMA TailCallStep ==
  ASSUME ThreadInv, TailCall
  PROVE  ThreadInv'
<1> DEFINE s == callstack[curr]
           r == callstack'[curr]
           n == Len(s)
           a == Act("ecma", FALSE)
<1> USE DEF ThreadInv, Base
<1>0. /\ Running /\ lj.type = "none" /\ In({"exec"}) /\ ~Top(curr).prevent
      /\ callstack' = [callstack EXCEPT ![curr][n] = a]
      /\ preventcount' = [preventcount EXCEPT ![curr] = PreventUnwound(curr, n - 1)]
      /\ tstate' = tstate /\ resumer' = resumer /\ curr' = curr
      /\ cstack' = cstack /\ lj' = lj /\ pf' = pf /\ armed' = armed
  BY DEF TailCall, InBytecode, Running, MayReuse
<1>1. /\ curr \in Thread /\ s # <<>> /\ Top(curr).fn = "ecma" /\ cstack # <<>> /\ Frame.kind = "exec"
      /\ s \in Seq(Activation) /\ n \in Nat \ {0} /\ n \in 1..n /\ Top(curr) = s[n]
  BY <1>0, ExecFacts DEF In
<1>2. a \in Activation /\ a.fn = "ecma" /\ ~a.prevent /\ a.cats = <<>>
  BY ActIs
<1> HIDE DEF a
<1>3. ~AtEntry
  <2>1. Frame \in CFrame /\ Frame = cstack[Len(cstack)] /\ Len(cstack) \in 1..Len(cstack)
    BY <1>1, FrameIs
  <2>2. MatchF(Frame, callstack[Frame.thr])
    BY <2>1 DEF Match
  <2>3. AtEntry => s[n].prevent
    BY <2>2, <1>1 DEF AtEntry, MatchF, CallKinds
  <2> QED
    BY <2>3, <1>0, <1>1
<1>4. /\ callstack' \in [Thread -> Seq(Activation)] /\ OnlyCurr
      /\ r = [s EXCEPT ![n] = a]
  <2>1. callstack \in [Thread -> Seq(Activation)]
    BY DEF TypeOK
  <2>2. [s EXCEPT ![n] = a] \in Seq(Activation)
    BY <1>1, <1>2, PutIs
  <2> QED
    BY <2>1, <2>2, <1>0, <1>1 DEF OnlyCurr
<1>5. r \in Seq(Activation) /\ Len(r) = n /\ r[n] = a /\ \A k \in 1..n : k # n => r[k] = s[k]
  BY <1>1, <1>2, <1>4, PutIs
<1>6. \A k \in 1..n : r[k].prevent = s[k].prevent /\ SameAct(s[k], r[k])
  <2>1. ASSUME NEW k \in 1..n
        PROVE  r[k].prevent = s[k].prevent /\ r[k].fn = s[k].fn
    <3>1. CASE k # n
      BY <3>1, <1>5
    <3>2. CASE k = n
      <4>1. s[n].prevent = FALSE /\ a.prevent = FALSE
        <5>1. s[n].prevent \in BOOLEAN /\ a.prevent \in BOOLEAN
          BY <1>1, <1>2, ActType
        <5> QED
          BY <5>1, <1>0, <1>1, <1>2
      <4> QED
        BY <3>2, <4>1, <1>1, <1>2, <1>5
    <3> QED
      BY <3>1, <3>2
  <2> QED
    BY <2>1 DEF SameAct
<1> HIDE DEF r, s
<1>7. Callstack(r)
  <2>1. n <= MaxCall /\ \A k \in 1..n : Len(s[k].cats) <= MaxStmt
    BY <1>1 DEF TypeOK, s
  <2>2. Len(a.cats) <= MaxStmt
    BY <1>2, ThreadAssumption
  <2>3. \A k \in 1..Len(r) : Len(r[k].cats) <= MaxStmt
    BY <2>1, <2>2, <1>5
  <2>4. ActsOK(s)
    BY <1>1 DEF Acts, s
  <2>5. ASSUME NEW k \in 1..n
        PROVE  ActOK(r, k)
    <3>1. ActOK(s, k) /\ k \in Nat
      BY <2>4 DEF ActsOK
    <3>2. k > 1 => k - 1 \in 1..n /\ k - 1 # n
      BY <1>1, <3>1
    <3>3. r[k].cats = s[k].cats \/ r[k].cats = <<>>
      BY <1>2, <1>5
    <3>4. r[k].fn # "ecma" => r[k].cats = <<>>
      BY <1>2, <1>5, <3>1 DEF ActOK
    <3>5. \A j \in 1..Len(r[k].cats) : r[k].cats[j].cont = "break" => r[k].cats[j].label <= j
      BY <3>1, <3>3 DEF ActOK
    <3>6. SameAct(s[k], r[k]) /\ (k > 1 => SameAct(s[k - 1], r[k - 1]))
      BY <1>6, <3>2
    <3>7. /\ r[k].fn # "ecma" => r[k].prevent
          /\ ~r[k].prevent /\ k > 1 => r[k - 1].fn = "ecma"
      BY <3>1, <3>6, Zenon DEF ActOK, SameAct
    <3> QED
      BY <3>4, <3>5, <3>7 DEF ActOK
  <2> QED
    BY <2>1, <2>3, <2>5, <1>5 DEF Callstack, ActsOK
<1>8. Carries(s, r)
  <2>1. ASSUME NEW i \in 1..Len(cstack), cstack[i].thr = curr
        PROVE  KeepActs(s, r, cstack[i].top + Bonus(cstack[i]))
    <3> DEFINE x == cstack[i].top + Bonus(cstack[i])
    <3>1. x <= n - 1
      BY <2>1, <1>0, <1>1, <1>3, BelowTop DEF s
    <3>2. cstack[i] \in CFrame
      BY DEF TypeOK
    <3>3. x \in Nat
      BY <3>2, FrameType
    <3> HIDE DEF x
    <3>4. x <= n /\ \A l \in 1..x : l \in 1..n
      BY <3>1, <3>3, <1>1
    <3>5. KeepActs(s, r, x)
      BY <3>4, <1>5, <1>6 DEF KeepActs
    <3> QED
      BY <3>5 DEF x
  <2> QED
    BY <2>1 DEF Carries
<1>9. Counted
  <2>1. preventcount[curr] = Cardinality(PreventSet(s)) + Cardinality(SafeSet(cstack, curr))
    BY <1>1, PreventIs DEF s
  <2>2. PreventSet(r) = PreventSet(s)
    BY <1>1, <1>5, <1>6, ActSame
  <2>3. PreventUnwound(curr, n - 1) = preventcount[curr]
    <3> DEFINE P == {k \in (n - 1) + 1..Len(callstack[curr]) : callstack[curr][k].prevent}
    <3>1. P = {}
      <4>1. (n - 1) + 1 = n /\ Len(callstack[curr]) = n /\ \A k \in n..n : k = n
        BY <1>1 DEF s
      <4> QED
        BY <4>1, <1>0, <1>1 DEF s
    <3>2. Cardinality({}) = 0 /\ preventcount[curr] \in Nat
      BY <1>1, FS_EmptySet DEF TypeOK
    <3>3. PreventUnwound(curr, n - 1) = preventcount[curr] - Cardinality(P)
      BY DEF PreventUnwound
    <3> HIDE DEF P
    <3>4. Cardinality(P) = 0
      BY <3>1, <3>2
    <3> QED
      BY <3>2, <3>3, <3>4
  <2>4. preventcount' = preventcount
    BY <2>3, <1>0, <1>1 DEF TypeOK
  <2> QED
    BY <2>1, <2>2, <2>4 DEF Counted, TypeOK, r
<1>10. OwnedNow(r)
  <2>1. ASSUME NEW k \in 1..Len(r), r[k].prevent, r[k].fn \in {"ecma", "native"}
        PROVE  HasFrame(curr, k)
    <3>1. k \in 1..n /\ k # n
      BY <2>1, <1>2, <1>5
    <3> QED
      BY <2>1, <3>1, <1>0, <1>1, <1>5, OwnedBefore DEF s
  <2> QED
    BY <2>1 DEF OwnedNow
<1>11. LjNext
  <2>1. Goes /\ Cardinality(FinSet(cstack)) \in Nat
    BY <1>0, GoesOn, PfIs
  <2> QED
    BY <2>1 DEF Goes, LjNext
<1>12. r # <<>> /\ Level(Frame, r, Len(r))
  BY <1>1, <1>2, <1>5 DEF Level, SafeKinds
<1>13. Pending'
  BY <1>0 DEF Pending
<1> QED
  BY <1>0, <1>1, <1>4, <1>7, <1>8, <1>9, <1>10, <1>11, <1>12, <1>13, StayStep DEF r, s

\* Where bytecode or C code runs.
LEMMA CodeFacts ==
  ASSUME ThreadInv, InBytecode \/ InC
  PROVE  /\ lj.type = "none" /\ cstack # <<>> /\ curr \in Thread /\ ~Frame.delayed
         /\ callstack[curr] \in Seq(Activation) /\ Len(callstack[curr]) \in Nat
         /\ Frame \in CFrame /\ Frame = cstack[Len(cstack)] /\ Len(cstack) \in 1..Len(cstack) /\ Len(cstack) \in Nat
         /\ Frame.kind # "exec" => Frame.thr = curr
         /\ Level(Frame, callstack[curr], Len(callstack[curr]))
         /\ MatchF(Frame, callstack[Frame.thr])
<1> USE DEF ThreadInv, Base
<1>1. lj.type = "none" /\ cstack # <<>> /\ curr \in Thread
  BY DEF InBytecode, InC, Running, In, Frames, TypeOK
<1>2. ~Frame.delayed
  BY NotDelayed DEF InBytecode, InC, In
<1>3. /\ Frame \in CFrame /\ Frame = cstack[Len(cstack)] /\ Len(cstack) \in 1..Len(cstack) /\ Len(cstack) \in Nat
      /\ Ctx(Len(cstack)) = curr /\ Depth(Len(cstack)) = Len(callstack[curr])
  BY <1>1, FrameIs
<1>4. callstack[curr] \in Seq(Activation) /\ Len(callstack[curr]) \in Nat
  BY <1>1 DEF TypeOK
<1>5. Level(Frame, callstack[curr], Len(callstack[curr])) /\ MatchF(Frame, callstack[Frame.thr])
  BY <1>1, <1>3 DEF Levels, Match
<1>6. Frame.kind # "exec" => Frame.thr = curr
  BY <1>1, <1>3 DEF Chained, ChainOK
<1> QED
  BY <1>1, <1>2, <1>3, <1>4, <1>5, <1>6

\* resume() or yield() itself: its activation, and the longjmp l to the executor or
\* protected call it was called from.
LEMMA SuspendStep ==
  ASSUME ThreadInv, InBytecode \/ InC, TopIsEcma, WithinLimits, NEW fn \in {"resume", "yield"}, NEW l \in Lj,
         l.type = fn, Longjmp(l), callstack' = [callstack EXCEPT ![curr] = Append(@, Act(fn, TRUE))],
         preventcount' = [preventcount EXCEPT ![curr] = @ + 1],
         tstate' = tstate, resumer' = resumer, curr' = curr, armed' = armed,
         fn = "resume" => l.thr \in Thread /\ tstate[l.thr] \in {"inactive", "yielded"},
         fn = "yield" => preventcount[curr] = 0 /\ resumer[curr] # NONE
  PROVE  ThreadInv'
<1> DEFINE s == callstack[curr]
           r == callstack'[curr]
           n == Len(s)
           a == Act(fn, TRUE)
<1> USE DEF ThreadInv, Base
<1>1. /\ lj.type = "none" /\ cstack # <<>> /\ curr \in Thread /\ ~Frame.delayed
      /\ s \in Seq(Activation) /\ n \in Nat /\ (Frame.kind # "exec" => Frame.thr = curr)
      /\ Level(Frame, s, n) /\ MatchF(Frame, callstack[Frame.thr])
  BY CodeFacts
<1>2. s # <<>> /\ s[n].fn = "ecma" /\ n >= 1 /\ n < MaxCall
  <2>1. s # <<>> /\ Top(curr).fn = "ecma" /\ Top(curr) = s[n] /\ n < MaxCall
    BY <1>1 DEF TopIsEcma, Top, Last, WithinLimits
  <2> QED
    BY <2>1, <1>1
<1>3. Frame.kind # "native"
  <2>1. Frame.kind = "native" => s[n].fn = "native"
    BY <1>1 DEF Level, MatchF, CallKinds
  <2> QED
    BY <2>1, <1>2
<1>4. cstack' = cstack /\ lj' = l /\ pf' = pf + 1
  BY <1>1, <1>3, CaughtHere DEF Longjmp
<1>5. a \in Activation /\ a.fn = fn /\ a.prevent /\ a.cats = <<>>
  BY ActIs
<1> HIDE DEF a
<1>6. /\ callstack' \in [Thread -> Seq(Activation)] /\ OnlyCurr /\ Callstack(r) /\ Carries(s, r)
      /\ Len(r) = n + 1 /\ r[n + 1] = a /\ \A k \in 1..n : r[k] = s[k]
      /\ Cardinality(PreventSet(r)) = Cardinality(PreventSet(s)) + (IF a.prevent THEN 1 ELSE 0)
  <2>1. callstack' = [callstack EXCEPT ![curr] = Append(@, a)]
    BY DEF a
  <2> QED
    BY <2>1, <1>1, <1>2, <1>5, PushIs
<1>7. Counted
  <2>1. preventcount[curr] = Cardinality(PreventSet(s)) + Cardinality(SafeSet(cstack, curr))
    BY <1>1, PreventIs
  <2>2. Cardinality(PreventSet(s)) \in Nat /\ Cardinality(SafeSet(cstack, curr)) \in Nat
    BY <1>1, CountsNat DEF TypeOK
  <2>3. Cardinality(PreventSet(r)) = Cardinality(PreventSet(s)) + 1
    BY <1>5, <1>6
  <2>4. preventcount \in [Thread -> Nat] /\ preventcount'[curr] = preventcount[curr] + 1
        /\ preventcount' \in [Thread -> Nat] /\ \A t \in Thread : t # curr => preventcount'[t] = preventcount[t]
    BY <1>1 DEF TypeOK
  <2>5. preventcount'[curr] = Cardinality(PreventSet(r)) + Cardinality(SafeSet(cstack, curr))
    <3> DEFINE x == Cardinality(PreventSet(r))
               y == Cardinality(PreventSet(s))
               z == Cardinality(SafeSet(cstack, curr))
               p == preventcount[curr]
               q == preventcount'[curr]
    <3>1. p = y + z /\ y \in Nat /\ z \in Nat /\ x = y + 1 /\ q = p + 1
      BY <2>1, <2>2, <2>3, <2>4
    <3> HIDE DEF x, y, z, p, q
    <3>2. q = x + z
      BY <3>1
    <3> QED
      BY <3>2 DEF x, z, q
  <2> QED
    BY <2>4, <2>5 DEF Counted
<1>8. OwnedNow(r)
  <2>1. ASSUME NEW k \in 1..Len(r), r[k].prevent, r[k].fn \in {"ecma", "native"}
        PROVE  HasFrame(curr, k)
    <3>1. k # n + 1
      BY <2>1, <1>5, <1>6
    <3>2. k \in 1..n
      BY <2>1, <3>1, <1>1, <1>6
    <3> QED
      BY <2>1, <3>2, <1>1, <1>6, OwnedBefore
  <2> QED
    BY <2>1 DEF OwnedNow
<1>9. LjNext
  <2>1. Cardinality(FinSet(cstack)) \in Nat /\ pf = Cardinality(FinSet(cstack))
    BY <1>1, PfIs DEF Running
  <2>2. l.type # "none" /\ armed' \in BOOLEAN
    BY DEF TypeOK
  <2> QED
    BY <2>1, <2>2, <1>1, <1>3, <1>4 DEF LjNext
<1>10. r # <<>> /\ OnEcma(r, fn)
  <2>1. n \in 1..n /\ n + 1 >= 2 /\ (n + 1) - 1 = n
    BY <1>1, <1>2
  <2>2. r[n + 1].fn = fn /\ r[n].fn = "ecma" /\ Len(r) = n + 1
    BY <2>1, <1>2, <1>5, <1>6
  <2>4. n \in Nat
    BY <1>1
  <2> HIDE DEF r, n
  <2>3. r # <<>>
    BY <2>2, <2>4
  <2> QED
    BY <2>1, <2>2, <2>3 DEF OnEcma
<1>11. Pending'
  <2>1. fn = "resume" => l.thr \in Thread /\ tstate'[l.thr] \in {"inactive", "yielded"}
    OBVIOUS
  <2>2. fn = "yield" => preventcount'[curr] = 1 /\ resumer'[curr] # NONE
    <3>1. preventcount \in [Thread -> Nat]
      BY DEF TypeOK
    <3> QED
      BY <3>1, <1>1
  <2>3. fn # "return"
    OBVIOUS
  <2> QED
    BY <2>1, <2>2, <2>3, <1>4, <1>10 DEF Pending
<1> QED
  BY <1>1, <1>4, <1>6, <1>7, <1>8, <1>9, <1>10, <1>11, StayStep

LEMMA ResumeStep ==
  ASSUME ThreadInv, NEW t \in Thread, NEW e \in BOOLEAN, Resume(t, e)
  PROVE  ThreadInv'
<1> DEFINE l == [type |-> "resume", iserror |-> e, thr |-> t]
<1>1. l \in Lj /\ l.type = "resume" /\ l.thr = t
  BY DEF Lj, LjType
<1>2. /\ InBytecode \/ InC
      /\ TopIsEcma /\ WithinLimits /\ Longjmp(l) /\ tstate[t] \in {"inactive", "yielded"}
      /\ callstack' = [callstack EXCEPT ![curr] = Append(@, Act("resume", TRUE))]
      /\ preventcount' = [preventcount EXCEPT ![curr] = @ + 1]
      /\ tstate' = tstate /\ resumer' = resumer /\ curr' = curr /\ armed' = armed
  BY DEF Resume
<1> HIDE DEF l
<1> QED
  BY <1>1, <1>2, SuspendStep

LEMMA YieldStep ==
  ASSUME ThreadInv, NEW e \in BOOLEAN, Yield(e)
  PROVE  ThreadInv'
<1> DEFINE l == [type |-> "yield", iserror |-> e, thr |-> NONE]
<1>1. l \in Lj /\ l.type = "yield"
  BY DEF Lj, LjType
<1>2. /\ InBytecode \/ InC
      /\ TopIsEcma /\ WithinLimits /\ Longjmp(l) /\ resumer[curr] # NONE /\ OnlyYieldPrevents
      /\ callstack' = [callstack EXCEPT ![curr] = Append(@, Act("yield", TRUE))]
      /\ preventcount' = [preventcount EXCEPT ![curr] = @ + 1]
      /\ tstate' = tstate /\ resumer' = resumer /\ curr' = curr /\ armed' = armed
  BY DEF Yield
<1>3. preventcount[curr] = 0
  <2>1. curr \in Thread
    BY <1>2, CodeFacts
  <2>2. preventcount[curr] \in Nat
    BY <2>1 DEF ThreadInv, Base, TypeOK
  <2> QED
    BY <2>2, <1>2 DEF OnlyYieldPrevents
<1> HIDE DEF l
<1> QED
  BY <1>1, <1>2, <1>3, SuspendStep

-----------------------------------------------------------------------------
(* New frames.                                                             *)

\* Frame f is put on top of the C stack.
PushedFrame(f) ==
  /\ f \in CFrame /\ cstack' = Append(cstack, f) /\ Len(cstack) < MaxC
  /\ f.ecurr = curr /\ curr' = f.thr /\ ~f.delayed

LEMMA PushedIs ==
  ASSUME TypeOK, NEW f, PushedFrame(f)
  PROVE  /\ Len(cstack) \in Nat /\ cstack' \in Seq(CFrame) /\ Len(cstack') = Len(cstack) + 1
         /\ Len(cstack') <= MaxC /\ cstack'[Len(cstack) + 1] = f /\ Frame' = f /\ cstack' # <<>>
         /\ \A i \in 1..Len(cstack) : cstack'[i] = cstack[i] /\ i \in Nat /\ i # Len(cstack) + 1
         /\ \A i \in 1..Len(cstack') : i \in 1..Len(cstack) \/ i = Len(cstack) + 1
         /\ Len(cstack) + 1 \in 1..Len(cstack')
<1>1. cstack \in Seq(CFrame) /\ Len(cstack) \in Nat /\ f \in CFrame /\ cstack' = Append(cstack, f)
  BY DEF TypeOK, PushedFrame
<1>2. cstack' \in Seq(CFrame) /\ Len(cstack') = Len(cstack) + 1 /\ cstack'[Len(cstack) + 1] = f
  BY <1>1
<1>3. \A i \in 1..Len(cstack) : cstack'[i] = cstack[i]
  BY <1>1
<1>4. Frame' = f
  BY <1>1, <1>2 DEF Frame, Last
<1>5. Len(cstack') <= MaxC
  BY <1>1, <1>2, ThreadAssumption DEF PushedFrame
<1>6. cstack' # <<>>
  BY <1>1, <1>2
<1> QED
  BY <1>1, <1>2, <1>3, <1>4, <1>5, <1>6

\* What the new frame means for the counters.
LEMMA PushedCounts ==
  ASSUME ThreadInv, NEW f, PushedFrame(f), callstack' \in [Thread -> Seq(Activation)],
         \A u \in Thread : u # f.thr => callstack'[u] = callstack[u],
         preventcount' = [preventcount EXCEPT ![f.thr] = @ + 1],
         Cardinality(PreventSet(callstack'[f.thr])) = Cardinality(PreventSet(callstack[f.thr])) + Bonus(f)
  PROVE  preventcount' \in [Thread -> Nat] /\ PreventExact'
<1> USE DEF ThreadInv, Base
<1>1. f \in CFrame /\ cstack \in Seq(CFrame) /\ cstack' = Append(cstack, f) /\ f.thr \in Thread
  BY FrameType DEF TypeOK, PushedFrame
<1>2. /\ preventcount \in [Thread -> Nat] /\ preventcount' \in [Thread -> Nat]
      /\ preventcount'[f.thr] = preventcount[f.thr] + 1
      /\ \A u \in Thread : u # f.thr => preventcount'[u] = preventcount[u]
  BY <1>1 DEF TypeOK
<1>3. ASSUME NEW t \in Thread
      PROVE  preventcount'[t] = Cardinality(PreventSet(callstack'[t])) + Cardinality(SafeSet(cstack', t))
  <2> DEFINE x == Cardinality(PreventSet(callstack[t]))
             x1 == Cardinality(PreventSet(callstack'[t]))
             y == Cardinality(SafeSet(cstack, t))
             y1 == Cardinality(SafeSet(cstack', t))
             p == preventcount[t]
             p1 == preventcount'[t]
  <2>1. p = x + y
    BY PreventIs
  <2>2. y1 = y + (IF f.kind \in {"safe", "fin"} /\ f.thr = t THEN 1 ELSE 0)
    BY <1>1, FramePush
  <2>3. x \in Nat /\ y \in Nat
    BY CountsNat DEF TypeOK
  <2>4. f.kind \in {"exec", "native", "safe", "fin"}
    BY <1>1, FrameType
  <2>5. CASE t # f.thr
    <3>1. x1 = x /\ p1 = p
      BY <2>5, <1>2
    <3>2. y1 = y
      BY <2>5, <2>2, <2>3
    <3> QED
      BY <3>1, <3>2, <2>1
  <2>6. CASE t = f.thr
    <3>1. p1 = p + 1 /\ x1 = x + Bonus(f)
      BY <2>6, <1>2
    <3>2. CASE f.kind \in {"safe", "fin"}
      <4>1. Bonus(f) = 0 /\ y1 = y + 1
        BY <3>2, <2>2, <2>6 DEF Bonus, CallKinds
      <4> HIDE DEF x, x1, y, y1, p, p1
      <4>2. p1 = x1 + y1
        BY <4>1, <3>1, <2>1, <2>3
      <4> QED
        BY <4>2 DEF x1, y1, p1
    <3>3. CASE f.kind \in {"exec", "native"}
      <4>1. Bonus(f) = 1 /\ y1 = y + 0
        BY <3>3, <2>2 DEF Bonus, CallKinds
      <4> HIDE DEF x, x1, y, y1, p, p1
      <4>2. p1 = x1 + y1
        BY <4>1, <3>1, <2>1, <2>3
      <4> QED
        BY <4>2 DEF x1, y1, p1
    <3> QED
      BY <3>2, <3>3, <2>4
  <2> QED
    BY <2>5, <2>6
<1>4. PreventExact'
  BY <1>3 DEF PreventExact, PreventSet, SafeSet
<1> QED
  BY <1>2, <1>4

\* What the new frame means for the rest of the C stack.
LEMMA PushedFrames ==
  ASSUME ThreadInv, NEW f, PushedFrame(f), Fits(cstack, f), lj.type = "none", lj' = lj,
         cstack # <<>> /\ Frame.delayed => f.kind = "fin", Placed(f)',
         \A i \in 1..Len(cstack) : Placed(cstack[i])'
  PROVE  Frames'
<1> DEFINE n == Len(cstack)
<1> USE DEF ThreadInv, Base
<1>1. /\ n \in Nat /\ cstack' \in Seq(CFrame) /\ Len(cstack') = n + 1 /\ cstack'[n + 1] = f /\ cstack' # <<>>
      /\ \A i \in 1..n : cstack'[i] = cstack[i] /\ i \in Nat /\ i # n + 1
      /\ \A i \in 1..Len(cstack') : i \in 1..n \/ i = n + 1
  BY PushedIs
<1>2. curr' # NONE
  <2>1. f \in CFrame /\ curr' = f.thr
    BY DEF PushedFrame
  <2> QED
    BY <2>1, FrameType, ThreadAssumption
<1>3. StackOK(cstack')
  <2>1. cstack \in Seq(CFrame) /\ StackOK(cstack) /\ f \in CFrame /\ cstack' = Append(cstack, f)
    BY DEF TypeOK, Frames, PushedFrame
  <2> QED
    BY <2>1, StackPush
<1>4. DelaysOK(cstack')
  <2>1. ASSUME NEW i \in 1..Len(cstack'), cstack'[i].delayed, i # Len(cstack')
        PROVE  cstack'[i + 1].kind = "fin"
    <3>1. i \in 1..n /\ cstack'[i] = cstack[i] /\ i \in Nat
      BY <2>1, <1>1
    <3>2. CASE i = n
      <4>1. cstack # <<>>
        BY <3>1 DEF TypeOK
      <4>2. Frame = cstack[n]
        BY <4>1, FrameIs
      <4> QED
        BY <3>1, <3>2, <4>1, <4>2, <2>1, <1>1
    <3>3. CASE i # n
      <4>1. cstack[i + 1].kind = "fin"
        BY <2>1, <3>1, <3>3 DEF Frames, DelaysOK
      <4>2. i + 1 \in 1..n
        BY <3>1, <3>3, <1>1
      <4> QED
        BY <4>1, <4>2, <1>1
    <3> QED
      BY <3>2, <3>3
  <2> QED
    BY <2>1 DEF DelaysOK
<1>5. ASSUME NEW i \in 1..Len(cstack')
      PROVE  Placed(cstack[i])'
  <2>1. CASE i \in 1..n
    BY <2>1
  <2>2. CASE i = n + 1
    <3>1. cstack'[i] = f
      BY <2>2, <1>1
    <3> QED
      BY <3>1 DEF Placed
  <2> QED
    BY <2>1, <2>2, <1>1
<1>6. Running'
  BY DEF Running
<1> QED
  BY <1>1, <1>2, <1>3, <1>4, <1>5, <1>6 DEF Frames

\* Every frame, the new one included, finds its activation, and the code of the
\* frame below is left where it will go on.
LEMMA PushedLevels ==
  ASSUME ThreadInv, NEW f, PushedFrame(f), Keep(Len(cstack)), lj.type = "none",
         MatchF(f, callstack'[f.thr]), Level(f, callstack'[f.thr], Len(callstack'[f.thr])),
         cstack # <<>> => Level(Frame, callstack'[curr], IF Cross(f) THEN Len(callstack'[curr]) ELSE f.top)
  PROVE  Match' /\ Levels'
<1> USE DEF ThreadInv, Base
<1>0. PICK n \in Nat : n = Len(cstack)
  BY PushedIs
<1>1. /\ n \in Nat /\ cstack' \in Seq(CFrame) /\ Len(cstack') = n + 1 /\ cstack'[n + 1] = f
      /\ \A i \in 1..n : cstack'[i] = cstack[i] /\ i \in Nat /\ i # n + 1
      /\ \A i \in 1..Len(cstack') : i \in 1..n \/ i = n + 1
  BY <1>0, PushedIs
<1>2. n <= Len(cstack) /\ n <= Len(cstack') /\ Len(cstack') \in Nat /\ n # n + 1 /\ n + 1 \in Nat
  BY <1>0, <1>1
<1>3. Keep(n)
  BY <1>0
<1>4. Match'
  <2>1. \A i \in 1..n : MatchF(cstack'[i], callstack'[cstack'[i].thr])
    BY <1>1, <1>2, <1>3, KeepMatch
  <2>2. MatchF(cstack'[n + 1], callstack'[cstack'[n + 1].thr])
    BY <1>1
  <2> QED
    BY <2>1, <2>2, <1>1 DEF Match
<1>5. Levels'
  <2>1. ASSUME NEW i \in 1..Len(cstack')
        PROVE  Level(cstack'[i], callstack'[Ctx(i)'], Depth(i)')
    <3>1. CASE i \in 1..n /\ i # n
      <4>1. i \in Nat /\ StackOK(cstack)
        BY <3>1, <1>1 DEF Frames
      <4> QED
        BY <3>1, <4>1, <1>2, <1>3, KeepLevels
    <3>2. CASE i = n /\ i \in 1..n
      <4>1. cstack # <<>>
        BY <3>2, <1>0 DEF TypeOK
      <4>2. Frame = cstack[n] /\ cstack'[n] = cstack[n]
        BY <3>2, <4>1, <1>0, <1>1, FrameIs
      <4>3. f.ecurr = curr
        BY DEF PushedFrame
      <4>4. Ctx(n)' = curr
        BY <4>3, <1>1, <1>2 DEF Ctx
      <4>5. Depth(n)' = IF Cross(f) THEN Len(callstack'[curr]) ELSE f.top
        BY <4>3, <1>1, <1>2 DEF Depth
      <4> QED
        BY <3>2, <4>1, <4>2, <4>4, <4>5
    <3>3. CASE i = n + 1
      <4>1. curr' = f.thr
        BY DEF PushedFrame
      <4>2. Ctx(i)' = f.thr /\ Depth(i)' = Len(callstack'[f.thr])
        BY <3>3, <4>1, <1>1 DEF Ctx, Depth
      <4> QED
        BY <3>3, <4>2, <1>1
    <3> QED
      BY <3>1, <3>2, <3>3, <1>1
  <2> QED
    BY <2>1 DEF Levels
<1> QED
  BY <1>4, <1>5

LEMMA PushedHas ==
  ASSUME TypeOK, NEW f, PushedFrame(f), NEW t \in Thread, NEW k \in Nat, HasFrame(t, k)
  PROVE  HasFrame(t, k)'
<1>1. PICK i \in 1..Len(cstack) : cstack[i].thr = t /\ cstack[i].top = k - 1 /\ cstack[i].kind \in CallKinds
  BY DEF HasFrame
<1>2. cstack'[i] = cstack[i] /\ i \in 1..Len(cstack')
  <2>1. Len(cstack) \in Nat /\ Len(cstack') = Len(cstack) + 1 /\ cstack'[i] = cstack[i]
    BY PushedIs
  <2> QED
    BY <2>1
<1> QED
  BY <1>1, <1>2 DEF HasFrame

\* A frame of the current thread.
LEMMA InnerPush ==
  ASSUME ThreadInv, lj.type = "none", NEW f, PushedFrame(f), f.thr = curr, f.estate = "running",
         f.top = Len(callstack[curr]), curr \in Thread, cstack # <<>>, Frame.delayed => f.kind = "fin",
         callstack' \in [Thread -> Seq(Activation)], OnlyCurr, Callstack(callstack'[curr]),
         Carries(callstack[curr], callstack'[curr]), MatchF(f, callstack'[curr]),
         Level(f, callstack'[curr], Len(callstack'[curr])), Len(callstack'[curr]) = f.top + Bonus(f),
         \A k \in 1..Len(callstack[curr]) : callstack'[curr][k] = callstack[curr][k],
         Cardinality(PreventSet(callstack'[curr])) = Cardinality(PreventSet(callstack[curr])) + Bonus(f),
         preventcount' = [preventcount EXCEPT ![curr] = @ + 1], tstate' = tstate, resumer' = resumer,
         lj' = lj, armed' = armed, pf' = Cardinality(FinSet(cstack'))
  PROVE  ThreadInv'
<1> DEFINE n == Len(cstack)
           s == callstack[curr]
           r == callstack'[curr]
<1> USE DEF ThreadInv, Base
<1>h. PICK h \in [Thread -> Nat], d \in [Thread -> Nat] : ChainOK(h, d)
  BY DEF Chained
<1>f. f \in CFrame /\ f.ecurr = curr /\ curr' = curr /\ ~f.delayed /\ ~Cross(f)
  BY DEF PushedFrame, Cross
<1>1. /\ n \in Nat /\ cstack' \in Seq(CFrame) /\ Len(cstack') = n + 1 /\ cstack'[n + 1] = f
      /\ Len(cstack') <= MaxC /\ \A i \in 1..n : cstack'[i] = cstack[i] /\ i \in Nat /\ i # n + 1
      /\ n + 1 \in 1..Len(cstack')
  BY PushedIs
<1>2. /\ Frame = cstack[n] /\ n \in 1..n /\ Frame \in CFrame /\ Ctx(n) = curr /\ Depth(n) = Len(s)
  BY FrameIs
<1>3. s \in Seq(Activation) /\ Len(s) \in Nat /\ f.top \in Nat /\ Bonus(f) \in {0, 1}
      /\ f.kind \in {"exec", "native", "safe", "fin"}
  BY <1>f, FrameType DEF TypeOK
<1>4. Level(Frame, s, Len(s))
  BY <1>2 DEF Levels
<1>5. Fits(cstack, f)
  <2>1. FrameOK(f, n + 1)
    <3>1. curr # NONE /\ n + 1 # 1
      BY <1>1, <1>2, ThreadAssumption
    <3> QED
      BY <3>1, <1>f DEF FrameOK
  <2>2. ASSUME NEW i \in 1..n
        PROVE  PairOK(cstack[i], f)
    <3>1. cstack[i] \in CFrame /\ MatchF(cstack[i], callstack[cstack[i].thr])
      BY DEF TypeOK, Match
    <3>2. cstack[i].thr = curr => cstack[i].top + Bonus(cstack[i]) <= f.top
      BY <3>1 DEF MatchF
    <3>3. cstack[i].top \in Nat
      BY <3>1, FrameType
    <3>4. cstack[i].thr = curr => cstack[i].top <= f.top /\ (cstack[i].kind \in CallKinds => cstack[i].top < f.top)
      BY <3>2, <3>3, <1>3 DEF Bonus
    <3> QED
      BY <3>4, <1>f DEF PairOK
  <2>3. f.kind = "native" /\ Frame.kind = "native" => f.thr = Frame.thr /\ f.top = Frame.top + 1
    <3>1. Frame.kind = "native" => Frame.thr = curr
      BY <1>h, <1>2 DEF ChainOK
    <3> QED
      BY <3>1, <1>4 DEF Level
  <2> QED
    BY <2>1, <2>2, <2>3, <1>2 DEF Fits
<1>6. TypeOK'
  <2>1. ASSUME NEW t \in Thread
        PROVE  Len(callstack'[t]) <= MaxCall /\ \A k \in DOMAIN callstack'[t] : Len(callstack'[t][k].cats) <= MaxStmt
    <3>1. CASE t # curr
      BY <3>1 DEF OnlyCurr, TypeOK
    <3>2. CASE t = curr
      <4>1. DOMAIN r = 1..Len(r)
        BY DEF Callstack
      <4> QED
        BY <3>2, <4>1 DEF Callstack
    <3> QED
      BY <3>1, <3>2
  <2>2. pf' \in Nat
    BY <1>1, CountsNat
  <2>3. preventcount' \in [Thread -> Nat]
    BY DEF TypeOK
  <2> QED
    BY <2>1, <2>2, <2>3, <1>1, <1>f DEF TypeOK
<1>7. Frames'
  <2>1. Placed(f)'
    <3>1. tstate[curr] = "running"
      BY ThreadAssumption DEF States
    <3>2. resumer[curr] # NONE => s # <<>>
      BY DEF States
    <3>3. resumer[curr] # NONE => f.top >= 1
      BY <3>2, <1>3
    <3> QED
      BY <3>1, <3>3, <1>f DEF Placed
  <2>2. ASSUME NEW i \in 1..Len(cstack)
        PROVE  Placed(cstack[i])'
    <3>1. cstack'[i] = cstack[i] /\ Placed(cstack[i])
      BY <1>1 DEF Frames
    <3> QED
      BY <3>1, <1>f DEF Placed
  <2> QED
    BY <2>1, <2>2, <1>5, PushedFrames
<1>8. States'
  <2>1. curr' # NONE => tstate'[curr'] = "running"
    BY <1>f DEF States
  <2>2. ASSUME NEW t \in Thread, tstate'[t] = "running"
        PROVE  t = curr' \/ \E i \in 1..Len(cstack') : Cross(cstack'[i]) /\ cstack'[i].ecurr = t
    <3>1. t = curr \/ \E i \in 1..n : Cross(cstack[i]) /\ cstack[i].ecurr = t
      BY <2>2 DEF States
    <3>2. \A i \in 1..n : i \in 1..Len(cstack') /\ cstack'[i] = cstack[i]
      BY <1>1
    <3> QED
      BY <3>1, <3>2, <1>f
  <2>3. \A t \in Thread : resumer[t] # NONE => callstack'[t] # <<>>
    <3>1. s # <<>> => r # <<>>
      BY <1>3 DEF Callstack
    <3>2. ASSUME NEW t \in Thread, resumer[t] # NONE
          PROVE  callstack[t] # <<>>
      BY <3>2 DEF States
    <3>3. ASSUME NEW t \in Thread, resumer[t] # NONE
          PROVE  callstack'[t] # <<>>
      BY <3>1, <3>2, <3>3 DEF OnlyCurr
    <3> QED
      BY <3>3
  <2> QED
    BY <2>1, <2>2, <2>3 DEF States
<1>9. Keep(n)
  <2>1. \A i \in 1..n : Same(cstack[i], cstack'[i])
    BY <1>1 DEF Same
  <2>2. n <= Len(cstack)
    BY <1>1
  <2> QED
    BY <2>1, <2>2, <1>1, KeepCurr DEF Carries
<1>10. Match' /\ Levels'
  <2>1. Level(Frame, r, f.top)
    <3>1. Frame.kind = "exec" => Len(s) >= 1 /\ r[Len(s)].fn = "ecma"
      <4>1. Frame.kind = "exec" => Len(s) >= 1 /\ s[Len(s)].fn = "ecma"
        BY <1>4 DEF Level
      <4>2. Len(s) >= 1 => Len(s) \in 1..Len(s)
        BY <1>3
      <4> QED
        BY <4>1, <4>2
    <3> QED
      BY <3>1, <1>4 DEF Level
  <2> QED
    BY <2>1, <1>9, <1>f, PushedLevels
<1>11. Owned'
  <2>1. ASSUME NEW t \in Thread, NEW k \in 1..Len(callstack'[t]),
               callstack'[t][k].prevent, callstack'[t][k].fn \in {"ecma", "native"}
        PROVE  HasFrame(t, k)'
    <3>0. k \in Nat
      <4>1. callstack'[t] \in Seq(Activation)
        OBVIOUS
      <4> QED
        BY <4>1
    <3>1. CASE k \in 1..Len(callstack[t]) /\ callstack'[t][k] = callstack[t][k]
      <4>1. HasFrame(t, k)
        BY <2>1, <3>1 DEF Owned, Lost
      <4> QED
        BY <4>1, <3>0, PushedHas
    <3>2. CASE t = curr /\ k \notin 1..Len(s)
      <4>1. k = f.top + 1 /\ f.kind \in CallKinds
        <5>1. Len(s) = f.top /\ k \in 1..f.top + Bonus(f)
          BY <3>2
        <5> DEFINE x == f.top
                   b == Bonus(f)
        <5>2. x \in Nat /\ b \in {0, 1} /\ k \notin 1..x /\ k \in 1..x + b
          BY <5>1, <3>2, <1>3
        <5> HIDE DEF x, b
        <5>3. k = x + 1 /\ b = 1
          BY <5>2
        <5> QED
          BY <5>3 DEF x, b, Bonus
      <4>2. k - 1 = f.top
        BY <4>1, <1>3
      <4> QED
        BY <4>1, <4>2, <3>2, <1>1, <1>f DEF HasFrame
    <3> QED
      BY <3>1, <3>2 DEF OnlyCurr
  <2> QED
    BY <2>1 DEF Owned
<1>12. Acts'
  BY DEF Acts, OnlyCurr, Callstack
<1>13. Shape'
  <2>1. ASSUME NEW t \in Thread
        PROVE  ShapeOf(t)'
    <3>1. CASE t # curr
      <4>1. preventcount'[t] = preventcount[t] /\ callstack'[t] = callstack[t]
        BY <3>1 DEF TypeOK, OnlyCurr
      <4> QED
        BY <4>1 DEF Shape, ShapeOf
    <3>2. CASE t = curr
      BY <3>2, ThreadAssumption DEF ShapeOf, States
    <3> QED
      BY <3>1, <3>2
  <2> QED
    BY <2>1 DEF Shape
<1>14. PreventExact'
  BY PushedCounts DEF OnlyCurr
<1>15. PfExact' /\ Pending'
  <2>1. pf' = Cardinality(FinSet(cstack')) + 0
    BY <1>1, CountsNat
  <2> QED
    BY <2>1 DEF PfExact, FinSet, Running, Pending
<1>16. Chained'
  <2>1. FramesAre(n + 1)
    BY <1>1 DEF FramesAre, Same
  <2>2. ChainOK(h, d)'
    BY <2>1, <1>h, <1>1, <1>f, ChainPush
  <2> QED
    BY <2>2 DEF Chained
<1> QED
  BY <1>6, <1>7, <1>8, <1>10, <1>11, <1>12, <1>13, <1>14, <1>15, <1>16

\* A protected call on an inactive thread.
LEMMA CrossPush ==
  ASSUME ThreadInv, lj.type = "none", NEW f, PushedFrame(f), f.thr # curr, f.kind \in SafeKinds,
         tstate[f.thr] = "inactive", f.estate = "inactive", f.top = Len(callstack[f.thr]),
         cstack # <<>> /\ Frame.delayed => f.kind = "fin",
         callstack' = callstack, preventcount' = [preventcount EXCEPT ![f.thr] = @ + 1],
         tstate' = [tstate EXCEPT ![f.thr] = "running"], resumer' = resumer,
         lj' = lj, armed' = armed, pf' = Cardinality(FinSet(cstack'))
  PROVE  ThreadInv'
<1> DEFINE n == Len(cstack)
           t == f.thr
<1> USE DEF ThreadInv, Base
<1>h. PICK h \in [Thread -> Nat], d \in [Thread -> Nat] : ChainOK(h, d)
  BY DEF Chained
<1>f. /\ f \in CFrame /\ f.ecurr = curr /\ curr' = t /\ ~f.delayed /\ Cross(f)
      /\ t \in Thread /\ f.kind \notin CallKinds /\ Bonus(f) = 0
  <2>1. f \in CFrame /\ f.ecurr = curr /\ curr' = t /\ ~f.delayed /\ Cross(f)
    BY DEF PushedFrame, Cross
  <2> QED
    BY <2>1, FrameType DEF SafeKinds, CallKinds, Bonus
<1>t. callstack[t] = <<>> /\ f.top = 0 /\ resumer[t] = NONE /\ preventcount[t] = 0
  BY <1>f DEF Shape, ShapeOf, States
<1>1. /\ n \in Nat /\ cstack' \in Seq(CFrame) /\ Len(cstack') = n + 1 /\ cstack'[n + 1] = f
      /\ Len(cstack') <= MaxC /\ \A i \in 1..n : cstack'[i] = cstack[i] /\ i \in Nat /\ i # n + 1
      /\ n + 1 \in 1..Len(cstack')
  BY PushedIs
<1>2. \A u \in Thread : u # t => tstate'[u] = tstate[u]
  BY DEF TypeOK
<1>3. tstate'[t] = "running"
  BY <1>f DEF TypeOK
<1>4. \A i \in 1..n : cstack[i].thr # t /\ cstack[i] \in CFrame
  <2>1. \A i \in 1..n : cstack[i] \in CFrame
    BY DEF TypeOK
  <2>2. \A i \in 1..n : Placed(cstack[i])
    BY DEF Frames
  <2>3. \A i \in 1..n : tstate[cstack[i].thr] \in {"running", "resumed"}
    BY <2>2 DEF Placed
  <2> QED
    BY <2>1, <2>3
<1>5. Fits(cstack, f)
  <2>1. FrameOK(f, n + 1)
    <3>1. curr = NONE <=> n + 1 = 1
      <4>1. cstack = <<>> <=> n = 0
        BY DEF TypeOK
      <4>2. n = 0 <=> n + 1 = 1
        BY <1>1
      <4> QED
        BY <4>1, <4>2 DEF Frames
    <3> QED
      BY <3>1, <1>f, <1>t DEF FrameOK
  <2>2. ASSUME NEW i \in 1..n
        PROVE  PairOK(cstack[i], f)
    <3>1. Cross(cstack[i]) => cstack[i].ecurr # curr
      <4>1. Placed(cstack[i])
        BY DEF Frames
      <4>2. curr # NONE
        <5>1. cstack # <<>>
          BY <1>1 DEF TypeOK
        <5> QED
          BY <5>1 DEF Frames
      <4> QED
        BY <4>1, <4>2 DEF Placed
    <3> QED
      BY <3>1, <1>f, <1>4 DEF PairOK
  <2>3. f.kind # "native"
    BY <1>f DEF CallKinds
  <2> QED
    BY <2>1, <2>2, <2>3 DEF Fits
<1>c. curr # NONE => tstate[curr] = "running" /\ curr \in Thread
  BY DEF States, TypeOK
<1>6. TypeOK'
  <2>1. pf' \in Nat
    BY <1>1, CountsNat
  <2>2. preventcount' \in [Thread -> Nat]
    <3>1. preventcount \in [Thread -> Nat] /\ t \in Thread
      BY <1>f DEF TypeOK
    <3> QED
      BY <3>1
  <2> QED
    BY <2>1, <2>2, <1>1, <1>f DEF TypeOK
<1>7. Frames'
  <2>1. Placed(f)'
    <3>1. curr # NONE => tstate'[curr] = "running"
      BY <1>c, <1>2
    <3> QED
      BY <3>1, <1>f, <1>t, <1>3 DEF Placed
  <2>2. ASSUME NEW i \in 1..Len(cstack)
        PROVE  Placed(cstack[i])'
    <3>1. cstack'[i] = cstack[i] /\ Placed(cstack[i]) /\ cstack[i].thr # t /\ cstack[i] \in CFrame
      BY <1>1, <1>4 DEF Frames
    <3>2. cstack[i].thr \in Thread /\ cstack[i].ecurr \in Thread \cup {NONE}
      BY <3>1, FrameType
    <3>3. tstate'[cstack[i].thr] = tstate[cstack[i].thr]
      BY <3>1, <3>2, <1>2
    <3>4. Cross(cstack[i]) /\ cstack[i].ecurr # NONE => tstate'[cstack[i].ecurr] = "running" /\ cstack[i].ecurr # t
      BY <3>1, <3>2, <1>2 DEF Placed
    <3> QED
      BY <3>1, <3>3, <3>4, <1>f DEF Placed
  <2> QED
    BY <2>1, <2>2, <1>5, PushedFrames
<1>8. States'
  <2>2. ASSUME NEW u \in Thread, tstate'[u] = "running"
        PROVE  u = curr' \/ \E i \in 1..Len(cstack') : Cross(cstack'[i]) /\ cstack'[i].ecurr = u
    <3>0. \A i \in 1..n : i \in 1..Len(cstack') /\ cstack'[i] = cstack[i]
      BY <1>1
    <3>1. CASE u = t
      BY <3>1, <1>f
    <3>2. CASE u = curr
      BY <3>2, <1>1, <1>f
    <3>3. CASE u # t /\ u # curr
      <4>1. \E i \in 1..n : Cross(cstack[i]) /\ cstack[i].ecurr = u
        BY <2>2, <3>3, <1>2 DEF States
      <4> QED
        BY <4>1, <3>0
    <3> QED
      BY <3>1, <3>2, <3>3
  <2>3. ASSUME NEW u \in Thread
        PROVE  /\ tstate'[u] = "resumed" <=> \E v \in Thread : resumer[v] = u
               /\ resumer[u] # NONE => tstate'[u] \in {"running", "resumed"}
               /\ \A v \in Thread : resumer[u] = resumer[v] /\ u # v => resumer[u] = NONE
               /\ ~(resumer[u] # NONE /\ callstack[u] = <<>>)
    <3>1. CASE u = t
      <4>1. tstate[t] = "resumed" <=> \E v \in Thread : resumer[v] = t
        BY <1>f DEF States
      <4> QED
        BY <4>1, <3>1, <1>3, <1>t
    <3>2. CASE u # t
      BY <3>2, <1>2 DEF States
    <3> QED
      BY <3>1, <3>2
  <2> QED
    BY <2>2, <2>3, <1>f, <1>3 DEF States
<1>9. Keep(n)
  <2>1. \A i \in 1..n : Same(cstack[i], cstack'[i])
    BY <1>1 DEF Same
  <2>2. n <= Len(cstack)
    BY <1>1
  <2> QED
    BY <2>1, <2>2, <1>1, KeepIf
<1>10. Match' /\ Levels'
  <2>1. cstack # <<>> => Level(Frame, callstack'[curr], Len(callstack'[curr]))
    <3>1. cstack # <<>> => /\ Frame = cstack[n] /\ n \in 1..n /\ Ctx(n) = curr
                           /\ Depth(n) = Len(callstack[curr])
      <4>1. cstack # <<>> => curr \in Thread
        BY <1>c DEF Frames
      <4> QED
        BY <4>1, FrameIs
    <3> QED
      BY <3>1 DEF Levels
  <2>2. MatchF(f, callstack'[t]) /\ Level(f, callstack'[t], Len(callstack'[t]))
    <3>1. Len(callstack'[t]) = 0 /\ 0 + 0 <= 0
      BY <1>t
    <3>2. f.kind # "native" /\ f.kind # "exec"
      BY <1>f DEF CallKinds
    <3> QED
      BY <3>1, <3>2, <1>f, <1>t DEF MatchF, Level
  <2> QED
    BY <2>1, <2>2, <1>9, <1>f, PushedLevels
<1>11. Owned'
  <2>1. ASSUME NEW u \in Thread, NEW k \in 1..Len(callstack'[u]),
               callstack'[u][k].prevent, callstack'[u][k].fn \in {"ecma", "native"}
        PROVE  HasFrame(u, k)'
    <3>0. k \in Nat
      <4>1. callstack'[u] \in Seq(Activation)
        BY DEF TypeOK
      <4> QED
        BY <4>1
    <3>1. HasFrame(u, k)
      BY <2>1 DEF Owned, Lost
    <3> QED
      BY <3>1, <3>0, PushedHas
  <2> QED
    BY <2>1 DEF Owned
<1>12. Acts'
  BY DEF Acts
<1>13. Shape'
  <2>1. ASSUME NEW u \in Thread
        PROVE  ShapeOf(u)'
    <3>1. CASE u # t
      <4>1. preventcount'[u] = preventcount[u] /\ tstate'[u] = tstate[u]
        BY <3>1, <1>2 DEF TypeOK
      <4> QED
        BY <4>1 DEF Shape, ShapeOf
    <3>2. CASE u = t
      BY <3>2, <1>3 DEF ShapeOf
    <3> QED
      BY <3>1, <3>2
  <2> QED
    BY <2>1 DEF Shape
<1>14. PreventExact'
  <2>1. callstack' \in [Thread -> Seq(Activation)]
    BY DEF TypeOK
  <2>2. Cardinality(PreventSet(callstack'[f.thr])) = Cardinality(PreventSet(callstack[f.thr])) + Bonus(f)
    <3>1. Cardinality(PreventSet(callstack[f.thr])) \in Nat
      BY <1>f, CountsNat DEF TypeOK
    <3> QED
      BY <3>1, <1>f
  <2> QED
    BY <2>1, <2>2, PushedCounts
<1>15. PfExact' /\ Pending'
  <2>1. pf' = Cardinality(FinSet(cstack')) + 0
    BY <1>1, CountsNat
  <2> QED
    BY <2>1 DEF PfExact, FinSet, Running, Pending
<1>16. Chained'
  <2>1. FramesAre(n + 1)
    BY <1>1 DEF FramesAre, Same
  <2>2. ChainOK(h, d)'
    BY <2>1, <1>h, <1>1, <1>f, ChainPush
  <2> QED
    BY <2>2 DEF Chained
<1> QED
  BY <1>6, <1>7, <1>8, <1>10, <1>11, <1>12, <1>13, <1>14, <1>15, <1>16

LEMMA HandleCallStep ==
  ASSUME ThreadInv, NEW fn \in {"ecma", "native"}, HandleCall(fn)
  PROVE  ThreadInv'
<1> DEFINE s == callstack[curr]
           r == callstack'[curr]
           n == Len(s)
           a == Act(fn, TRUE)
<1> USE DEF ThreadInv, Base
<1>0. PICK f : f = CallFrame(IF fn = "ecma" THEN "exec" ELSE "native", curr)
  OBVIOUS
<1>1. /\ lj.type = "none" /\ cstack # <<>> /\ curr \in Thread /\ ~Frame.delayed
      /\ s \in Seq(Activation) /\ n \in Nat
  BY CodeFacts DEF HandleCall
<1>2. tstate[curr] = "running"
  BY <1>1, ThreadAssumption DEF States
<1>3. /\ f.kind = (IF fn = "ecma" THEN "exec" ELSE "native") /\ f.thr = curr /\ f.ecurr = curr
      /\ f.estate = "running" /\ f.top = n /\ f.delayed = FALSE
  BY <1>0, <1>2 DEF CallFrame
<1>4. f \in CFrame
  BY <1>0, <1>1, <1>2 DEF CallFrame, CFrame
<1>5. f.kind \in CallKinds /\ Bonus(f) = 1 /\ f.kind \notin SafeKinds
  BY <1>3 DEF CallKinds, Bonus, SafeKinds
<1>6. PushedFrame(f)
  BY <1>0, <1>3, <1>4 DEF PushedFrame, HandleCall, WithinLimits
<1>7. a \in Activation /\ a.fn = fn /\ a.prevent /\ a.cats = <<>>
  BY ActIs
<1>8. callstack' = [callstack EXCEPT ![curr] = Append(@, a)] /\ n < MaxCall
  BY DEF HandleCall, WithinLimits
<1> HIDE DEF a
<1>9. /\ callstack' \in [Thread -> Seq(Activation)] /\ OnlyCurr /\ Callstack(r) /\ Carries(s, r)
      /\ Len(r) = n + 1 /\ r[n + 1] = a /\ \A k \in 1..n : r[k] = s[k]
      /\ Cardinality(PreventSet(r)) = Cardinality(PreventSet(s)) + (IF a.prevent THEN 1 ELSE 0)
  BY <1>1, <1>7, <1>8, PushIs
<1>10. MatchF(f, r) /\ Level(f, r, Len(r))
  <2>1. n + 1 <= n + 1 /\ n + 1 >= 1
    BY <1>1
  <2> HIDE DEF r, n
  <2> QED
    BY <2>1, <1>3, <1>5, <1>7, <1>9 DEF MatchF, Level
<1>11. pf' = Cardinality(FinSet(cstack'))
  <2>1. cstack \in Seq(CFrame) /\ cstack' = Append(cstack, f) /\ f.kind # "fin"
    BY <1>6, <1>5 DEF TypeOK, PushedFrame, CallKinds
  <2>2. Cardinality(FinSet(cstack')) = Cardinality(FinSet(cstack)) + 0
    BY <2>1, <1>1, <1>4, FramePush
  <2>3. Cardinality(FinSet(cstack)) \in Nat /\ pf = Cardinality(FinSet(cstack))
    BY <1>1, PfIs DEF Running
  <2> QED
    BY <2>2, <2>3 DEF HandleCall
<1>12. Cardinality(PreventSet(r)) = Cardinality(PreventSet(s)) + Bonus(f)
  BY <1>5, <1>7, <1>9
<1>13. /\ preventcount' = [preventcount EXCEPT ![curr] = @ + 1] /\ tstate' = tstate
       /\ resumer' = resumer /\ lj' = lj /\ armed' = armed
  BY DEF HandleCall
<1>14. Len(r) = f.top + Bonus(f)
  BY <1>3, <1>5, <1>9
<1> HIDE DEF n
<1> QED
  BY <1>1, <1>3, <1>6, <1>9, <1>10, <1>11, <1>12, <1>13, <1>14, InnerPush DEF n

\* A protected call enters thread t.
LEMMA SafeEnter ==
  ASSUME ThreadInv, Running, NEW t \in Thread, NEW kind \in SafeKinds, MayEnter(t), Len(cstack) < MaxC,
         cstack' = Append(cstack, CallFrame(kind, t)), curr' = t, tstate' = [tstate EXCEPT ![t] = "running"],
         preventcount' = [preventcount EXCEPT ![t] = @ + 1], pf' = (IF kind = "fin" THEN pf + 1 ELSE pf),
         resumer' = resumer, callstack' = callstack, lj' = lj, armed' = armed,
         cstack # <<>> /\ Frame.delayed => kind = "fin"
  PROVE  ThreadInv'
<1> USE DEF ThreadInv, Base
<1>0. PICK f : f = CallFrame(kind, t)
  OBVIOUS
<1>1. /\ callstack[t] \in Seq(Activation) /\ Len(callstack[t]) \in Nat /\ lj.type = "none"
      /\ tstate[t] \in {"inactive", "running"}
  BY DEF TypeOK, Running, MayEnter
<1>3. /\ f.kind = kind /\ f.thr = t /\ f.ecurr = curr
      /\ f.estate = tstate[t] /\ f.top = Len(callstack[t]) /\ f.delayed = FALSE
  BY <1>0 DEF CallFrame
<1>4. f \in CFrame
  BY <1>0, <1>1 DEF CallFrame, CFrame, TypeOK, SafeKinds
<1>5. f.kind \notin CallKinds /\ Bonus(f) = 0 /\ f.kind \in SafeKinds
  BY <1>3 DEF CallKinds, Bonus, SafeKinds
<1>6. PushedFrame(f)
  BY <1>0, <1>3, <1>4 DEF PushedFrame
<1>7. pf' = Cardinality(FinSet(cstack'))
  <2>1. cstack \in Seq(CFrame) /\ cstack' = Append(cstack, f)
    BY <1>0 DEF TypeOK
  <2>2. Cardinality(FinSet(cstack')) = Cardinality(FinSet(cstack)) + (IF kind = "fin" THEN 1 ELSE 0)
    BY <2>1, <1>3, <1>4, FramePush
  <2>3. Cardinality(FinSet(cstack)) \in Nat /\ pf = Cardinality(FinSet(cstack))
    BY PfIs
  <2> QED
    BY <2>2, <2>3
<1>8. CASE t # curr
  BY <1>8, <1>1, <1>3, <1>5, <1>6, <1>7, CrossPush DEF MayEnter
<1>9. CASE t = curr
  <2> DEFINE s == callstack[curr]
             r == callstack'[curr]
  <2>1. tstate[curr] = "running" /\ curr \in Thread
    BY <1>9 DEF MayEnter
  <2>2. cstack # <<>> /\ tstate' = tstate
    BY <1>9, <2>1, ThreadAssumption DEF Frames, TypeOK
  <2>3. callstack' \in [Thread -> Seq(Activation)] /\ OnlyCurr
    BY DEF TypeOK, OnlyCurr
  <2>4. Callstack(r)
    BY <2>1 DEF TypeOK, Callstack, Acts
  <2>5. Carries(s, r)
    <3>1. ASSUME NEW i \in 1..Len(cstack), cstack[i].thr = curr
          PROVE  KeepActs(s, r, cstack[i].top + Bonus(cstack[i]))
      <4>1. cstack[i] \in CFrame /\ MatchF(cstack[i], s) /\ s \in Seq(Activation)
        BY <3>1, <2>1 DEF TypeOK, Match
      <4> QED
        BY <4>1, KeepRefl
    <3> QED
      BY <3>1 DEF Carries
  <2>6. Len(r) = f.top + Bonus(f) /\ Len(r) = f.top
    BY <1>1, <1>3, <1>5, <1>9
  <2>7. MatchF(f, r) /\ Level(f, r, Len(r))
    <3>1. f.top + Bonus(f) <= Len(r)
      BY <2>6, <1>1, <1>9
    <3>2. f.kind # "native" /\ f.kind # "exec"
      BY <1>5 DEF CallKinds
    <3> QED
      BY <3>1, <3>2, <2>6, <1>5 DEF MatchF, Level
  <2>8. Cardinality(PreventSet(r)) = Cardinality(PreventSet(s)) + Bonus(f)
    <3>1. Cardinality(PreventSet(s)) \in Nat
      BY <2>1, CountsNat DEF TypeOK
    <3> QED
      BY <3>1, <1>5
  <2> QED
    BY <1>1, <1>3, <1>6, <1>7, <1>9, <2>1, <2>2, <2>3, <2>4, <2>5, <2>6, <2>7, <2>8, InnerPush
<1> QED
  BY <1>8, <1>9

LEMMA SafeCallStep ==
  ASSUME ThreadInv, NEW t \in Thread, SafeCall(t)
  PROVE  ThreadInv'
<1>1. cstack # <<>> => ~Frame.delayed
  <2>1. cstack # <<>> => In({"safe", "fin", "native"})
    BY DEF SafeCall, In
  <2> QED
    BY <2>1, NotDelayed
<1>2. "safe" \in SafeKinds
  BY DEF SafeKinds
<1> QED
  BY <1>1, <1>2, SafeEnter DEF SafeCall

LEMMA RunFinalizerStep ==
  ASSUME ThreadInv, RunFinalizer
  PROVE  ThreadInv'
<1>1. "fin" \in SafeKinds /\ MAIN \in Thread
  BY ThreadAssumption DEF SafeKinds
<1> QED
  BY <1>1, SafeEnter DEF RunFinalizer

-----------------------------------------------------------------------------
(* The end of a frame.                                                     *)

\* The innermost frame is left, in the thread it was entered for.
PoppedFrame ==
  /\ cstack # <<>> /\ Frame.thr = curr /\ Epilogue(Frame) /\ resumer' = resumer
  /\ callstack' \in [Thread -> Seq(Activation)] /\ OnlyCurr
  /\ ActPrefix(callstack[curr], callstack'[curr], Frame.top)

LEMMA PoppedIs ==
  ASSUME ThreadInv, PoppedFrame, NEW n, n = Len(cstack)
  PROVE  /\ n \in Nat \ {0} /\ n - 1 \in Nat /\ cstack' \in Seq(CFrame) /\ Len(cstack') = n - 1
         /\ \A i \in 1..n - 1 : cstack'[i] = cstack[i] /\ i \in 1..n /\ i # n /\ i < n /\ i \in Nat
         /\ cstack[n] = Frame /\ Frame \in CFrame /\ curr \in Thread /\ n \in 1..n
         /\ FrameOK(Frame, n) /\ Placed(Frame) /\ curr' = Frame.ecurr /\ curr' \in Thread \cup {NONE}
         /\ \A i \in 1..n - 1 : PairOK(cstack[i], Frame) /\ cstack[i] \in CFrame /\ Placed(cstack[i])
         /\ \A i \in 1..n : i \in 1..n - 1 \/ i = n
<1> USE DEF ThreadInv, Base
<1>1. cstack \in Seq(CFrame) /\ cstack # <<>> /\ cstack' = Front(cstack)
  BY DEF TypeOK, PoppedFrame, Epilogue
<1>2. Frame = cstack[n] /\ Frame \in CFrame /\ n \in 1..n /\ n \in Nat \ {0}
  BY <1>1, FrameIs
<1>3. Frame.thr = curr /\ Frame.thr \in Thread /\ Frame.ecurr \in Thread \cup {NONE} /\ curr' = Frame.ecurr
  BY <1>2, FrameType DEF PoppedFrame, Epilogue
<1>4. /\ cstack' \in Seq(CFrame) /\ Len(cstack') = n - 1 /\ \A i \in 1..n - 1 : cstack'[i] = cstack[i]
  BY <1>1, <1>3, FramePop
<1>5. n - 1 \in Nat /\ \A i \in 1..n - 1 : i \in 1..n /\ i # n /\ i < n /\ i \in Nat
  BY <1>2
<1>6. \A i \in 1..n : i \in 1..n - 1 \/ i = n
  BY <1>2
<1>7. FrameOK(Frame, n) /\ Placed(Frame)
  BY <1>2 DEF Frames, StackOK
<1>8. \A i \in 1..n - 1 : PairOK(cstack[i], Frame) /\ cstack[i] \in CFrame /\ Placed(cstack[i])
  BY <1>1, <1>2, <1>5 DEF Frames, StackOK
<1> QED
  BY <1>1, <1>2, <1>3, <1>4, <1>5, <1>6, <1>7, <1>8

\* Who runs after the end of a frame.
LEMMA PoppedThreads ==
  ASSUME ThreadInv, PoppedFrame
  PROVE  /\ \A u \in Thread : u # curr => tstate'[u] = tstate[u]
         /\ ~Cross(Frame) => tstate' = tstate /\ curr' = curr
         /\ Cross(Frame) => /\ tstate'[curr] = "inactive" /\ curr' # curr /\ Frame.top = 0
                            /\ callstack'[curr] = <<>> /\ resumer[curr] = NONE /\ Frame.kind \in SafeKinds
                            /\ \A i \in 1..Len(cstack') : cstack'[i].thr # curr
         /\ tstate[curr] = "running" /\ tstate' \in [Thread -> {"inactive", "running", "resumed", "yielded", "terminated"}]
         /\ curr' # NONE => tstate'[curr'] = "running"
<1> USE DEF ThreadInv, Base
<1>0. PICK n : n = Len(cstack)
  OBVIOUS
<1>1. /\ n \in Nat \ {0} /\ Len(cstack') = n - 1 /\ \A i \in 1..n - 1 : cstack'[i] = cstack[i]
      /\ Frame \in CFrame /\ curr \in Thread /\ FrameOK(Frame, n) /\ Placed(Frame) /\ curr' = Frame.ecurr
      /\ curr' \in Thread \cup {NONE} /\ \A i \in 1..n - 1 : PairOK(cstack[i], Frame)
  BY <1>0, PoppedIs
<1>2. tstate' = [tstate EXCEPT ![curr] = Frame.estate] /\ Frame.thr = curr /\ ActPrefix(callstack[curr], callstack'[curr], Frame.top)
  BY DEF PoppedFrame, Epilogue
<1>3. tstate \in [Thread -> {"inactive", "running", "resumed", "yielded", "terminated"}] /\ tstate[curr] = "running"
  BY <1>1, ThreadAssumption DEF TypeOK, States
<1>4. Frame.estate \in {"inactive", "running"}
  BY <1>1, FrameType
<1>5. \A u \in Thread : u # curr => tstate'[u] = tstate[u]
  BY <1>2, <1>3
<1>6. tstate' \in [Thread -> {"inactive", "running", "resumed", "yielded", "terminated"}]
  BY <1>2, <1>3, <1>4
<1>7. ~Cross(Frame) => tstate' = tstate /\ curr' = curr
  BY <1>1, <1>2, <1>3 DEF FrameOK, Cross
<1>8. Cross(Frame) => /\ tstate'[curr] = "inactive" /\ curr' # curr /\ Frame.top = 0
                      /\ resumer[curr] = NONE /\ Frame.kind \in SafeKinds
  <2>1. Cross(Frame) => Frame.kind \in SafeKinds
    BY <1>1, FrameType DEF FrameOK, CallKinds, SafeKinds
  <2> QED
    BY <2>1, <1>1, <1>2, <1>3 DEF FrameOK, Cross, Placed
<1>9. Cross(Frame) => callstack'[curr] = <<>>
  BY <1>2, <1>8 DEF ActPrefix
<1>10. Cross(Frame) => \A i \in 1..Len(cstack') : cstack'[i].thr # curr
  BY <1>1, <1>2 DEF PairOK
<1>11. curr' # NONE => tstate'[curr'] = "running"
  <2>1. CASE ~Cross(Frame)
    BY <2>1, <1>3, <1>7
  <2>2. CASE Cross(Frame)
    BY <2>2, <1>1, <1>5, <1>8 DEF Placed
  <2> QED
    BY <2>1, <2>2
<1> QED
  BY <1>3, <1>5, <1>6, <1>7, <1>8, <1>9, <1>10, <1>11

LEMMA PoppedFrames ==
  ASSUME ThreadInv, PoppedFrame, lj'.type = "none"
  PROVE  Frames'
<1> USE DEF ThreadInv, Base
<1>0. PICK n : n = Len(cstack)
  OBVIOUS
<1>1. /\ n \in Nat \ {0} /\ n - 1 \in Nat /\ cstack' \in Seq(CFrame) /\ Len(cstack') = n - 1
      /\ \A i \in 1..n - 1 : cstack'[i] = cstack[i] /\ i \in 1..n /\ i # n /\ i < n /\ i \in Nat
      /\ Frame \in CFrame /\ curr \in Thread /\ FrameOK(Frame, n) /\ curr' = Frame.ecurr
      /\ \A i \in 1..n - 1 : PairOK(cstack[i], Frame) /\ cstack[i] \in CFrame /\ Placed(cstack[i])
  BY <1>0, PoppedIs
<1>2. /\ \A u \in Thread : u # curr => tstate'[u] = tstate[u]
      /\ ~Cross(Frame) => tstate' = tstate /\ curr' = curr
      /\ Cross(Frame) => \A i \in 1..Len(cstack') : cstack'[i].thr # curr
  BY PoppedThreads
<1>3. StackOK(cstack')
  <2>1. Len(cstack') <= Len(cstack)
    BY <1>0, <1>1
  <2>2. SameFrames(cstack, cstack', Len(cstack'))
    <3>1. ASSUME NEW i \in 1..n - 1
          PROVE  Same(cstack[i], cstack'[i]) /\ (cstack'[i].delayed => cstack'[i].kind = "exec")
      <4>1. cstack'[i] = cstack[i] /\ i \in 1..n
        BY <1>1
      <4>2. FrameOK(cstack[i], i)
        BY <4>1, <1>0 DEF Frames, StackOK
      <4> QED
        BY <4>1, <4>2 DEF Same, FrameOK
    <3> QED
      BY <3>1, <1>1 DEF SameFrames
  <2> QED
    BY <2>1, <2>2, <1>1, StackPrefix DEF Frames, TypeOK
<1>4. DelaysOK(cstack')
  <2>1. ASSUME NEW i \in 1..n - 1, cstack'[i].delayed, i # n - 1
        PROVE  cstack'[i + 1].kind = "fin"
    <3>1. cstack'[i] = cstack[i] /\ i \in 1..n /\ i # n
      BY <1>1
    <3>2. cstack[i + 1].kind = "fin"
      BY <2>1, <3>1, <1>0 DEF Frames, DelaysOK
    <3>3. i + 1 \in 1..n - 1
      BY <2>1, <1>1
    <3> QED
      BY <3>2, <3>3, <1>1
  <2> QED
    BY <2>1, <1>1 DEF DelaysOK
<1>5. cstack' = <<>> <=> curr' = NONE
  <2>1. cstack' = <<>> <=> n - 1 = 0
    BY <1>1
  <2>2. n - 1 = 0 <=> n = 1
    BY <1>1
  <2> QED
    BY <2>1, <2>2, <1>1 DEF FrameOK
<1>6. ASSUME NEW i \in 1..Len(cstack')
      PROVE  Placed(cstack[i])'
  <2>1. cstack'[i] = cstack[i] /\ Placed(cstack[i]) /\ cstack[i] \in CFrame /\ PairOK(cstack[i], Frame)
    BY <1>1
  <2>2. cstack[i].thr \in Thread /\ cstack[i].ecurr \in Thread \cup {NONE}
    BY <2>1, FrameType
  <2>3. tstate'[cstack[i].thr] = tstate[cstack[i].thr]
    BY <2>1, <2>2, <1>2
  <2>4. Cross(cstack[i]) /\ cstack[i].ecurr # NONE => tstate'[cstack[i].ecurr] = "running"
    BY <2>1, <2>2, <1>2 DEF Placed
  <2>5. Cross(cstack[i]) /\ cstack[i].ecurr # NONE => cstack[i].ecurr # curr'
    <3>1. CASE Cross(Frame)
      BY <3>1, <2>1, <1>1 DEF PairOK
    <3>2. CASE ~Cross(Frame)
      BY <3>2, <2>1, <1>2 DEF Placed
    <3> QED
      BY <3>1, <3>2
  <2>6. resumer' = resumer
    BY DEF PoppedFrame
  <2> QED
    BY <2>1, <2>3, <2>4, <2>5, <2>6 DEF Placed
<1>7. Running'
  BY DEF Running
<1> QED
  BY <1>3, <1>4, <1>5, <1>6, <1>7 DEF Frames

LEMMA PoppedStates ==
  ASSUME ThreadInv, PoppedFrame
  PROVE  States'
<1> USE DEF ThreadInv, Base
<1>0. PICK n : n = Len(cstack)
  OBVIOUS
<1>1. /\ n \in Nat \ {0} /\ n - 1 \in Nat /\ Len(cstack') = n - 1
      /\ \A i \in 1..n - 1 : cstack'[i] = cstack[i]
      /\ cstack[n] = Frame /\ Frame \in CFrame /\ curr \in Thread /\ Placed(Frame) /\ curr' = Frame.ecurr
      /\ \A i \in 1..n : i \in 1..n - 1 \/ i = n
  BY <1>0, PoppedIs
<1>2. /\ \A u \in Thread : u # curr => tstate'[u] = tstate[u]
      /\ ~Cross(Frame) => tstate' = tstate /\ curr' = curr
      /\ Cross(Frame) => tstate'[curr] = "inactive" /\ resumer[curr] = NONE
      /\ curr' # NONE => tstate'[curr'] = "running"
      /\ tstate[curr] = "running"
  BY PoppedThreads
<1>3. resumer' = resumer /\ Frame.thr = curr /\ OnlyCurr /\ ActPrefix(callstack[curr], callstack'[curr], Frame.top)
  BY DEF PoppedFrame
<1>4. ASSUME NEW u \in Thread, tstate'[u] = "running"
      PROVE  u = curr' \/ \E i \in 1..Len(cstack') : Cross(cstack'[i]) /\ cstack'[i].ecurr = u
  <2>1. CASE u = curr
    BY <2>1, <1>2, <1>4
  <2>2. CASE u # curr
    <3>1. PICK i \in 1..n : Cross(cstack[i]) /\ cstack[i].ecurr = u
      BY <2>2, <1>0, <1>2, <1>4 DEF States
    <3> QED
      BY <3>1, <1>1
  <2> QED
    BY <2>1, <2>2
<1>5. ASSUME NEW u \in Thread
      PROVE  /\ tstate'[u] = "resumed" <=> \E v \in Thread : resumer[v] = u
             /\ resumer[u] # NONE => tstate'[u] \in {"running", "resumed"}
             /\ \A v \in Thread : resumer[u] = resumer[v] /\ u # v => resumer[u] = NONE
  <2>1. /\ tstate[u] = "resumed" <=> \E v \in Thread : resumer[v] = u
        /\ resumer[u] # NONE => tstate[u] \in {"running", "resumed"}
        /\ \A v \in Thread : resumer[u] = resumer[v] /\ u # v => resumer[u] = NONE
    BY DEF States
  <2> QED
    BY <2>1, <1>2
<1>6. ASSUME NEW u \in Thread, resumer[u] # NONE
      PROVE  callstack'[u] # <<>>
  <2>1. CASE u # curr
    BY <2>1, <1>3, <1>6 DEF States, OnlyCurr
  <2>2. CASE u = curr
    <3>1. Frame.top >= 1 /\ Frame.top \in Nat
      BY <2>2, <1>1, <1>3, <1>6, FrameType DEF Placed
    <3> QED
      BY <3>1, <2>2, <1>3 DEF ActPrefix
  <2> QED
    BY <2>1, <2>2
<1> QED
  BY <1>2, <1>3, <1>4, <1>5, <1>6 DEF States

\* Every frame that is left finds its activation, and the code below goes on where
\* it was left.
LEMMA PoppedLevels ==
  ASSUME ThreadInv, PoppedFrame
  PROVE  Match' /\ Levels'
<1> USE DEF ThreadInv, Base
<1>0. PICK n : n = Len(cstack)
  OBVIOUS
<1>1. /\ n \in Nat \ {0} /\ n - 1 \in Nat /\ Len(cstack') = n - 1 /\ cstack[n] = Frame /\ Frame \in CFrame
      /\ \A i \in 1..n - 1 : cstack'[i] = cstack[i] /\ i \in 1..n /\ i # n /\ i < n /\ i \in Nat
      /\ curr \in Thread /\ curr' = Frame.ecurr
      /\ \A i \in 1..n - 1 : PairOK(cstack[i], Frame) /\ cstack[i] \in CFrame
  BY <1>0, PoppedIs
<1>2. /\ ~Cross(Frame) => curr' = curr
      /\ Cross(Frame) => curr' # curr
  BY PoppedThreads
<1>3. Frame.thr = curr /\ OnlyCurr /\ ActPrefix(callstack[curr], callstack'[curr], Frame.top) /\ Frame.top \in Nat
  BY <1>1, FrameType DEF PoppedFrame
<1>4. PICK m \in Nat : m = n - 1
  BY <1>1
<1>5. Keep(m)
  <2>1. \A i \in 1..m : Same(cstack[i], cstack'[i])
    BY <1>1, <1>4 DEF Same
  <2>2. ASSUME NEW i \in 1..m, cstack[i].thr = curr
        PROVE  KeepActs(callstack[curr], callstack'[curr], cstack[i].top + Bonus(cstack[i]))
    <3> DEFINE x == cstack[i].top + Bonus(cstack[i])
    <3>1. x <= Frame.top
      <4>1. PairOK(cstack[i], Frame) /\ cstack[i] \in CFrame
        BY <1>1, <1>4
      <4>2. cstack[i].top \in Nat /\ cstack[i].top <= Frame.top /\ (cstack[i].kind \in CallKinds => cstack[i].top < Frame.top)
        BY <4>1, <2>2, <1>3, FrameType DEF PairOK
      <4> QED
        BY <4>2, <1>3 DEF Bonus
    <3>2. x \in Nat
      BY <1>1, <1>4, FrameType
    <3> HIDE DEF x
    <3>3. \A l \in 1..x : l \in 1..Frame.top
      BY <3>1, <3>2, <1>3
    <3>4. KeepActs(callstack[curr], callstack'[curr], x)
      BY <3>1, <3>3, <1>3 DEF KeepActs, SameAct, ActPrefix
    <3> QED
      BY <3>4 DEF x
  <2>3. m <= Len(cstack)
    BY <1>0, <1>1, <1>4
  <2> QED
    BY <2>1, <2>2, <2>3, <1>3, KeepCurr
<1>6. m <= Len(cstack) /\ m <= Len(cstack') /\ Len(cstack') = m
  BY <1>0, <1>1, <1>4
<1>7. Match'
  <2>1. \A i \in 1..m : MatchF(cstack'[i], callstack'[cstack'[i].thr])
    BY <1>5, <1>6, KeepMatch
  <2> QED
    BY <2>1, <1>6 DEF Match
<1>8. Levels'
  <2>1. ASSUME NEW i \in 1..m
        PROVE  Level(cstack'[i], callstack'[Ctx(i)'], Depth(i)')
    <3>0. i \in Nat /\ cstack'[i] = cstack[i] /\ i < n /\ i # n /\ i \in 1..n
      BY <1>1, <1>4
    <3>1. CASE i # m
      BY <3>0, <3>1, <1>5, <1>6, KeepLevels DEF Frames
    <3>2. CASE i = m
      <4>1. i + 1 = n /\ i # Len(cstack) /\ i < Len(cstack) /\ i \in 1..Len(cstack)
        BY <3>0, <3>2, <1>0, <1>1, <1>4
      <4>2. Ctx(i) = Frame.ecurr /\ Depth(i) = IF Cross(Frame) THEN Len(callstack[Frame.ecurr]) ELSE Frame.top
        BY <4>1, <1>1 DEF Ctx, Depth
      <4>3. Level(cstack[i], callstack[Frame.ecurr], IF Cross(Frame) THEN Len(callstack[Frame.ecurr]) ELSE Frame.top)
        BY <4>1, <4>2 DEF Levels
      <4>4. Ctx(i)' = Frame.ecurr /\ Depth(i)' = Len(callstack'[Frame.ecurr])
        BY <3>2, <1>1, <1>6 DEF Ctx, Depth
      <4>5. CASE Cross(Frame)
        <5>1. Frame.ecurr \in Thread
          <6>1. curr' \in Thread \cup {NONE} /\ FrameOK(Frame, n)
            BY <1>0, PoppedIs
          <6>2. n # 1
            BY <3>0, <4>1
          <6> QED
            BY <6>1, <6>2, <1>1 DEF FrameOK
        <5>2. callstack'[Frame.ecurr] = callstack[Frame.ecurr]
          BY <5>1, <4>5, <1>1, <1>2, <1>3 DEF OnlyCurr
        <5> QED
          BY <5>2, <4>3, <4>4, <4>5, <3>0
      <4>6. CASE ~Cross(Frame)
        <5>1. Frame.ecurr = curr
          BY <4>6, <1>3 DEF Cross
        <5>2. Len(callstack'[curr]) = Frame.top /\ \A k \in 1..Frame.top : callstack'[curr][k] = callstack[curr][k]
          BY <1>3 DEF ActPrefix
        <5>3. Frame.top >= 1 => Frame.top \in 1..Frame.top
          BY <1>3
        <5>4. Level(cstack[i], callstack[curr], Frame.top)
          BY <4>3, <4>6, <5>1
        <5>5. Level(cstack[i], callstack'[curr], Frame.top)
          BY <5>2, <5>3, <5>4 DEF Level
        <5> QED
          BY <5>1, <5>2, <5>5, <4>4, <3>0
      <4> QED
        BY <4>5, <4>6
    <3> QED
      BY <3>1, <3>2
  <2> QED
    BY <2>1, <1>6 DEF Levels
<1> QED
  BY <1>7, <1>8

LEMMA PoppedOwned ==
  ASSUME ThreadInv, PoppedFrame
  PROVE  Owned'
<1> USE DEF ThreadInv, Base
<1>0. PICK n : n = Len(cstack)
  OBVIOUS
<1>1. /\ n \in Nat \ {0} /\ Len(cstack') = n - 1 /\ cstack[n] = Frame /\ Frame \in CFrame
      /\ \A i \in 1..n - 1 : cstack'[i] = cstack[i]
      /\ \A i \in 1..n : i \in 1..n - 1 \/ i = n
  BY <1>0, PoppedIs
<1>3. Frame.thr = curr /\ OnlyCurr /\ ActPrefix(callstack[curr], callstack'[curr], Frame.top) /\ Frame.top \in Nat
  BY <1>1, FrameType DEF PoppedFrame
<1>4. ASSUME NEW t \in Thread, NEW k \in 1..Len(callstack'[t]),
             callstack'[t][k].prevent, callstack'[t][k].fn \in {"ecma", "native"}
      PROVE  HasFrame(t, k)'
  <2>1. k \in Nat /\ callstack'[t][k] = callstack[t][k] /\ k \in 1..Len(callstack[t]) /\ (t = curr => k <= Frame.top)
    <3>0. callstack[t] \in Seq(Activation) /\ callstack'[t] \in Seq(Activation)
      BY DEF TypeOK, PoppedFrame
    <3>1. CASE t # curr
      BY <3>0, <3>1, <1>3 DEF OnlyCurr
    <3>2. CASE t = curr
      <4>1. k \in 1..Frame.top /\ callstack'[t][k] = callstack[t][k]
        BY <3>2, <1>3 DEF ActPrefix
      <4>2. Frame.top <= Len(callstack[t])
        <5>1. MatchF(Frame, callstack[curr]) /\ Frame.top + Bonus(Frame) \in Nat /\ Bonus(Frame) \in {0, 1}
          <6>1. n \in 1..n
            BY <1>1
          <6> QED
            BY <6>1, <1>0, <1>1, <1>3, FrameType DEF Match
        <5>2. Frame.top + Bonus(Frame) <= Len(callstack[t])
          BY <5>1, <3>2 DEF MatchF
        <5>3. Len(callstack[t]) \in Nat
          BY <3>0
        <5> QED
          BY <5>1, <5>2, <5>3, <1>3
      <4>3. Len(callstack[t]) \in Nat
        BY <3>0
      <4> QED
        BY <4>1, <4>2, <4>3, <1>3
    <3> QED
      BY <3>1, <3>2
  <2>2. HasFrame(t, k) \/ Lost(t, k)
    BY <2>1, <1>4 DEF Owned
  <2>3. ~Lost(t, k)
    BY <2>1, <1>3 DEF Lost
  <2>4. PICK i \in 1..n : cstack[i].thr = t /\ cstack[i].top = k - 1 /\ cstack[i].kind \in CallKinds
    BY <2>2, <2>3, <1>0 DEF HasFrame
  <2>5. i # n
    <3>1. i = n => t = curr /\ Frame.top = k - 1
      BY <2>4, <1>1, <1>3
    <3> QED
      BY <3>1, <2>1, <1>3
  <2>6. i \in 1..Len(cstack') /\ cstack'[i] = cstack[i]
    BY <2>5, <1>1
  <2> QED
    BY <2>4, <2>6 DEF HasFrame
<1> QED
  BY <1>4 DEF Owned

LEMMA PopStep ==
  ASSUME ThreadInv, PoppedFrame, lj' \in Lj, lj'.type = "none", armed' \in BOOLEAN,
         pf' = Cardinality(FinSet(cstack')), preventcount' \in [Thread -> Nat],
         \A u \in Thread : u # curr => preventcount'[u] = preventcount[u],
         preventcount'[curr] = Cardinality(PreventSet(callstack'[curr])) + Cardinality(SafeSet(cstack', curr))
  PROVE  ThreadInv'
<1> USE DEF ThreadInv, Base
<1>h. PICK h \in [Thread -> Nat], d \in [Thread -> Nat] : ChainOK(h, d)
  BY DEF Chained
<1>0. PICK n : n = Len(cstack)
  OBVIOUS
<1>1. /\ n \in Nat \ {0} /\ n - 1 \in Nat /\ cstack' \in Seq(CFrame) /\ Len(cstack') = n - 1
      /\ \A i \in 1..n - 1 : cstack'[i] = cstack[i]
      /\ cstack[n] = Frame /\ Frame \in CFrame /\ curr \in Thread /\ n \in 1..n
      /\ curr' = Frame.ecurr /\ curr' \in Thread \cup {NONE}
  BY <1>0, PoppedIs
<1>2. /\ \A u \in Thread : u # curr => tstate'[u] = tstate[u]
      /\ ~Cross(Frame) => tstate' = tstate
      /\ Cross(Frame) => /\ tstate'[curr] = "inactive" /\ callstack'[curr] = <<>>
                         /\ \A i \in 1..Len(cstack') : cstack'[i].thr # curr
      /\ tstate[curr] = "running"
      /\ tstate' \in [Thread -> {"inactive", "running", "resumed", "yielded", "terminated"}]
  BY PoppedThreads
<1>3. /\ Frame.thr = curr /\ OnlyCurr /\ ActPrefix(callstack[curr], callstack'[curr], Frame.top) /\ resumer' = resumer
      /\ callstack' \in [Thread -> Seq(Activation)]
  BY DEF PoppedFrame
<1>t. Frame.top \in 0..Len(callstack[curr])
  <2>1. MatchF(Frame, callstack[curr]) /\ Frame.top \in Nat /\ Bonus(Frame) \in {0, 1}
    BY <1>0, <1>1, <1>3, FrameType DEF Match
  <2>2. Len(callstack[curr]) \in Nat
    BY <1>1 DEF TypeOK
  <2>3. Frame.top + Bonus(Frame) <= Len(callstack[curr])
    BY <2>1 DEF MatchF
  <2> QED
    BY <2>1, <2>2, <2>3
<1>6. TypeOK'
  <2>1. ASSUME NEW t \in Thread
        PROVE  Len(callstack'[t]) <= MaxCall /\ \A k \in DOMAIN callstack'[t] : Len(callstack'[t][k].cats) <= MaxStmt
    <3>1. CASE t # curr
      BY <3>1, <1>3 DEF OnlyCurr, TypeOK
    <3>2. CASE t = curr
      <4>1. /\ DOMAIN callstack'[t] = 1..Len(callstack'[t]) /\ Len(callstack'[t]) = Frame.top
            /\ \A k \in 1..Frame.top : callstack'[t][k] = callstack[t][k]
        BY <3>2, <1>3 DEF ActPrefix
      <4>2. Len(callstack[t]) <= MaxCall /\ \A k \in 1..Len(callstack[t]) : Len(callstack[t][k].cats) <= MaxStmt
        BY SMTT(30) DEF TypeOK
      <4>3. Len(callstack[t]) \in Nat
        BY DEF TypeOK
      <4>4. Frame.top <= MaxCall /\ \A k \in 1..Frame.top : k \in 1..Len(callstack[t])
        BY <4>2, <4>3, <3>2, <1>t, ThreadAssumption
      <4> QED
        BY <4>1, <4>2, <4>4
    <3> QED
      BY <3>1, <3>2
  <2>2. pf' \in Nat
    BY <1>1, CountsNat
  <2>3. Len(cstack') <= MaxC
    <3>1. n <= MaxC
      BY <1>0 DEF TypeOK
    <3> QED
      BY <3>1, <1>1, ThreadAssumption
  <2>4. resumer' \in [Thread -> Thread \cup {NONE}]
    BY <1>3 DEF TypeOK
  <2> QED
    BY <2>1, <2>2, <2>3, <2>4, <1>1, <1>2, <1>3 DEF TypeOK, Lj
<1>7. Frames' /\ States' /\ Match' /\ Levels' /\ Owned'
  BY PoppedFrames, PoppedStates, PoppedLevels, PoppedOwned
<1>8. Acts'
  <2>1. ActsOK(callstack[curr]) /\ callstack[curr] \in Seq(Activation)
    BY <1>1 DEF Acts, TypeOK
  <2>2. ActsOK(callstack'[curr])
    BY <2>1, <1>3, <1>t, PrefixActs
  <2> QED
    BY <2>2, <1>3 DEF Acts, OnlyCurr
<1>9. Shape'
  <2>1. ASSUME NEW t \in Thread
        PROVE  ShapeOf(t)'
    <3>1. CASE t # curr
      BY <3>1, <1>2, <1>3 DEF Shape, ShapeOf, OnlyCurr
    <3>2. CASE t = curr /\ ~Cross(Frame)
      BY <3>2, <1>2 DEF ShapeOf
    <3>3. CASE t = curr /\ Cross(Frame)
      <4>1. callstack'[t] = <<>> /\ tstate'[t] = "inactive"
        BY <3>3, <1>2
      <4>2. PreventSet(callstack'[t]) = {} /\ SafeSet(cstack', t) = {}
        <5>1. DOMAIN cstack' = 1..Len(cstack')
          BY <1>1
        <5> QED
          BY <4>1, <5>1, <3>3, <1>2 DEF PreventSet, SafeSet
      <4>3. preventcount'[t] = 0 + 0
        BY <4>2, <3>3, FS_EmptySet
      <4> QED
        BY <4>1, <4>3 DEF ShapeOf
    <3> QED
      BY <3>1, <3>2, <3>3
  <2> QED
    BY <2>1 DEF Shape
<1>10. PreventExact'
  <2>1. ASSUME NEW t \in Thread
        PROVE  preventcount'[t] = Cardinality(PreventSet(callstack'[t])) + Cardinality(SafeSet(cstack', t))
    <3>1. CASE t = curr
      BY <3>1
    <3>2. CASE t # curr
      <4>1. preventcount[t] = Cardinality(PreventSet(callstack[t])) + Cardinality(SafeSet(cstack, t))
        BY PreventIs
      <4>2. cstack \in Seq(CFrame) /\ cstack # <<>> /\ cstack' = Front(cstack) /\ Last(cstack) = Frame
        BY DEF TypeOK, PoppedFrame, Epilogue, Frame
      <4>3. Cardinality(SafeSet(cstack, t)) = Cardinality(SafeSet(cstack', t)) + 0
        BY <4>2, <3>2, <1>3, FramePop
      <4>4. Cardinality(SafeSet(cstack', t)) \in Nat
        BY <1>1, CountsNat
      <4> QED
        BY <4>1, <4>3, <4>4, <3>2, <1>3 DEF OnlyCurr
    <3> QED
      BY <3>1, <3>2
  <2> QED
    BY <2>1 DEF PreventExact, PreventSet, SafeSet
<1>11. PfExact' /\ Pending'
  <2>1. pf' = Cardinality(FinSet(cstack')) + 0
    BY <1>1, CountsNat
  <2> QED
    BY <2>1 DEF PfExact, FinSet, Running, Pending
<1>12. Chained'
  <2>0. PICK m \in Nat : m = n - 1
    BY <1>1
  <2>1. FramesAre(m)
    BY <2>0, <1>1 DEF FramesAre, Same
  <2>2. \A i \in m + 1..Len(cstack) : i = n
    BY <2>0, <1>0, <1>1
  <2>3. Ctx(n) = curr /\ m + 1 = n /\ m < Len(cstack)
    BY <2>0, <1>0, <1>1, FrameIs DEF PoppedFrame
  <2>4. ChainOK(h, d)'
    BY <2>0, <2>1, <2>2, <2>3, <1>h, <1>1, <1>3, ChainCut
  <2> QED
    BY <2>4 DEF Chained
<1> QED
  BY <1>6, <1>7, <1>8, <1>9, <1>10, <1>11, <1>12

\* The protected calls and finalizers left after the end of a frame.
LEMMA PoppedCounts ==
  ASSUME ThreadInv, cstack # <<>>, cstack' = Front(cstack), curr \in Thread, Frame.thr = curr
  PROVE  /\ Cardinality(SafeSet(cstack', curr)) \in Nat /\ Cardinality(FinSet(cstack')) \in Nat
         /\ Cardinality(SafeSet(cstack, curr)) =
              Cardinality(SafeSet(cstack', curr)) + (IF Frame.kind \in SafeKinds THEN 1 ELSE 0)
         /\ Cardinality(FinSet(cstack)) = Cardinality(FinSet(cstack')) + (IF Frame.kind = "fin" THEN 1 ELSE 0)
<1>1. cstack \in Seq(CFrame)
  BY DEF ThreadInv, Base, TypeOK
<1>2. /\ cstack' \in Seq(CFrame)
      /\ Cardinality(SafeSet(cstack, curr)) = Cardinality(SafeSet(cstack', curr))
           + (IF Last(cstack).kind \in {"safe", "fin"} /\ Last(cstack).thr = curr THEN 1 ELSE 0)
      /\ Cardinality(FinSet(cstack)) = Cardinality(FinSet(cstack')) + (IF Last(cstack).kind = "fin" THEN 1 ELSE 0)
  BY <1>1, FramePop
<1>3. Cardinality(SafeSet(cstack', curr)) \in Nat /\ Cardinality(FinSet(cstack')) \in Nat
  BY <1>2, CountsNat
<1> QED
  BY <1>2, <1>3 DEF Frame, SafeKinds

\* A call returns: its activation and its frame go together.
LEMMA CallReturn ==
  ASSUME ThreadInv, cstack # <<>>, Frame.thr = curr, Frame.kind \in CallKinds, Goes,
         Len(callstack[curr]) = Frame.top + 1, Epilogue(Frame), UnwindTo(curr, Frame.top), resumer' = resumer
  PROVE  ThreadInv'
<1> USE DEF ThreadInv, Base
<1>1. Frame \in CFrame /\ curr \in Thread /\ Frame.top \in Nat
  BY FrameIs, FrameType
<1>2. Frame.top \in 0..Len(callstack[curr])
  BY <1>1
<1>3. /\ callstack' \in [Thread -> Seq(Activation)]
      /\ \A u \in Thread : u # curr => callstack'[u] = callstack[u] /\ preventcount'[u] = preventcount[u]
      /\ ActPrefix(callstack[curr], callstack'[curr], Frame.top)
      /\ preventcount' \in [Thread -> Nat]
      /\ preventcount'[curr] = Cardinality(PreventSet(callstack'[curr])) + Cardinality(SafeSet(cstack, curr))
  BY <1>1, <1>2, UnwindIs
<1>4. PoppedFrame
  BY <1>3 DEF PoppedFrame, OnlyCurr
<1>5. Cardinality(SafeSet(cstack, curr)) = Cardinality(SafeSet(cstack', curr))
      /\ Cardinality(FinSet(cstack)) = Cardinality(FinSet(cstack'))
  <2>1. cstack' = Front(cstack) /\ Frame.kind \notin SafeKinds /\ Frame.kind # "fin"
    BY DEF Epilogue, CallKinds, SafeKinds
  <2> QED
    BY <2>1, <1>1, PoppedCounts
<1> QED
  BY <1>3, <1>4, <1>5, PopStep DEF Goes

LEMMA NativeReturnStep ==
  ASSUME ThreadInv, NativeReturn
  PROVE  ThreadInv'
<1>1. /\ cstack # <<>> /\ Frame.kind = "native" /\ Frame.thr = curr
      /\ Level(Frame, callstack[curr], Len(callstack[curr])) /\ Frame \in CFrame
  BY CodeFacts DEF NativeReturn
<1>2. Len(callstack[curr]) = Frame.top + 1 /\ Len(callstack[curr]) - 1 = Frame.top
  <2>1. Frame.top \in Nat
    BY <1>1, FrameType
  <2> QED
    BY <2>1, <1>1 DEF Level
<1>3. Goes
  BY GoesOn DEF NativeReturn, InC
<1>4. Epilogue(Frame) /\ UnwindTo(curr, Frame.top) /\ resumer' = resumer
  BY <1>1, <1>2 DEF NativeReturn
<1> QED
  BY <1>1, <1>2, <1>3, <1>4, CallReturn DEF CallKinds

LEMMA SafeReturnStep ==
  ASSUME ThreadInv, SafeReturn
  PROVE  ThreadInv'
<1> USE DEF ThreadInv, Base
<1>1. /\ cstack # <<>> /\ Frame.kind \in SafeKinds /\ Frame.thr = curr /\ curr \in Thread
      /\ Level(Frame, callstack[curr], Len(callstack[curr])) /\ Frame \in CFrame
      /\ callstack[curr] \in Seq(Activation) /\ Running
  BY CodeFacts DEF SafeReturn, SafeKinds, InC
<1>2. Len(callstack[curr]) = Frame.top
  BY <1>1 DEF Level
<1>3. /\ Epilogue(Frame) /\ resumer' = resumer /\ callstack' = callstack /\ lj' = lj /\ armed' = armed
      /\ preventcount' = [preventcount EXCEPT ![curr] = @ - 1]
      /\ pf' = IF Frame.kind = "fin" THEN pf - 1 ELSE pf
  BY <1>1 DEF SafeReturn
<1>4. PoppedFrame
  BY <1>1, <1>2, <1>3 DEF PoppedFrame, OnlyCurr, ActPrefix, TypeOK
<1> DEFINE x == Cardinality(PreventSet(callstack[curr]))
           y == Cardinality(SafeSet(cstack, curr))
           y1 == Cardinality(SafeSet(cstack', curr))
           z == Cardinality(FinSet(cstack))
           z1 == Cardinality(FinSet(cstack'))
           p == preventcount[curr]
<1>5. y1 \in Nat /\ z1 \in Nat /\ y = y1 + 1 /\ z = z1 + (IF Frame.kind = "fin" THEN 1 ELSE 0)
  BY <1>1, <1>3, PoppedCounts DEF Epilogue
<1>6. p = x + y /\ x \in Nat /\ pf = z
  BY <1>1, PreventIs, PfIs, CountsNat DEF TypeOK
<1>7. \A u \in Thread : u # curr => preventcount'[u] = preventcount[u]
  BY <1>3 DEF TypeOK
<1>8. preventcount'[curr] = p - 1 /\ preventcount \in [Thread -> Nat]
  BY <1>1, <1>3 DEF TypeOK
<1> HIDE DEF x, y, y1, z, z1, p
<1>9. p - 1 = x + y1 /\ p - 1 \in Nat
  BY <1>5, <1>6
<1>10. pf' = z1
  BY <1>3, <1>5, <1>6
<1>11. preventcount' \in [Thread -> Nat]
  BY <1>3, <1>8, <1>9 DEF p
<1>12. preventcount'[curr] = Cardinality(PreventSet(callstack'[curr])) + Cardinality(SafeSet(cstack', curr))
  BY <1>3, <1>8, <1>9 DEF x, y1
<1>13. lj' \in Lj /\ lj'.type = "none" /\ armed' \in BOOLEAN
  BY <1>1, <1>3 DEF TypeOK, Lj, Running
<1> QED
  BY <1>4, <1>7, <1>10, <1>11, <1>12, <1>13, PopStep DEF z1

LEMMA SafeErrorStep ==
  ASSUME ThreadInv, SafeError
  PROVE  ThreadInv'
<1> USE DEF ThreadInv, Base
<1>h. PICK h \in [Thread -> Nat], d \in [Thread -> Nat] : ChainOK(h, d)
  BY DEF Chained
<1>1. cstack # <<>> /\ Frame.kind \in SafeKinds /\ ~Running /\ curr \in Thread
  BY DEF SafeError, In, SafeKinds, Frames, TypeOK
<1>2. /\ Frame = cstack[Len(cstack)] /\ Len(cstack) \in 1..Len(cstack) /\ Ctx(Len(cstack)) = curr /\ Frame \in CFrame
  BY <1>1, FrameIs
<1>3. Frame.thr = curr
  BY <1>h, <1>1, <1>2 DEF ChainOK, SafeKinds
<1>4. Frame.top \in Nat /\ Frame.top \in 0..Len(callstack[curr])
  <2>1. MatchF(Frame, callstack[curr]) /\ Frame.top \in Nat /\ Bonus(Frame) \in {0, 1}
    BY <1>2, <1>3, FrameType DEF Match
  <2>2. Len(callstack[curr]) \in Nat
    BY <1>1 DEF TypeOK
  <2>3. Frame.top + Bonus(Frame) <= Len(callstack[curr])
    BY <2>1 DEF MatchF
  <2> QED
    BY <2>1, <2>2, <2>3
<1> DEFINE r == SubSeq(callstack[curr], 1, Frame.top)
           q == PreventUnwound(curr, Frame.top)
<1>5. /\ Epilogue(Frame) /\ resumer' = resumer /\ armed' = armed /\ lj' = NoLj
      /\ callstack' = [callstack EXCEPT ![curr] = r]
      /\ preventcount' = [preventcount EXCEPT ![curr] = q - 1]
      /\ pf' = IF Frame.kind = "fin" THEN pf - 2 ELSE pf - 1
  BY <1>3 DEF SafeError, Unwound
<1>6. /\ ActPrefix(callstack[curr], r, Frame.top) /\ q \in Nat
      /\ q = Cardinality(PreventSet(r)) + Cardinality(SafeSet(cstack, curr))
  BY <1>1, <1>4, UnwoundIs
<1> HIDE DEF r, q
<1>7. r \in Seq(Activation)
  BY <1>6 DEF ActPrefix
<1>8. callstack' \in [Thread -> Seq(Activation)] /\ callstack'[curr] = r /\ OnlyCurr
  BY <1>1, <1>5, <1>7 DEF TypeOK, OnlyCurr
<1>9. PoppedFrame
  BY <1>1, <1>3, <1>5, <1>6, <1>8 DEF PoppedFrame
<1> DEFINE x == Cardinality(PreventSet(r))
           y == Cardinality(SafeSet(cstack, curr))
           y1 == Cardinality(SafeSet(cstack', curr))
           z == Cardinality(FinSet(cstack))
           z1 == Cardinality(FinSet(cstack'))
<1>10. y1 \in Nat /\ z1 \in Nat /\ y = y1 + 1 /\ z = z1 + (IF Frame.kind = "fin" THEN 1 ELSE 0)
  BY <1>1, <1>3, <1>5, PoppedCounts DEF Epilogue
<1>11. x \in Nat /\ pf = z + 1
  BY <1>1, <1>7, PfIs, CountsNat
<1>12. q = x + y
  BY <1>6
<1> HIDE DEF x, y, y1, z, z1
<1>13. q - 1 = x + y1 /\ q - 1 \in Nat
  BY <1>10, <1>11, <1>12
<1>14. pf' = z1
  <2>1. CASE Frame.kind = "fin"
    <3>1. z = z1 + 1 /\ pf' = pf - 2
      BY <2>1, <1>5, <1>10
    <3> QED
      BY <3>1, <1>10, <1>11
  <2>2. CASE Frame.kind # "fin"
    <3>1. z = z1 + 0 /\ pf' = pf - 1
      BY <2>2, <1>5, <1>10
    <3> QED
      BY <3>1, <1>10, <1>11
  <2> QED
    BY <2>1, <2>2
<1>15. /\ preventcount' \in [Thread -> Nat] /\ preventcount'[curr] = q - 1
       /\ \A u \in Thread : u # curr => preventcount'[u] = preventcount[u]
  BY <1>1, <1>5, <1>13 DEF TypeOK
<1>16. preventcount'[curr] = Cardinality(PreventSet(callstack'[curr])) + Cardinality(SafeSet(cstack', curr))
  BY <1>8, <1>13, <1>15 DEF x, y1
<1>17. lj' \in Lj /\ lj'.type = "none" /\ armed' \in BOOLEAN
  BY <1>5, LjTypes DEF TypeOK
<1> QED
  BY <1>9, <1>14, <1>15, <1>16, <1>17, PopStep DEF z1

-----------------------------------------------------------------------------
(* Switching threads.                                                      *)

\* After the step a longjmp is still being handled, or bytecode runs.
LjAfter ==
  /\ lj' \in Lj /\ lj'.type \in {"none", "throw"} /\ armed' \in BOOLEAN
  /\ pf' = Cardinality(FinSet(cstack)) + (IF lj'.type = "none" THEN 0 ELSE 1)
  /\ lj'.type # "none" => ~Running

\* Only thread t's activations change: it may have new ones that do not prevent a
\* yield, and when bytecode goes on in it, it does so in an ECMAScript activation.
OnlyStack(t) ==
  /\ callstack' \in [Thread -> Seq(Activation)] /\ preventcount' \in [Thread -> Nat]
  /\ \A u \in Thread : u # t => callstack'[u] = callstack[u] /\ preventcount'[u] = preventcount[u]
Started(t) ==
  /\ Callstack(callstack'[t])
  /\ preventcount'[t] = Cardinality(PreventSet(callstack'[t])) + Cardinality(SafeSet(cstack, t))
  /\ lj'.type = "none" => callstack'[t] # <<>> /\ callstack'[t][Len(callstack'[t])].fn = "ecma"
  /\ \A k \in 1..Len(callstack'[t]) :
       \/ k \in 1..Len(callstack[t]) /\ callstack'[t][k] = callstack[t][k]
       \/ ~callstack'[t][k].prevent

\* The current thread resumes t.
LEMMA SwitchStep ==
  ASSUME ThreadInv, In({"exec"}), lj.type = "resume", NEW t \in Thread, t = lj.thr, SwitchTo(t),
         OnlyStack(t), Started(t), cstack' = cstack, LjAfter
  PROVE  ThreadInv'
<1> USE DEF ThreadInv, Base
<1>h. PICK h \in [Thread -> Nat], d \in [Thread -> Nat] : ChainOK(h, d)
  BY DEF Chained
<1>0. PICK n \in Nat : n = Len(cstack)
  BY HandlingFacts
<1>1. /\ cstack # <<>> /\ Frame.kind = "exec" /\ curr \in Thread /\ Frame = cstack[n] /\ n \in 1..n
      /\ \A i \in 1..n : cstack[i] \in CFrame
  BY <1>0, HandlingFacts DEF In, TypeOK
<1>2. /\ resumer' = [resumer EXCEPT ![t] = curr] /\ curr' = t
      /\ tstate' = [tstate EXCEPT ![t] = "running", ![curr] = "resumed"]
  BY DEF SwitchTo
<1>3. /\ tstate[t] \in {"inactive", "yielded"} /\ tstate[curr] = "running"
      /\ OnEcma(callstack[curr], "resume") /\ ~Running
  BY <1>1, ThreadAssumption DEF Pending, States, Running
<1>4. t # curr /\ curr # NONE /\ t # NONE
  BY <1>1, <1>3, ThreadAssumption
<1>5. resumer[t] = NONE /\ \A u \in Thread : resumer[u] # t
  BY <1>3 DEF States
<1>6. \A i \in 1..n : cstack[i].thr # t /\ Placed(cstack[i])
  BY <1>0, <1>3 DEF Frames, Placed
<1>7. /\ tstate'[t] = "running" /\ tstate'[curr] = "resumed" /\ \A u \in Thread : u # t /\ u # curr => tstate'[u] = tstate[u]
      /\ tstate' \in [Thread -> {"inactive", "running", "resumed", "yielded", "terminated"}]
  BY <1>1, <1>2, <1>4 DEF TypeOK
<1>8. /\ resumer'[t] = curr /\ \A u \in Thread : u # t => resumer'[u] = resumer[u]
      /\ resumer' \in [Thread -> Thread \cup {NONE}]
  BY <1>1, <1>2 DEF TypeOK
<1>10. TypeOK'
  <2>1. ASSUME NEW u \in Thread
        PROVE  Len(callstack'[u]) <= MaxCall /\ \A k \in DOMAIN callstack'[u] : Len(callstack'[u][k].cats) <= MaxStmt
    <3>1. CASE u # t
      BY <3>1 DEF TypeOK, OnlyStack
    <3>2. CASE u = t
      <4>1. DOMAIN callstack'[u] = 1..Len(callstack'[u])
        BY DEF OnlyStack
      <4> QED
        BY <3>2, <4>1 DEF Callstack, Started
    <3> QED
      BY <3>1, <3>2
  <2>2. pf' \in Nat
    <3>1. Cardinality(FinSet(cstack)) \in Nat
      BY PfIs
    <3> QED
      BY <3>1 DEF LjAfter
  <2>3. curr' \in Thread \cup {NONE}
    BY <1>2
  <2> QED
    BY <2>1, <2>2, <2>3, <1>7, <1>8 DEF TypeOK, LjAfter, Lj, OnlyStack
<1>11. Frames'
  <2>1. ASSUME NEW i \in 1..n
        PROVE  Placed(cstack[i])'
    <3>1. Placed(cstack[i]) /\ cstack[i].thr # t /\ cstack[i].thr \in Thread /\ cstack[i].ecurr \in Thread \cup {NONE}
      BY <1>1, <1>6, FrameType
    <3>2. resumer'[cstack[i].thr] = resumer[cstack[i].thr]
      BY <3>1, <1>8
    <3>3. tstate'[cstack[i].thr] \in {"running", "resumed"}
      BY <3>1, <1>7 DEF Placed
    <3>4. Cross(cstack[i]) /\ cstack[i].ecurr # NONE => tstate'[cstack[i].ecurr] = "running" /\ cstack[i].ecurr # t
      BY <3>1, <1>3, <1>7 DEF Placed
    <3> QED
      BY <3>1, <3>2, <3>3, <3>4, <1>2 DEF Placed
  <2>2. Frame' = Frame /\ ~Frame.delayed
    BY <1>3 DEF Frame, Frames
  <2> QED
    BY <2>1, <2>2, <1>0, <1>1, <1>2, <1>4 DEF Frames
<1>12. States'
  <2>1. ASSUME NEW u \in Thread, tstate'[u] = "running"
        PROVE  u = curr' \/ \E i \in 1..Len(cstack') : Cross(cstack'[i]) /\ cstack'[i].ecurr = u
    <3>1. CASE u = t
      BY <3>1, <1>2
    <3>2. CASE u = curr
      BY <3>2, <2>1, <1>7
    <3>3. CASE u # t /\ u # curr
      BY <3>3, <2>1, <1>7 DEF States
    <3> QED
      BY <3>1, <3>2, <3>3
  <2>2. ASSUME NEW u \in Thread
        PROVE  tstate'[u] = "resumed" <=> \E v \in Thread : resumer'[v] = u
    <3>1. CASE u = t
      BY <3>1, <1>4, <1>5, <1>7, <1>8
    <3>2. CASE u = curr
      BY <3>2, <1>7, <1>8
    <3>3. CASE u # t /\ u # curr
      <4>1. tstate[u] = "resumed" <=> \E v \in Thread : resumer[v] = u
        BY DEF States
      <4>2. \A v \in Thread : resumer'[v] = u <=> resumer[v] = u
        BY <3>3, <1>5, <1>8, ThreadAssumption
      <4> QED
        BY <4>1, <4>2, <3>3, <1>7
    <3> QED
      BY <3>1, <3>2, <3>3
  <2>3. ASSUME NEW u \in Thread, resumer'[u] # NONE
        PROVE  tstate'[u] \in {"running", "resumed"}
    <3>1. CASE u = t \/ u = curr
      BY <3>1, <1>7
    <3>2. CASE u # t /\ u # curr
      BY <3>2, <2>3, <1>7, <1>8 DEF States
    <3> QED
      BY <3>1, <3>2
  <2>4. \A u \in Thread : resumer[u] # curr
    BY <1>1, <1>3 DEF States
  <2>5. ASSUME NEW u \in Thread, NEW v \in Thread, resumer'[u] = resumer'[v], u # v
        PROVE  resumer'[u] = NONE
    <3>1. CASE u = t
      BY <3>1, <2>4, <2>5, <1>8
    <3>2. CASE v = t
      BY <3>2, <2>4, <2>5, <1>8
    <3>3. CASE u # t /\ v # t
      <4>1. resumer[u] = resumer[v] /\ u # v
        BY <3>3, <2>5, <1>8
      <4>2. resumer[u] = NONE
        BY <4>1 DEF States
      <4> QED
        BY <4>2, <3>3, <1>8
    <3> QED
      BY <3>1, <3>2, <3>3
  <2>6. ASSUME NEW u \in Thread, resumer'[u] # NONE, callstack'[u] = <<>>
        PROVE  u = curr' /\ lj'.type = "throw"
    <3>1. CASE u = t
      BY <3>1, <2>6, <1>2 DEF LjAfter, Started
    <3>2. CASE u # t
      <4>1. resumer[u] # NONE /\ callstack[u] = <<>>
        BY <3>2, <2>6, <1>8 DEF OnlyStack
      <4> QED
        BY <4>1 DEF States
    <3> QED
      BY <3>1, <3>2
  <2>7. curr' # NONE => tstate'[curr'] = "running"
    BY <1>2, <1>7
  <2> QED
    BY <2>1, <2>2, <2>3, <2>5, <2>6, <2>7 DEF States
<1>13. Keep(n)
  <2>1. \A i \in 1..n : Same(cstack[i], cstack'[i])
    BY DEF Same
  <2>2. ASSUME NEW i \in 1..n
        PROVE  /\ callstack'[cstack[i].thr] = callstack[cstack[i].thr]
               /\ Cross(cstack[i]) /\ cstack[i].ecurr # NONE => callstack'[cstack[i].ecurr] = callstack[cstack[i].ecurr]
    <3>1. Placed(cstack[i]) /\ cstack[i].thr # t /\ cstack[i].thr \in Thread /\ cstack[i].ecurr \in Thread \cup {NONE}
      BY <1>1, <1>6, FrameType
    <3> QED
      BY <3>1, <1>3 DEF Placed, OnlyStack
  <2>3. n <= Len(cstack)
    BY <1>0
  <2> QED
    BY <2>1, <2>2, <2>3, KeepIf
<1>a. n <= Len(cstack) /\ n <= Len(cstack') /\ Len(cstack') \in Nat /\ \A i \in 1..n : i \in Nat
  BY <1>0
<1>14. Match'
  <2>1. \A i \in 1..n : MatchF(cstack'[i], callstack'[cstack'[i].thr])
    BY <1>13, <1>a, KeepMatch, Zenon
  <2> QED
    BY <2>1, <1>0 DEF Match
<1>15. Levels'
  <2>1. ASSUME NEW i \in 1..n, i # n
        PROVE  Level(cstack'[i], callstack'[Ctx(i)'], Depth(i)')
    BY <2>1, <1>13, <1>a, KeepLevels, Zenon DEF Frames
  <2>2. Ctx(n)' = t /\ Depth(n)' = Len(callstack'[t])
    BY <1>0, <1>2 DEF Ctx, Depth
  <2>3. lj'.type \in {"none", "return"} => Level(cstack'[n], callstack'[Ctx(n)'], Depth(n)')
    <3>1. lj'.type \in {"none", "return"} => lj'.type = "none"
      BY DEF LjAfter
    <3>2. lj'.type = "none" => Len(callstack'[t]) >= 1 /\ callstack'[t][Len(callstack'[t])].fn = "ecma"
      BY DEF OnlyStack, Started
    <3>3. lj'.type = "none" => Level(cstack[n], callstack'[t], Len(callstack'[t]))
      BY <3>2, <1>1 DEF Level, SafeKinds
    <3> QED
      BY <3>1, <3>3, <2>2
  <2>4. \A i \in 1..n : i < n => i # n
    BY <1>0
  <2> QED
    BY <2>1, <2>3, <2>4, <1>0 DEF Levels
<1>16. Owned'
  <2>1. ASSUME NEW u \in Thread, NEW k \in 1..Len(callstack'[u]),
               callstack'[u][k].prevent, callstack'[u][k].fn \in {"ecma", "native"}
        PROVE  HasFrame(u, k)'
    <3>1. k \in 1..Len(callstack[u]) /\ callstack'[u][k] = callstack[u][k]
      BY <2>1 DEF OnlyStack, Started
    <3>2. HasFrame(u, k)
      BY <2>1, <3>1 DEF Owned, Lost
    <3> QED
      BY <3>2 DEF HasFrame
  <2> QED
    BY <2>1 DEF Owned
<1>17. Acts'
  BY DEF Acts, Callstack, OnlyStack, Started
<1>18. Shape'
  <2>1. ASSUME NEW u \in Thread
        PROVE  ShapeOf(u)'
    <3>1. CASE u = t
      BY <3>1, <1>7 DEF ShapeOf
    <3>2. CASE u = curr
      BY <3>2, <1>3, <1>4, <1>7 DEF ShapeOf, OnlyStack
    <3>3. CASE u # t /\ u # curr
      BY <3>3, <1>7 DEF Shape, ShapeOf, OnlyStack
    <3> QED
      BY <3>1, <3>2, <3>3
  <2> QED
    BY <2>1 DEF Shape
<1>19. PreventExact'
  <2>1. \A u \in Thread : preventcount[u] =
          Cardinality(PreventSet(callstack[u])) + Cardinality(SafeSet(cstack, u))
    BY PreventIs
  <2>2. \A u \in Thread : preventcount'[u] =
          Cardinality(PreventSet(callstack'[u])) + Cardinality(SafeSet(cstack', u))
    BY <2>1 DEF OnlyStack, Started
  <2> QED
    BY <2>2 DEF PreventExact, PreventSet, SafeSet
<1>20. PfExact' /\ Pending'
  <2>1. pf' = Cardinality(FinSet(cstack')) + (IF Running' THEN 0 ELSE 1)
    BY DEF LjAfter, Running
  <2> QED
    BY <2>1 DEF PfExact, FinSet, Pending, LjAfter
<1>21. Chained'
  BY <1>h, <1>0, <1>1, <1>2, <1>4, <1>5, <1>6, ChainSwitch
<1> QED
  BY <1>10, <1>11, <1>12, <1>14, <1>15, <1>16, <1>17, <1>18, <1>19, <1>20, <1>21

LEMMA ResumeFacts ==
  ASSUME ThreadInv, Handling("resume")
  PROVE  /\ In({"exec"}) /\ lj.type = "resume" /\ lj.thr \in Thread /\ tstate[lj.thr] \in {"inactive", "yielded"}
         /\ callstack[lj.thr] \in Seq(Activation) /\ Callstack(callstack[lj.thr]) /\ ~Running
         /\ preventcount[lj.thr] = Cardinality(PreventSet(callstack[lj.thr])) + Cardinality(SafeSet(cstack, lj.thr))
         /\ 1 <= MaxCall
<1> USE DEF ThreadInv, Base
<1>1. In({"exec"}) /\ lj.type = "resume" /\ ~Running /\ curr \in Thread
  BY HandlingFacts DEF Handling, Running
<1>2. lj.thr \in Thread /\ tstate[lj.thr] \in {"inactive", "yielded"} /\ OnEcma(callstack[curr], "resume")
  BY <1>1 DEF Pending
<1>3. callstack[lj.thr] \in Seq(Activation) /\ Callstack(callstack[lj.thr])
  BY <1>2 DEF TypeOK, Callstack, Acts
<1>4. preventcount[lj.thr] = Cardinality(PreventSet(callstack[lj.thr])) + Cardinality(SafeSet(cstack, lj.thr))
  BY <1>2, PreventIs
<1>5. 1 <= MaxCall
  <2>1. Len(callstack[curr]) \in Nat /\ Len(callstack[curr]) >= 2 /\ Len(callstack[curr]) <= MaxCall
    BY <1>1, <1>2 DEF TypeOK, OnEcma
  <2> QED
    BY <2>1, ThreadAssumption
<1> QED
  BY <1>1, <1>2, <1>3, <1>4, <1>5

LEMMA HandleResumeErrorStep ==
  ASSUME ThreadInv, HandleResumeError
  PROVE  ThreadInv'
<1> USE DEF ThreadInv, Base
<1>0. PICK t : t = lj.thr
  OBVIOUS
<1>1. /\ In({"exec"}) /\ lj.type = "resume" /\ t \in Thread /\ Callstack(callstack[t]) /\ ~Running
      /\ preventcount[t] = Cardinality(PreventSet(callstack[t])) + Cardinality(SafeSet(cstack, t))
  BY <1>0, ResumeFacts DEF HandleResumeError
<1>2. SwitchTo(t) /\ callstack' = callstack /\ preventcount' = preventcount /\ cstack' = cstack
  BY <1>0 DEF HandleResumeError
<1>3. LjAfter
  <2>1. lj' = Thrown /\ pf' = pf /\ armed' = armed
    BY DEF HandleResumeError
  <2>2. pf = Cardinality(FinSet(cstack)) + 1
    BY <1>1, PfIs
  <2> QED
    BY <2>1, <2>2, <1>1, LjTypes DEF LjAfter, TypeOK
<1>4. OnlyStack(t)
  BY <1>2 DEF OnlyStack, TypeOK
<1>5. Started(t)
  <2>1. lj'.type # "none"
    BY LjTypes DEF HandleResumeError
  <2> QED
    BY <2>1, <1>1, <1>2 DEF Started
<1> QED
  BY <1>0, <1>1, <1>2, <1>3, <1>4, <1>5, SwitchStep

\* A thread goes on after its yield().
LEMMA ResumeYielded ==
  ASSUME ThreadInv, HandleResume, tstate[lj.thr] = "yielded", NEW t \in Thread, t = lj.thr
  PROVE  OnlyStack(t) /\ Started(t)
<1> USE DEF ThreadInv, Base
<1> DEFINE s == callstack[t]
           r == callstack'[t]
           m == Len(s) - 1
<1>1. s \in Seq(Activation) /\ Callstack(s) /\ UnwindTo(t, m) /\ Handling("resume")
  BY ResumeFacts DEF HandleResume
<1>2. OnEcma(s, "yield")
  BY DEF Shape, ShapeOf
<1>3. Len(s) \in Nat /\ Len(s) >= 2 /\ s[m].fn = "ecma"
  BY <1>1, <1>2 DEF OnEcma
<1>4. m \in 0..Len(s) /\ m \in 1..m /\ m >= 1 /\ \A k \in 1..m : k \in 1..Len(s)
  BY <1>3
<1>5. /\ callstack' \in [Thread -> Seq(Activation)]
      /\ \A u \in Thread : u # t => callstack'[u] = callstack[u] /\ preventcount'[u] = preventcount[u]
      /\ ActPrefix(s, r, m) /\ preventcount' \in [Thread -> Nat]
      /\ preventcount'[t] = Cardinality(PreventSet(r)) + Cardinality(SafeSet(cstack, t))
  BY <1>1, <1>4, UnwindIs
<1>6. OnlyStack(t)
  BY <1>5 DEF OnlyStack
<1>7. r \in Seq(Activation) /\ Len(r) = m /\ \A k \in 1..m : r[k] = s[k]
  BY <1>5 DEF ActPrefix
<1>8. Callstack(r)
  <2>1. Len(r) <= MaxCall
    BY <1>1, <1>3, <1>7, ThreadAssumption DEF Callstack
  <2>2. ActsOK(r)
    <3>1. ActsOK(s)
      BY <1>1 DEF Callstack
    <3> HIDE DEF s, r, m
    <3> QED
      BY <3>1, <1>1, <1>4, <1>5, PrefixActs
  <2>3. \A k \in 1..m : Len(s[k].cats) <= MaxStmt
    BY <1>1, <1>4 DEF Callstack
  <2> QED
    BY <2>1, <2>2, <2>3, <1>7 DEF Callstack
<1>9. r # <<>> /\ r[Len(r)].fn = "ecma"
  <2> HIDE DEF r, s, m
  <2> QED
    BY <1>3, <1>4, <1>7
<1> QED
  BY <1>4, <1>5, <1>6, <1>7, <1>8, <1>9 DEF Started

\* A thread starts its initial function.
LEMMA ResumeNew ==
  ASSUME ThreadInv, HandleResume, tstate[lj.thr] # "yielded", NEW t \in Thread, t = lj.thr
  PROVE  OnlyStack(t) /\ Started(t)
<1> USE DEF ThreadInv, Base
<1> DEFINE a == Act("ecma", FALSE)
           r == callstack'[t]
<1>1. /\ callstack' = [callstack EXCEPT ![t] = <<a>>] /\ preventcount' = preventcount
  BY DEF HandleResume
<1>2. /\ tstate[t] = "inactive" /\ 1 <= MaxCall
      /\ preventcount[t] = Cardinality(PreventSet(callstack[t])) + Cardinality(SafeSet(cstack, t))
  BY ResumeFacts DEF HandleResume
<1>3. a \in Activation /\ a.fn = "ecma" /\ ~a.prevent /\ a.cats = <<>>
  BY ActIs
<1> HIDE DEF a
<1>4. callstack' \in [Thread -> Seq(Activation)] /\ r = <<a>> /\ \A u \in Thread : u # t => callstack'[u] = callstack[u]
  BY <1>1, <1>3 DEF TypeOK
<1>5. callstack[t] = <<>>
  BY <1>2 DEF Shape, ShapeOf
<1>6. OnlyStack(t)
  BY <1>1, <1>4 DEF OnlyStack, TypeOK
<1>7. PreventSet(r) = PreventSet(callstack[t])
  BY <1>3, <1>4, <1>5 DEF PreventSet
<1>8. Len(r) = 1 /\ r[1] = a /\ r \in Seq(Activation) /\ \A k \in 1..Len(r) : k = 1
  BY <1>3, <1>4
<1>9. Callstack(r)
  <2>1. Len(a.cats) <= MaxStmt /\ Len(a.cats) = 0
    BY <1>3, ThreadAssumption
  <2>2. ActOK(r, 1)
    BY <2>1, <1>3, <1>8 DEF ActOK
  <2> QED
    BY <2>1, <2>2, <1>2, <1>8 DEF Callstack, ActsOK
<1>10. preventcount'[t] = Cardinality(PreventSet(r)) + Cardinality(SafeSet(cstack, t))
  BY <1>1, <1>2, <1>7
<1> HIDE DEF r
<1>11. r # <<>> /\ r[Len(r)].fn = "ecma" /\ \A k \in 1..Len(r) : ~r[k].prevent
  BY <1>3, <1>8
<1> QED
  BY <1>6, <1>9, <1>10, <1>11 DEF Started, r

LEMMA HandleResumeStep ==
  ASSUME ThreadInv, HandleResume
  PROVE  ThreadInv'
<1> USE DEF ThreadInv, Base
<1>0. PICK t : t = lj.thr
  OBVIOUS
<1>1. In({"exec"}) /\ lj.type = "resume" /\ t \in Thread /\ ~Running
  BY <1>0, ResumeFacts DEF HandleResume
<1>2. SwitchTo(t) /\ cstack' = cstack /\ LjDone /\ armed' = armed
  BY <1>0 DEF HandleResume
<1>3. LjAfter
  <2>1. armed' \in BOOLEAN
    BY <1>2 DEF TypeOK
  <2>2. Goes /\ Cardinality(FinSet(cstack)) \in Nat
    BY <2>1, <1>1, <1>2, GoesDone, PfIs
  <2> QED
    BY <2>2 DEF Goes, LjAfter
<1>4. OnlyStack(t) /\ Started(t)
  BY <1>0, <1>1, ResumeYielded, ResumeNew
<1> QED
  BY <1>0, <1>1, <1>2, <1>3, <1>4, SwitchStep

\* A coroutine and its resumer r: the coroutine has no frames, and the frames of r
\* were entered for activations below its resume().
LEMMA ResumerFrames ==
  ASSUME ThreadInv, In({"exec"}), Frame.thr # curr
  PROVE  /\ resumer[curr] \in Thread /\ resumer[curr] # curr /\ tstate[resumer[curr]] = "resumed"
         /\ OnEcma(callstack[resumer[curr]], "resume")
         /\ \A i \in 1..Len(cstack) : cstack[i].thr # curr
         /\ \A i \in 1..Len(cstack) : cstack[i].thr = resumer[curr] =>
              cstack[i].top + Bonus(cstack[i]) <= Len(callstack[resumer[curr]]) - 1
<1> USE DEF ThreadInv, Base
<1>h. PICK h \in [Thread -> Nat], d \in [Thread -> Nat] : ChainOK(h, d)
  BY DEF Chained
<1>0. PICK r, n : r = resumer[curr] /\ n = Len(cstack)
  OBVIOUS
<1>1. /\ curr \in Thread /\ cstack # <<>> /\ Frame.kind = "exec" /\ Frame \in CFrame
      /\ Frame = cstack[n] /\ n \in 1..n /\ n \in Nat
  BY <1>0, HandlingFacts
<1>2. resumer[curr] # NONE /\ h[curr] = n /\ \A i \in 1..n : cstack[i].thr # curr
  BY <1>h, <1>0, <1>1, CurrFrames
<1>3. r \in Thread /\ r # NONE
  BY <1>0, <1>1, <1>2 DEF TypeOK
<1>4. tstate[r] = "resumed" /\ tstate[curr] = "running"
  BY <1>0, <1>1, <1>3, ThreadAssumption DEF States
<1>5. r # curr
  BY <1>4
<1>6. OnEcma(callstack[r], "resume")
  BY <1>3, <1>4 DEF Shape, ShapeOf
<1> DEFINE s == callstack[r]
<1>7. s \in Seq(Activation) /\ Len(s) \in Nat /\ Len(s) >= 2 /\ s[Len(s)].fn = "resume"
  BY <1>3, <1>6 DEF TypeOK, OnEcma
<1>8. LinkOK(h, d, curr)
  BY <1>h, <1>1, <1>2 DEF ChainOK
<1>9. ASSUME NEW i \in 1..n, cstack[i].thr = r
      PROVE  cstack[i].top + Bonus(cstack[i]) <= Len(s) - 1
  <2>1. CASE r = Frame.thr
    <3>1. MatchF(Frame, s) /\ Bonus(Frame) = 1 /\ Frame.top \in Nat
      BY <2>1, <1>0, <1>1, FrameType DEF Match, Bonus, CallKinds
    <3>2. Frame.top + 1 <= Len(s) /\ s[Frame.top + 1].fn = "ecma"
      BY <3>1, <1>1 DEF MatchF, CallKinds
    <3>3. Frame.top + 1 # Len(s)
      BY <3>2, <1>7
    <3>4. Frame.top + 1 <= Len(s) - 1
      BY <3>1, <3>2, <3>3, <1>7
    <3>5. CASE i = n
      BY <3>1, <3>4, <3>5, <1>1
    <3>6. CASE i # n
      <4>1. PairOK(cstack[i], Frame) /\ cstack[i] \in CFrame
        <5>1. i < n
          BY <3>6, <1>1
        <5> QED
          BY <5>1, <1>0, <1>1 DEF Frames, StackOK, TypeOK
      <4>2. /\ cstack[i].top \in Nat /\ cstack[i].top <= Frame.top
            /\ (cstack[i].kind \in CallKinds => cstack[i].top < Frame.top)
        BY <4>1, <2>1, <1>9, FrameType DEF PairOK
      <4>3. cstack[i].top + Bonus(cstack[i]) <= Frame.top
        BY <4>2, <3>1 DEF Bonus
      <4>4. cstack[i].top + Bonus(cstack[i]) \in Nat
        BY <4>1, FrameType
      <4> QED
        BY <4>3, <4>4, <3>1, <3>4, <1>7
    <3> QED
      BY <3>5, <3>6
  <2>2. CASE r # Frame.thr
    <3>1. h[r] = n
      BY <2>2, <1>0, <1>1, <1>2, <1>8 DEF LinkOK
    <3>2. resumer[r] # NONE
      <4>1. n # 0
        BY <1>1
      <4> QED
        BY <4>1, <3>1, <1>h, <1>3 DEF ChainOK
    <3>3. LinkOK(h, d, r)
      BY <3>2, <1>h, <1>3 DEF ChainOK
    <3>4. \A j \in 1..n : cstack[j].thr # r
      BY <3>1, <3>3 DEF LinkOK
    <3> QED
      BY <3>4, <1>9
  <2> QED
    BY <2>1, <2>2
<1> QED
  BY <1>0, <1>2, <1>3, <1>4, <1>5, <1>6, <1>9

\* What becomes of the callstacks of the current thread and its resumer r: the first
\* stays when the thread yields and goes when it ends; of the second the resume()
\* goes, unless an error is to be raised in it.
LeftStacks(r) ==
  /\ callstack' \in [Thread -> Seq(Activation)] /\ preventcount' \in [Thread -> Nat]
  /\ \A u \in Thread : u # curr /\ u # r => callstack'[u] = callstack[u] /\ preventcount'[u] = preventcount[u]
  /\ \A u \in {curr, r} :
       preventcount'[u] = Cardinality(PreventSet(callstack'[u])) + Cardinality(SafeSet(cstack, u))
Leaves(st) ==
  /\ st = "yielded" => lj.type = "yield" /\ callstack'[curr] = callstack[curr]
  /\ st = "terminated" => callstack'[curr] = <<>>
Returned(r) ==
  \/ lj'.type = "throw" /\ ActPrefix(callstack[r], callstack'[r], Len(callstack[r]))
  \/ ActPrefix(callstack[r], callstack'[r], Len(callstack[r]) - 1)

LEMMA LeaveStep ==
  ASSUME ThreadInv, In({"exec"}), Frame.thr # curr, NEW r, r = resumer[curr], NEW st \in {"yielded", "terminated"},
         tstate' = [tstate EXCEPT ![curr] = st, ![r] = "running"],
         resumer' = [resumer EXCEPT ![curr] = NONE], curr' = r, cstack' = cstack, LjAfter,
         LeftStacks(r), Leaves(st), Returned(r)
  PROVE  ThreadInv'
<1> USE DEF ThreadInv, Base
<1>h. PICK h \in [Thread -> Nat], d \in [Thread -> Nat] : ChainOK(h, d)
  BY DEF Chained
<1>0. PICK n \in Nat : n = Len(cstack)
  BY HandlingFacts
<1>1. /\ cstack # <<>> /\ Frame.kind = "exec" /\ curr \in Thread /\ Frame = cstack[n] /\ n \in 1..n
      /\ \A i \in 1..n : cstack[i] \in CFrame
  BY <1>0, HandlingFacts DEF In, TypeOK
<1>2. /\ r \in Thread /\ r # curr /\ tstate[r] = "resumed" /\ OnEcma(callstack[r], "resume")
      /\ \A i \in 1..n : cstack[i].thr # curr
      /\ \A i \in 1..n : cstack[i].thr = r => cstack[i].top + Bonus(cstack[i]) <= Len(callstack[r]) - 1
  BY <1>0, ResumerFrames
<1>3. tstate[curr] = "running" /\ curr # NONE /\ r # NONE
  BY <1>1, <1>2, ThreadAssumption DEF States
<1>5. \A u \in Thread : resumer[u] # curr
  BY <1>1, <1>3 DEF States
<1>6. \A i \in 1..n : Placed(cstack[i])
  BY <1>0 DEF Frames
<1>7. /\ tstate'[r] = "running" /\ tstate'[curr] = st /\ \A u \in Thread : u # r /\ u # curr => tstate'[u] = tstate[u]
      /\ tstate' \in [Thread -> {"inactive", "running", "resumed", "yielded", "terminated"}]
  BY <1>1, <1>2 DEF TypeOK
<1>8. /\ resumer'[curr] = NONE /\ \A u \in Thread : u # curr => resumer'[u] = resumer[u]
      /\ resumer' \in [Thread -> Thread \cup {NONE}]
  BY <1>1 DEF TypeOK
<1> DEFINE s == callstack[r]
           q == callstack'[r]
<1>s. s \in Seq(Activation) /\ Len(s) \in Nat /\ Len(s) >= 2 /\ s[Len(s) - 1].fn = "ecma"
  BY <1>2 DEF OnEcma, TypeOK
<1>9. PICK m \in Nat : /\ m \in {Len(s) - 1, Len(s)} /\ ActPrefix(s, q, m) /\ (lj'.type = "none" => m = Len(s) - 1)
  <2>1. Len(s) - 1 \in Nat
    BY <1>s
  <2>2. CASE lj'.type = "throw" /\ ActPrefix(s, q, Len(s))
    BY <2>2, <1>s
  <2>3. CASE ActPrefix(s, q, Len(s) - 1)
    BY <2>1, <2>3
  <2> QED
    BY <2>2, <2>3 DEF Returned
<1> HIDE DEF s, q
<1>m. m \in 0..Len(s) /\ m >= 1 /\ m \in 1..m /\ m >= Len(s) - 1 /\ \A k \in 1..m : k \in 1..Len(s)
  BY <1>9, <1>s
<1>q. q \in Seq(Activation) /\ Len(q) = m /\ q # <<>> /\ \A k \in 1..m : q[k] = s[k]
  BY <1>9, <1>m DEF ActPrefix
<1>c. callstack'[curr] = callstack[curr] \/ callstack'[curr] = <<>>
  BY DEF Leaves
<1>10. TypeOK'
  <2>1. ASSUME NEW u \in Thread
        PROVE  Len(callstack'[u]) <= MaxCall /\ \A k \in DOMAIN callstack'[u] : Len(callstack'[u][k].cats) <= MaxStmt
    <3>0. Len(callstack[u]) <= MaxCall /\ \A k \in DOMAIN callstack[u] : Len(callstack[u][k].cats) <= MaxStmt
      BY DEF TypeOK
    <3>1. CASE u # curr /\ u # r
      BY <3>0, <3>1 DEF LeftStacks
    <3>2. CASE u = curr
      BY <3>0, <3>2, <1>c, ThreadAssumption
    <3>3. CASE u = r
      <4>1. DOMAIN q = 1..m /\ DOMAIN s = 1..Len(s)
        BY <1>q, <1>s
      <4>2. m <= MaxCall
        BY <3>0, <3>3, <1>m, <1>s, ThreadAssumption DEF s
      <4>3. \A k \in 1..m : Len(q[k].cats) <= MaxStmt
        BY <4>1, <3>0, <3>3, <1>m, <1>q DEF s
      <4> QED
        BY <4>1, <4>2, <4>3, <3>3, <1>q DEF q
    <3> QED
      BY <3>1, <3>2, <3>3
  <2>2. pf' \in Nat
    <3>1. Cardinality(FinSet(cstack)) \in Nat
      BY PfIs
    <3> QED
      BY <3>1 DEF LjAfter
  <2>3. curr' \in Thread \cup {NONE}
    BY <1>2
  <2> QED
    BY <2>1, <2>2, <2>3, <1>7, <1>8 DEF TypeOK, LjAfter, Lj, LeftStacks
<1>e. ASSUME NEW i \in 1..n
      PROVE  /\ cstack[i].thr # curr /\ cstack[i].thr \in Thread /\ cstack[i].ecurr \in Thread \cup {NONE}
             /\ Cross(cstack[i]) /\ cstack[i].ecurr # NONE => cstack[i].ecurr # curr /\ cstack[i].ecurr # r
  BY <1>1, <1>2, <1>6, FrameType DEF Placed
<1>11. Frames'
  <2>1. ASSUME NEW i \in 1..n
        PROVE  Placed(cstack[i])'
    <3>1. /\ Placed(cstack[i]) /\ cstack[i].thr # curr /\ cstack[i].thr \in Thread /\ cstack[i].ecurr \in Thread \cup {NONE}
          /\ Cross(cstack[i]) /\ cstack[i].ecurr # NONE => cstack[i].ecurr # curr /\ cstack[i].ecurr # r
      BY <1>6, <1>e
    <3>2. resumer'[cstack[i].thr] = resumer[cstack[i].thr]
      BY <3>1, <1>8
    <3>3. tstate'[cstack[i].thr] \in {"running", "resumed"}
      BY <3>1, <1>7 DEF Placed
    <3>4. Cross(cstack[i]) /\ cstack[i].ecurr # NONE => tstate'[cstack[i].ecurr] = "running"
      BY <3>1, <1>7 DEF Placed
    <3> QED
      BY <3>1, <3>2, <3>3, <3>4 DEF Placed
  <2>2. Frame' = Frame /\ (~Running' => ~Frame.delayed)
    BY DEF Frame, Frames, LjAfter, Running
  <2> QED
    BY <2>1, <2>2, <1>0, <1>1, <1>3 DEF Frames
<1>12. States'
  <2>1. ASSUME NEW u \in Thread, tstate'[u] = "running"
        PROVE  u = curr' \/ \E i \in 1..Len(cstack') : Cross(cstack'[i]) /\ cstack'[i].ecurr = u
    <3>1. CASE u = r
      BY <3>1
    <3>2. CASE u = curr
      BY <3>2, <2>1, <1>7
    <3>3. CASE u # r /\ u # curr
      BY <3>3, <2>1, <1>7 DEF States
    <3> QED
      BY <3>1, <3>2, <3>3
  <2>2. ASSUME NEW u \in Thread
        PROVE  tstate'[u] = "resumed" <=> \E v \in Thread : resumer'[v] = u
    <3>1. CASE u = r
      <4>1. ASSUME NEW v \in Thread, resumer'[v] = r
            PROVE  FALSE
        <5>1. v # curr /\ resumer[v] = r
          BY <4>1, <1>3, <1>8
        <5> QED
          BY <5>1, <1>1, <1>3 DEF States
      <4> QED
        BY <4>1, <3>1, <1>7
    <3>2. CASE u = curr
      <4>1. \A v \in Thread : resumer'[v] # curr
        BY <1>3, <1>5, <1>8
      <4> QED
        BY <4>1, <3>2, <1>7
    <3>3. CASE u # r /\ u # curr
      <4>1. tstate[u] = "resumed" <=> \E v \in Thread : resumer[v] = u
        BY DEF States
      <4>2. \A v \in Thread : resumer'[v] = u <=> resumer[v] = u
        BY <3>3, <1>8, ThreadAssumption
      <4> QED
        BY <4>1, <4>2, <3>3, <1>7
    <3> QED
      BY <3>1, <3>2, <3>3
  <2>3. ASSUME NEW u \in Thread, resumer'[u] # NONE
        PROVE  tstate'[u] \in {"running", "resumed"}
    <3>0. u # curr
      BY <2>3, <1>8
    <3>1. CASE u = r
      BY <3>1, <1>7
    <3>2. CASE u # r
      BY <3>0, <3>2, <2>3, <1>7, <1>8 DEF States
    <3> QED
      BY <3>1, <3>2
  <2>5. ASSUME NEW u \in Thread, NEW v \in Thread, resumer'[u] = resumer'[v], u # v
        PROVE  resumer'[u] = NONE
    <3>1. CASE u = curr \/ v = curr
      BY <3>1, <2>5, <1>8
    <3>3. CASE u # curr /\ v # curr
      <4>1. resumer[u] = resumer[v] /\ u # v
        BY <3>3, <2>5, <1>8
      <4>2. resumer[u] = NONE
        BY <4>1 DEF States
      <4> QED
        BY <4>2, <3>3, <1>8
    <3> QED
      BY <3>1, <3>3
  <2>6. ASSUME NEW u \in Thread, resumer'[u] # NONE
        PROVE  callstack'[u] # <<>>
    <3>0. u # curr /\ resumer[u] # NONE
      BY <2>6, <1>8
    <3>1. CASE u = r
      BY <3>1, <1>q DEF q
    <3>2. CASE u # r
      <4>1. callstack[u] # <<>>
        BY <3>0 DEF States
      <4>2. callstack'[u] = callstack[u]
        BY <3>0, <3>2 DEF LeftStacks
      <4> QED
        BY <4>1, <4>2
    <3> QED
      BY <3>1, <3>2
  <2>7. curr' # NONE => tstate'[curr'] = "running"
    BY <1>7
  <2>8. \A u \in Thread :
          /\ tstate'[u] = "running" =>
               u = curr' \/ \E i \in 1..Len(cstack') : Cross(cstack'[i]) /\ cstack'[i].ecurr = u
          /\ tstate'[u] = "resumed" <=> \E v \in Thread : resumer'[v] = u
          /\ resumer'[u] # NONE => tstate'[u] \in {"running", "resumed"}
          /\ \A v \in Thread : resumer'[u] = resumer'[v] /\ u # v => resumer'[u] = NONE
          /\ resumer'[u] # NONE /\ callstack'[u] = <<>> => u = curr' /\ lj'.type = "throw"
    BY <2>1, <2>2, <2>3, <2>5, <2>6
  <2> QED
    BY <2>7, <2>8, Zenon DEF States
<1>13. Keep(n)
  <2>1. \A i \in 1..n : Same(cstack[i], cstack'[i])
    BY DEF Same
  <2>2. ASSUME NEW i \in 1..n
        PROVE  \/ callstack'[cstack[i].thr] = callstack[cstack[i].thr]
               \/ KeepActs(callstack[cstack[i].thr], callstack'[cstack[i].thr], cstack[i].top + Bonus(cstack[i]))
    <3>1. cstack[i].thr # curr /\ cstack[i].thr \in Thread /\ cstack[i] \in CFrame
      BY <1>1, <1>e
    <3>2. CASE cstack[i].thr # r
      BY <3>1, <3>2 DEF LeftStacks
    <3>3. CASE cstack[i].thr = r
      <4> DEFINE x == cstack[i].top + Bonus(cstack[i])
      <4>1. x \in Nat /\ x <= Len(s) - 1
        BY <3>1, <3>3, <1>2, FrameType DEF s
      <4> HIDE DEF x
      <4>2. x <= m /\ \A l \in 1..x : l \in 1..m
        BY <4>1, <1>m, <1>s
      <4>3. KeepActs(s, q, x)
        BY <4>2, <1>q DEF KeepActs, SameAct
      <4> QED
        BY <4>3, <3>3 DEF x, s, q
    <3> QED
      BY <3>2, <3>3
  <2>4. ASSUME NEW i \in 1..n, Cross(cstack[i]), cstack[i].ecurr # NONE
        PROVE  callstack'[cstack[i].ecurr] = callstack[cstack[i].ecurr]
    BY <2>4, <1>e DEF LeftStacks
  <2>3. n <= Len(cstack)
    BY <1>0
  <2> QED
    BY <2>1, <2>2, <2>3, <2>4, KeepIf
<1>a. n <= Len(cstack) /\ n <= Len(cstack') /\ Len(cstack') \in Nat /\ \A i \in 1..n : i \in Nat
  BY <1>0
<1>14. Match'
  <2>1. \A i \in 1..n : MatchF(cstack'[i], callstack'[cstack'[i].thr])
    BY <1>13, <1>a, KeepMatch, Zenon
  <2> QED
    BY <2>1, <1>0 DEF Match
<1>15. Levels'
  <2>1. ASSUME NEW i \in 1..n, i # n
        PROVE  Level(cstack'[i], callstack'[Ctx(i)'], Depth(i)')
    BY <2>1, <1>13, <1>a, KeepLevels, Zenon DEF Frames
  <2>2. Ctx(n)' = r /\ Depth(n)' = Len(q)
    BY <1>0 DEF Ctx, Depth, q
  <2>3. lj'.type \in {"none", "return"} => Level(cstack'[n], callstack'[Ctx(n)'], Depth(n)')
    <3>1. lj'.type \in {"none", "return"} => lj'.type = "none"
      BY DEF LjAfter
    <3>2. lj'.type = "none" => Len(q) >= 1 /\ q[Len(q)].fn = "ecma"
      BY <1>9, <1>m, <1>q, <1>s
    <3>3. lj'.type = "none" => Level(cstack[n], q, Len(q))
      BY <3>2, <1>1 DEF Level, SafeKinds
    <3> QED
      BY <3>1, <3>3, <2>2 DEF q
  <2>4. \A i \in 1..n : i < n => i # n
    BY <1>0
  <2> QED
    BY <2>1, <2>3, <2>4, <1>0 DEF Levels
<1>16. Owned'
  <2>1. ASSUME NEW u \in Thread, NEW k \in 1..Len(callstack'[u]),
               callstack'[u][k].prevent, callstack'[u][k].fn \in {"ecma", "native"}
        PROVE  HasFrame(u, k)'
    <3>1. k \in 1..Len(callstack[u]) /\ callstack'[u][k] = callstack[u][k] /\ (u = curr => lj.type = "yield")
      <4>1. CASE u # curr /\ u # r
        BY <4>1 DEF LeftStacks
      <4>2. CASE u = r
        BY <4>2, <1>2, <1>m, <1>q DEF q, s
      <4>3. CASE u = curr
        <5>1. st # "terminated"
          <6>1. callstack'[u] = <<>> => 1..Len(callstack'[u]) = {}
            OBVIOUS
          <6> QED
            BY <6>1, <4>3 DEF Leaves
        <5> QED
          BY <5>1, <4>3 DEF Leaves
      <4> QED
        BY <4>1, <4>2, <4>3
    <3>2. HasFrame(u, k)
      BY <2>1, <3>1 DEF Owned, Lost
    <3> QED
      BY <3>2 DEF HasFrame
  <2> QED
    BY <2>1 DEF Owned
<1>17. Acts'
  <2>1. ASSUME NEW u \in Thread
        PROVE  ActsOK(callstack'[u])
    <3>0. ActsOK(callstack[u])
      BY DEF Acts
    <3>1. CASE u # curr /\ u # r
      BY <3>0, <3>1 DEF LeftStacks
    <3>2. CASE u = curr
      <4>1. ActsOK(<<>>)
        BY DEF ActsOK
      <4> QED
        BY <4>1, <3>0, <3>2, <1>c
    <3>3. CASE u = r
      <4>1. ActsOK(q)
        BY <3>0, <3>3, <1>s, <1>m, <1>9, PrefixActs DEF s
      <4> QED
        BY <4>1, <3>3 DEF q
    <3> QED
      BY <3>1, <3>2, <3>3
  <2> QED
    BY <2>1 DEF Acts
<1>18. Shape'
  <2>1. ASSUME NEW u \in Thread
        PROVE  ShapeOf(u)'
    <3>1. CASE u = r
      BY <3>1, <1>7 DEF ShapeOf
    <3>2. CASE u = curr /\ st = "yielded"
      <4>1. OnEcma(callstack[curr], "yield") /\ preventcount[curr] = 1
        BY <3>2 DEF Leaves, Pending
      <4>2. callstack'[curr] = callstack[curr] /\ preventcount'[curr] = preventcount[curr]
        BY <3>2, <1>1, PreventIs DEF Leaves, LeftStacks
      <4> QED
        BY <4>1, <4>2, <3>2, <1>7 DEF ShapeOf
    <3>3. CASE u = curr /\ st = "terminated"
      <4>1. callstack'[curr] = <<>>
        BY <3>3 DEF Leaves
      <4>2. PreventSet(callstack'[curr]) = {} /\ SafeSet(cstack, curr) = {}
        <5>1. DOMAIN cstack = 1..n
          BY <1>0 DEF TypeOK
        <5> QED
          BY <4>1, <5>1, <1>2 DEF PreventSet, SafeSet
      <4>3. preventcount'[curr] = 0 + 0
        BY <4>2, FS_EmptySet DEF LeftStacks
      <4> QED
        BY <4>1, <4>3, <3>3, <1>7 DEF ShapeOf
    <3>4. CASE u # r /\ u # curr
      <4>1. ShapeOf(u)
        BY DEF Shape
      <4>2. callstack'[u] = callstack[u] /\ preventcount'[u] = preventcount[u]
        BY <3>4, <1>1, PreventIs DEF LeftStacks
      <4>3. tstate'[u] = tstate[u]
        BY <3>4, <1>7
      <4> HIDE DEF ThreadInv, Base
      <4> QED
        BY <4>1, <4>2, <4>3, Zenon DEF ShapeOf
    <3> QED
      BY <3>1, <3>2, <3>3, <3>4
  <2> QED
    BY <2>1 DEF Shape
<1>19. PreventExact'
  <2>1. \A u \in Thread : preventcount[u] =
          Cardinality(PreventSet(callstack[u])) + Cardinality(SafeSet(cstack, u))
    BY PreventIs
  <2>2. \A u \in Thread : preventcount'[u] =
          Cardinality(PreventSet(callstack'[u])) + Cardinality(SafeSet(cstack', u))
    BY <2>1 DEF LeftStacks
  <2> QED
    BY <2>2 DEF PreventExact, PreventSet, SafeSet
<1>20. PfExact' /\ Pending'
  <2>1. pf' = Cardinality(FinSet(cstack')) + (IF Running' THEN 0 ELSE 1)
    BY DEF LjAfter, Running
  <2> QED
    BY <2>1 DEF PfExact, FinSet, Pending, LjAfter
<1>21. Chained'
  BY <1>h, <1>1, <1>2, <1>5, ChainLeave
<1> QED
  BY <1>10, <1>11, <1>12, <1>14, <1>15, <1>16, <1>17, <1>18, <1>19, <1>20, <1>21

\* A thread that is about to yield has no frames.
LEMMA YieldFrames ==
  ASSUME ThreadInv, Handling("yield")
  PROVE  Frame.thr # curr
<1> USE DEF ThreadInv, Base
<1> DEFINE s == callstack[curr]
           P == PreventSet(s)
<1>1. /\ curr \in Thread /\ cstack # <<>> /\ Frame.kind = "exec" /\ Frame \in CFrame
      /\ Frame = cstack[Len(cstack)] /\ Len(cstack) \in 1..Len(cstack)
  BY HandlingFacts DEF Handling
<1>2. OnEcma(s, "yield") /\ preventcount[curr] = 1
  BY DEF Pending, Handling
<1>3. s \in Seq(Activation) /\ Len(s) \in Nat /\ Len(s) >= 2 /\ s[Len(s)].fn = "yield" /\ Len(s) \in 1..Len(s)
  <2>1. s \in Seq(Activation) /\ Len(s) >= 2 /\ s[Len(s)].fn = "yield"
    BY <1>1, <1>2 DEF TypeOK, OnEcma
  <2>2. Len(s) \in Nat
    BY <2>1
  <2> QED
    BY <2>1, <2>2
<1>4. s[Len(s)].prevent
  <2>1. ActOK(s, Len(s))
    BY <1>1, <1>3 DEF Acts, ActsOK
  <2> QED
    BY <2>1, <1>3 DEF ActOK
<1>5. SUFFICES ASSUME Frame.thr = curr
               PROVE  FALSE
  OBVIOUS
<1>6. PICK k \in 1..Len(s) : s[k].prevent /\ k # Len(s)
  <2>1. MatchF(Frame, s) /\ Frame.top \in Nat
    BY <1>1, <1>5, FrameType DEF Match
  <2>2. Frame.top + 1 <= Len(s) /\ s[Frame.top + 1].prevent /\ s[Frame.top + 1].fn = "ecma"
    BY <2>1, <1>1 DEF MatchF, Bonus, CallKinds
  <2>3. Frame.top + 1 \in 1..Len(s)
    BY <2>1, <2>2, <1>3
  <2>4. Frame.top + 1 # Len(s)
    BY <2>2, <1>3
  <2> QED
    BY <2>2, <2>3, <2>4
<1>7. P \in SUBSET (1..Len(s)) /\ {k, Len(s)} \in SUBSET P
  BY <1>3, <1>4, <1>6 DEF PreventSet
<1>8. IsFiniteSet(P) /\ Cardinality(P) \in Nat
  <2> HIDE DEF P, s
  <2> QED
    BY <1>3, <1>7, CountFinite
<1>9. Cardinality({k, Len(s)}) = 2
  <2> DEFINE l == Len(s)
  <2> HIDE DEF l
  <2>1. IsFiniteSet({l}) /\ Cardinality({l}) = 1
    BY FS_Singleton
  <2>2. k \notin {l}
    BY <1>6 DEF l
  <2>3. Cardinality({l} \cup {k}) = Cardinality({l}) + 1
    BY <2>1, <2>2, FS_AddElement
  <2>4. {l} \cup {k} = {k, l}
    OBVIOUS
  <2>5. Cardinality({k, l}) = 1 + 1
    BY <2>1, <2>3, <2>4
  <2> QED
    BY <2>5 DEF l
<1>10. Cardinality({k, Len(s)}) <= Cardinality(P)
  <2> DEFINE T == {k, Len(s)}
  <2>1. T \in SUBSET P
    BY <1>7
  <2> HIDE DEF T, P
  <2>2. Cardinality(T) <= Cardinality(P)
    BY <2>1, <1>8, FS_Subset
  <2> QED
    BY <2>2 DEF T
<1>11. preventcount[curr] = Cardinality(P) + Cardinality(SafeSet(cstack, curr))
  BY <1>1, PreventIs
<1>12. Cardinality(SafeSet(cstack, curr)) \in Nat
  BY <1>1, CountsNat DEF TypeOK
<1> QED
  <2> DEFINE p == Cardinality(P)
             x == Cardinality(SafeSet(cstack, curr))
  <2>1. p \in Nat /\ x \in Nat /\ 2 <= p /\ 1 = p + x
    BY <1>2, <1>8, <1>9, <1>10, <1>11, <1>12
  <2> HIDE DEF p, x
  <2> QED
    BY <2>1

LEMMA HandleYieldStep ==
  ASSUME ThreadInv, HandleYield
  PROVE  ThreadInv'
<1> USE DEF ThreadInv, Base
<1>0. PICK r : r = resumer[curr]
  OBVIOUS
<1>1. In({"exec"}) /\ Frame.thr # curr /\ lj.type = "yield" /\ ~Running
  BY YieldFrames DEF HandleYield, Handling, Running
<1>2. r \in Thread /\ r # curr /\ OnEcma(callstack[r], "resume") /\ curr \in Thread
  BY <1>0, <1>1, ResumerFrames, HandlingFacts
<1>3. /\ tstate' = [tstate EXCEPT ![curr] = "yielded", ![r] = "running"]
      /\ resumer' = [resumer EXCEPT ![curr] = NONE] /\ curr' = r /\ cstack' = cstack /\ armed' = armed
  BY <1>0 DEF HandleYield
<1>4. \A u \in Thread : preventcount[u] = Cardinality(PreventSet(callstack[u])) + Cardinality(SafeSet(cstack, u))
  BY PreventIs
<1>5. armed' \in BOOLEAN
  BY <1>3 DEF TypeOK
<1>6. CASE lj.iserror
  <2>1. lj' = Thrown /\ callstack' = callstack /\ preventcount' = preventcount /\ pf' = pf
    BY <1>6 DEF HandleYield
  <2>2. LjAfter
    <3>1. pf = Cardinality(FinSet(cstack)) + 1
      BY <1>1, PfIs
    <3> QED
      BY <2>1, <3>1, <1>1, <1>5, LjTypes DEF LjAfter
  <2>3. LeftStacks(r)
    BY <2>1, <1>2, <1>4 DEF LeftStacks, TypeOK
  <2>4. Leaves("yielded")
    BY <2>1, <1>1 DEF Leaves
  <2>5. Returned(r)
    <3>1. callstack[r] \in Seq(Activation)
      BY <1>2 DEF TypeOK
    <3> QED
      BY <2>1, <3>1, LjTypes DEF Returned, ActPrefix
  <2>6. "yielded" \in {"yielded", "terminated"}
    OBVIOUS
  <2> QED
    BY <1>0, <1>1, <1>3, <2>2, <2>3, <2>4, <2>5, <2>6, LeaveStep
<1>7. CASE ~lj.iserror
  <2>1. LjDone /\ UnwindTo(r, Len(callstack[r]) - 1)
    BY <1>7, <1>0 DEF HandleYield
  <2>2. LjAfter
    <3>1. Goes /\ Cardinality(FinSet(cstack)) \in Nat
      BY <2>1, <1>1, <1>5, GoesDone, PfIs
    <3> QED
      BY <3>1 DEF Goes, LjAfter
  <2>3. Len(callstack[r]) - 1 \in 0..Len(callstack[r])
    <3>1. Len(callstack[r]) \in Nat /\ Len(callstack[r]) >= 2
      BY <1>2 DEF TypeOK, OnEcma
    <3> QED
      BY <3>1
  <2>4. /\ callstack' \in [Thread -> Seq(Activation)]
        /\ \A u \in Thread : u # r => callstack'[u] = callstack[u] /\ preventcount'[u] = preventcount[u]
        /\ ActPrefix(callstack[r], callstack'[r], Len(callstack[r]) - 1)
        /\ preventcount' \in [Thread -> Nat]
        /\ preventcount'[r] = Cardinality(PreventSet(callstack'[r])) + Cardinality(SafeSet(cstack, r))
    BY <2>1, <2>3, <1>2, UnwindIs
  <2>5. LeftStacks(r)
    BY <2>4, <1>2, <1>4 DEF LeftStacks
  <2>6. Leaves("yielded")
    BY <2>4, <1>1, <1>2 DEF Leaves
  <2>7. Returned(r)
    BY <2>4 DEF Returned
  <2>8. "yielded" \in {"yielded", "terminated"}
    OBVIOUS
  <2> QED
    BY <1>0, <1>1, <1>3, <2>2, <2>5, <2>6, <2>7, <2>8, LeaveStep
<1> QED
  BY <1>6, <1>7

\* The current thread ends; n of its resumer's activations stay.
LEMMA EndStep ==
  ASSUME ThreadInv, In({"exec"}), Frame.thr # curr, NEW n,
         \/ n = Len(callstack[resumer[curr]]) - 1
         \/ n = Len(callstack[resumer[curr]]) /\ lj'.type = "throw",
         EndThread(n), cstack' = cstack, LjAfter
  PROVE  ThreadInv'
<1> USE DEF ThreadInv, Base
<1>0. PICK r : r = resumer[curr]
  OBVIOUS
<1>1. r \in Thread /\ r # curr /\ OnEcma(callstack[r], "resume") /\ curr \in Thread
  BY <1>0, ResumerFrames, HandlingFacts
<1> DEFINE q == SubSeq(callstack[r], 1, n)
           x == PreventUnwound(curr, 0)
           y == PreventUnwound(r, n)
<1>2. /\ tstate' = [tstate EXCEPT ![curr] = "terminated", ![r] = "running"]
      /\ resumer' = [resumer EXCEPT ![curr] = NONE] /\ curr' = r
      /\ callstack' = [callstack EXCEPT ![curr] = <<>>, ![r] = SubSeq(@, 1, n)]
      /\ preventcount' = [preventcount EXCEPT ![curr] = x, ![r] = y]
  BY <1>0 DEF EndThread
<1>3. n \in 0..Len(callstack[r])
  <2>1. Len(callstack[r]) \in Nat /\ Len(callstack[r]) >= 2
    BY <1>1 DEF TypeOK, OnEcma
  <2> QED
    BY <2>1, <1>0
<1>4. /\ ActPrefix(callstack[r], q, n) /\ y \in Nat
      /\ y = Cardinality(PreventSet(q)) + Cardinality(SafeSet(cstack, r))
  BY <1>1, <1>3, UnwoundIs
<1>5. x = Cardinality(PreventSet(<<>>)) + Cardinality(SafeSet(cstack, curr)) /\ x \in Nat
  <2> DEFINE z == SubSeq(callstack[curr], 1, 0)
  <2>1. 0 \in 0..Len(callstack[curr])
    BY <1>1 DEF TypeOK
  <2>2. /\ ActPrefix(callstack[curr], z, 0) /\ x \in Nat
        /\ x = Cardinality(PreventSet(z)) + Cardinality(SafeSet(cstack, curr))
    BY <2>1, <1>1, UnwoundIs
  <2> HIDE DEF x, z
  <2>3. z = <<>>
    BY <2>2 DEF ActPrefix
  <2> QED
    BY <2>2, <2>3
<1>6. callstack'[curr] = <<>> /\ callstack'[r] = q /\ \A u \in Thread : u # curr /\ u # r => callstack'[u] = callstack[u]
  BY <1>1, <1>2 DEF TypeOK
<1> HIDE DEF q, x, y
<1>7. callstack' \in [Thread -> Seq(Activation)]
  <2>1. q \in Seq(Activation)
    BY <1>4 DEF ActPrefix
  <2>2. callstack' = [callstack EXCEPT ![curr] = <<>>, ![r] = q]
    BY <1>1, <1>2 DEF TypeOK, q
  <2> DEFINE z == <<>>
             C == Seq(Activation)
  <2>3. z \in C /\ callstack \in [Thread -> C] /\ q \in C
    BY <2>1 DEF TypeOK
  <2>4. callstack' = [[callstack EXCEPT ![curr] = z] EXCEPT ![r] = q]
    BY <2>2
  <2> HIDE DEF z, C
  <2>5. [callstack EXCEPT ![curr] = z] \in [Thread -> C]
    BY <2>3
  <2>6. callstack' \in [Thread -> C]
    BY <2>3, <2>4, <2>5
  <2> QED
    BY <2>6 DEF C
<1>8. /\ preventcount' \in [Thread -> Nat] /\ preventcount'[curr] = x /\ preventcount'[r] = y
      /\ \A u \in Thread : u # curr /\ u # r => preventcount'[u] = preventcount[u]
  BY <1>1, <1>2, <1>4, <1>5 DEF TypeOK
<1>9. LeftStacks(r)
  BY <1>4, <1>5, <1>6, <1>7, <1>8 DEF LeftStacks
<1>10. Leaves("terminated")
  BY <1>6 DEF Leaves
<1>11. Returned(r)
  BY <1>0, <1>4, <1>6 DEF Returned
<1>12. "terminated" \in {"yielded", "terminated"}
  OBVIOUS
<1> QED
  BY <1>0, <1>2, <1>9, <1>10, <1>11, <1>12, LeaveStep

LEMMA HandleUncaughtStep ==
  ASSUME ThreadInv, HandleUncaught
  PROVE  ThreadInv'
<1> USE DEF ThreadInv, Base
<1>1. In({"exec"}) /\ lj.type = "throw" /\ callstack[curr] = <<>> /\ ~Running
  BY DEF HandleUncaught, Handling, Running
<1>2. /\ Frame.kind = "exec" /\ Frame \in CFrame /\ Frame = cstack[Len(cstack)] /\ Len(cstack) \in 1..Len(cstack)
  BY <1>1, HandlingFacts
<1>3. Frame.thr # curr
  <2>1. MatchF(Frame, callstack[Frame.thr]) /\ Frame.top \in Nat
    BY <1>2, FrameType DEF Match
  <2>2. Frame.top + 1 <= Len(callstack[Frame.thr])
    BY <2>1, <1>2 DEF MatchF, Bonus, CallKinds
  <2>3. Len(callstack[curr]) = 0
    BY <1>1
  <2> QED
    BY <2>1, <2>2, <2>3
<1>4. LjAfter
  <2>1. lj' = lj /\ pf' = pf /\ armed' = armed
    BY DEF HandleUncaught
  <2>2. pf = Cardinality(FinSet(cstack)) + 1
    BY <1>1, PfIs
  <2> QED
    BY <2>1, <2>2, <1>1 DEF LjAfter, TypeOK, Lj
<1>5. EndThread(Len(callstack[resumer[curr]])) /\ cstack' = cstack /\ lj'.type = "throw"
  BY <1>1 DEF HandleUncaught
<1> QED
  BY <1>1, <1>3, <1>4, <1>5, EndStep

\* The function a coroutine was started with returns.
LEMMA ReturnEnd ==
  ASSUME ThreadInv, In({"exec"}), lj.type \in {"none", "return"}, Goes, ~AtEntry,
         Len(callstack[curr]) = 1, EndThread(Len(callstack[resumer[curr]]) - 1), cstack' = cstack
  PROVE  ThreadInv'
<1> USE DEF ThreadInv, Base
<1>1. Frame.kind = "exec" /\ Frame \in CFrame /\ Frame = cstack[Len(cstack)] /\ Len(cstack) \in 1..Len(cstack)
  BY HandlingFacts
<1>2. Frame.thr # curr
  <2>1. MatchF(Frame, callstack[Frame.thr]) /\ Frame.top \in Nat
    BY <1>1, FrameType DEF Match
  <2>2. Frame.top + 1 <= Len(callstack[Frame.thr])
    BY <2>1, <1>1 DEF MatchF, Bonus, CallKinds
  <2>3. SUFFICES ASSUME Frame.thr = curr
                 PROVE  FALSE
    OBVIOUS
  <2>4. Frame.top + 1 <= Len(callstack[curr]) /\ Len(callstack[curr]) = 1
    BY <2>2, <2>3
  <2>5. Frame.top = 0
    BY <2>1, <2>4
  <2>6. AtEntry
    BY <2>3, <2>5 DEF AtEntry
  <2> QED
    BY <2>6
<1>3. LjAfter
  <2>1. Cardinality(FinSet(cstack)) \in Nat
    BY PfIs
  <2> QED
    BY <2>1 DEF Goes, LjAfter
<1> QED
  BY <1>2, <1>3, EndStep

\* duk__handle_return.
LEMMA HandleReturnStep ==
  ASSUME ThreadInv, In({"exec"}), lj.type \in {"none", "return"}, Goes, HandleReturn
  PROVE  ThreadInv'
<1>1. FinallyCat(Top(curr).cats) \in Nat
  <2>1. GoodCats(Top(curr).cats)
    BY ExecFacts
  <2>2. FinallyCat(Top(curr).cats) \in 0..Len(Top(curr).cats)
    BY <2>1, FinallyCatIs DEF GoodCats
  <2> QED
    BY <2>2
<1>2. Frame.kind \in CallKinds /\ cstack # <<>>
  BY DEF In, CallKinds
<1>3. CASE /\ FinallyCat(Top(curr).cats) > 0
           /\ callstack' = WithCats(curr, EnterFinally(Top(curr).cats, FinallyCat(Top(curr).cats), "return", 0))
           /\ UNCHANGED <<tstate, resumer, preventcount, curr, cstack>>
  BY <1>3, ReturnCats
<1>4. CASE AtEntry /\ Epilogue(Frame) /\ UnwindTo(curr, Frame.top) /\ UNCHANGED resumer
  BY <1>2, <1>4, CallReturn DEF AtEntry
<1>5. CASE /\ ~AtEntry /\ Len(callstack[curr]) >= 2
           /\ UnwindTo(curr, Len(callstack[curr]) - 1)
           /\ UNCHANGED <<tstate, resumer, curr, cstack>>
  BY <1>5, ReturnPop
<1>6. CASE /\ ~AtEntry /\ Len(callstack[curr]) = 1
           /\ EndThread(Len(callstack[resumer[curr]]) - 1) /\ UNCHANGED cstack
  BY <1>6, ReturnEnd
<1> QED
  BY <1>3, <1>4, <1>5, <1>6 DEF HandleReturn

LEMMA ReturnStep ==
  ASSUME ThreadInv, Return
  PROVE  ThreadInv'
<1>1. In({"exec"}) /\ lj.type = "none" /\ Running /\ lj' = lj /\ pf' = pf /\ armed' = armed /\ HandleReturn
  BY DEF Return, InBytecode, Running
<1>2. Goes
  BY <1>1, GoesOn
<1> QED
  BY <1>1, <1>2, HandleReturnStep

LEMMA HandleCancelStep ==
  ASSUME ThreadInv, HandleCancel
  PROVE  ThreadInv'
<1>1. In({"exec"}) /\ lj.type = "return" /\ ~Running /\ LjDone /\ HandleReturn
  BY DEF HandleCancel, Handling, Running
<1>2. armed' \in BOOLEAN
  BY DEF HandleCancel
<1>3. Goes
  BY <1>1, <1>2, GoesDone
<1> QED
  BY <1>1, <1>3, HandleReturnStep

\* ENDFIN.
LEMMA EndFinStep ==
  ASSUME ThreadInv, EndFin
  PROVE  ThreadInv'
<1> DEFINE cats == Top(curr).cats
           c == Last(cats)
<1>1. InBytecode /\ In({"exec"}) /\ lj.type = "none" /\ Running /\ cats # <<>> /\ armed' = armed
  BY DEF EndFin, AtEndOf, InBytecode, Running
<1>2. GoodCats(cats)
  BY <1>1, ExecFacts
<1>3. CASE /\ callstack' = WithCats(curr, Front(cats))
           /\ UNCHANGED <<tstate, resumer, preventcount, curr, cstack, lj, pf>>
  <2>1. GoodCats(Front(cats))
    BY <1>1, <1>2, FrontCats
  <2> HIDE DEF cats
  <2> QED
    BY <1>1, <1>3, <2>1, CatsGo
<1>4. CASE HandleReturn /\ UNCHANGED <<lj, pf>>
  <2>1. Goes
    BY <1>1, <1>4, GoesOn
  <2> QED
    BY <1>1, <1>4, <2>1, HandleReturnStep
<1>5. CASE c.cont = "break" /\ HandleBreak(c.label) /\ UNCHANGED <<lj, pf>>
  <2>1. Goes
    BY <1>1, <1>5, GoesOn
  <2>2. c.label \in 0..Len(cats)
    <3> DEFINE n == Len(cats)
    <3>1. n \in Nat \ {0} /\ cats \in Seq(Catcher) /\ c = cats[n]
      BY <1>1, <1>2 DEF GoodCats, Last
    <3>2. n \in 1..n
      BY <3>1
    <3>3. c \in Catcher
      BY <3>1, <3>2
    <3>4. c.label \in Nat
      BY <3>3 DEF Catcher
    <3>5. c.label <= n
      BY <1>2, <1>5, <3>1, <3>2 DEF GoodCats, BreaksOK
    <3> HIDE DEF n, c
    <3>6. c.label \in 0..n
      BY <3>1, <3>4, <3>5
    <3> QED
      BY <3>6 DEF n
  <2> QED
    BY <1>1, <1>5, <2>1, <2>2, BreakCats
<1>6. CASE Longjmp(Thrown) /\ UNCHANGED threads
  BY <1>1, <1>6, ThrowStep DEF threads
<1> QED
  BY <1>3, <1>4, <1>5, <1>6 DEF EndFin

\* A step that changes at most the cancel request.
LEMMA IdleStep ==
  ASSUME ThreadInv, UNCHANGED <<threads, cstack, lj, pf>>, armed' \in BOOLEAN
  PROVE  ThreadInv'
<1> USE DEF threads
<1>1. TypeOK'
  BY DEF ThreadInv, Base, TypeOK
<1>2. Frames'
  <2>1. ASSUME NEW i \in 1..Len(cstack)
        PROVE  Placed(cstack[i])'
    BY DEF ThreadInv, Base, Frames, Placed
  <2> QED
    BY <2>1 DEF ThreadInv, Base, Frames, Running, Frame
<1>3. States'
  BY DEF ThreadInv, Base, States
<1>4. Match' /\ Acts' /\ Shape'
  BY DEF ThreadInv, Base, Match, Acts, Shape, ShapeOf
<1>5. Levels'
  <2>1. ASSUME NEW i \in 1..Len(cstack)
        PROVE  Ctx(i)' = Ctx(i) /\ Depth(i)' = Depth(i)
    BY DEF Ctx, Depth
  <2> QED
    BY <2>1 DEF ThreadInv, Base, Levels
<1>6. Owned'
  BY DEF ThreadInv, Base, Owned, HasFrame, Lost, Frame
<1>7. Pending' /\ PreventExact' /\ PfExact'
  BY DEF ThreadInv, Base, Pending, Frame, PreventExact, PfExact, Running
<1>8. Chained'
  <2>1. PICK h \in [Thread -> Nat], d \in [Thread -> Nat] : ChainOK(h, d)
    BY DEF ThreadInv, Chained
  <2>2. ChainOK(h, d)'
    BY <2>1 DEF ChainOK, LinkOK, Ctx
  <2> QED
    BY <2>2 DEF Chained
<1> QED
  BY <1>1, <1>2, <1>3, <1>4, <1>5, <1>6, <1>7, <1>8 DEF ThreadInv, Base

-----------------------------------------------------------------------------
(* The invariant holds.                                                    *)

LEMMA InitInv ==
  Init => ThreadInv
<1> SUFFICES ASSUME Init
             PROVE  ThreadInv
  OBVIOUS
<1> USE DEF Init
<1>0. MaxCall \in Nat /\ MaxC \in Nat /\ MaxStmt \in Nat /\ MAIN \in Thread /\ NONE \notin Thread
  BY ThreadAssumption
<1>1. /\ cstack \in Seq(CFrame) /\ Len(cstack) = 0 /\ DOMAIN cstack = {} /\ 1..Len(cstack) = {}
      /\ \A t \in Thread : /\ callstack[t] = <<>> /\ Len(callstack[t]) = 0
                           /\ DOMAIN callstack[t] = {} /\ 1..Len(callstack[t]) = {}
  OBVIOUS
<1>2. TypeOK
  <2>1. callstack \in [Thread -> Seq(Activation)]
    <3>1. <<>> \in Seq(Activation)
      OBVIOUS
    <3> QED
      BY <3>1
  <2>2. lj \in [type : LjType, iserror : BOOLEAN, thr : Thread \cup {NONE}]
    BY DEF NoLj, LjType
  <2>3. /\ tstate \in [Thread -> {"inactive", "running", "resumed", "yielded", "terminated"}]
        /\ resumer \in [Thread -> Thread \cup {NONE}] /\ preventcount \in [Thread -> Nat]
        /\ curr \in Thread \cup {NONE} /\ pf \in Nat /\ armed \in BOOLEAN
    OBVIOUS
  <2>4. \A t \in Thread : /\ Len(callstack[t]) <= MaxCall
                          /\ \A k \in DOMAIN callstack[t] : Len(callstack[t][k].cats) <= MaxStmt
    BY <1>0, <1>1
  <2>5. Len(cstack) <= MaxC
    BY <1>0, <1>1
  <2> QED
    BY <1>1, <2>1, <2>2, <2>3, <2>4, <2>5 DEF TypeOK
<1>3. lj.type = "none"
  BY DEF NoLj
<1>4. Frames
  BY <1>1, <1>3 DEF Frames, Running, StackOK, DelaysOK
<1>5. States
  BY <1>0 DEF States
<1>6. Match /\ Levels /\ Owned /\ Acts
  BY <1>1 DEF Match, Levels, Owned, Acts, ActsOK
<1>7. Shape
  <2> DEFINE z == <<>>
  <2>1. \A t \in Thread : tstate[t] = "inactive" /\ callstack[t] = z /\ preventcount[t] = 0
    OBVIOUS
  <2> QED
    BY <2>1 DEF Shape, ShapeOf
<1>8. Pending
  BY <1>3 DEF Pending
<1>9. PreventExact /\ PfExact
  <2>1. Cardinality({}) = 0
    BY FS_EmptySet
  <2>2. FinSet(cstack) = {} /\ \A t \in Thread : PreventSet(callstack[t]) = {} /\ SafeSet(cstack, t) = {}
    BY <1>1 DEF FinSet, PreventSet, SafeSet
  <2>a. pf = 0 /\ \A t \in Thread : preventcount[t] = 0
    OBVIOUS
  <2> HIDE DEF Init
  <2>3. pf = Cardinality(FinSet(cstack)) + (IF Running THEN 0 ELSE 1)
    BY <2>1, <2>2, <2>a, <1>3 DEF Running
  <2>4. \A t \in Thread : preventcount[t] =
                            Cardinality(PreventSet(callstack[t])) + Cardinality(SafeSet(cstack, t))
    BY <2>1, <2>2, <2>a
  <2> QED
    BY <2>3, <2>4, PreventIs
<1>10. Chained
  <2> DEFINE z == [t \in Thread |-> 0]
  <2>1. z \in [Thread -> Nat] /\ ChainOK(z, z)
    BY <1>1 DEF ChainOK
  <2> QED
    BY <2>1 DEF Chained
<1> QED
  BY <1>2, <1>4, <1>5, <1>6, <1>7, <1>8, <1>9, <1>10 DEF ThreadInv, Base

LEMMA NextStep ==
  ThreadInv /\ [Next]_vars => ThreadInv'
<1> SUFFICES ASSUME ThreadInv, [Next]_vars
             PROVE  ThreadInv'
  OBVIOUS
<1>1. CASE Engine
  BY <1>1, HandleResumeErrorStep, HandleResumeStep, HandleYieldStep, HandleCatchStep,
     HandleFinallyStep, HandleUnwindStep, HandleUncaughtStep, CatchSetupStep, SafeErrorStep,
     HandleCancelStep, Zenon DEF Engine
<1>2. CASE Program
  <2>1. CASE \E t \in Thread : SafeCall(t)
    BY <2>1, SafeCallStep
  <2>2. CASE \E fn \in {"ecma", "native"} : HandleCall(fn)
    BY <2>2, HandleCallStep
  <2>3. CASE EcmaCall \/ TailCall \/ NativeReturn \/ SafeReturn \/ RunFinalizer
    BY <2>3, EcmaCallStep, TailCallStep, NativeReturnStep, SafeReturnStep, RunFinalizerStep
  <2>4. CASE Throw
    BY <2>4, ThrowStep DEF Throw
  <2>5. CASE \E s \in Stmts : Enter(s)
    BY <2>5, EnterStep
  <2>6. CASE EndTry \/ EndCatch \/ EndLabel \/ EndFin \/ Break \/ Return
    BY <2>6, EndTryStep, EndCatchStep, EndLabelStep, EndFinStep, BreakStep, ReturnStep
  <2>7. CASE \E t \in Thread, e \in BOOLEAN : Resume(t, e)
    BY <2>7, ResumeStep
  <2>8. CASE \E e \in BOOLEAN : Yield(e)
    BY <2>8, YieldStep
  <2>9. CASE Arm
    BY <2>9, IdleStep DEF Arm
  <2>10. CASE Interrupt
    BY <2>10, InterruptStep
  <2> QED
    BY <1>2, <2>1, <2>2, <2>3, <2>4, <2>5, <2>6, <2>7, <2>8, <2>9, <2>10, Zenon DEF Program
<1>3. CASE UNCHANGED vars
  <2>1. UNCHANGED <<threads, cstack, lj, pf>> /\ armed' = armed
    BY <1>3 DEF vars, threads
  <2>2. armed' \in BOOLEAN
    BY <2>1 DEF ThreadInv, Base, TypeOK
  <2> QED
    BY <2>1, <2>2, IdleStep
<1> QED
  BY <1>1, <1>2, <1>3 DEF Next

\* The inductive invariant, for every set of threads and all limits: threads,
\* callstacks and C frames agree, also in the middle of error handling.
THEOREM ThreadAlways ==
  Spec => []ThreadInv
<1>1. Init => ThreadInv
  BY InitInv
<1>2. ThreadInv /\ [Next]_vars => ThreadInv'
  BY NextStep
<1> QED
  BY <1>1, <1>2, PTL DEF Spec

-----------------------------------------------------------------------------
(* What the invariant says of the properties.                              *)

\* While no longjmp is handled no frame is lost.
LEMMA FramesAgree ==
  ThreadInv => FramesMatch
<1> SUFFICES ASSUME ThreadInv, Running
             PROVE  FramesMatch
  BY DEF FramesMatch
<1> USE DEF ThreadInv, Base
<1>1. DOMAIN cstack = 1..Len(cstack) /\ \A t \in Thread : DOMAIN callstack[t] = 1..Len(callstack[t])
  BY DEF TypeOK
<1>2. ASSUME NEW i \in 1..Len(cstack), cstack[i].kind \in {"exec", "native"}
      PROVE  /\ Len(callstack[cstack[i].thr]) > cstack[i].top
             /\ callstack[cstack[i].thr][cstack[i].top + 1].prevent
             /\ callstack[cstack[i].thr][cstack[i].top + 1].fn =
                  IF cstack[i].kind = "exec" THEN "ecma" ELSE "native"
  <2>1. PICK f : f = cstack[i]
    OBVIOUS
  <2>2. PICK s : s = callstack[f.thr]
    OBVIOUS
  <2>3. f \in CFrame
    BY <2>1 DEF TypeOK
  <2>4. f.top \in Nat /\ f.thr \in Thread
    BY <2>3, FrameType
  <2>5. Len(s) \in Nat
    BY <2>2, <2>4 DEF TypeOK
  <2>6. MatchF(f, s) /\ f.kind \in CallKinds
    BY <1>2, <2>1, <2>2 DEF Match, CallKinds
  <2>7. f.top + 1 <= Len(s) /\ s[f.top + 1].prevent
        /\ s[f.top + 1].fn = IF f.kind = "exec" THEN "ecma" ELSE "native"
    BY <2>6 DEF MatchF, Bonus
  <2>8. Len(s) > f.top
    BY <2>4, <2>5, <2>7
  <2> QED
    BY <2>1, <2>2, <2>7, <2>8
<1>3. ASSUME NEW t \in Thread, NEW k \in 1..Len(callstack[t]),
             callstack[t][k].prevent, callstack[t][k].fn \in {"ecma", "native"}
      PROVE  \E i \in 1..Len(cstack) : /\ cstack[i].thr = t /\ cstack[i].top = k - 1
                                       /\ cstack[i].kind \in {"exec", "native"}
  <2>1. HasFrame(t, k) \/ Lost(t, k)
    BY <1>3 DEF Owned
  <2>2. ~Lost(t, k)
    BY DEF Lost, Running
  <2> QED
    BY <2>1, <2>2 DEF HasFrame, CallKinds
<1>4. \A i \in DOMAIN cstack :
        cstack[i].kind \in {"exec", "native"} =>
             /\ Len(callstack[cstack[i].thr]) > cstack[i].top
             /\ callstack[cstack[i].thr][cstack[i].top + 1].prevent
             /\ callstack[cstack[i].thr][cstack[i].top + 1].fn =
                  IF cstack[i].kind = "exec" THEN "ecma" ELSE "native"
  BY <1>1, <1>2
<1>5. \A t \in Thread : \A k \in DOMAIN callstack[t] :
        callstack[t][k].prevent /\ callstack[t][k].fn \in {"ecma", "native"} =>
          \E i \in DOMAIN cstack : cstack[i].thr = t /\ cstack[i].top = k - 1
                                     /\ cstack[i].kind \in {"exec", "native"}
  BY <1>1, <1>3
<1> QED
  BY <1>4, <1>5, Zenon DEF FramesMatch

LEMMA StatesAgree ==
  ThreadInv => ThreadStates /\ SuspendedShape
<1> SUFFICES ASSUME ThreadInv
             PROVE  ThreadStates /\ SuspendedShape
  OBVIOUS
<1> USE DEF ThreadInv, Base
<1>1. ThreadStates
  <2>1. DOMAIN cstack = 1..Len(cstack)
    BY DEF TypeOK
  <2>2. ASSUME NEW t \in Thread, tstate[t] = "running", t # curr
        PROVE  \E i \in DOMAIN cstack : cstack[i].ecurr = t
    BY <2>1, <2>2 DEF States
  <2> QED
    BY <2>2 DEF States, ThreadStates
<1>2. SuspendedShape
  <2>1. ASSUME NEW t \in Thread
        PROVE  LET s == callstack[t]
                   n == Len(s)
               IN /\ tstate[t] = "yielded" =>
                       n >= 2 /\ s[n].fn = "yield" /\ s[n - 1].fn = "ecma" /\ preventcount[t] = 1
                  /\ tstate[t] = "resumed" => n >= 2 /\ s[n].fn = "resume" /\ s[n - 1].fn = "ecma"
                  /\ tstate[t] \in {"inactive", "terminated"} => n = 0 /\ preventcount[t] = 0
    <3>1. ShapeOf(t)
      BY DEF Shape
    <3>2. callstack[t] = <<>> => Len(callstack[t]) = 0
      OBVIOUS
    <3> QED
      BY <3>1, <3>2 DEF ShapeOf, OnEcma
  <2> QED
    BY <2>1 DEF SuspendedShape
<1> QED
  BY <1>1, <1>2

\* However resumes, yields, calls and errors are mixed, threads, callstacks and the
\* C stack agree on who runs, who waits for whom and where each continues.
THEOREM ThreadsAgree ==
  Spec => []ThreadsConsistent
<1>1. ThreadInv => ThreadsConsistent
  BY FramesAgree, StatesAgree DEF ThreadsConsistent, ThreadInv, Base
<1> QED
  BY <1>1, ThreadAlways, PTL

\* Every executor and native frame finds the activation it was entered for, and
\* every activation entered through C has its frame.
THEOREM FramesAlwaysMatch ==
  Spec => []FramesMatch
BY FramesAgree, ThreadAlways, PTL

\* callstack_preventcount and pf_prevent_count are exact, whatever errors jump over
\* the code that counts them down.
THEOREM CountersAlwaysExact ==
  Spec => []CountersExact
<1>1. ThreadInv => CountersExact
  BY DEF CountersExact, ThreadInv, Base
<1> QED
  BY <1>1, ThreadAlways, PTL
=============================================================================

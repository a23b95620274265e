--------------------------- MODULE DukUnwind_proofs ---------------------------
(***************************************************************************)
(* Proofs about how DukThread unwinds: the handling of a longjmp comes to  *)
(* an end, and no finally clause is skipped, whatever leaves the try       *)
(* statement.  Both are properties of steps and rest on ThreadInv.         *)
(***************************************************************************)
EXTENDS DukThread_proofs

-----------------------------------------------------------------------------
(* The handling of a longjmp ends.                                         *)

\* What ToUnwind counts.
ActSet == {p \in Thread \X (1..MaxCall) : p[2] \in DOMAIN callstack[p[1]]}
LiveSet == {t \in Thread : tstate[t] # "terminated"}

LEMMA SetsFinite ==
  /\ IsFiniteSet(ActSet) /\ IsFiniteSet(LiveSet)
  /\ Cardinality(ActSet) \in Nat /\ Cardinality(LiveSet) \in Nat
<1>1. IsFiniteSet(Thread) /\ IsFiniteSet(1..MaxCall)
  BY ThreadAssumption, FS_Interval
<1>2. IsFiniteSet(Thread \X (1..MaxCall))
  BY <1>1, FS_Product
<1>3. IsFiniteSet(ActSet) /\ IsFiniteSet(LiveSet)
  BY <1>1, <1>2, FS_Subset DEF ActSet, LiveSet
<1> QED
  BY <1>3, FS_CardinalityType

\* A step that lets none of the sets grow and makes one part smaller.
LEMMA LessToUnwind ==
  ASSUME ThreadInv, ThreadInv', ActSet' \subseteq ActSet, LiveSet' \subseteq LiveSet,
         Len(cstack') <= Len(cstack), lj'.type = "throw",
         \/ ActSet' # ActSet \/ LiveSet' # LiveSet
         \/ Len(cstack') # Len(cstack) \/ lj.type # "throw"
  PROVE  ToUnwind' < ToUnwind
<1> DEFINE A == Cardinality(ActSet)
           B == Cardinality(LiveSet)
           C == Cardinality(ActSet')
           D == Cardinality(LiveSet')
           n == Len(cstack)
           m == Len(cstack')
<1>1. A \in Nat /\ B \in Nat /\ n \in Nat /\ m \in Nat
  <2>1. n \in Nat
    BY DEF ThreadInv, Base, TypeOK
  <2>2. m \in Nat
    BY DEF ThreadInv, Base, TypeOK
  <2> QED
    BY <2>1, <2>2, SetsFinite
<1>2. C \in Nat /\ C <= A /\ (C = A => ActSet' = ActSet)
  BY SetsFinite, FS_Subset, FS_CardinalityType
<1>3. D \in Nat /\ D <= B /\ (D = B => LiveSet' = LiveSet)
  BY SetsFinite, FS_Subset, FS_CardinalityType
<1>4. ToUnwind = n + A + B + (IF lj.type = "throw" THEN 0 ELSE 1)
  BY DEF ToUnwind, ActSet, LiveSet
<1>5. ToUnwind' = m + C + D
  <2>1. ToUnwind' = m + C + D + 0
    BY DEF ToUnwind, ActSet, LiveSet
  <2> HIDE DEF m, C, D
  <2> QED
    BY <2>1, <1>1, <1>2, <1>3
<1> HIDE DEF A, B, C, D, n, m
<1>6. m <= n /\ (m # n \/ C # A \/ D # B \/ lj.type # "throw")
  BY <1>2, <1>3 DEF m, n
<1>7. m + C + D < n + A + B + (IF lj.type = "throw" THEN 0 ELSE 1)
  <2>1. CASE lj.type = "throw"
    BY <2>1, <1>1, <1>2, <1>3, <1>6
  <2>2. CASE lj.type # "throw"
    BY <2>2, <1>1, <1>2, <1>3, <1>6
  <2> QED
    BY <2>1, <2>2
<1> QED
  BY <1>4, <1>5, <1>7

\* No callstack grows.
Shorter == \A t \in Thread : Len(callstack'[t]) <= Len(callstack[t])

LEMMA ActSetShrinks ==
  ASSUME ThreadInv, ThreadInv', Shorter
  PROVE  /\ ActSet' \subseteq ActSet
         /\ \A t \in Thread : Len(callstack'[t]) # Len(callstack[t]) => ActSet' # ActSet
<1>1. \A t \in Thread : /\ DOMAIN callstack[t] = 1..Len(callstack[t])
                        /\ Len(callstack[t]) \in Nat /\ Len(callstack[t]) <= MaxCall
  BY DEF ThreadInv, Base, TypeOK
<1>2. \A t \in Thread : DOMAIN callstack'[t] = 1..Len(callstack'[t]) /\ Len(callstack'[t]) \in Nat
  BY DEF ThreadInv, Base, TypeOK
<1>3. ActSet' \subseteq ActSet
  <2>1. \A t \in Thread : DOMAIN callstack'[t] \subseteq DOMAIN callstack[t]
    BY <1>1, <1>2 DEF Shorter
  <2>2. ActSet' = {p \in Thread \X (1..MaxCall) : p[2] \in DOMAIN callstack'[p[1]]}
    BY DEF ActSet
  <2> QED
    BY <2>1, <2>2 DEF ActSet
<1>4. ASSUME NEW t \in Thread, Len(callstack'[t]) # Len(callstack[t])
      PROVE  ActSet' # ActSet
  <2> DEFINE n == Len(callstack[t])
             m == Len(callstack'[t])
             p == <<t, n>>
  <2>1. m \in Nat /\ n \in Nat /\ m < n /\ n <= MaxCall
    BY <1>1, <1>2, <1>4 DEF Shorter
  <2>2. n \in 1..n /\ n \in 1..MaxCall /\ n \notin 1..m
    BY <2>1, ThreadAssumption
  <2>3. p \in ActSet
    BY <2>2, <1>1 DEF ActSet
  <2>4. p \notin ActSet'
    BY <2>2, <1>2 DEF ActSet
  <2> QED
    BY <2>3, <2>4
<1> QED
  BY <1>3, <1>4

LEMMA ActSetSame ==
  ASSUME ThreadInv, ThreadInv', \A t \in Thread : Len(callstack'[t]) = Len(callstack[t])
  PROVE  ActSet' \subseteq ActSet
<1>1. \A t \in Thread : Len(callstack[t]) \in Nat
  BY DEF ThreadInv, Base, TypeOK
<1> QED
  BY <1>1, ActSetShrinks DEF Shorter

\* resume() with an error becomes a throw in the coroutine.
LEMMA ResumeErrorEnds ==
  ASSUME ThreadInv, ThreadInv', HandleResumeError
  PROVE  ToUnwind' < ToUnwind
<1>1. /\ lj.type = "resume" /\ lj.thr \in Thread /\ tstate[lj.thr] \in {"inactive", "yielded"}
      /\ In({"exec"})
  BY ResumeFacts DEF HandleResumeError
<1>2. lj'.type = "throw" /\ callstack' = callstack /\ cstack' = cstack
  BY LjTypes DEF HandleResumeError
<1>3. curr \in Thread /\ tstate[curr] = "running"
  <2>1. curr \in Thread
    BY <1>1, HandlingFacts
  <2> QED
    BY <2>1, ThreadAssumption DEF ThreadInv, Base, States
<1>4. tstate' = [tstate EXCEPT ![lj.thr] = "running", ![curr] = "resumed"]
  BY DEF HandleResumeError, SwitchTo
<1>5. tstate \in [Thread -> {"inactive", "running", "resumed", "yielded", "terminated"}]
  BY DEF ThreadInv, Base, TypeOK
<1>6. LiveSet' \subseteq LiveSet
  BY <1>1, <1>3, <1>4, <1>5 DEF LiveSet
<1>7. ActSet' \subseteq ActSet
  BY <1>2, ActSetSame
<1>8. Len(cstack') <= Len(cstack)
  BY <1>2 DEF ThreadInv, Base, TypeOK
<1> QED
  BY <1>1, <1>2, <1>6, <1>7, <1>8, LessToUnwind

\* yield() with an error becomes a throw in the resumer.
LEMMA YieldErrorEnds ==
  ASSUME ThreadInv, ThreadInv', HandleYield, lj.iserror
  PROVE  ToUnwind' < ToUnwind
<1>1. lj.type = "yield" /\ In({"exec"}) /\ Frame.thr # curr
  BY YieldFrames DEF HandleYield, Handling
<1>2. lj'.type = "throw" /\ callstack' = callstack /\ cstack' = cstack
  BY LjTypes DEF HandleYield
<1>3. PICK r : r = resumer[curr]
  OBVIOUS
<1>4. r \in Thread /\ tstate[r] = "resumed" /\ curr \in Thread
  BY <1>1, <1>3, ResumerFrames, HandlingFacts
<1>5. tstate[curr] = "running"
  BY <1>4, ThreadAssumption DEF ThreadInv, Base, States
<1>6. tstate' = [tstate EXCEPT ![curr] = "yielded", ![r] = "running"]
  BY <1>3 DEF HandleYield
<1>7. tstate \in [Thread -> {"inactive", "running", "resumed", "yielded", "terminated"}]
  BY DEF ThreadInv, Base, TypeOK
<1>8. LiveSet' \subseteq LiveSet
  BY <1>4, <1>5, <1>6, <1>7 DEF LiveSet
<1>9. ActSet' \subseteq ActSet
  BY <1>2, ActSetSame
<1>10. Len(cstack') <= Len(cstack)
  BY <1>2 DEF ThreadInv, Base, TypeOK
<1> QED
  BY <1>1, <1>2, <1>8, <1>9, <1>10, LessToUnwind

\* The executor leaves by rethrowing, or an activation is unwound.
LEMMA UnwindEnds ==
  ASSUME ThreadInv, ThreadInv', HandleUnwind
  PROVE  ToUnwind' < ToUnwind
<1>1. /\ lj.type = "throw" /\ In({"exec"}) /\ callstack[curr] # <<>>
      /\ lj' = lj /\ tstate' = tstate
  BY DEF HandleUnwind, Handling
<1>2. curr \in Thread
  BY <1>1, HandlingFacts
<1>3. LiveSet' \subseteq LiveSet
  BY <1>1 DEF LiveSet
<1>4. CASE AtEntry
  <2>1. callstack' = WithCats(curr, <<>>) /\ cstack' = Outer(cstack)
    BY <1>4 DEF HandleUnwind
  <2>2. ActSet' \subseteq ActSet
    <3>0. <<>> \in Seq(Catcher)
      OBVIOUS
    <3>1. /\ \A u \in Thread : u # curr => callstack'[u] = callstack[u]
          /\ Len(callstack'[curr]) = Len(callstack[curr])
      BY <2>1, <3>0, <1>1, <1>2, WithCatsIs DEF ThreadInv, Base, CatsSet
    <3> QED
      BY <3>1, ActSetSame
  <2>3. Len(cstack') < Len(cstack) /\ Len(cstack) \in Nat /\ Len(cstack') \in Nat
    <3> DEFINE cs == Front(cstack)
    <3>1. cstack \in Seq(CFrame) /\ cstack # <<>>
      BY <1>1 DEF ThreadInv, Base, TypeOK, In
    <3>2. cs \in Seq(CFrame) /\ Len(cs) = Len(cstack) - 1 /\ Len(cstack) \in Nat \ {0}
      BY <3>1, <1>2, FramePop
    <3> HIDE DEF cs
    <3>3. PICK m : CaughtAt(cs, m)
      BY <3>2, CaughtIs
    <3>4. m \in 0..Len(cs) /\ cstack' = SubSeq(cs, 1, m)
      BY <3>3, <2>1 DEF CaughtAt, Outer, cs
    <3>5. Len(cstack') = m
      BY <3>2, <3>4, CutIs
    <3> QED
      BY <3>2, <3>4, <3>5
  <2>4. Len(cstack') <= Len(cstack) /\ Len(cstack') # Len(cstack)
    BY <2>3
  <2> QED
    BY <1>1, <1>3, <2>2, <2>4, LessToUnwind
<1>5. CASE ~AtEntry
  <2>1. UnwindTo(curr, Len(callstack[curr]) - 1) /\ cstack' = cstack
    BY <1>5 DEF HandleUnwind
  <2>2. /\ OnlyCurr /\ Len(callstack'[curr]) = Len(callstack[curr]) - 1 /\ Len(callstack[curr]) \in Nat \ {0}
    BY <1>1, <1>2, <1>5, <2>1, PopIs DEF ActPrefix
  <2>3. Shorter /\ Len(callstack'[curr]) # Len(callstack[curr])
    <3>1. \A t \in Thread : Len(callstack[t]) \in Nat
      BY DEF ThreadInv, Base, TypeOK
    <3> QED
      BY <2>2, <3>1 DEF Shorter, OnlyCurr
  <2>4. ActSet' \subseteq ActSet /\ ActSet' # ActSet
    BY <2>3, <1>2, ActSetShrinks
  <2>5. Len(cstack') <= Len(cstack)
    BY <2>1 DEF ThreadInv, Base, TypeOK
  <2> QED
    BY <1>1, <1>3, <2>4, <2>5, LessToUnwind
<1> QED
  BY <1>4, <1>5

\* A coroutine ends, and its resumer goes on with the error.
LEMMA UncaughtEnds ==
  ASSUME ThreadInv, ThreadInv', HandleUncaught
  PROVE  ToUnwind' < ToUnwind
<1>1. /\ lj.type = "throw" /\ In({"exec"}) /\ callstack[curr] = <<>>
      /\ lj' = lj /\ cstack' = cstack /\ EndThread(Len(callstack[resumer[curr]]))
  BY DEF HandleUncaught, Handling
<1>2. PICK r : r = resumer[curr]
  OBVIOUS
<1>3. curr \in Thread /\ r \in Thread /\ r # NONE
  BY <1>1, <1>2, HandlingFacts DEF ThreadInv, Base, TypeOK, EndThread
<1>4. tstate[curr] = "running" /\ tstate[r] = "resumed"
  BY <1>2, <1>3, ThreadAssumption DEF ThreadInv, Base, States
<1>5. /\ tstate' = [tstate EXCEPT ![curr] = "terminated", ![r] = "running"]
      /\ callstack' = [callstack EXCEPT ![curr] = <<>>, ![r] = SubSeq(@, 1, Len(callstack[r]))]
  BY <1>1, <1>2 DEF EndThread
<1>6. tstate \in [Thread -> {"inactive", "running", "resumed", "yielded", "terminated"}]
  BY DEF ThreadInv, Base, TypeOK
<1>7. LiveSet' \subseteq LiveSet /\ LiveSet' # LiveSet
  <2>1. curr # r
    BY <1>4
  <2>2. tstate'[curr] = "terminated" /\ \A t \in Thread : tstate'[t] # "terminated" => tstate[t] # "terminated"
    BY <2>1, <1>3, <1>4, <1>5, <1>6
  <2>3. curr \in LiveSet /\ curr \notin LiveSet'
    BY <2>2, <1>3, <1>4 DEF LiveSet
  <2> QED
    BY <2>2, <2>3 DEF LiveSet
<1>8. ActSet' \subseteq ActSet
  <2>1. callstack \in [Thread -> Seq(Activation)]
    BY DEF ThreadInv, Base, TypeOK
  <2>2. curr # r
    BY <1>4
  <2> DEFINE q == SubSeq(callstack[r], 1, Len(callstack[r]))
             z == <<>>
  <2>3. Len(q) = Len(callstack[r])
    <3>1. callstack[r] \in Seq(Activation)
      BY <2>1, <1>3
    <3>2. Len(callstack[r]) \in 0..Len(callstack[r])
      BY <3>1
    <3> QED
      BY <3>1, <3>2, CutIs
  <2>4. callstack' = [callstack EXCEPT ![curr] = z, ![r] = q]
    BY <1>5, <2>1, <2>2, <1>3
  <2>5. callstack[curr] = z
    BY <1>1
  <2> HIDE DEF q, z
  <2>6. \A t \in Thread : t # r => callstack'[t] = callstack[t]
    BY <2>1, <2>2, <2>4, <2>5, <1>3
  <2>7. callstack'[r] = q
    BY <2>1, <2>2, <2>4, <1>3
  <2>8. \A t \in Thread : Len(callstack'[t]) = Len(callstack[t])
    BY <2>3, <2>6, <2>7
  <2> QED
    BY <2>8, ActSetSame
<1>9. Len(cstack') <= Len(cstack)
  BY <1>1 DEF ThreadInv, Base, TypeOK
<1> QED
  BY <1>1, <1>7, <1>8, <1>9, LessToUnwind

LEMMA HandlingStep ==
  ThreadInv /\ ThreadInv' /\ [Next]_vars => [~Running /\ ~Running' => ToUnwind' < ToUnwind]_vars
<1> SUFFICES ASSUME ThreadInv, ThreadInv', Next, ~Running, ~Running'
             PROVE  ToUnwind' < ToUnwind
  OBVIOUS
<1>1. ~Program
  BY DEF Program, SafeCall, HandleCall, EcmaCall, TailCall, NativeReturn, SafeReturn, RunFinalizer,
         Throw, Enter, EndTry, EndCatch, EndLabel, EndFin, Break, Return, Resume, Yield, Arm,
         Interrupt, AtEndOf, InBytecode, InC
<1>2. ~LjDone
  BY LjTypes DEF LjDone, Running
<1>3. ~HandleResume /\ ~HandleCatch /\ ~HandleFinally /\ ~HandleCancel
  BY <1>2 DEF HandleResume, HandleCatch, HandleFinally, HandleCancel
<1>4. ~CatchSetup
  BY DEF CatchSetup
<1>5. ~SafeError
  BY LjTypes DEF SafeError, Running
<1>6. HandleYield => lj.iserror
  BY <1>2 DEF HandleYield
<1> QED
  BY <1>1, <1>3, <1>4, <1>5, <1>6, ResumeErrorEnds, YieldErrorEnds, UnwindEnds, UncaughtEnds, Zenon
     DEF Next, Engine

\* The handling of an error, a resume, a yield or a cancellation ends: every step of
\* it that does not end it leaves fewer frames, activations and threads to unwind,
\* for any number of threads and any limits.
THEOREM HandlingAlwaysEnds ==
  Spec => HandlingEnds
BY ThreadAlways, HandlingStep, PTL DEF Spec, HandlingEnds

-----------------------------------------------------------------------------
(* No finally clause is skipped: what must hold of catchers, callstacks    *)
(* and protected calls besides ThreadInv.                                  *)

\* A label, or a statement in its finally clause, has no clause left to run.
CatOK(c) == c.kind \in {"label", "bare"} \/ c.at = "finally" => ~c.finally
CatsFine(cats) == \A j \in 1..Len(cats) : CatOK(cats[j])
Fine(s) == \A k \in 1..Len(s) : CatsFine(s[k].cats)

\* Nothing runs on top of resume() or yield().
Suspending == {"resume", "yield"}
SuspOK(s) == \A k \in 1..Len(s) : s[k].fn \in Suspending => k = Len(s)

\* A protected call is made from an ordinary activation, and what it calls
\* prevents yielding.
SafeOn(f, s) ==
  f.kind \in SafeKinds =>
    /\ f.top >= 1 => s[f.top].fn \notin Suspending
    /\ f.top < Len(s) => s[f.top + 1].prevent

\* A resume() or yield() that a protected call has caught was called by it directly.
CaughtSafe ==
  lj.type \in Suspending /\ Frame.kind \in SafeKinds => Len(callstack[curr]) = Frame.top + 1

FinInv ==
  /\ \A t \in Thread : Fine(callstack[t]) /\ SuspOK(callstack[t])
  /\ \A i \in 1..Len(cstack) : SafeOn(cstack[i], callstack[cstack[i].thr])
  /\ CaughtSafe

FinallyStep == \A p \in PendingFinally : p \in PendingFinally' \/ EnteredFinally(p)'

-----------------------------------------------------------------------------
(* Changes of one callstack.                                               *)

\* Pending finally clauses of a are pending or entered in b.
Quiet(cats) == \A j \in 1..Len(cats) : ~cats[j].finally
Passes(a, b) == \A j \in 1..Len(a) : a[j].finally => j \in 1..Len(b) /\ (b[j].finally \/ b[j].at = "finally")
Held(s, r) ==
  \A k \in 1..Len(s) : Quiet(s[k].cats) \/ (k \in 1..Len(r) /\ Passes(s[k].cats, r[k].cats))
KeptActs(s, r) == \A k \in 1..Len(s) : k \in 1..Len(r) => SameAct(s[k], r[k])
Change(s, r) == r \in Seq(Activation) /\ Held(s, r) /\ Fine(r) /\ SuspOK(r) /\ KeptActs(s, r)

LEMMA PassesSame ==
  ASSUME NEW a
  PROVE  Passes(a, a)
BY DEF Passes

LEMMA ChangeNone ==
  ASSUME NEW s \in Seq(Activation), Fine(s), SuspOK(s)
  PROVE  Change(s, s)
BY PassesSame DEF Change, Held, KeptActs, SameAct

\* The catchers of the innermost activation.
LEMMA ChangeCats ==
  ASSUME NEW s \in Seq(Activation), s # <<>>, Fine(s), SuspOK(s), NEW r, NEW cats \in Seq(Catcher),
         CatsSet(s, r, cats), CatsFine(cats), Passes(s[Len(s)].cats, cats)
  PROVE  Change(s, r) /\ Len(r) = Len(s)
<1>1. /\ Len(s) \in Nat \ {0} /\ r \in Seq(Activation) /\ Len(r) = Len(s)
      /\ \A k \in 1..Len(s) : SameAct(s[k], r[k]) /\ (k # Len(s) => r[k] = s[k])
      /\ r[Len(s)].cats = cats
  BY CatsSetIs DEF CatsSet
<1>2. Held(s, r)
  <2>1. ASSUME NEW k \in 1..Len(s)
        PROVE  k \in 1..Len(r) /\ Passes(s[k].cats, r[k].cats)
    <3>1. CASE k = Len(s)
      BY <3>1, <1>1
    <3>2. CASE k # Len(s)
      BY <3>2, <1>1, PassesSame
    <3> QED
      BY <3>1, <3>2
  <2> QED
    BY <2>1 DEF Held
<1>3. Fine(r)
  <2>1. ASSUME NEW k \in 1..Len(r)
        PROVE  CatsFine(r[k].cats)
    <3>1. CASE k = Len(s)
      BY <3>1, <1>1
    <3>2. CASE k # Len(s)
      BY <3>2, <1>1 DEF Fine
    <3> QED
      BY <3>1, <3>2
  <2> QED
    BY <2>1 DEF Fine
<1>4. SuspOK(r) /\ KeptActs(s, r)
  BY <1>1 DEF SuspOK, KeptActs, SameAct
<1> QED
  BY <1>1, <1>2, <1>3, <1>4 DEF Change

\* A new innermost activation.
Pushed(s, r, a) ==
  /\ r \in Seq(Activation) /\ Len(r) = Len(s) + 1 /\ r[Len(s) + 1] = a
  /\ \A k \in 1..Len(s) : r[k] = s[k]
Plain(s) == s = <<>> \/ s[Len(s)].fn \notin Suspending

LEMMA ChangePush ==
  ASSUME NEW s \in Seq(Activation), Fine(s), SuspOK(s), Plain(s), NEW r, NEW a \in Activation,
         a.cats = <<>>, Pushed(s, r, a)
  PROVE  Change(s, r)
<1>1. Len(s) \in Nat /\ \A k \in 1..Len(r) : k \in 1..Len(s) \/ k = Len(s) + 1
  BY DEF Pushed
<1>2. Held(s, r) /\ KeptActs(s, r)
  <2>1. ASSUME NEW k \in 1..Len(s)
        PROVE  k \in 1..Len(r) /\ r[k] = s[k]
    BY <1>1 DEF Pushed
  <2> QED
    BY <2>1, PassesSame DEF Held, KeptActs, SameAct
<1>3. Fine(r)
  <2>1. CatsFine(a.cats)
    BY DEF CatsFine
  <2> QED
    BY <1>1, <2>1 DEF Fine, Pushed
<1>4. SuspOK(r)
  <2>1. ASSUME NEW k \in 1..Len(s), s[k].fn \in Suspending
        PROVE  FALSE
    <3>1. k = Len(s)
      BY <2>1 DEF SuspOK
    <3>2. s # <<>>
      BY <1>1, <3>1
    <3> QED
      BY <2>1, <3>1, <3>2 DEF Plain
  <2> QED
    BY <1>1, <2>1 DEF SuspOK, Pushed
<1> QED
  BY <1>2, <1>3, <1>4 DEF Change, Pushed

\* Activations without pending finally clauses are unwound.
QuietAbove(s, m) == \A k \in 1..Len(s) : k > m => Quiet(s[k].cats)

LEMMA ChangeCut ==
  ASSUME NEW s \in Seq(Activation), Fine(s), SuspOK(s), NEW m \in 0..Len(s), NEW r,
         ActPrefix(s, r, m), QuietAbove(s, m)
  PROVE  Change(s, r) /\ Len(r) <= Len(s)
<1>1. /\ Len(s) \in Nat /\ m \in Nat /\ m <= Len(s) /\ r \in Seq(Activation) /\ Len(r) = m
      /\ \A k \in 1..m : r[k] = s[k] /\ k \in 1..Len(s)
  BY DEF ActPrefix
<1>2. Held(s, r)
  <2>1. ASSUME NEW k \in 1..Len(s)
        PROVE  Quiet(s[k].cats) \/ (k \in 1..Len(r) /\ Passes(s[k].cats, r[k].cats))
    <3>1. CASE k > m
      BY <3>1 DEF QuietAbove
    <3>2. CASE ~(k > m)
      <4>1. k \in 1..m
        BY <3>2, <1>1
      <4> QED
        BY <4>1, <1>1, PassesSame
    <3> QED
      BY <3>1, <3>2
  <2> QED
    BY <2>1 DEF Held
<1>3. Fine(r) /\ KeptActs(s, r)
  BY <1>1 DEF Fine, KeptActs, SameAct
<1>4. SuspOK(r)
  <2>1. ASSUME NEW k \in 1..m, r[k].fn \in Suspending
        PROVE  k = m
    <3>1. k = Len(s)
      BY <1>1, <2>1 DEF SuspOK
    <3> QED
      BY <1>1, <3>1
  <2> QED
    BY <1>1, <2>1 DEF SuspOK
<1> QED
  BY <1>1, <1>2, <1>3, <1>4 DEF Change

-----------------------------------------------------------------------------
(* From the callstacks to the step.                                        *)

LEMMA Skipless ==
  ASSUME ThreadInv, ThreadInv', \A t \in Thread : Held(callstack[t], callstack'[t])
  PROVE  FinallyStep
<1>0. /\ \A t \in Thread : callstack[t] \in Seq(Activation)
      /\ \A t \in Thread : \A k \in DOMAIN callstack[t] : callstack[t][k] \in Activation
  <2>1. \A t \in Thread : callstack[t] \in Seq(Activation)
    BY DEF ThreadInv, Base, TypeOK
  <2> QED
    BY <2>1
<1>1. ASSUME NEW p \in PendingFinally
      PROVE  p \in PendingFinally' \/ EnteredFinally(p)'
  <2>1. PICK t \in Thread, k \in 1..MaxCall, j \in 1..MaxStmt : p = <<t, k, j>>
    BY DEF PendingFinally, OpenStmts
  <2>2. k \in DOMAIN callstack[t] /\ j \in DOMAIN callstack[t][k].cats /\ callstack[t][k].cats[j].finally
    BY <2>1 DEF PendingFinally, OpenStmts
  <2>3. callstack[t][k].cats \in Seq(Catcher)
    BY <2>2, <1>0, ActType
  <2>4. k \in 1..Len(callstack[t]) /\ j \in 1..Len(callstack[t][k].cats)
    BY <2>2, <2>3, <1>0
  <2>5. k \in 1..Len(callstack'[t]) /\ Passes(callstack[t][k].cats, callstack'[t][k].cats)
    BY <2>2, <2>4 DEF Held, Quiet
  <2>6. /\ j \in 1..Len(callstack'[t][k].cats)
        /\ callstack'[t][k].cats[j].finally \/ callstack'[t][k].cats[j].at = "finally"
    BY <2>2, <2>4, <2>5 DEF Passes
  <2>7. callstack'[t] \in Seq(Activation)
    BY DEF ThreadInv, Base, TypeOK
  <2>8. callstack'[t][k].cats \in Seq(Catcher)
    BY <2>5, <2>7, ActType
  <2>9. k \in DOMAIN callstack'[t] /\ j \in DOMAIN callstack'[t][k].cats
    BY <2>5, <2>6, <2>7, <2>8
  <2>10. <<t, k, j>> \in OpenStmts'
    BY <2>9 DEF OpenStmts
  <2> QED
    BY <2>1, <2>6, <2>10 DEF PendingFinally, EnteredFinally
<1> QED
  BY <1>1 DEF FinallyStep

\* A frame that stays, and a protected call that finds a new activation.
Stays(f, g) == g.kind = f.kind /\ g.thr = f.thr /\ g.top = f.top
NewPrevents(f, s, r) ==
  f.kind \in SafeKinds /\ f.top = Len(s) /\ f.top < Len(r) => r[f.top + 1].prevent
OldFrame(i) ==
  /\ i \in 1..Len(cstack) /\ Stays(cstack[i], cstack'[i])
  /\ NewPrevents(cstack[i], callstack[cstack[i].thr], callstack'[cstack[i].thr])
NewFrame(i) == SafeOn(cstack'[i], callstack'[cstack'[i].thr])

LEMMA FinStep ==
  ASSUME ThreadInv, ThreadInv', FinInv, CaughtSafe',
         \A t \in Thread : Change(callstack[t], callstack'[t]),
         \A i \in 1..Len(cstack') : OldFrame(i) \/ NewFrame(i)
  PROVE  FinInv' /\ FinallyStep
<1>1. FinallyStep
  BY Skipless DEF Change
<1>2. ASSUME NEW i \in 1..Len(cstack'), OldFrame(i)
      PROVE  NewFrame(i)
  <2>1. PICK f : f = cstack[i]
    OBVIOUS
  <2>2. PICK s : s = callstack[f.thr]
    OBVIOUS
  <2>3. PICK r : r = callstack'[f.thr]
    OBVIOUS
  <2>4. f \in CFrame /\ i \in 1..Len(cstack)
    BY <1>2, <2>1 DEF OldFrame, ThreadInv, Base, TypeOK
  <2>5. f.top \in Nat /\ f.thr \in Thread /\ Bonus(f) \in {0, 1}
    BY <2>4, FrameType
  <2>6. s \in Seq(Activation) /\ Change(s, r) /\ r \in Seq(Activation) /\ SafeOn(f, s) /\ MatchF(f, s)
    BY <2>1, <2>2, <2>3, <2>4, <2>5 DEF ThreadInv, Base, TypeOK, FinInv, Change, Match
  <2>7. Len(s) \in Nat /\ Len(r) \in Nat
    BY <2>6
  <2>8. cstack'[i].kind = f.kind /\ cstack'[i].thr = f.thr /\ cstack'[i].top = f.top
    BY <1>2, <2>1 DEF OldFrame, Stays
  <2>9. f.top <= Len(r)
    <3>1. MatchF(cstack'[i], callstack'[cstack'[i].thr])
      BY DEF ThreadInv, Base, Match
    <3>2. f.top + Bonus(f) <= Len(r)
      BY <3>1, <2>8, <2>3 DEF MatchF, Bonus
    <3> QED
      BY <3>2, <2>5, <2>7
  <2>10. f.top <= Len(s)
    <3>1. f.top + Bonus(f) <= Len(s)
      BY <2>6 DEF MatchF
    <3> QED
      BY <3>1, <2>5, <2>7
  <2>11. ASSUME f.kind \in SafeKinds, f.top >= 1
         PROVE  r[f.top].fn \notin Suspending
    <3>1. f.top \in 1..Len(s) /\ f.top \in 1..Len(r)
      BY <2>5, <2>7, <2>9, <2>10, <2>11
    <3> QED
      BY <3>1, <2>6, <2>11 DEF SafeOn, Change, KeptActs, SameAct
  <2>12. ASSUME f.kind \in SafeKinds, f.top < Len(r)
         PROVE  r[f.top + 1].prevent
    <3>1. CASE f.top = Len(s)
      BY <3>1, <1>2, <2>1, <2>2, <2>3, <2>12 DEF OldFrame, NewPrevents
    <3>2. CASE f.top # Len(s)
      <4>1. f.top < Len(s) /\ f.top + 1 \in 1..Len(s) /\ f.top + 1 \in 1..Len(r)
        BY <3>2, <2>5, <2>7, <2>10, <2>12
      <4>2. s[f.top + 1].prevent
        BY <4>1, <2>6, <2>12 DEF SafeOn
      <4> QED
        BY <4>1, <4>2, <2>6 DEF Change, KeptActs, SameAct
    <3> QED
      BY <3>1, <3>2
  <2>13. SafeOn(f, r)
    BY <2>11, <2>12 DEF SafeOn
  <2>14. SafeOn(cstack'[i], r)
    BY <2>8, <2>13 DEF SafeOn
  <2> QED
    BY <2>3, <2>8, <2>14 DEF NewFrame
<1>3. \A i \in 1..Len(cstack') : SafeOn(cstack'[i], callstack'[cstack'[i].thr])
  BY <1>2 DEF NewFrame
<1>4. \A t \in Thread : Fine(callstack'[t]) /\ SuspOK(callstack'[t])
  BY DEF Change
<1>5. FinInv'
  BY <1>3, <1>4 DEF FinInv
<1> QED
  BY <1>1, <1>5

\* A step that changes the callstacks of only some threads.
LEMMA OthersKept ==
  ASSUME ThreadInv, FinInv, NEW t \in Thread, callstack'[t] = callstack[t]
  PROVE  Change(callstack[t], callstack'[t]) /\ Len(callstack'[t]) <= Len(callstack[t])
<1>1. callstack[t] \in Seq(Activation) /\ Fine(callstack[t]) /\ SuspOK(callstack[t])
  BY DEF ThreadInv, Base, TypeOK, FinInv
<1>2. Len(callstack[t]) <= Len(callstack[t])
  BY <1>1
<1> QED
  BY <1>1, <1>2, ChangeNone

\* The frames that are left, when no callstack grows.
FramesLeft == \A i \in 1..Len(cstack') : i \in 1..Len(cstack) /\ Stays(cstack[i], cstack'[i])
NotSuspending == lj'.type \notin Suspending

LEMMA ShrinkStep ==
  ASSUME ThreadInv, ThreadInv', FinInv, NotSuspending, FramesLeft,
         \A t \in Thread : Change(callstack[t], callstack'[t]) /\ Len(callstack'[t]) <= Len(callstack[t])
  PROVE  FinInv' /\ FinallyStep
<1>1. CaughtSafe'
  BY DEF CaughtSafe, NotSuspending
<1>2. ASSUME NEW i \in 1..Len(cstack')
      PROVE  OldFrame(i)
  <2>1. i \in 1..Len(cstack) /\ Stays(cstack[i], cstack'[i])
    BY DEF FramesLeft
  <2>2. cstack[i] \in CFrame
    BY <2>1 DEF ThreadInv, Base, TypeOK
  <2>3. cstack[i].thr \in Thread /\ cstack[i].top \in Nat
    BY <2>2, FrameType
  <2> DEFINE s == callstack[cstack[i].thr]
             r == callstack'[cstack[i].thr]
  <2>4. Len(s) \in Nat /\ Len(r) \in Nat /\ Len(r) <= Len(s)
    <3>1. s \in Seq(Activation)
      BY <2>3 DEF ThreadInv, Base, TypeOK
    <3>2. r \in Seq(Activation) /\ Len(r) <= Len(s)
      BY <2>3 DEF Change
    <3> QED
      BY <3>1, <3>2
  <2>5. ~(cstack[i].top = Len(s) /\ cstack[i].top < Len(r))
    BY <2>3, <2>4
  <2> QED
    BY <2>1, <2>5 DEF OldFrame, NewPrevents
<1> QED
  BY <1>1, <1>2, FinStep

\* The frames that stay.
LEMMA AllFramesStay ==
  ASSUME cstack' = cstack
  PROVE  FramesLeft
BY DEF FramesLeft, Stays

LEMMA FrontStays ==
  ASSUME ThreadInv, cstack # <<>>, cstack' = Front(cstack)
  PROVE  FramesLeft
<1>1. cstack \in Seq(CFrame) /\ MAIN \in Thread
  BY ThreadAssumption DEF ThreadInv, Base, TypeOK
<1>2. /\ Len(cstack') = Len(cstack) - 1 /\ Len(cstack) \in Nat \ {0}
      /\ \A i \in 1..Len(cstack) - 1 : cstack'[i] = cstack[i]
  BY <1>1, FramePop
<1>3. \A i \in 1..Len(cstack) - 1 : i \in 1..Len(cstack)
  BY <1>2
<1> QED
  BY <1>2, <1>3 DEF FramesLeft, Stays

LEMMA CaughtStays ==
  ASSUME ThreadInv, cstack' = Caught(cstack)
  PROVE  FramesLeft
<1>1. cstack \in Seq(CFrame)
  BY DEF ThreadInv, Base, TypeOK
<1>2. PICK m : CaughtAt(cstack, m)
  BY <1>1, CaughtIs
<1>3. m \in 0..Len(cstack) /\ cstack' = SubSeq(cstack, 1, m)
  BY <1>2 DEF CaughtAt
<1>4. Len(cstack') = m /\ \A i \in 1..m : cstack'[i] = cstack[i]
  BY <1>1, <1>3, CutIs
<1>5. \A i \in 1..m : i \in 1..Len(cstack)
  BY <1>1, <1>3
<1> QED
  BY <1>4, <1>5 DEF FramesLeft, Stays

LEMMA OuterStays ==
  ASSUME ThreadInv, cstack # <<>>, cstack' = Outer(cstack)
  PROVE  FramesLeft
<1> DEFINE cs == Front(cstack)
<1>1. cstack \in Seq(CFrame) /\ MAIN \in Thread
  BY ThreadAssumption DEF ThreadInv, Base, TypeOK
<1>2. /\ cs \in Seq(CFrame) /\ Len(cs) = Len(cstack) - 1 /\ Len(cstack) \in Nat \ {0}
      /\ \A i \in 1..Len(cstack) - 1 : cs[i] = cstack[i]
  BY <1>1, FramePop
<1>3. cstack' = Caught(cs)
  BY DEF Outer
<1> HIDE DEF cs
<1>4. PICK m : CaughtAt(cs, m)
  BY <1>2, CaughtIs
<1>5. m \in 0..Len(cs) /\ cstack' = SubSeq(cs, 1, m)
  BY <1>3, <1>4 DEF CaughtAt
<1>6. Len(cstack') = m /\ \A i \in 1..m : cstack'[i] = cs[i]
  BY <1>2, <1>5, CutIs
<1>7. \A i \in 1..m : i \in 1..Len(cstack) /\ i \in 1..Len(cstack) - 1
  BY <1>2, <1>5
<1> QED
  BY <1>2, <1>6, <1>7 DEF FramesLeft, Stays

LEMMA DelayStays ==
  ASSUME ThreadInv, cstack # <<>>, NEW b \in BOOLEAN,
         cstack' = ReplaceAt(cstack, Len(cstack), [Frame EXCEPT !.delayed = b])
  PROVE  FramesLeft
<1> DEFINE n == Len(cstack)
           f == [Frame EXCEPT !.delayed = b]
<1>1. n \in Nat \ {0} /\ Frame = cstack[n] /\ Frame \in CFrame /\ cstack \in Seq(CFrame)
  BY FrameIs DEF ThreadInv, Base, TypeOK
<1>2. f.kind = Frame.kind /\ f.thr = Frame.thr /\ f.top = Frame.top /\ f \in CFrame /\ n \in 1..n
  BY <1>1 DEF CFrame
<1>3. cstack' = [cstack EXCEPT ![n] = f]
  BY <1>1 DEF ReplaceAt
<1> HIDE DEF f
<1>4. Len(cstack') = n /\ cstack'[n] = f /\ \A i \in 1..n : i # n => cstack'[i] = cstack[i]
  <2> DEFINE ds == [cstack EXCEPT ![n] = f]
  <2>1. Len(ds) = n /\ ds[n] = f /\ \A i \in 1..n : i # n => ds[i] = cstack[i]
    BY <1>1, <1>2, PutIs
  <2>2. cstack' = ds
    BY <1>3
  <2> HIDE DEF ds
  <2> QED
    BY <2>1, <2>2
<1>5. ASSUME NEW i \in 1..n
      PROVE  Stays(cstack[i], cstack'[i])
  BY <1>1, <1>2, <1>4 DEF Stays
<1> QED
  BY <1>4, <1>5 DEF FramesLeft

-----------------------------------------------------------------------------
(* Changes of the catchers of one activation.                              *)

\* The new catchers r keep pending clauses pending, or enter them.
Proper(cats, r) == r \in Seq(Catcher) /\ CatsFine(r) /\ Passes(cats, r)
QuietAfter(cats, i) == \A j \in 1..Len(cats) : j > i => ~cats[j].finally
Edited(cats, r, i, c) ==
  /\ r \in Seq(Catcher) /\ Len(r) = i /\ r[i] = c
  /\ \A j \in 1..i : j # i => r[j] = cats[j]

\* Catcher i becomes c, the ones inside it are unwound.
LEMMA EditCats ==
  ASSUME NEW cats \in Seq(Catcher), CatsFine(cats), NEW i \in 1..Len(cats), QuietAfter(cats, i),
         NEW c, CatOK(c), cats[i].finally => c.finally \/ c.at = "finally",
         NEW r, Edited(cats, r, i, c)
  PROVE  Proper(cats, r)
<1>1. i \in Nat /\ i >= 1 /\ Len(cats) \in Nat /\ \A j \in 1..i : j \in 1..Len(cats)
  OBVIOUS
<1>2. CatsFine(r)
  BY <1>1 DEF CatsFine, Edited
<1>3. ASSUME NEW j \in 1..Len(cats), cats[j].finally
      PROVE  j \in 1..Len(r) /\ (r[j].finally \/ r[j].at = "finally")
  <2>1. ~(j > i)
    BY <1>3 DEF QuietAfter
  <2>2. j \in 1..i
    BY <1>1, <2>1
  <2> QED
    BY <1>3, <2>2 DEF Edited
<1> QED
  BY <1>2, <1>3 DEF Proper, Passes, Edited

LEMMA CutProper ==
  ASSUME NEW cats \in Seq(Catcher), CatsFine(cats), NEW i \in 0..Len(cats), QuietAfter(cats, i)
  PROVE  Proper(cats, SubSeq(cats, 1, i))
<1> DEFINE r == SubSeq(cats, 1, i)
<1>1. r \in Seq(Catcher) /\ Len(r) = i /\ \A j \in 1..i : r[j] = cats[j]
  BY CutIs
<1>2. i \in Nat /\ Len(cats) \in Nat /\ \A j \in 1..i : j \in 1..Len(cats)
  OBVIOUS
<1> HIDE DEF r
<1>3. CatsFine(r)
  BY <1>1, <1>2 DEF CatsFine
<1>4. ASSUME NEW j \in 1..Len(cats), cats[j].finally
      PROVE  j \in 1..Len(r) /\ r[j].finally
  <2>1. ~(j > i)
    BY <1>4 DEF QuietAfter
  <2>2. j \in 1..i
    BY <1>2, <2>1
  <2> QED
    BY <1>1, <1>4, <2>2
<1>5. Proper(cats, r)
  BY <1>1, <1>3, <1>4 DEF Proper, Passes
<1> QED
  BY <1>5 DEF r

LEMMA FrontProper ==
  ASSUME NEW cats \in Seq(Catcher), cats # <<>>, CatsFine(cats), ~cats[Len(cats)].finally
  PROVE  Proper(cats, Front(cats))
<1> DEFINE n == Len(cats)
<1>1. n \in Nat \ {0} /\ n - 1 \in 0..n
  OBVIOUS
<1>2. QuietAfter(cats, n - 1)
  <2>1. \A j \in 1..n : j > n - 1 => j = n
    BY <1>1
  <2> QED
    BY <2>1 DEF QuietAfter
<1> QED
  BY <1>1, <1>2, CutProper DEF Front

LEMMA EnterProper ==
  ASSUME NEW cats \in Seq(Catcher), CatsFine(cats), NEW s \in Stmts
  PROVE  Proper(cats, Append(cats, NewCat(s)))
<1> DEFINE c == NewCat(s)
           r == Append(cats, c)
<1>1. c \in Catcher
  BY DEF NewCat, Catcher
<1>2. CatOK(c)
  BY DEF NewCat, CatOK
<1> HIDE DEF c
<1>3. /\ r \in Seq(Catcher) /\ Len(r) = Len(cats) + 1 /\ r[Len(cats) + 1] = c
      /\ \A j \in 1..Len(cats) : r[j] = cats[j]
  BY <1>1
<1>4. \A j \in 1..Len(r) : j \in 1..Len(cats) \/ j = Len(cats) + 1
  BY <1>3
<1>5. \A j \in 1..Len(cats) : j \in 1..Len(r)
  BY <1>3
<1> HIDE DEF r
<1>6. Proper(cats, r)
  BY <1>2, <1>3, <1>4, <1>5 DEF Proper, CatsFine, Passes
<1> QED
  BY <1>6 DEF r, c

LEMMA EnterFinallyEdits ==
  ASSUME NEW cats \in Seq(Catcher), NEW i \in 1..Len(cats), NEW l \in Nat,
         NEW cont \in {"none", "normal", "throw", "return", "break"}
  PROVE  \E c \in Catcher : c.at = "finally" /\ ~c.finally /\ Edited(cats, EnterFinally(cats, i, cont, l), i, c)
<1> DEFINE s == SubSeq(cats, 1, i)
           c == [s[i] EXCEPT !.finally = FALSE, !.at = "finally", !.cont = cont, !.label = l]
<1>1. i \in 0..Len(cats) /\ i \in Nat
  OBVIOUS
<1>2. Len(s) = i /\ s \in Seq(Catcher) /\ i \in 1..Len(s) /\ \A j \in 1..i : s[j] = cats[j]
  BY <1>1, CutIs
<1> HIDE DEF s
<1>3. s[i] \in Catcher
  BY <1>2
<1>4. c \in Catcher /\ c.at = "finally" /\ ~c.finally
  BY <1>3 DEF Catcher
<1>5. EnterFinally(cats, i, cont, l) = [s EXCEPT ![i] = c]
  BY <1>2, <1>3 DEF EnterFinally, Catcher, s
<1> HIDE DEF c
<1> DEFINE r == [s EXCEPT ![i] = c]
<1>6. r \in Seq(Catcher) /\ Len(r) = i /\ r[i] = c /\ \A j \in 1..i : j # i => r[j] = s[j]
  BY <1>2, <1>4, PutIs
<1> HIDE DEF r
<1>7. Edited(cats, r, i, c)
  BY <1>2, <1>6 DEF Edited
<1> QED
  BY <1>4, <1>5, <1>7 DEF r

LEMMA EnterFinallyProper ==
  ASSUME NEW cats \in Seq(Catcher), CatsFine(cats), NEW i \in 1..Len(cats), QuietAfter(cats, i),
         NEW l \in Nat, NEW cont \in {"none", "normal", "throw", "return", "break"}
  PROVE  Proper(cats, EnterFinally(cats, i, cont, l))
<1>1. PICK c \in Catcher : c.at = "finally" /\ ~c.finally /\ Edited(cats, EnterFinally(cats, i, cont, l), i, c)
  BY EnterFinallyEdits
<1>2. CatOK(c)
  BY <1>1 DEF CatOK
<1> QED
  BY <1>1, <1>2, EditCats

LEMMA EnterCatchProper ==
  ASSUME NEW cats \in Seq(Catcher), CatsFine(cats), NEW i \in 1..Len(cats), QuietAfter(cats, i)
  PROVE  Proper(cats, EnterCatch(cats, i))
<1> DEFINE s == SubSeq(cats, 1, i)
           c == [s[i] EXCEPT !.catch = FALSE, !.at = "catch"]
<1>1. i \in 0..Len(cats) /\ i \in Nat
  OBVIOUS
<1>2. Len(s) = i /\ s \in Seq(Catcher) /\ i \in 1..Len(s) /\ \A j \in 1..i : s[j] = cats[j]
  BY <1>1, CutIs
<1> HIDE DEF s
<1>3. s[i] \in Catcher /\ s[i] = cats[i]
  BY <1>2
<1>4. c \in Catcher /\ c.kind = s[i].kind /\ c.at = "catch" /\ c.finally = s[i].finally
  <2>1. c \in Catcher
    BY <1>3 DEF Catcher
  <2>2. c.kind = s[i].kind /\ c.at = "catch" /\ c.finally = s[i].finally
    BY <1>3 DEF Catcher
  <2> QED
    BY <2>1, <2>2, Zenon
<1>5. EnterCatch(cats, i) = [s EXCEPT ![i] = c]
  BY <1>2, <1>3 DEF EnterCatch, Catcher, s
<1> HIDE DEF c
<1> DEFINE r == [s EXCEPT ![i] = c]
<1>6. r \in Seq(Catcher) /\ Len(r) = i /\ r[i] = c /\ \A j \in 1..i : j # i => r[j] = s[j]
  BY <1>2, <1>4, PutIs
<1> HIDE DEF r
<1>7. Edited(cats, r, i, c)
  BY <1>2, <1>6 DEF Edited
<1>8. CatOK(cats[i])
  BY DEF CatsFine
<1>9. CatOK(c) /\ (cats[i].finally => c.finally)
  BY <1>3, <1>4, <1>8 DEF CatOK
<1> QED
  BY <1>5, <1>7, <1>9, EditCats DEF r

\* The last catcher becomes c.
LEMMA PutProper ==
  ASSUME NEW cats \in Seq(Catcher), CatsFine(cats), NEW i, i = Len(cats), cats # <<>>, NEW c \in Catcher,
         CatOK(c), cats[i].finally => c.finally \/ c.at = "finally"
  PROVE  Proper(cats, [cats EXCEPT ![i] = c])
<1> DEFINE r == [cats EXCEPT ![i] = c]
<1>1. i \in 1..Len(cats) /\ i \in Nat
  OBVIOUS
<1>2. r \in Seq(Catcher) /\ Len(r) = i /\ r[i] = c /\ \A j \in 1..i : j # i => r[j] = cats[j]
  BY <1>1, PutIs
<1> HIDE DEF r
<1>3. Edited(cats, r, i, c)
  BY <1>2 DEF Edited
<1>4. QuietAfter(cats, i)
  <2>1. \A j \in 1..Len(cats) : ~(j > i)
    BY <1>1
  <2> QED
    BY <2>1 DEF QuietAfter
<1> QED
  BY <1>1, <1>3, <1>4, EditCats DEF r

\* Inside the catcher found no clause is pending.
LEMMA FinallyCatQuiet ==
  ASSUME NEW cats \in Seq(Catcher)
  PROVE  QuietAfter(cats, FinallyCat(cats)) /\ FinallyCat(cats) \in 0..Len(cats)
<1> DEFINE I == {i \in 1..Len(cats) : cats[i].finally}
           m == FinallyCat(cats)
<1>1. m = IF I # {} THEN Max(I) ELSE 0
  BY DEF FinallyCat, SelectLastInSeq
<1>2. Len(cats) \in Nat /\ I \in SUBSET (1..Len(cats))
  OBVIOUS
<1> HIDE DEF m
<1>3. m \in 0..Len(cats) /\ \A i \in I : i <= m
  <2> HIDE DEF I
  <2> QED
    BY <1>1, <1>2, LastOf
<1>4. \A j \in 1..Len(cats) : j > m => j \notin I
  BY <1>2, <1>3
<1> QED
  BY <1>3, <1>4 DEF QuietAfter, m

LEMMA ThrowCatQuiet ==
  ASSUME ThreadInv, curr \in Thread, callstack[curr] # <<>>
  PROVE  QuietAfter(Top(curr).cats, ThrowCat)
<1> DEFINE cats == Top(curr).cats
           I == {i \in 1..Len(cats) : cats[i].catch \/ cats[i].finally}
<1>1. ThrowCat = IF I # {} THEN Max(I) ELSE 0
  BY DEF ThrowCat, SelectLastInSeq
<1>2. Len(cats) \in Nat /\ I \in SUBSET (1..Len(cats))
  BY ThrowFacts DEF GoodCats
<1>3. ThrowCat \in 0..Len(cats) /\ \A i \in I : i <= ThrowCat
  <2> HIDE DEF I
  <2> QED
    BY <1>1, <1>2, LastOf
<1>4. \A j \in 1..Len(cats) : j > ThrowCat => j \notin I
  <2> HIDE DEF cats
  <2> QED
    BY <1>2, <1>3
<1> QED
  BY <1>4 DEF QuietAfter

LEMMA QuietAll ==
  ASSUME NEW cats \in Seq(Catcher), QuietAfter(cats, 0)
  PROVE  Quiet(cats)
BY DEF QuietAfter, Quiet

-----------------------------------------------------------------------------
(* Statements.                                                             *)

LEMMA TopCats ==
  ASSUME ThreadInv, FinInv, curr \in Thread, callstack[curr] # <<>>
  PROVE  /\ Top(curr).cats \in Seq(Catcher) /\ CatsFine(Top(curr).cats)
         /\ Top(curr) = callstack[curr][Len(callstack[curr])]
<1>1. /\ Top(curr) = callstack[curr][Len(callstack[curr])] /\ GoodCats(Top(curr).cats)
      /\ Len(callstack[curr]) \in 1..Len(callstack[curr])
  BY ThrowFacts
<1> QED
  BY <1>1 DEF FinInv, Fine, GoodCats

LEMMA CatsFinStep ==
  ASSUME ThreadInv, ThreadInv', FinInv, curr \in Thread, callstack[curr] # <<>>, NEW cats,
         Proper(Top(curr).cats, cats), callstack' = WithCats(curr, cats), FramesLeft, NotSuspending
  PROVE  FinInv' /\ FinallyStep
<1>1. cats \in Seq(Catcher) /\ CatsFine(cats) /\ Passes(Top(curr).cats, cats)
  BY DEF Proper
<1>2. /\ \A u \in Thread : u # curr => callstack'[u] = callstack[u]
      /\ CatsSet(callstack[curr], callstack'[curr], cats)
  BY <1>1, WithCatsIs DEF ThreadInv, Base
<1>3. callstack[curr] \in Seq(Activation) /\ Fine(callstack[curr]) /\ SuspOK(callstack[curr])
  BY DEF ThreadInv, Base, TypeOK, FinInv
<1>4. Top(curr) = callstack[curr][Len(callstack[curr])]
  BY TopCats
<1>5. Change(callstack[curr], callstack'[curr]) /\ Len(callstack'[curr]) = Len(callstack[curr])
  BY <1>1, <1>2, <1>3, <1>4, ChangeCats
<1>6. ASSUME NEW t \in Thread
      PROVE  Change(callstack[t], callstack'[t]) /\ Len(callstack'[t]) <= Len(callstack[t])
  <2>1. CASE t = curr
    BY <2>1, <1>3, <1>5
  <2>2. CASE t # curr
    BY <2>2, <1>2, OthersKept
  <2> QED
    BY <2>1, <2>2
<1>7. \A t \in Thread : Change(callstack[t], callstack'[t]) /\ Len(callstack'[t]) <= Len(callstack[t])
  BY <1>6
<1> QED
  BY <1>7, ShrinkStep

\* A statement step of bytecode: only the catchers change.
LEMMA StatementStep ==
  ASSUME ThreadInv, ThreadInv', FinInv, InBytecode, NEW cats, Proper(Top(curr).cats, cats),
         callstack' = WithCats(curr, cats), cstack' = cstack, lj' = lj
  PROVE  FinInv' /\ FinallyStep
<1>1. curr \in Thread /\ callstack[curr] # <<>>
  BY ExecFacts DEF InBytecode, Running
<1>2. FramesLeft
  BY AllFramesStay
<1>3. NotSuspending
  BY DEF NotSuspending, Suspending, InBytecode, Running
<1> QED
  BY <1>1, <1>2, <1>3, CatsFinStep

LEMMA BytecodeCats ==
  ASSUME ThreadInv, FinInv, InBytecode
  PROVE  Top(curr).cats \in Seq(Catcher) /\ CatsFine(Top(curr).cats) /\ curr \in Thread /\ callstack[curr] # <<>>
<1>1. curr \in Thread /\ callstack[curr] # <<>>
  BY ExecFacts DEF InBytecode, Running
<1> QED
  BY <1>1, TopCats

LEMMA EnterFin ==
  ASSUME ThreadInv, ThreadInv', FinInv, NEW s \in Stmts, Enter(s)
  PROVE  FinInv' /\ FinallyStep
<1>1. InBytecode /\ cstack' = cstack /\ lj' = lj
  BY DEF Enter
<1>2. Proper(Top(curr).cats, Append(Top(curr).cats, NewCat(s)))
  BY <1>1, BytecodeCats, EnterProper
<1> QED
  BY <1>1, <1>2, StatementStep DEF Enter

LEMMA EndLabelFin ==
  ASSUME ThreadInv, ThreadInv', FinInv, EndLabel
  PROVE  FinInv' /\ FinallyStep
<1> DEFINE cats == Top(curr).cats
<1>1. InBytecode /\ cstack' = cstack /\ lj' = lj /\ cats # <<>> /\ Last(cats).kind = "label"
  BY DEF EndLabel, AtEndOf
<1>2. cats \in Seq(Catcher) /\ CatsFine(cats)
  BY <1>1, BytecodeCats
<1>3. callstack' = WithCats(curr, Front(cats))
  BY DEF EndLabel
<1>4. Proper(cats, Front(cats))
  <2> HIDE DEF cats
  <2>1. Len(cats) \in 1..Len(cats)
    BY <1>1, <1>2
  <2>2. CatOK(Last(cats)) /\ Last(cats) = cats[Len(cats)]
    BY <1>2, <2>1 DEF CatsFine, Last
  <2>3. ~cats[Len(cats)].finally
    BY <1>1, <2>2 DEF CatOK
  <2> QED
    BY <1>1, <1>2, <2>3, FrontProper
<1> QED
  BY <1>1, <1>3, <1>4, StatementStep

LEMMA EndTryFin ==
  ASSUME ThreadInv, ThreadInv', FinInv, EndTry
  PROVE  FinInv' /\ FinallyStep
<1> DEFINE cats == Top(curr).cats
           n == Len(cats)
           fin == EnterFinally(cats, n, "normal", 0)
           new == IF cats[n].finally THEN [fin EXCEPT ![n].catch = FALSE] ELSE Front(cats)
<1>1. InBytecode /\ cstack' = cstack /\ lj' = lj /\ cats # <<>>
  BY DEF EndTry, AtEndOf
<1>2. cats \in Seq(Catcher) /\ CatsFine(cats)
  BY <1>1, BytecodeCats
<1>3. callstack' = WithCats(curr, new)
  BY DEF EndTry
<1> HIDE DEF cats
<1>4. n \in 1..Len(cats) /\ n \in Nat
  BY <1>1, <1>2
<1>5. Proper(cats, [fin EXCEPT ![n].catch = FALSE])
  <2>0. 0 \in Nat /\ "normal" \in {"none", "normal", "throw", "return", "break"}
    OBVIOUS
  <2>1. PICK c \in Catcher : c.at = "finally" /\ ~c.finally /\ Edited(cats, fin, n, c)
    BY <1>2, <1>4, <2>0, EnterFinallyEdits
  <2> HIDE DEF fin, n
  <2> DEFINE b == [fin[n] EXCEPT !.catch = FALSE]
             r == [fin EXCEPT ![n] = b]
  <2>2. fin \in Seq(Catcher) /\ Len(fin) = n /\ fin[n] = c /\ \A j \in 1..n : j # n => fin[j] = cats[j]
    BY <2>1 DEF Edited
  <2>3. n \in 1..Len(fin)
    BY <2>2, <1>4
  <2>4. b \in Catcher /\ b.at = "finally" /\ ~b.finally
    BY <2>1, <2>2 DEF Catcher
  <2>5. CatOK(b)
    BY <2>4 DEF CatOK
  <2> HIDE DEF b
  <2>6. r \in Seq(Catcher) /\ Len(r) = n /\ r[n] = b /\ \A j \in 1..n : j # n => r[j] = fin[j]
    BY <2>2, <2>3, <2>4, PutIs
  <2> HIDE DEF r
  <2>7. Edited(cats, r, n, b)
    BY <2>2, <2>6 DEF Edited
  <2>8. QuietAfter(cats, n)
    <3>1. \A j \in 1..Len(cats) : ~(j > n)
      BY <1>2, <1>4 DEF n
    <3> QED
      BY <3>1 DEF QuietAfter
  <2>9. Proper(cats, r)
    BY <1>2, <1>4, <2>4, <2>5, <2>7, <2>8, EditCats
  <2> QED
    BY <2>9 DEF r, b
<1>6. ~cats[n].finally => Proper(cats, Front(cats))
  BY <1>1, <1>2, FrontProper
<1>7. Proper(cats, new)
  BY <1>5, <1>6
<1> HIDE DEF new
<1> QED
  BY <1>1, <1>3, <1>7, StatementStep DEF cats

LEMMA EndCatchFin ==
  ASSUME ThreadInv, ThreadInv', FinInv, EndCatch
  PROVE  FinInv' /\ FinallyStep
<1> DEFINE old == Top(curr).cats
           n == Len(old)
           c == [old[n] EXCEPT !.lexenv = FALSE]
           cats == [old EXCEPT ![n] = c]
           b == [c EXCEPT !.kind = "bare", !.at = "finally", !.cont = "throw"]
           new == CASE c.finally -> EnterFinally(cats, n, "normal", 0)
                    [] ~c.finally /\ c.hasFinally -> [cats EXCEPT ![n] = b]
                    [] OTHER -> Front(cats)
<1>1. InBytecode /\ cstack' = cstack /\ lj' = lj /\ old # <<>>
  BY DEF EndCatch, AtEndOf
<1>2. old \in Seq(Catcher) /\ CatsFine(old)
  BY <1>1, BytecodeCats
<1>3. n \in 1..n /\ old[n] \in Catcher
  <2> HIDE DEF old
  <2>1. n \in 1..n
    BY <1>1, <1>2
  <2> QED
    BY <1>2, <2>1
<1>4. c \in Catcher /\ c.kind = old[n].kind /\ c.at = old[n].at /\ c.finally = old[n].finally
  <2> HIDE DEF old, n
  <2>1. c \in Catcher
    BY <1>3 DEF Catcher
  <2>2. c.kind = old[n].kind /\ c.at = old[n].at /\ c.finally = old[n].finally
    BY <1>3 DEF Catcher
  <2> QED
    BY <2>1, <2>2, Zenon
<1>5. b \in Catcher /\ b.at = "finally" /\ b.finally = c.finally
  <2> HIDE DEF c
  <2>1. b \in Catcher /\ b.at = "finally"
    BY <1>4 DEF Catcher
  <2>2. b.finally = c.finally
    BY <1>4 DEF Catcher
  <2> QED
    BY <2>1, <2>2, Zenon
<1> HIDE DEF b, c
<1>6. cats \in Seq(Catcher) /\ Len(cats) = n /\ cats[n] = c /\ cats # <<>>
  <2> HIDE DEF old
  <2>1. cats \in Seq(Catcher) /\ Len(cats) = n /\ cats[n] = c
    BY <1>2, <1>3, <1>4, PutIs
  <2> HIDE DEF cats
  <2> QED
    BY <2>1, <1>3
<1>7. CatOK(c) /\ Proper(old, cats)
  <2>1. CatOK(old[n])
    BY <1>2, <1>3 DEF CatsFine
  <2>2. CatOK(c)
    BY <2>1, <1>4 DEF CatOK
  <2> HIDE DEF old
  <2> QED
    BY <2>2, <1>1, <1>2, <1>4, PutProper
<1>8. callstack' = WithCats(curr, new)
  <2>1. cats = [old EXCEPT ![Len(old)].lexenv = FALSE]
    BY DEF c
  <2>2. ReplaceAt(cats, n, [cats[n] EXCEPT !.kind = "bare", !.at = "finally", !.cont = "throw"])
          = [cats EXCEPT ![n] = b]
    <3> HIDE DEF cats
    <3> QED
      BY <1>6 DEF ReplaceAt, b
  <2> HIDE DEF cats
  <2>3. callstack' = WithCats(curr,
          CASE cats[n].finally    -> EnterFinally(cats, n, "normal", 0)
            [] ~cats[n].finally /\ cats[n].hasFinally ->
                 ReplaceAt(cats, n, [cats[n] EXCEPT !.kind = "bare", !.at = "finally",
                                                    !.cont = "throw"])
            [] OTHER              -> Front(cats))
    BY <2>1, <1>6 DEF EndCatch
  <2> QED
    BY <2>2, <2>3, <1>6
<1> HIDE DEF cats, old
<1>9. CatsFine(cats) /\ n \in 1..Len(cats)
  BY <1>3, <1>6, <1>7 DEF Proper
<1>10. Proper(cats, EnterFinally(cats, n, "normal", 0))
  <2>1. 0 \in Nat /\ "normal" \in {"none", "normal", "throw", "return", "break"}
    OBVIOUS
  <2>2. QuietAfter(cats, n)
    <3>1. \A j \in 1..Len(cats) : ~(j > n)
      BY <1>6
    <3> QED
      BY <3>1 DEF QuietAfter
  <2> QED
    BY <2>1, <2>2, <1>6, <1>9, EnterFinallyProper
<1>11. ~c.finally => Proper(cats, [cats EXCEPT ![n] = b])
  <2>1. ~c.finally => CatOK(b)
    BY <1>5 DEF CatOK
  <2> QED
    BY <2>1, <1>5, <1>6, <1>9, PutProper
<1>12. ~c.finally => Proper(cats, Front(cats))
  BY <1>6, <1>9, FrontProper
<1>13. Proper(cats, new)
  BY <1>10, <1>11, <1>12
<1>14. Proper(old, new)
  <2> HIDE DEF new
  <2>1. ASSUME NEW j \in 1..Len(old), old[j].finally
        PROVE  j \in 1..Len(new) /\ (new[j].finally \/ new[j].at = "finally")
    <3>1. j \in 1..Len(cats) /\ (cats[j].finally \/ cats[j].at = "finally")
      BY <2>1, <1>7 DEF Proper, Passes
    <3>2. cats[j].finally
      <4>1. CASE j = n
        BY <4>1, <2>1, <1>4, <1>6
      <4>2. CASE j # n
        BY <4>2, <2>1, <1>2, <1>3 DEF cats
      <4> QED
        BY <4>1, <4>2
    <3> QED
      BY <3>1, <3>2, <1>13 DEF Proper, Passes
  <2> QED
    BY <2>1, <1>13 DEF Proper, Passes
<1> HIDE DEF new
<1> QED
  BY <1>1, <1>8, <1>14, StatementStep DEF old

-----------------------------------------------------------------------------
(* Steps that leave the callstacks, and steps that unwind them.            *)

LEMMA SameStacksFin ==
  ASSUME ThreadInv, ThreadInv', FinInv, callstack' = callstack, FramesLeft, NotSuspending
  PROVE  FinInv' /\ FinallyStep
<1>1. \A t \in Thread : Change(callstack[t], callstack'[t]) /\ Len(callstack'[t]) <= Len(callstack[t])
  BY OthersKept
<1> QED
  BY <1>1, ShrinkStep

LEMMA CutFin ==
  ASSUME ThreadInv, ThreadInv', FinInv, NEW t \in Thread, NEW m \in 0..Len(callstack[t]),
         UnwindTo(t, m), QuietAbove(callstack[t], m), FramesLeft, NotSuspending
  PROVE  FinInv' /\ FinallyStep
<1>1. /\ \A u \in Thread : u # t => callstack'[u] = callstack[u]
      /\ ActPrefix(callstack[t], callstack'[t], m)
  BY UnwindIs DEF ThreadInv, Base
<1>2. callstack[t] \in Seq(Activation) /\ Fine(callstack[t]) /\ SuspOK(callstack[t])
  BY DEF ThreadInv, Base, TypeOK, FinInv
<1>3. Change(callstack[t], callstack'[t]) /\ Len(callstack'[t]) <= Len(callstack[t])
  BY <1>1, <1>2, ChangeCut
<1>4. \A u \in Thread : Change(callstack[u], callstack'[u]) /\ Len(callstack'[u]) <= Len(callstack[u])
  BY <1>1, <1>3, OthersKept
<1> QED
  BY <1>4, ShrinkStep

\* One activation is unwound.
LEMMA TopQuiet ==
  ASSUME NEW s \in Seq(Activation), s # <<>>, Quiet(s[Len(s)].cats), NEW m, m = Len(s) - 1
  PROVE  m \in 0..Len(s) /\ QuietAbove(s, m)
<1>1. Len(s) \in Nat \ {0}
  OBVIOUS
<1>2. m \in 0..Len(s) /\ \A k \in 1..Len(s) : k > m => k = Len(s)
  BY <1>1
<1> QED
  BY <1>2 DEF QuietAbove

LEMMA NotEcmaQuiet ==
  ASSUME ThreadInv, NEW t \in Thread, NEW k \in 1..Len(callstack[t]), callstack[t][k].fn # "ecma"
  PROVE  Quiet(callstack[t][k].cats)
<1>1. callstack[t][k].cats = <<>>
  BY DEF ThreadInv, Base, Acts, ActsOK, ActOK
<1> QED
  BY <1>1 DEF Quiet

\* A coroutine ends, n activations of its resumer stay.
LEMMA EndFinal ==
  ASSUME ThreadInv, ThreadInv', FinInv, In({"exec"}), Frame.thr # curr, NEW n,
         n = Len(callstack[resumer[curr]]) - 1 \/ n = Len(callstack[resumer[curr]]),
         EndThread(n), QuietAbove(callstack[curr], 0), cstack' = cstack, NotSuspending
  PROVE  FinInv' /\ FinallyStep
<1>0. PICK r : r = resumer[curr]
  OBVIOUS
<1>1. r \in Thread /\ r # curr /\ OnEcma(callstack[r], "resume") /\ curr \in Thread
  BY <1>0, ResumerFrames, HandlingFacts
<1> DEFINE s == callstack[r]
           q == SubSeq(s, 1, n)
           z == <<>>
<1>2. callstack \in [Thread -> Seq(Activation)] /\ s \in Seq(Activation)
  BY <1>1 DEF ThreadInv, Base, TypeOK
<1>3. Len(s) \in Nat /\ Len(s) >= 2 /\ s[Len(s)].fn = "resume"
  BY <1>1, <1>2 DEF OnEcma
<1>4. n \in 0..Len(s) /\ (n = Len(s) - 1 \/ n = Len(s))
  BY <1>0, <1>3
<1>5. callstack' = [callstack EXCEPT ![curr] = z, ![r] = q]
  BY <1>0, <1>1, <1>2 DEF EndThread
<1>6. ActPrefix(s, q, n)
  BY <1>2, <1>4, CutIs DEF ActPrefix
<1>7. ActPrefix(callstack[curr], z, 0)
  BY DEF ActPrefix
<1>8. QuietAbove(s, n)
  <2>1. Len(s) \in 1..Len(s)
    BY <1>3
  <2>2. Quiet(s[Len(s)].cats)
    BY <2>1, <1>1, <1>3, NotEcmaQuiet
  <2>3. \A k \in 1..Len(s) : k > n => k = Len(s)
    BY <1>3, <1>4
  <2> QED
    BY <2>2, <2>3 DEF QuietAbove
<1> HIDE DEF q, z
<1>9. callstack'[curr] = z /\ callstack'[r] = q /\ \A u \in Thread : u # curr /\ u # r => callstack'[u] = callstack[u]
  BY <1>1, <1>2, <1>5
<1>10. \A u \in Thread : Fine(callstack[u]) /\ SuspOK(callstack[u]) /\ callstack[u] \in Seq(Activation)
  BY <1>2 DEF FinInv
<1>11. Change(s, q) /\ Len(q) <= Len(s)
  BY <1>1, <1>4, <1>6, <1>8, <1>10, ChangeCut
<1>12. Change(callstack[curr], z) /\ Len(z) <= Len(callstack[curr])
  <2>1. 0 \in 0..Len(callstack[curr])
    BY <1>1, <1>10
  <2> QED
    BY <2>1, <1>1, <1>7, <1>10, ChangeCut
<1>13. ASSUME NEW u \in Thread
       PROVE  Change(callstack[u], callstack'[u]) /\ Len(callstack'[u]) <= Len(callstack[u])
  <2>1. CASE u = r
    BY <2>1, <1>9, <1>11
  <2>2. CASE u = curr
    BY <2>2, <1>9, <1>12
  <2>3. CASE u # r /\ u # curr
    BY <2>3, <1>9, OthersKept
  <2> QED
    BY <2>1, <2>2, <2>3
<1>14. \A u \in Thread : Change(callstack[u], callstack'[u]) /\ Len(callstack'[u]) <= Len(callstack[u])
  BY <1>13
<1>15. FramesLeft
  BY AllFramesStay
<1> QED
  BY <1>14, <1>15, ShrinkStep

-----------------------------------------------------------------------------
(* break, return, ENDFIN and cancellation.                                 *)

LEMMA BreakFinal ==
  ASSUME ThreadInv, ThreadInv', FinInv, InBytecode, NEW d \in 0..Len(Top(curr).cats), HandleBreak(d),
         lj' = lj
  PROVE  FinInv' /\ FinallyStep
<1> DEFINE cats == Top(curr).cats
           i == FinallyCat(cats)
           new == IF i > d THEN EnterFinally(cats, i, "break", d) ELSE SubSeq(cats, 1, d)
<1>1. cats \in Seq(Catcher) /\ CatsFine(cats)
  BY BytecodeCats
<1>2. callstack' = WithCats(curr, new) /\ cstack' = cstack
  BY DEF HandleBreak
<1>3. d \in 0..Len(cats)
  OBVIOUS
<1> HIDE DEF cats
<1>4. QuietAfter(cats, i) /\ i \in 0..Len(cats)
  BY <1>1, FinallyCatQuiet
<1> HIDE DEF i
<1>5. Len(cats) \in Nat /\ d \in Nat /\ (i > d => i \in 1..Len(cats))
  BY <1>1, <1>3, <1>4
<1>6. i > d => Proper(cats, EnterFinally(cats, i, "break", d))
  <2>1. "break" \in {"none", "normal", "throw", "return", "break"}
    OBVIOUS
  <2> QED
    BY <2>1, <1>1, <1>4, <1>5, EnterFinallyProper
<1>7. ~(i > d) => Proper(cats, SubSeq(cats, 1, d))
  <2>1. SUFFICES ASSUME ~(i > d)
                 PROVE  Proper(cats, SubSeq(cats, 1, d))
    OBVIOUS
  <2>2. \A j \in 1..Len(cats) : j > d => j > i
    BY <2>1, <1>4, <1>5
  <2>3. QuietAfter(cats, d)
    BY <2>2, <1>4 DEF QuietAfter
  <2> QED
    BY <2>3, <1>1, <1>3, CutProper
<1>8. Proper(cats, new)
  BY <1>6, <1>7
<1> HIDE DEF new
<1> QED
  BY <1>2, <1>8, StatementStep DEF cats

LEMMA BreakFin ==
  ASSUME ThreadInv, ThreadInv', FinInv, Break
  PROVE  FinInv' /\ FinallyStep
<1>1. InBytecode /\ lj' = lj
  BY DEF Break
<1>2. PICK d \in DOMAIN Top(curr).cats : HandleBreak(d)
  BY DEF Break
<1>3. d \in 0..Len(Top(curr).cats)
  BY <1>1, BytecodeCats
<1> QED
  BY <1>1, <1>2, <1>3, BreakFinal

LEMMA ReturnFinal ==
  ASSUME ThreadInv, ThreadInv', FinInv, In({"exec"}), lj.type \in {"none", "return"}, lj'.type = "none",
         HandleReturn
  PROVE  FinInv' /\ FinallyStep
<1> DEFINE cats == Top(curr).cats
           i == FinallyCat(cats)
           n == Len(callstack[curr])
<1>1. /\ curr \in Thread /\ callstack[curr] # <<>> /\ callstack[curr] \in Seq(Activation)
      /\ Top(curr) = callstack[curr][n] /\ n \in Nat \ {0} /\ cstack # <<>>
  BY ExecFacts DEF In
<1>2. cats \in Seq(Catcher) /\ CatsFine(cats)
  BY <1>1, TopCats
<1>3. QuietAfter(cats, i) /\ i \in 0..Len(cats)
  <2> HIDE DEF cats
  <2> QED
    BY <1>2, FinallyCatQuiet
<1>4. NotSuspending
  BY DEF NotSuspending, Suspending
<1>5. CASE /\ i > 0 /\ callstack' = WithCats(curr, EnterFinally(cats, i, "return", 0))
           /\ UNCHANGED <<tstate, resumer, preventcount, curr, cstack>>
  <2>1. FramesLeft
    BY <1>5, AllFramesStay
  <2>2. Proper(cats, EnterFinally(cats, i, "return", 0))
    <3> HIDE DEF cats, i
    <3>1. i \in 1..Len(cats)
      BY <1>2, <1>3, <1>5
    <3>2. 0 \in Nat /\ "return" \in {"none", "normal", "throw", "return", "break"}
      OBVIOUS
    <3> QED
      BY <3>1, <3>2, <1>2, <1>3, EnterFinallyProper
  <2> QED
    BY <1>1, <1>4, <1>5, <2>1, <2>2, CatsFinStep
<1>6. ASSUME i = 0
      PROVE  Quiet(cats) /\ n - 1 \in 0..n /\ QuietAbove(callstack[curr], n - 1)
  <2>1. Quiet(cats)
    <3> HIDE DEF cats
    <3> QED
      BY <1>2, <1>3, <1>6, QuietAll
  <2> QED
    BY <2>1, <1>1, TopQuiet
<1>7. CASE i = 0 /\ AtEntry /\ Epilogue(Frame) /\ UnwindTo(curr, Frame.top) /\ UNCHANGED resumer
  <2>1. FramesLeft
    BY <1>1, <1>7, FrontStays DEF Epilogue
  <2>2. Frame.top = n - 1
    <3>1. Frame.top \in Nat
      BY HandlingFacts, FrameType
    <3> QED
      BY <3>1, <1>1, <1>7 DEF AtEntry
  <2> QED
    BY <1>1, <1>4, <1>6, <1>7, <2>1, <2>2, CutFin
<1>8. CASE /\ i = 0 /\ ~AtEntry /\ n >= 2 /\ UnwindTo(curr, n - 1)
           /\ UNCHANGED <<tstate, resumer, curr, cstack>>
  <2>1. FramesLeft
    BY <1>8, AllFramesStay
  <2> QED
    BY <1>1, <1>4, <1>6, <1>8, <2>1, CutFin
<1>9. CASE /\ i = 0 /\ ~AtEntry /\ n = 1
           /\ EndThread(Len(callstack[resumer[curr]]) - 1) /\ UNCHANGED cstack
  <2>1. Frame.thr # curr
    <3>0. /\ Frame.kind = "exec" /\ Frame \in CFrame /\ Frame = cstack[Len(cstack)]
          /\ Len(cstack) \in 1..Len(cstack)
      BY HandlingFacts
    <3>1. MatchF(Frame, callstack[Frame.thr]) /\ Frame.top \in Nat
      BY <3>0, FrameType DEF ThreadInv, Base, Match
    <3>2. Frame.top + 1 <= Len(callstack[Frame.thr])
      BY <3>0, <3>1 DEF MatchF, Bonus, CallKinds
    <3>3. SUFFICES ASSUME Frame.thr = curr
                   PROVE  FALSE
      OBVIOUS
    <3>4. Frame.top = 0
      BY <3>1, <3>2, <3>3, <1>9
    <3>5. AtEntry
      BY <3>3, <3>4, <1>9 DEF AtEntry
    <3> QED
      BY <3>5, <1>9
  <2>2. QuietAbove(callstack[curr], 0)
    BY <1>6, <1>9
  <2> QED
    BY <1>4, <1>9, <2>1, <2>2, EndFinal
<1> QED
  BY <1>5, <1>7, <1>8, <1>9 DEF HandleReturn

LEMMA ReturnFin ==
  ASSUME ThreadInv, ThreadInv', FinInv, Return
  PROVE  FinInv' /\ FinallyStep
<1>1. In({"exec"}) /\ lj.type = "none" /\ lj'.type = "none" /\ HandleReturn
  BY DEF Return, InBytecode, Running
<1> QED
  BY <1>1, ReturnFinal

LEMMA HandleCancelFin ==
  ASSUME ThreadInv, ThreadInv', FinInv, HandleCancel
  PROVE  FinInv' /\ FinallyStep
<1>1. In({"exec"}) /\ lj.type = "return" /\ lj'.type = "none" /\ HandleReturn
  BY LjTypes DEF HandleCancel, Handling, LjDone
<1> QED
  BY <1>1, ReturnFinal

LEMMA EndFinFin ==
  ASSUME ThreadInv, ThreadInv', FinInv, EndFin
  PROVE  FinInv' /\ FinallyStep
<1> DEFINE cats == Top(curr).cats
           c == Last(cats)
<1>1. InBytecode /\ In({"exec"}) /\ lj.type = "none" /\ cats # <<>> /\ c.at = "finally"
  BY DEF EndFin, AtEndOf, InBytecode, Running
<1>2. cats \in Seq(Catcher) /\ CatsFine(cats) /\ curr \in Thread /\ callstack[curr] # <<>>
  BY <1>1, BytecodeCats
<1>3. c = cats[Len(cats)] /\ Len(cats) \in 1..Len(cats) /\ c \in Catcher
  <2> HIDE DEF cats
  <2>1. c = cats[Len(cats)] /\ Len(cats) \in 1..Len(cats)
    BY <1>1, <1>2 DEF Last
  <2> QED
    BY <2>1, <1>2
<1>4. CASE /\ callstack' = WithCats(curr, Front(cats))
           /\ UNCHANGED <<tstate, resumer, preventcount, curr, cstack, lj, pf>>
  <2>1. Proper(cats, Front(cats))
    <3> HIDE DEF cats
    <3>1. CatOK(cats[Len(cats)])
      BY <1>2, <1>3 DEF CatsFine
    <3>2. ~cats[Len(cats)].finally
      BY <3>1, <1>1, <1>3 DEF CatOK
    <3> QED
      BY <3>2, <1>1, <1>2, FrontProper
  <2> QED
    BY <1>1, <1>4, <2>1, StatementStep
<1>5. CASE HandleReturn /\ UNCHANGED <<lj, pf>>
  BY <1>1, <1>5, ReturnFinal
<1>6. CASE c.cont = "break" /\ HandleBreak(c.label) /\ UNCHANGED <<lj, pf>>
  <2>1. c.label \in 0..Len(cats)
    <3>1. c.label \in Nat
      BY <1>3 DEF Catcher
    <3>2. c.label <= Len(cats)
      <4>1. GoodCats(cats)
        BY <1>1, ExecFacts
      <4> QED
        BY <4>1, <1>3, <1>6 DEF GoodCats, BreaksOK
    <3> HIDE DEF c, cats
    <3> QED
      BY <3>1, <3>2, <1>2
  <2> QED
    BY <1>1, <1>6, <2>1, BreakFinal
<1>7. CASE Longjmp(Thrown) /\ UNCHANGED threads
  <2>1. FramesLeft
    BY <1>7, CaughtStays DEF Longjmp
  <2>2. NotSuspending
    BY <1>7, LjTypes DEF Longjmp, NotSuspending, Suspending
  <2> QED
    BY <1>7, <2>1, <2>2, SameStacksFin DEF threads
<1> QED
  BY <1>4, <1>5, <1>6, <1>7 DEF EndFin

-----------------------------------------------------------------------------
(* Error handling.                                                         *)

LEMMA HandleCatchFin ==
  ASSUME ThreadInv, ThreadInv', FinInv, HandleCatch
  PROVE  FinInv' /\ FinallyStep
<1> DEFINE cats == Top(curr).cats
           i == ThrowCat
<1>1. In({"exec"}) /\ callstack[curr] # <<>> /\ cstack # <<>>
  BY DEF HandleCatch, Handling, In
<1>2. curr \in Thread
  BY <1>1, HandlingFacts
<1>3. cats \in Seq(Catcher) /\ CatsFine(cats) /\ QuietAfter(cats, i) /\ i \in 0..Len(cats)
  BY <1>1, <1>2, TopCats, ThrowCatQuiet, ThrowCatIs
<1>4. i > 0 /\ callstack' = WithCats(curr, EnterCatch(cats, i))
  BY DEF HandleCatch
<1>5. Proper(cats, EnterCatch(cats, i))
  <2> HIDE DEF cats, i
  <2>1. i \in 1..Len(cats)
    BY <1>3, <1>4
  <2> QED
    BY <2>1, <1>3, EnterCatchProper
<1>6. FramesLeft
  <2>1. TRUE \in BOOLEAN /\ cstack' = ReplaceAt(cstack, Len(cstack), [Frame EXCEPT !.delayed = TRUE])
    BY DEF HandleCatch
  <2> QED
    BY <2>1, <1>1, DelayStays
<1>7. NotSuspending
  BY LjTypes DEF HandleCatch, LjDone, NotSuspending, Suspending
<1> QED
  BY <1>1, <1>2, <1>4, <1>5, <1>6, <1>7, CatsFinStep

LEMMA HandleFinallyFin ==
  ASSUME ThreadInv, ThreadInv', FinInv, HandleFinally
  PROVE  FinInv' /\ FinallyStep
<1> DEFINE cats == Top(curr).cats
           i == ThrowCat
<1>1. In({"exec"}) /\ callstack[curr] # <<>> /\ cstack' = cstack
  BY DEF HandleFinally, Handling
<1>2. curr \in Thread
  BY <1>1, HandlingFacts
<1>3. cats \in Seq(Catcher) /\ CatsFine(cats) /\ QuietAfter(cats, i) /\ i \in 0..Len(cats)
  BY <1>1, <1>2, TopCats, ThrowCatQuiet, ThrowCatIs
<1>4. i > 0 /\ callstack' = WithCats(curr, EnterFinally(cats, i, "throw", 0))
  BY DEF HandleFinally
<1>5. Proper(cats, EnterFinally(cats, i, "throw", 0))
  <2> HIDE DEF cats, i
  <2>1. i \in 1..Len(cats)
    BY <1>3, <1>4
  <2>2. 0 \in Nat /\ "throw" \in {"none", "normal", "throw", "return", "break"}
    OBVIOUS
  <2> QED
    BY <2>1, <2>2, <1>3, EnterFinallyProper
<1>6. FramesLeft
  BY <1>1, AllFramesStay
<1>7. NotSuspending
  BY LjTypes DEF HandleFinally, LjDone, NotSuspending, Suspending
<1> QED
  BY <1>1, <1>2, <1>4, <1>5, <1>6, <1>7, CatsFinStep

LEMMA CatchSetupFin ==
  ASSUME ThreadInv, ThreadInv', FinInv, CatchSetup
  PROVE  FinInv' /\ FinallyStep
<1> DEFINE cats == Top(curr).cats
           n == Len(cats)
           new == [cats EXCEPT ![n].lexenv = TRUE]
<1>1. lj.type = "none" /\ In({"exec"}) /\ cstack # <<>>
  BY DEF CatchSetup, Running, In
<1>2. curr \in Thread /\ callstack[curr] # <<>>
  BY <1>1, ExecFacts
<1>3. cats \in Seq(Catcher) /\ CatsFine(cats)
  BY <1>2, TopCats
<1>4. FramesLeft
  <2>1. FALSE \in BOOLEAN /\ cstack' = ReplaceAt(cstack, Len(cstack), [Frame EXCEPT !.delayed = FALSE])
    BY DEF CatchSetup
  <2> QED
    BY <2>1, <1>1, DelayStays
<1>5. NotSuspending
  BY <1>1, LjTypes DEF CatchSetup, NotSuspending, Suspending
<1>6. CASE callstack' = WithCats(curr, new)
  <2>1. Proper(cats, new)
    <3> HIDE DEF cats
    <3>1. CASE cats = <<>>
      <4>1. new = cats
        BY <1>3, <3>1
      <4> QED
        BY <4>1, <1>3, PassesSame DEF Proper
    <3>2. CASE cats # <<>>
      <4> DEFINE c == [cats[n] EXCEPT !.lexenv = TRUE]
      <4>1. n \in 1..n
        BY <1>3, <3>2
      <4>2. cats[n] \in Catcher /\ CatOK(cats[n])
        BY <4>1, <1>3 DEF CatsFine
      <4>3. c \in Catcher
        BY <4>2 DEF Catcher
      <4>4. c.kind = cats[n].kind /\ c.at = cats[n].at /\ c.finally = cats[n].finally
        BY <4>2 DEF Catcher
      <4>5. CatOK(c)
        BY <4>2, <4>4 DEF CatOK
      <4> HIDE DEF c
      <4>6. Proper(cats, [cats EXCEPT ![n] = c])
        BY <4>3, <4>4, <4>5, <1>3, <3>2, PutProper
      <4> QED
        BY <4>6 DEF c
    <3> QED
      BY <3>1, <3>2
  <2> HIDE DEF new
  <2> QED
    BY <1>2, <1>4, <1>5, <1>6, <2>1, CatsFinStep
<1>7. CASE callstack' = callstack
  BY <1>4, <1>5, <1>7, SameStacksFin
<1> QED
  BY <1>6, <1>7 DEF CatchSetup

LEMMA HandleUnwindFin ==
  ASSUME ThreadInv, ThreadInv', FinInv, HandleUnwind
  PROVE  FinInv' /\ FinallyStep
<1> DEFINE cats == Top(curr).cats
<1>1. In({"exec"}) /\ callstack[curr] # <<>> /\ cstack # <<>> /\ ThrowCat = 0 /\ lj.type = "throw" /\ lj' = lj
  BY DEF HandleUnwind, Handling, In
<1>2. curr \in Thread /\ callstack[curr] \in Seq(Activation)
  BY <1>1, HandlingFacts DEF ThreadInv, Base, TypeOK
<1>3. cats \in Seq(Catcher) /\ cats = callstack[curr][Len(callstack[curr])].cats /\ QuietAfter(cats, 0)
  BY <1>1, <1>2, TopCats, ThrowCatQuiet
<1>4. Quiet(cats)
  <2> HIDE DEF cats
  <2> QED
    BY <1>3, QuietAll
<1>5. NotSuspending
  BY <1>1 DEF NotSuspending, Suspending
<1>6. CASE AtEntry
  <2>1. callstack' = WithCats(curr, <<>>) /\ cstack' = Outer(cstack)
    BY <1>6 DEF HandleUnwind
  <2>2. FramesLeft
    BY <1>1, <2>1, OuterStays
  <2>3. Proper(cats, <<>>)
    BY <1>4 DEF Proper, CatsFine, Passes, Quiet
  <2> QED
    BY <1>1, <1>2, <1>5, <2>1, <2>2, <2>3, CatsFinStep
<1>7. CASE ~AtEntry
  <2> DEFINE m == Len(callstack[curr]) - 1
  <2>1. UnwindTo(curr, m) /\ cstack' = cstack
    BY <1>7 DEF HandleUnwind
  <2>2. FramesLeft
    BY <2>1, AllFramesStay
  <2>3. m \in 0..Len(callstack[curr]) /\ QuietAbove(callstack[curr], m)
    BY <1>1, <1>2, <1>3, <1>4, TopQuiet
  <2> QED
    BY <1>2, <1>5, <2>1, <2>2, <2>3, CutFin
<1> QED
  BY <1>6, <1>7

LEMMA HandleUncaughtFin ==
  ASSUME ThreadInv, ThreadInv', FinInv, HandleUncaught
  PROVE  FinInv' /\ FinallyStep
<1>1. /\ In({"exec"}) /\ lj.type = "throw" /\ callstack[curr] = <<>> /\ cstack' = cstack /\ lj' = lj
      /\ EndThread(Len(callstack[resumer[curr]]))
  BY DEF HandleUncaught, Handling
<1>2. Frame.thr # curr
  <2>0. Frame.kind = "exec" /\ Frame \in CFrame /\ Frame = cstack[Len(cstack)] /\ Len(cstack) \in 1..Len(cstack)
    BY <1>1, HandlingFacts
  <2>1. MatchF(Frame, callstack[Frame.thr]) /\ Frame.top \in Nat
    BY <2>0, FrameType DEF ThreadInv, Base, Match
  <2>2. Frame.top + 1 <= Len(callstack[Frame.thr])
    BY <2>0, <2>1 DEF MatchF, Bonus, CallKinds
  <2>3. Len(callstack[curr]) = 0
    BY <1>1
  <2> QED
    BY <2>1, <2>2, <2>3
<1>3. QuietAbove(callstack[curr], 0)
  BY <1>1 DEF QuietAbove
<1>4. NotSuspending
  BY <1>1 DEF NotSuspending, Suspending
<1> QED
  BY <1>1, <1>2, <1>3, <1>4, EndFinal

\* The error path of a protected call: every activation it unwinds has been left by
\* the error before, or is the resume() or yield() it refuses.
LEMMA SafeErrorFin ==
  ASSUME ThreadInv, ThreadInv', FinInv, SafeError
  PROVE  FinInv' /\ FinallyStep
<1> DEFINE f == Frame
           s == callstack[curr]
           n == Len(cstack)
<1> USE DEF ThreadInv, Base
<1>1. ~Running /\ cstack # <<>> /\ f.kind \in SafeKinds /\ cstack' = Front(cstack) /\ lj' = NoLj
  BY DEF SafeError, In, Epilogue, SafeKinds
<1>2. n \in Nat \ {0} /\ n \in 1..n /\ f = cstack[n] /\ f \in CFrame /\ curr \in Thread
  <2>1. n \in Nat \ {0} /\ n \in 1..n /\ f = cstack[n] /\ f \in CFrame
    BY <1>1, FrameIs
  <2>2. curr \in Thread
    BY <1>1 DEF Frames, TypeOK
  <2> QED
    BY <2>1, <2>2
<1>3. f.thr = curr
  <2>1. PICK h \in [Thread -> Nat], d \in [Thread -> Nat] : ChainOK(h, d)
    BY DEF Chained
  <2>2. f.thr # curr => f.kind = "exec"
    BY <2>1, <1>1, <1>2, CurrFrames
  <2> QED
    BY <2>2, <1>1 DEF SafeKinds
<1>4. f.top \in Nat /\ s \in Seq(Activation) /\ Len(s) \in Nat
  BY <1>2, FrameType DEF TypeOK
<1>5. f.top <= Len(s)
  <2>1. MatchF(f, s)
    BY <1>2, <1>3 DEF Match
  <2>2. f.top + 0 <= Len(s)
    BY <2>1, <1>1 DEF MatchF, Bonus, SafeKinds, CallKinds
  <2> QED
    BY <2>2, <1>4
<1>6. SafeOn(f, s) /\ SuspOK(s)
  BY <1>2, <1>3 DEF FinInv
<1> HIDE DEF f, s, n
<1>7. QuietAbove(s, f.top)
  <2>1. CASE f.top = Len(s)
    <3>1. \A k \in 1..Len(s) : ~(k > f.top)
      BY <2>1, <1>4
    <3> QED
      BY <3>1 DEF QuietAbove
  <2>2. CASE f.top # Len(s)
    <3> DEFINE k == f.top + 1
    <3>1. f.top < Len(s) /\ k \in 1..Len(s) /\ \A l \in 1..Len(s) : l > f.top => l \in k..Len(s)
      BY <2>2, <1>4, <1>5
    <3>2. s[k].prevent
      BY <3>1, <1>1, <1>6 DEF SafeOn
    <3>3. s[k] \in Activation
      BY <3>1, <1>4
    <3> HIDE DEF k
    <3>4. CASE k = Len(s) /\ s[k].fn # "ecma"
      <4>1. Quiet(s[k].cats)
        BY <3>1, <3>4, <1>2, NotEcmaQuiet DEF s
      <4>2. \A l \in 1..Len(s) : l > f.top => l = k
        BY <3>1, <3>4, <1>4
      <4> QED
        BY <4>1, <4>2 DEF QuietAbove
    <3>5. CASE ~(k = Len(s) /\ s[k].fn # "ecma")
      <4>1. s[k].fn \in {"ecma", "native"}
        <5>1. s[k].fn \in {"ecma", "native", "resume", "yield"}
          BY <3>3, ActType
        <5>2. s[k].fn \in Suspending => k = Len(s)
          BY <3>1, <1>6 DEF SuspOK
        <5> QED
          BY <5>1, <5>2, <3>5 DEF Suspending
      <4>2. lj.type = "throw"
        <5>1. lj.type \in {"none", "throw", "resume", "yield", "return"}
          BY DEF TypeOK, LjType
        <5>2. lj.type # "none" /\ lj.type # "return"
          BY <1>1 DEF Running, Pending, f, SafeKinds
        <5>3. ASSUME lj.type \in Suspending
              PROVE  FALSE
          <6>1. Len(s) = f.top + 1
            BY <5>3, <1>1 DEF FinInv, CaughtSafe, f, s
          <6>2. k = Len(s)
            BY <6>1 DEF k
          <6>3. s[Len(s)].fn \in Suspending
            BY <5>3 DEF Pending, OnEcma, Suspending, s
          <6> QED
            BY <6>2, <6>3, <3>5 DEF Suspending
        <5> QED
          BY <5>1, <5>2, <5>3 DEF Suspending
      <4>3. HasFrame(curr, k) \/ Lost(curr, k)
        BY <3>1, <3>2, <4>1, <1>2 DEF Owned, s
      <4>4. ~HasFrame(curr, k)
        <5>1. SUFFICES ASSUME NEW i \in 1..n, cstack[i].thr = curr, cstack[i].top = k - 1,
                              cstack[i].kind \in CallKinds
                       PROVE  FALSE
          BY DEF HasFrame, n
        <5>2. i # n
          BY <5>1, <1>1, <1>2 DEF CallKinds, SafeKinds
        <5>3. i < n
          BY <5>2, <1>2
        <5>4. PairOK(cstack[i], cstack[n])
          BY <5>3, <1>2 DEF Frames, StackOK, n
        <5>5. cstack[i].top < f.top
          BY <5>1, <5>4, <1>2, <1>3 DEF PairOK
        <5>6. cstack[i].top = f.top
          BY <5>1, <1>4 DEF k
        <5> QED
          BY <5>5, <5>6, <1>4
      <4>5. \A l \in k..Len(s) : s[l].cats = <<>>
        BY <4>3, <4>4 DEF Lost, s
      <4>6. Quiet(<<>>)
        BY DEF Quiet
      <4> QED
        BY <4>5, <4>6, <3>1 DEF QuietAbove
    <3> QED
      BY <3>4, <3>5
  <2> QED
    BY <2>1, <2>2
<1>8. ActPrefix(s, callstack'[curr], f.top) /\ \A u \in Thread : u # curr => callstack'[u] = callstack[u]
  <2>1. callstack' = [callstack EXCEPT ![curr] = SubSeq(s, 1, f.top)]
    BY <1>2, <1>3 DEF SafeError, Unwound, s, f, TypeOK
  <2>2. callstack \in [Thread -> Seq(Activation)]
    BY DEF TypeOK
  <2> DEFINE q == SubSeq(s, 1, f.top)
  <2>3. f.top \in 0..Len(s)
    BY <1>4, <1>5
  <2>4. ActPrefix(s, q, f.top)
    BY <2>3, <1>4, CutIs DEF ActPrefix
  <2> HIDE DEF q
  <2>5. callstack'[curr] = q /\ \A u \in Thread : u # curr => callstack'[u] = callstack[u]
    BY <2>1, <2>2, <1>2 DEF q
  <2> QED
    BY <2>4, <2>5
<1> HIDE DEF ThreadInv, Base
<1>9. Change(s, callstack'[curr]) /\ Len(callstack'[curr]) <= Len(s)
  <2>1. f.top \in 0..Len(s) /\ Fine(s)
    BY <1>2, <1>4, <1>5 DEF FinInv, s
  <2> QED
    BY <2>1, <1>4, <1>6, <1>7, <1>8, ChangeCut
<1>10. \A u \in Thread : Change(callstack[u], callstack'[u]) /\ Len(callstack'[u]) <= Len(callstack[u])
  BY <1>8, <1>9, OthersKept DEF s
<1>11. FramesLeft
  BY <1>1, FrontStays
<1>12. NotSuspending
  BY <1>1, LjTypes DEF NotSuspending, Suspending
<1> QED
  BY <1>10, <1>11, <1>12, ShrinkStep

-----------------------------------------------------------------------------
(* Coroutines.                                                             *)

LEMMA HandleResumeErrorFin ==
  ASSUME ThreadInv, ThreadInv', FinInv, HandleResumeError
  PROVE  FinInv' /\ FinallyStep
<1>1. callstack' = callstack /\ cstack' = cstack /\ lj' = Thrown
  BY DEF HandleResumeError
<1>2. FramesLeft
  BY <1>1, AllFramesStay
<1>3. NotSuspending
  BY <1>1, LjTypes DEF NotSuspending, Suspending
<1> QED
  BY <1>1, <1>2, <1>3, SameStacksFin

\* A yielded coroutine goes on, or a new one starts.
LEMMA HandleResumeFin ==
  ASSUME ThreadInv, ThreadInv', FinInv, HandleResume
  PROVE  FinInv' /\ FinallyStep
<1>0. PICK t : t = lj.thr
  OBVIOUS
<1>1. cstack' = cstack /\ lj'.type = "none"
  BY LjTypes DEF HandleResume, LjDone
<1>2. t \in Thread /\ tstate[t] \in {"inactive", "yielded"} /\ callstack[t] \in Seq(Activation)
  BY <1>0, ResumeFacts DEF HandleResume
<1>3. NotSuspending
  BY <1>1 DEF NotSuspending, Suspending
<1>4. ShapeOf(t)
  BY <1>2 DEF ThreadInv, Base, Shape
<1>5. CASE tstate[t] = "yielded"
  <2> DEFINE m == Len(callstack[t]) - 1
  <2>1. UnwindTo(t, m)
    BY <1>0, <1>5 DEF HandleResume
  <2>2. OnEcma(callstack[t], "yield")
    BY <1>4, <1>5 DEF ShapeOf
  <2>3. Len(callstack[t]) \in 1..Len(callstack[t]) /\ callstack[t] # <<>>
    BY <2>2, <1>2 DEF OnEcma
  <2>4. Quiet(callstack[t][Len(callstack[t])].cats)
    <3>1. callstack[t][Len(callstack[t])].fn # "ecma"
      BY <2>2 DEF OnEcma
    <3> QED
      BY <3>1, <2>3, <1>2, NotEcmaQuiet
  <2>5. m \in 0..Len(callstack[t]) /\ QuietAbove(callstack[t], m)
    BY <2>3, <2>4, <1>2, TopQuiet
  <2>6. FramesLeft
    BY <1>1, AllFramesStay
  <2> QED
    BY <1>2, <1>3, <2>1, <2>5, <2>6, CutFin
<1>6. CASE tstate[t] # "yielded"
  <2> DEFINE a == Act("ecma", FALSE)
             z == <<>>
             r == <<a>>
  <2>1. callstack[t] = z
    BY <1>2, <1>4, <1>6 DEF ShapeOf
  <2>2. callstack' = [callstack EXCEPT ![t] = r]
    BY <1>0, <1>6 DEF HandleResume
  <2>3. a \in Activation /\ a.cats = <<>>
    BY ActIs
  <2>4. Pushed(z, r, a) /\ Plain(z)
    <3> HIDE DEF a
    <3> QED
      BY <2>3 DEF Pushed, Plain
  <2> HIDE DEF a, z, r
  <2>5. callstack'[t] = r /\ \A u \in Thread : u # t => callstack'[u] = callstack[u]
    BY <2>2, <1>2 DEF ThreadInv, Base, TypeOK
  <2>6. Change(callstack[t], callstack'[t])
    <3>1. Fine(callstack[t]) /\ SuspOK(callstack[t])
      BY <1>2 DEF FinInv
    <3> QED
      BY <3>1, <1>2, <2>1, <2>3, <2>4, <2>5, ChangePush
  <2>7. \A u \in Thread : Change(callstack[u], callstack'[u])
    BY <2>5, <2>6, OthersKept
  <2>8. ASSUME NEW i \in 1..Len(cstack')
        PROVE  OldFrame(i)
    <3>1. i \in 1..Len(cstack) /\ cstack[i] \in CFrame
      BY <1>1 DEF ThreadInv, Base, TypeOK
    <3>2. cstack[i].thr \in Thread /\ cstack[i].top \in Nat
      BY <3>1, FrameType
    <3>3. cstack[i].thr # t
      <4>1. tstate[cstack[i].thr] \in {"running", "resumed"}
        BY <3>1 DEF ThreadInv, Base, Frames, Placed
      <4> QED
        BY <4>1, <1>2
    <3>4. callstack'[cstack[i].thr] = callstack[cstack[i].thr]
      BY <3>2, <3>3, <2>5
    <3>5. Len(callstack[cstack[i].thr]) \in Nat
      BY <3>2 DEF ThreadInv, Base, TypeOK
    <3>6. NewPrevents(cstack[i], callstack[cstack[i].thr], callstack'[cstack[i].thr])
      BY <3>2, <3>4, <3>5 DEF NewPrevents
    <3> QED
      BY <3>1, <3>6, <1>1 DEF OldFrame, Stays
  <2>9. CaughtSafe'
    BY <1>3 DEF CaughtSafe, NotSuspending
  <2>10. \A i \in 1..Len(cstack') : OldFrame(i) \/ NewFrame(i)
    BY <2>8
  <2> QED
    BY <2>7, <2>9, <2>10, FinStep
<1> QED
  BY <1>5, <1>6

LEMMA HandleYieldFin ==
  ASSUME ThreadInv, ThreadInv', FinInv, HandleYield
  PROVE  FinInv' /\ FinallyStep
<1>0. PICK r : r = resumer[curr]
  OBVIOUS
<1>1. In({"exec"}) /\ Frame.thr # curr /\ cstack' = cstack
  BY YieldFrames DEF HandleYield, Handling
<1>2. r \in Thread /\ OnEcma(callstack[r], "resume")
  BY <1>0, <1>1, ResumerFrames
<1>3. NotSuspending
  BY LjTypes DEF HandleYield, LjDone, NotSuspending, Suspending
<1>4. FramesLeft
  BY <1>1, AllFramesStay
<1>5. CASE lj.iserror
  BY <1>3, <1>4, <1>5, SameStacksFin DEF HandleYield
<1>6. CASE ~lj.iserror
  <2> DEFINE s == callstack[r]
             m == Len(s) - 1
  <2>1. UnwindTo(r, m)
    BY <1>0, <1>6 DEF HandleYield
  <2>2. s \in Seq(Activation)
    BY <1>2 DEF ThreadInv, Base, TypeOK
  <2>3. Len(s) \in 1..Len(s) /\ s # <<>>
    BY <2>2, <1>2 DEF OnEcma
  <2>4. Quiet(s[Len(s)].cats)
    <3>1. s[Len(s)].fn # "ecma"
      BY <1>2 DEF OnEcma
    <3> QED
      BY <3>1, <2>3, <1>2, NotEcmaQuiet
  <2>5. m \in 0..Len(s) /\ QuietAbove(s, m)
    BY <2>2, <2>3, <2>4, TopQuiet
  <2> QED
    BY <1>2, <1>3, <1>4, <2>1, <2>5, CutFin
<1> QED
  BY <1>5, <1>6

-----------------------------------------------------------------------------
(* Calls.                                                                  *)

\* What runs is on top of an ordinary activation.
LEMMA TopPlain ==
  ASSUME ThreadInv, FinInv, Running, curr \in Thread
  PROVE  Plain(callstack[curr])
<1> DEFINE f == Frame
           s == callstack[curr]
           n == Len(cstack)
<1> USE DEF ThreadInv, Base
<1>1. cstack # <<>>
  BY ThreadAssumption DEF Frames
<1>2. n \in Nat \ {0} /\ n \in 1..n /\ f = cstack[n] /\ f \in CFrame /\ Ctx(n) = curr /\ Depth(n) = Len(s)
  BY <1>1, FrameIs
<1>3. Level(f, s, Len(s)) /\ SafeOn(f, callstack[f.thr]) /\ MatchF(f, callstack[f.thr])
  BY <1>2 DEF Levels, FinInv, Match, Running
<1>4. f.thr # curr => f.kind = "exec"
  <2>1. PICK h \in [Thread -> Nat], d \in [Thread -> Nat] : ChainOK(h, d)
    BY DEF Chained
  <2> QED
    BY <2>1, <1>1, CurrFrames
<1>5. f.kind \in {"exec", "native", "safe", "fin"} /\ f.top \in Nat
  BY <1>2, FrameType
<1>6. s \in Seq(Activation) /\ Len(s) \in Nat
  BY DEF TypeOK
<1> SUFFICES Plain(s)
  OBVIOUS
<1> HIDE DEF f, s, n
<1>7. CASE f.kind = "exec"
  BY <1>3, <1>7 DEF Level, Plain, Suspending
<1>8. CASE f.kind = "native"
  BY <1>3, <1>4, <1>8 DEF Level, MatchF, Plain, Suspending, CallKinds, s
<1>9. CASE f.kind \in {"safe", "fin"}
  <2>1. Len(s) = f.top /\ SafeOn(f, s)
    BY <1>3, <1>4, <1>9 DEF Level, SafeKinds, s
  <2>2. s # <<>> => Len(s) >= 1
    BY <1>6
  <2> QED
    BY <2>1, <2>2, <1>9 DEF SafeOn, SafeKinds, Plain
<1> QED
  BY <1>5, <1>7, <1>8, <1>9

\* A new activation a of the current thread.
LEMMA PushFin ==
  ASSUME ThreadInv, ThreadInv', FinInv, Running, curr \in Thread, NEW a \in Activation, a.cats = <<>>,
         callstack' = [callstack EXCEPT ![curr] = Append(@, a)],
         \A i \in 1..Len(cstack') : (i \in 1..Len(cstack) /\ Stays(cstack[i], cstack'[i])) \/ NewFrame(i),
         \/ a.prevent
         \/ \A i \in 1..Len(cstack) : cstack[i].kind \in SafeKinds /\ cstack[i].thr = curr =>
                                        cstack[i].top # Len(callstack[curr]),
         CaughtSafe'
  PROVE  FinInv' /\ FinallyStep
<1> DEFINE s == callstack[curr]
           r == callstack'[curr]
<1>1. callstack \in [Thread -> Seq(Activation)]
  BY DEF ThreadInv, Base, TypeOK
<1>2. s \in Seq(Activation) /\ Fine(s) /\ SuspOK(s) /\ Plain(s)
  BY <1>1, TopPlain DEF FinInv
<1>3. Pushed(s, Append(s, a), a)
  <2> HIDE DEF s
  <2> QED
    BY <1>2 DEF Pushed
<1>4. r = Append(s, a) /\ \A u \in Thread : u # curr => callstack'[u] = callstack[u]
  BY <1>1
<1>5. Pushed(s, r, a)
  BY <1>3, <1>4
<1>6. Change(s, r)
  <2> HIDE DEF s, r
  <2> QED
    BY <1>2, <1>5, ChangePush
<1>7. \A u \in Thread : Change(callstack[u], callstack'[u])
  BY <1>4, <1>6, OthersKept
<1>8. ASSUME NEW i \in 1..Len(cstack), i \in 1..Len(cstack'), Stays(cstack[i], cstack'[i])
      PROVE  OldFrame(i)
  <2>1. cstack[i] \in CFrame
    BY DEF ThreadInv, Base, TypeOK
  <2>2. cstack[i].thr \in Thread /\ cstack[i].top \in Nat
    BY <2>1, FrameType
  <2>3. CASE cstack[i].thr = curr
    <3>1. r[Len(s) + 1] = a
      BY <1>5 DEF Pushed
    <3>2. NewPrevents(cstack[i], s, r)
      <4> HIDE DEF s, r
      <4> QED
        BY <2>3, <3>1 DEF NewPrevents, s
    <3> QED
      BY <1>8, <2>3, <3>2 DEF OldFrame
  <2>4. CASE cstack[i].thr # curr
    <3>1. callstack'[cstack[i].thr] = callstack[cstack[i].thr] /\ Len(callstack[cstack[i].thr]) \in Nat
      BY <1>1, <1>4, <2>2, <2>4
    <3>2. NewPrevents(cstack[i], callstack[cstack[i].thr], callstack'[cstack[i].thr])
      BY <2>2, <3>1 DEF NewPrevents
    <3> QED
      BY <1>8, <3>2 DEF OldFrame
  <2> QED
    BY <2>3, <2>4
<1>9. \A i \in 1..Len(cstack') : OldFrame(i) \/ NewFrame(i)
  BY <1>8
<1> QED
  BY <1>7, <1>9, FinStep

\* The end of a native function: its activation has no catchers.
LEMMA NativeReturnFin ==
  ASSUME ThreadInv, ThreadInv', FinInv, NativeReturn
  PROVE  FinInv' /\ FinallyStep
<1>1. PICK t, s, m : t = Frame.thr /\ s = callstack[t] /\ m = Len(s) - 1
  OBVIOUS
<1>2. /\ lj.type = "none" /\ cstack # <<>> /\ curr \in Thread /\ Frame.kind = "native" /\ t = curr
      /\ s \in Seq(Activation) /\ Len(s) \in Nat /\ Frame \in CFrame /\ Level(Frame, s, Len(s))
      /\ Frame = cstack[Len(cstack)] /\ Len(cstack) \in 1..Len(cstack)
  BY <1>1, CodeFacts DEF NativeReturn
<1>3. MatchF(Frame, s)
  BY <1>1, <1>2 DEF ThreadInv, Base, Match
<1>4. Frame.top \in Nat /\ Len(s) = Frame.top + 1
  BY <1>2, FrameType DEF Level
<1>5. s # <<>> /\ Len(s) \in 1..Len(s)
  BY <1>2, <1>4
<1>6. s[Len(s)].fn = "native"
  BY <1>2, <1>3, <1>4 DEF MatchF, CallKinds
<1>7. Quiet(s[Len(s)].cats)
  BY <1>1, <1>2, <1>5, <1>6, NotEcmaQuiet
<1>8. m \in 0..Len(s) /\ QuietAbove(s, m)
  BY <1>1, <1>2, <1>5, <1>7, TopQuiet
<1>9. UnwindTo(t, m) /\ lj' = lj /\ cstack' = Front(cstack)
  BY <1>1 DEF NativeReturn, Epilogue
<1>10. NotSuspending
  BY <1>2, <1>9 DEF NotSuspending, Suspending
<1>11. FramesLeft
  BY <1>2, <1>9, FrontStays
<1> QED
  BY <1>1, <1>2, <1>8, <1>9, <1>10, <1>11, CutFin

LEMMA SafeReturnFin ==
  ASSUME ThreadInv, ThreadInv', FinInv, SafeReturn
  PROVE  FinInv' /\ FinallyStep
<1>1. cstack # <<>> /\ lj.type = "none" /\ lj' = lj /\ cstack' = Front(cstack) /\ callstack' = callstack
  BY CodeFacts DEF SafeReturn, Epilogue
<1>2. FramesLeft /\ NotSuspending
  BY <1>1, FrontStays DEF NotSuspending, Suspending
<1> QED
  BY <1>1, <1>2, SameStacksFin

LEMMA ThrowFin ==
  ASSUME ThreadInv, ThreadInv', FinInv, Throw
  PROVE  FinInv' /\ FinallyStep
<1>1. callstack' = callstack /\ lj' = Thrown /\ cstack' = Caught(cstack)
  BY DEF Throw, threads, Longjmp
<1>2. FramesLeft /\ NotSuspending
  BY <1>1, CaughtStays, LjTypes DEF NotSuspending, Suspending
<1> QED
  BY <1>1, <1>2, SameStacksFin

LEMMA InterruptFin ==
  ASSUME ThreadInv, ThreadInv', FinInv, Interrupt
  PROVE  FinInv' /\ FinallyStep
<1>1. callstack' = callstack /\ lj'.type = "return" /\ cstack' = Caught(cstack)
  BY DEF Interrupt, threads, Longjmp
<1>2. FramesLeft /\ NotSuspending
  BY <1>1, CaughtStays DEF NotSuspending, Suspending
<1> QED
  BY <1>1, <1>2, SameStacksFin

LEMMA ArmFin ==
  ASSUME ThreadInv, ThreadInv', FinInv, Arm
  PROVE  FinInv' /\ FinallyStep
<1>1. callstack' = callstack /\ lj' = lj /\ cstack' = cstack /\ lj.type = "none"
  BY CodeFacts DEF Arm, threads
<1>2. FramesLeft /\ NotSuspending
  BY <1>1, AllFramesStay DEF NotSuspending, Suspending
<1> QED
  BY <1>1, <1>2, SameStacksFin

\* A protected call of t: it is made from what runs, or t has no activations.
LEMMA SafeEnterFin ==
  ASSUME ThreadInv, ThreadInv', FinInv, Running, NEW t \in Thread, NEW kind \in SafeKinds, MayEnter(t),
         Len(cstack) < MaxC, cstack' = Append(cstack, CallFrame(kind, t)), curr' = t,
         callstack' = callstack, lj' = lj
  PROVE  FinInv' /\ FinallyStep
<1>0. PICK f : f = CallFrame(kind, t)
  OBVIOUS
<1>1. f.kind = kind /\ f.thr = t /\ f.ecurr = curr /\ f.top = Len(callstack[t]) /\ f.delayed = FALSE
  BY <1>0 DEF CallFrame
<1>2. callstack[t] \in Seq(Activation) /\ Len(callstack[t]) \in Nat /\ tstate[t] \in {"inactive", "running"}
  BY DEF ThreadInv, Base, TypeOK, MayEnter
<1>3. f \in CFrame
  BY <1>0, <1>2 DEF CallFrame, CFrame, SafeKinds, ThreadInv, Base, TypeOK
<1>4. /\ Len(cstack) \in Nat /\ cstack'[Len(cstack) + 1] = f
      /\ \A i \in 1..Len(cstack) : cstack'[i] = cstack[i]
      /\ \A i \in 1..Len(cstack') : i \in 1..Len(cstack) \/ i = Len(cstack) + 1
  <2>1. TypeOK /\ PushedFrame(f)
    BY <1>0, <1>1, <1>3 DEF PushedFrame, ThreadInv, Base
  <2> QED
    BY <2>1, PushedIs
<1>5. Plain(callstack[t])
  <2>1. CASE t = curr
    BY <2>1, TopPlain
  <2>2. CASE t # curr
    <3>1. tstate[t] = "inactive"
      BY <2>2 DEF MayEnter
    <3>2. callstack[t] = <<>>
      BY <3>1 DEF ThreadInv, Base, Shape, ShapeOf
    <3> QED
      BY <3>2 DEF Plain
  <2> QED
    BY <2>1, <2>2
<1>6. SafeOn(f, callstack[t])
  <2>1. PICK s : s = callstack[t]
    OBVIOUS
  <2>2. s = <<>> => ~(Len(s) >= 1)
    OBVIOUS
  <2>3. ~(Len(s) < Len(s))
    BY <1>2, <2>1
  <2> QED
    BY <1>1, <1>5, <2>1, <2>2, <2>3 DEF SafeOn, Plain
<1>7. \A u \in Thread : Change(callstack[u], callstack'[u])
  BY OthersKept
<1>8. ASSUME NEW i \in 1..Len(cstack')
      PROVE  OldFrame(i) \/ NewFrame(i)
  <2>1. CASE i = Len(cstack) + 1
    BY <2>1, <1>1, <1>4, <1>6 DEF NewFrame
  <2>2. CASE i \in 1..Len(cstack)
    <3>1. cstack[i] \in CFrame
      BY <2>2 DEF ThreadInv, Base, TypeOK
    <3>2. cstack[i].thr \in Thread /\ cstack[i].top \in Nat
      BY <3>1, FrameType
    <3>3. Len(callstack[cstack[i].thr]) \in Nat
      BY <3>2 DEF ThreadInv, Base, TypeOK
    <3>4. NewPrevents(cstack[i], callstack[cstack[i].thr], callstack'[cstack[i].thr])
      BY <3>2, <3>3 DEF NewPrevents
    <3> QED
      BY <2>2, <1>4, <3>4 DEF OldFrame, Stays
  <2> QED
    BY <2>1, <2>2, <1>4
<1>9. \A i \in 1..Len(cstack') : OldFrame(i) \/ NewFrame(i)
  BY <1>8
<1>10. CaughtSafe'
  BY DEF CaughtSafe, Running, Suspending
<1> QED
  BY <1>7, <1>9, <1>10, FinStep

LEMMA SafeCallFin ==
  ASSUME ThreadInv, ThreadInv', FinInv, NEW t \in Thread, SafeCall(t)
  PROVE  FinInv' /\ FinallyStep
<1>1. "safe" \in SafeKinds
  BY DEF SafeKinds
<1> QED
  BY <1>1, SafeEnterFin DEF SafeCall

LEMMA RunFinalizerFin ==
  ASSUME ThreadInv, ThreadInv', FinInv, RunFinalizer
  PROVE  FinInv' /\ FinallyStep
<1>1. "fin" \in SafeKinds /\ MAIN \in Thread
  BY ThreadAssumption DEF SafeKinds
<1> QED
  BY <1>1, SafeEnterFin DEF RunFinalizer

\* A call with a C frame of its own.
LEMMA HandleCallFin ==
  ASSUME ThreadInv, ThreadInv', FinInv, NEW fn \in {"ecma", "native"}, HandleCall(fn)
  PROVE  FinInv' /\ FinallyStep
<1> DEFINE a == Act(fn, TRUE)
<1>0. PICK f : f = CallFrame(IF fn = "ecma" THEN "exec" ELSE "native", curr)
  OBVIOUS
<1>1. lj.type = "none" /\ curr \in Thread /\ Running
  BY CodeFacts DEF HandleCall, Running
<1>2. /\ f.kind = (IF fn = "ecma" THEN "exec" ELSE "native") /\ f.thr = curr /\ f.ecurr = curr
      /\ f.top = Len(callstack[curr]) /\ f.delayed = FALSE
  BY <1>0 DEF CallFrame
<1>3. tstate[curr] = "running" /\ Len(callstack[curr]) \in Nat
  BY <1>1, ThreadAssumption DEF ThreadInv, Base, States, TypeOK
<1>4. f \in CFrame /\ f.kind \notin SafeKinds
  BY <1>0, <1>1, <1>3 DEF CallFrame, CFrame, SafeKinds
<1>5. /\ Len(cstack) \in Nat /\ cstack'[Len(cstack) + 1] = f
      /\ \A i \in 1..Len(cstack) : cstack'[i] = cstack[i]
      /\ \A i \in 1..Len(cstack') : i \in 1..Len(cstack) \/ i = Len(cstack) + 1
  <2>1. TypeOK /\ PushedFrame(f)
    BY <1>0, <1>2, <1>4 DEF PushedFrame, HandleCall, WithinLimits, ThreadInv, Base
  <2> QED
    BY <2>1, PushedIs
<1>6. \A i \in 1..Len(cstack') : (i \in 1..Len(cstack) /\ Stays(cstack[i], cstack'[i])) \/ NewFrame(i)
  BY <1>4, <1>5 DEF Stays, NewFrame, SafeOn
<1>7. CaughtSafe'
  BY <1>1 DEF HandleCall, CaughtSafe, Suspending
<1>8. a \in Activation /\ a.prevent /\ a.cats = <<>>
  BY ActIs
<1>9. callstack' = [callstack EXCEPT ![curr] = Append(@, a)]
  BY DEF HandleCall
<1> HIDE DEF a
<1> QED
  BY <1>1, <1>6, <1>7, <1>8, <1>9, PushFin

\* The executor goes on in the new activation: no protected call waits there.
LEMMA EcmaCallFin ==
  ASSUME ThreadInv, ThreadInv', FinInv, EcmaCall
  PROVE  FinInv' /\ FinallyStep
<1> DEFINE a == Act("ecma", FALSE)
           n == Len(callstack[curr])
<1>1. /\ lj.type = "none" /\ curr \in Thread /\ Running /\ cstack # <<>> /\ Frame.kind = "exec"
      /\ Frame \in CFrame /\ Frame = cstack[Len(cstack)] /\ Len(cstack) \in 1..Len(cstack) /\ Len(cstack) \in Nat
      /\ n \in Nat
  BY CodeFacts DEF EcmaCall, Running, InBytecode, In
<1>2. ASSUME NEW i \in 1..Len(cstack), cstack[i].kind \in SafeKinds, cstack[i].thr = curr
      PROVE  cstack[i].top # n
  <2>1. Frame.thr = curr
    <3>1. PICK h \in [Thread -> Nat], d \in [Thread -> Nat] : ChainOK(h, d)
      BY DEF ThreadInv, Chained
    <3>2. TypeOK
      BY DEF ThreadInv, Base
    <3> QED
      BY <1>1, <1>2, <3>1, <3>2, CurrFrames
  <2>2. i # Len(cstack)
    BY <1>1, <1>2 DEF SafeKinds
  <2>3. i < Len(cstack)
    BY <1>1, <2>2
  <2>4. PairOK(cstack[i], Frame)
    BY <1>1, <2>3 DEF ThreadInv, Base, Frames, StackOK
  <2>5. MatchF(Frame, callstack[curr])
    BY <1>1, <2>1 DEF ThreadInv, Base, Match
  <2>6. Frame.top + 1 <= n
    BY <1>1, <2>5 DEF MatchF, Bonus, CallKinds
  <2>7. cstack[i].top <= Frame.top
    BY <1>2, <2>1, <2>4 DEF PairOK
  <2>8. cstack[i] \in CFrame
    BY DEF ThreadInv, Base, TypeOK
  <2>9. Frame.top \in Nat /\ cstack[i].top \in Nat
    BY <1>1, <2>8, FrameType
  <2> HIDE DEF n
  <2> QED
    BY <1>1, <2>6, <2>7, <2>9
<1>3. \A i \in 1..Len(cstack) : cstack[i].kind \in SafeKinds /\ cstack[i].thr = curr =>
                                  cstack[i].top # Len(callstack[curr])
  BY <1>2
<1>4. cstack' = cstack /\ lj' = lj /\ callstack' = [callstack EXCEPT ![curr] = Append(@, a)]
  BY DEF EcmaCall
<1>5. \A i \in 1..Len(cstack') : (i \in 1..Len(cstack) /\ Stays(cstack[i], cstack'[i])) \/ NewFrame(i)
  BY <1>4 DEF Stays
<1>6. CaughtSafe'
  BY <1>1, <1>4 DEF CaughtSafe, Suspending
<1>7. a \in Activation /\ a.cats = <<>>
  BY ActIs
<1> HIDE DEF a
<1> QED
  BY <1>1, <1>3, <1>4, <1>5, <1>6, <1>7, PushFin

\* resume() and yield(): the C code that called them, if any, is a protected call.
LEMMA SuspendFin ==
  ASSUME ThreadInv, ThreadInv', FinInv, InBytecode \/ InC, TopIsEcma, NEW l, Longjmp(l), curr' = curr,
         NEW fn \in Suspending, callstack' = [callstack EXCEPT ![curr] = Append(@, Act(fn, TRUE))]
  PROVE  FinInv' /\ FinallyStep
<1> DEFINE a == Act(fn, TRUE)
           s == callstack[curr]
           n == Len(s)
<1>1. /\ lj.type = "none" /\ curr \in Thread /\ Running /\ cstack # <<>>
      /\ Frame \in CFrame /\ Frame = cstack[Len(cstack)] /\ Len(cstack) \in 1..Len(cstack)
      /\ s \in Seq(Activation) /\ n \in Nat /\ Level(Frame, s, n)
      /\ Frame.kind # "exec" => Frame.thr = curr
  BY CodeFacts DEF Running
<1>2. s # <<>> /\ s[n].fn = "ecma"
  BY <1>1, ThrowFacts DEF TopIsEcma
<1>3. Frame.kind # "native"
  <2>1. ASSUME Frame.kind = "native"
        PROVE  FALSE
    <3>1. Frame.thr = curr /\ n = Frame.top + 1
      BY <2>1, <1>1 DEF Level
    <3>2. MatchF(Frame, s)
      BY <1>1, <3>1 DEF ThreadInv, Base, Match
    <3> HIDE DEF s, n
    <3> QED
      BY <2>1, <3>1, <3>2, <1>2 DEF MatchF, CallKinds
  <2> QED
    BY <2>1
<1>4. cstack' = cstack
  BY <1>1, <1>3, CaughtHere DEF Longjmp
<1>5. \A i \in 1..Len(cstack') : (i \in 1..Len(cstack) /\ Stays(cstack[i], cstack'[i])) \/ NewFrame(i)
  BY <1>4 DEF Stays
<1>6. a \in Activation /\ a.prevent /\ a.cats = <<>>
  BY ActIs DEF Suspending
<1>7. callstack' = [callstack EXCEPT ![curr] = Append(@, a)]
  OBVIOUS
<1> HIDE DEF a
<1>8. CaughtSafe'
  <2>1. Frame' = Frame
    BY <1>4 DEF Frame
  <2>2. callstack'[curr] = Append(s, a)
    BY <1>1, <1>7 DEF ThreadInv, Base, TypeOK
  <2>3. Len(callstack'[curr]) = n + 1
    BY <2>2, <1>1, <1>6
  <2>4. Frame.kind \in SafeKinds => n = Frame.top
    BY <1>1 DEF Level
  <2> QED
    BY <2>1, <2>3, <2>4 DEF CaughtSafe
<1> QED
  BY <1>1, <1>5, <1>6, <1>7, <1>8, PushFin

LEMMA ResumeFin ==
  ASSUME ThreadInv, ThreadInv', FinInv, NEW t \in Thread, NEW e \in BOOLEAN, Resume(t, e)
  PROVE  FinInv' /\ FinallyStep
<1>1. "resume" \in Suspending
  BY DEF Suspending
<1> QED
  BY <1>1, SuspendFin DEF Resume

LEMMA YieldFin ==
  ASSUME ThreadInv, ThreadInv', FinInv, NEW e \in BOOLEAN, Yield(e)
  PROVE  FinInv' /\ FinallyStep
<1>1. "yield" \in Suspending
  BY DEF Suspending
<1> QED
  BY <1>1, SuspendFin DEF Yield

\* A tail call drops only labels.
LEMMA TailCallFin ==
  ASSUME ThreadInv, ThreadInv', FinInv, TailCall
  PROVE  FinInv' /\ FinallyStep
<1>1. PICK s, r, n : s = callstack[curr] /\ r = callstack'[curr] /\ n = Len(s)
  OBVIOUS
<1> DEFINE a == Act("ecma", FALSE)
<1>2. /\ Running /\ lj.type = "none" /\ In({"exec"}) /\ ~Top(curr).prevent
      /\ callstack' = [callstack EXCEPT ![curr][n] = a] /\ cstack' = cstack /\ lj' = lj
      /\ \A i \in DOMAIN Top(curr).cats : Top(curr).cats[i].kind = "label"
  BY <1>1 DEF TailCall, InBytecode, Running, MayReuse
<1>3. /\ curr \in Thread /\ s # <<>> /\ Top(curr).fn = "ecma"
      /\ s \in Seq(Activation) /\ n \in Nat \ {0} /\ n \in 1..n /\ Top(curr) = s[n] /\ s[n] \in Activation
  BY <1>1, <1>2, ExecFacts DEF In
<1>4. a \in Activation /\ a.fn = "ecma" /\ ~a.prevent /\ a.cats = <<>>
  BY ActIs
<1> HIDE DEF a
<1>5. /\ \A u \in Thread : u # curr => callstack'[u] = callstack[u]
      /\ r = [s EXCEPT ![n] = a]
  <2>1. callstack \in [Thread -> Seq(Activation)]
    BY DEF ThreadInv, Base, TypeOK
  <2> QED
    BY <2>1, <1>1, <1>2, <1>3
<1>6. r \in Seq(Activation) /\ Len(r) = n /\ r[n] = a /\ \A k \in 1..n : k # n => r[k] = s[k]
  BY <1>1, <1>3, <1>4, <1>5, PutIs
<1>7. Quiet(s[n].cats)
  <2>1. s[n].cats \in Seq(Catcher) /\ CatsFine(s[n].cats)
    BY <1>1, <1>3, TopCats
  <2>2. \A j \in 1..Len(s[n].cats) : s[n].cats[j].kind = "label"
    BY <2>1, <1>2, <1>3
  <2> QED
    BY <2>1, <2>2 DEF CatsFine, CatOK, Quiet
<1>8. Fine(s) /\ SuspOK(s)
  BY <1>1, <1>3 DEF FinInv
<1>9. SameAct(s[n], r[n])
  <2>1. s[n].prevent \in BOOLEAN /\ a.prevent \in BOOLEAN
    BY <1>3, <1>4, ActType
  <2>2. s[n].prevent = FALSE /\ a.prevent = FALSE
    BY <2>1, <1>2, <1>3, <1>4
  <2> QED
    BY <2>2, <1>3, <1>4, <1>6 DEF SameAct
<1>10. Change(s, r)
  <2>1. Held(s, r)
    BY <1>1, <1>6, <1>7, PassesSame DEF Held
  <2>2. Fine(r)
    <3>1. CatsFine(a.cats)
      BY <1>4 DEF CatsFine
    <3> QED
      BY <3>1, <1>1, <1>6, <1>8 DEF Fine
  <2>3. KeptActs(s, r)
    BY <1>1, <1>6, <1>9 DEF KeptActs, SameAct
  <2>4. SuspOK(r)
    BY <1>1, <1>6, <1>8, <2>3 DEF SuspOK, KeptActs, SameAct
  <2> QED
    BY <2>1, <2>2, <2>3, <2>4, <1>6 DEF Change
<1>11. Len(r) <= Len(s)
  BY <1>1, <1>3, <1>6
<1>12. \A u \in Thread : Change(callstack[u], callstack'[u]) /\ Len(callstack'[u]) <= Len(callstack[u])
  BY <1>1, <1>5, <1>10, <1>11, OthersKept
<1>13. FramesLeft /\ NotSuspending
  BY <1>2, AllFramesStay DEF NotSuspending, Suspending
<1> QED
  BY <1>12, <1>13, ShrinkStep

-----------------------------------------------------------------------------
(* The theorem.                                                            *)

LEMMA FinStutter ==
  ASSUME FinInv, UNCHANGED vars
  PROVE  FinInv'
<1>1. callstack' = callstack /\ cstack' = cstack /\ lj' = lj /\ curr' = curr
  BY DEF vars
<1>2. CaughtSafe'
  BY <1>1 DEF FinInv, CaughtSafe, Frame
<1> QED
  BY <1>1, <1>2 DEF FinInv

LEMMA FinNext ==
  ThreadInv /\ ThreadInv' /\ FinInv /\ [Next]_vars => FinInv' /\ [FinallyStep]_vars
<1> SUFFICES ASSUME ThreadInv, ThreadInv', FinInv, [Next]_vars
             PROVE  FinInv' /\ [FinallyStep]_vars
  OBVIOUS
<1>1. CASE Engine
  BY <1>1, HandleResumeErrorFin, HandleResumeFin, HandleYieldFin, HandleCatchFin, HandleFinallyFin,
     HandleUnwindFin, HandleUncaughtFin, CatchSetupFin, SafeErrorFin, HandleCancelFin, Zenon DEF Engine
<1>2. CASE Program
  BY <1>2, SafeCallFin, HandleCallFin, EcmaCallFin, TailCallFin, NativeReturnFin, SafeReturnFin,
     RunFinalizerFin, ThrowFin, EnterFin, EndTryFin, EndCatchFin, EndLabelFin, EndFinFin, BreakFin,
     ReturnFin, ResumeFin, YieldFin, ArmFin, InterruptFin, Zenon DEF Program
<1>3. CASE UNCHANGED vars
  BY <1>3, FinStutter
<1> QED
  BY <1>1, <1>2, <1>3 DEF Next

LEMMA FinFirst ==
  Init => FinInv
<1> SUFFICES ASSUME Init
             PROVE  FinInv
  OBVIOUS
<1>1. cstack = <<>> /\ lj.type = "none" /\ \A t \in Thread : callstack[t] = <<>>
  BY LjTypes DEF Init
<1> QED
  BY <1>1 DEF FinInv, Fine, SuspOK, CaughtSafe, Suspending

\* No step drops a try statement whose finally clause has not been entered, whether
\* the statement is left by an error, a return, a break, a cancellation or the end
\* of the coroutine, and however many threads, calls and statements there are.
THEOREM NoFinallySkipped ==
  Spec => FinallyNeverSkipped
<1>1. FinInv /\ ThreadInv /\ ThreadInv' /\ [Next]_vars => FinInv' /\ [FinallyStep]_vars
  BY FinNext
<1>2. Spec => [][FinallyStep]_vars
  BY <1>1, FinFirst, ThreadAlways, PTL DEF Spec
<1> QED
  BY <1>2 DEF FinallyNeverSkipped, FinallyStep
=============================================================================

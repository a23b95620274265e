------------------------- MODULE DukHeapLife_proofs -------------------------
(***************************************************************************)
(* Proofs about DukHeapLife, for any set of objects: whatever allocation   *)
(* of duk_heap_alloc fails, duk_heap_free gives everything back; no object *)
(* is freed without the finalizer calls it is due; and the rounds of       *)
(* forced finalizers run against a limit that shrinks.                     *)
(***************************************************************************)
EXTENDS DukHeapLife, FiniteSetTheorems, TLAPS

-----------------------------------------------------------------------------
(* The inductive invariant.                                                *)

Pcs == ({"create"} \X (1..6)) \cup ({"ms"} \X (1..3)) \cup ({"free"} \X (1..5))
         \cup {<<"run", 0>>, <<"failed", 0>>, <<"finalize", 0>>, <<"done", 0>>}
Block == {"heap", "strtable", "strings", "thread", "stacks", "heap_object", "weak", "microtasks"}
Record == [st : {"none", "live", "freed"}, fin : BOOLEAN, reach : BOOLEAN, done : BOOLEAN, owed : BOOLEAN]

LifeType == pc \in Pcs /\ blocks \in SUBSET Block /\ obj \in [Objs -> Record] /\ prevent \in {0, 1}

\* What there is of the heap: the heap structure from the second allocation on, the
\* thread from the fifth; collections are possible once there is a thread.
PartsOK ==
  /\ pc[1] = "create" => /\ prevent = 1 /\ (pc[2] = 1 => blocks = {})
                         /\ pc[2] >= 2 => "heap" \in blocks
                         /\ pc[2] >= 5 => "thread" \in blocks
  /\ pc[1] = "run" => prevent = 0 /\ "thread" \in blocks
  /\ pc[1] = "ms" => (prevent = 0 <=> "thread" \in blocks)
  /\ pc[1] = "failed" => blocks = {}

\* What duk_heap_free has freed so far.
FreedTo(bs, k) ==
  /\ k >= 2 => bs \cap {"thread", "stacks", "heap_object"} = {}
  /\ k >= 3 => bs \cap {"strtable", "strings"} = {}
  /\ k >= 4 => "weak" \notin bs
  /\ k >= 5 => "microtasks" \notin bs
FreesOK == (pc[1] = "free" => FreedTo(blocks, pc[2])) /\ (pc[1] = "done" => blocks = {})

\* A finalizer call is due only to a live object that has a finalizer; an object that was
\* called and is due another call has been rescued, which is noticed before the forced
\* finalizers, after which no call is due.
ObjectsOK ==
  /\ \A o \in Objs : obj[o].owed => obj[o].st = "live" /\ obj[o].fin
  /\ pc[1] \in {"create", "failed"} => \A o \in Objs : obj[o].st = "none"
  /\ pc[1] \in {"ms", "finalize"} /\ "thread" \notin blocks => \A o \in Objs : obj[o].st = "none"
  /\ pc[1] = "ms" => \A o \in Objs : obj[o].owed /\ obj[o].done => obj[o].reach
  /\ pc[1] \in {"run", "finalize"} => \A o \in Objs : obj[o].owed => ~obj[o].done
  /\ pc[1] \in {"free", "done"} => \A o \in Objs : ~obj[o].owed
  /\ pc[1] = "done" \/ (pc[1] = "free" /\ pc[2] >= 2) => \A o \in Objs : obj[o].st # "live"

LifeInv == LifeType /\ PartsOK /\ FreesOK /\ ObjectsOK

-----------------------------------------------------------------------------
(* Facts about positions and records.                                      *)

LEMMA PcCases ==
  ASSUME LifeType
  PROVE  \/ pc[1] = "create" /\ pc[2] \in 1..6 /\ pc = <<"create", pc[2]>>
         \/ pc[1] = "ms" /\ pc[2] \in 1..3 /\ pc = <<"ms", pc[2]>>
         \/ pc[1] = "free" /\ pc[2] \in 1..5 /\ pc = <<"free", pc[2]>>
         \/ pc[1] \in {"run", "failed", "finalize", "done"}
BY DEF LifeType, Pcs

LEMMA PcIn ==
  /\ \A k \in 1..6 : <<"create", k>> \in Pcs
  /\ \A k \in 1..3 : <<"ms", k>> \in Pcs
  /\ \A k \in 1..5 : <<"free", k>> \in Pcs
  /\ <<"run", 0>> \in Pcs /\ <<"failed", 0>> \in Pcs /\ <<"finalize", 0>> \in Pcs /\ <<"done", 0>> \in Pcs
BY DEF Pcs

LEMMA StagesIs ==
  /\ Len(Stages) = 6 /\ Stages[1] = "heap" /\ Stages[4] = "thread"
  /\ \A k \in 1..6 : Stages[k] \in Block
BY DEF Stages, Block

LEMMA OrderIs ==
  /\ Len(FreeOrder) = 5
  /\ FreeOrder[1] = {"thread", "stacks", "heap_object"} /\ FreeOrder[2] = {"strtable", "strings"}
  /\ FreeOrder[3] = {"weak"} /\ FreeOrder[4] = {"microtasks"} /\ FreeOrder[5] = {"heap"}
BY DEF FreeOrder

LEMMA RecordType ==
  ASSUME LifeType, NEW o \in Objs
  PROVE  /\ obj[o] \in Record /\ obj[o].st \in {"none", "live", "freed"} /\ obj[o].fin \in BOOLEAN
         /\ obj[o].reach \in BOOLEAN /\ obj[o].done \in BOOLEAN /\ obj[o].owed \in BOOLEAN
BY DEF LifeType, Record

LEMMA LifeInit == Init => LifeInv
<1> SUFFICES ASSUME Init PROVE LifeInv
  OBVIOUS
<1>1. pc = <<"create", 1>> /\ blocks = {} /\ prevent = 1 /\ obj = [o \in Objs |-> NoObject]
  BY DEF Init
<1>2. NoObject \in Record /\ NoObject.st = "none" /\ NoObject.owed = FALSE
  BY DEF NoObject, Record
<1>3. LifeType
  BY <1>1, <1>2, PcIn DEF LifeType
<1>4. PartsOK /\ FreesOK
  BY <1>1 DEF PartsOK, FreesOK
<1>5. \A o \in Objs : obj[o].st = "none" /\ obj[o].owed = FALSE
  BY <1>1, <1>2
<1>6. ObjectsOK
  BY <1>1, <1>5 DEF ObjectsOK
<1> QED
  BY <1>3, <1>4, <1>6 DEF LifeInv

-----------------------------------------------------------------------------
(* Creation and the program.                                               *)

LEMMA CreateOkStep ==
  ASSUME LifeInv, CreateOk
  PROVE  LifeInv'
<1>1. pc[1] = "create" /\ pc[2] \in 1..6 /\ obj' = obj
  BY PcCases DEF CreateOk, LifeInv
<1>2. blocks' = blocks \cup {Stages[pc[2]]} /\ Stages[pc[2]] \in Block
  BY <1>1, StagesIs DEF CreateOk
<1>3. \A o \in Objs : obj[o].st = "none" /\ ~obj[o].owed
  BY <1>1 DEF LifeInv, ObjectsOK
<1>4. CASE pc[2] = 6
  <2>1. pc' = <<"run", 0>> /\ prevent' = 0
    BY <1>4, StagesIs DEF CreateOk
  <2>2. "thread" \in blocks'
    BY <1>1, <1>2, <1>4 DEF LifeInv, PartsOK
  <2>3. LifeType'
    BY <1>1, <1>2, <2>1, PcIn DEF LifeInv, LifeType
  <2>4. PartsOK' /\ FreesOK'
    BY <2>1, <2>2 DEF PartsOK, FreesOK
  <2>5. ObjectsOK'
    BY <1>1, <1>3, <2>1 DEF ObjectsOK
  <2> QED
    BY <2>3, <2>4, <2>5 DEF LifeInv
<1>5. CASE pc[2] # 6
  <2>1. pc' = <<"create", pc[2] + 1>> /\ prevent' = prevent
    BY <1>5, StagesIs DEF CreateOk
  <2>2. pc[2] + 1 \in 1..6 /\ pc[2] + 1 # 1 /\ pc[2] \in Nat
    BY <1>1, <1>5
  <2>3. "heap" \in blocks' /\ (pc[2] + 1 >= 5 => "thread" \in blocks')
    <3>1. pc[2] = 1 \/ pc[2] >= 2
      BY <1>1
    <3>2. "heap" \in blocks'
      BY <3>1, <1>1, <1>2, StagesIs DEF LifeInv, PartsOK
    <3>3. pc[2] + 1 >= 5 => pc[2] = 4 \/ pc[2] >= 5
      BY <1>1
    <3> QED
      BY <3>2, <3>3, <1>1, <1>2, StagesIs DEF LifeInv, PartsOK
  <2>4. LifeType'
    BY <1>1, <1>2, <2>1, <2>2, PcIn DEF LifeInv, LifeType
  <2>5. PartsOK' /\ FreesOK'
    BY <1>1, <2>1, <2>2, <2>3 DEF LifeInv, PartsOK, FreesOK
  <2>6. ObjectsOK'
    BY <1>1, <1>3, <2>1 DEF ObjectsOK
  <2> QED
    BY <2>4, <2>5, <2>6 DEF LifeInv
<1> QED
  BY <1>4, <1>5

LEMMA CreateFailsStep ==
  ASSUME LifeInv, CreateFails
  PROVE  LifeInv'
<1>1. pc[1] = "create" /\ pc[2] \in 1..6 /\ obj' = obj /\ blocks' = blocks
  BY PcCases DEF CreateFails, LifeInv
<1>2. \A o \in Objs : obj[o].st = "none" /\ ~obj[o].owed
  BY <1>1 DEF LifeInv, ObjectsOK
<1>3. /\ pc' = (IF "heap" \in blocks THEN <<"ms", 1>> ELSE <<"failed", 0>>)
      /\ prevent' = (IF "thread" \in blocks THEN 0 ELSE prevent) /\ prevent = 1
  BY <1>1 DEF CreateFails, LifeInv, PartsOK
<1>4. "heap" \notin blocks => blocks = {}
  <2>1. pc[2] = 1 \/ pc[2] >= 2
    BY <1>1
  <2> QED
    BY <2>1, <1>1 DEF LifeInv, PartsOK
<1>5. LifeType'
  BY <1>1, <1>3, PcIn DEF LifeInv, LifeType
<1>6. PartsOK' /\ FreesOK'
  BY <1>1, <1>3, <1>4 DEF PartsOK, FreesOK
<1>7. ObjectsOK'
  BY <1>1, <1>2, <1>3 DEF ObjectsOK
<1> QED
  BY <1>5, <1>6, <1>7 DEF LifeInv

\* One object of the running program changes.
LEMMA ProgramStep ==
  ASSUME LifeInv, pc[1] = "run", NEW o \in Objs, NEW x \in Record, obj' = [obj EXCEPT ![o] = x],
         x.owed => x.st = "live" /\ x.fin /\ ~x.done,
         pc' = pc, blocks' = blocks, prevent' = prevent
  PROVE  LifeInv'
<1>1. \A u \in Objs : obj'[u] = IF u = o THEN x ELSE obj[u]
  BY DEF LifeInv, LifeType
<1>2. LifeType'
  BY DEF LifeInv, LifeType
<1>3. PartsOK' /\ FreesOK'
  BY DEF LifeInv, PartsOK, FreesOK
<1>4. \A u \in Objs : obj'[u].owed => obj'[u].st = "live" /\ obj'[u].fin /\ ~obj'[u].done
  BY <1>1 DEF LifeInv, ObjectsOK
<1>5. ObjectsOK'
  BY <1>4 DEF ObjectsOK
<1> QED
  BY <1>2, <1>3, <1>5 DEF LifeInv

LEMMA NewObjectStep ==
  ASSUME LifeInv, NEW o \in Objs, NEW fin \in BOOLEAN, NewObject(o, fin)
  PROVE  LifeInv'
<1> DEFINE x == [st |-> "live", fin |-> fin, reach |-> TRUE, done |-> FALSE, owed |-> fin]
<1>1. x \in Record /\ x.owed = fin /\ x.st = "live" /\ x.fin = fin /\ x.done = FALSE
  BY DEF Record
<1>2. obj' = [obj EXCEPT ![o] = x] /\ pc[1] = "run" /\ pc' = pc /\ blocks' = blocks /\ prevent' = prevent
  BY DEF NewObject
<1> HIDE DEF x
<1> QED
  BY <1>1, <1>2, ProgramStep

LEMMA DropStep ==
  ASSUME LifeInv, NEW o \in Objs, Drop(o)
  PROVE  LifeInv'
<1> DEFINE x == [obj[o] EXCEPT !.reach = FALSE]
<1>1. obj[o] \in Record
  BY DEF LifeInv, LifeType
<1>2. x \in Record /\ x.owed = obj[o].owed /\ x.st = obj[o].st /\ x.fin = obj[o].fin /\ x.done = obj[o].done
  BY <1>1 DEF Record
<1>3. obj' = [obj EXCEPT ![o] = x] /\ pc[1] = "run" /\ pc' = pc /\ blocks' = blocks /\ prevent' = prevent
  BY DEF Drop
<1>4. x.owed => x.st = "live" /\ x.fin /\ ~x.done
  BY <1>2, <1>3 DEF LifeInv, ObjectsOK
<1> HIDE DEF x
<1> QED
  BY <1>2, <1>3, <1>4, ProgramStep

LEMMA UseTableStep ==
  ASSUME LifeInv, NEW b \in {"weak", "microtasks"}, UseTable(b)
  PROVE  LifeInv'
<1>1. /\ pc[1] = "run" /\ blocks' = blocks \cup {b} /\ b \in Block
      /\ pc' = pc /\ obj' = obj /\ prevent' = prevent
  BY DEF UseTable, Block
<1>2. LifeType'
  BY <1>1 DEF LifeInv, LifeType
<1>3. PartsOK' /\ FreesOK' /\ ObjectsOK'
  BY <1>1 DEF LifeInv, PartsOK, FreesOK, ObjectsOK
<1> QED
  BY <1>2, <1>3 DEF LifeInv

LEMMA DestroyStep ==
  ASSUME LifeInv, Destroy
  PROVE  LifeInv'
<1>1. pc[1] = "run" /\ pc' = <<"ms", 1>> /\ blocks' = blocks /\ obj' = obj /\ prevent' = prevent
  BY DEF Destroy
<1>2. LifeType'
  BY <1>1, PcIn DEF LifeInv, LifeType
<1>3. PartsOK' /\ FreesOK'
  BY <1>1 DEF LifeInv, PartsOK, FreesOK
<1>4. ObjectsOK'
  BY <1>1 DEF LifeInv, ObjectsOK, PartsOK
<1> QED
  BY <1>2, <1>3, <1>4 DEF LifeInv

-----------------------------------------------------------------------------
(* duk_heap_free.                                                          *)

\* What one collection makes of an object.
Collected(o, x, run, back, new, y) ==
  /\ y \in Record
  /\ y.owed => y.st = "live" /\ y.fin /\ (y.done => y.reach)
  /\ run = {} => (y.owed => ~y.done)

LEMMA CollectedIs ==
  ASSUME LifeInv, pc[1] = "ms", NEW run \in {{}, Finalizable}, NEW back \in SUBSET run,
         NEW new \in SUBSET {o \in Objs : obj[o].st = "none"}, NEW o \in Objs
  PROVE  Collected(o, obj[o], run, back, new, AfterGC(run, back, new)[o])
<1> DEFINE x == obj[o]
           y == AfterGC(run, back, new)[o]
           a == [x EXCEPT !.st = "freed"]
           b == [x EXCEPT !.done = TRUE, !.owed = o \in back, !.reach = o \in back]
           c == [st |-> "live", fin |-> TRUE, reach |-> FALSE, done |-> FALSE, owed |-> TRUE]
           d == [x EXCEPT !.done = FALSE]
<1>1. /\ x \in Record /\ x.st \in {"none", "live", "freed"} /\ x.fin \in BOOLEAN
      /\ x.reach \in BOOLEAN /\ x.done \in BOOLEAN /\ x.owed \in BOOLEAN
  BY RecordType DEF LifeInv
<1>2. x.owed => x.st = "live" /\ x.fin /\ (x.done => x.reach)
  BY DEF LifeInv, ObjectsOK
<1>3. y = CASE o \in Swept -> a
            [] o \in run   -> b
            [] o \in new   -> c
            [] x.st = "live" /\ x.reach /\ x.done -> d
            [] OTHER -> x
  BY DEF AfterGC, Rescued
<1>4. /\ o \in Swept => x.st = "live" /\ ~x.reach /\ (~x.fin \/ x.done)
      /\ o \in run => run # {} /\ x.st = "live" /\ ~x.reach /\ x.fin /\ ~x.done
      /\ o \in new => x.st = "none"
  BY DEF Swept, Finalizable, LiveObjs
<1>5. /\ a \in Record /\ a.owed = x.owed
      /\ b \in Record /\ b.st = x.st /\ b.fin = x.fin /\ b.owed = (o \in back) /\ b.reach = (o \in back)
      /\ c \in Record /\ c.st = "live" /\ c.fin = TRUE /\ c.done = FALSE
      /\ d \in Record /\ d.st = x.st /\ d.fin = x.fin /\ d.owed = x.owed /\ d.done = FALSE
  <2>1. x \in Record
    BY <1>1
  <2> HIDE DEF x
  <2>2. a \in Record /\ a.owed = x.owed
    BY <2>1 DEF Record
  <2>3. b \in Record /\ b.st = x.st /\ b.fin = x.fin /\ b.owed = (o \in back) /\ b.reach = (o \in back)
    <3> DEFINE q == o \in back
    <3>1. q \in BOOLEAN
      OBVIOUS
    <3>2. b = [x EXCEPT !.done = TRUE, !.owed = q, !.reach = q]
      OBVIOUS
    <3> HIDE DEF q, b
    <3>3. b \in Record /\ b.st = x.st /\ b.fin = x.fin /\ b.owed = q /\ b.reach = q
      BY <2>1, <3>1, <3>2 DEF Record
    <3> QED
      BY <3>3 DEF q
  <2>4. c \in Record /\ c.st = "live" /\ c.fin = TRUE /\ c.done = FALSE
    BY DEF Record
  <2>5. d \in Record /\ d.st = x.st /\ d.fin = x.fin /\ d.owed = x.owed /\ d.done = FALSE
    BY <2>1 DEF Record
  <2> QED
    BY <2>2, <2>3, <2>4, <2>5
<1> HIDE DEF x, y, a, b, c, d
<1>6. CASE o \in Swept
  <2>1. y = a /\ ~x.owed
    BY <1>2, <1>3, <1>4, <1>6
  <2> QED
    BY <2>1, <1>5 DEF Collected, x, y
<1>7. CASE o \in run
  <2>1. y = b
    BY <1>3, <1>4, <1>7
  <2> QED
    BY <2>1, <1>4, <1>5, <1>7 DEF Collected, x, y
<1>8. CASE o \notin Swept /\ o \notin run /\ o \in new
  <2>1. y = c
    BY <1>3, <1>4, <1>8
  <2> QED
    BY <2>1, <1>5 DEF Collected, x, y
<1>9. CASE o \notin Swept /\ o \notin run /\ o \notin new /\ (x.st = "live" /\ x.reach /\ x.done)
  <2>1. y = d
    BY <1>3, <1>9
  <2> QED
    BY <2>1, <1>2, <1>5 DEF Collected, x, y
<1>10. CASE o \notin Swept /\ o \notin run /\ o \notin new /\ ~(x.st = "live" /\ x.reach /\ x.done)
  <2>1. y = x /\ (x.owed => ~x.done)
    BY <1>2, <1>3, <1>10
  <2> QED
    BY <2>1, <1>1, <1>2 DEF Collected, x, y
<1> QED
  BY <1>6, <1>7, <1>8, <1>9, <1>10

LEMMA MarkAndSweepStep ==
  ASSUME LifeInv, MarkAndSweep
  PROVE  LifeInv'
<1>1. pc[1] = "ms" /\ pc[2] \in 1..3 /\ blocks' = blocks /\ prevent' = prevent
  BY PcCases DEF MarkAndSweep, LifeInv
<1>2. /\ pc[2] = 3 => pc' = <<"finalize", 0>>
      /\ pc[2] # 3 => pc' = <<"ms", pc[2] + 1>> /\ pc[2] + 1 \in 1..3
  BY <1>1 DEF MarkAndSweep
<1>3. pc' \in Pcs
  BY <1>2, PcIn
<1>4. pc'[1] = IF pc[2] = 3 THEN "finalize" ELSE "ms"
  BY <1>2
<1>5. PartsOK' /\ FreesOK'
  BY <1>1, <1>4 DEF LifeInv, PartsOK, FreesOK
<1>6. CASE prevent > 0
  <2>1. obj' = obj /\ "thread" \notin blocks
    BY <1>1, <1>6 DEF MarkAndSweep, LifeInv, PartsOK
  <2>2. \A o \in Objs : obj[o].st = "none" /\ ~obj[o].owed
    BY <1>1, <2>1 DEF LifeInv, ObjectsOK
  <2>3. ObjectsOK'
    BY <1>4, <2>1, <2>2 DEF ObjectsOK
  <2>4. LifeType'
    BY <1>1, <1>3, <2>1 DEF LifeInv, LifeType
  <2> QED
    BY <1>5, <2>3, <2>4 DEF LifeInv
<1>7. CASE ~(prevent > 0)
  <2>1. prevent = 0 /\ "thread" \in blocks
    BY <1>1, <1>7 DEF LifeInv, LifeType, PartsOK
  <2>2. PICK run : run = IF pc[2] = 3 THEN {} ELSE Finalizable
    OBVIOUS
  <2>3. PICK back \in SUBSET run, new \in SUBSET {o \in Objs : obj[o].st = "none"} :
          obj' = AfterGC(run, back, new)
    BY <1>7, <2>2 DEF MarkAndSweep
  <2>4. run \in {{}, Finalizable} /\ (pc[2] = 3 => run = {})
    BY <2>2
  <2>5. \A o \in Objs : Collected(o, obj[o], run, back, new, obj'[o])
    BY <1>1, <2>3, <2>4, CollectedIs
  <2>6. obj' \in [Objs -> Record]
    <3> DEFINE g(o) == CASE o \in Swept -> [obj[o] EXCEPT !.st = "freed"]
                         [] o \in run   -> [obj[o] EXCEPT !.done = TRUE, !.owed = o \in back, !.reach = o \in back]
                         [] o \in new   -> [st |-> "live", fin |-> TRUE, reach |-> FALSE, done |-> FALSE, owed |-> TRUE]
                         [] obj[o].st = "live" /\ obj[o].reach /\ obj[o].done -> Rescued(obj[o])
                         [] OTHER -> obj[o]
    <3>1. obj' = [o \in Objs |-> g(o)]
      BY <2>3 DEF AfterGC
    <3> HIDE DEF g
    <3>2. \A o \in Objs : g(o) \in Record
      BY <3>1, <2>5 DEF Collected
    <3> QED
      BY <3>1, <3>2
  <2>7. LifeType'
    BY <1>1, <1>3, <2>6 DEF LifeInv, LifeType
  <2>8. ObjectsOK'
    BY <1>1, <1>4, <2>1, <2>4, <2>5 DEF ObjectsOK, Collected
  <2> QED
    BY <1>5, <2>7, <2>8 DEF LifeInv
<1> QED
  BY <1>6, <1>7

LEMMA FinalizeRoundStep ==
  ASSUME LifeInv, FinalizeRound
  PROVE  LifeInv'
<1> DEFINE due == {o \in LiveObjs : Due(o)}
           called(o) == [obj[o] EXCEPT !.done = TRUE, !.owed = FALSE]
<1>1. /\ pc[1] = "finalize" /\ "thread" \in blocks /\ blocks' = blocks /\ prevent' = prevent
      /\ obj' = [o \in Objs |-> IF o \in due THEN called(o) ELSE obj[o]]
      /\ pc' = <<"free", 1>> \/ pc' = pc
  BY DEF FinalizeRound
<1>2. ASSUME NEW o \in Objs
      PROVE  obj'[o] \in Record /\ ~obj'[o].owed
  <2>1. obj[o] \in Record
    BY RecordType DEF LifeInv
  <2>2. called(o) \in Record /\ called(o).owed = FALSE
    BY <2>1 DEF Record
  <2>3. obj[o].owed => o \in due
    BY <1>1 DEF LifeInv, ObjectsOK, LiveObjs, Due
  <2>4. obj'[o] = IF o \in due THEN called(o) ELSE obj[o]
    BY <1>1
  <2> HIDE DEF due, called
  <2> QED
    BY <2>1, <2>2, <2>3, <2>4
<1>3. obj' \in [Objs -> Record]
  <2>1. obj' = [o \in Objs |-> obj'[o]]
    BY <1>1
  <2> QED
    BY <1>2, <2>1
<1>4. pc' \in Pcs /\ (pc'[1] = "finalize" \/ (pc'[1] = "free" /\ pc'[2] = 1))
  <2>1. pc \in Pcs /\ <<"free", 1>> \in Pcs
    BY PcIn DEF LifeInv, LifeType
  <2>2. pc' = pc \/ pc' = <<"free", 1>>
    BY <1>1
  <2>3. CASE pc' = pc
    BY <1>1, <2>1, <2>3
  <2>4. CASE pc' = <<"free", 1>>
    BY <2>1, <2>4
  <2> QED
    BY <2>2, <2>3, <2>4
<1>5. blocks' = blocks /\ prevent' = prevent /\ "thread" \in blocks
  BY <1>1
<1>6. LifeType'
  BY <1>3, <1>4, <1>5 DEF LifeInv, LifeType
<1>7. PartsOK' /\ FreesOK'
  BY <1>4 DEF PartsOK, FreesOK, FreedTo
<1>8. \A o \in Objs : ~obj'[o].owed
  BY <1>2
<1>9. ObjectsOK'
  BY <1>4, <1>5, <1>8 DEF ObjectsOK
<1> QED
  BY <1>6, <1>7, <1>9 DEF LifeInv

LEMMA FinalizeSkippedStep ==
  ASSUME LifeInv, FinalizeSkipped
  PROVE  LifeInv'
<1>1. /\ pc[1] = "finalize" /\ "thread" \notin blocks /\ pc' = <<"free", 1>>
      /\ blocks' = blocks /\ obj' = obj /\ prevent' = prevent
  BY DEF FinalizeSkipped
<1>2. \A o \in Objs : ~obj[o].owed
  BY <1>1 DEF LifeInv, ObjectsOK
<1>3. LifeType'
  BY <1>1, PcIn DEF LifeInv, LifeType
<1>4. PartsOK' /\ FreesOK'
  BY <1>1 DEF PartsOK, FreesOK, FreedTo
<1>5. ObjectsOK'
  BY <1>1, <1>2 DEF ObjectsOK
<1> QED
  BY <1>3, <1>4, <1>5 DEF LifeInv

LEMMA FreeStep ==
  ASSUME LifeInv, Free
  PROVE  LifeInv'
<1> DEFINE freed(o) == IF obj[o].st = "live" THEN [obj[o] EXCEPT !.st = "freed"] ELSE obj[o]
<1>0. PICK k : k = pc[2]
  OBVIOUS
<1>1. pc[1] = "free" /\ k \in 1..5 /\ blocks' = blocks \ FreeOrder[k] /\ prevent' = prevent
  BY <1>0, PcCases DEF Free, LifeInv
<1>2. pc' = (IF k = 5 THEN <<"done", 0>> ELSE <<"free", k + 1>>)
  BY <1>0, OrderIs DEF Free
<1>3. obj' = IF k = 1 THEN [o \in Objs |-> freed(o)] ELSE obj
  BY <1>0 DEF Free
<1>4. ASSUME NEW o \in Objs
      PROVE  obj'[o] \in Record /\ ~obj'[o].owed /\ obj'[o].st # "live"
  <2>1. obj[o] \in Record /\ ~obj[o].owed /\ (k >= 2 => obj[o].st # "live")
    BY <1>0, <1>1, RecordType DEF LifeInv, ObjectsOK
  <2>2. freed(o) \in Record /\ freed(o).owed = obj[o].owed /\ freed(o).st # "live"
    BY <2>1 DEF Record
  <2>3. obj'[o] = (IF k = 1 THEN freed(o) ELSE obj[o]) /\ (k = 1 \/ k >= 2)
    BY <1>1, <1>3
  <2> HIDE DEF freed
  <2> QED
    BY <2>1, <2>2, <2>3
<1>5. obj' \in [Objs -> Record]
  <2>1. obj \in [Objs -> Record]
    BY DEF LifeInv, LifeType
  <2>2. obj' = [o \in Objs |-> obj'[o]]
    BY <1>3, <2>1
  <2> QED
    BY <1>4, <2>2
<1>6. pc' \in Pcs /\ (pc'[1] = "free" => pc'[2] = k + 1) /\ pc'[1] \in {"free", "done"} /\ (pc'[1] = "done" => k = 5)
  <2>1. k # 5 => k + 1 \in 1..5
    BY <1>1
  <2> QED
    BY <2>1, <1>2, PcIn
<1>7. LifeType'
  BY <1>1, <1>5, <1>6 DEF LifeInv, LifeType
<1>8. ObjectsOK'
  BY <1>4, <1>6 DEF ObjectsOK
<1>9. FreedTo(blocks, k) /\ blocks \in SUBSET Block
  BY <1>0, <1>1 DEF LifeInv, FreesOK, LifeType
<1>10. k = 1 \/ k = 2 \/ k = 3 \/ k = 4 \/ k = 5
  BY <1>1
<1>11. FreedTo(blocks', k + 1)
  BY <1>1, <1>9, <1>10, OrderIs DEF FreedTo
<1>12. k = 5 => blocks' = {}
  <2>1. ASSUME k = 5, NEW b \in blocks'
        PROVE  FALSE
    <3>1. b \in Block /\ b \notin {"heap"} /\ b \in blocks
      BY <1>1, <1>9, <2>1, OrderIs
    <3>2. b \notin {"thread", "stacks", "heap_object"} /\ b \notin {"strtable", "strings"} /\ b # "weak" /\ b # "microtasks"
      BY <1>9, <2>1, <3>1 DEF FreedTo
    <3> QED
      BY <3>1, <3>2 DEF Block
  <2> QED
    BY <2>1
<1>13. PartsOK' /\ FreesOK'
  <2>1. pc'[1] = "free" => FreedTo(blocks', pc'[2])
    BY <1>6, <1>11
  <2> QED
    BY <2>1, <1>6, <1>12 DEF PartsOK, FreesOK
<1> QED
  BY <1>7, <1>8, <1>13 DEF LifeInv

LEMMA LifeStep == LifeInv /\ [Next]_vars => LifeInv'
<1> SUFFICES ASSUME LifeInv, [Next]_vars PROVE LifeInv'
  OBVIOUS
<1>1. CASE UNCHANGED vars
  BY <1>1 DEF vars, LifeInv, LifeType, PartsOK, FreesOK, FreedTo, ObjectsOK
<1>2. CASE Next
  BY <1>2, CreateOkStep, CreateFailsStep, DestroyStep, DropStep, NewObjectStep, UseTableStep,
     MarkAndSweepStep, FinalizeRoundStep, FinalizeSkippedStep, FreeStep, Zenon DEF Next
<1> QED
  BY <1>1, <1>2

-----------------------------------------------------------------------------
(* The theorems.                                                           *)

\* The inductive invariant.
THEOREM LifeAlways == Spec => []LifeInv
BY LifeInit, LifeStep, PTL DEF Spec

\* Whichever allocation of duk_heap_alloc fails, and after duk_heap_free, no block and no
\* object is left.
THEOREM AllGivenBack == Spec => []NothingLeaks
<1>1. LifeInv => NothingLeaks
  BY DEF LifeInv, PartsOK, FreesOK, ObjectsOK, NothingLeaks, LiveObjs
<1> QED
  BY <1>1, LifeAlways, PTL

\* No object is freed while a finalizer call is due to it: neither by the collections of
\* duk_heap_free nor by its freeing of the lists, although finalizers rescue objects and
\* create new ones.
THEOREM FinalizersAlwaysHonored == Spec => []FinalizersHonored
<1>1. LifeInv => FinalizersHonored
  BY DEF LifeInv, ObjectsOK, FinalizersHonored
<1> QED
  BY <1>1, LifeAlways, PTL

\* Both together, as the run liveness checks them on three objects.
THEOREM HeapAlwaysGivenBack == Spec => []HeapGivenBack
<1>1. NothingLeaks /\ FinalizersHonored => HeapGivenBack
  BY DEF HeapGivenBack
<1> QED
  BY <1>1, AllGivenBack, FinalizersAlwaysHonored, PTL

-----------------------------------------------------------------------------
(* The rounds of duk__free_run_finalizers.                                 *)

RoundType == round \in [first : BOOLEAN, limit : Nat] /\ late \in Nat

\* NextLimit is a natural number, and the limit of a later round is smaller as long as
\* there is one.
LEMMA NextLimitType ==
  ASSUME NEW l \in Nat, NEW first \in BOOLEAN, NEW all \in Nat
  PROVE  NextLimit(l, first, all) \in Nat
BY DEF NextLimit

LEMMA NextLimitSmaller ==
  ASSUME NEW l \in Nat, NEW all \in Nat, NextLimit(l, FALSE, all) # 0
  PROVE  NextLimit(l, FALSE, all) < l
BY DEF NextLimit

\* The objects a round counts are finitely many.
LEMMA CountsType ==
  ASSUME IsFiniteSet(Objs)
  PROVE  /\ Cardinality(LiveObjs) \in Nat
         /\ Cardinality({o \in LiveObjs : Due(o)}) \in Nat
<1>1. LiveObjs \subseteq Objs /\ {o \in LiveObjs : Due(o)} \subseteq Objs
  BY DEF LiveObjs
<1> QED
  BY <1>1, FS_Subset, FS_CardinalityType

LEMMA RoundStep ==
  ASSUME IsFiniteSet(Objs), MaxSpawn \in Nat, RoundType, FinalizeRound
  PROVE  /\ RoundType'
         /\ ~round.first /\ pc' = pc => round'.limit < round.limit
<1> DEFINE all == Cardinality(LiveObjs) + late
           count == Cardinality({o \in LiveObjs : Due(o)}) + late
           limit == NextLimit(round.limit, round.first, all)
<1>1. /\ pc[1] = "finalize"
      /\ late' \in IF count = 0 THEN {0} ELSE 0..count * MaxSpawn
      /\ round' = [first |-> FALSE, limit |-> limit]
      /\ pc' = IF count = 0 \/ count >= limit THEN <<"free", 1>> ELSE pc
  BY DEF FinalizeRound
<1>2. all \in Nat /\ count \in Nat
  BY CountsType DEF RoundType
<1>3. round.limit \in Nat /\ round.first \in BOOLEAN
  BY DEF RoundType
<1>4. limit \in Nat
  BY <1>2, <1>3, NextLimitType
<1>5. ~round.first /\ limit # 0 => limit < round.limit
  <2> SUFFICES ASSUME ~round.first, limit # 0 PROVE limit < round.limit
    OBVIOUS
  <2>1. round.first = FALSE
    BY <1>3
  <2> QED
    BY <1>2, <1>3, <2>1, NextLimitSmaller
<1> HIDE DEF all, count, limit
<1>6. late' \in Nat
  BY <1>1, <1>2
<1>7. round' \in [first : BOOLEAN, limit : Nat]
  BY <1>1, <1>4
<1>8. ASSUME pc' = pc PROVE limit # 0
  <2>1. ~(count = 0 \/ count >= limit)
    <3>1. pc # <<"free", 1>>
      BY <1>1
    <3> QED
      BY <1>1, <1>8, <3>1
  <2> QED
    BY <1>2, <1>4, <2>1
<1> QED
  BY <1>1, <1>5, <1>6, <1>7, <1>8 DEF RoundType

\* A further round of forced finalizers has a smaller limit than the one before it, whatever
\* number of objects with finalizers the finalizers of that round created: the limit is the
\* measure by which duk__free_run_finalizers ends.
THEOREM RoundsShrink ==
  ASSUME IsFiniteSet(Objs), MaxSpawn \in Nat
  PROVE  Spec => [][FinalizeRound /\ ~round.first /\ pc' = pc => round'.limit < round.limit]_vars
<1>1. Init => RoundType
  BY DEF Init, RoundType
<1>2. RoundType /\ [Next]_vars => RoundType'
  <2> SUFFICES ASSUME RoundType, [Next]_vars PROVE RoundType'
    OBVIOUS
  <2>1. CASE FinalizeRound
    BY <2>1, RoundStep
  <2>2. CASE ~FinalizeRound
    <3>1. round' = round /\ late' \in {late, 0}
      BY <2>2 DEF Next, vars, CreateOk, CreateFails, Destroy, Drop, NewObject, UseTable,
                  MarkAndSweep, FinalizeSkipped, Free
    <3> QED
      BY <3>1 DEF RoundType
  <2> QED
    BY <2>1, <2>2
<1>3. RoundType /\ [Next]_vars
        => [FinalizeRound /\ ~round.first /\ pc' = pc => round'.limit < round.limit]_vars
  BY RoundStep
<1> QED
  BY <1>1, <1>2, <1>3, PTL DEF Spec
=============================================================================

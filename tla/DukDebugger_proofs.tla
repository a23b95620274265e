------------------------- MODULE DukDebugger_proofs -------------------------
(***************************************************************************)
(* Proofs about DukDebugger, for any program, any requests and any depth   *)
(* of the callstack: at whatever message or handshake the transport        *)
(* breaks, only a failed re-attach leaves a target paused without a        *)
(* transport, a waiting client knows the state of the target and has its   *)
(* requests answered, and no breakpoint or step is passed unnoticed.       *)
(***************************************************************************)
EXTENDS DukDebugger, FiniteSetTheorems, SequenceTheorems, TLAPS

-----------------------------------------------------------------------------
(* The inductive invariant.                                                *)

PauseFlags == {"LINE_CHANGE", "FUNC_ENTRY", "FUNC_EXIT", "UNCAUGHT"}
Frames == [fn : Fns, line : Nat, prev : Nat, bpa : BOOLEAN, native : BOOLEAN]
States == [conn : BOOLEAN, cb : BOOLEAN, detaching : BOOLEAN, paused : BOOLEAN, dirty : BOOLEAN,
           flags : SUBSET PauseFlags, act : Nat, start : Nat, processing : BOOLEAN,
           bps : Seq(Nat), active : SUBSET Nat, prevent : Int, stack : Seq(Frames),
           imm : BOOLEAN, fr : BOOLEAN]
Places == [at : {"idle", "exec", "op", "unwind", "loop", "read", "return"},
           ret : {"none", "interrupt", "debugger", "throw", "cooperate"}, got : BOOLEAN]
Messages == [cmd : Cmds, ok : BOOLEAN, arg : Nat]
Clients == [owed : Int, status : {"none", "unsaid", "paused", "running"}]

\* The heap between two functions of the debugger.  Pausing needs a transport, also the
\* pause that a flag asks for later, but for a stranded target: it has none, no detach
\* pending, and a detached callback; the outermost activation was called from C.
Settled(x) ==
  /\ x \in States
  /\ x.paused => x.flags = {}
  /\ ~x.conn => (x.paused <=> (x.cb /\ ~x.detaching))
  /\ x.prevent = (IF x.paused THEN 1 ELSE 0)
  /\ x.conn => ~x.detaching
  /\ x.flags # {} \/ x.active # {} => x.conn
  /\ x.act <= Len(x.stack)
  /\ x.stack # <<>> => x.stack[1].native

\* The client knows the state of the target unless that is still to be sent, or is the
\* pause it found when it attached to a stranded target; it waits
\* only for a target whose state it knows, and for what it has not been answered.
Knows(x, c) ==
  x.conn /\ ~x.dirty =>
    \/ c.status = (IF x.paused THEN "paused" ELSE "running")
    \/ c.status = "unsaid" /\ x.paused
Sent(x, p) == p.at = "read" /\ x.conn => ~x.dirty
Pending(q) == {i \in DOMAIN q : q[i].cmd # "NOTIFY"}
Owes(x, q, c) == x.conn => c.owed = Cardinality(Pending(q))

\* Where there are activations, and that the message loop is not entered twice.
PlaceOK(x, p) ==
  /\ p.at \in {"exec", "op", "unwind"} => x.stack # <<>>
  /\ p.at = "idle" => x.stack = <<>>
  /\ p.at \in {"loop", "read", "return"} =>
       p.ret # "none" /\ (p.ret = "cooperate" <=> x.stack = <<>>)
  /\ p.at \notin {"loop", "read"} => ~x.processing

\* The top activation has its breakpoints marked; the interrupt must come before every
\* instruction of it; what asks for a pause at its line was noticed.
Curr(x) == x.stack[Len(x.stack)]
InSync(x) ==
  /\ x.active = Matching(x, Curr(x).fn)
  /\ Curr(x).bpa <=> x.active # {}
Stepping(x) == "LINE_CHANGE" \in x.flags /\ x.act = Len(x.stack)
Watched(x) == Curr(x).bpa \/ Stepping(x)
Noticed(x) ==
  Curr(x).line \in x.active \/ (Stepping(x) /\ Curr(x).line # x.start) => Curr(x).prev = Curr(x).line

\* An executor that is to restart does so before its next instruction.
ExecOK(x) == (x.fr /\ x.imm) \/ (InSync(x) /\ (Watched(x) => x.imm))
WatchOK(x, p) ==
  x.conn /\ ~x.paused =>
    /\ p.at = "exec" => ExecOK(x)
    /\ p.at = "op" => InSync(x) /\ Noticed(x) /\ (Watched(x) => x.imm)
    /\ p.at \in {"loop", "read", "return"} /\ p.ret = "interrupt" /\ ~p.got => InSync(x) /\ Noticed(x)

Good(x, p, q, c) ==
  /\ Settled(x) /\ p \in Places /\ q \in Seq(Messages) /\ c \in Clients
  /\ Knows(x, c) /\ Sent(x, p) /\ Owes(x, q, c) /\ PlaceOK(x, p) /\ WatchOK(x, p)
DebuggerInv == Good(m, pc, inq, peer)

-----------------------------------------------------------------------------
(* What the functions that pause, resume, detach and write do.             *)

\* x and y agree on what the breakpoints and steps depend on.
SameView(x, y) ==
  /\ y.stack = x.stack /\ y.bps = x.bps /\ y.active = x.active
  /\ y.flags = x.flags /\ y.act = x.act /\ y.start = x.start

\* y follows x without news for the client that y would not send.
Quiet(x, y) ==
  /\ y.conn => x.conn
  /\ y.conn /\ ~y.dirty => ~x.dirty /\ y.paused = x.paused

\* y is x but for the debugger's connection and pause.
Kept(x, y) == y.stack = x.stack /\ y.processing = x.processing

LEMMA QuietKnows ==
  ASSUME NEW x, NEW y, NEW c, NEW q, Quiet(x, y)
  PROVE  /\ Knows(x, c) => Knows(y, c)
         /\ Owes(x, q, c) => Owes(y, q, c)
BY DEF Quiet, Knows, Owes

LEMMA QuietChain ==
  ASSUME NEW x, NEW y, NEW z, Quiet(x, y), Quiet(y, z) PROVE Quiet(x, z)
BY DEF Quiet

LEMMA Untouched ==
  ASSUME NEW x \in States
  PROVE  Quiet(x, x) /\ Kept(x, x) /\ SameView(x, x)
BY DEF Quiet, Kept, SameView

LEMMA ViewKeeps ==
  ASSUME NEW x, NEW y, SameView(x, y)
  PROVE  /\ InSync(x) => InSync(y)
         /\ Noticed(x) => Noticed(y)
         /\ Watched(y) => Watched(x)
BY DEF SameView, InSync, Noticed, Watched, Curr, Stepping, Matching

LEMMA ClearPauseStateOK ==
  ASSUME NEW x \in States
  PROVE  LET y == ClearPauseState(x)
         IN  /\ y \in States /\ y.flags = {} /\ y.act = 0 /\ y.start = 0
             /\ y.conn = x.conn /\ y.detaching = x.detaching /\ y.paused = x.paused
             /\ y.cb = x.cb /\ y.dirty = x.dirty /\ y.prevent = x.prevent
             /\ y.stack = x.stack /\ y.processing = x.processing /\ y.bps = x.bps
             /\ y.active = x.active /\ y.imm = x.imm /\ y.fr = x.fr
BY DEF ClearPauseState, States

LEMMA SetPausedOK ==
  ASSUME NEW x, Settled(x), x.conn
  PROVE  LET y == SetPaused(x)
         IN  /\ Settled(y) /\ y.conn /\ y.paused /\ Quiet(x, y) /\ Kept(x, y)
             /\ y.cb = x.cb /\ y.bps = x.bps /\ y.active = x.active /\ y.imm = x.imm /\ y.fr = x.fr
<1> DEFINE y == ClearPauseState(x)
           v == y.prevent + 1
           z == [y EXCEPT !.paused = TRUE, !.dirty = TRUE, !.prevent = v]
<1>0. x \in States  BY DEF Settled
<1>1. /\ y \in States /\ y.flags = {} /\ y.act = 0 /\ y.conn = x.conn /\ y.detaching = x.detaching
      /\ y.cb = x.cb /\ y.paused = x.paused /\ y.prevent = x.prevent /\ y.stack = x.stack
      /\ y.processing = x.processing /\ y.bps = x.bps /\ y.active = x.active
      /\ y.imm = x.imm /\ y.fr = x.fr
  BY <1>0, ClearPauseStateOK
<1>2. CASE x.paused
  <2>1. SetPaused(x) = x  BY <1>2 DEF SetPaused
  <2> QED  BY <1>0, <1>2, <2>1, Untouched DEF Kept, SameView
<1>3. CASE ~x.paused
  <2>1. SetPaused(x) = z  BY <1>3 DEF SetPaused
  <2> HIDE DEF y
  <2>a. v \in Int /\ v = y.prevent + 1  BY <1>1 DEF States
  <2> HIDE DEF v
  <2>2. /\ z \in States /\ z.paused = TRUE /\ z.dirty = TRUE /\ z.prevent = v
        /\ z.flags = y.flags /\ z.act = y.act /\ z.conn = y.conn /\ z.detaching = y.detaching
        /\ z.cb = y.cb /\ z.stack = y.stack /\ z.processing = y.processing /\ z.bps = y.bps
        /\ z.active = y.active /\ z.imm = y.imm /\ z.fr = y.fr
    BY <1>1, <2>a DEF States
  <2> HIDE DEF z
  <2>3. x.prevent = 0  BY <1>3 DEF Settled
  <2>4. Settled(z)  BY <1>0, <1>1, <2>2, <2>3, <2>a DEF Settled, States
  <2>5. Quiet(x, z) /\ Kept(x, z)  BY <1>1, <2>2 DEF Quiet, Kept
  <2> QED  BY <1>1, <2>1, <2>2, <2>4, <2>5
<1> QED  BY <1>2, <1>3

LEMMA ClearPausedOK ==
  ASSUME NEW x \in States, x.prevent = (IF x.paused THEN 1 ELSE 0)
  PROVE  LET y == ClearPaused(x)
         IN  /\ y \in States /\ y.paused = FALSE /\ y.prevent = 0
             /\ x.paused => y.dirty = TRUE /\ y.flags = {} /\ y.act = 0
             /\ ~x.paused => y = x
             /\ y.conn = x.conn /\ y.detaching = x.detaching /\ y.cb = x.cb
             /\ y.stack = x.stack /\ y.processing = x.processing /\ y.bps = x.bps
             /\ y.active = x.active /\ y.imm = x.imm /\ y.fr = x.fr
<1> DEFINE y == ClearPauseState(x)
           v == y.prevent - 1
           z == [y EXCEPT !.paused = FALSE, !.dirty = TRUE, !.prevent = v]
<1>1. /\ y \in States /\ y.flags = {} /\ y.act = 0 /\ y.conn = x.conn /\ y.detaching = x.detaching
      /\ y.cb = x.cb /\ y.prevent = x.prevent /\ y.stack = x.stack
      /\ y.processing = x.processing /\ y.bps = x.bps /\ y.active = x.active
      /\ y.imm = x.imm /\ y.fr = x.fr
  BY ClearPauseStateOK
<1>2. CASE ~x.paused
  <2>1. ClearPaused(x) = x  BY <1>2 DEF ClearPaused
  <2>2. x.paused = FALSE  BY <1>2 DEF States
  <2> QED  BY <1>2, <2>1, <2>2
<1>3. CASE x.paused
  <2>1. ClearPaused(x) = z  BY <1>3 DEF ClearPaused
  <2> HIDE DEF y
  <2>a. v \in Int /\ v = 0  BY <1>1, <1>3 DEF States
  <2> HIDE DEF v
  <2>2. /\ z \in States /\ z.paused = FALSE /\ z.dirty = TRUE /\ z.prevent = v
        /\ z.flags = y.flags /\ z.act = y.act /\ z.conn = y.conn /\ z.detaching = y.detaching
        /\ z.cb = y.cb /\ z.stack = y.stack /\ z.processing = y.processing /\ z.bps = y.bps
        /\ z.active = y.active /\ z.imm = y.imm /\ z.fr = y.fr
    BY <1>1, <2>a DEF States
  <2> HIDE DEF z
  <2> QED  BY <1>1, <1>3, <2>1, <2>2, <2>a
<1> QED  BY <1>2, <1>3

\* What a detach leaves: no transport, no pause, the callback still to be called.
Gone(x, y) ==
  /\ Settled(y) /\ y.conn = FALSE /\ y.detaching = TRUE /\ Kept(x, y)
  /\ y.bps = x.bps /\ y.cb = x.cb /\ y.fr = FALSE /\ y.imm = x.imm

LEMMA Detach1OK ==
  ASSUME NEW x \in States, x.prevent = (IF x.paused THEN 1 ELSE 0), ~x.detaching,
         x.stack # <<>> => x.stack[1].native
  PROVE  Gone(x, Detach1(x))
<1> DEFINE w == ClearPauseState(x)
           y == ClearPaused(w)
           z == [y EXCEPT !.detaching = TRUE, !.conn = FALSE, !.fr = FALSE,
                          !.dirty = FALSE, !.active = {}]
<1>1. /\ w \in States /\ w.paused = x.paused /\ w.prevent = x.prevent /\ w.flags = {} /\ w.act = 0
      /\ w.cb = x.cb /\ w.stack = x.stack /\ w.processing = x.processing /\ w.bps = x.bps
      /\ w.imm = x.imm
  BY ClearPauseStateOK
<1>2. Detach1(x) = z  BY DEF Detach1
<1> HIDE DEF w
<1>3. w.prevent = (IF w.paused THEN 1 ELSE 0)  BY <1>1
<1>4. /\ y \in States /\ y.paused = FALSE /\ y.prevent = 0
      /\ w.paused => y.dirty = TRUE /\ y.flags = {} /\ y.act = 0
      /\ ~w.paused => y = w
      /\ y.conn = w.conn /\ y.detaching = w.detaching /\ y.cb = w.cb
      /\ y.stack = w.stack /\ y.processing = w.processing /\ y.bps = w.bps
      /\ y.active = w.active /\ y.imm = w.imm /\ y.fr = w.fr
  BY <1>1, <1>3, ClearPausedOK
<1>5. y.flags = {} /\ y.act = 0  BY <1>1, <1>4
<1> HIDE DEF y
<1>6. /\ z \in States /\ z.detaching = TRUE /\ z.conn = FALSE /\ z.fr = FALSE /\ z.active = {}
      /\ z.paused = y.paused /\ z.prevent = y.prevent /\ z.flags = y.flags /\ z.act = y.act
      /\ z.cb = y.cb /\ z.stack = y.stack /\ z.processing = y.processing /\ z.bps = y.bps
      /\ z.imm = y.imm
  BY <1>4 DEF States
<1> HIDE DEF z
<1>7. Settled(z)
  <2>1. 0 <= Len(z.stack)  BY <1>6 DEF States
  <2> QED  BY <1>1, <1>4, <1>5, <1>6, <2>1 DEF Settled
<1> QED  BY <1>1, <1>2, <1>4, <1>6, <1>7 DEF Gone, Kept

LEMMA DetachOK ==
  ASSUME NEW x, Settled(x), x.conn \/ ~x.detaching PROVE Gone(x, Detach1(x))
BY Detach1OK DEF Settled

LEMMA BrokenOK ==
  ASSUME NEW x, Settled(x), x.conn \/ ~x.detaching PROVE Gone(x, Broken(x))
<1> DEFINE y == [x EXCEPT !.conn = FALSE]
<1>0. x \in States  BY DEF Settled
<1>1. /\ y \in States /\ y.detaching = x.detaching /\ y.paused = x.paused /\ y.prevent = x.prevent
      /\ y.cb = x.cb /\ y.stack = x.stack /\ y.processing = x.processing /\ y.bps = x.bps /\ y.imm = x.imm
  BY <1>0 DEF States
<1>2. Broken(x) = Detach1(y)  BY DEF Broken
<1> HIDE DEF y
<1>3. Gone(y, Detach1(y))  BY <1>1, Detach1OK DEF Settled
<1> QED  BY <1>1, <1>2, <1>3 DEF Gone, Kept

LEMMA WriteOK ==
  ASSUME NEW x, Settled(x), NEW fail
  PROVE  Write(x, fail) = x \/ (x.conn /\ Gone(x, Write(x, fail)))
BY BrokenOK DEF Write

LEMMA GoneOK ==
  ASSUME NEW x, NEW y, Gone(x, y)
  PROVE  Settled(y) /\ ~y.conn /\ Kept(x, y) /\ Quiet(x, y) /\ y.stack = x.stack
         /\ y.processing = x.processing
BY DEF Gone, Kept, Quiet

LEMMA WriteSettled ==
  ASSUME NEW x, Settled(x), NEW fail
  PROVE  LET y == Write(x, fail)
         IN  Settled(y) /\ Kept(x, y) /\ Quiet(x, y) /\ (y.conn => y = x)
<1>1. x \in States  BY DEF Settled
<1> QED  BY <1>1, WriteOK, GoneOK, Untouched

\* A dirty state is sent, and then the client knows it.
LEMMA ResendOK ==
  ASSUME NEW x, Settled(x), NEW fail, NEW c \in Clients, Knows(x, c)
  PROVE  LET y == Resend(x, fail)
             d == Told(c, x, y)
         IN  /\ Settled(y) /\ Kept(x, y) /\ (y.conn => x.conn)
             /\ y.conn => ~y.dirty /\ y.paused = x.paused /\ SameView(x, y)
             /\ d \in Clients /\ d.owed = c.owed /\ Knows(y, d)
<1>0. x \in States /\ c = [owed |-> c.owed, status |-> c.status]  BY DEF Settled, Clients
<1>1. CASE ~(x.conn /\ x.dirty)
  <2>1. Resend(x, fail) = x /\ Told(c, x, x) = c  BY <1>1 DEF Resend, Told
  <2> QED  BY <1>0, <1>1, <2>1, Untouched
<1>2. CASE x.conn /\ x.dirty
  <2> DEFINE w == Write(x, fail)
             y == [w EXCEPT !.dirty = FALSE]
             s == IF x.paused THEN "paused" ELSE "running"
  <2>1. Settled(w) /\ Kept(x, w) /\ Quiet(x, w) /\ (w.conn => w = x)  BY WriteSettled
  <2>2. Resend(x, fail) = y  BY <1>2 DEF Resend
  <2>3. Told(c, x, y) = IF y.conn THEN [c EXCEPT !.status = s] ELSE c  BY <1>2 DEF Told
  <2>4. w \in States  BY <2>1 DEF Settled
  <2> HIDE DEF w
  <2>5. /\ y \in States /\ y.dirty = FALSE /\ y.conn = w.conn /\ y.paused = w.paused
        /\ y.detaching = w.detaching /\ y.flags = w.flags /\ y.act = w.act /\ y.start = w.start
        /\ y.prevent = w.prevent /\ y.stack = w.stack /\ y.processing = w.processing
        /\ y.bps = w.bps /\ y.active = w.active /\ y.cb = w.cb
    BY <2>4 DEF States
  <2> HIDE DEF y
  <2>6. Settled(y)  BY <2>1, <2>5 DEF Settled
  <2>7. Kept(x, y) /\ (y.conn => x.conn)  BY <2>1, <2>5 DEF Kept, Quiet
  <2>8. y.conn => ~y.dirty /\ y.paused = x.paused /\ SameView(x, y)  BY <2>1, <2>5 DEF SameView
  <2>9. s \in {"paused", "running"}  OBVIOUS
  <2>10. y.conn => s = (IF y.paused THEN "paused" ELSE "running")  BY <2>8
  <2> HIDE DEF s
  <2>11. [c EXCEPT !.status = s] \in Clients /\ [c EXCEPT !.status = s].owed = c.owed
         /\ [c EXCEPT !.status = s].status = s
    BY <2>9 DEF Clients
  <2>12. Told(c, x, y) \in Clients /\ Told(c, x, y).owed = c.owed  BY <2>3, <2>11
  <2>13. Knows(y, Told(c, x, y))  BY <2>3, <2>10, <2>11 DEF Knows
  <2> QED  BY <2>2, <2>6, <2>7, <2>8, <2>12, <2>13
<1> QED  BY <1>1, <1>2

LEMMA LineOK ==
  ASSUME NEW x \in States PROVE CurrLine(x) \in Nat
<1>1. CASE x.stack = <<>>  BY <1>1 DEF CurrLine
<1>2. CASE x.stack # <<>>
  <2>1. x.stack \in Seq(Frames)  BY DEF States
  <2>2. Len(x.stack) \in 1..Len(x.stack)  BY <1>2, <2>1
  <2>3. x.stack[Len(x.stack)] \in Frames  BY <2>1, <2>2
  <2>4. x.stack[Len(x.stack)].line \in Nat  BY <2>3 DEF Frames
  <2> QED  BY <1>2, <2>4 DEF CurrLine, Last
<1> QED  BY <1>1, <1>2

LEMMA SetPauseStateOK ==
  ASSUME NEW x, Settled(x), x.conn, ~x.paused, NEW flags \in SUBSET PauseFlags
  PROVE  LET y == SetPauseState(x, flags)
         IN  Settled(y) /\ Kept(x, y) /\ Quiet(x, y) /\ y.conn = x.conn
<1> DEFINE f == IF CurrLine(x) = 0 THEN flags \ {"LINE_CHANGE"} ELSE flags
           d == Depth(x)
           l == CurrLine(x)
           y == [x EXCEPT !.flags = f, !.act = d, !.start = l, !.dirty = TRUE]
<1>0. x \in States  BY DEF Settled
<1>1. f \in SUBSET PauseFlags  OBVIOUS
<1>2. d \in Nat /\ d = Len(x.stack)  BY <1>0 DEF Depth, States
<1>3. l \in Nat  BY <1>0, LineOK
<1>4. SetPauseState(x, flags) = y  BY DEF SetPauseState
<1> HIDE DEF f, d, l
<1>5. /\ y \in States /\ y.dirty = TRUE /\ y.conn = x.conn /\ y.paused = x.paused
      /\ y.detaching = x.detaching /\ y.cb = x.cb /\ y.flags = f /\ y.act = d
      /\ y.prevent = x.prevent /\ y.active = x.active /\ y.stack = x.stack /\ y.processing = x.processing
  BY <1>0, <1>1, <1>2, <1>3 DEF States
<1> HIDE DEF y
<1>6. Settled(y)  BY <1>2, <1>5 DEF Settled
<1>7. Kept(x, y) /\ Quiet(x, y)  BY <1>5 DEF Kept, Quiet
<1> QED  BY <1>4, <1>5, <1>6, <1>7

\* Attaching starts paused, with the state to be sent.
LEMMA AttachState ==
  ASSUME NEW x \in States, x.prevent = (IF x.paused THEN 1 ELSE 0)
  PROVE  \E y \in States :
           /\ \A fail : Attach(x, fail) = Write(y, fail)
           /\ y.conn = TRUE /\ y.paused = TRUE /\ (y.dirty \/ x.paused) /\ y.flags = {} /\ y.act = 0
           /\ y.prevent = 1 /\ y.detaching = x.detaching /\ y.stack = x.stack /\ y.bps = x.bps
           /\ y.processing = FALSE /\ y.active = x.active /\ y.cb = TRUE
<1> DEFINE w == ClearPauseState(x)
           y == [w EXCEPT !.conn = TRUE, !.cb = TRUE, !.processing = FALSE,
                          !.dirty = FALSE, !.fr = FALSE]
           v == ClearPauseState(y)
           n == v.prevent + 1
           z == [v EXCEPT !.paused = TRUE, !.dirty = TRUE, !.prevent = n]
<1>1. /\ w \in States /\ w.paused = x.paused /\ w.prevent = x.prevent /\ w.detaching = x.detaching /\ w.cb = x.cb
      /\ w.stack = x.stack /\ w.bps = x.bps /\ w.flags = {} /\ w.act = 0 /\ w.active = x.active
  BY ClearPauseStateOK
<1>2. \A fail : Attach(x, fail) = Write(SetPaused(y), fail)  BY DEF Attach
<1> HIDE DEF w
<1>3. /\ y \in States /\ y.conn = TRUE /\ y.processing = FALSE /\ y.paused = w.paused
      /\ y.prevent = w.prevent /\ y.detaching = w.detaching /\ y.stack = w.stack /\ y.bps = w.bps
      /\ y.flags = w.flags /\ y.act = w.act /\ y.active = w.active /\ y.cb = TRUE
  BY <1>1 DEF States
<1>4. CASE x.paused
  <2>1. SetPaused(y) = y
    <3>1. y.paused  BY <1>1, <1>3, <1>4
    <3> HIDE DEF y
    <3> QED  BY <3>1 DEF SetPaused
  <2>2. \A fail : Attach(x, fail) = Write(y, fail)  BY <1>2, <2>1
  <2> HIDE DEF y
  <2>3. y.paused = TRUE /\ y.prevent = 1  BY <1>1, <1>3, <1>4 DEF States
  <2> QED  BY <1>1, <1>3, <1>4, <2>2, <2>3
<1>4a. CASE ~x.paused
  <2>1. SetPaused(y) = z
    <3>1. ~y.paused  BY <1>1, <1>3, <1>4a
    <3> HIDE DEF y
    <3> QED  BY <3>1 DEF SetPaused
  <2> HIDE DEF y
  <2>5. /\ v \in States /\ v.flags = {} /\ v.act = 0 /\ v.conn = y.conn /\ v.prevent = y.prevent
        /\ v.detaching = y.detaching /\ v.stack = y.stack /\ v.bps = y.bps
        /\ v.processing = y.processing /\ v.active = y.active /\ v.cb = y.cb
    BY <1>3, ClearPauseStateOK
  <2> HIDE DEF v
  <2>6. n \in Int /\ n = 1  BY <1>1, <1>3, <1>4a, <2>5
  <2> HIDE DEF n
  <2>7. /\ z \in States /\ z.paused = TRUE /\ z.dirty = TRUE /\ z.prevent = n /\ z.flags = v.flags
        /\ z.act = v.act /\ z.conn = v.conn /\ z.detaching = v.detaching /\ z.stack = v.stack
        /\ z.bps = v.bps /\ z.processing = v.processing /\ z.active = v.active /\ z.cb = v.cb
    BY <2>5, <2>6 DEF States
  <2> HIDE DEF z
  <2> QED  BY <1>1, <1>2, <1>3, <2>1, <2>5, <2>6, <2>7
<1> QED  BY <1>4, <1>4a

\* What an attach by the application, or by its detached callback, leaves.
LEMMA AttachOK ==
  ASSUME NEW x, Settled(x), ~x.conn, ~x.detaching, NEW fail
  PROVE  LET y == Attach(x, fail)
         IN  /\ Settled(y) /\ y.stack = x.stack /\ ~y.processing
             /\ y.conn => y.paused /\ (y.dirty \/ x.paused)
<1>1. x \in States /\ x.prevent = (IF x.paused THEN 1 ELSE 0)
  BY DEF Settled
<1>2. PICK y \in States :
           /\ \A g : Attach(x, g) = Write(y, g)
           /\ y.conn = TRUE /\ y.paused = TRUE /\ (y.dirty \/ x.paused) /\ y.flags = {} /\ y.act = 0
           /\ y.prevent = 1 /\ y.detaching = x.detaching /\ y.stack = x.stack /\ y.bps = x.bps
           /\ y.processing = FALSE /\ y.active = x.active /\ y.cb = TRUE
  BY <1>1, AttachState, Zenon
<1>3. 0 <= Len(x.stack)  BY <1>1 DEF States
<1>4. Settled(y)  BY <1>2, <1>3 DEF Settled
<1>5. Settled(Write(y, fail)) /\ Kept(y, Write(y, fail))
      /\ (Write(y, fail).conn => Write(y, fail) = y)
  BY <1>4, WriteSettled
<1> QED  BY <1>1, <1>2, <1>5 DEF Kept

LEMMA Detach2OK ==
  ASSUME NEW x, Settled(x), ~x.conn, x.detaching, NEW again, NEW fail
  PROVE  LET y == Detach2(x, again, fail)
         IN  /\ Settled(y) /\ y.stack = x.stack /\ ~y.detaching
             /\ y.conn => y.paused /\ y.dirty
             /\ ~x.processing => ~y.processing
<1> DEFINE w == [x EXCEPT !.cb = FALSE]
           z == IF x.cb /\ again THEN Attach(w, fail) ELSE w
           y == [z EXCEPT !.detaching = FALSE]
<1>0. /\ x \in States /\ x.flags = {} /\ x.active = {}
      /\ x.prevent = (IF x.paused THEN 1 ELSE 0) /\ ~x.paused
  BY DEF Settled
<1>1. /\ w \in States /\ w.paused = x.paused /\ w.prevent = x.prevent /\ w.stack = x.stack
      /\ w.conn = x.conn /\ w.flags = x.flags /\ w.act = x.act /\ w.processing = x.processing
      /\ w.active = x.active /\ w.detaching = x.detaching /\ w.cb = FALSE
  BY <1>0 DEF States
<1>2. Detach2(x, again, fail) = y  BY DEF Detach2
<1> HIDE DEF w
<1>3. /\ z \in States /\ z.stack = x.stack /\ z.flags = {} /\ z.act <= Len(x.stack) /\ z.active = {}
      /\ ~z.conn => (z.paused <=> z.cb)
      /\ z.conn => z.paused /\ z.dirty
      /\ z.prevent = (IF z.paused THEN 1 ELSE 0)
      /\ ~x.processing => ~z.processing
  <2>1. CASE x.cb /\ again
    <3>1. PICK u \in States :
           /\ \A g : Attach(w, g) = Write(u, g)
           /\ u.conn = TRUE /\ u.paused = TRUE /\ (u.dirty \/ w.paused) /\ u.flags = {} /\ u.act = 0
           /\ u.prevent = 1 /\ u.stack = w.stack /\ u.processing = FALSE /\ u.detaching = w.detaching
           /\ u.active = w.active /\ u.cb = TRUE
      BY <1>0, <1>1, AttachState
    <3>2. z = Write(u, fail)  BY <2>1, <3>1
    <3>3. 0 <= Len(x.stack)  BY <1>0 DEF States
    <3>4. CASE ~fail
      <4>1. z = u  BY <3>2, <3>4 DEF Write
      <4> HIDE DEF z
      <4> QED  BY <1>0, <1>1, <3>1, <3>3, <4>1
    <3>5. CASE fail
      <4> DEFINE v == [u EXCEPT !.conn = FALSE]
      <4>1. z = Broken(u)  BY <3>1, <3>2, <3>5 DEF Write
      <4>2. /\ v \in States /\ v.conn = FALSE /\ v.paused = u.paused /\ v.flags = u.flags
            /\ v.act = u.act /\ v.prevent = u.prevent /\ v.stack = u.stack
            /\ v.processing = u.processing /\ v.detaching = u.detaching /\ v.active = u.active
            /\ v.cb = u.cb
        BY <3>1 DEF States
      <4>3. Broken(u) = Detach1(v)  BY DEF Broken
      <4> HIDE DEF z, v
      <4>4. Detach1(v) = v  BY <1>1, <3>1, <4>2 DEF Detach1
      <4>5. z = v  BY <3>5, <4>1, <4>3, <4>4
      <4> QED  BY <1>0, <1>1, <3>1, <3>3, <4>2, <4>5
    <3> QED  BY <3>4, <3>5
  <2>2. CASE ~(x.cb /\ again)
    <3>1. z = w  BY <2>2
    <3>2. w.act <= Len(x.stack)  BY <1>1 DEF Settled
    <3> HIDE DEF z
    <3> QED  BY <1>0, <1>1, <3>1, <3>2
  <2> QED  BY <2>1, <2>2
<1> HIDE DEF z
<1>4. /\ y \in States /\ y.detaching = FALSE /\ y.conn = z.conn /\ y.paused = z.paused
      /\ y.dirty = z.dirty /\ y.prevent = z.prevent /\ y.flags = z.flags /\ y.act = z.act
      /\ y.stack = z.stack /\ y.processing = z.processing /\ y.active = z.active /\ y.cb = z.cb
  BY <1>3 DEF States
<1> HIDE DEF y
<1>5. Settled(y)  BY <1>3, <1>4 DEF Settled
<1> QED  BY <1>2, <1>3, <1>4, <1>5

-----------------------------------------------------------------------------
(* Requests: the handler leaves the program alone, and answers once.        *)

\* What handling request q on x may do.
Handled(x, q, a) ==
  /\ Settled(a.x) /\ Kept(x, a.x) /\ Quiet(x, a.x)
  /\ a.wrote \in BOOLEAN
  /\ a.x.conn => (a.wrote <=> q.cmd # "NOTIFY")

LEMMA AnswerOK ==
  ASSUME NEW x, NEW y, NEW fail, NEW q, Settled(y), Kept(x, y), Quiet(x, y), q.cmd # "NOTIFY"
  PROVE  Handled(x, q, Answer(y, fail))
<1> DEFINE z == Write(y, fail)
           a == Answer(y, fail)
<1>1. Settled(z) /\ Kept(y, z) /\ Quiet(y, z) /\ (z.conn => z = y)  BY WriteSettled
<1>2. a.x = z /\ a.wrote = y.conn  BY DEF Answer
<1>3. y.conn \in BOOLEAN  BY DEF Settled, States
<1> HIDE DEF z, a
<1>4. Kept(x, z) /\ Quiet(x, z)  BY <1>1, QuietChain DEF Kept
<1>5. z.conn => y.conn  BY <1>1 DEF Quiet
<1> QED  BY <1>1, <1>2, <1>3, <1>4, <1>5 DEF Handled, a

LEMMA ReadArgsOK ==
  ASSUME NEW x, Settled(x), x.conn, NEW ok
  PROVE  LET y == ReadArgs(x, ok)
         IN  Settled(y) /\ Kept(x, y) /\ Quiet(x, y) /\ (ok => y = x) /\ (~ok => ~y.conn)
<1>1. x \in States  BY DEF Settled
<1>2. Gone(x, Detach1(x))  BY DetachOK
<1> QED  BY <1>1, <1>2, GoneOK, Untouched DEF ReadArgs

LEMMA BreakpointsOK ==
  ASSUME NEW x, Settled(x), NEW n \in Nat
  PROVE  /\ Settled(AddBreakpoint(x, n)) /\ Kept(x, AddBreakpoint(x, n)) /\ Quiet(x, AddBreakpoint(x, n))
         /\ Settled(RemoveBreakpoint(x, n)) /\ Kept(x, RemoveBreakpoint(x, n))
         /\ Quiet(x, RemoveBreakpoint(x, n))
<1>0. x \in States /\ x.bps \in Seq(Nat)  BY DEF Settled, States
<1>1. ASSUME NEW b \in Seq(Nat)
      PROVE  LET y == [x EXCEPT !.bps = b, !.active = {}]
             IN  Settled(y) /\ Kept(x, y) /\ Quiet(x, y)
  <2> DEFINE y == [x EXCEPT !.bps = b, !.active = {}]
  <2>1. /\ y \in States /\ y.conn = x.conn /\ y.paused = x.paused /\ y.dirty = x.dirty
        /\ y.detaching = x.detaching /\ y.cb = x.cb /\ y.prevent = x.prevent /\ y.flags = x.flags /\ y.act = x.act
        /\ y.stack = x.stack /\ y.processing = x.processing
        /\ y.active = {}
    BY <1>0, <1>1 DEF States
  <2> HIDE DEF y
  <2>2. Settled(y) /\ Kept(x, y) /\ Quiet(x, y)  BY <2>1 DEF Settled, Kept, Quiet
  <2> QED  BY <2>2 DEF y
<1>2. Append(x.bps, n) \in Seq(Nat)  BY <1>0
<1>3. n <= Len(x.bps) => RemoveAt(x.bps, n) \in Seq(Nat)
  <2>0. SUFFICES ASSUME n <= Len(x.bps) PROVE RemoveAt(x.bps, n) \in Seq(Nat)  OBVIOUS
  <2>1. \A i \in 1..n - 1 : x.bps[i] \in Nat  BY <1>0, <2>0
  <2>2. \A i \in n + 1..Len(x.bps) : x.bps[i] \in Nat  BY <1>0
  <2>3. SubSeq(x.bps, 1, n - 1) \in Seq(Nat)  BY <2>1, SubSeqProperties
  <2>4. SubSeq(x.bps, n + 1, Len(x.bps)) \in Seq(Nat)  BY <1>0, <2>2, SubSeqProperties
  <2> QED  BY <2>3, <2>4 DEF RemoveAt
<1>4. Len(x.bps) \in Nat  BY <1>0
<1>5. Settled(x) /\ Kept(x, x) /\ Quiet(x, x)  BY <1>0, Untouched
<1>6. AddBreakpoint(x, n) = x \/ AddBreakpoint(x, n) = [x EXCEPT !.bps = Append(x.bps, n), !.active = {}]
  BY DEF AddBreakpoint
<1>7. \/ RemoveBreakpoint(x, n) = x
      \/ n <= Len(x.bps) /\ RemoveBreakpoint(x, n) = [x EXCEPT !.bps = RemoveAt(x.bps, n), !.active = {}]
  BY <1>4 DEF RemoveBreakpoint
<1>8. Settled(AddBreakpoint(x, n)) /\ Kept(x, AddBreakpoint(x, n)) /\ Quiet(x, AddBreakpoint(x, n))
  BY <1>1, <1>2, <1>5, <1>6, Zenon
<1>9. Settled(RemoveBreakpoint(x, n)) /\ Kept(x, RemoveBreakpoint(x, n))
      /\ Quiet(x, RemoveBreakpoint(x, n))
  BY <1>1, <1>3, <1>5, <1>7, Zenon
<1> QED  BY <1>8, <1>9

LEMMA FlagsOK ==
  ASSUME NEW cmd \in {"RESUME", "STEPINTO", "STEPOVER", "STEPOUT"}
  PROVE  StepFlags(cmd) \in SUBSET PauseFlags
<1>1. CASE cmd = "STEPINTO"
  <2>1. StepFlags(cmd) = {"LINE_CHANGE", "FUNC_ENTRY", "FUNC_EXIT", "UNCAUGHT"}  BY <1>1 DEF StepFlags
  <2> QED  BY <2>1 DEF PauseFlags
<1>2. CASE cmd = "STEPOVER"
  <2>1. StepFlags(cmd) = {"LINE_CHANGE", "FUNC_EXIT", "UNCAUGHT"}  BY <1>2 DEF StepFlags
  <2> QED  BY <2>1 DEF PauseFlags
<1>3. CASE cmd = "STEPOUT"
  <2>1. StepFlags(cmd) = {"FUNC_EXIT", "UNCAUGHT"}  BY <1>3 DEF StepFlags
  <2> QED  BY <2>1 DEF PauseFlags
<1>4. CASE cmd = "RESUME"
  <2>1. StepFlags(cmd) = {"UNCAUGHT"}  BY <1>4 DEF StepFlags
  <2> QED  BY <2>1 DEF PauseFlags
<1> QED  BY <1>1, <1>2, <1>3, <1>4

LEMMA KeptChain ==
  ASSUME NEW x, NEW y, NEW z, Kept(x, y), Kept(y, z) PROVE Kept(x, z)
BY DEF Kept

LEMMA ResumeOK ==
  ASSUME NEW x, Settled(x), x.conn, NEW q, q.cmd \in {"RESUME", "STEPINTO", "STEPOVER", "STEPOUT"},
         NEW fail
  PROVE  Handled(x, q, HandleResume(x, q.cmd, fail))
<1> DEFINE y == ClearPaused(x)
           z == SetPauseState(y, StepFlags(q.cmd))
<1>0. x \in States /\ x.prevent = (IF x.paused THEN 1 ELSE 0)  BY DEF Settled
<1>1. /\ y \in States /\ y.paused = FALSE /\ y.prevent = 0
      /\ x.paused => y.dirty = TRUE /\ y.flags = {} /\ y.act = 0
      /\ ~x.paused => y = x
      /\ y.conn = x.conn /\ y.detaching = x.detaching /\ y.cb = x.cb
      /\ y.stack = x.stack /\ y.processing = x.processing
      /\ y.active = x.active
  BY <1>0, ClearPausedOK
<1>2. Settled(y)
  <2>1. CASE ~x.paused  BY <1>1, <2>1
  <2>2. CASE x.paused
    <3>1. 0 <= Len(y.stack)  BY <1>1 DEF States
    <3> QED  BY <1>1, <2>2, <3>1 DEF Settled
  <2> QED  BY <2>1, <2>2
<1>3. Kept(x, y)  BY <1>1 DEF Kept
<1>4. StepFlags(q.cmd) \in SUBSET PauseFlags  BY FlagsOK
<1>5. Quiet(x, y)
  <2>1. CASE ~x.paused  BY <1>0, <1>1, <2>1, Untouched
  <2>2. CASE x.paused  BY <1>1, <2>2 DEF Quiet
  <2> QED  BY <2>1, <2>2
<1>6. HandleResume(x, q.cmd, fail) = Answer(z, fail)  BY DEF HandleResume
<1> HIDE DEF y
<1>7. Settled(z) /\ Kept(y, z) /\ Quiet(y, z)  BY <1>1, <1>2, <1>4, SetPauseStateOK
<1> HIDE DEF z
<1>8. Kept(x, z) /\ Quiet(x, z)  BY <1>3, <1>5, <1>7, KeptChain, QuietChain
<1>9. q.cmd # "NOTIFY"  OBVIOUS
<1> QED  BY <1>6, <1>7, <1>8, <1>9, AnswerOK

LEMMA EvalOK ==
  ASSUME NEW x, Settled(x), x.conn, NEW q, q.cmd # "NOTIFY", NEW ok, NEW fail
  PROVE  Handled(x, q, HandleEval(x, ok, fail))
<1> DEFINE y == ReadArgs(x, ok)
           i == y.imm \/ y.conn
           f == y.fr \/ y.conn
           z == [y EXCEPT !.imm = i, !.fr = f]
<1>1. Settled(y) /\ Kept(x, y) /\ Quiet(x, y)  BY ReadArgsOK
<1>2. HandleEval(x, ok, fail) = Answer(z, fail)  BY DEF HandleEval
<1> HIDE DEF y
<1>3. y \in States /\ i \in BOOLEAN /\ f \in BOOLEAN  BY <1>1 DEF Settled
<1> HIDE DEF i, f
<1>4. /\ z \in States /\ z.conn = y.conn /\ z.paused = y.paused /\ z.dirty = y.dirty
      /\ z.detaching = y.detaching /\ z.cb = y.cb /\ z.prevent = y.prevent /\ z.flags = y.flags /\ z.act = y.act
      /\ z.stack = y.stack /\ z.processing = y.processing
      /\ z.active = y.active
  BY <1>3 DEF States
<1> HIDE DEF z
<1>5. Settled(z) /\ Kept(y, z) /\ Quiet(y, z)  BY <1>1, <1>4 DEF Settled, Kept, Quiet
<1>6. Kept(x, z) /\ Quiet(x, z)  BY <1>1, <1>5, KeptChain, QuietChain
<1> QED  BY <1>2, <1>5, <1>6, AnswerOK

LEMMA TriggerOK ==
  ASSUME NEW x, Settled(x), x.conn, NEW q, q.cmd # "NOTIFY", NEW fail
  PROVE  Handled(x, q, HandleTriggerStatus(x, fail))
<1> DEFINE y == Write(x, fail)
           z == [y EXCEPT !.dirty = TRUE]
           k == x.conn
           a == [x |-> z, wrote |-> k]
<1>1. Settled(y) /\ Kept(x, y) /\ Quiet(x, y) /\ (y.conn => y = x)  BY WriteSettled
<1>2. HandleTriggerStatus(x, fail) = a
  <2> DEFINE b == [x |-> y, wrote |-> k]
  <2>1. HandleTriggerStatus(x, fail) = [b EXCEPT !.x = [b.x EXCEPT !.dirty = TRUE]]
    BY Zenon DEF HandleTriggerStatus, Answer
  <2>2. b.x = y  OBVIOUS
  <2>3. HandleTriggerStatus(x, fail) = [b EXCEPT !.x = z]  BY <2>1, <2>2, Zenon
  <2> HIDE DEF z, y, k
  <2>4. [b EXCEPT !.x = z] = a  OBVIOUS
  <2> QED  BY <2>3, <2>4
<1>3. x.conn \in BOOLEAN  BY DEF Settled, States
<1>4. y \in States  BY <1>1 DEF Settled
<1> HIDE DEF y
<1>5. /\ z \in States /\ z.conn = y.conn /\ z.paused = y.paused /\ z.dirty = TRUE
      /\ z.detaching = y.detaching /\ z.cb = y.cb /\ z.prevent = y.prevent /\ z.flags = y.flags /\ z.act = y.act
      /\ z.stack = y.stack /\ z.processing = y.processing
      /\ z.active = y.active
  BY <1>4 DEF States
<1> HIDE DEF z
<1>6. Settled(z) /\ Kept(x, z) /\ Quiet(x, z)  BY <1>1, <1>5 DEF Settled, Kept, Quiet
<1>7. a.x = z /\ a.wrote = x.conn  OBVIOUS
<1> HIDE DEF a
<1> QED  BY <1>2, <1>3, <1>6, <1>7 DEF Handled

LEMMA HandleOK ==
  ASSUME NEW x, Settled(x), x.conn, NEW q \in Messages, NEW fail
  PROVE  Handled(x, q, Handle(x, q, fail))
<1> DEFINE r == ReadArgs(x, q.ok)
<1>0. x \in States /\ q.cmd \in Requests \cup {"NOTIFY"} /\ q.arg \in Nat
  BY DebuggerAssumption DEF Settled, Messages
<1>1. Settled(r) /\ Kept(x, r) /\ Quiet(x, r) /\ (~q.ok => ~r.conn) /\ (q.ok => r = x)  BY ReadArgsOK
<1> HIDE DEF r
<1>2. Quiet(x, x) /\ Kept(x, x)  BY <1>0, Untouched
<1>3. CASE q.cmd = "PAUSE"
  <2>1. Handle(x, q, fail) = Answer(SetPaused(x), fail)  BY <1>3 DEF Handle, HandlePause
  <2>2. Settled(SetPaused(x)) /\ Kept(x, SetPaused(x)) /\ Quiet(x, SetPaused(x))  BY SetPausedOK
  <2> QED  BY <1>3, <2>1, <2>2, AnswerOK
<1>4. CASE q.cmd \in {"RESUME", "STEPINTO", "STEPOVER", "STEPOUT"}
  <2>1. Handle(x, q, fail) = HandleResume(x, q.cmd, fail)  BY <1>4 DEF Handle
  <2> QED  BY <1>4, <2>1, ResumeOK
<1>5. CASE q.cmd = "TRIGGERSTATUS"
  <2>1. Handle(x, q, fail) = HandleTriggerStatus(x, fail)  BY <1>5 DEF Handle
  <2> QED  BY <1>5, <2>1, TriggerOK
<1>6. CASE q.cmd = "ADDBREAK"
  <2> DEFINE n == IF q.ok THEN q.arg ELSE 0
  <2>1. Handle(x, q, fail) = Answer(AddBreakpoint(r, n), fail)  BY <1>6 DEF Handle, HandleAddBreak, r
  <2>2. n \in Nat  BY <1>0
  <2> HIDE DEF n
  <2>3. Settled(AddBreakpoint(r, n)) /\ Kept(r, AddBreakpoint(r, n)) /\ Quiet(r, AddBreakpoint(r, n))
    BY <1>1, <2>2, BreakpointsOK
  <2>4. Kept(x, AddBreakpoint(r, n)) /\ Quiet(x, AddBreakpoint(r, n))
    BY <1>1, <2>3, KeptChain, QuietChain
  <2> QED  BY <1>6, <2>1, <2>3, <2>4, AnswerOK
<1>7. CASE q.cmd = "DELBREAK"
  <2> DEFINE n == IF q.ok THEN q.arg ELSE 1
  <2>1. Handle(x, q, fail) = Answer(RemoveBreakpoint(r, n), fail)  BY <1>7 DEF Handle, HandleDelBreak, r
  <2>2. n \in Nat  BY <1>0
  <2> HIDE DEF n
  <2>3. Settled(RemoveBreakpoint(r, n)) /\ Kept(r, RemoveBreakpoint(r, n))
        /\ Quiet(r, RemoveBreakpoint(r, n))
    BY <1>1, <2>2, BreakpointsOK
  <2>4. Kept(x, RemoveBreakpoint(r, n)) /\ Quiet(x, RemoveBreakpoint(r, n))
    BY <1>1, <2>3, KeptChain, QuietChain
  <2> QED  BY <1>7, <2>1, <2>3, <2>4, AnswerOK
<1>8. CASE q.cmd = "QUERY"
  <2>1. Handle(x, q, fail) = Answer(r, fail)  BY <1>8 DEF Handle, HandleQuery, r
  <2> QED  BY <1>1, <1>8, <2>1, AnswerOK
<1>9. CASE q.cmd \in {"PUTVAR", "APPREQUEST"}
  <2>1. Handle(x, q, fail) = HandlePutVar(x, q.ok, fail)  BY <1>9 DEF Handle, HandleAppRequest
  <2>2. CASE q.ok
    <3>1. Handle(x, q, fail) = Answer(x, fail)  BY <2>1, <2>2 DEF HandlePutVar
    <3> QED  BY <1>2, <1>9, <3>1, AnswerOK
  <2>3. CASE ~q.ok
    <3> DEFINE a == [x |-> Detach1(x), wrote |-> FALSE]
    <3>1. Handle(x, q, fail) = a  BY <2>1, <2>3 DEF HandlePutVar
    <3>2. Gone(x, Detach1(x))  BY DetachOK
    <3>3. a.x = Detach1(x) /\ a.wrote = FALSE  OBVIOUS
    <3> HIDE DEF a
    <3> QED  BY <3>1, <3>2, <3>3, GoneOK DEF Handled
  <2> QED  BY <2>2, <2>3
<1>10. CASE q.cmd = "EVAL"
  <2>1. Handle(x, q, fail) = HandleEval(x, q.ok, fail)  BY <1>10 DEF Handle
  <2> QED  BY <1>10, <2>1, EvalOK
<1>11. CASE q.cmd = "DETACH"
  <2> DEFINE w == Write(x, fail)
             a == [x |-> Detach1(w), wrote |-> x.conn]
  <2>1. Handle(x, q, fail) = a  BY <1>11 DEF Handle, HandleDetach, Answer
  <2>2. w = x \/ Gone(x, w)  BY WriteOK
  <2>3. Gone(x, Detach1(w))
    <3>1. CASE w = x  BY <3>1, DetachOK
    <3>2. CASE Gone(x, w)
      <4>1. Detach1(w) = w  BY <3>2 DEF Gone, Detach1
      <4> QED  BY <3>2, <4>1
    <3> QED  BY <2>2, <3>1, <3>2
  <2>4. a.x = Detach1(w) /\ a.wrote = x.conn  OBVIOUS
  <2>5. x.conn \in BOOLEAN  BY <1>0 DEF States
  <2> HIDE DEF a, w
  <2> QED  BY <2>1, <2>3, <2>4, <2>5, GoneOK DEF Handled
<1>12. CASE q.cmd = "NOTIFY"
  <2> DEFINE a == [x |-> r, wrote |-> FALSE]
  <2>1. Handle(x, q, fail) = a  BY <1>12 DEF Handle, r
  <2>2. a.x = r /\ a.wrote = FALSE  OBVIOUS
  <2> HIDE DEF a
  <2> QED  BY <1>1, <1>12, <2>1, <2>2 DEF Handled
<1> QED
  <2>1. q.cmd \in {"PAUSE", "RESUME", "STEPINTO", "STEPOVER", "STEPOUT", "TRIGGERSTATUS", "ADDBREAK",
                   "DELBREAK", "QUERY", "PUTVAR", "APPREQUEST", "EVAL", "DETACH", "NOTIFY"}
    BY <1>0 DEF Requests
  <2> QED  BY <2>1, <1>3, <1>4, <1>5, <1>6, <1>7, <1>8, <1>9, <1>10, <1>11, <1>12

-----------------------------------------------------------------------------
(* The executor: restarts, noticed lines, activations that come and go.     *)

\* A stack with the top activation replaced.
LEMMA NewTop ==
  ASSUME NEW x \in States, x.stack # <<>>, NEW t \in Frames, t.native = Curr(x).native,
         x.stack[1].native
  PROVE  LET s == [x.stack EXCEPT ![Len(x.stack)] = t]
         IN  /\ s \in Seq(Frames) /\ Len(s) = Len(x.stack) /\ s # <<>> /\ s[Len(s)] = t
             /\ s[1].native
<1>1. x.stack \in Seq(Frames)  BY DEF States
<1>2. Len(x.stack) \in Nat /\ Len(x.stack) >= 1  BY <1>1
<1> DEFINE s == [x.stack EXCEPT ![Len(x.stack)] = t]
<1>3. s \in Seq(Frames) /\ Len(s) = Len(x.stack) /\ s[Len(x.stack)] = t  BY <1>1, <1>2
<1>4. 1 # Len(x.stack) => s[1] = x.stack[1]  BY <1>1, <1>2
<1>5. s # <<>>  BY <1>2, <1>3
<1>6. s[1].native  BY <1>3, <1>4 DEF Curr
<1> QED  BY <1>3, <1>5, <1>6

LEMMA TopFrame ==
  ASSUME NEW x \in States, x.stack # <<>>
  PROVE  /\ Curr(x) \in Frames /\ Last(x.stack) = Curr(x) /\ Depth(x) = Len(x.stack)
         /\ Len(x.stack) \in Nat /\ Len(x.stack) >= 1
<1>1. x.stack \in Seq(Frames)  BY DEF States
<1>2. Len(x.stack) \in Nat /\ Len(x.stack) >= 1  BY <1>1
<1>3. x.stack[Len(x.stack)] \in Frames  BY <1>1, <1>2
<1> QED  BY <1>2, <1>3 DEF Curr, Last, Depth

LEMMA MatchingOK ==
  ASSUME NEW x \in States, NEW f PROVE Matching(x, f) \in SUBSET Nat
<1>1. x.bps \in Seq(Nat)  BY DEF States
<1>2. \A i \in DOMAIN x.bps : x.bps[i] \in Nat  BY <1>1
<1> QED  BY <1>2 DEF Matching

\* The two halves of a recheck: breakpoints marked, then pause and interrupt.
Marked(x, A) == [x EXCEPT !.active = A, !.stack[Depth(x)].bpa = A /= {}]
Armed(y, A) ==
  LET z == IF "FUNC_ENTRY" \in y.flags /\ y.act /= Depth(y) THEN SetPaused(y) ELSE y
  IN  [z EXCEPT !.imm = @ \/ A /= {} \/ z.paused \/ ("LINE_CHANGE" \in z.flags /\ z.act = Depth(z))]

LEMMA RecheckParts ==
  ASSUME NEW x, x.conn, ~x.processing
  PROVE  Recheck(x) = Armed(Marked(x, Matching(x, Last(x.stack).fn)), Matching(x, Last(x.stack).fn))
BY Zenon DEF Recheck, Marked, Armed

LEMMA RecheckOK ==
  ASSUME NEW x, Settled(x), x.stack # <<>>
  PROVE  LET y == Recheck(x)
         IN  /\ Settled(y) /\ Quiet(x, y) /\ y.stack # <<>> /\ y.processing = x.processing
             /\ y.conn /\ ~y.paused /\ ~x.processing => InSync(y) /\ (Watched(y) => y.imm)
<1>0. x \in States  BY DEF Settled
<1>1. CASE ~x.conn \/ x.processing
  <2>1. Recheck(x) = x  BY <1>1 DEF Recheck
  <2> QED  BY <1>0, <1>1, <2>1, Untouched DEF Quiet
<1>2. CASE x.conn /\ ~x.processing
  <2> DEFINE f == Curr(x).fn
             A == Matching(x, f)
             b == A # {}
             t == [Curr(x) EXCEPT !.bpa = b]
             s == [x.stack EXCEPT ![Len(x.stack)] = t]
             y == [x EXCEPT !.active = A, !.stack = s]
             z == IF "FUNC_ENTRY" \in y.flags /\ y.act /= Depth(y) THEN SetPaused(y) ELSE y
             v == z.imm \/ A /= {} \/ z.paused \/ ("LINE_CHANGE" \in z.flags /\ z.act = Depth(z))
             r == [z EXCEPT !.imm = v]
  <2>1. /\ Curr(x) \in Frames /\ Last(x.stack) = Curr(x) /\ Depth(x) = Len(x.stack)
        /\ Len(x.stack) \in Nat /\ Len(x.stack) >= 1
    BY <1>0, TopFrame
  <2>2. Marked(x, A) = y
    <3> HIDE DEF A
    <3> QED  BY <1>0, <2>1 DEF Curr, States, Marked
  <2>3. Recheck(x) = r
    <3>1. Recheck(x) = Armed(y, A)  BY <1>2, <2>1, <2>2, RecheckParts
    <3> HIDE DEF y
    <3> QED  BY <3>1, Zenon DEF Armed
  <2>4. A \in SUBSET Nat /\ b \in BOOLEAN  BY <1>0, MatchingOK
  <2>5. t \in Frames /\ t.bpa = b /\ t.native = Curr(x).native /\ t.fn = Curr(x).fn
    <3> HIDE DEF b, A
    <3> QED  BY <2>1, <2>4 DEF Frames
  <2>6. x.stack[1].native  BY DEF Settled
  <2> HIDE DEF t
  <2>7. s \in Seq(Frames) /\ Len(s) = Len(x.stack) /\ s # <<>> /\ s[Len(s)] = t /\ s[1].native
    BY <1>0, <2>5, <2>6, NewTop
  <2> HIDE DEF s, b
  <2>8. /\ y \in States /\ y.active = A /\ y.stack = s /\ y.conn = x.conn /\ y.paused = x.paused
        /\ y.dirty = x.dirty /\ y.detaching = x.detaching /\ y.cb = x.cb /\ y.prevent = x.prevent
        /\ y.flags = x.flags /\ y.act = x.act /\ y.bps = x.bps /\ y.processing = x.processing
    <3> HIDE DEF A
    <3> QED  BY <1>0, <2>4, <2>7 DEF States
  <2> HIDE DEF y
  <2>9. Settled(y)  BY <1>2, <2>7, <2>8 DEF Settled
  <2>10. Quiet(x, y)  BY <2>8 DEF Quiet
  <2>11. InSync(y)
    <3>1. Curr(y) = t  BY <2>7, <2>8 DEF Curr
    <3>2. Matching(y, f) = A  BY <2>8 DEF Matching
    <3> QED  BY <2>5, <2>8, <3>1, <3>2 DEF InSync, b
  <2>12. /\ Settled(z) /\ z.conn /\ Quiet(y, z) /\ Kept(y, z) /\ (~z.paused => z = y)
    <3>1. Settled(SetPaused(y)) /\ SetPaused(y).conn /\ SetPaused(y).paused /\ Quiet(y, SetPaused(y))
          /\ Kept(y, SetPaused(y))
      BY <1>2, <2>8, <2>9, SetPausedOK
    <3>2. Settled(y) /\ y.conn /\ Quiet(y, y) /\ Kept(y, y)  BY <1>2, <2>8, <2>9, Untouched
    <3> QED  BY <3>1, <3>2
  <2>13. z \in States /\ v \in BOOLEAN  BY <2>12 DEF Settled
  <2>14. Stepping(z) \/ A # {} => v  BY DEF Stepping, Depth
  <2> HIDE DEF z, v
  <2>15. /\ r \in States /\ r.imm = v /\ r.conn = z.conn /\ r.paused = z.paused
        /\ r.dirty = z.dirty /\ r.detaching = z.detaching /\ r.cb = z.cb /\ r.prevent = z.prevent
        /\ r.flags = z.flags /\ r.act = z.act /\ r.start = z.start /\ r.bps = z.bps
        /\ r.active = z.active /\ r.processing = z.processing /\ r.stack = z.stack
    BY <2>13 DEF States
  <2> HIDE DEF r
  <2>16. Settled(r)  BY <2>12, <2>15 DEF Settled
  <2>17. Quiet(x, r)
    <3>1. Quiet(z, r)  BY <2>15 DEF Quiet
    <3> QED  BY <2>10, <2>12, <3>1, QuietChain
  <2>18. r.stack # <<>> /\ r.processing = x.processing  BY <2>7, <2>8, <2>12, <2>15 DEF Kept
  <2>19. ASSUME ~r.paused PROVE InSync(r) /\ (Watched(r) => r.imm)
    <3>1. z = y  BY <2>12, <2>15, <2>19
    <3>2. SameView(y, r)  BY <2>15, <3>1 DEF SameView
    <3>3. InSync(r)  BY <2>11, <3>2, ViewKeeps
    <3>4. Watched(r) => Stepping(z) \/ A # {}  BY <3>2, <2>8, <2>11, <3>1 DEF SameView, Watched, Stepping, Curr, InSync
    <3> QED  BY <2>14, <2>15, <3>3, <3>4
  <2> QED  BY <2>3, <2>16, <2>17, <2>18, <2>19
<1> QED  BY <1>1, <1>2

LEMMA NotedOK ==
  ASSUME NEW x, Settled(x), x.stack # <<>>
  PROVE  LET y == [x EXCEPT !.stack[Len(x.stack)].prev = Curr(x).line]
         IN  /\ Settled(y) /\ Quiet(x, y) /\ y.stack # <<>> /\ y.processing = x.processing
             /\ y.conn = x.conn /\ y.detaching = x.detaching /\ y.cb = x.cb /\ y.paused = x.paused
             /\ InSync(x) => InSync(y) /\ Noticed(y)
<1> DEFINE t == [Curr(x) EXCEPT !.prev = Curr(x).line]
           s == [x.stack EXCEPT ![Len(x.stack)] = t]
           y == [x EXCEPT !.stack = s]
<1>0. x \in States /\ x.stack[1].native  BY DEF Settled
<1>1. Curr(x) \in Frames  BY <1>0, TopFrame
<1>2. [x EXCEPT !.stack[Len(x.stack)].prev = Curr(x).line] = y  BY <1>0 DEF Curr
<1>3. t \in Frames /\ t.prev = Curr(x).line /\ t.line = Curr(x).line /\ t.native = Curr(x).native
      /\ t.fn = Curr(x).fn /\ t.bpa = Curr(x).bpa
  BY <1>1 DEF Frames
<1> HIDE DEF t
<1>4. s \in Seq(Frames) /\ Len(s) = Len(x.stack) /\ s # <<>> /\ s[Len(s)] = t /\ s[1].native
  BY <1>0, <1>3, NewTop
<1> HIDE DEF s
<1>5. /\ y \in States /\ y.stack = s /\ y.conn = x.conn /\ y.paused = x.paused
      /\ y.dirty = x.dirty /\ y.detaching = x.detaching /\ y.cb = x.cb /\ y.prevent = x.prevent
      /\ y.flags = x.flags /\ y.act = x.act /\ y.bps = x.bps /\ y.processing = x.processing
      /\ y.active = x.active
  BY <1>0, <1>4 DEF States
<1> HIDE DEF y
<1>6. Settled(y) /\ Quiet(x, y)  BY <1>4, <1>5 DEF Settled, Quiet
<1>7. Curr(y) = t  BY <1>4, <1>5 DEF Curr
<1>8. InSync(x) => InSync(y)  BY <1>3, <1>5, <1>7 DEF InSync, Matching
<1>9. Noticed(y)  BY <1>3, <1>7 DEF Noticed
<1> QED  BY <1>2, <1>4, <1>5, <1>6, <1>8, <1>9

LEMMA NoticeLineOK ==
  ASSUME NEW x, Settled(x), x.stack # <<>>
  PROVE  LET y == NoticeLine(x)
         IN  /\ Settled(y) /\ Quiet(x, y) /\ y.stack # <<>> /\ y.processing = x.processing
             /\ y.conn = x.conn /\ (~x.conn => y.detaching = x.detaching /\ y.cb = x.cb)
             /\ y.conn /\ ~y.paused => ~x.paused /\ (InSync(x) => InSync(y) /\ Noticed(y))
<1> DEFINE l == Curr(x).line
           hit == \/ "LINE_CHANGE" \in x.flags /\ x.act = Depth(x) /\ l /= x.start
                  \/ l \in x.active
           y == IF Curr(x).prev /= l /\ hit THEN SetPaused(x) ELSE x
           z == [y EXCEPT !.stack[Len(y.stack)].prev = Curr(y).line]
<1>0. x \in States  BY DEF Settled
<1>1. Curr(x) \in Frames /\ Last(x.stack) = Curr(x) /\ Depth(x) = Len(x.stack)  BY <1>0, TopFrame
<1>2. CASE ~(Curr(x).bpa \/ x.act = Depth(x))
  <2>1. NoticeLine(x) = x  BY <1>1, <1>2 DEF NoticeLine
  <2>2. InSync(x) => Noticed(x)  BY <1>1, <1>2 DEF InSync, Noticed, Stepping
  <2> QED  BY <1>0, <2>1, <2>2, Untouched
<1>3. CASE Curr(x).bpa \/ x.act = Depth(x)
  <2>1. NoticeLine(x) = [y EXCEPT !.stack[Depth(x)].prev = l]  BY <1>1, <1>3 DEF NoticeLine
  <2>2. hit => x.conn  BY DEF Settled
  <2>3. /\ Settled(y) /\ y.stack = x.stack /\ Quiet(x, y) /\ y.processing = x.processing
        /\ y.conn = x.conn /\ (~y.paused => y = x) /\ (~x.conn => y = x)
    <3>1. CASE Curr(x).prev /= l /\ hit
      <4>1. y = SetPaused(x) /\ x.conn  BY <2>2, <3>1
      <4>2. x.conn = TRUE /\ SetPaused(x).conn \in BOOLEAN  BY <1>0, <4>1, SetPausedOK DEF Settled, States
      <4>3. SetPaused(x).conn = x.conn  BY <4>1, <4>2, SetPausedOK
      <4> HIDE DEF y
      <4> QED  BY <4>1, <4>3, SetPausedOK DEF Kept
    <3>2. CASE ~(Curr(x).prev /= l /\ hit)
      <4>1. y = x  BY <3>2
      <4> HIDE DEF y
      <4> QED  BY <1>0, <4>1, Untouched
    <3> QED  BY <3>1, <3>2
  <2>4. NoticeLine(x) = z
    <3>1. Curr(y).line = l /\ Len(y.stack) = Depth(x)  BY <1>1, <2>3 DEF Curr
    <3> HIDE DEF y, l
    <3> QED  BY <2>1, <3>1
  <2> HIDE DEF y
  <2>5. /\ Settled(z) /\ Quiet(y, z) /\ z.stack # <<>> /\ z.processing = y.processing
        /\ z.conn = y.conn /\ z.detaching = y.detaching /\ z.cb = y.cb /\ z.paused = y.paused
        /\ InSync(y) => InSync(z) /\ Noticed(z)
    BY <2>3, NotedOK
  <2> HIDE DEF z
  <2>6. Quiet(x, z)  BY <2>3, <2>5, QuietChain
  <2> QED  BY <2>3, <2>4, <2>5, <2>6
<1> QED  BY <1>2, <1>3

LEMMA UnwindOK ==
  ASSUME NEW x, Settled(x), NEW k \in 0..Len(x.stack)
  PROVE  LET y == Unwind(x, k)
         IN  /\ Settled(y) /\ Quiet(x, y) /\ y.processing = x.processing /\ y.imm = x.imm /\ y.fr = x.fr
             /\ y.stack = SubSeq(x.stack, 1, Len(x.stack) - k) /\ y.conn = x.conn
<1> DEFINE n == Len(x.stack) - k
           w == IF x.act <= n THEN x
                ELSE IF "FUNC_EXIT" \in x.flags THEN SetPaused(x) ELSE [x EXCEPT !.act = 0]
           s == SubSeq(x.stack, 1, n)
           y == [w EXCEPT !.stack = s]
<1>0. x \in States /\ x.stack \in Seq(Frames) /\ Len(x.stack) \in Nat /\ x.act \in Nat
  BY DEF Settled, States
<1>1. n \in Nat /\ n <= Len(x.stack)  BY <1>0
<1>2. s \in Seq(Frames) /\ Len(s) = n /\ (s # <<>> => s[1] = x.stack[1] /\ x.stack # <<>>)
  <2>1. \A i \in 1..n : x.stack[i] \in Frames  BY <1>0, <1>1
  <2> HIDE DEF n
  <2>2. s \in Seq(Frames) /\ Len(s) = n /\ \A i \in 1..n : s[i] = x.stack[i]
    BY <1>0, <1>1, <2>1, SubSeqProperties
  <2> HIDE DEF s
  <2>3. s # <<>> => n >= 1  BY <1>1, <2>2
  <2> QED  BY <1>0, <1>1, <2>2, <2>3
<1>3. /\ w \in States /\ w.stack = x.stack /\ Quiet(x, w) /\ w.conn = x.conn /\ w.act <= n
      /\ w.processing = x.processing /\ w.imm = x.imm /\ w.fr = x.fr
      /\ w.paused => w.flags = {}
      /\ ~w.conn => (w.paused <=> (w.cb /\ ~w.detaching))
      /\ w.prevent = (IF w.paused THEN 1 ELSE 0)
      /\ w.conn => ~w.detaching
      /\ w.flags # {} \/ w.active # {} => w.conn
  <2>1. CASE x.act <= n
    <3>1. w = x  BY <2>1
    <3> HIDE DEF w
    <3> QED  BY <1>0, <2>1, <3>1, Untouched DEF Settled
  <2>2. CASE ~(x.act <= n) /\ "FUNC_EXIT" \in x.flags
    <3>1. w = SetPaused(x)  BY <2>2
    <3>2. x.conn /\ ~x.paused  BY <2>2 DEF Settled
    <3>3. SetPaused(x) = [ClearPauseState(x) EXCEPT !.paused = TRUE, !.dirty = TRUE, !.prevent = @ + 1]
      BY <3>2 DEF SetPaused
    <3> HIDE DEF w, n
    <3>4. /\ Settled(w) /\ w.conn /\ w.paused /\ Quiet(x, w) /\ Kept(x, w)
          /\ w.imm = x.imm /\ w.fr = x.fr
      BY <3>1, <3>2, SetPausedOK
    <3>5. w.act = 0
      <4> DEFINE c == ClearPauseState(x)
                 p == c.prevent + 1
      <4>1. c \in States /\ c.act = 0  BY <1>0, ClearPauseStateOK
      <4> HIDE DEF c, p
      <4>2. [c EXCEPT !.paused = TRUE, !.dirty = TRUE, !.prevent = p].act = c.act  BY <4>1 DEF States
      <4> QED  BY <3>1, <3>3, <4>1, <4>2 DEF c, p
    <3>6. x.conn = TRUE /\ w.conn = TRUE  BY <1>0, <3>2, <3>4 DEF Settled, States
    <3>7. w.act <= n  BY <1>1, <3>5
    <3>8. w.conn = x.conn  BY <3>6
    <3> QED  BY <3>4, <3>7, <3>8, Zenon DEF Settled, Kept
  <2>3. CASE ~(x.act <= n) /\ "FUNC_EXIT" \notin x.flags
    <3>1. w = [x EXCEPT !.act = 0]  BY <2>3
    <3>2. /\ w \in States /\ w.act = 0 /\ w.stack = x.stack /\ w.conn = x.conn
          /\ w.processing = x.processing /\ w.imm = x.imm /\ w.fr = x.fr /\ w.paused = x.paused
          /\ w.flags = x.flags /\ w.prevent = x.prevent /\ w.detaching = x.detaching /\ w.cb = x.cb
          /\ w.active = x.active /\ w.dirty = x.dirty
      <4>1. [x EXCEPT !.act = 0] \in States  BY <1>0 DEF States
      <4>2. w \in States  BY <3>1, <4>1
      <4> HIDE DEF w
      <4> QED  BY <1>0, <3>1, <4>2 DEF States
    <3> HIDE DEF w, n
    <3> QED  BY <1>1, <3>2 DEF Settled, Quiet
  <2> QED  BY <2>1, <2>2, <2>3
<1>4. Unwind(x, k) = y
  <2>1. Unwind(x, k) = [w EXCEPT !.stack = SubSeq(w.stack, 1, n)]  BY Zenon DEF Unwind, Depth
  <2> QED  BY <1>3, <2>1, Zenon
<1> HIDE DEF w, s
<1>5. /\ y \in States /\ y.stack = s /\ y.conn = w.conn /\ y.paused = w.paused
      /\ y.dirty = w.dirty /\ y.detaching = w.detaching /\ y.cb = w.cb /\ y.prevent = w.prevent
      /\ y.flags = w.flags /\ y.act = w.act /\ y.processing = w.processing
      /\ y.active = w.active /\ y.imm = w.imm /\ y.fr = w.fr
  BY <1>2, <1>3 DEF States
<1> HIDE DEF y, n
<1>6. Settled(y)  BY <1>2, <1>3, <1>5 DEF Settled
<1>7. Quiet(x, y)  BY <1>3, <1>5 DEF Quiet
<1> QED  BY <1>3, <1>4, <1>5, <1>6, <1>7 DEF s, n

-----------------------------------------------------------------------------
(* Requests that wait for an answer.                                       *)

LEMMA PendingFinite ==
  ASSUME NEW q \in Seq(Messages) PROVE IsFiniteSet(Pending(q)) /\ Cardinality(Pending(q)) \in Nat
<1>1. Pending(q) \in SUBSET (1..Len(q)) /\ Len(q) \in Nat  BY DEF Pending
<1>2. IsFiniteSet(1..Len(q))  BY <1>1, FS_Interval
<1>3. IsFiniteSet(Pending(q))  BY <1>1, <1>2, FS_Subset
<1> QED  BY <1>3, FS_CardinalityType

LEMMA PendingAppend ==
  ASSUME NEW q \in Seq(Messages), NEW e \in Messages
  PROVE  Cardinality(Pending(Append(q, e))) =
           Cardinality(Pending(q)) + (IF e.cmd = "NOTIFY" THEN 0 ELSE 1)
<1> DEFINE n == Len(q) + 1
<1>1. Len(q) \in Nat /\ IsFiniteSet(Pending(q)) /\ Cardinality(Pending(q)) \in Nat  BY PendingFinite
<1>2. n \notin Pending(q)  BY <1>1 DEF Pending
<1>3. CASE e.cmd = "NOTIFY"
  <2>1. Pending(Append(q, e)) = Pending(q)  BY <1>1, <1>3 DEF Pending
  <2> QED  BY <1>1, <1>3, <2>1
<1>4. CASE e.cmd # "NOTIFY"
  <2>1. Pending(Append(q, e)) = Pending(q) \cup {n}  BY <1>1, <1>4 DEF Pending
  <2> HIDE DEF n
  <2>2. Cardinality(Pending(q) \cup {n}) = Cardinality(Pending(q)) + 1  BY <1>1, <1>2, FS_AddElement
  <2> QED  BY <1>4, <2>1, <2>2
<1> QED  BY <1>3, <1>4

LEMMA PendingTail ==
  ASSUME NEW q \in Seq(Messages), q # <<>>
  PROVE  Cardinality(Pending(Tail(q))) =
           Cardinality(Pending(q)) - (IF Head(q).cmd = "NOTIFY" THEN 0 ELSE 1)
<1> DEFINE S == Pending(Tail(q))
           T == Pending(q) \ {1}
           f == [i \in S |-> i + 1]
<1>1. /\ Tail(q) \in Seq(Messages) /\ Len(Tail(q)) = Len(q) - 1
      /\ \A i \in 1..Len(Tail(q)) : Tail(q)[i] = q[i + 1]
  BY HeadTailProperties
<1>2. IsFiniteSet(S) /\ IsFiniteSet(Pending(q)) /\ Cardinality(Pending(q)) \in Nat /\ Len(q) \in Nat
  <2>1. Tail(q) \in Seq(Messages)  BY <1>1
  <2>2. IsFiniteSet(S)  BY <2>1, PendingFinite, Zenon
  <2>3. IsFiniteSet(Pending(q)) /\ Cardinality(Pending(q)) \in Nat  BY PendingFinite, Zenon
  <2> QED  BY <2>2, <2>3
<1>3. ExistsBijection(S, T)
  <2>1. \A i \in S : i \in Nat /\ i + 1 \in T
    <3>1. SUFFICES ASSUME NEW i \in S PROVE i \in Nat /\ i + 1 \in T  OBVIOUS
    <3>2. i \in 1..Len(q) - 1 /\ Tail(q)[i].cmd # "NOTIFY"  BY <1>1, <1>2 DEF Pending
    <3>3. q[i + 1].cmd # "NOTIFY" /\ i + 1 \in 1..Len(q)  BY <1>1, <1>2, <3>2
    <3> QED  BY <1>2, <3>2, <3>3 DEF Pending
  <2>2. \A j \in T : \E i \in S : i + 1 = j
    <3>1. SUFFICES ASSUME NEW j \in T PROVE j - 1 \in S /\ (j - 1) + 1 = j  OBVIOUS
    <3>2. j \in 2..Len(q) /\ q[j].cmd # "NOTIFY"  BY <1>2 DEF Pending
    <3>3. j - 1 \in 1..Len(Tail(q)) /\ (j - 1) + 1 = j  BY <1>1, <1>2, <3>2
    <3>4. Tail(q)[j - 1].cmd # "NOTIFY"  BY <1>1, <3>2, <3>3
    <3> QED  BY <1>1, <3>3, <3>4 DEF Pending
  <2> HIDE DEF S, T
  <2>3. f \in [S -> T]  BY <2>1
  <2>4. \A a, b \in S : f[a] = f[b] => a = b  BY <2>1
  <2>5. \A j \in T : \E i \in S : f[i] = j  BY <2>2
  <2>6. f \in Bijection(S, T)
    <3> HIDE DEF f
    <3>1. f \in Injection(S, T)  BY <2>3, <2>4 DEF Injection, IsInjective
    <3>2. f \in Surjection(S, T)  BY <2>3, <2>5 DEF Surjection
    <3> QED  BY <3>1, <3>2 DEF Bijection
  <2> QED  BY <2>6 DEF ExistsBijection
<1>4. Cardinality(T) = Cardinality(S)
  <2> HIDE DEF S, T
  <2> QED  BY <1>2, <1>3, FS_Bijection
<1>5. Cardinality(T) = IF 1 \in Pending(q) THEN Cardinality(Pending(q)) - 1 ELSE Cardinality(Pending(q))
  BY <1>2, FS_RemoveElement
<1>6. 1 \in Pending(q) <=> Head(q).cmd # "NOTIFY"  BY <1>2 DEF Pending
<1> HIDE DEF T
<1> QED  BY <1>2, <1>4, <1>5, <1>6 DEF S

-----------------------------------------------------------------------------
(* The steps.                                                              *)

LEMMA AtFields ==
  ASSUME NEW a \in {"idle", "exec", "op", "unwind"}
  PROVE  At(a) \in Places /\ At(a).at = a /\ At(a).ret = "none" /\ At(a).got = FALSE
BY DEF At, Places

LEMMA LoopFields ==
  ASSUME NEW r \in {"interrupt", "debugger", "throw", "cooperate"}
  PROVE  InLoop(r) \in Places /\ InLoop(r).at = "loop" /\ InLoop(r).ret = r /\ InLoop(r).got = FALSE
BY DEF InLoop, Places

LEMMA ProcessingOK ==
  ASSUME NEW x, Settled(x), NEW b \in BOOLEAN
  PROVE  LET y == [x EXCEPT !.processing = b]
         IN  /\ Settled(y) /\ Quiet(x, y) /\ SameView(x, y) /\ y.processing = b /\ y.stack = x.stack
             /\ y.conn = x.conn /\ y.paused = x.paused /\ y.dirty = x.dirty
<1> DEFINE y == [x EXCEPT !.processing = b]
<1>0. x \in States  BY DEF Settled
<1>1. /\ y \in States /\ y.processing = b /\ y.stack = x.stack /\ y.conn = x.conn /\ y.paused = x.paused
      /\ y.dirty = x.dirty /\ y.detaching = x.detaching /\ y.cb = x.cb /\ y.prevent = x.prevent
      /\ y.flags = x.flags /\ y.act = x.act /\ y.start = x.start /\ y.bps = x.bps /\ y.active = x.active
  BY <1>0 DEF States
<1> HIDE DEF y
<1>2. Settled(y) /\ Quiet(x, y) /\ SameView(x, y)  BY <1>1 DEF Settled, Quiet, SameView
<1> QED  BY <1>1, <1>2 DEF y

LEMMA ImmOK ==
  ASSUME NEW x, Settled(x), NEW b \in BOOLEAN
  PROVE  LET y == [x EXCEPT !.imm = b]
         IN  /\ Settled(y) /\ Quiet(x, y) /\ SameView(x, y) /\ Kept(x, y) /\ y.imm = b /\ y.fr = x.fr
             /\ y.conn = x.conn /\ y.paused = x.paused /\ y.dirty = x.dirty /\ y.detaching = x.detaching /\ y.cb = x.cb
<1> DEFINE y == [x EXCEPT !.imm = b]
<1>0. x \in States  BY DEF Settled
<1>1. /\ y \in States /\ y.processing = x.processing /\ y.stack = x.stack /\ y.conn = x.conn
      /\ y.paused = x.paused /\ y.dirty = x.dirty /\ y.detaching = x.detaching /\ y.prevent = x.prevent
      /\ y.flags = x.flags /\ y.act = x.act /\ y.start = x.start /\ y.bps = x.bps /\ y.active = x.active
      /\ y.cb = x.cb /\ y.imm = b /\ y.fr = x.fr
  BY <1>0 DEF States
<1> HIDE DEF y
<1>2. Settled(y) /\ Quiet(x, y) /\ SameView(x, y) /\ Kept(x, y)
  BY <1>1 DEF Settled, Quiet, SameView, Kept
<1> QED  BY <1>1, <1>2, Zenon DEF y

LEMMA ForceOK ==
  ASSUME NEW x, Settled(x), NEW b \in BOOLEAN, NEW d \in BOOLEAN
  PROVE  LET y == [x EXCEPT !.imm = b, !.fr = d]
         IN  /\ Settled(y) /\ Quiet(x, y) /\ SameView(x, y) /\ Kept(x, y) /\ y.imm = b /\ y.fr = d
             /\ y.conn = x.conn /\ y.paused = x.paused /\ y.dirty = x.dirty /\ y.detaching = x.detaching /\ y.cb = x.cb
<1> DEFINE y == [x EXCEPT !.imm = b, !.fr = d]
<1>0. x \in States  BY DEF Settled
<1>1. /\ y \in States /\ y.processing = x.processing /\ y.stack = x.stack /\ y.conn = x.conn
      /\ y.paused = x.paused /\ y.dirty = x.dirty /\ y.detaching = x.detaching /\ y.prevent = x.prevent
      /\ y.flags = x.flags /\ y.act = x.act /\ y.start = x.start /\ y.bps = x.bps /\ y.active = x.active
      /\ y.cb = x.cb /\ y.imm = b /\ y.fr = d
  BY <1>0 DEF States
<1> HIDE DEF y
<1>2. Settled(y) /\ Quiet(x, y) /\ SameView(x, y) /\ Kept(x, y)
  BY <1>1 DEF Settled, Quiet, SameView, Kept
<1> QED  BY <1>1, <1>2, Zenon DEF y

LEMMA RestartStep ==
  ASSUME NEW x, Settled(x), Quiet(m, x), x.stack # <<>>, ~x.processing,
         DebuggerInv, Restart(x), UNCHANGED <<inq, peer>>
  PROVE  DebuggerInv'
<1>1. /\ Settled(m') /\ Quiet(x, m') /\ m'.stack # <<>> /\ m'.processing = x.processing
      /\ m'.conn /\ ~m'.paused => InSync(m') /\ (Watched(m') => m'.imm)
  BY RecheckOK DEF Restart
<1>2. pc' \in Places /\ pc'.at = "exec" /\ pc'.ret = "none"  BY AtFields DEF Restart
<1>3. Quiet(m, m')  BY <1>1, QuietChain
<1>4. inq' = inq /\ peer' = peer  OBVIOUS
<1>5. /\ inq \in Seq(Messages) /\ peer \in Clients /\ Knows(m, peer) /\ Owes(m, inq, peer)
  BY DEF DebuggerInv, Good
<1>6. Knows(m', peer) /\ Owes(m', inq, peer)  BY <1>3, <1>5, QuietKnows
<1>7. Sent(m', pc') /\ PlaceOK(m', pc')  BY <1>1, <1>2 DEF Sent, PlaceOK
<1>8. WatchOK(m', pc')  BY <1>1, <1>2 DEF WatchOK, ExecOK
<1>9. Good(m', pc', inq', peer')  BY <1>1, <1>2, <1>4, <1>5, <1>6, <1>7, <1>8 DEF Good
<1> QED  BY <1>9 DEF DebuggerInv

LEMMA EnterStep ==
  ASSUME NEW x, Settled(x), Quiet(m, x), NEW fail,
         NEW ret \in {"interrupt", "debugger", "throw", "cooperate"},
         ret = "cooperate" <=> x.stack = <<>>,
         ret = "interrupt" /\ x.conn /\ ~x.paused => InSync(x) /\ Noticed(x),
         DebuggerInv, Enter(x, ret, fail), UNCHANGED inq
  PROVE  DebuggerInv'
<1> DEFINE y == [x EXCEPT !.processing = TRUE]
<1>1. /\ inq \in Seq(Messages) /\ peer \in Clients /\ Knows(m, peer) /\ Owes(m, inq, peer)
  BY DEF DebuggerInv, Good
<1>2. Knows(x, peer) /\ Owes(x, inq, peer)  BY <1>1, QuietKnows
<1>3. /\ Settled(y) /\ Quiet(x, y) /\ SameView(x, y) /\ y.processing = TRUE /\ y.stack = x.stack
      /\ y.conn = x.conn /\ y.paused = x.paused
  BY ProcessingOK
<1>4. m' = Resend(y, fail) /\ pc' = InLoop(ret) /\ peer' = Told(peer, y, m')  BY DEF Enter
<1> HIDE DEF y
<1>5. Knows(y, peer) /\ Owes(y, inq, peer)  BY <1>2, <1>3, QuietKnows
<1>6. /\ Settled(m') /\ Kept(y, m') /\ (m'.conn => y.conn)
      /\ m'.conn => ~m'.dirty /\ m'.paused = y.paused /\ SameView(y, m')
      /\ peer' \in Clients /\ peer'.owed = peer.owed /\ Knows(m', peer')
  BY <1>1, <1>3, <1>4, <1>5, ResendOK
<1>7. pc' \in Places /\ pc'.at = "loop" /\ pc'.ret = ret /\ pc'.got = FALSE  BY <1>4, LoopFields
<1>8. Sent(m', pc')  BY <1>6 DEF Sent
<1>9. Owes(m', inq, peer')  BY <1>5, <1>6 DEF Owes
<1>10. PlaceOK(m', pc')  BY <1>3, <1>6, <1>7 DEF PlaceOK, Kept
<1>11. WatchOK(m', pc')
  <2>1. SUFFICES ASSUME m'.conn, ~m'.paused, ret = "interrupt" PROVE InSync(m') /\ Noticed(m')
    BY <1>7 DEF WatchOK
  <2>2. x.conn /\ ~x.paused  BY <1>3, <1>6, <2>1
  <2>3. InSync(y) /\ Noticed(y)  BY <1>3, <2>1, <2>2, ViewKeeps
  <2> QED  BY <1>6, <2>1, <2>3, ViewKeeps
<1>12. Good(m', pc', inq', peer')  BY <1>1, <1>6, <1>7, <1>8, <1>9, <1>10, <1>11 DEF Good
<1> QED  BY <1>12 DEF DebuggerInv

LEMMA NoneOwed ==
  ASSUME NEW c \in Clients, c.owed = 0
  PROVE  <<>> \in Seq(Messages) /\ \A x : Owes(x, <<>>, c)
<1>1. <<>> \in Seq(Messages)  OBVIOUS
<1>2. Pending(<<>>) = {}  BY DEF Pending
<1>3. Cardinality({}) = 0  BY FS_EmptySet
<1> QED  BY <1>1, <1>2, <1>3 DEF Owes

\* A new connection starts with nothing on the way and a state to be sent, or unsaid.
LEMMA FreshStep ==
  ASSUME DebuggerInv, Settled(m'), m'.stack = m.stack,
         m'.conn => m'.paused /\ (m'.dirty \/ peer'.status = "unsaid"),
         pc.at # "read", pc.at \in {"loop", "read"} \/ ~m'.processing,
         inq' = <<>>, peer' \in Clients, peer'.owed = 0, pc' = pc
  PROVE  DebuggerInv'
<1>1. pc \in Places /\ PlaceOK(m, pc)  BY DEF DebuggerInv, Good
<1>2. Knows(m', peer') /\ Sent(m', pc') /\ WatchOK(m', pc')  BY DEF Knows, Sent, WatchOK
<1>3. PlaceOK(m', pc')  BY <1>1 DEF PlaceOK
<1>4. Good(m', pc', inq', peer')  BY <1>1, <1>2, <1>3, NoneOwed DEF Good
<1> QED  BY <1>4 DEF DebuggerInv

LEMMA LoopDetachStep == ASSUME DebuggerInv, LoopDetach PROVE DebuggerInv'
<1>1. Settled(m) /\ ~m.conn /\ m.detaching /\ pc.at = "loop" /\ inq' = <<>> /\ peer' = NoPeer /\ pc' = pc
  BY DEF DebuggerInv, Good, LoopDetach
<1>2. PICK again, fail \in BOOLEAN : m' = [Detach2(m, again, fail) EXCEPT !.processing = TRUE]
  BY DEF LoopDetach
<1> DEFINE y == Detach2(m, again, fail)
<1>3. Settled(y) /\ y.stack = m.stack /\ (y.conn => y.paused /\ y.dirty)
  BY <1>1, Detach2OK
<1> HIDE DEF y
<1>4. m' = [y EXCEPT !.processing = TRUE]  BY <1>2 DEF y
<1>5. Settled(m') /\ m'.stack = y.stack /\ m'.conn = y.conn /\ m'.paused = y.paused /\ m'.dirty = y.dirty
  BY <1>3, <1>4, ProcessingOK
<1>6. peer' \in Clients /\ peer'.owed = 0  BY <1>1 DEF NoPeer, Clients
<1> QED  BY <1>1, <1>3, <1>5, <1>6, FreshStep

LEMMA LoopEndStep == ASSUME DebuggerInv, LoopEnd PROVE DebuggerInv'
<1> DEFINE x == Leave(m)
<1>1. /\ Settled(m) /\ pc \in Places /\ inq \in Seq(Messages) /\ peer \in Clients
      /\ Knows(m, peer) /\ Owes(m, inq, peer) /\ PlaceOK(m, pc) /\ WatchOK(m, pc)
  BY DEF DebuggerInv, Good
<1>2. pc.at = "loop" /\ inq' = inq /\ peer' = peer  BY DEF LoopEnd
<1>3. /\ Settled(x) /\ Quiet(m, x) /\ SameView(m, x) /\ x.processing = FALSE /\ x.stack = m.stack
      /\ x.conn = m.conn /\ x.paused = m.paused
  BY <1>1, ProcessingOK DEF Leave
<1>4. CASE pc.ret \in {"debugger", "throw"} /\ x.paused
  <2>1. m' = [x EXCEPT !.processing = TRUE] /\ pc' = [pc EXCEPT !.got = FALSE]  BY <1>4 DEF LoopEnd
  <2> HIDE DEF x
  <2>2. /\ Settled(m') /\ Quiet(x, m') /\ SameView(x, m') /\ m'.processing = TRUE /\ m'.stack = x.stack
        /\ m'.conn = x.conn /\ m'.paused = x.paused
    BY <1>3, <2>1, ProcessingOK
  <2>3. pc' \in Places /\ pc'.at = "loop" /\ pc'.ret = pc.ret  BY <1>1, <1>2, <2>1 DEF Places
  <2>4. Knows(m', peer) /\ Owes(m', inq, peer)  BY <1>1, <1>3, <2>2, QuietChain, QuietKnows
  <2>5. Sent(m', pc') /\ WatchOK(m', pc')  BY <1>4, <2>2, <2>3 DEF Sent, WatchOK
  <2>6. PlaceOK(m', pc')  BY <1>1, <1>2, <1>3, <2>2, <2>3 DEF PlaceOK
  <2>7. Good(m', pc', inq', peer')  BY <1>1, <1>2, <2>2, <2>3, <2>4, <2>5, <2>6 DEF Good
  <2> QED  BY <2>7 DEF DebuggerInv
<1>5. CASE ~(pc.ret \in {"debugger", "throw"} /\ x.paused)
  <2>1. m' = x /\ pc' = [pc EXCEPT !.at = "return"]  BY <1>5 DEF LoopEnd
  <2> HIDE DEF x
  <2>2. pc' \in Places /\ pc'.at = "return" /\ pc'.ret = pc.ret /\ pc'.got = pc.got
    BY <1>1, <2>1 DEF Places
  <2>3. Knows(m', peer) /\ Owes(m', inq, peer)  BY <1>1, <1>3, <2>1, QuietKnows
  <2>4. Sent(m', pc')  BY <2>2 DEF Sent
  <2>5. WatchOK(m', pc')
    <3>1. InSync(m) => InSync(x)  BY <1>3, ViewKeeps
    <3>2. Noticed(m) => Noticed(x)  BY <1>3, ViewKeeps
    <3> QED  BY <1>1, <1>2, <1>3, <2>1, <2>2, <3>1, <3>2 DEF WatchOK
  <2>6. PlaceOK(m', pc')  BY <1>1, <1>2, <1>3, <2>1, <2>2 DEF PlaceOK
  <2>7. Good(m', pc', inq', peer')  BY <1>1, <1>2, <1>3, <2>1, <2>2, <2>3, <2>4, <2>5, <2>6 DEF Good
  <2> QED  BY <2>7 DEF DebuggerInv
<1> QED  BY <1>4, <1>5

LEMMA LoopReadStep == ASSUME DebuggerInv, LoopRead PROVE DebuggerInv'
<1>1. /\ Settled(m) /\ pc \in Places /\ inq \in Seq(Messages) /\ peer \in Clients
      /\ Knows(m, peer) /\ Owes(m, inq, peer) /\ PlaceOK(m, pc) /\ WatchOK(m, pc)
  BY DEF DebuggerInv, Good
<1>2. pc.at = "loop" /\ inq' = inq /\ pc' = [pc EXCEPT !.at = "read"]  BY DEF LoopRead
<1>3. PICK fail \in BOOLEAN : m' = Resend(m, fail) /\ peer' = Told(peer, m, m')  BY DEF LoopRead
<1>4. /\ Settled(m') /\ Kept(m, m') /\ (m'.conn => m.conn)
      /\ m'.conn => ~m'.dirty /\ m'.paused = m.paused /\ SameView(m, m')
      /\ peer' \in Clients /\ peer'.owed = peer.owed /\ Knows(m', peer')
  BY <1>1, <1>3, ResendOK
<1>5. pc' \in Places /\ pc'.at = "read" /\ pc'.ret = pc.ret /\ pc'.got = pc.got
  BY <1>1, <1>2 DEF Places
<1>6. Sent(m', pc') /\ Owes(m', inq, peer')  BY <1>1, <1>4 DEF Sent, Owes
<1>7. PlaceOK(m', pc')  BY <1>1, <1>2, <1>4, <1>5 DEF PlaceOK, Kept
<1>8. WatchOK(m', pc')
  <2>1. SUFFICES ASSUME m'.conn, ~m'.paused, pc.ret = "interrupt", ~pc.got PROVE InSync(m') /\ Noticed(m')
    BY <1>5 DEF WatchOK
  <2>2. InSync(m) /\ Noticed(m)  BY <1>1, <1>2, <1>4, <2>1 DEF WatchOK
  <2> QED  BY <1>4, <2>1, <2>2, ViewKeeps
<1>9. Good(m', pc', inq', peer')  BY <1>1, <1>2, <1>4, <1>5, <1>6, <1>7, <1>8 DEF Good
<1> QED  BY <1>9 DEF DebuggerInv

LEMMA ReadMessageStep == ASSUME DebuggerInv, ReadMessage PROVE DebuggerInv'
<1>1. /\ Settled(m) /\ pc \in Places /\ inq \in Seq(Messages) /\ peer \in Clients
      /\ Knows(m, peer) /\ Owes(m, inq, peer) /\ PlaceOK(m, pc)
  BY DEF DebuggerInv, Good
<1>2. pc.at = "read" /\ m.conn /\ inq # <<>> /\ inq' = Tail(inq)
      /\ pc' = [pc EXCEPT !.at = "loop", !.got = TRUE]
  BY DEF ReadMessage
<1> DEFINE q == Head(inq)
<1>3. PICK f1, f2 \in BOOLEAN :
        LET a == Handle(m, q, f1)
            p == IF a.wrote THEN [peer EXCEPT !.owed = @ - 1] ELSE peer
        IN  m' = Resend(a.x, f2) /\ peer' = Told(p, a.x, m')
  BY DEF ReadMessage
<1> DEFINE a == Handle(m, q, f1)
           p == IF a.wrote THEN [peer EXCEPT !.owed = @ - 1] ELSE peer
<1>4. q \in Messages /\ Tail(inq) \in Seq(Messages)  BY <1>1, <1>2, HeadTailProperties
<1>5. Cardinality(Pending(Tail(inq))) =
        Cardinality(Pending(inq)) - (IF q.cmd = "NOTIFY" THEN 0 ELSE 1)
  BY <1>1, <1>2, PendingTail
<1>5a. Cardinality(Pending(inq)) \in Nat  BY <1>1, PendingFinite
<1>6. m' = Resend(a.x, f2) /\ peer' = Told(p, a.x, m')  BY <1>3
<1> HIDE DEF q
<1>7. Handled(m, q, a)  BY <1>1, <1>2, <1>4, HandleOK
<1> HIDE DEF a
<1>8. Settled(a.x) /\ Kept(m, a.x) /\ Quiet(m, a.x) /\ (a.x.conn => (a.wrote <=> q.cmd # "NOTIFY"))
  BY <1>7 DEF Handled
<1>9. p \in Clients /\ p.status = peer.status /\ p.owed = (IF a.wrote THEN peer.owed - 1 ELSE peer.owed)
  BY <1>1 DEF Clients
<1> HIDE DEF p
<1>10. Knows(a.x, p)
  <2>1. Knows(a.x, peer)  BY <1>1, <1>8, QuietKnows
  <2> QED  BY <1>9, <2>1 DEF Knows
<1>11. /\ Settled(m') /\ Kept(a.x, m') /\ (m'.conn => a.x.conn)
       /\ peer' \in Clients /\ peer'.owed = p.owed /\ Knows(m', peer')
  BY <1>6, <1>8, <1>9, <1>10, ResendOK
<1>12. pc' \in Places /\ pc'.at = "loop" /\ pc'.ret = pc.ret /\ pc'.got = TRUE
  BY <1>1, <1>2 DEF Places
<1>13. Owes(m', inq', peer')
  <2>1. SUFFICES ASSUME m'.conn PROVE peer'.owed = Cardinality(Pending(Tail(inq)))
    BY <1>2 DEF Owes
  <2>2. a.x.conn /\ (a.wrote <=> q.cmd # "NOTIFY")  BY <1>8, <1>11, <2>1
  <2>3. peer.owed = Cardinality(Pending(inq))  BY <1>1, <1>2 DEF Owes
  <2> QED  BY <1>5, <1>5a, <1>9, <1>11, <2>2, <2>3
<1>14. Sent(m', pc') /\ WatchOK(m', pc')  BY <1>12 DEF Sent, WatchOK
<1>15. PlaceOK(m', pc')  BY <1>1, <1>2, <1>8, <1>11, <1>12 DEF PlaceOK, Kept
<1>16. Good(m', pc', inq', peer')  BY <1>2, <1>4, <1>11, <1>12, <1>13, <1>14, <1>15 DEF Good
<1> QED  BY <1>16 DEF DebuggerInv

LEMMA ReadFailsStep == ASSUME DebuggerInv, ReadFails PROVE DebuggerInv'
<1>1. /\ Settled(m) /\ pc \in Places /\ inq \in Seq(Messages) /\ peer \in Clients /\ PlaceOK(m, pc)
  BY DEF DebuggerInv, Good
<1>2. pc.at = "read" /\ inq' = inq /\ peer' = peer /\ pc' = [pc EXCEPT !.at = "loop", !.got = TRUE]
  BY DEF ReadFails
<1>3. Settled(m') /\ ~m'.conn /\ m'.stack = m.stack /\ m'.processing = m.processing
  <2>1. CASE m.conn
    <3>1. m' = Broken(m)  BY <2>1 DEF ReadFails
    <3>2. Gone(m, Broken(m))  BY <1>1, <2>1, BrokenOK
    <3> QED  BY <3>1, <3>2, GoneOK
  <2>2. CASE ~m.conn
    <3>1. m' = m  BY <2>2 DEF ReadFails
    <3> QED  BY <1>1, <2>2, <3>1
  <2> QED  BY <2>1, <2>2
<1>4. pc' \in Places /\ pc'.at = "loop" /\ pc'.ret = pc.ret  BY <1>1, <1>2 DEF Places
<1>5. Knows(m', peer') /\ Owes(m', inq', peer') /\ Sent(m', pc') /\ WatchOK(m', pc')
  BY <1>3 DEF Knows, Owes, Sent, WatchOK
<1>6. PlaceOK(m', pc')  BY <1>1, <1>2, <1>3, <1>4 DEF PlaceOK
<1>7. Good(m', pc', inq', peer')  BY <1>1, <1>2, <1>3, <1>4, <1>5, <1>6 DEF Good
<1> QED  BY <1>7 DEF DebuggerInv

LEMMA DirtyOK ==
  ASSUME NEW x, Settled(x), NEW b \in BOOLEAN
  PROVE  LET y == [x EXCEPT !.dirty = x.dirty \/ b]
         IN  /\ Settled(y) /\ Quiet(x, y) /\ SameView(x, y) /\ Kept(x, y)
             /\ y.conn = x.conn /\ y.paused = x.paused /\ y.detaching = x.detaching /\ y.cb = x.cb
<1> DEFINE d == x.dirty \/ b
           y == [x EXCEPT !.dirty = d]
<1>0. x \in States /\ d \in BOOLEAN /\ (~d => ~x.dirty)  BY DEF Settled
<1> HIDE DEF d
<1>1. /\ y \in States /\ y.processing = x.processing /\ y.stack = x.stack /\ y.conn = x.conn
      /\ y.paused = x.paused /\ y.dirty = d /\ y.detaching = x.detaching /\ y.cb = x.cb /\ y.prevent = x.prevent
      /\ y.flags = x.flags /\ y.act = x.act /\ y.start = x.start /\ y.bps = x.bps /\ y.active = x.active
  BY <1>0 DEF States
<1> HIDE DEF y
<1>2. Settled(y) /\ Quiet(x, y) /\ SameView(x, y) /\ Kept(x, y)
  BY <1>0, <1>1 DEF Settled, Quiet, SameView, Kept
<1> QED  BY <1>1, <1>2 DEF y, d

\* The next instruction is executed in a state with everything noticed.
LEMMA ExecuteStep ==
  ASSUME DebuggerInv, Settled(m'), Quiet(m, m'), m'.stack # <<>>, ~m'.processing,
         m'.conn /\ ~m'.paused => InSync(m') /\ Noticed(m') /\ (Watched(m') => m'.imm),
         pc' = At("op"), UNCHANGED <<inq, peer>>
  PROVE  DebuggerInv'
<1>1. pc' \in Places /\ pc'.at = "op" /\ pc'.ret = "none"  BY AtFields
<1>2. inq \in Seq(Messages) /\ peer \in Clients /\ Knows(m, peer) /\ Owes(m, inq, peer)
  BY DEF DebuggerInv, Good
<1>3. Knows(m', peer) /\ Owes(m', inq, peer)  BY <1>2, QuietKnows
<1>4. Sent(m', pc') /\ PlaceOK(m', pc')  BY <1>1 DEF Sent, PlaceOK
<1>5. WatchOK(m', pc')  BY <1>1 DEF WatchOK
<1>6. Good(m', pc', inq', peer')  BY <1>1, <1>2, <1>3, <1>4, <1>5 DEF Good
<1> QED  BY <1>6 DEF DebuggerInv

LEMMA InterruptStep == ASSUME DebuggerInv, Interrupt PROVE DebuggerInv'
<1>1. Settled(m) /\ PlaceOK(m, pc) /\ WatchOK(m, pc) /\ m \in States  BY DEF DebuggerInv, Good, Settled
<1>2. pc.at = "exec" /\ inq' = inq  BY DEF Interrupt
<1>3. m.stack # <<>> /\ ~m.processing  BY <1>1, <1>2 DEF PlaceOK
<1> DEFINE w == [m EXCEPT !.imm = FALSE]
<1>4. /\ Settled(w) /\ Quiet(m, w) /\ SameView(m, w) /\ Kept(m, w) /\ w.conn = m.conn
      /\ w.paused = m.paused /\ w.detaching = m.detaching /\ w.cb = m.cb
  BY <1>1, ImmOK
<1>5. CASE m.fr
  <2> DEFINE x == [m EXCEPT !.imm = TRUE, !.fr = FALSE]
  <2>1. [m EXCEPT !.fr = FALSE, !.imm = TRUE] = x  BY <1>1 DEF States
  <2>2. Restart(x) /\ peer' = peer  BY <1>5, <2>1 DEF Interrupt
  <2>3. Settled(x) /\ Quiet(m, x) /\ Kept(m, x)  BY <1>1, ForceOK
  <2> HIDE DEF x
  <2>4. x.stack # <<>> /\ ~x.processing  BY <1>3, <2>3 DEF Kept
  <2> QED  BY <1>2, <2>2, <2>3, <2>4, RestartStep
<1>6. CASE ~m.fr /\ ~m.conn /\ ~m.detaching
  <2>1. m' = w /\ pc' = At("op") /\ peer' = peer  BY <1>6 DEF Interrupt
  <2> HIDE DEF w
  <2>2. m'.stack # <<>> /\ ~m'.processing /\ ~m'.conn  BY <1>3, <1>4, <1>6, <2>1 DEF Kept
  <2> QED  BY <1>2, <1>4, <2>1, <2>2, ExecuteStep
<1>7. CASE ~m.fr /\ (m.conn \/ m.detaching)
  <2>1. PICK late, fail \in BOOLEAN :
            LET x == NoticeLine(w)
                y == [x EXCEPT !.dirty = x.dirty \/ late]
            IN  IF y.dirty \/ y.paused \/ y.detaching
                THEN Enter(y, "interrupt", fail)
                ELSE m' = [y EXCEPT !.imm = Last(y.stack).bpa \/
                                            ("LINE_CHANGE" \in y.flags /\ y.act = Depth(y))]
                     /\ pc' = At("op") /\ UNCHANGED peer
    BY <1>3, <1>7 DEF Interrupt
  <2> DEFINE x == NoticeLine(w)
             y == [x EXCEPT !.dirty = x.dirty \/ late]
             v == Last(y.stack).bpa \/ ("LINE_CHANGE" \in y.flags /\ y.act = Depth(y))
  <2>2. IF y.dirty \/ y.paused \/ y.detaching THEN Enter(y, "interrupt", fail)
        ELSE m' = [y EXCEPT !.imm = v] /\ pc' = At("op") /\ UNCHANGED peer
    BY <2>1
  <2> HIDE DEF w
  <2>3. w.stack # <<>> /\ ~w.processing  BY <1>3, <1>4 DEF Kept
  <2>4. /\ Settled(x) /\ Quiet(w, x) /\ x.stack # <<>> /\ x.processing = w.processing
        /\ x.conn = w.conn /\ (~w.conn => x.detaching = w.detaching /\ x.cb = w.cb)
        /\ x.conn /\ ~x.paused => ~w.paused /\ (InSync(w) => InSync(x) /\ Noticed(x))
    BY <1>4, <2>3, NoticeLineOK
  <2> HIDE DEF x
  <2>5. /\ Settled(y) /\ Quiet(x, y) /\ SameView(x, y) /\ Kept(x, y)
        /\ y.conn = x.conn /\ y.paused = x.paused /\ y.detaching = x.detaching /\ y.cb = x.cb
    BY <2>4, DirtyOK
  <2> HIDE DEF y
  <2>6. Quiet(m, y)  BY <1>4, <2>4, <2>5, QuietChain
  <2>7. ASSUME y.conn, ~y.paused PROVE InSync(y) /\ Noticed(y)
    <3>1. m.conn /\ ~m.paused  BY <1>4, <2>4, <2>5, <2>7
    <3>2. InSync(m)  BY <1>1, <1>2, <1>7, <3>1 DEF WatchOK, ExecOK
    <3>3. InSync(w)  BY <1>4, <3>2, ViewKeeps
    <3>4. InSync(x) /\ Noticed(x)  BY <2>4, <2>5, <2>7, <3>3
    <3> QED  BY <2>5, <3>4, ViewKeeps
  <2>8. y.stack # <<>> /\ ~y.processing  BY <2>3, <2>4, <2>5 DEF Kept
  <2>9. CASE y.dirty \/ y.paused \/ y.detaching
    <3>1. Enter(y, "interrupt", fail)  BY <2>2, <2>9
    <3> QED  BY <1>2, <2>5, <2>6, <2>7, <2>8, <3>1, EnterStep
  <2>10. CASE ~(y.dirty \/ y.paused \/ y.detaching)
    <3>1. m' = [y EXCEPT !.imm = v] /\ pc' = At("op") /\ peer' = peer  BY <2>2, <2>10
    <3>2. y \in States /\ Last(y.stack) = Curr(y) /\ Depth(y) = Len(y.stack) /\ Curr(y) \in Frames
      BY <2>5, <2>8, TopFrame DEF Settled
    <3>3. v \in BOOLEAN /\ (Watched(y) => v)  BY <3>2 DEF Watched, Stepping, Frames
    <3> HIDE DEF v
    <3>4. /\ Settled(m') /\ Quiet(y, m') /\ SameView(y, m') /\ Kept(y, m') /\ m'.imm = v
          /\ m'.conn = y.conn /\ m'.paused = y.paused
      BY <2>5, <3>1, <3>3, ImmOK
    <3>5. Quiet(m, m')  BY <2>6, <3>4, QuietChain
    <3>6. m'.stack # <<>> /\ ~m'.processing  BY <2>8, <3>4 DEF Kept
    <3>7. m'.conn /\ ~m'.paused => InSync(m') /\ Noticed(m') /\ (Watched(m') => m'.imm)
      BY <2>7, <3>3, <3>4, ViewKeeps
    <3> QED  BY <1>2, <3>1, <3>4, <3>5, <3>6, <3>7, ExecuteStep
  <2> QED  BY <2>9, <2>10
<1> QED  BY <1>5, <1>6, <1>7

LEMMA ReturnStep == ASSUME DebuggerInv, Return PROVE DebuggerInv'
<1>1. /\ Settled(m) /\ PlaceOK(m, pc) /\ WatchOK(m, pc) /\ m \in States /\ pc \in Places
      /\ inq \in Seq(Messages) /\ peer \in Clients /\ Knows(m, peer) /\ Owes(m, inq, peer)
  BY DEF DebuggerInv, Good, Settled
<1>2. pc.at = "return" /\ inq' = inq /\ peer' = peer  BY DEF Return
<1>3. ~m.processing /\ pc.ret \in {"interrupt", "debugger", "throw", "cooperate"}
      /\ (pc.ret = "cooperate" <=> m.stack = <<>>)
  BY <1>1, <1>2 DEF PlaceOK, Places
<1>4. CASE pc.ret \in {"cooperate", "throw"}
  <2>1. PICK a \in {"idle", "unwind"} : pc' = At(a) /\ m' = m /\ (a = "idle" <=> m.stack = <<>>)
    BY <1>3, <1>4 DEF Return
  <2>2. pc' \in Places /\ pc'.at = a  BY <2>1, AtFields
  <2>3. Sent(m', pc') /\ WatchOK(m', pc') /\ PlaceOK(m', pc')
    BY <1>3, <2>1, <2>2 DEF Sent, WatchOK, PlaceOK
  <2>4. Good(m', pc', inq', peer')  BY <1>1, <1>2, <2>1, <2>2, <2>3 DEF Good
  <2> QED  BY <2>4 DEF DebuggerInv
<1>5. CASE pc.ret = "debugger"
  <2>1. Restart(m)  BY <1>5 DEF Return
  <2>2. Quiet(m, m)  BY <1>1, Untouched
  <2>3. m.stack # <<>>  BY <1>3, <1>5
  <2> QED  BY <1>1, <1>2, <1>3, <2>1, <2>2, <2>3, RestartStep
<1>6. CASE pc.ret = "interrupt"
  <2> DEFINE v == m.conn /\ (Last(m.stack).bpa \/ m.paused \/
                                  ("LINE_CHANGE" \in m.flags /\ m.act = Depth(m)))
             x == [m EXCEPT !.imm = v]
  <2>1. IF m.conn /\ pc.got THEN Restart(x) ELSE m' = x /\ pc' = At("op")  BY <1>6 DEF Return
  <2>2. m.stack # <<>>  BY <1>3, <1>6
  <2>3. Last(m.stack) = Curr(m) /\ Depth(m) = Len(m.stack)  BY <1>1, <2>2, TopFrame
  <2>4. v \in BOOLEAN /\ (m.conn /\ Watched(m) => v)  BY <2>3 DEF Watched, Stepping
  <2> HIDE DEF v
  <2>5. /\ Settled(x) /\ Quiet(m, x) /\ SameView(m, x) /\ Kept(m, x) /\ x.imm = v
        /\ x.conn = m.conn /\ x.paused = m.paused
    BY <1>1, <2>4, ImmOK
  <2> HIDE DEF x
  <2>6. x.stack # <<>> /\ ~x.processing  BY <1>3, <2>2, <2>5 DEF Kept
  <2>7. CASE m.conn /\ pc.got
    <3>1. Restart(x)  BY <2>1, <2>7
    <3> QED  BY <1>2, <2>5, <2>6, <3>1, RestartStep
  <2>8. CASE ~(m.conn /\ pc.got)
    <3>1. m' = x /\ pc' = At("op")  BY <2>1, <2>8
    <3>2. x.conn /\ ~x.paused => InSync(m) /\ Noticed(m)  BY <1>1, <1>2, <1>6, <2>5, <2>8 DEF WatchOK
    <3>3. x.conn /\ ~x.paused => InSync(x) /\ Noticed(x) /\ (Watched(x) => x.imm)
      BY <2>4, <2>5, <3>2, ViewKeeps
    <3> QED  BY <1>2, <2>5, <2>6, <3>1, <3>3, ExecuteStep
  <2> QED  BY <2>7, <2>8
<1> QED  BY <1>3, <1>4, <1>5, <1>6

LEMMA RunningFacts ==
  ASSUME DebuggerInv, Running
  PROVE  /\ Settled(m) /\ m \in States /\ m.stack # <<>> /\ ~m.processing /\ pc.at \in {"op", "exec"}
         /\ Curr(m) \in Frames /\ Last(m.stack) = Curr(m) /\ Depth(m) = Len(m.stack)
         /\ m.conn /\ ~m.paused => InSync(m) /\ Noticed(m) /\ (Watched(m) => m.imm)
<1>1. Settled(m) /\ PlaceOK(m, pc) /\ WatchOK(m, pc) /\ m \in States  BY DEF DebuggerInv, Good, Settled
<1>2. pc.at = "op" \/ (pc.at = "exec" /\ ~m.imm)  BY DEF Running
<1>3. m.stack # <<>> /\ ~m.processing  BY <1>1, <1>2 DEF PlaceOK
<1>4. Curr(m) \in Frames /\ Last(m.stack) = Curr(m) /\ Depth(m) = Len(m.stack)
  BY <1>1, <1>3, TopFrame
<1>5. m.conn /\ ~m.paused => InSync(m) /\ Noticed(m) /\ (Watched(m) => m.imm)
  BY <1>1, <1>2 DEF WatchOK, ExecOK, InSync, Noticed, Watched
<1> QED  BY <1>1, <1>2, <1>3, <1>4, <1>5

LEMMA StepStep == ASSUME DebuggerInv, Step PROVE DebuggerInv'
<1>1. /\ Settled(m) /\ m \in States /\ m.stack # <<>> /\ ~m.processing
      /\ Curr(m) \in Frames /\ Last(m.stack) = Curr(m) /\ Depth(m) = Len(m.stack)
      /\ m.conn /\ ~m.paused => InSync(m) /\ Noticed(m) /\ (Watched(m) => m.imm)
  BY RunningFacts DEF Step
<1>2. PICK l \in Lines[Curr(m).fn] : m' = [m EXCEPT !.stack[Len(m.stack)].line = l]
  BY <1>1 DEF Step
<1>3. pc' = At("exec") /\ inq' = inq /\ peer' = peer  BY DEF Step
<1>4. l \in Nat  BY <1>1, DebuggerAssumption DEF Frames
<1> DEFINE t == [Curr(m) EXCEPT !.line = l]
           s == [m.stack EXCEPT ![Len(m.stack)] = t]
<1>5. m' = [m EXCEPT !.stack = s]  BY <1>1, <1>2 DEF Curr
<1>6. t \in Frames /\ t.native = Curr(m).native /\ t.fn = Curr(m).fn /\ t.bpa = Curr(m).bpa
  BY <1>1, <1>4 DEF Frames
<1>7. m.stack[1].native  BY <1>1 DEF Settled
<1> HIDE DEF t
<1>8. s \in Seq(Frames) /\ Len(s) = Len(m.stack) /\ s # <<>> /\ s[Len(s)] = t /\ s[1].native
  BY <1>1, <1>6, <1>7, NewTop
<1> HIDE DEF s
<1>9. /\ m' \in States /\ m'.stack = s /\ m'.conn = m.conn /\ m'.paused = m.paused
      /\ m'.dirty = m.dirty /\ m'.detaching = m.detaching /\ m'.cb = m.cb /\ m'.prevent = m.prevent
      /\ m'.flags = m.flags /\ m'.act = m.act /\ m'.bps = m.bps /\ m'.processing = m.processing
      /\ m'.active = m.active /\ m'.imm = m.imm
  BY <1>1, <1>5, <1>8 DEF States
<1>10. Settled(m') /\ Quiet(m, m')  BY <1>1, <1>8, <1>9 DEF Settled, Quiet
<1>11. Curr(m') = t  BY <1>8, <1>9 DEF Curr
<1>12. InSync(m) => InSync(m')  BY <1>6, <1>9, <1>11 DEF InSync, Matching
<1>13. Watched(m') => Watched(m)  BY <1>6, <1>8, <1>9, <1>11 DEF Watched, Stepping
<1>14. pc' \in Places /\ pc'.at = "exec" /\ pc'.ret = "none"  BY <1>3, AtFields
<1>15. inq \in Seq(Messages) /\ peer \in Clients /\ Knows(m, peer) /\ Owes(m, inq, peer)
  BY DEF DebuggerInv, Good
<1>16. Knows(m', peer) /\ Owes(m', inq, peer)  BY <1>10, <1>15, QuietKnows
<1>17. Sent(m', pc') /\ PlaceOK(m', pc')  BY <1>1, <1>8, <1>9, <1>14 DEF Sent, PlaceOK
<1>18. WatchOK(m', pc')  BY <1>1, <1>9, <1>12, <1>13, <1>14 DEF WatchOK, ExecOK
<1>19. Good(m', pc', inq', peer')  BY <1>3, <1>10, <1>14, <1>15, <1>16, <1>17, <1>18 DEF Good
<1> QED  BY <1>19 DEF DebuggerInv

LEMMA FrameOK ==
  ASSUME NEW f \in Fns, NEW l \in Lines[f], NEW n \in BOOLEAN
  PROVE  Frame(f, l, n) \in Frames /\ Frame(f, l, n).native = n
<1>1. l \in Nat  BY DebuggerAssumption
<1> QED  BY <1>1 DEF Frame, Frames

LEMMA CallStep ==
  ASSUME DebuggerInv, NEW f \in Fns, NEW native \in BOOLEAN, Call(f, native) PROVE DebuggerInv'
<1>1. Settled(m) /\ m \in States /\ ~m.processing /\ (m.stack = <<>> => native)
  <2>1. Settled(m) /\ PlaceOK(m, pc) /\ m \in States  BY DEF DebuggerInv, Good, Settled
  <2>2. CASE Running  BY <2>2, RunningFacts
  <2>3. CASE pc.at = "idle" /\ native  BY <2>1, <2>3 DEF PlaceOK
  <2> QED  BY <2>2, <2>3 DEF Call
<1>2. PICK l \in Lines[f] : Restart([m EXCEPT !.stack = Append(m.stack, Frame(f, l, native))])
  BY DEF Call
<1>3. inq' = inq /\ peer' = peer  BY DEF Call
<1> DEFINE t == Frame(f, l, native)
           s == Append(m.stack, t)
           x == [m EXCEPT !.stack = s]
<1>4. Restart(x)  BY <1>2
<1>5. t \in Frames /\ t.native = native  BY FrameOK
<1> HIDE DEF t
<1>6. m.stack \in Seq(Frames) /\ Len(m.stack) \in Nat  BY <1>1 DEF States
<1>7. s \in Seq(Frames) /\ Len(s) = Len(m.stack) + 1 /\ s # <<>>  BY <1>5, <1>6
<1>8. s[1].native
  <2>1. CASE m.stack = <<>>
    <3>1. s[1] = t  BY <1>6, <2>1
    <3> QED  BY <1>1, <1>5, <2>1, <3>1
  <2>2. CASE m.stack # <<>>
    <3>1. s[1] = m.stack[1]  BY <1>6, <2>2
    <3> QED  BY <1>1, <2>2, <3>1 DEF Settled
  <2> QED  BY <2>1, <2>2
<1> HIDE DEF s
<1>9. /\ x \in States /\ x.stack = s /\ x.conn = m.conn /\ x.paused = m.paused
      /\ x.dirty = m.dirty /\ x.detaching = m.detaching /\ x.cb = m.cb /\ x.prevent = m.prevent
      /\ x.flags = m.flags /\ x.act = m.act /\ x.processing = m.processing /\ x.active = m.active
  BY <1>1, <1>7 DEF States
<1> HIDE DEF x
<1>10. Settled(x)
  <2>1. x.act \in Nat /\ x.act <= Len(s)  BY <1>1, <1>6, <1>7, <1>9 DEF Settled, States
  <2> QED  BY <1>1, <1>8, <1>9, <2>1 DEF Settled
<1>11. Quiet(m, x)  BY <1>9 DEF Quiet
<1>12. x.stack # <<>> /\ ~x.processing  BY <1>1, <1>7, <1>9
<1> QED  BY <1>3, <1>4, <1>10, <1>11, <1>12, RestartStep

LEMMA ReturnOpStep == ASSUME DebuggerInv, ReturnOp PROVE DebuggerInv'
<1>1. /\ Settled(m) /\ m \in States /\ m.stack # <<>> /\ ~m.processing
      /\ Curr(m) \in Frames /\ Last(m.stack) = Curr(m)
  BY RunningFacts DEF ReturnOp
<1> DEFINE x == Unwind(m, 1)
<1>2. IF ~Curr(m).native THEN Restart(x)
      ELSE m' = ForceRestart(x) /\ pc' = At(IF x.stack = <<>> THEN "idle" ELSE "exec")
  BY <1>1 DEF ReturnOp
<1>3. inq' = inq /\ peer' = peer  BY DEF ReturnOp
<1>4. m.stack \in Seq(Frames) /\ Len(m.stack) \in Nat /\ Len(m.stack) >= 1  BY <1>1, TopFrame DEF States
<1>5. 1 \in 0..Len(m.stack)  BY <1>4
<1>6. /\ Settled(x) /\ Quiet(m, x) /\ x.processing = m.processing
      /\ x.stack = SubSeq(m.stack, 1, Len(m.stack) - 1)
  BY <1>1, <1>5, UnwindOK
<1> HIDE DEF x
<1>7. CASE ~Curr(m).native
  <2>1. Restart(x)  BY <1>2, <1>7
  <2>2. Len(m.stack) # 1  BY <1>1, <1>7 DEF Settled, Curr
  <2>3. x.stack # <<>>
    <3>1. \A i \in 1..Len(m.stack) - 1 : m.stack[i] \in Frames  BY <1>4
    <3>2. Len(x.stack) = Len(m.stack) - 1  BY <1>4, <1>6, <2>2, <3>1, SubSeqProperties
    <3>3. Len(x.stack) # 0  BY <1>4, <2>2, <3>2
    <3> QED  BY <3>3
  <2> QED  BY <1>1, <1>3, <1>6, <2>1, <2>3, RestartStep
<1>8. CASE Curr(m).native
  <2> DEFINE a == IF x.stack = <<>> THEN "idle" ELSE "exec"
  <2>1. m' = ForceRestart(x) /\ pc' = At(a)  BY <1>2, <1>8
  <2>2. /\ Settled(m') /\ Quiet(x, m') /\ Kept(x, m') /\ (m'.conn => m'.imm /\ m'.fr)
    <3>1. CASE x.conn
      <4>1. m' = [x EXCEPT !.imm = TRUE, !.fr = TRUE]  BY <2>1, <3>1 DEF ForceRestart
      <4> QED  BY <1>6, <4>1, ForceOK
    <3>2. CASE ~x.conn
      <4>1. m' = x  BY <2>1, <3>2 DEF ForceRestart
      <4>2. x \in States  BY <1>6 DEF Settled
      <4> QED  BY <1>6, <3>2, <4>1, <4>2, Untouched
    <3> QED  BY <3>1, <3>2
  <2>3. pc' \in Places /\ pc'.at = a /\ pc'.ret = "none"  BY <2>1, AtFields
  <2>4. inq \in Seq(Messages) /\ peer \in Clients /\ Knows(m, peer) /\ Owes(m, inq, peer)
    BY DEF DebuggerInv, Good
  <2>5. Knows(m', peer) /\ Owes(m', inq, peer)  BY <1>6, <2>2, <2>4, QuietChain, QuietKnows
  <2>6. Sent(m', pc') /\ WatchOK(m', pc')  BY <2>2, <2>3 DEF Sent, WatchOK, ExecOK
  <2>7. PlaceOK(m', pc')  BY <1>1, <1>6, <2>2, <2>3 DEF PlaceOK, Kept
  <2>8. Good(m', pc', inq', peer')  BY <1>3, <2>2, <2>3, <2>4, <2>5, <2>6, <2>7 DEF Good
  <2> QED  BY <2>8 DEF DebuggerInv
<1> QED  BY <1>7, <1>8

LEMMA UnwindOpStep == ASSUME DebuggerInv, UnwindOp PROVE DebuggerInv'
<1>1. Settled(m) /\ PlaceOK(m, pc) /\ m \in States /\ inq \in Seq(Messages) /\ peer \in Clients
      /\ Knows(m, peer) /\ Owes(m, inq, peer)
  BY DEF DebuggerInv, Good, Settled
<1>2. pc.at = "unwind" /\ inq' = inq /\ peer' = peer  BY DEF UnwindOp
<1>3. m.stack # <<>> /\ ~m.processing  BY <1>1, <1>2 DEF PlaceOK
<1>4. m.stack \in Seq(Frames) /\ Len(m.stack) \in Nat /\ Depth(m) = Len(m.stack)
  BY <1>1 DEF States, Depth
<1>5. ASSUME NEW k \in 0..Len(m.stack) - 1, Restart(Unwind(m, k)) PROVE DebuggerInv'
  <2> DEFINE x == Unwind(m, k)
  <2>1. k \in 0..Len(m.stack) /\ k \in Int  BY <1>4
  <2>2. /\ Settled(x) /\ Quiet(m, x) /\ x.processing = m.processing
        /\ x.stack = SubSeq(m.stack, 1, Len(m.stack) - k)
    BY <1>1, <2>1, UnwindOK
  <2> HIDE DEF x
  <2>3. Restart(x)  BY <1>5 DEF x
  <2>4. x.stack # <<>>
    <3>1. \A i \in 1..Len(m.stack) - k : m.stack[i] \in Frames  BY <1>4, <2>1
    <3>2. Len(m.stack) - k \in Int /\ 1 <= Len(m.stack) - k  BY <1>4, <1>5
    <3>3. Len(x.stack) = Len(m.stack) - k  BY <2>2, <3>1, <3>2, SubSeqProperties
    <3> QED  BY <1>4, <3>2, <3>3
  <2> QED  BY <1>2, <1>3, <2>2, <2>3, <2>4, RestartStep
<1>6. ASSUME m' = Unwind(m, Len(m.stack)), pc' = At("idle") PROVE DebuggerInv'
  <2>1. Len(m.stack) \in 0..Len(m.stack)  BY <1>4
  <2>2. /\ Settled(m') /\ Quiet(m, m') /\ m'.processing = m.processing
        /\ m'.stack = SubSeq(m.stack, 1, Len(m.stack) - Len(m.stack))
    BY <1>1, <1>6, <2>1, UnwindOK
  <2>3. m'.stack = <<>>
    <3>1. Len(m.stack) - Len(m.stack) = 0  BY <1>4
    <3> QED  BY <2>2, <3>1, SubSeqEmpty
  <2>4. pc' \in Places /\ pc'.at = "idle" /\ pc'.ret = "none"  BY <1>6, AtFields
  <2>5. Knows(m', peer) /\ Owes(m', inq, peer)  BY <1>1, <2>2, QuietKnows
  <2>6. Sent(m', pc') /\ WatchOK(m', pc') /\ PlaceOK(m', pc')
    BY <1>3, <2>2, <2>3, <2>4 DEF Sent, WatchOK, PlaceOK
  <2>7. Good(m', pc', inq', peer')  BY <1>1, <1>2, <2>2, <2>4, <2>5, <2>6 DEF Good
  <2> QED  BY <2>7 DEF DebuggerInv
<1> QED  BY <1>4, <1>5, <1>6 DEF UnwindOp

LEMMA TailCallStep == ASSUME DebuggerInv, NEW f \in Fns, TailCall(f) PROVE DebuggerInv'
<1>1. /\ Settled(m) /\ m \in States /\ m.stack # <<>> /\ ~m.processing
      /\ Curr(m) \in Frames /\ Last(m.stack) = Curr(m) /\ Depth(m) = Len(m.stack)
  BY RunningFacts DEF TailCall
<1> DEFINE g == m.flags \ {"LINE_CHANGE"}
           x == IF m.act = Depth(m) THEN [m EXCEPT !.flags = g] ELSE m
           u == [x EXCEPT !.act = 0]
           y == IF "FUNC_ENTRY" \in x.flags THEN SetPaused(u) ELSE x
<1>2. PICK l \in Lines[f] :
        Restart([y EXCEPT !.act = x.act,
                          !.stack = Append(Front(y.stack), Frame(f, l, Last(m.stack).native))])
  BY Zenon DEF TailCall
<1>3. inq' = inq /\ peer' = peer  BY DEF TailCall
<1> DEFINE t == Frame(f, l, Curr(m).native)
           a == x.act
           s == Append(Front(y.stack), t)
           z == [y EXCEPT !.act = a, !.stack = s]
<1>4. Restart(z)  BY <1>1, <1>2, Zenon
<1>5. t \in Frames /\ t.native = Curr(m).native
  <2>1. Curr(m).native \in BOOLEAN  BY <1>1 DEF Frames
  <2> QED  BY <2>1, FrameOK
<1>6. /\ Settled(x) /\ Quiet(m, x) /\ Kept(m, x) /\ x.act = m.act
  <2>1. CASE m.act = Depth(m)
    <3>1. x = [m EXCEPT !.flags = g]  BY <2>1
    <3>2. g \in SUBSET PauseFlags /\ (g # {} => m.flags # {})  BY <1>1 DEF States
    <3> HIDE DEF x, g
    <3>3. /\ x \in States /\ x.stack = m.stack /\ x.conn = m.conn /\ x.paused = m.paused
          /\ x.dirty = m.dirty /\ x.detaching = m.detaching /\ x.cb = m.cb /\ x.prevent = m.prevent
          /\ x.flags = g /\ x.act = m.act /\ x.processing = m.processing /\ x.active = m.active
      <4>1. [m EXCEPT !.flags = g] \in States  BY <1>1, <3>2 DEF States
      <4> QED  BY <1>1, <3>1, <4>1 DEF States
    <3>4. m.flags = {} => g = {}  BY <3>2
    <3> QED  BY <1>1, <3>2, <3>3, <3>4 DEF Settled, Quiet, Kept
  <2>2. CASE m.act # Depth(m)
    <3>1. x = m  BY <2>2
    <3> HIDE DEF x
    <3> QED  BY <1>1, <3>1, Untouched
  <2> QED  BY <2>1, <2>2
<1> HIDE DEF x, t
<1>7. Settled(y) /\ Quiet(x, y) /\ Kept(x, y)
  <2>1. CASE "FUNC_ENTRY" \in x.flags
    <3>0. x \in States /\ x.conn  BY <1>6, <2>1 DEF Settled
    <3>1. /\ u \in States /\ u.stack = x.stack /\ u.conn = x.conn /\ u.paused = x.paused
          /\ u.dirty = x.dirty /\ u.detaching = x.detaching /\ u.cb = x.cb /\ u.prevent = x.prevent
          /\ u.flags = x.flags /\ u.act = 0 /\ u.processing = x.processing /\ u.active = x.active
      BY <3>0 DEF States
    <3>2. y = SetPaused(u)  BY <2>1
    <3> HIDE DEF u, y
    <3>3. 0 <= Len(u.stack)  BY <3>1 DEF States
    <3>4. Settled(u) /\ Quiet(x, u) /\ Kept(x, u)  BY <1>6, <3>1, <3>3 DEF Settled, Quiet, Kept
    <3>5. Settled(y) /\ Quiet(u, y) /\ Kept(u, y)  BY <3>0, <3>1, <3>2, <3>4, SetPausedOK
    <3> QED  BY <3>4, <3>5, QuietChain, KeptChain
  <2>2. CASE "FUNC_ENTRY" \notin x.flags
    <3>1. y = x /\ x \in States  BY <1>6, <2>2 DEF Settled
    <3> HIDE DEF y
    <3> QED  BY <1>6, <3>1, Untouched
  <2> QED  BY <2>1, <2>2
<1> HIDE DEF y
<1>8. y.stack = m.stack /\ y.processing = m.processing  BY <1>6, <1>7 DEF Kept
<1>9. m.stack \in Seq(Frames) /\ Len(m.stack) \in Nat /\ Len(m.stack) >= 1
  BY <1>1, TopFrame DEF States
<1>10. s \in Seq(Frames) /\ Len(s) = Len(m.stack) /\ s[1].native
  <2> DEFINE h == Front(m.stack)
  <2>1. h = SubSeq(m.stack, 1, Len(m.stack) - 1)  BY DEF Front
  <2>2. \A i \in 1..Len(m.stack) - 1 : m.stack[i] \in Frames  BY <1>9
  <2>3. h \in Seq(Frames) /\ Len(h) = Len(m.stack) - 1
        /\ \A i \in 1..Len(m.stack) - 1 : h[i] = m.stack[i]
    <3>1. Len(m.stack) - 1 \in Int /\ 1 \in Int /\ (Len(m.stack) - 1) - 1 + 1 = Len(m.stack) - 1  BY <1>9
    <3>2. h \in Seq(Frames)  BY <2>1, <2>2, <3>1, SubSeqProperties
    <3>3. Len(h) = Len(m.stack) - 1  BY <1>9, <2>1, <2>2, <3>1, SubSeqProperties
    <3>4. \A i \in 1..Len(m.stack) - 1 : h[i] = m.stack[i]  BY <1>9, <2>1, <2>2, <3>1
    <3> QED  BY <3>2, <3>3, <3>4
  <2> HIDE DEF h
  <2>4. s = Append(h, t)  BY <1>8 DEF h
  <2>5. s \in Seq(Frames) /\ Len(s) = Len(m.stack)  BY <1>5, <1>9, <2>3, <2>4
  <2>6. CASE Len(m.stack) = 1
    <3>1. s[1] = t  BY <1>9, <2>3, <2>4, <2>6
    <3>2. Curr(m).native  BY <1>1, <2>6 DEF Settled, Curr
    <3> QED  BY <1>5, <2>5, <3>1, <3>2
  <2>7. CASE Len(m.stack) # 1
    <3>0. \A n \in Nat : n >= 1 /\ n # 1 => 1 \in 1..n - 1  OBVIOUS
    <3>1. 1 \in 1..Len(m.stack) - 1  BY <1>9, <2>7, <3>0
    <3>2. s[1] = h[1] /\ h[1] = m.stack[1]  BY <2>3, <2>4, <3>1
    <3>3. m.stack[1].native  BY <1>1 DEF Settled
    <3> QED  BY <2>5, <3>2, <3>3
  <2> QED  BY <2>6, <2>7
<1>11. a \in Nat /\ a <= Len(s)  BY <1>1, <1>6, <1>10 DEF Settled, States
<1>12. y \in States  BY <1>7 DEF Settled
<1> HIDE DEF a, s
<1>13. /\ z \in States /\ z.stack = s /\ z.conn = y.conn /\ z.paused = y.paused
       /\ z.dirty = y.dirty /\ z.detaching = y.detaching /\ z.cb = y.cb /\ z.prevent = y.prevent
       /\ z.flags = y.flags /\ z.act = a /\ z.processing = y.processing /\ z.active = y.active
  BY <1>10, <1>11, <1>12 DEF States
<1> HIDE DEF z
<1>14. Settled(z) /\ Quiet(y, z)  BY <1>7, <1>10, <1>11, <1>13 DEF Settled, Quiet
<1>15. Quiet(m, z)  BY <1>6, <1>7, <1>14, QuietChain
<1>16. Len(z.stack) # 0  BY <1>9, <1>10, <1>13
<1>17. z.stack # <<>> /\ ~z.processing  BY <1>1, <1>8, <1>13, <1>16
<1> QED  BY <1>3, <1>4, <1>14, <1>15, <1>17, RestartStep

LEMMA HaltOK ==
  ASSUME NEW x, Settled(x), x.conn
  PROVE  LET y == [SetPaused(x) EXCEPT !.dirty = TRUE]
         IN  Settled(y) /\ Quiet(x, y) /\ Kept(x, y) /\ y.paused
<1> DEFINE w == SetPaused(x)
           y == [w EXCEPT !.dirty = TRUE]
<1>1. Settled(w) /\ w.conn /\ w.paused /\ Quiet(x, w) /\ Kept(x, w)  BY SetPausedOK
<1>2. w \in States  BY <1>1 DEF Settled
<1> HIDE DEF w
<1>3. /\ y \in States /\ y.stack = w.stack /\ y.conn = w.conn /\ y.paused = w.paused
      /\ y.dirty = TRUE /\ y.detaching = w.detaching /\ y.cb = w.cb /\ y.prevent = w.prevent
      /\ y.flags = w.flags /\ y.act = w.act /\ y.processing = w.processing /\ y.active = w.active
  BY <1>2 DEF States
<1> HIDE DEF y
<1>4. Settled(y) /\ Quiet(x, y) /\ Kept(x, y) /\ y.paused  BY <1>1, <1>3 DEF Settled, Quiet, Kept
<1> QED  BY <1>4 DEF y, w

LEMMA DebuggerOpStep == ASSUME DebuggerInv, DebuggerOp PROVE DebuggerInv'
<1>1. Settled(m) /\ m.stack # <<>> /\ m.conn /\ inq' = inq  BY RunningFacts DEF DebuggerOp
<1> DEFINE x == [SetPaused(m) EXCEPT !.dirty = TRUE]
<1>2. PICK fail \in BOOLEAN : Enter(x, "debugger", fail)  BY DEF DebuggerOp
<1>3. Settled(x) /\ Quiet(m, x) /\ Kept(m, x)  BY <1>1, HaltOK
<1> HIDE DEF x
<1>4. x.stack # <<>>  BY <1>1, <1>3 DEF Kept
<1> QED  BY <1>1, <1>2, <1>3, <1>4, EnterStep

LEMMA ThrowStep == ASSUME DebuggerInv, NEW caught \in BOOLEAN, Throw(caught) PROVE DebuggerInv'
<1>1. Settled(m) /\ m \in States /\ m.stack # <<>> /\ ~m.processing /\ inq' = inq
  BY RunningFacts DEF Throw
<1>2. PICK f1, f2 \in BOOLEAN :
       LET x == Write(m, f1)
       IN  IF ~m.conn \/ m.processing THEN UNCHANGED <<m, peer>> /\ pc' = At("unwind")
           ELSE IF ~caught /\ "UNCAUGHT" \in x.flags
                THEN Enter([SetPaused(x) EXCEPT !.dirty = TRUE], "throw", f2)
                ELSE m' = x /\ pc' = At("unwind") /\ UNCHANGED peer
  BY DEF Throw
<1> DEFINE x == Write(m, f1)
           y == [SetPaused(x) EXCEPT !.dirty = TRUE]
<1>3. \/ m' = m /\ peer' = peer /\ pc' = At("unwind")
      \/ m' = x /\ peer' = peer /\ pc' = At("unwind")
      \/ "UNCAUGHT" \in x.flags /\ Enter(y, "throw", f2)
  BY <1>2
<1>4. Settled(x) /\ Kept(m, x) /\ Quiet(m, x)  BY <1>1, WriteSettled
<1> HIDE DEF x
<1>5. CASE "UNCAUGHT" \in x.flags /\ Enter(y, "throw", f2)
  <2>1. x.conn  BY <1>4, <1>5 DEF Settled
  <2>2. Settled(y) /\ Quiet(x, y) /\ Kept(x, y)  BY <1>4, <2>1, HaltOK
  <2> HIDE DEF y
  <2>3. Quiet(m, y) /\ y.stack # <<>>  BY <1>1, <1>4, <2>2, QuietChain DEF Kept
  <2> QED  BY <1>1, <1>5, <2>2, <2>3, EnterStep
<1>6. CASE (m' = m \/ m' = x) /\ peer' = peer /\ pc' = At("unwind")
  <2>1. Settled(m') /\ Quiet(m, m') /\ Kept(m, m')  BY <1>1, <1>4, <1>6, Untouched
  <2>2. pc' \in Places /\ pc'.at = "unwind" /\ pc'.ret = "none"  BY <1>6, AtFields
  <2>3. inq \in Seq(Messages) /\ peer \in Clients /\ Knows(m, peer) /\ Owes(m, inq, peer)
    BY DEF DebuggerInv, Good
  <2>4. Knows(m', peer) /\ Owes(m', inq, peer)  BY <2>1, <2>3, QuietKnows
  <2>5. Sent(m', pc') /\ WatchOK(m', pc') /\ PlaceOK(m', pc')
    BY <1>1, <2>1, <2>2 DEF Sent, WatchOK, PlaceOK, Kept
  <2>6. Good(m', pc', inq', peer')  BY <1>1, <1>6, <2>1, <2>2, <2>3, <2>4, <2>5 DEF Good
  <2> QED  BY <2>6 DEF DebuggerInv
<1> QED  BY <1>3, <1>5, <1>6

-----------------------------------------------------------------------------
(* The application and the client.                                         *)

LEMMA InAppFacts ==
  ASSUME DebuggerInv, InApp
  PROVE  Settled(m) /\ m \in States /\ ~m.processing /\ pc.at \in {"idle", "op", "exec"}
<1>1. Settled(m) /\ PlaceOK(m, pc) /\ m \in States  BY DEF DebuggerInv, Good, Settled
<1>2. CASE Running  BY <1>2, RunningFacts
<1>3. CASE pc.at = "idle"  BY <1>1, <1>3 DEF PlaceOK
<1> QED  BY <1>2, <1>3 DEF InApp

LEMMA AttachApiStep == ASSUME DebuggerInv, AttachApi PROVE DebuggerInv'
<1>1. /\ Settled(m) /\ pc.at \in {"idle", "op", "exec"} /\ ~m.conn /\ ~m.detaching
      /\ inq' = <<>> /\ pc' = pc
  BY InAppFacts DEF AttachApi
<1>2. PICK fail \in BOOLEAN : m' = Attach(m, fail)  BY DEF AttachApi
<1>3. Settled(m') /\ m'.stack = m.stack /\ ~m'.processing
      /\ (m'.conn => m'.paused /\ (m'.dirty \/ m.paused))
  BY <1>1, <1>2, AttachOK
<1>4. peer' \in Clients /\ peer'.owed = 0 /\ (m.paused => peer'.status = "unsaid")
  BY DEF AttachApi, NoPeer, Clients
<1> QED  BY <1>1, <1>3, <1>4, FreshStep

LEMMA DetachApiStep == ASSUME DebuggerInv, DetachApi PROVE DebuggerInv'
<1>1. /\ Settled(m) /\ pc.at \in {"idle", "op", "exec"}
      /\ inq' = <<>> /\ peer' = NoPeer /\ pc' = pc /\ ~m.processing
  BY InAppFacts DEF DetachApi
<1> DEFINE x == Detach1(m)
<1>2. PICK again, fail \in BOOLEAN : m' = Detach2(x, again, fail)  BY DEF DetachApi
<1>3. Settled(x) /\ ~x.conn /\ x.detaching /\ Kept(m, x)
  <2>1. CASE m.conn \/ ~m.detaching
    <3>1. Gone(m, x)  BY <1>1, <2>1, DetachOK
    <3> HIDE DEF x
    <3> QED  BY <3>1, GoneOK DEF Gone
  <2>2. CASE ~m.conn /\ m.detaching
    <3>1. x = m  BY <1>1, <2>2 DEF Detach1
    <3> QED  BY <1>1, <2>2, <3>1 DEF Kept
  <2> QED  BY <2>1, <2>2
<1> HIDE DEF x
<1>4. /\ Settled(m') /\ m'.stack = x.stack /\ (m'.conn => m'.paused /\ m'.dirty)
      /\ ~x.processing => ~m'.processing
  BY <1>2, <1>3, Detach2OK
<1>5. m'.stack = m.stack /\ ~m'.processing  BY <1>1, <1>3, <1>4 DEF Kept
<1>6. peer' \in Clients /\ peer'.owed = 0  BY <1>1 DEF NoPeer, Clients
<1> QED  BY <1>1, <1>4, <1>5, <1>6, FreshStep

\* A step of the application that leaves no running target to be watched.
LEMMA AppStep ==
  ASSUME DebuggerInv, Settled(m'), Quiet(m, m'), Kept(m, m'), m'.conn => m'.paused,
         pc.at # "read", UNCHANGED <<pc, inq, peer>>
  PROVE  DebuggerInv'
<1>1. /\ pc \in Places /\ inq \in Seq(Messages) /\ peer \in Clients
      /\ Knows(m, peer) /\ Owes(m, inq, peer) /\ PlaceOK(m, pc)
  BY DEF DebuggerInv, Good
<1>2. Knows(m', peer) /\ Owes(m', inq, peer)  BY <1>1, QuietKnows
<1>3. Sent(m', pc') /\ WatchOK(m', pc')  BY DEF Sent, WatchOK
<1>4. PlaceOK(m', pc')  BY <1>1 DEF PlaceOK, Kept
<1>5. Good(m', pc', inq', peer')  BY <1>1, <1>2, <1>3, <1>4 DEF Good
<1> QED  BY <1>5 DEF DebuggerInv

LEMMA NotifyApiStep == ASSUME DebuggerInv, NotifyApi PROVE DebuggerInv'
<1>1. Settled(m) /\ m.conn /\ pc.at # "read" /\ m' = Broken(m) /\ UNCHANGED <<pc, inq, peer>>
  BY InAppFacts DEF NotifyApi, Write
<1>2. Gone(m, m')  BY <1>1, BrokenOK
<1>3. Settled(m') /\ ~m'.conn /\ Kept(m, m') /\ Quiet(m, m')  BY <1>2, GoneOK
<1> QED  BY <1>1, <1>3, AppStep

LEMMA PauseApiStep == ASSUME DebuggerInv, PauseApi PROVE DebuggerInv'
<1>1. Settled(m) /\ m.conn /\ pc.at # "read" /\ UNCHANGED <<pc, inq, peer>>
  BY InAppFacts DEF PauseApi
<1> DEFINE x == SetPaused(m)
<1>2. m' = [x EXCEPT !.imm = TRUE]  BY DEF PauseApi
<1>3. Settled(x) /\ x.paused /\ Quiet(m, x) /\ Kept(m, x)  BY <1>1, SetPausedOK
<1> HIDE DEF x
<1>4. Settled(m') /\ Quiet(x, m') /\ Kept(x, m') /\ m'.paused = x.paused  BY <1>2, <1>3, ImmOK
<1>5. Quiet(m, m') /\ Kept(m, m')  BY <1>3, <1>4, QuietChain, KeptChain
<1> QED  BY <1>1, <1>3, <1>4, <1>5, AppStep

LEMMA CooperateApiStep == ASSUME DebuggerInv, CooperateApi PROVE DebuggerInv'
<1>1. Settled(m) /\ PlaceOK(m, pc) /\ m \in States  BY DEF DebuggerInv, Good, Settled
<1>2. pc.at = "idle" /\ inq' = inq  BY DEF CooperateApi
<1>3. PICK fail \in BOOLEAN : Enter(m, "cooperate", fail)  BY DEF CooperateApi
<1>4. m.stack = <<>> /\ Quiet(m, m)  BY <1>1, <1>2, Untouched DEF PlaceOK
<1> QED  BY <1>1, <1>2, <1>3, <1>4, EnterStep

LEMMA ClientSendsStep == ASSUME DebuggerInv, ClientSends PROVE DebuggerInv'
<1>1. /\ Settled(m) /\ pc \in Places /\ inq \in Seq(Messages) /\ peer \in Clients
      /\ Knows(m, peer) /\ Sent(m, pc) /\ Owes(m, inq, peer) /\ PlaceOK(m, pc) /\ WatchOK(m, pc)
  BY DEF DebuggerInv, Good
<1>2. m.conn /\ m' = m /\ pc' = pc  BY DEF ClientSends
<1>3. PICK c \in Cmds, ok \in BOOLEAN, arg \in UNION {Lines[f] : f \in Fns} :
        /\ inq' = Append(inq, [cmd |-> c, ok |-> ok, arg |-> arg])
        /\ peer' = [peer EXCEPT !.owed = peer.owed + (IF c = "NOTIFY" THEN 0 ELSE 1)]
  BY DEF ClientSends
<1> DEFINE e == [cmd |-> c, ok |-> ok, arg |-> arg]
           n == peer.owed + (IF c = "NOTIFY" THEN 0 ELSE 1)
<1>4. arg \in Nat  BY DebuggerAssumption
<1>5. e \in Messages /\ e.cmd = c  BY <1>4 DEF Messages
<1>6. n \in Int  BY <1>1 DEF Clients
<1>7. inq' = Append(inq, e) /\ peer' = [peer EXCEPT !.owed = n]  BY <1>3
<1>8. peer.owed = Cardinality(Pending(inq))  BY <1>1, <1>2 DEF Owes
<1> HIDE DEF e
<1>9. Cardinality(Pending(inq')) = n
  <2>1. Cardinality(Pending(Append(inq, e))) =
          Cardinality(Pending(inq)) + (IF e.cmd = "NOTIFY" THEN 0 ELSE 1)
    BY <1>1, <1>5, PendingAppend
  <2> QED  BY <1>5, <1>7, <1>8, <2>1
<1> HIDE DEF n
<1>10. peer' \in Clients /\ peer'.owed = n /\ peer'.status = peer.status  BY <1>1, <1>6, <1>7 DEF Clients
<1>11. inq' \in Seq(Messages)  BY <1>1, <1>5, <1>7
<1>12. Knows(m', peer') /\ Owes(m', inq', peer')  BY <1>1, <1>2, <1>9, <1>10 DEF Knows, Owes
<1>13. Good(m', pc', inq', peer')  BY <1>1, <1>2, <1>10, <1>11, <1>12 DEF Good
<1> QED  BY <1>13 DEF DebuggerInv

-----------------------------------------------------------------------------
(* The theorems.                                                           *)

LEMMA DebuggerInit == Init => DebuggerInv
<1> SUFFICES ASSUME Init PROVE DebuggerInv  OBVIOUS
<1>1. m = Detached /\ pc = At("idle") /\ inq = <<>> /\ peer = NoPeer  BY DEF Init
<1>2. Settled(m) /\ ~m.conn /\ m.stack = <<>> /\ ~m.processing
  <2>1. m \in States  BY <1>1 DEF Detached, States
  <2>2. /\ m.conn = FALSE /\ m.paused = FALSE /\ m.flags = {} /\ m.active = {} /\ m.act = 0
        /\ m.prevent = 0 /\ m.stack = <<>> /\ m.processing = FALSE /\ m.cb = FALSE
    BY <1>1 DEF Detached
  <2> QED  BY <2>1, <2>2 DEF Settled
<1>3. pc \in Places /\ pc.at = "idle"  BY <1>1, AtFields
<1>4. Knows(m, peer) /\ Sent(m, pc) /\ WatchOK(m, pc) /\ PlaceOK(m, pc)
  BY <1>2, <1>3 DEF Knows, Sent, WatchOK, PlaceOK
<1>5. peer \in Clients /\ peer.owed = 0  BY <1>1 DEF NoPeer, Clients
<1>6. Good(m, pc, inq, peer)  BY <1>1, <1>2, <1>3, <1>4, <1>5, NoneOwed DEF Good
<1> QED  BY <1>6 DEF DebuggerInv

LEMMA DebuggerNext ==
  ASSUME DebuggerInv, [Next]_vars PROVE DebuggerInv'
<1>1. CASE UNCHANGED vars
  <2>1. m' = m /\ pc' = pc /\ inq' = inq /\ peer' = peer  BY <1>1 DEF vars
  <2>2. Good(m', pc', inq', peer')  BY <2>1 DEF DebuggerInv
  <2> QED  BY <2>2 DEF DebuggerInv
<1>2. CASE Loop  BY <1>2, LoopDetachStep, LoopEndStep, LoopReadStep, ReturnStep DEF Loop
<1>3. CASE ReadMessage  BY <1>3, ReadMessageStep
<1>4. CASE ReadFails  BY <1>4, ReadFailsStep
<1>5. CASE Interrupt  BY <1>5, InterruptStep
<1>6. CASE Step  BY <1>6, StepStep
<1>7. CASE ReturnOp  BY <1>7, ReturnOpStep
<1>8. CASE DebuggerOp  BY <1>8, DebuggerOpStep
<1>9. CASE UnwindOp  BY <1>9, UnwindOpStep
<1>10. ASSUME NEW f \in Fns, TailCall(f) PROVE DebuggerInv'  BY <1>10, TailCallStep
<1>11. ASSUME NEW f \in Fns, NEW n \in BOOLEAN, Call(f, n) PROVE DebuggerInv'  BY <1>11, CallStep
<1>12. ASSUME NEW c \in BOOLEAN, Throw(c) PROVE DebuggerInv'  BY <1>12, ThrowStep
<1>13. CASE AttachApi  BY <1>13, AttachApiStep
<1>14. CASE DetachApi  BY <1>14, DetachApiStep
<1>15. CASE NotifyApi  BY <1>15, NotifyApiStep
<1>16. CASE PauseApi  BY <1>16, PauseApiStep
<1>17. CASE CooperateApi  BY <1>17, CooperateApiStep
<1>18. CASE ClientSends  BY <1>18, ClientSendsStep
<1> QED
  BY <1>1, <1>2, <1>3, <1>4, <1>5, <1>6, <1>7, <1>8, <1>9, <1>10, <1>11, <1>12, <1>13, <1>14,
     <1>15, <1>16, <1>17, <1>18 DEF Next

LEMMA DebuggerImplies == ASSUME DebuggerInv PROVE DebuggerSound
<1>1. /\ Settled(m) /\ Knows(m, peer) /\ Sent(m, pc) /\ Owes(m, inq, peer)
  BY DEF DebuggerInv, Good
<1>2. PreventedWhilePaused /\ PauseActLive
  BY <1>1 DEF Settled, PreventedWhilePaused, PauseActLive, Depth
<1>3. PausedConnected  BY <1>1 DEF Settled, PausedConnected, Stranded
<1>4. StatusFresh  BY <1>1 DEF Knows, Sent, StatusFresh
<1>5. Answered  BY <1>1 DEF Owes, Pending, Answered
<1>6. SeenBeforeExecuted
  <2>1. SUFFICES ASSUME Running, m.conn, ~m.paused,
                        \/ Curr(m).line \in Matching(m, Curr(m).fn)
                        \/ "LINE_CHANGE" \in m.flags /\ m.act = Len(m.stack) /\ Curr(m).line /= m.start
                 PROVE  Curr(m).prev = Curr(m).line
    BY RunningFacts DEF SeenBeforeExecuted
  <2>2. InSync(m) /\ Noticed(m)  BY <2>1, RunningFacts
  <2> QED  BY <2>1, <2>2 DEF InSync, Noticed, Stepping
<1> QED  BY <1>2, <1>3, <1>4, <1>5, <1>6 DEF DebuggerSound

\* The inductive invariant of the debugger: in whatever order requests, pauses, calls,
\* returns, throws, detaches, attaches and transport failures come.
THEOREM DebuggerAlways == Spec => []DebuggerInv
<1>1. Init => DebuggerInv  BY DebuggerInit
<1>2. DebuggerInv /\ [Next]_vars => DebuggerInv'  BY DebuggerNext
<1> QED  BY <1>1, <1>2, PTL DEF Spec

\* At whatever message or handshake the transport breaks, also that of an attach from the
\* detached callback: a target without a transport is paused only when that handshake failed,
\* garbage collection is prevented exactly while the target is paused, a client the target
\* waits for knows its present state or attached to such a target, is owed one answer per
\* request on the way, dbg_pause_act is an activation of the callstack, and no line with a
\* breakpoint or past a step is executed unnoticed (duk_debugger.c, duk_js_executor.c).
THEOREM DebuggerAlwaysSound == Spec => []DebuggerSound
<1>1. DebuggerInv => DebuggerSound  BY DebuggerImplies
<1> QED  BY <1>1, DebuggerAlways, PTL
=============================================================================

---------------------------- MODULE DukDebugger ----------------------------
(***************************************************************************)
(* The debugger of duk_debugger.c and duk_api_debug.c with the executor's   *)
(* part in it (interrupt, breakpoint recheck, pausing on calls, returns and *)
(* throws): a debug client that sends requests at any time, a transport     *)
(* that may break at every read and write, and an application that          *)
(* attaches, detaches and may attach again from its detached callback.      *)
(***************************************************************************)
EXTENDS Integers, Sequences, FiniteSets, SequencesExt

CONSTANTS Fns,             \* functions
          Lines,           \* Fns -> lines with instructions of their own
          First, Final,    \* Fns -> start_line, end_line
          Inner,           \* Fns -> inner functions, which it calls
          MainFn,          \* the function the application calls
          Cmds,            \* the requests the client sends
          MaxDepth,        \* of the callstack
          MaxBreaks,       \* DUK_HEAP_MAX_BREAKPOINTS
          MaxQueue         \* requests on the way

Requests == {"PAUSE", "RESUME", "STEPINTO", "STEPOVER", "STEPOUT", "TRIGGERSTATUS", "ADDBREAK",
             "DELBREAK", "QUERY", "PUTVAR", "APPREQUEST", "EVAL", "DETACH"}

ASSUME DebuggerAssumption ==
  /\ Lines \in [Fns -> SUBSET Nat] /\ First \in [Fns -> Nat] /\ Final \in [Fns -> Nat]
  /\ Inner \in [Fns -> SUBSET Fns] /\ MainFn \in Fns
  /\ Cmds \subseteq Requests \cup {"NOTIFY"}
  /\ MaxDepth \in Nat /\ MaxBreaks \in Nat /\ MaxQueue \in Nat

VARIABLES
  m,     \* debugger fields of the heap, callstack and interrupt counter
  pc,    \* where the program or the message loop is
  inq,   \* requests on the way to the target
  peer   \* the client: requests not answered, state of the last Status ("none": no Status
         \* yet, "unsaid": it attached to a target that was paused already)

vars == <<m, pc, inq, peer>>

\* conn: dbg_read_cb is set; cb: dbg_detached_cb is set; act: the activation
\* dbg_pause_act as a depth of the callstack, 0 for NULL; imm: the interrupt
\* counter is 0; fr: dbg_force_restart; prevent: ms_prevent_count.
Detached ==
  [conn |-> FALSE, cb |-> FALSE, detaching |-> FALSE, paused |-> FALSE, dirty |-> FALSE,
   flags |-> {}, act |-> 0, start |-> 0, processing |-> FALSE, bps |-> <<>>, active |-> {},
   prevent |-> 0, stack |-> <<>>, imm |-> FALSE, fr |-> FALSE]

\* Control: at is "idle" (no activation), "exec" (before the interrupt check),
\* "op" (before an opcode), "loop" and "read" (duk_debug_process_messages); ret
\* says where that was called from, got is its return value.
At(at) == [at |-> at, ret |-> "none", got |-> FALSE]
InLoop(ret) == [at |-> "loop", ret |-> ret, got |-> FALSE]

NoPeer == [owed |-> 0, status |-> "none"]

Init == m = Detached /\ pc = At("idle") /\ inq = <<>> /\ peer = NoPeer

Depth(x) == Len(x.stack)
Running == pc.at = "op" \/ (pc.at = "exec" /\ ~m.imm)

-----------------------------------------------------------------------------
(* Pausing and detaching.                                                  *)

ClearPauseState(x) == [x EXCEPT !.flags = {}, !.act = 0, !.start = 0]

SetPaused(x) ==
  IF x.paused THEN x
  ELSE [ClearPauseState(x) EXCEPT !.paused = TRUE, !.dirty = TRUE, !.prevent = @ + 1]

StillPaused(x) == x   \* mutant of ClearPaused
ClearPaused(x) ==
  IF ~x.paused THEN x
  ELSE [ClearPauseState(x) EXCEPT !.paused = FALSE, !.dirty = TRUE, !.prevent = @ - 1]

CurrLine(x) == IF x.stack = <<>> THEN 0 ELSE Last(x.stack).line

SetPauseState(x, flags) ==
  [x EXCEPT !.flags = IF CurrLine(x) = 0 THEN flags \ {"LINE_CHANGE"} ELSE flags,
            !.act = Depth(x), !.start = CurrLine(x), !.dirty = TRUE]

\* The first half of a detach: callbacks and state go, once.
Detach1(x) ==
  IF x.detaching THEN x
  ELSE [ClearPaused(ClearPauseState(x)) EXCEPT !.detaching = TRUE, !.conn = FALSE, !.fr = FALSE,
                                                !.dirty = FALSE, !.active = {}]

\* A read or write the transport fails: no callback is left, then detach1.
Broken(x) == Detach1([x EXCEPT !.conn = FALSE])

\* One message to the client; fail: the transport fails in the middle of it.
Write(x, fail) == IF x.conn /\ fail THEN Broken(x) ELSE x

\* duk__check_resend_status.
Resend(x, fail) ==
  IF x.conn /\ x.dirty THEN [Write(x, fail) EXCEPT !.dirty = FALSE] ELSE x
Told(p, x, y) ==   \* the client after x became y by Resend
  IF x.conn /\ x.dirty /\ y.conn
  THEN [p EXCEPT !.status = IF x.paused THEN "paused" ELSE "running"] ELSE p

\* duk_debugger_attach: the debugger starts paused and writes the handshake.
Attach(x, fail) ==
  LET y == [ClearPauseState(x) EXCEPT !.conn = TRUE, !.cb = TRUE, !.processing = FALSE,
                                      !.dirty = FALSE, !.fr = FALSE]
  IN  Write(SetPaused(y), fail)

\* The second half of a detach: the detached callback is called once and may attach
\* again; only then is dbg_detaching cleared.  When the handshake of that attach cannot be
\* written, detach1 ignores it as a detach already in progress.
StaysDetaching(x, again, fail) == [x EXCEPT !.cb = FALSE]   \* mutant of Detach2
Detach2(x, again, fail) ==
  LET y == [x EXCEPT !.cb = FALSE]
      z == IF x.cb /\ again THEN Attach(y, fail) ELSE y
  IN  [z EXCEPT !.detaching = FALSE]

-----------------------------------------------------------------------------
(* Requests.  ok: its arguments have the types the handler reads; reading   *)
(* another type breaks the connection and gives 0 or an empty string.  A    *)
(* handler yields the new state and whether it wrote a reply or an error.   *)

AddBreakpoint(x, line) ==
  IF Len(x.bps) >= MaxBreaks THEN x
  ELSE [x EXCEPT !.bps = Append(@, line), !.active = {}]

RemoveBreakpoint(x, i) ==   \* i from 1
  IF i > Len(x.bps) THEN x ELSE [x EXCEPT !.bps = RemoveAt(@, i), !.active = {}]

ReadArgs(x, ok) == IF ok THEN x ELSE Detach1(x)
Answer(x, fail) == [x |-> Write(x, fail), wrote |-> x.conn]

StepFlags(cmd) ==
  CASE cmd = "STEPINTO" -> {"LINE_CHANGE", "FUNC_ENTRY", "FUNC_EXIT", "UNCAUGHT"}
    [] cmd = "STEPOVER" -> {"LINE_CHANGE", "FUNC_EXIT", "UNCAUGHT"}
    [] cmd = "STEPOUT"  -> {"FUNC_EXIT", "UNCAUGHT"}
    [] cmd = "RESUME"   -> {"UNCAUGHT"}

HandlePause(x, fail) == Answer(SetPaused(x), fail)
HandleResume(x, cmd, fail) == Answer(SetPauseState(ClearPaused(x), StepFlags(cmd)), fail)
HandleTriggerStatus(x, fail) ==
  LET a == Answer(x, fail) IN [a EXCEPT !.x.dirty = TRUE]
HandleAddBreak(x, line, ok, fail) ==
  Answer(AddBreakpoint(ReadArgs(x, ok), IF ok THEN line ELSE 0), fail)
HandleDelBreak(x, i, ok, fail) == Answer(RemoveBreakpoint(ReadArgs(x, ok), IF ok THEN i ELSE 1), fail)
\* Requests that only read the program: BasicInfo, ListBreak, GetVar, GetLocals,
\* GetCallStack, GetBytecode, the inspection of heap objects.
HandleQuery(x, ok, fail) == Answer(ReadArgs(x, ok), fail)
\* A value that cannot be read ends PutVar and AppRequest without an answer.
HandlePutVar(x, ok, fail) == IF ok THEN Answer(x, fail) ELSE [x |-> Detach1(x), wrote |-> FALSE]
HandleAppRequest(x, ok, fail) == HandlePutVar(x, ok, fail)
\* The evaluated code runs with interrupts ignored; its return forces a restart.
HandleEval(x, ok, fail) ==
  LET y == ReadArgs(x, ok)
  IN  Answer([y EXCEPT !.imm = @ \/ y.conn, !.fr = @ \/ y.conn], fail)
HandleDetach(x, fail) ==
  LET a == Answer(x, fail) IN [a EXCEPT !.x = Detach1(@)]

\* duk__debug_process_message on request q.
Handle(x, q, fail) ==
  CASE q.cmd = "PAUSE"         -> HandlePause(x, fail)
    [] q.cmd \in {"RESUME", "STEPINTO", "STEPOVER", "STEPOUT"} -> HandleResume(x, q.cmd, fail)
    [] q.cmd = "TRIGGERSTATUS" -> HandleTriggerStatus(x, fail)
    [] q.cmd = "ADDBREAK"      -> HandleAddBreak(x, q.arg, q.ok, fail)
    [] q.cmd = "DELBREAK"      -> HandleDelBreak(x, q.arg, q.ok, fail)
    [] q.cmd = "QUERY"         -> HandleQuery(x, q.ok, fail)
    [] q.cmd = "PUTVAR"        -> HandlePutVar(x, q.ok, fail)
    [] q.cmd = "APPREQUEST"    -> HandleAppRequest(x, q.ok, fail)
    [] q.cmd = "EVAL"          -> HandleEval(x, q.ok, fail)
    [] q.cmd = "DETACH"        -> HandleDetach(x, fail)
    [] OTHER                   -> [x |-> ReadArgs(x, q.ok), wrote |-> FALSE]   \* no request

-----------------------------------------------------------------------------
(* duk_debug_process_messages.                                             *)

\* Called: processing is set and a dirty state sent.
Enter(x, ret, fail) ==
  LET y == [x EXCEPT !.processing = TRUE]
      z == Resend(y, fail)
  IN  m' = z /\ pc' = InLoop(ret) /\ peer' = Told(peer, y, z)

\* A detach is pending: the callback is called in this controlled state.
LoopDetach ==
  /\ pc.at = "loop" /\ ~m.conn /\ m.detaching
  /\ \E again, fail \in BOOLEAN :
       m' = [Detach2(m, again, fail) EXCEPT !.processing = TRUE]
  /\ inq' = <<>> /\ peer' = NoPeer
  /\ UNCHANGED pc

\* Nothing to read now, or no connection any more: back to the caller.
Leave(x) == [x EXCEPT !.processing = FALSE]
LoopEnd ==
  /\ pc.at = "loop"
  /\ \/ ~m.conn /\ ~m.detaching
     \/ m.conn /\ (~m.paused \/ pc.ret = "cooperate") /\ inq = <<>>
  /\ LET x == Leave(m)
     IN  CASE pc.ret \in {"debugger", "throw"} /\ x.paused ->
                m' = [x EXCEPT !.processing = TRUE] /\ pc' = [pc EXCEPT !.got = FALSE]
           [] OTHER -> m' = x /\ pc' = [pc EXCEPT !.at = "return"]
  /\ UNCHANGED <<inq, peer>>

\* The status is sent if it changed, then the next message is read, which blocks.
LoopRead ==
  /\ pc.at = "loop" /\ m.conn
  /\ (m.paused /\ pc.ret /= "cooperate") \/ inq /= <<>>
  /\ \E fail \in BOOLEAN :
       /\ m' = Resend(m, fail)
       /\ peer' = Told(peer, m, m')
       /\ pc' = [pc EXCEPT !.at = "read"]
  /\ UNCHANGED inq

ReadMessage ==
  /\ pc.at = "read" /\ m.conn /\ inq /= <<>>
  /\ \E fail1, fail2 \in BOOLEAN :
       LET a == Handle(m, Head(inq), fail1)
           p == IF a.wrote THEN [peer EXCEPT !.owed = @ - 1] ELSE peer
       IN  m' = Resend(a.x, fail2) /\ peer' = Told(p, a.x, m')
  /\ inq' = Tail(inq)
  /\ pc' = [pc EXCEPT !.at = "loop", !.got = TRUE]

\* The transport fails while the target waits for a message, or has failed before.
ReadFails ==
  /\ pc.at = "read"
  /\ m' = IF m.conn THEN Broken(m) ELSE m
  /\ pc' = [pc EXCEPT !.at = "loop", !.got = TRUE]
  /\ UNCHANGED <<inq, peer>>

-----------------------------------------------------------------------------
(* The executor.                                                           *)

\* Breakpoints of function f that are not in an inner function of it.
Within(f, l) == First[f] <= l /\ l <= Final[f]
Matching(x, f) ==
  {l \in {x.bps[i] : i \in DOMAIN x.bps} : Within(f, l) /\ \A g \in Inner[f] : ~Within(g, l)}

\* Executor restart: duk__executor_recheck_debugger if attached.
Recheck(x) ==
  IF ~x.conn \/ x.processing THEN x
  ELSE LET f == Last(x.stack).fn
           y == [x EXCEPT !.active = Matching(x, f), !.stack[Depth(x)].bpa = Matching(x, f) /= {}]
           z == IF "FUNC_ENTRY" \in y.flags /\ y.act /= Depth(y) THEN SetPaused(y) ELSE y
       IN  [z EXCEPT !.imm = @ \/ Matching(x, f) /= {} \/ z.paused
                               \/ ("LINE_CHANGE" \in z.flags /\ z.act = Depth(z))]

Restart(x) == m' = Recheck(x) /\ pc' = At("exec")

\* duk__interrupt_handle_debugger up to the message loop: the line is noticed in
\* activations that need it.
NoticeLine(x) ==
  LET top == Last(x.stack)
      l == top.line
      hit == \/ "LINE_CHANGE" \in x.flags /\ x.act = Depth(x) /\ l /= x.start
             \/ l \in x.active
  IN  IF ~(top.bpa \/ x.act = Depth(x)) THEN x
      ELSE LET y == IF top.prev /= l /\ hit THEN SetPaused(x) ELSE x
           IN  [y EXCEPT !.stack[Depth(x)].prev = l]

\* The interrupt counter has run out: a forced restart, or the interrupt.
\* late: the rate limit lets a status and the peeked messages through.
Interrupt ==
  /\ pc.at = "exec"
  /\ IF m.fr THEN Restart([m EXCEPT !.fr = FALSE, !.imm = TRUE]) /\ UNCHANGED peer
     ELSE IF m.processing \/ (~m.conn /\ ~m.detaching)
     THEN m' = [m EXCEPT !.imm = FALSE] /\ pc' = At("op") /\ UNCHANGED peer
     ELSE \E late, fail \in BOOLEAN :
            LET x == NoticeLine([m EXCEPT !.imm = FALSE])
                y == [x EXCEPT !.dirty = @ \/ late]
            IN  IF y.dirty \/ y.paused \/ y.detaching
                THEN Enter(y, "interrupt", fail)
                ELSE m' = [y EXCEPT !.imm = Last(y.stack).bpa \/
                                            ("LINE_CHANGE" \in y.flags /\ y.act = Depth(y))]
                     /\ pc' = At("op") /\ UNCHANGED peer
  /\ UNCHANGED inq

\* The message loop returns to the interrupt, to the debugger statement, to a throw
\* or to duk_debugger_cooperate.
Return ==
  /\ pc.at = "return"
  /\ CASE pc.ret = "cooperate" -> UNCHANGED m /\ pc' = At("idle")
       [] pc.ret = "debugger"  -> Restart(m)
       [] pc.ret = "throw"     -> UNCHANGED m /\ pc' = At("unwind")
       [] pc.ret = "interrupt" ->
            LET x == [m EXCEPT !.imm = m.conn /\ (Last(m.stack).bpa \/ m.paused \/
                                  ("LINE_CHANGE" \in m.flags /\ m.act = Depth(m)))]
            IN  IF m.conn /\ pc.got THEN Restart(x) ELSE m' = x /\ pc' = At("op")
  /\ UNCHANGED <<inq, peer>>

Frame(f, l, native) == [fn |-> f, line |-> l, prev |-> 0, bpa |-> FALSE, native |-> native]

\* An instruction that stays in its function.
Step ==
  /\ Running
  /\ \E l \in Lines[Last(m.stack).fn] : m' = [m EXCEPT !.stack[Depth(m)].line = l]
  /\ pc' = At("exec") /\ UNCHANGED <<inq, peer>>

\* A call, ECMAScript to ECMAScript or (native) through a C function.
Call(f, native) ==
  /\ \/ Running /\ f \in Inner[Last(m.stack).fn]
     \/ pc.at = "idle" /\ f = MainFn /\ native
  /\ Depth(m) < MaxDepth
  /\ \E l \in Lines[f] : Restart([m EXCEPT !.stack = Append(@, Frame(f, l, native))])
  /\ UNCHANGED <<inq, peer>>

\* The k innermost activations go: if dbg_pause_act is one of them, pause on exit or
\* forget it.
Unwind(x, k) ==
  LET n == Depth(x) - k
      y == IF x.act <= n THEN x
           ELSE IF "FUNC_EXIT" \in x.flags THEN SetPaused(x) ELSE [x EXCEPT !.act = 0]
  IN  [y EXCEPT !.stack = SubSeq(@, 1, n)]

\* After a call from C the executor of the caller goes on with its next instruction,
\* forced to restart.
ForceRestart(x) == IF x.conn THEN [x EXCEPT !.imm = TRUE, !.fr = TRUE] ELSE x

ReturnOp ==
  /\ Running
  /\ LET x == Unwind(m, 1)
     IN  IF ~Last(m.stack).native THEN Restart(x)
         ELSE m' = ForceRestart(x) /\ pc' = At(IF x.stack = <<>> THEN "idle" ELSE "exec")
  /\ UNCHANGED <<inq, peer>>

\* A tail call reuses the activation; stepping out still means leaving it.
TailCall(f) ==
  /\ Running /\ f \in Inner[Last(m.stack).fn]
  /\ LET x == IF m.act = Depth(m) THEN [m EXCEPT !.flags = @ \ {"LINE_CHANGE"}] ELSE m
         old == x.act
         y == IF "FUNC_ENTRY" \in x.flags THEN SetPaused([x EXCEPT !.act = 0]) ELSE x
     IN  \E l \in Lines[f] :
           Restart([y EXCEPT !.act = old,
                             !.stack = Append(Front(@), Frame(f, l, Last(m.stack).native))])
  /\ UNCHANGED <<inq, peer>>

\* The debugger statement: duk_debug_halt_execution, then a restart.
DebuggerOp ==
  /\ Running /\ m.conn
  /\ \E fail \in BOOLEAN : Enter([SetPaused(m) EXCEPT !.dirty = TRUE], "debugger", fail)
  /\ UNCHANGED inq

\* A throw is notified and pauses if it is not caught.
Throw(caught) ==
  /\ Running
  /\ \E f1, f2 \in BOOLEAN :
       LET x == Write(m, f1)
       IN  IF ~m.conn \/ m.processing THEN UNCHANGED <<m, peer>> /\ pc' = At("unwind")
           ELSE IF ~caught /\ "UNCAUGHT" \in x.flags
                THEN Enter([SetPaused(x) EXCEPT !.dirty = TRUE], "throw", f2)
                ELSE m' = x /\ pc' = At("unwind") /\ UNCHANGED peer
  /\ UNCHANGED inq

\* The longjmp unwinds activations down to the one with the catcher, or all.
UnwindOp ==
  /\ pc.at = "unwind"
  /\ \/ \E k \in 0..Depth(m) - 1 : Restart(Unwind(m, k))
     \/ m' = Unwind(m, Depth(m)) /\ pc' = At("idle")
  /\ UNCHANGED <<inq, peer>>

-----------------------------------------------------------------------------
(* The application (from C functions or while no code runs) and the client. *)

InApp == Running \/ pc.at = "idle"

AttachApi ==
  /\ InApp /\ ~m.conn /\ ~m.detaching
  /\ \E fail \in BOOLEAN : m' = Attach(m, fail)
  /\ peer' = [NoPeer EXCEPT !.status = IF m.paused THEN "unsaid" ELSE "none"]
  /\ inq' = <<>> /\ UNCHANGED pc

DetachApi ==
  /\ InApp
  /\ \E again, fail \in BOOLEAN : m' = Detach2(Detach1(m), again, fail)
  /\ inq' = <<>> /\ peer' = NoPeer /\ UNCHANGED pc

NotifyApi ==
  /\ InApp /\ m.conn
  /\ m' = Write(m, TRUE) /\ UNCHANGED <<pc, inq, peer>>

PauseApi ==
  /\ InApp /\ m.conn /\ ~m.paused
  /\ m' = [SetPaused(m) EXCEPT !.imm = TRUE]
  /\ UNCHANGED <<pc, inq, peer>>

CooperateApi ==
  /\ pc.at = "idle" /\ m.conn
  /\ \E fail \in BOOLEAN : Enter(m, "cooperate", fail)
  /\ UNCHANGED inq

\* A request matters from the time the target peeks or waits for it.
WithArgs == {"ADDBREAK", "DELBREAK", "QUERY", "PUTVAR", "APPREQUEST", "EVAL"}
ClientSends ==
  /\ m.conn /\ Len(inq) < MaxQueue /\ pc.at \in {"loop", "read"}
  /\ \E c \in Cmds, ok \in BOOLEAN,
        arg \in UNION {Lines[f] : f \in Fns} :
       /\ c \notin {"ADDBREAK", "DELBREAK"} => arg = 1
       /\ c \notin WithArgs => ok
       /\ inq' = Append(inq, [cmd |-> c, ok |-> ok, arg |-> arg])
       /\ peer' = [peer EXCEPT !.owed = @ + (IF c = "NOTIFY" THEN 0 ELSE 1)]
  /\ UNCHANGED <<m, pc>>

Loop == LoopDetach \/ LoopEnd \/ LoopRead \/ Return
Next ==
  \/ Loop \/ ReadMessage \/ ReadFails
  \/ Interrupt \/ Step \/ ReturnOp \/ DebuggerOp \/ UnwindOp
  \/ \E f \in Fns : TailCall(f) \/ \E n \in BOOLEAN : Call(f, n)
  \/ \E c \in BOOLEAN : Throw(c)
  \/ AttachApi \/ DetachApi \/ NotifyApi \/ PauseApi \/ CooperateApi \/ ClientSends

\* The message loop is C code that runs on; a read on a lost transport returns.
Spec == Init /\ [][Next]_vars /\ WF_vars(Loop) /\ WF_vars(ReadFails /\ ~m.conn)

-----------------------------------------------------------------------------
(* Properties.                                                             *)

\* A target without a transport is paused in one case only: an attach from the detached
\* callback could not write its handshake, which leaves that attach's own detached callback
\* set with no detach pending, so that a detach by the application still ends the pause
\* (duk__debug_do_detach1 ignores the broken handshake, against the loop "until we're either
\* cleanly attached or fully detached" of duk_debug_process_messages).
Stranded == ~m.conn /\ ~m.detaching /\ m.cb
PausedConnected == ~m.conn => (m.paused <=> Stranded)

\* Garbage collection is prevented exactly while the target is paused, whatever
\* pauses and resumes it how often (duk_debug_set_paused, duk_debug_clear_paused).
PreventedWhilePaused == m.prevent = (IF m.paused THEN 1 ELSE 0)

\* When the target waits for a request the client knows its present state, but for one that
\* attached to a stranded target: it hears nothing of the pause until that changes.
StatusFresh ==
  pc.at = "read" /\ m.conn =>
    /\ ~m.dirty
    /\ \/ peer.status = (IF m.paused THEN "paused" ELSE "running")
       \/ peer.status = "unsaid" /\ m.paused

\* Every request that has been read has been answered, once, as long as the
\* connection holds.
Answered ==
  m.conn => peer.owed = Cardinality({i \in DOMAIN inq : inq[i].cmd /= "NOTIFY"})

\* dbg_pause_act is no pointer to an activation that has been freed.
PauseActLive == m.act <= Depth(m)

\* No instruction on the line of a breakpoint, or on another line than a step over
\* began on, is executed before the interrupt has noticed that line: through calls,
\* returns to other executors, breakpoints added while running, and detaches.
SeenBeforeExecuted ==
  Running /\ m.conn /\ ~m.paused =>
    LET top == Last(m.stack)
    IN  (\/ top.line \in Matching(m, top.fn)
         \/ "LINE_CHANGE" \in m.flags /\ m.act = Depth(m) /\ top.line /= m.start)
        => top.prev = top.line

\* At whatever message or handshake the connection breaks: only a re-attach whose handshake
\* failed leaves a target paused without a transport, garbage collection is prevented exactly
\* while the target is paused, a waiting client knows the present state (or attached to such a
\* target) and has each request answered once, the activation to pause in was not freed, and
\* no instruction past a breakpoint or step executes before it was noticed.
DebuggerSound ==
  /\ PausedConnected /\ PreventedWhilePaused /\ StatusFresh
  /\ Answered /\ PauseActLive /\ SeenBeforeExecuted

\* A target whose transport broke in the message loop runs on, unless the application
\* attaches again; or unless, inside a debugger statement or a throw that pauses, the
\* handshake of that attach failed, and duk_debug_halt_execution loops with no client.
Lost == pc.at = "loop" /\ ~m.conn
Halted == Stranded /\ pc.ret \in {"debugger", "throw"}
RunsOn == pc.at \notin {"loop", "read", "return"} \/ m.conn \/ Halted
BrokenRunsOn == Lost ~> RunsOn
=============================================================================

------------------------------ MODULE DukThread ------------------------------
(***************************************************************************)
(* Calls, coroutines and unwinding (duk_js_call.c, duk_js_executor.c,      *)
(* duk_bi_thread.c, duk_error_longjmp.c, duk_hthread_stacks.c).            *)
(*                                                                         *)
(* Two kinds of stack must agree.  Every thread has a callstack of         *)
(* activations, each with its catchers; the one C stack holds the native   *)
(* frames of calls, executors and protected calls made on all threads.  An *)
(* executor is one C frame that runs the ECMAScript activations of its own *)
(* thread and of every coroutine resumed under it.  An error, a resume, a  *)
(* yield and a cancellation are longjmps to the innermost setjmp, after    *)
(* which the executor (or the protected call) unwinds the callstacks.      *)
(*                                                                         *)
(* All sequences have their innermost element last.                        *)
(***************************************************************************)
EXTENDS Naturals, Sequences, SequencesExt, FiniteSets

CONSTANTS Thread,
          MAIN,        \* heap->heap_thread
          NONE,        \* the null thread
          MaxCall,     \* callstack limit of a thread
          MaxC,        \* call_recursion_limit
          Stmts,       \* kinds of statements the ECMAScript code uses
          MaxStmt,     \* statements open at once
          Finalizers,  \* TRUE when garbage has finalizers
          Cancel       \* TRUE when the embedder may cancel execution

ASSUME ThreadAssumption ==
  /\ IsFiniteSet(Thread) /\ MAIN \in Thread /\ NONE \notin Thread
  /\ MaxCall \in Nat /\ MaxC \in Nat /\ MaxStmt \in Nat
  /\ Stmts \subseteq {"catch", "finally", "catchfinally", "with", "label"}
  /\ Finalizers \in BOOLEAN /\ Cancel \in BOOLEAN

\* A statement in progress and its duk_catcher.  "bare" is the body of a
\* finally clause whose catcher is already gone.  catch and finally are
\* CATCH_ENABLED and FINALLY_ENABLED, lexenv is LEXENV_ACTIVE, at is the clause
\* the code is in, cont and label are the two registers of the catcher.
Catcher == [kind : {"try", "with", "label", "bare"}, hasFinally : BOOLEAN,
            catch : BOOLEAN, finally : BOOLEAN, lexenv : BOOLEAN,
            at : {"body", "catch", "finally"},
            cont : {"none", "normal", "throw", "return", "break"}, label : Nat]

\* prevent is DUK_ACT_FLAG_PREVENT_YIELD.
Activation == [fn : {"ecma", "native", "resume", "yield"}, prevent : BOOLEAN,
               cats : Seq(Catcher)]

\* A C frame: an executor, a native function, a protected call or the protected
\* call of a finalizer, with entry_curr_thread, entry_thread_state, the callstack
\* top at entry, and the executor's delayed_catch_setup.
CFrame == [kind : {"exec", "native", "safe", "fin"}, thr : Thread,
           ecurr : Thread \cup {NONE}, estate : {"inactive", "running"},
           top : Nat, delayed : BOOLEAN]

LjType == {"none", "throw", "resume", "yield", "return"}

VARIABLES
  tstate,        \* thr->state
  resumer,       \* thr->resumer
  callstack,     \* the activations of each thread
  preventcount,  \* thr->callstack_preventcount
  curr,          \* heap->curr_thread
  cstack,        \* the C stack
  lj,            \* heap->lj, type "none" when no longjmp is being handled
  pf,            \* heap->pf_prevent_count
  armed          \* the embedder's cancel request

threads == <<tstate, resumer, callstack, preventcount, curr>>
vars == <<tstate, resumer, callstack, preventcount, curr, cstack, lj, pf, armed>>

NoLj == [type |-> "none", iserror |-> FALSE, thr |-> NONE]
Thrown == [type |-> "throw", iserror |-> TRUE, thr |-> NONE]

Init ==
  /\ tstate = [t \in Thread |-> "inactive"]
  /\ resumer = [t \in Thread |-> NONE]
  /\ callstack = [t \in Thread |-> <<>>]
  /\ preventcount = [t \in Thread |-> 0]
  /\ curr = NONE
  /\ cstack = <<>>
  /\ lj = NoLj
  /\ pf = 0
  /\ armed = FALSE

-----------------------------------------------------------------------------
(* Positions in the code.                                                  *)

Running == lj.type = "none"
Frame == Last(cstack)
In(kinds) == cstack # <<>> /\ Frame.kind \in kinds
Top(t) == Last(callstack[t])
TopIsEcma == curr # NONE /\ callstack[curr] # <<>> /\ Top(curr).fn = "ecma"

\* Bytecode runs in the innermost activation of the current thread.
InBytecode == Running /\ In({"exec"}) /\ ~Frame.delayed
InC == Running /\ In({"native", "safe", "fin"})

\* The callstack and C recursion limits; a call beyond them throws.
WithinLimits ==
  /\ Len(callstack[curr]) < MaxCall
  /\ Len(cstack) < MaxC

\* duk__call_thread_state_update lets a call enter t.
MayEnter(t) == IF t = curr THEN tstate[t] = "running" ELSE tstate[t] = "inactive"

-----------------------------------------------------------------------------
(* Stack operations.                                                       *)

Act(fn, prevent) == [fn |-> fn, prevent |-> prevent, cats |-> <<>>]
CallFrame(kind, t) ==
  [kind |-> kind, thr |-> t, ecurr |-> curr, estate |-> tstate[t],
   top |-> Len(callstack[t]), delayed |-> FALSE]

\* The innermost activation of t with its catchers replaced.
WithCats(t, cats) ==
  [callstack EXCEPT ![t] = ReplaceAt(@, Len(@), [Last(@) EXCEPT !.cats = cats])]

\* duk_hthread_activation_unwind_norz, k times: the activations of t above n.
Unwound(t, n) == [callstack EXCEPT ![t] = SubSeq(@, 1, n)]
PreventKept(t, n) == preventcount[t]   \* mutant of PreventUnwound
PreventUnwound(t, n) ==
  preventcount[t] - Cardinality({k \in n + 1..Len(callstack[t]) : callstack[t][k].prevent})

UnwindTo(t, n) ==
  /\ callstack' = Unwound(t, n)
  /\ preventcount' = [preventcount EXCEPT ![t] = PreventUnwound(t, n)]

\* A longjmp reaches the innermost setjmp among the frames of cs.
Caught(cs) == SubSeq(cs, 1, SelectLastInSeq(cs, LAMBDA f : f.kind # "native"))

\* After the executor restored entry_jmpbuf_ptr, a longjmp passes it by.
OuterForgotten(cs) == cs   \* mutant of Outer
Outer(cs) == Caught(Front(cs))

\* duk_err_longjmp.
Longjmp(l) ==
  /\ lj' = l
  /\ cstack' = Caught(cstack)
  /\ pf' = pf + 1

\* Error handling is complete and execution goes on.
LjDone ==
  /\ lj' = NoLj
  /\ pf' = pf - 1

\* The innermost catcher with a pending finally clause, 0 if there is none.
\* mutant of FinallyCat
FinallyCatCaught(cats) == SelectLastInSeq(cats, LAMBDA c : c.finally /\ ~c.catch)
FinallyCat(cats) == SelectLastInSeq(cats, LAMBDA c : c.finally)

\* Catcher i goes to its catch clause, catchers inside it are unwound.
EnterCatch(cats, i) == [SubSeq(cats, 1, i) EXCEPT ![i].catch = FALSE, ![i].at = "catch"]

\* duk__handle_finally for catcher i.
EnterFinally(cats, i, cont, label) ==
  [SubSeq(cats, 1, i) EXCEPT ![i].finally = FALSE, ![i].at = "finally",
                             ![i].cont = cont, ![i].label = label]

-----------------------------------------------------------------------------
(* Calls.                                                                  *)

\* duk_safe_call() on t by C code, or by the application when nothing runs.  It
\* runs in the caller's activation.
SafeCall(t) ==
  /\ Running
  /\ cstack = <<>> \/ In({"native", "safe"})
  /\ MayEnter(t)
  /\ Len(cstack) < MaxC
  /\ cstack' = Append(cstack, CallFrame("safe", t))
  /\ curr' = t
  /\ tstate' = [tstate EXCEPT ![t] = "running"]
  /\ preventcount' = [preventcount EXCEPT ![t] = @ + 1]
  /\ UNCHANGED <<resumer, callstack, lj, pf, armed>>

\* duk__handle_call_raw for a call that needs a C frame: a native function, or
\* an ECMAScript function called from C code or from inside an opcode.
HandleCall(fn) ==
  /\ InBytecode \/ InC
  /\ WithinLimits
  /\ cstack' = Append(cstack, CallFrame(IF fn = "ecma" THEN "exec" ELSE "native", curr))
  /\ callstack' = [callstack EXCEPT ![curr] = Append(@, Act(fn, TRUE))]
  /\ preventcount' = [preventcount EXCEPT ![curr] = @ + 1]
  /\ UNCHANGED <<tstate, resumer, curr, lj, pf, armed>>

\* The same for an ECMAScript function called by a call opcode: the executor
\* goes on in the new activation.
EcmaCall ==
  /\ InBytecode
  /\ WithinLimits
  /\ callstack' = [callstack EXCEPT ![curr] = Append(@, Act("ecma", FALSE))]
  /\ UNCHANGED <<tstate, resumer, preventcount, curr, cstack, lj, pf, armed>>

\* A tail call unwinds the innermost activation and reuses it.  The compiler
\* emits none inside try or with.
MayReuse(act) == ~act.prevent

TailCall ==
  /\ InBytecode
  /\ Len(cstack) < MaxC
  /\ MayReuse(Top(curr))
  /\ \A i \in DOMAIN Top(curr).cats : Top(curr).cats[i].kind = "label"
  /\ LET n == Len(callstack[curr]) IN
       /\ callstack' = [callstack EXCEPT ![curr][n] = Act("ecma", FALSE)]
       /\ preventcount' = [preventcount EXCEPT ![curr] = PreventUnwound(curr, n - 1)]
  /\ UNCHANGED <<tstate, resumer, curr, cstack, lj, pf, armed>>

\* The end of a call: back to entry_curr_thread and entry_thread_state.
Epilogue(f) ==
  /\ cstack' = Front(cstack)
  /\ curr' = f.ecurr
  /\ tstate' = [tstate EXCEPT ![f.thr] = f.estate]

NativeReturn ==
  /\ InC /\ Frame.kind = "native"
  /\ Epilogue(Frame)
  /\ UnwindTo(Frame.thr, Len(callstack[Frame.thr]) - 1)
  /\ UNCHANGED <<resumer, lj, pf, armed>>

\* The success path of duk_handle_safe_call; for a finalizer, also the end of
\* its turn in duk_heap_process_finalize_list.
SafeReturn ==
  /\ InC /\ Frame.kind \in {"safe", "fin"}
  /\ Epilogue(Frame)
  /\ preventcount' = [preventcount EXCEPT ![Frame.thr] = @ - 1]
  /\ pf' = IF Frame.kind = "fin" THEN pf - 1 ELSE pf
  /\ UNCHANGED <<resumer, callstack, lj, armed>>

\* A pending finalizer: duk_heap_process_finalize_list runs it by a protected
\* call on heap_thread.  A refused call changes nothing.
RunFinalizer ==
  /\ Finalizers
  /\ Running
  /\ pf = 0
  /\ MayEnter(MAIN)
  /\ Len(cstack) < MaxC
  /\ cstack' = Append(cstack, CallFrame("fin", MAIN))
  /\ curr' = MAIN
  /\ tstate' = [tstate EXCEPT ![MAIN] = "running"]
  /\ preventcount' = [preventcount EXCEPT ![MAIN] = @ + 1]
  /\ pf' = pf + 1
  /\ UNCHANGED <<resumer, callstack, lj, armed>>

\* An error thrown by bytecode or by C code: a throw statement, a failed check,
\* a limit, a refused resume or yield.
Throw ==
  /\ InBytecode \/ InC
  /\ Longjmp(Thrown)
  /\ UNCHANGED <<threads, armed>>

-----------------------------------------------------------------------------
(* Statements.                                                             *)

NewCat(s) ==
  [kind |-> CASE s = "with" -> "with" [] s = "label" -> "label" [] OTHER -> "try",
   hasFinally |-> s \in {"finally", "catchfinally"},
   catch |-> s \in {"catch", "catchfinally"},
   finally |-> s \in {"finally", "catchfinally"},
   lexenv |-> s = "with", at |-> "body", cont |-> "none", label |-> 0]

OpenStmts ==
  {p \in Thread \X (1..MaxCall) \X (1..MaxStmt) :
     p[2] \in DOMAIN callstack[p[1]] /\ p[3] \in DOMAIN callstack[p[1]][p[2]].cats}

\* TRYCATCH and LABEL.
Enter(s) ==
  /\ InBytecode
  /\ Cardinality(OpenStmts) < MaxStmt
  /\ callstack' = WithCats(curr, Append(Top(curr).cats, NewCat(s)))
  /\ UNCHANGED <<tstate, resumer, preventcount, curr, cstack, lj, pf, armed>>

\* The code is at the end of the innermost statement's clause.
AtEndOf(kinds, at) ==
  /\ InBytecode
  /\ Top(curr).cats # <<>>
  /\ Last(Top(curr).cats).kind \in kinds
  /\ Last(Top(curr).cats).at = at

\* ENDTRY, which also ends a with statement.
EndTry ==
  /\ AtEndOf({"try", "with"}, "body")
  /\ LET cats == Top(curr).cats
         n == Len(cats)
         fin == EnterFinally(cats, n, "normal", 0)
     IN callstack' = WithCats(curr, IF cats[n].finally THEN [fin EXCEPT ![n].catch = FALSE]
                                                       ELSE Front(cats))
  /\ UNCHANGED <<tstate, resumer, preventcount, curr, cstack, lj, pf, armed>>

\* ENDCATCH.  Without FINALLY_ENABLED the catcher is unwound, and the code goes
\* on behind the statement, which is the finally clause if there is one.
EndCatch ==
  /\ AtEndOf({"try"}, "catch")
  /\ LET cats == [Top(curr).cats EXCEPT ![Len(Top(curr).cats)].lexenv = FALSE]
         n == Len(cats)
     IN callstack' = WithCats(curr,
          CASE cats[n].finally    -> EnterFinally(cats, n, "normal", 0)
            [] ~cats[n].finally /\ cats[n].hasFinally ->
                 ReplaceAt(cats, n, [cats[n] EXCEPT !.kind = "bare", !.at = "finally",
                                                    !.cont = "throw"])
            [] OTHER              -> Front(cats))
  /\ UNCHANGED <<tstate, resumer, preventcount, curr, cstack, lj, pf, armed>>

\* ENDLABEL.
EndLabel ==
  /\ AtEndOf({"label"}, "body")
  /\ callstack' = WithCats(curr, Front(Top(curr).cats))
  /\ UNCHANGED <<tstate, resumer, preventcount, curr, cstack, lj, pf, armed>>

\* duk__handle_break_or_continue to the label statement at position d.
HandleBreak(d) ==
  LET cats == Top(curr).cats
      i == FinallyCat(cats)
  IN /\ callstack' = WithCats(curr, IF i > d THEN EnterFinally(cats, i, "break", d)
                                            ELSE SubSeq(cats, 1, d))
     /\ UNCHANGED <<tstate, resumer, preventcount, curr, cstack>>

Break ==
  /\ InBytecode
  /\ \E d \in DOMAIN Top(curr).cats : Top(curr).cats[d].kind = "label" /\ HandleBreak(d)
  /\ UNCHANGED <<lj, pf, armed>>

-----------------------------------------------------------------------------
(* Return.                                                                 *)

AtEntryDepth == Len(callstack[curr]) = Frame.top + 1   \* mutant of AtEntry
AtEntry == Frame.thr = curr /\ Len(callstack[curr]) = Frame.top + 1

\* duk_hthread_terminate for the current thread, whose resumer goes on after
\* keeping n of its activations.
EndThread(n) ==
  LET r == resumer[curr] IN
  /\ r # NONE
  /\ callstack' = [callstack EXCEPT ![curr] = <<>>, ![r] = SubSeq(@, 1, n)]
  /\ preventcount' = [preventcount EXCEPT ![curr] = PreventUnwound(curr, 0),
                                          ![r] = PreventUnwound(r, n)]
  /\ tstate' = [tstate EXCEPT ![curr] = "terminated", ![r] = "running"]
  /\ resumer' = [resumer EXCEPT ![curr] = NONE]
  /\ curr' = r

\* duk__handle_return: a finally clause of the same function, the end of the
\* executor, the calling activation, or the end of the thread.
HandleReturn ==
  LET cats == Top(curr).cats
      i == FinallyCat(cats)
  IN \/ /\ i > 0
        /\ callstack' = WithCats(curr, EnterFinally(cats, i, "return", 0))
        /\ UNCHANGED <<tstate, resumer, preventcount, curr, cstack>>
     \/ /\ i = 0 /\ AtEntry
        /\ Epilogue(Frame)
        /\ UnwindTo(curr, Frame.top)
        /\ UNCHANGED resumer
     \/ /\ i = 0 /\ ~AtEntry /\ Len(callstack[curr]) >= 2
        /\ UnwindTo(curr, Len(callstack[curr]) - 1)
        /\ UNCHANGED <<tstate, resumer, curr, cstack>>
     \/ /\ i = 0 /\ ~AtEntry /\ Len(callstack[curr]) = 1
        /\ EndThread(Len(callstack[resumer[curr]]) - 1)
        /\ UNCHANGED cstack

Return ==
  /\ InBytecode
  /\ HandleReturn
  /\ UNCHANGED <<lj, pf, armed>>

\* ENDFIN continues what entered the finally clause.
EndFin ==
  /\ AtEndOf({"try", "bare"}, "finally")
  /\ LET cats == Top(curr).cats
         c == Last(cats)
     IN \/ /\ c.cont = "normal"
           /\ callstack' = WithCats(curr, Front(cats))
           /\ UNCHANGED <<tstate, resumer, preventcount, curr, cstack, lj, pf>>
        \/ /\ c.cont = "return"
           /\ HandleReturn
           /\ UNCHANGED <<lj, pf>>
        \/ /\ c.cont = "break"
           /\ HandleBreak(c.label)
           /\ UNCHANGED <<lj, pf>>
        \/ /\ c.cont = "throw"
           /\ Longjmp(Thrown)
           /\ UNCHANGED threads
  /\ UNCHANGED armed

-----------------------------------------------------------------------------
(* Duktape.Thread.resume() and Duktape.Thread.yield().                     *)

\* The native call and its checks; a refused call is a Throw.  The caller is
\* an ECMAScript activation also when resume() is itself the finalizer that runs
\* on top of it.
Resume(t, iserror) ==
  /\ InBytecode \/ InC
  /\ TopIsEcma
  /\ WithinLimits
  /\ tstate[t] \in {"inactive", "yielded"}
  /\ tstate[t] = "inactive" => callstack[t] = <<>>
  /\ callstack' = [callstack EXCEPT ![curr] = Append(@, Act("resume", TRUE))]
  /\ preventcount' = [preventcount EXCEPT ![curr] = @ + 1]
  /\ Longjmp([type |-> "resume", iserror |-> iserror, thr |-> t])
  /\ UNCHANGED <<tstate, resumer, curr, armed>>

\* yield() itself is the only activation that prevents a yield.
OnlyYieldPrevents == preventcount[curr] + 1 = 1

Yield(iserror) ==
  /\ InBytecode \/ InC
  /\ TopIsEcma
  /\ WithinLimits
  /\ resumer[curr] # NONE
  /\ OnlyYieldPrevents
  /\ callstack' = [callstack EXCEPT ![curr] = Append(@, Act("yield", TRUE))]
  /\ preventcount' = [preventcount EXCEPT ![curr] = @ + 1]
  /\ Longjmp([type |-> "yield", iserror |-> iserror, thr |-> NONE])
  /\ UNCHANGED <<tstate, resumer, curr, armed>>

-----------------------------------------------------------------------------
(* duk__handle_longjmp, in the executor that caught the longjmp.           *)

Handling(type) == In({"exec"}) /\ lj.type = type

\* The current thread resumes t.
\* mutant of SwitchTo
SwitchToStillRunning(t) ==
  /\ resumer' = [resumer EXCEPT ![t] = curr]
  /\ tstate' = [tstate EXCEPT ![t] = "running"]
  /\ curr' = t
SwitchTo(t) ==
  /\ resumer' = [resumer EXCEPT ![t] = curr]
  /\ tstate' = [tstate EXCEPT ![t] = "running", ![curr] = "resumed"]
  /\ curr' = t

\* resume(t, value, true) becomes a throw in t.
HandleResumeError ==
  /\ Handling("resume") /\ lj.iserror
  /\ SwitchTo(lj.thr)
  /\ lj' = Thrown
  /\ UNCHANGED <<callstack, preventcount, cstack, pf, armed>>

\* t goes on after its yield(), or starts its initial function.
HandleResume ==
  /\ Handling("resume") /\ ~lj.iserror
  /\ SwitchTo(lj.thr)
  /\ IF tstate[lj.thr] = "yielded"
       THEN UnwindTo(lj.thr, Len(callstack[lj.thr]) - 1)
       ELSE /\ callstack' = [callstack EXCEPT ![lj.thr] = <<Act("ecma", FALSE)>>]
            /\ UNCHANGED preventcount
  /\ LjDone
  /\ UNCHANGED <<cstack, armed>>

\* The current thread stops and its resumer r goes on.
HandleYield ==
  /\ Handling("yield")
  /\ LET r == resumer[curr] IN
       /\ tstate' = [tstate EXCEPT ![curr] = "yielded", ![r] = "running"]
       /\ resumer' = [resumer EXCEPT ![curr] = NONE]
       /\ curr' = r
       /\ IF lj.iserror
            THEN /\ lj' = Thrown
                 /\ UNCHANGED <<callstack, preventcount, pf>>
            ELSE /\ UnwindTo(r, Len(callstack[r]) - 1)
                 /\ LjDone
  /\ UNCHANGED <<cstack, armed>>

\* The catcher that handles an error thrown in the innermost activation.
ThrowCat == SelectLastInSeq(Top(curr).cats, LAMBDA c : c.catch \/ c.finally)

\* duk__handle_catch_part1; the rest waits until error handling is over.
HandleCatch ==
  /\ Handling("throw") /\ callstack[curr] # <<>>
  /\ LET cats == Top(curr).cats
         i == ThrowCat
     IN /\ i > 0 /\ cats[i].catch
        /\ callstack' = WithCats(curr, EnterCatch(cats, i))
  /\ cstack' = ReplaceAt(cstack, Len(cstack), [Frame EXCEPT !.delayed = TRUE])
  /\ LjDone
  /\ UNCHANGED <<tstate, resumer, preventcount, curr, armed>>

HandleFinally ==
  /\ Handling("throw") /\ callstack[curr] # <<>>
  /\ LET cats == Top(curr).cats
         i == ThrowCat
     IN /\ i > 0 /\ ~cats[i].catch
        /\ callstack' = WithCats(curr, EnterFinally(cats, i, "throw", 0))
  /\ LjDone
  /\ UNCHANGED <<tstate, resumer, preventcount, curr, cstack, armed>>

\* Nothing in the innermost activation catches the error: rethrow from the
\* executor at its entry level, else unwind the activation.
HandleUnwind ==
  /\ Handling("throw") /\ callstack[curr] # <<>>
  /\ ThrowCat = 0
  /\ IF AtEntry
       THEN /\ callstack' = WithCats(curr, <<>>)
            /\ cstack' = Outer(cstack)
            /\ UNCHANGED preventcount
       ELSE /\ UnwindTo(curr, Len(callstack[curr]) - 1)
            /\ UNCHANGED cstack
  /\ UNCHANGED <<tstate, resumer, curr, lj, pf, armed>>

\* Nothing in the current thread catches the error: it ends, and the error goes
\* on in its resumer.
HandleUncaught ==
  /\ Handling("throw") /\ callstack[curr] = <<>>
  /\ resumer[curr] # NONE
  /\ EndThread(Len(callstack[resumer[curr]]))
  /\ UNCHANGED <<cstack, lj, pf, armed>>

\* duk__handle_catch_part2: the scope of the catch variable, for which memory
\* may run out.
CatchSetup ==
  /\ Running /\ In({"exec"}) /\ Frame.delayed
  /\ cstack' = ReplaceAt(cstack, Len(cstack), [Frame EXCEPT !.delayed = FALSE])
  /\ \/ /\ callstack' = WithCats(curr, [Top(curr).cats EXCEPT ![Len(Top(curr).cats)].lexenv = TRUE])
        /\ UNCHANGED <<lj, pf>>
     \/ /\ lj' = Thrown
        /\ pf' = pf + 1
        /\ UNCHANGED callstack
  /\ UNCHANGED <<tstate, resumer, preventcount, curr, armed>>

\* The error path of duk_handle_safe_call: unwind to entry_act.
SafeError ==
  /\ ~Running /\ In({"safe", "fin"})
  /\ Epilogue(Frame)
  /\ callstack' = Unwound(Frame.thr, Frame.top)
  /\ preventcount' = [preventcount EXCEPT ![Frame.thr] = PreventUnwound(Frame.thr, Frame.top) - 1]
  /\ lj' = NoLj
  /\ pf' = IF Frame.kind = "fin" THEN pf - 2 ELSE pf - 1
  /\ UNCHANGED <<resumer, armed>>

-----------------------------------------------------------------------------
(* Cancellation: the executor interrupt asks the embedder and, in mode 2,  *)
(* returns from the innermost activation by a longjmp.                     *)

\* A native function such as process.exit() asks for it.
Arm ==
  /\ Cancel /\ ~armed
  /\ InC /\ Frame.kind = "native"
  /\ armed' = TRUE
  /\ UNCHANGED <<threads, cstack, lj, pf>>

Interrupt ==
  /\ InBytecode /\ armed
  /\ Longjmp([type |-> "return", iserror |-> FALSE, thr |-> NONE])
  /\ UNCHANGED <<threads, armed>>

\* The pre-scan of the catchers stops after the innermost one.
TriggersFinally ==
  LET real == SelectSeq(Top(curr).cats, LAMBDA c : c.kind # "bare")
  IN real # <<>> /\ Last(real).finally

HandleCancel ==
  /\ Handling("return")
  /\ HandleReturn
  /\ LjDone
  /\ armed' = (armed /\ ~TriggersFinally)

-----------------------------------------------------------------------------
Engine ==
  \/ HandleResumeError \/ HandleResume \/ HandleYield
  \/ HandleCatch \/ HandleFinally \/ HandleUnwind \/ HandleUncaught
  \/ CatchSetup \/ SafeError \/ HandleCancel

Program ==
  \/ \E t \in Thread : SafeCall(t)
  \/ \E fn \in {"ecma", "native"} : HandleCall(fn)
  \/ EcmaCall \/ TailCall \/ NativeReturn \/ SafeReturn \/ RunFinalizer \/ Throw
  \/ \E s \in Stmts : Enter(s)
  \/ EndTry \/ EndCatch \/ EndLabel \/ EndFin \/ Break \/ Return
  \/ \E t \in Thread, e \in BOOLEAN : Resume(t, e)
  \/ \E e \in BOOLEAN : Yield(e)
  \/ Arm \/ Interrupt

Next == Engine \/ Program

Spec == Init /\ [][Next]_vars

-----------------------------------------------------------------------------
(* Properties.                                                             *)

\* The state has its types, within the bounds.
TypeOK ==
  /\ tstate \in [Thread -> {"inactive", "running", "resumed", "yielded", "terminated"}]
  /\ resumer \in [Thread -> Thread \cup {NONE}]
  /\ callstack \in [Thread -> Seq(Activation)]
  /\ \A t \in Thread :
       /\ Len(callstack[t]) <= MaxCall
       /\ \A k \in DOMAIN callstack[t] : Len(callstack[t][k].cats) <= MaxStmt
  /\ preventcount \in [Thread -> Nat]
  /\ curr \in Thread \cup {NONE}
  /\ cstack \in Seq(CFrame) /\ Len(cstack) <= MaxC
  /\ lj \in [type : LjType, iserror : BOOLEAN, thr : Thread \cup {NONE}]
  /\ pf \in Nat
  /\ armed \in BOOLEAN

\* The coroutine state machine: the current thread runs; a thread runs in the
\* background only while a protected call on another thread was made from it; a
\* thread is RESUMED exactly while one other thread has it as its resumer, and
\* only a running or resumed thread has a resumer.
ThreadStates ==
  /\ curr # NONE => tstate[curr] = "running"
  /\ \A t \in Thread :
       /\ tstate[t] = "running" => t = curr \/ \E i \in DOMAIN cstack : cstack[i].ecurr = t
       /\ tstate[t] = "resumed" <=> \E u \in Thread : resumer[u] = t
       /\ resumer[t] # NONE => tstate[t] \in {"running", "resumed"}
       /\ \A u \in Thread : resumer[t] = resumer[u] /\ t # u => resumer[t] = NONE

\* What resume() and yield() leave behind for the code that continues the
\* thread: a suspended thread has its resume or yield activation on top of an
\* ECMAScript one, a yielded one nothing else that prevents yielding, and a thread
\* that is not started or has ended has no activations.
SuspendedShape ==
  \A t \in Thread :
    LET s == callstack[t]
        n == Len(s)
    IN /\ tstate[t] = "yielded" =>
            n >= 2 /\ s[n].fn = "yield" /\ s[n - 1].fn = "ecma" /\ preventcount[t] = 1
       /\ tstate[t] = "resumed" => n >= 2 /\ s[n].fn = "resume" /\ s[n - 1].fn = "ecma"
       /\ tstate[t] \in {"inactive", "terminated"} => n = 0 /\ preventcount[t] = 0

\* callstack_preventcount, which is only counted up and down, is the number of
\* activations and protected calls of the thread that prevent a yield.
PreventExact ==
  \A t \in Thread :
    preventcount[t] =
      Cardinality({k \in DOMAIN callstack[t] : callstack[t][k].prevent})
      + Cardinality({i \in DOMAIN cstack : cstack[i].kind \in {"safe", "fin"} /\ cstack[i].thr = t})

\* The C stack and the callstacks agree: every executor and native C frame finds
\* the activation it was entered for, and every activation that was entered
\* through C still has its frame.  An executor that lost its entry activation, or a
\* native function resumed after a longjmp over its frame, breaks it.
FramesMatch ==
  Running =>
    /\ \A i \in DOMAIN cstack :
         LET f == cstack[i]
             s == callstack[f.thr]
         IN f.kind \in {"exec", "native"} =>
              /\ Len(s) > f.top
              /\ s[f.top + 1].prevent
              /\ s[f.top + 1].fn = IF f.kind = "exec" THEN "ecma" ELSE "native"
    /\ \A t \in Thread : \A k \in DOMAIN callstack[t] :
         callstack[t][k].prevent /\ callstack[t][k].fn \in {"ecma", "native"} =>
           \E i \in DOMAIN cstack : cstack[i].thr = t /\ cstack[i].top = k - 1
                                      /\ cstack[i].kind \in {"exec", "native"}

\* pf_prevent_count is raised exactly by a running finalizer and by a longjmp
\* that is being handled; once it were left raised, no finalizer would ever run.
PfExact ==
  pf = Cardinality({i \in DOMAIN cstack : cstack[i].kind = "fin"})
         + (IF Running THEN 0 ELSE 1)

\* Threads, callstacks and the C stack agree on who runs, who waits for whom and
\* where each of them continues, however resumes, yields and errors are mixed.
ThreadsConsistent == TypeOK /\ ThreadStates /\ SuspendedShape /\ FramesMatch

\* The two counters that are only counted up and down, by code that errors jump
\* over, are what they count: what prevents a yield, and what prevents finalizers.
CountersExact == PreventExact /\ PfExact

\* The finally clauses that have not been entered yet.
PendingFinally == {p \in OpenStmts : callstack[p[1]][p[2]].cats[p[3]].finally}

EnteredFinally(p) ==
  p \in OpenStmts /\ callstack[p[1]][p[2]].cats[p[3]].at = "finally"

\* No step drops a try statement whose finally clause has not run: whatever
\* leaves the statement, an error, a return, a break, a cancellation or the end of
\* the coroutine, enters the clause first.
FinallyNeverSkipped ==
  [][\A p \in PendingFinally : p \in PendingFinally' \/ EnteredFinally(p)']_vars

\* What the handling of a longjmp has left to unwind: C frames, activations,
\* threads that can end, and a resume or yield still to be turned into a throw.
ToUnwind ==
  Len(cstack)
  + Cardinality({p \in Thread \X (1..MaxCall) : p[2] \in DOMAIN callstack[p[1]]})
  + Cardinality({t \in Thread : tstate[t] # "terminated"})
  + (IF lj.type = "throw" THEN 0 ELSE 1)

\* Handling of an error, a resume, a yield or a cancellation ends: every step of
\* it that does not end it leaves less to unwind, so that an error is never thrown
\* back and forth between two catchpoints.  (That the handler never gets stuck is
\* the absence of deadlock: while a longjmp is handled no other code runs.)
HandlingEnds == [][~Running /\ ~Running' => ToUnwind' < ToUnwind]_vars

\* A pending finalizer that the engine may run now can run: finalizers are run on
\* heap_thread, which must be enterable.
FinalizerAccepted == Running /\ pf = 0 => MayEnter(MAIN)

\* An error in a finally clause leaves the statement: it is not caught by the
\* catch clause of the same statement, so a catch clause always has its finally
\* clause still to come.
FinallyAfterCatch ==
  \A t \in Thread : \A k \in DOMAIN callstack[t] : \A j \in DOMAIN callstack[t][k].cats :
    LET c == callstack[t][k].cats[j]
    IN c.at = "catch" /\ c.hasFinally => c.finally
=============================================================================

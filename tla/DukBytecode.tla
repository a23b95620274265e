---------------------------- MODULE DukBytecode -----------------------------
(***************************************************************************)
(* The opcodes of the bytecode executor (duk_js_executor.c), running what  *)
(* DukCompiler makes of a program.  The system takes one source element    *)
(* per step in each pass of the compiler, then one instruction per step.   *)
(***************************************************************************)
EXTENDS DukCompiler

CONSTANTS Programs,    \* set of <<mode, amax, statements>>
          MaxSteps,    \* instructions executed before a run counts as stuck
          ParseStmt(_),       \* DukCompiler's Stmt: the compiler on one source element
          ProgramMeaning(_, _)   \* EcmaScript's Ref: what the language says of a program

VARIABLES prog, c, v

vars == <<prog, c, v>>

-----------------------------------------------------------------------------
(* The executor.  m is a running function: registers, catchers, scopes      *)
(* inside the function (catch variables and with objects), globals, objects,*)
(* enumerators, the trace of calls, and the outcome.  stray is the number   *)
(* of calls made when a catcher whose finally had been entered was first     *)
(* used again, or -1.                                                        *)

Start(s) ==
  [pc |-> 0, regs |-> [r \in 0..Max({s.max, 1}) - 1 |-> UNDEF], cats |-> <<>>, env |-> <<>>, g |-> <<>>,
   h |-> <<>>, en |-> <<>>, tr |-> <<>>, out |-> <<"run", 0>>, n |-> 0, stray |-> -1]

Val(m, r) == IF IsConst(r) THEN r - 10000 ELSE m.regs[r]
Set(m, r, x) == [m EXCEPT !.regs[r] = x]
Go(m, pc) == [m EXCEPT !.pc = pc]

\* Slow variable access: the scopes inside the function from the innermost,
\* then the function's registers by its varmap, then globals.
Holds(m, e, n) == IF e[1] = "with" THEN Entry(m.h, e[2], n) # 0 ELSE e[2] = n
Scope(m, n) == LET I == {i \in DOMAIN m.env : Holds(m, m.env[i], n)} IN IF I = {} THEN 0 ELSE Max(I)
GetVar(s, m, n) ==
  LET i == Scope(m, n)
  IN  CASE i > 0 -> IF m.env[i][1] = "with" THEN GetProp(m.h, m.env[i][2], n) ELSE m.env[i][3]
        [] i = 0 /\ n \in DOMAIN s.map /\ s.map[n] >= 0 -> m.regs[s.map[n]]
        [] i = 0 /\ ~(n \in DOMAIN s.map /\ s.map[n] >= 0) ->
             IF n \in DOMAIN m.g THEN m.g[n] ELSE IF n = LOG THEN LOGF ELSE ABSENT
PutVar(s, m, n, x) ==
  LET i == Scope(m, n)
  IN  CASE i > 0 -> IF m.env[i][1] = "with" THEN [m EXCEPT !.h = PutProp(@, m.env[i][2], n, x)]
                    ELSE [m EXCEPT !.env[i] = <<"catch", n, x>>]
        [] i = 0 /\ n \in DOMAIN s.map /\ s.map[n] >= 0 -> Set(m, s.map[n], x)
        [] OTHER -> [m EXCEPT !.g = [y \in DOMAIN @ \union {n} |-> IF y = n THEN x ELSE @[y]]]

\* Unwinding catchers: the scope of an unwound one goes with it.
Unwind(m, k) ==   \* keep the k outermost catchers
  LET lost == Cardinality({i \in k + 1..Len(m.cats) : m.cats[i].lex})
  IN  [m EXCEPT !.cats = SubSeq(@, 1, k), !.env = SubSeq(@, 1, Len(@) - lost)]
Innermost(m, P(_)) == LET I == {i \in DOMAIN m.cats : P(m.cats[i])} IN IF I = {} THEN 0 ELSE Max(I)
\* duk__handle_finally clears the finally flag only: a catch clause that was not
\* entered stays enabled and the scope of one that was entered stays in place.
ToFinally(m, i, x, type) ==
  LET q == Unwind(m, i)
  IN  Go([q EXCEPT !.cats[i] = [@ EXCEPT !.fin = FALSE, !.entered = TRUE],
                   !.regs[q.cats[i].id] = x, !.regs[q.cats[i].id + 1] = type], q.cats[i].pc + 1)
Strays(m, b) == IF b /\ m.stray < 0 THEN [m EXCEPT !.stray = Len(m.tr)] ELSE m
\* The catcher scope i belongs to.
ScopeCatcher(m, i) ==
  CHOOSE j \in DOMAIN m.cats : m.cats[j].lex /\ Cardinality({k \in 1..j : m.cats[k].lex}) = i

\* Types of a longjmp kept in the second register of a finally.
NORMAL == 0
THROW == 1
RETURN == 2
BREAK == 3
CONTINUE == 4

\* duk__handle_longjmp with a throw
Throw(m, x) ==
  LET i == Innermost(m, LAMBDA k : k.type = "tcf" /\ (k.catch \/ k.fin))
      q == Unwind(m, i)
      r == m.cats[i].id
  IN  CASE i = 0 -> [Unwind(m, 0) EXCEPT !.out = <<"throw", x>>]
        [] i > 0 /\ m.cats[Max({i, 1})].catch ->
             Go([Strays(q, q.cats[i].entered)
                   EXCEPT !.cats[i].catch = FALSE, !.cats[i].lex = TRUE,
                          !.env = Append(@, <<"catch", m.cats[i].name, x>>),
                          !.regs[r] = x, !.regs[r + 1] = THROW], m.cats[i].pc)
        [] OTHER -> ToFinally(m, i, x, THROW)
\* duk__handle_return
Return(m, x) ==
  LET i == Innermost(m, LAMBDA k : k.type = "tcf" /\ k.fin)
  IN  IF i = 0 THEN [Unwind(m, 0) EXCEPT !.out = <<"return", x>>] ELSE ToFinally(m, i, x, RETURN)
\* duk__handle_break_or_continue
BreakTo(m, id, type) ==
  LET i == Innermost(m, LAMBDA k : (k.type = "tcf" /\ k.fin) \/ (k.type = "label" /\ k.id = id))
  IN  IF m.cats[i].type = "tcf" THEN ToFinally(m, i, id, type)
      ELSE Go(Unwind(m, i), m.cats[i].pc + (IF type = BREAK THEN 0 ELSE 1))

\* PREINC and POSTINC: the new value is stored, and the old or the new one
\* is the result.
IncResult(pre, x) == IF pre THEN Arith("+", x, 1) ELSE ToNumber(x)

\* duk__handle_op_mputobj, duk__handle_op_mputarr: keys and values in
\* consecutive registers; for an array the first one is the index.
MputArr(m, o, r, n) ==
  [m EXCEPT !.h = FoldLeft(LAMBDA h, i : PutProp(h, o, m.regs[r] + i - 1, m.regs[r + i]),
                           @, [i \in 1..n - 1 |-> i])]
MputObj(m, o, r, n) ==
  [m EXCEPT !.h = FoldLeft(LAMBDA h, i : PutProp(h, o, m.regs[r + 2 * i - 2], m.regs[r + 2 * i - 1]),
                           @, [i \in 1..n \div 2 |-> i])]

CallFn(m, cs, n, new) ==
  LET x == IF n = 0 THEN UNDEF ELSE m.regs[cs + 2]
  IN  IF m.regs[cs] # LOGF THEN Throw(m, TYPEERR)
      ELSE Set([m EXCEPT !.tr = Append(@, <<m.regs[cs + 1]>> \o [i \in 1..n |-> m.regs[cs + 1 + i]])],
               cs, IF new /\ ~IsObject(x) THEN m.regs[cs + 1] ELSE x)

\* Expressions that only compute a value for register A from B and C.
Binaries == {"+", "-", "*", "<", "==="}
Unaries == {"neg", "pos", "not", "typeof"}
Jumps(m, ins) ==
  LET op == ins[1] b == ins[3]
  IN  CASE op = "JUMP" -> Go(m, m.pc + ins[2])
        [] op = "IFTRUE" -> IF Truthy(Val(m, b)) THEN Go(m, m.pc + 1) ELSE m
        [] op = "IFFALSE" -> IF Truthy(Val(m, b)) THEN m ELSE Go(m, m.pc + 1)
        [] op = "RET" -> Return(m, Val(m, b))
        [] op = "RETUNDEF" -> Return(m, UNDEF)
        [] op = "THROW" -> Throw(m, m.regs[b])
Labels(m, ins) ==
  LET op == ins[1] id == ins[3]
  IN  CASE op = "LABEL" ->
             Go([m EXCEPT !.cats = Append(@, [type |-> "label", id |-> id, pc |-> m.pc, catch |-> FALSE,
                                             fin |-> FALSE, lex |-> FALSE, name |-> 0, entered |-> FALSE])], m.pc + 2)
        [] op = "ENDLABEL" -> Unwind(m, Len(m.cats) - 1)
        [] op = "BREAK" -> BreakTo(m, id, BREAK)
        [] op = "CONTINUE" -> BreakTo(m, id, CONTINUE)
\* Flags: 1 catch, 2 finally, 4 with.
TryCatch(m, flags, r) ==
  LET x == m.regs[r]
      q == [m EXCEPT !.regs[r] = UNDEF, !.regs[r + 1] = UNDEF,
                     !.cats = Append(@, [type |-> "tcf", id |-> r, pc |-> m.pc, catch |-> flags \in {1, 3},
                                         fin |-> flags \in {2, 3}, lex |-> flags = 4, name |-> x,
                                         entered |-> FALSE])]
  IN  IF flags = 4 /\ ~IsObject(x) THEN Throw([q EXCEPT !.cats[Len(q.cats)].lex = FALSE], TYPEERR)
      ELSE Go(IF flags = 4 THEN [q EXCEPT !.env = Append(@, <<"with", x>>)] ELSE q, m.pc + 2)
EndTry(m) ==
  LET n == Len(m.cats) cat == m.cats[n]
  IN  IF cat.fin THEN Go([m EXCEPT !.cats[n].catch = FALSE, !.cats[n].fin = FALSE,
                                   !.regs[cat.id] = UNDEF, !.regs[cat.id + 1] = NORMAL], cat.pc + 1)
      ELSE Go(Unwind(m, n - 1), cat.pc + 1)
EndCatch(m) ==
  LET n == Len(m.cats) cat == m.cats[n]
      q == IF cat.lex THEN [m EXCEPT !.env = Front(@), !.cats[n].lex = FALSE] ELSE m
  IN  IF cat.fin THEN [q EXCEPT !.cats[n].fin = FALSE, !.regs[cat.id] = UNDEF, !.regs[cat.id + 1] = NORMAL]
      ELSE Unwind(q, n - 1)
EndFin(m, r) ==
  LET type == m.regs[r + 1] x == m.regs[r]
  IN  CASE type = NORMAL -> Unwind(m, Len(m.cats) - 1)
        [] type = RETURN -> Return(m, x)
        [] type \in {BREAK, CONTINUE} -> BreakTo(m, x, type)
        [] type = THROW -> Throw(m, x)
\* Keys deleted since the enumerator was made are passed over.
NextEnum(m, r, en) ==
  LET e == m.regs[en]
      q == IF e >= 3000 THEN SelectSeq(m.en[e - 2999], LAMBDA k : Entry(m.h, k[2], k[1]) # 0) ELSE <<>>
  IN  IF e < 3000 THEN m
      ELSE IF q = <<>> THEN Set(m, r, UNDEF)
      ELSE Go([Set(m, r, q[1][1]) EXCEPT !.en[e - 2999] = Tail(q)], m.pc + 1)
InitEnum(m, r, o) ==
  LET keys == Keys(m.h, o)
  IN  IF ~IsObject(o) THEN Set(m, r, UNDEF)
      ELSE Set([m EXCEPT !.en = Append(@, [i \in DOMAIN keys |-> <<keys[i], o>>])], r, 3000 + Len(m.en))

Loads(m, ins) ==
  LET op == ins[1] a == ins[2] b == ins[3]
  IN  CASE op \in {"LDK", "LDREG"} -> Set(m, a, Val(m, b))
        [] op = "STREG" -> Set(m, b, m.regs[a])
        [] op = "LDUNDEF" -> Set(m, b, UNDEF)
        [] op = "LDTRUE" -> Set(m, b, TRUE_)
        [] op = "LDFALSE" -> Set(m, b, FALSE_)
        [] op = "NOP" -> m
        [] op = "INVALID" -> Throw(m, INVALID)

\* n is the variable's name: the instruction's constant.
DelVar(s, m, n) ==
  LET i == Scope(m, n)
  IN  CASE i > 0 -> IF m.env[i][1] = "with" THEN <<[m EXCEPT !.h = DelProp(@, m.env[i][2], n)], TRUE_>>
                    ELSE <<m, FALSE_>>
        [] i = 0 /\ n \in DOMAIN s.map -> <<m, FALSE_>>
        [] OTHER -> <<[m EXCEPT !.g = [y \in DOMAIN @ \ {n} |-> @[y]]], TRUE_>>
IncVar(s, m, r, n, pre) ==
  LET x == GetVar(s, m, n) IN Set(PutVar(s, m, n, Arith("+", x, 1)), r, IncResult(pre, x))
Variables(s, m0, ins) ==
  LET op == ins[1] a == ins[2] n == ins[3] - 10000
      i == Scope(m0, n)
      m == Strays(m0, i > 0 /\ m0.cats[ScopeCatcher(m0, i)].entered)
      x == GetVar(s, m, n)
      Bound(q) == IF x = ABSENT THEN Throw(m, REFERR) ELSE q
  IN  CASE op = "GETVAR" -> Bound(Set(m, a, x))
        [] op = "TYPEOFID" -> Set(m, a, TypeOf(IF x = ABSENT THEN UNDEF ELSE x))
        [] op = "DELVAR" -> Set(DelVar(s, m, n)[1], a, DelVar(s, m, n)[2])
        [] op = "PUTVAR" -> PutVar(s, m, n, m.regs[a])
        [] op = "DECLVAR" -> IF n \in DOMAIN m.g THEN m ELSE PutVar(s, m, n, UNDEF)
        [] op \in {"PREINCV", "POSTINCV"} -> Bound(IncVar(s, m, a, n, op = "PREINCV"))
        [] op = "CSVAR" ->
             Bound(Set(Set(m, a, x), a + 1,
                       IF i > 0 /\ m.env[Max({i, 1})][1] = "with" THEN m.env[i][2] ELSE UNDEF))

\* A base value that is not an object has no properties.
Properties(m, ins) ==
  LET op == ins[1] a == ins[2] d == ins[4]
      o == IF op = "PUTPROP" THEN m.regs[a] ELSE Val(m, ins[3])
      k == Val(m, IF op = "PUTPROP" THEN ins[3] ELSE d)
      x == GetProp(m.h, o, k)
      Put(y) == [m EXCEPT !.h = PutProp(@, o, k, y)]
  IN  CASE ~IsObject(o) -> Throw(m, TYPEERR)
        [] IsObject(o) /\ op \in {"GETPROP", "GETPROPC"} -> Set(m, a, x)
        [] IsObject(o) /\ op = "PUTPROP" -> Put(Val(m, d))
        [] IsObject(o) /\ op = "DELPROP" -> Set([m EXCEPT !.h = DelProp(@, o, k)], a, TRUE_)
        [] IsObject(o) /\ op \in {"PREINCP", "POSTINCP"} ->
             Set(Put(Arith("+", x, 1)), a, IncResult(op = "PREINCP", x))

Objects(m, ins) ==
  LET op == ins[1] a == ins[2] b == ins[3] d == ins[4]
  IN  CASE op \in {"NEWOBJ", "NEWARR"} ->
             Set([m EXCEPT !.h = Append(@, IF op = "NEWARR" THEN <<<<LEN, 0>>>> ELSE <<>>)], b, NewId(m.h))
        [] op = "MPUTARR" -> MputArr(m, m.regs[a], b, d)
        [] op = "MPUTARRI" -> MputArr(m, m.regs[a], m.regs[b], d)
        [] op = "MPUTOBJ" -> MputObj(m, m.regs[a], b, d)
        [] op = "MPUTOBJI" -> MputObj(m, m.regs[a], m.regs[b], d)
        [] op = "SETALEN" -> [m EXCEPT !.h = PutProp(@, m.regs[a], LEN, m.regs[b])]

\* One instruction of duk__js_execute_bytecode_inner; m.pc is past it.
Exec(s, m, ins) ==
  LET op == ins[1] a == ins[2] b == ins[3]
  IN  CASE op \in {"JUMP", "IFTRUE", "IFFALSE", "RET", "RETUNDEF", "THROW"} -> Jumps(m, ins)
        [] op \in {"LABEL", "ENDLABEL", "BREAK", "CONTINUE"} -> Labels(m, ins)
        [] op = "TRYCATCH" -> TryCatch(m, a, b)
        [] op = "ENDTRY" -> EndTry(m)
        [] op = "ENDCATCH" -> EndCatch(m)
        [] op = "ENDFIN" -> EndFin(m, b)
        [] op = "INITENUM" -> InitEnum(m, b, m.regs[ins[4]])
        [] op = "NEXTENUM" -> NextEnum(m, b, ins[4])
        [] op \in Binaries -> Set(m, a, Arith(op, Val(m, b), Val(m, ins[4])))
        [] op \in Unaries -> Set(m, a, Unary(op, m.regs[b]))
        [] op \in {"LDK", "LDREG", "STREG", "LDUNDEF", "LDTRUE", "LDFALSE", "NOP", "INVALID"} -> Loads(m, ins)
        [] op \in {"GETVAR", "TYPEOFID", "DELVAR", "PUTVAR", "DECLVAR", "PREINCV", "POSTINCV", "CSVAR"} ->
             Variables(s, m, ins)
        [] op \in {"GETPROP", "GETPROPC", "PUTPROP", "DELPROP", "PREINCP", "POSTINCP"} -> Properties(m, ins)
        [] op \in {"NEWOBJ", "NEWARR", "MPUTARR", "MPUTARRI", "MPUTOBJ", "MPUTOBJI", "SETALEN"} ->
             Objects(m, ins)
        [] op \in {"PREINCR", "POSTINCR"} ->
             Set(Set(m, b, Arith("+", m.regs[b], 1)), a, IncResult(op = "PREINCR", m.regs[b]))
        [] op = "CSREG" -> Set(Set(m, b, m.regs[a]), b + 1, UNDEF)
        [] op \in {"CALL", "NEW"} -> CallFn(m, b, a, op = "NEW")
        [] op \in {"CALLI", "NEWI"} -> CallFn(m, b, m.regs[a], op = "NEWI")

-----------------------------------------------------------------------------
(* prog is <<mode, amax, statements>>, c the compiler context, and once the *)
(* function is complete (c.p = 0) v is the executor.                        *)

None == [out |-> <<"none", 0>>]
Init == /\ prog \in Programs
        /\ c = FirstPass(Unparse(prog[3]), prog[1] = "function", prog[2])
        /\ v = None

Compiling == c.p > 0 /\ c.err = ""
\* One source element.
ParseStatement ==
  /\ Compiling /\ Tok(c) # "EOF"
  /\ c' = ParseStmt(c)
  /\ UNCHANGED <<prog, v>>
EndOfSource ==
  /\ Compiling /\ Tok(c) = "EOF"
  /\ c' = EndPass(c)
  /\ v' = IF c'.p = 0 THEN Start(c') ELSE v
  /\ UNCHANGED prog

Running == v.out[1] = "run" /\ v.n < MaxSteps
Step ==
  /\ Running
  /\ v' = [Exec(c, [v EXCEPT !.pc = @ + 1], c.code[v.pc + 1]) EXCEPT !.n = @ + 1]
  /\ UNCHANGED <<prog, c>>

Next == ParseStatement \/ EndOfSource \/ Step
Spec == Init /\ [][Next]_vars

-----------------------------------------------------------------------------
(* Properties.                                                              *)

Halted == v.out[1] \notin {"none", "run"}

\* Every program of the set is accepted, and running it ends.
Accepted == c.err = "" /\ (v # None => v.n < MaxSteps)

\* Compiled code does what ECMAScript says of the program it was compiled
\* from: the same calls with the same this values and arguments in the same
\* order, the same outcome, the same variables and objects.  Operator
\* precedence, temporaries, short circuits, jumps, labels, catchers, shuffled
\* operands and slow variables all have to be right for that.  Two rules of
\* the code are not the language's, and Halted programs agree up to exactly
\* these.  A function's variables live in registers, and an operand that is
\* one is read when the operator is computed (duk_js_compiler.c:4415 takes
\* the register, :4416 emits what may assign to it; :5639 for switch): the
\* second argument of ProgramMeaning names them.  And a catcher keeps its
\* catch flag and scope when its finally is entered (duk_js_executor.c:1183):
\* once they are used again only the calls made before are the language's.
HasFinally(ss) == <<"finally", 0>> \in Range(Unparse(ss))
CompiledAgrees ==
  Halted =>
    LET fn == prog[1] = "function"
        r == ProgramMeaning(prog[3], IF fn THEN DOMAIN c.map ELSE {})
    IN  IF v.stray >= 0
        THEN /\ HasFinally(prog[3])
             /\ v.stray <= Len(r.tr) /\ SubSeq(v.tr, 1, v.stray) = SubSeq(r.tr, 1, v.stray)
        ELSE
        /\ v.tr = r.tr
        /\ v.h = r.h
        /\ v.out = IF fn \/ r.out[1] = "throw" THEN r.out
                   ELSE <<"return", IF HasFinally(prog[3]) THEN v.out[2] ELSE r.cv>>
        /\ DOMAIN v.g \ DOMAIN c.map = DOMAIN r.vs \ DOMAIN c.map
        /\ \A n \in DOMAIN r.vs :
             r.vs[n] = IF fn /\ n \in DOMAIN c.map THEN v.regs[c.map[n]]
                       ELSE IF n \in DOMAIN v.g THEN v.g[n] ELSE ABSENT

\* When a function ends no catcher and no scope is left behind: every label,
\* try and with that was entered was left by exactly one of its exits.
CatchersBalanced ==
  Running => /\ v.pc < Len(c.code)
             /\ (c.code[v.pc + 1][1] \in {"RET", "RETUNDEF"} /\ v.pc + 1 = Len(c.code)) =>
                  v.cats = <<>> /\ v.env = <<>>

=============================================================================

---------------------------- MODULE DukCompiler -----------------------------
(***************************************************************************)
(* The compiler (duk_js_compiler.c): a Pratt parser that emits register    *)
(* bytecode while it parses.  An operand is a register number or           *)
(* Const(value), like a regconst with DUK__CONST_MARKER.  amax is the      *)
(* highest register an instruction's short field can name: above it        *)
(* operands are shuffled through registers reserved for that.  The first   *)
(* pass collects declarations; the second emits code, and is repeated with *)
(* shuffle registers when an operand did not fit its field.                *)
(***************************************************************************)
EXTENDS EcmaScript

CONSTANTS MaxInit,     \* DUK__MAX_ARRAY_INIT_VALUES, DUK__MAX_OBJECT_INIT_PAIRS
          MaxPeephole  \* DUK_COMPILER_PEEPHOLE_MAXITER

Const(x) == 10000 + x
IsConst(r) == r >= 5000

-----------------------------------------------------------------------------
(* Emitting code.  s is the compiler context: tokens, position, code,       *)
(* temp_next, temp_max, temp_first, labels, varmap and counters.            *)

PC(s) == Len(s.code)
Emit(s, op, a, b, d) == [s EXCEPT !.code = Append(@, <<op, a, b, d>>)]
Tok(s) == s.toks[s.p][1]
TokVal(s) == s.toks[s.p][2]
Adv(s) == [s EXCEPT !.p = @ + 1]
Fail(s, why) == [s EXCEPT !.err = IF @ = "" THEN why ELSE @]
Expect(s, t) == IF Tok(s) = t THEN Adv(s) ELSE Fail(s, "syntax")
Alloc(s, n) == [s EXCEPT !.next = @ + n, !.max = Max({@, s.next + n})]
SetTemp(s, n) == [s EXCEPT !.next = n]
IsTemp(s, r) == ~IsConst(r) /\ r >= s.first
Shuffle(s) == [s EXCEPT !.shuf = TRUE]
Long(s, r) == ~IsConst(r) /\ r > s.amax

\* duk__emit_a_bc: a too long for its field goes through shuffle1, and an
\* argument count through an indirect call.  src: A is a source.
EmitABC(s, op, src, a, bc) ==
  IF a <= s.amax THEN Emit(s, op, a, bc, 0)
  ELSE LET s1 == Shuffle(s) sh == s.sh
       IN  CASE op \in {"CALL", "NEW"} ->
                    Emit(Emit(s1, "LDK", sh, Const(a), 0), IF op = "CALL" THEN "CALLI" ELSE "NEWI", sh, bc, 0)
             [] op \notin {"CALL", "NEW"} /\ src -> Emit(Emit(s1, "LDREG", sh, a, 0), op, sh, bc, 0)
             [] OTHER -> Emit(Emit(s1, op, sh, bc, 0), "STREG", sh, a, 0)
EmitBC(s, op, bc) == Emit(s, op, 0, bc, 0)

\* duk__emit_a_b_c.  fl: "asrc" (A is a source), "btgt" (B is the target),
\* "noc" (C is a number), "jump" (a jump slot follows the instruction).
EmitAB_C(s, op, fl, a, b, d) ==
  LET La == Long(s, a)
      Lb == Long(s, b)
      Ld == Long(s, d) /\ "noc" \notin fl
      multi == op \in {"MPUTOBJ", "MPUTARR"}
      s0 == IF La \/ Lb \/ Ld THEN Shuffle(s) ELSE s
      s1 == IF La /\ "asrc" \in fl THEN Emit(s0, "LDREG", s.sh, a, 0) ELSE s0
      s2 == IF ~Lb \/ "btgt" \in fl THEN s1
            ELSE IF multi THEN Emit(s1, "LDK", s.sh + 1, Const(b), 0)
            ELSE Emit(s1, "LDREG", s.sh + 1, b, 0)
      s3 == IF Ld THEN Emit(s2, "LDREG", s.sh + 2, d, 0) ELSE s2
      a1 == IF La THEN s.sh ELSE a
      b1 == IF Lb THEN s.sh + 1 ELSE b
      d1 == IF Ld THEN s.sh + 2 ELSE d
      s4 == Emit(s3, IF multi /\ Lb THEN (IF op = "MPUTOBJ" THEN "MPUTOBJI" ELSE "MPUTARRI") ELSE op,
                 a1, b1, d1)
      s5 == IF "jump" \in fl THEN [Emit(s4, "JUMP", 0, 0, 0) EXCEPT !.slot = PC(s4)] ELSE s4
  IN  IF La /\ "asrc" \notin fl
      THEN LET s6 == Emit(s5, "STREG", s.sh, a, 0)
           IN  IF op = "CSVAR" THEN Emit(s6, "STREG", s.sh + 1, a + 1, 0) ELSE s6
      ELSE IF Lb /\ "btgt" \in fl THEN Emit(s5, "STREG", s.sh + 1, b, 0)
      ELSE s5

\* duk__emit_jump, duk__emit_jump_empty, duk__patch_jump(_here): offsets are
\* relative to the next instruction.
EmitJump(s, target) == Emit(s, "JUMP", target - PC(s) - 1, 0, 0)
PatchJump(s, pc, target) ==
  IF pc < 0 THEN s ELSE [s EXCEPT !.code[pc + 1] = <<"JUMP", target - pc - 1, 0, 0>>]
PatchHere(s, pc) == PatchJump(s, pc, PC(s))
Empty(s) == Emit(s, "JUMP", 0, 0, 0)

\* duk__insert_jump_entry
InsertJump(s, pc) == [s EXCEPT !.code = InsertAt(@, pc + 1, <<"JUMP", 0, 0, 0>>)]

-----------------------------------------------------------------------------
(* Intermediate values.  A result is [s, x]: the context and the ivalue, or *)
(* [s, r]: the context and a register or constant.                          *)

SpecV(x) == [k |-> "v", n |-> x]
SpecR(r) == [k |-> "rc", n |-> r]
IV(t, op, x1, x2) == [t |-> t, op |-> op, x1 |-> x1, x2 |-> x2]
PlainV(x) == IV("plain", "", SpecV(x), SpecV(0))
PlainR(r) == IV("plain", "", SpecR(r), SpecR(0))
VarV(n) == IV("var", "", SpecV(n), SpecV(0))
RX(s, x) == [s |-> s, x |-> x]
RR(s, r) == [s |-> s, r |-> r]

\* duk__lookup_active_register_binding: -1 is the slow path.
Lookup(s, n) == IF s.with > 0 THEN -1
                ELSE IF n \in DOMAIN s.map THEN s.map[n] ELSE -1

\* duk__ispec_toregconst_raw: forced register (or -1), constants allowed,
\* a temporary required.
SpecToRC(s, x, forced, allow, temp) ==
  LET dest == IF forced >= 0 THEN forced ELSE s.next
      s1 == IF forced >= 0 THEN s ELSE Alloc(s, 1)
  IN  CASE x.k = "v" /\ x.n = UNDEF -> RR(EmitBC(s1, "LDUNDEF", dest), dest)
        [] x.k = "v" /\ x.n = TRUE_ -> RR(EmitBC(s1, "LDTRUE", dest), dest)
        [] x.k = "v" /\ x.n = FALSE_ -> RR(EmitBC(s1, "LDFALSE", dest), dest)
        [] x.k = "v" /\ x.n \notin {UNDEF, TRUE_, FALSE_} ->
             IF allow THEN RR(s, Const(x.n)) ELSE RR(EmitABC(s1, "LDK", FALSE, dest, Const(x.n)), dest)
        [] x.k = "rc" /\ forced >= 0 ->
             IF x.n = forced THEN RR(s, forced)
             ELSE RR(EmitABC(s, IF IsConst(x.n) THEN "LDK" ELSE "LDREG", FALSE, forced, x.n), forced)
        [] x.k = "rc" /\ forced < 0 ->
             IF IsConst(x.n) /\ ~allow THEN RR(EmitABC(s1, "LDK", FALSE, dest, x.n), dest)
             ELSE IF ~IsConst(x.n) /\ temp /\ ~IsTemp(s, x.n)
             THEN RR(EmitABC(s1, "LDREG", FALSE, dest, x.n), dest)
             ELSE RR(s, x.n)

\* duk__ivalue_toplain_raw: constants are folded; the result goes to the
\* forced register, to an operand that is a temporary, or to a new one.
FoldOps == {"+", "-", "*"}
DestOf(s, forced, a1, a2) ==
  IF forced >= 0 THEN forced ELSE IF IsTemp(s, a1) THEN a1 ELSE IF IsTemp(s, a2) THEN a2 ELSE s.next
ToPlain(s, x, forced) ==
  CASE x.t = "plain" -> RX(s, x)
    [] x.t = "arith" /\ x.x1.k = "v" /\ x.x2.k = "v" /\ IsNumber(x.x1.n) /\ IsNumber(x.x2.n)
         /\ x.op \in FoldOps -> RX(s, PlainV(Arith(x.op, x.x1.n, x.x2.n)))
    [] x.t = "var" ->
         LET r == Lookup(s, x.x1.n)
             dest == IF forced >= 0 THEN forced ELSE s.next
             s1 == IF forced >= 0 THEN s ELSE Alloc(s, 1)
         IN  IF r >= 0 THEN RX(s, PlainR(r))
             ELSE RX(EmitABC(s1, "GETVAR", FALSE, dest, Const(x.x1.n)), PlainR(dest))
    [] OTHER ->
         LET a1 == SpecToRC(s, x.x1, -1, TRUE, FALSE)
             a2 == SpecToRC(a1.s, x.x2, -1, TRUE, FALSE)
             dest == DestOf(a2.s, forced, a1.r, a2.r)
             s1 == IF dest = a2.s.next THEN Alloc(a2.s, 1) ELSE a2.s
         IN  RX(EmitAB_C(s1, IF x.t = "prop" THEN "GETPROP" ELSE x.op, {}, dest, a1.r, a2.r), PlainR(dest))

\* duk__ivalue_toplain_ignore
ToIgnore(s, x) == SetTemp(ToPlain(s, x, -1).s, s.next)

\* duk__ivalue_toregconst_raw and its variants.
ToRC(s, x, forced, allow, temp) ==
  LET p == ToPlain(s, x, forced) IN SpecToRC(p.s, p.x.x1, forced, allow, temp)
ToForced(s, x, r) == ToRC(s, x, r, FALSE, FALSE).s
ToReg(s, x) == ToRC(s, x, -1, FALSE, FALSE)
ToRegConst(s, x) == ToRC(s, x, -1, TRUE, FALSE)
ToTempConst(s, x) == ToRC(s, x, -1, TRUE, TRUE)

-----------------------------------------------------------------------------
(* Labels: duk__add_label, duk__update_label_flags, duk__lookup_active_label *)

AddLabel(s, name, pc, id) ==
  IF name # 0 /\ \E i \in DOMAIN s.labels : s.labels[i].name = name THEN Fail(s, "duplicate label")
  ELSE [s EXCEPT !.labels = Append(@, [name |-> name, id |-> id, depth |-> s.catch, pc |-> pc,
                                       cont |-> FALSE])]
\* From the end, as long as the id is the same.
LabelFlags(s, id, cont) ==
  LET n == Len(s.labels)
      k == CHOOSE j \in 0..n : /\ \A i \in j + 1..n : s.labels[i].id = id
                               /\ (j = 0 \/ s.labels[Max({j, 1})].id # id)
  IN  [s EXCEPT !.labels = [i \in 1..n |-> IF i > k THEN [@[i] EXCEPT !.cont = cont] ELSE @[i]]]
FindLabel(s, name, brk) ==
  LET I == {i \in DOMAIN s.labels : s.labels[i].name = name /\ (brk \/ s.labels[i].cont \/ name # 0)}
  IN  IF I = {} THEN 0
      ELSE IF ~brk /\ ~s.labels[Max(I)].cont THEN 0 ELSE Max(I)

-----------------------------------------------------------------------------
(* Expressions: duk__expr, duk__expr_nud, duk__expr_led.                    *)

\* duk__token_lbp
Lbp(t) ==
  CASE t = "," -> 6 [] t \in {"=", "+="} -> 8 [] t = "?" -> 10 [] t = "||" -> 12 [] t = "&&" -> 14
    [] t = "===" -> 22 [] t = "<" -> 24 [] t \in {"+", "-"} -> 28 [] t = "*" -> 30
    [] t = "++" -> 34 [] t = "(" -> 36 [] t \in {"[", "."} -> 38
    [] t \in {")", "]"} -> 4 [] OTHER -> 0

RECURSIVE Expr(_, _), Nud(_, _, _), Led(_, _, _), LedLoop(_, _, _), ArrayItems(_, _, _, _, _, _, _),
          ObjectPairs(_, _, _, _, _), Arguments(_, _)

Expr(s, rbp) ==
  IF Tok(s) \in {";", ")"} THEN RX(Fail(s, "empty expression"), PlainV(UNDEF))
  ELSE LET n == Nud([Adv(s) EXCEPT !.nud = @ + 1], Tok(s), TokVal(s)) IN LedLoop(n.s, n.x, rbp)
LedLoop(s, x, rbp) ==
  IF s.err # "" \/ ~(rbp < Lbp(Tok(s))) THEN RX(s, x)
  ELSE LET l == Led([Adv(s) EXCEPT !.led = @ + 1], x, Tok(s)) IN LedLoop(l.s, l.x, rbp)

\* duk__exprtop resets the counters; an empty expression is allowed in a for.
ExprTop(s, rbp) == Expr([s EXCEPT !.nud = 0, !.led = 0], rbp)
ExprTopEmpty(s, rbp) == IF Tok(s) \in {";", ")"} THEN RX([s EXCEPT !.nud = 0, !.led = 0], PlainV(UNDEF))
                        ELSE ExprTop(s, rbp)
IsEmpty(s) == s.nud = 0 /\ s.led = 0

ExprForced(s, rbp, r) == LET e == Expr(s, rbp) IN ToForced(e.s, e.x, r)
ExprRC(s, rbp) == LET e == Expr(s, rbp) IN ToRegConst(e.s, e.x)
ExprTopRC(s, rbp) == LET e == ExprTop(s, rbp) IN ToRegConst(e.s, e.x)
ExprTopReg(s, rbp) == LET e == ExprTop(s, rbp) IN ToReg(e.s, e.x)

\* duk__nud_array_literal: values go to temporaries, MaxInit at a time; a
\* hole ends a batch.
ArrayItems(s, obj, start, num, idx, first, done) ==
  LET flush == IF num = 0 THEN s ELSE EmitAB_C(s, "MPUTARR", {"asrc", "noc"}, obj, start, num + 1)
      done1 == IF num = 0 THEN done ELSE first + num
      again == SetTemp(flush, start)
  IN  CASE s.err # "" -> s
        [] s.err = "" /\ Tok(s) = "]" ->
             LET t == again.next
             IN  IF idx > done1
                 THEN SetTemp(EmitABC(EmitABC(Alloc(again, 1), "LDK", FALSE, t, Const(idx)),
                                      "SETALEN", TRUE, obj, t), start)
                 ELSE again
        [] s.err = "" /\ Tok(s) = "," -> ArrayItems(Adv(again), obj, start, 0, idx + 1, 0, done1)
        [] s.err = "" /\ Tok(s) \notin {"]", ","} ->
             IF num >= MaxInit THEN ArrayItems(again, obj, start, 0, idx, 0, done1)
             ELSE LET s1 == IF num > 0 THEN s
                            ELSE EmitABC(Alloc(s, 1), "LDK", FALSE, s.next, Const(idx))
                      s2 == SetTemp(ExprForced(SetTemp(Alloc(s1, 1), s1.next), 6, s1.next), s1.next + 1)
                  IN  ArrayItems(IF Tok(s2) = "," THEN Adv(s2) ELSE s2, obj, start, num + 1, idx + 1,
                                 IF num > 0 THEN first ELSE idx, done)
ArrayLiteral(s) ==
  LET r == s.next s1 == EmitBC(Alloc(s, 1), "NEWARR", r)
  IN  RX(Expect(ArrayItems(s1, r, s1.next, 0, 0, 0, 0), "]"), PlainR(r))

\* duk__nud_object_literal, duk__objlit_flush_keys
FlushKeys(s, obj, start, num) ==
  SetTemp(IF num = 0 THEN s ELSE EmitAB_C(s, "MPUTOBJ", {"asrc", "noc"}, obj, start, num * 2), start)
ObjectPairs(s, obj, start, num, isfirst) ==
  IF s.err # "" \/ Tok(s) = "}" THEN FlushKeys(s, obj, start, num)
  ELSE LET s0 == IF isfirst THEN s ELSE Expect(s, ",")
           full == num >= MaxInit
           n == IF full THEN 0 ELSE num
           s1 == SetTemp(IF full THEN FlushKeys(s0, obj, start, num) ELSE s0, start + 2 * n)
           r == s1.next
           s2 == EmitABC(Alloc(Adv(s1), 2), "LDK", FALSE, r, Const(TokVal(s1)))
           s3 == ExprForced(SetTemp(Expect(s2, ":"), r + 1), 6, r + 1)
       IN  ObjectPairs(s3, obj, start, n + 1, FALSE)
ObjectLiteral(s) ==
  LET r == s.next s1 == EmitBC(Alloc(s, 1), "NEWOBJ", r)
  IN  RX(Expect(ObjectPairs(s1, r, s1.next, 0, TRUE), "}"), PlainR(r))

\* duk__parse_arguments: each argument in the next temporary.
Arguments(s, n) ==
  IF s.err # "" THEN RR(s, n)
  ELSE IF Tok(s) = ")" THEN RR(Adv(s), n)
  ELSE LET s1 == IF n > 0 THEN Expect(s, ",") ELSE s
           s2 == ExprForced(SetTemp(Alloc(s1, 1), s1.next), 6, s1.next)
       IN  Arguments(SetTemp(s2, s1.next + 1), n + 1)

\* unary: the operand's register is reused when it is a temporary.
EmitUnary(e, op) ==
  LET a == ToReg(e.s, e.x)
      dest == IF IsTemp(a.s, a.r) THEN a.r ELSE a.s.next
      s1 == IF IsTemp(a.s, a.r) THEN a.s ELSE Alloc(a.s, 1)
  IN  RX(EmitABC(s1, op, FALSE, dest, a.r), PlainR(dest))

\* The target of an increment: register variable, slow variable or property.
IncDec(s, x, r, op) ==
  CASE x.t = "var" ->
         LET b == Lookup(s, x.x1.n)
         IN  IF b >= 0 THEN EmitABC(s, op[1], FALSE, r, b) ELSE EmitABC(s, op[2], FALSE, r, Const(x.x1.n))
    [] x.t = "prop" ->
         LET o == SpecToRC(s, x.x1, -1, FALSE, FALSE)
             k == SpecToRC(o.s, x.x2, -1, TRUE, FALSE)
         IN  EmitAB_C(k.s, op[3], {}, r, o.r, k.r)
    [] OTHER -> Fail(s, "invalid lhs")

\* delete of a variable, of a property, or of a value.
Delete(e, r) ==
  LET s1 == Alloc(SetTemp(e.s, r), 1)
      o == SpecToRC(s1, e.x.x1, -1, FALSE, FALSE)
      k == SpecToRC(o.s, e.x.x2, -1, TRUE, FALSE)
  IN  CASE e.x.t = "prop" -> RX(EmitAB_C(k.s, "DELPROP", {}, r, o.r, k.r), PlainR(r))
        [] e.x.t = "var" -> RX(IF Lookup(s1, e.x.x1.n) >= 0 THEN EmitBC(s1, "LDFALSE", r)
                               ELSE EmitABC(s1, "DELVAR", FALSE, r, Const(e.x.x1.n)), PlainR(r))
        [] OTHER -> RX(e.s, PlainV(TRUE_))
\* new: the target, a fresh object as its this value, then the arguments.
New(s) ==
  LET r == s.next
      s1 == ExprForced(Alloc(s, 2), 36, r)
      s2 == SetTemp(EmitBC(s1, "NEWOBJ", r + 1), r + 2)
      a == IF Tok(s2) = "(" THEN Arguments(Adv(s2), 0) ELSE RR(s2, 0)
  IN  RX(EmitABC(a.s, "NEW", TRUE, a.r, r), PlainR(r))

\* typeof of a variable that may not exist is an instruction of its own.
Typeof(e) ==
  IF e.x.t = "var" /\ Lookup(e.s, e.x.x1.n) < 0
  THEN RX(EmitABC(Alloc(e.s, 1), "TYPEOFID", FALSE, e.s.next, Const(e.x.x1.n)), PlainR(e.s.next))
  ELSE EmitUnary(e, "typeof")
PreInc(s) ==
  LET r == s.next
      e == Expr(Alloc(s, 1), 30)
  IN  RX(SetTemp(IncDec(e.s, e.x, r, <<"PREINCR", "PREINCV", "PREINCP">>), r + 1), PlainR(r))
\* Constants are folded.
Signed(e, op) ==
  IF e.x.t = "plain" /\ e.x.x1.k = "v" /\ IsNumber(e.x.x1.n) THEN RX(e.s, PlainV(Unary(op, e.x.x1.n)))
  ELSE EmitUnary(e, op)
Not(e) ==
  IF e.x.t = "plain" /\ e.x.x1.k = "v" /\ e.x.x1.n \in {0, 1, TRUE_, FALSE_}
  THEN RX(e.s, PlainV(Unary("not", e.x.x1.n))) ELSE EmitUnary(e, "not")

Nud(s, t, val) ==
  CASE t = "id" -> RX(s, VarV(val))
    [] t = "num" -> RX(s, PlainV(val))
    [] t = "[" -> ArrayLiteral(s)
    [] t = "{" -> ObjectLiteral(s)
    [] t = "(" -> LET e == Expr(s, 4) IN RX(Expect(e.s, ")"), e.x)
    [] t = "new" -> New(s)
    [] t = "delete" -> Delete(Expr(s, 30), s.next)
    [] t = "typeof" -> Typeof(Expr(s, 30))
    [] t = "void" -> LET e == Expr(s, 30) IN RX(ToIgnore(e.s, e.x), PlainV(UNDEF))
    [] t = "++" -> PreInc(s)
    [] t \in {"-", "+"} -> Signed(Expr(s, 30), IF t = "-" THEN "neg" ELSE "pos")
    [] t = "!" -> Not(Expr(s, 30))
    [] OTHER -> RX(Fail(s, "syntax"), PlainV(UNDEF))

\* The assignment operators: left = right, left += right.
Toplevel(s) == s.nud = 1 /\ s.led = 1
AssignVar(s, x, op) ==
  LET n == x.x1.n
      b == Lookup(s, n)
      top == Toplevel(s)
      e == Expr(s, 7)
      nottemp == e.x.x1.k = "rc" /\ ~IsConst(e.x.x1.n) /\ ~IsTemp(e.s, e.x.x1.n)
      t == ToTempConst(e.s, e.x)
      q == IF top \/ (e.x.t = "plain" /\ ~nottemp) THEN e ELSE RX(t.s, PlainR(t.r))
  IN  IF b < 0
      THEN LET r == ToReg(q.s, q.x)
           IN  RX(EmitABC(r.s, "PUTVAR", TRUE, r.r, Const(n)), PlainR(r.r))
      ELSE IF q.x.t = "plain" THEN RX(ToForced(q.s, q.x, b), q.x)
      ELSE RX(ToForced(q.s, q.x, b), PlainR(b))      \* toplevel
OpAssignVar(s, x, op) ==
  LET n == x.x1.n
      b == Lookup(s, n)
      r0 == s.next
  IN  IF b >= 0
      THEN LET top == Toplevel(s)
               res == IF top THEN b ELSE r0
               tmp == IF top THEN r0 ELSE r0 + 1
               s1 == Alloc(s, IF top THEN 1 ELSE 2)
               s2 == EmitABC(s1, "LDREG", FALSE, tmp, b)
               e == ExprRC(s2, 7)
               unused == PC(e.s) = PC(s2)     \* the right-hand side is a register or a constant
               s3 == IF unused THEN [e.s EXCEPT !.code = SubSeq(@, 1, PC(s1))] ELSE e.s
               s4 == EmitAB_C(s3, op, {}, res, IF unused THEN b ELSE tmp, e.r)
               s5 == IF IsTemp(s4, res) THEN SetTemp(s4, res + 1) ELSE s4
           IN  RX(ToForced(s5, PlainR(res), b), PlainR(res))
      ELSE LET e == ExprRC(EmitABC(Alloc(s, 1), "GETVAR", FALSE, r0, Const(n)), 7)
               s1 == EmitAB_C(e.s, op, {}, r0, r0, e.r)
           IN  RX(EmitABC(s1, "PUTVAR", TRUE, r0, Const(n)), PlainR(r0))
AssignProp(s, x, op) ==
  LET o == SpecToRC(s, x.x1, -1, FALSE, TRUE)
      k == SpecToRC(o.s, x.x2, -1, TRUE, TRUE)
      t == k.s.next
      e == ExprRC(IF op = "" THEN k.s ELSE EmitAB_C(Alloc(k.s, 1), "GETPROP", {}, t, o.r, k.r), 7)
      s1 == IF op = "" THEN e.s ELSE EmitAB_C(e.s, op, {}, t, t, e.r)
      val == IF op = "" THEN e.r ELSE t
  IN  RX(EmitAB_C(s1, "PUTPROP", {"asrc"}, o.r, k.r, val), PlainR(val))

\* A call: the function and this value in two registers, then the arguments.
Call(s, x) ==
  LET cs == s.next
      s0 == Alloc(s, 2)
      b == IF x.t = "var" THEN Lookup(s, x.x1.n) ELSE -1
      s1 == CASE x.t = "var" /\ b >= 0 -> EmitABC(s0, "CSREG", TRUE, b, cs)
              [] x.t = "var" /\ b < 0 -> EmitAB_C(s0, "CSVAR", {}, cs, Const(x.x1.n), 0)
              [] x.t = "prop" ->
                   LET o == SpecToRC(s0, x.x1, cs + 1, FALSE, FALSE)
                       k == SpecToRC(o.s, x.x2, -1, TRUE, FALSE)
                   IN  EmitAB_C(k.s, "GETPROPC", {}, cs, cs + 1, k.r)
              [] OTHER -> EmitBC(ToForced(s0, x, cs), "LDUNDEF", cs + 1)
      a == Arguments(SetTemp(s1, cs + 2), 0)
  IN  RX(SetTemp(EmitABC(a.s, "CALL", TRUE, a.r, cs), cs + 1), PlainR(cs))

Logical(s, x, op, rbp) ==
  LET r == s.next
      s1 == EmitBC(ToForced(Alloc(s, 1), x, r), op, r)
  IN  RX(PatchHere(ExprForced(Empty(s1), rbp, r), PC(s1)), PlainR(r))

\* A binary operator: the left operand is made plain before the right one is
\* parsed, and the operation itself waits as an arithmetic ivalue.
Binary(s, x, op, rbp) ==
  LET l == ToPlain(s, x, -1)
      e == Expr(l.s, rbp)
      r == ToPlain(e.s, e.x, -1)
  IN  RX(r.s, IV("arith", op, l.x.x1, r.x.x1))

\* x.name and x[key]: the access itself waits as a property ivalue.
Member(s, x) ==
  LET l == ToPlain(s, x, -1)
  IN  IF Tok(s) # "id" THEN RX(Fail(s, "syntax"), x)
      ELSE RX(Adv(l.s), IV("prop", "", l.x.x1, SpecV(TokVal(s))))
Index(s, x) ==
  LET l == ToTempConst(s, x)
      e == Expr(l.s, 4)
      k == ToPlain(e.s, e.x, -1)
  IN  RX(Expect(k.s, "]"), IV("prop", "", SpecR(l.r), k.x.x1))
Conditional(s, x) ==
  LET r == s.next
      s1 == EmitBC(ToForced(Alloc(s, 1), x, r), "IFTRUE", r)
      s2 == Expect(ExprForced(Empty(s1), 6, r), ":")
      s3 == ExprForced(PatchHere(Empty(s2), PC(s1)), 6, r)
  IN  RX(SetTemp(PatchHere(s3, PC(s2)), r + 1), PlainR(r))
Assign(s, x, op) ==
  CASE x.t = "var" -> IF op = "" THEN AssignVar(s, x, op) ELSE OpAssignVar(s, x, op)
    [] x.t = "prop" -> AssignProp(s, x, op)
    [] OTHER -> RX(Fail(s, "invalid lhs"), x)
PostInc(s, x) ==
  LET r == s.next
  IN  RX(SetTemp(IncDec(Alloc(s, 1), x, r, <<"POSTINCR", "POSTINCV", "POSTINCP">>), r + 1), PlainR(r))

Led(s, x, t) ==
  CASE t = "." -> Member(s, x)
    [] t = "[" -> Index(s, x)
    [] t = "(" -> Call(s, x)
    [] t = "++" -> PostInc(s, x)
    [] t = "*" -> Binary(s, x, t, 30)
    [] t \in {"+", "-"} -> Binary(s, x, t, 28)
    [] t = "<" -> Binary(s, x, t, 24)
    [] t = "===" -> Binary(s, x, t, 22)
    [] t = "&&" -> Logical(s, x, "IFTRUE", 13)
    [] t = "||" -> Logical(s, x, "IFFALSE", 11)
    [] t = "," -> Expr(ToIgnore(s, x), 6)
    [] t = "?" -> Conditional(s, x)
    [] t = "=" -> Assign(s, x, "")
    [] t = "+=" -> Assign(s, x, "+")

-----------------------------------------------------------------------------
(* Statements.                                                              *)

NoAuto(s) == FALSE   \* mutant of Auto: a semicolon is required before a }
Auto(s) == Tok(s) \in {"}", "EOF"}     \* a semicolon may be left out here
RECURSIVE Stmt(_), Stmts(_, _), StmtIn(_, _, _, _, _), Cases(_, _, _, _, _, _), CaseStmts(_)

\* duk__parse_stmts
Stmts(s, last) == IF s.err # "" THEN s ELSE IF Tok(s) = last THEN Adv(s) ELSE Stmts(Stmt(s), last)

\* duk__parse_var_decl
VarDecl(s) ==
  LET n == TokVal(s)
      b == Lookup(s, n)
      s1 == Adv(IF s.scan THEN [s EXCEPT !.decls = Append(@, n)] ELSE s)
      e == ExprTop(Adv(s1), 6)
      r == ToReg(e.s, e.x)
  IN  IF Tok(s1) # "=" THEN s1
      ELSE IF b >= 0 THEN ToForced(e.s, e.x, b)
      ELSE EmitABC(r.s, "PUTVAR", TRUE, r.r, Const(n))

\* duk__parse_for_stmt, at the expression after the parenthesis.  The two
\* loop registers are allocated on entry: the key and the enumerator.
ForThree(s, t, site) ==      \* parse_1_or_2
  LET s1 == Expect(SetTemp(s, t), ";")
      l1 == PC(s1)
      e == ExprTopEmpty(s1, 4)
      rc == ToRegConst(e.s, e.x)
      s2 == IF IsEmpty(e.s) THEN Empty(e.s)
            ELSE Empty(Empty(EmitBC(rc.s, "IFFALSE", rc.r)))
      j3 == IF IsEmpty(e.s) THEN PC(s2) - 1 ELSE PC(s2) - 2
      j4 == IF IsEmpty(e.s) THEN -1 ELSE PC(s2) - 1
      s3 == Expect(SetTemp(s2, t), ";")
      l2 == PC(s3)
      u == ExprTopEmpty(s3, 4)
      none == IsEmpty(u.s)
      s4 == Expect(SetTemp(IF none THEN u.s ELSE EmitJump(ToIgnore(u.s, u.x), l1), t), ")")
      l3 == PC(s4)
      back == IF none THEN l1 ELSE l2
      s5 == EmitJump(Stmt(s4), back)
      l4 == PC(s5)
  IN  PatchJump(PatchJump(PatchJump(PatchJump(s5, j3, l3), j4, l4), site + 1, l4), site + 2, back)
ForIn(s, t, lhs, site) ==     \* parse_3_or_4: the assignment is at lhs already
  LET key == t
      s1 == Adv(Empty(InsertJump(SetTemp(s, t + 2), lhs)))
      j3 == PC(s1) - 1
      l2 == PC(s1)
      e == ExprTopReg(s1, 4)
      s2 == Empty(EmitAB_C(e.s, "INITENUM", {"btgt"}, 0, t + 1, e.r))
      j4 == PC(s2) - 1
      s3 == Expect(SetTemp(s2, t + 2), ")")
      l3 == PC(s3)
      s4 == Stmt(s3)
      l4 == PC(s4)
      s5 == EmitAB_C(s4, "NEXTENUM", {"btgt", "jump"}, 0, key, t + 1)
      s6 == EmitJump(s5, lhs + 1)
      l5 == PC(s6)
      p1 == PatchJump(PatchJump(PatchJump(s6, lhs, l2), j3, l3), j4, l4)
  IN  PatchJump(PatchJump(PatchJump(p1, s5.slot, l5), site + 1, l5), site + 2, l4)
ForStmt(s, site) ==
  LET t == s.next
      s1 == Expect(Adv(Alloc(s, 2)), "(")
      isvar == Tok(s1) = "var"
      d == SetTemp(VarDecl(Adv(s1)), t + 2)
      e == ExprTopEmpty(s1, 4)
      n == IF isvar THEN TokVal(Adv(s1)) ELSE e.x.x1.n
      Store(q) == LET b == Lookup(q, n)
                  IN  IF b >= 0 THEN EmitABC(q, "LDREG", FALSE, b, t)
                      ELSE EmitABC(q, "PUTVAR", TRUE, t, Const(n))
      o == SpecToRC(e.s, e.x.x1, -1, FALSE, FALSE)
      k == SpecToRC(o.s, e.x.x2, -1, TRUE, FALSE)
  IN  CASE isvar -> IF Tok(d) = "in" THEN ForIn(Store(d), t, PC(d), site) ELSE ForThree(d, t, site)
        [] ~isvar /\ Tok(e.s) # "in" -> ForThree(ToIgnore(e.s, e.x), t, site)
        [] ~isvar /\ Tok(e.s) = "in" ->
             CASE e.x.t = "var" -> ForIn(Store(e.s), t, PC(s1), site)
               [] e.x.t = "prop" -> ForIn(EmitAB_C(k.s, "PUTPROP", {"asrc"}, o.r, k.r, t), t, PC(s1), site)
               [] OTHER -> Fail(s, "invalid lhs")

\* duk__parse_switch_stmt.  prevcase, prevstmt: jumps to patch; def: the
\* address of the default clause.
CaseStmts(s) == IF s.err # "" \/ Tok(s) \in {"case", "default", "}"} THEN s ELSE CaseStmts(Stmt(s))
LinkStmts(s, pc) == PatchHere(s, pc)
Cases(s, rc, t, prevcase, prevstmt, def) ==
  LET s0 == SetTemp(s, t)
      e == ExprTopRC(Adv(PatchHere(s0, prevcase)), 4)
      s1 == Expect(e.s, ":")
      s2 == Empty(EmitBC(EmitAB_C(Alloc(s1, 1), "===", {}, s1.next, rc, e.r), "IFTRUE", s1.next))
      d1 == Expect(Adv(s0), ":")
      d2 == IF prevcase < 0 THEN Empty(d1) ELSE d1
      Body(q) == Empty(CaseStmts(LinkStmts(q, prevstmt)))
  IN  CASE s.err # "" -> s
        [] s.err = "" /\ Tok(s) = "}" ->
             PatchHere(IF def >= 0 THEN PatchJump(Adv(s0), prevcase, def) ELSE PatchHere(Adv(s0), prevcase),
                       prevstmt)
        [] s.err = "" /\ Tok(s) = "case" ->
             LET q == Body(s2) IN Cases(q, rc, t, PC(s2) - 1, PC(q) - 1, def)
        [] s.err = "" /\ Tok(s) = "default" ->
             LET q == Body(d2)
             IN  Cases(q, rc, t, IF prevcase < 0 THEN PC(d1) ELSE prevcase, PC(q) - 1, PC(d2))
        [] OTHER -> Fail(s, "syntax")
SwitchStmt(s, site) ==
  LET e == ExprTopRC(Expect(Adv(s), "("), 4)
      s1 == Expect(Expect(e.s, ")"), "{")
  IN  PatchHere(Cases(s1, e.r, s1.next, -1, -1, -1), site + 1)

IfStmt(s) ==
  LET e == ExprTopRC(Expect(Adv(s), "("), 4)
      s1 == Empty(EmitBC(e.s, "IFTRUE", e.r))
      s2 == Stmt(Expect(SetTemp(s1, s.next), ")"))
      s3 == PatchHere(Empty(Adv(s2)), PC(s1) - 1)
  IN  IF Tok(s2) = "else" THEN PatchHere(Stmt(s3), PC(s2)) ELSE PatchHere(s2, PC(s1) - 1)

DoStmt(s, site) ==
  LET s1 == PatchHere(Stmt(Adv(s)), site + 2)
      e == ExprTopRC(Expect(Expect(s1, "while"), "("), 4)
  IN  PatchHere(Expect(EmitJump(EmitBC(e.s, "IFFALSE", e.r), PC(s)), ")"), site + 1)

WhileStmt(s, site) ==
  LET s1 == Expect(Adv(s), "(")
      e == ExprTopRC(PatchHere(s1, site + 2), 4)
      s2 == Empty(EmitBC(e.s, "IFTRUE", e.r))
      s3 == EmitJump(Stmt(Expect(SetTemp(s2, s.next), ")")), PC(s1))
  IN  PatchHere(PatchHere(s3, PC(s2) - 1), site + 1)

\* duk__parse_break_or_continue_stmt: a jump to the label's slot when nothing
\* has to be unwound, else BREAK or CONTINUE.
JumpSuffices(s, i) == s.labels[i].depth = s.catch /\ i = Len(s.labels)
BreakStmt(s) ==
  LET brk == Tok(s) = "break"
      s1 == Adv(s)
      named == Tok(s1) = "id"
      i == FindLabel(s1, IF named THEN TokVal(s1) ELSE 0, brk)
      s2 == IF named THEN Adv(s1) ELSE s1
  IN  IF i = 0 THEN Fail(s, "invalid label")
      ELSE IF JumpSuffices(s, i) THEN EmitJump(s2, s.labels[i].pc + (IF brk THEN 1 ELSE 2))
      ELSE EmitBC(s2, IF brk THEN "BREAK" ELSE "CONTINUE", s.labels[i].id)

ReturnStmt(s) ==
  LET s1 == Adv(s)
      e == ExprTopRC(s1, 4)
  IN  IF ~s.fn THEN Fail(s, "invalid return")
      ELSE IF Tok(s1) = ";" \/ Auto(s1) THEN EmitBC(s1, "RETUNDEF", 0)
      ELSE EmitBC(e.s, "RET", e.r)

ThrowStmt(s) == LET e == ExprTopReg(Adv(s), 4) IN EmitBC(e.s, "THROW", e.r)

\* duk__parse_try_stmt
Shadow(s, n) == [s EXCEPT !.map = [x \in DOMAIN @ \union {n} |-> IF x = n THEN -1 ELSE @[x]]]
TryStmt(s) ==
  LET r == s.next
      s0 == Alloc([Adv(s) EXCEPT !.catch = @ + 1], 2)
      s1 == EmitABC(s0, "LDK", FALSE, r, Const(0))
      ld == PC(s0)
      tc == PC(s1)
      Inv(q) == Emit(q, "INVALID", 0, 0, 0)
      s2 == EmitBC(Stmts(Expect(Inv(Inv(Inv(s1))), "{"), "}"), "ENDTRY", 0)
      hasC == Tok(s2) = "catch"
      n == TokVal(Expect(Adv(s2), "("))
      c1 == Expect(Expect(Adv(Expect(Adv(s2), "(")), ")"), "{")
      c2 == Stmts(EmitABC(Shadow(c1, n), "PUTVAR", TRUE, r, Const(n)), "}")
      s3 == IF hasC THEN EmitBC([c2 EXCEPT !.map = s.map], "ENDCATCH", 0) ELSE s2
      hasF == Tok(s3) = "finally"
      s4 == IF hasF THEN EmitBC(Stmts(Expect(Adv(s3), "{"), "}"), "ENDFIN", r) ELSE s3
      flags == (IF hasC THEN 1 ELSE 0) + (IF hasF THEN 2 ELSE 0)
      s5 == [s4 EXCEPT !.code[ld + 1] = IF hasC THEN <<@[1], @[2], Const(n), 0>> ELSE <<"NOP", 0, 0, 0>>,
                       !.code[tc + 1] = <<"TRYCATCH", flags, r, 0>>, !.catch = s.catch]
      s6 == IF hasC THEN PatchJump(s5, tc + 1, PC(s2)) ELSE s5
  IN  IF ~hasC /\ ~hasF THEN Fail(s, "syntax")
      ELSE IF hasF THEN PatchJump(s6, tc + 2, PC(s3)) ELSE PatchHere(s6, tc + 2)

WithStmt(s) ==
  LET r == s.next
      s0 == Expect(Alloc([Adv(s) EXCEPT !.catch = @ + 1, !.with = @ + 1], 2), "(")
      e == ExprTop(s0, 4)
      s1 == Expect(ToForced(e.s, e.x, r), ")")
      Inv(q) == Emit(q, "INVALID", 0, 0, 0)
      s2 == Inv(Inv(Emit(s1, "TRYCATCH", 4, r, 0)))
      s3 == EmitBC(Stmt(s2), "ENDTRY", 0)
  IN  [PatchHere(s3, PC(s1) + 2) EXCEPT !.catch = s.catch, !.with = s.with]

\* duk__stmt_label_site
LabelSite(s, id) ==
  IF id >= 0 THEN s
  ELSE Emit(Emit(EmitBC([s EXCEPT !.nlab = @ + 1], "LABEL", s.nlab), "INVALID", 0, 0, 0), "INVALID", 0, 0, 0)

\* duk__parse_stmt: StmtIn is its body, again for each label; pc is where the
\* statement and its label site begin, id its label id or -1.
Terminated(s) == IF Tok(s) = ";" THEN Adv(s) ELSE IF Auto(s) THEN s ELSE Fail(s, "unterminated")
Value(s, x) == IF s.sreg >= 0 THEN ToForced(s, x, s.sreg) ELSE ToIgnore(s, x)
LabelledBlock(s, pc, id) == IF id >= 0 THEN PatchHere(s, pc + 1) ELSE s
Finish(s, id, temp, nlabels) ==
  LET s1 == IF id >= 0 THEN EmitBC(s, "ENDLABEL", id) ELSE s
  IN  [SetTemp(s1, temp) EXCEPT !.labels = SubSeq(@, 1, nlabels)]
\* An expression statement that is one identifier before a colon is a label.
IsLabel(s, e) == e.s.nud = 1 /\ e.s.led = 0 /\ Tok(s) = "id" /\ Tok(e.s) = ":"
Stmt(s) == IF s.err # "" THEN s ELSE StmtIn(s, PC(s), -1, s.next, Len(s.labels))
StmtIn(s, pc, id, temp, nlabels) ==
  LET loop == Tok(s) \in {"for", "do", "while", "switch"}
      id1 == IF loop /\ id < 0 THEN s.nlab ELSE id
      s0 == IF loop THEN LabelFlags(AddLabel(LabelSite(s, id), 0, pc, id1), id1, Tok(s) # "switch") ELSE s
      e == ExprTop(s, 4)
      End(q) == Finish(q, id1, temp, nlabels)
  IN  CASE Tok(s) = "{" -> End(LabelledBlock(Stmts(Adv(s), "}"), pc, id))
        [] Tok(s) = "var" -> End(Terminated(VarDecl(Adv(s))))
        [] Tok(s) = ";" -> End(Adv(s))
        [] Tok(s) = "if" -> End(LabelledBlock(IfStmt(s), pc, id))
        [] Tok(s) = "do" -> LET q == DoStmt(s0, pc) IN End(IF Tok(q) = ";" THEN Adv(q) ELSE q)
        [] Tok(s) = "while" -> End(WhileStmt(s0, pc))
        [] Tok(s) = "for" -> End(ForStmt(s0, pc))
        [] Tok(s) \in {"break", "continue"} -> End(Terminated(BreakStmt(s)))
        [] Tok(s) = "return" -> End(Terminated(ReturnStmt(s)))
        [] Tok(s) = "with" -> End(LabelledBlock(WithStmt(s), pc, id))
        [] Tok(s) = "switch" -> End(SwitchStmt(s0, pc))
        [] Tok(s) = "throw" -> End(Terminated(ThrowStmt(s)))
        [] Tok(s) = "try" -> End(TryStmt(s))
        [] OTHER ->
             IF IsLabel(s, e)
             THEN LET s1 == LabelSite(Adv(e.s), id)
                      n == IF id < 0 THEN s.nlab ELSE id
                  IN  StmtIn(AddLabel(s1, TokVal(s), pc, n), pc, n, temp, nlabels)
             ELSE End(Terminated(Value(e.s, e.x)))

-----------------------------------------------------------------------------
(* Functions: duk__parse_func_body.  The first pass collects declarations;  *)
(* the second emits code, and is repeated with shuffle registers when an    *)
(* operand did not fit its field.                                           *)

Blank(toks, fn, amax) ==
  [toks |-> toks, p |-> 1, code |-> <<>>, next |-> 0, max |-> 0, first |-> 0, labels |-> <<>>,
   map |-> <<>>, catch |-> 0, with |-> 0, nlab |-> 0, nud |-> 0, led |-> 0, decls |-> <<>>,
   scan |-> FALSE, shuf |-> FALSE, sh |-> -1, slot |-> 0, sreg |-> -1, fn |-> fn, amax |-> amax, err |-> ""]

\* duk__init_varmap_and_prologue_for_pass2: the statement value's register,
\* shuffle registers, then the variables in the order of their declarations.
RECURSIVE Declare(_, _)
Declare(s, q) ==
  IF q = <<>> THEN s
  ELSE IF q[1] \in DOMAIN s.map THEN Declare(s, Tail(q))
  ELSE LET s1 == IF s.fn THEN Alloc(s, 1) ELSE EmitAB_C(s, "DECLVAR", {"noc"}, 0, Const(q[1]), 0)
           r == IF s.fn THEN s.next ELSE -1
       IN  Declare([s1 EXCEPT !.map = [x \in DOMAIN @ \union {q[1]} |-> IF x = q[1] THEN r ELSE @[x]]], Tail(q))
Prologue(s0, decls, shuf) ==
  LET s1 == IF s0.fn THEN s0 ELSE [Alloc(s0, 1) EXCEPT !.sreg = s0.next]
      s2 == IF shuf THEN [Alloc(s1, 3) EXCEPT !.shuf = TRUE, !.sh = s1.next] ELSE s1
      s3 == IF s2.next > s2.amax + 1 THEN Fail(s2, "out of registers") ELSE Declare(s2, decls)
      s4 == [s3 EXCEPT !.first = s3.next]
  IN  IF s0.fn THEN s4 ELSE EmitBC(s4, "LDUNDEF", 0)

\* duk__peephole_optimize_bytecode
RECURSIVE Peephole(_, _)
OneHop(code) ==
  FoldLeft(LAMBDA q, i :
             LET t1 == i + 1 + q[i][2]
             IN  IF q[i][1] = "JUMP" /\ q[t1][1] = "JUMP"
                 THEN [q EXCEPT ![i] = <<"JUMP", (t1 + 1 + q[t1][2]) - (i + 1), 0, 0>>] ELSE q,
           code, [i \in 1..Len(code) |-> i])
Peephole(code, n) ==
  IF n = 0 \/ OneHop(code) = code THEN code ELSE Peephole(OneHop(code), n - 1)

\* The first pass starts with nothing known of the function.
FirstPass(toks, fn, amax) ==
  LET b == Blank(toks, fn, amax)
  IN  [IF fn THEN b ELSE [Alloc(b, 1) EXCEPT !.sreg = 0] EXCEPT !.scan = TRUE]
SecondPass(s, shuf) ==
  Prologue([Blank(s.toks, s.fn, s.amax) EXCEPT !.decls = s.decls], s.decls, shuf)
Shuffled(s) == s.sh >= 0       \* this pass has its shuffle registers
\* The end of the source text: start the second pass, start it again with
\* shuffle registers, or finish the function.
EndPass(s) ==
  CASE s.scan -> SecondPass(s, s.shuf)
    [] ~s.scan /\ s.shuf /\ ~Shuffled(s) -> SecondPass(s, TRUE)
    [] OTHER -> LET t == IF s.fn THEN EmitBC(s, "RETUNDEF", 0) ELSE EmitBC(s, "RET", s.sreg)
                IN  [t EXCEPT !.code = Peephole(@, MaxPeephole), !.toks = <<>>, !.p = 0]

=============================================================================

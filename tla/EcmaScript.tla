----------------------------- MODULE EcmaScript -----------------------------
(***************************************************************************)
(* What an ECMAScript program means: values and objects, the tokens of an  *)
(* abstract syntax tree, and Ref, an interpreter of the tree that says     *)
(* which calls a program makes, in which order and with which arguments,   *)
(* how it ends and what it leaves in its variables and objects.  It is the *)
(* reference the compiled code is compared with; only the value operations *)
(* are shared with the executor.                                           *)
(*                                                                         *)
(* Values, names and property keys are integers, in ranges of their own.   *)
(***************************************************************************)
EXTENDS Integers, Sequences, SequencesExt, FiniteSets, FiniteSetsExt

-----------------------------------------------------------------------------
(* Values.  Names are the integers from 200; objects are 2000 + index.      *)

UNDEF == -99
NAN == -98
TRUE_ == -95
FALSE_ == -94
TYPEERR == -93
REFERR == -92
INVALID == -91   \* the error of an invalid opcode
LOGF == 400      \* the one function: it appends its arguments to a trace
LOG == 299
LEN == 298       \* "length" of an array
ABSENT == -90

IsNumber(x) == (x > -90 /\ x < 200) \/ x = NAN
ToNumber(x) == IF IsNumber(x) THEN x
               ELSE IF x = TRUE_ THEN 1 ELSE IF x = FALSE_ THEN 0 ELSE NAN
Truthy(x) == x \notin {UNDEF, NAN, FALSE_, 0}
Bool(b) == IF b THEN TRUE_ ELSE FALSE_
IsObject(x) == x >= 2000
Arith(op, x, y) ==
  LET a == ToNumber(x) b == ToNumber(y)
  IN  CASE op = "===" -> Bool(x = y /\ x # NAN)
        [] op = "<" -> Bool(a # NAN /\ b # NAN /\ a < b)
        [] op \in {"+", "-", "*"} ->
             IF NAN \in {a, b} THEN NAN
             ELSE CASE op = "+" -> a + b [] op = "-" -> a - b [] OTHER -> a * b
\* The strings typeof gives.
TypeOf(x) == CASE x = UNDEF -> -101
               [] IsNumber(x) -> -102
               [] x \in {TRUE_, FALSE_} -> -103
               [] x = LOGF -> -104
               [] x \in -105..-101 -> -105
               [] OTHER -> -100
Unary(op, x) ==
  CASE op = "neg" -> IF ToNumber(x) = NAN THEN NAN ELSE -ToNumber(x)
    [] op = "pos" -> ToNumber(x)
    [] op = "not" -> Bool(~Truthy(x))
    [] op = "typeof" -> TypeOf(x)

\* Objects: sequences of <<key, value>>; an array's first entry is its length.
Entry(h, o, k) == SelectInSeq(h[o - 1999], LAMBDA e : e[1] = k)
GetProp(h, o, k) == LET i == Entry(h, o, k) IN IF i = 0 THEN UNDEF ELSE h[o - 1999][i][2]
IsArray(h, o) == h[o - 1999] # <<>> /\ h[o - 1999][1][1] = LEN
PutProp(h, o, k, x) ==
  LET i == Entry(h, o, k)
      h1 == IF i = 0 THEN [h EXCEPT ![o - 1999] = Append(@, <<k, x>>)]
            ELSE [h EXCEPT ![o - 1999][i] = <<k, x>>]
  IN  IF IsArray(h, o) /\ k < 100 /\ k >= h[o - 1999][1][2]
      THEN [h1 EXCEPT ![o - 1999][1] = <<LEN, k + 1>>] ELSE h1
DelProp(h, o, k) == [h EXCEPT ![o - 1999] = SelectSeq(@, LAMBDA e : e[1] # k)]
Keys(h, o) == LET q == SelectSeq(h[o - 1999], LAMBDA e : e[1] # LEN)
              IN  [i \in DOMAIN q |-> q[i][1]]
NewId(h) == 2000 + Len(h)

-----------------------------------------------------------------------------
(* Tokens of a tree, with no more parentheses than ECMAScript's grammar     *)
(* requires: levels comma 1, assignment 2, conditional 3, or 4, and 5,      *)
(* equality 6, relational 7, additive 8, multiplicative 9, unary 10,        *)
(* postfix 11, left-hand side 12.                                           *)

T(s) == <<s, 0>>
OpLevel == [s \in {",", "||", "&&", "===", "<", "+", "-", "*"} |->
              CASE s = "," -> 1 [] s = "||" -> 4 [] s = "&&" -> 5 [] s = "===" -> 6
                [] s = "<" -> 7 [] s \in {"+", "-"} -> 8 [] s = "*" -> 9]
UnTok == [s \in {"neg", "pos", "not", "del", "void", "typeof"} |->
            CASE s = "neg" -> "-" [] s = "pos" -> "+" [] s = "not" -> "!"
              [] s = "del" -> "delete" [] OTHER -> s]
Level(e) ==
  CASE e[1] = "bin" -> OpLevel[e[2]]
    [] e[1] \in {"asg", "opasg"} -> 2
    [] e[1] = "cond" -> 3
    [] e[1] \in {"un", "pre"} -> 10
    [] e[1] = "post" -> 11
    [] OTHER -> 12

RECURSIVE Toks(_, _), ListToks(_), PairToks(_)
Toks(e, level) ==
  IF Level(e) < level THEN <<T("(")>> \o Toks(e, 0) \o <<T(")")>>
  ELSE CASE e[1] = "num" -> <<<<"num", e[2]>>>>
         [] e[1] = "var" -> <<<<"id", e[2]>>>>
         [] e[1] = "bin" -> Toks(e[3], Level(e)) \o <<T(e[2])>> \o Toks(e[4], Level(e) + 1)
         [] e[1] = "asg" -> Toks(e[2], 12) \o <<T("=")>> \o Toks(e[3], 2)
         [] e[1] = "opasg" -> Toks(e[2], 12) \o <<T("+=")>> \o Toks(e[3], 2)
         [] e[1] = "cond" -> Toks(e[2], 4) \o <<T("?")>> \o Toks(e[3], 2) \o <<T(":")>> \o Toks(e[4], 2)
         [] e[1] = "un" -> <<T(UnTok[e[2]])>> \o Toks(e[3], 10)
         [] e[1] = "pre" -> <<T("++")>> \o Toks(e[2], 10)
         [] e[1] = "post" -> Toks(e[2], 12) \o <<T("++")>>
         [] e[1] = "dot" -> Toks(e[2], 12) \o <<T("."), <<"id", e[3]>>>>
         [] e[1] = "idx" -> Toks(e[2], 12) \o <<T("[")>> \o Toks(e[3], 0) \o <<T("]")>>
         [] e[1] = "call" -> Toks(e[2], 12) \o <<T("(")>> \o ListToks(e[3]) \o <<T(")")>>
         [] e[1] = "new" -> <<T("new")>> \o Toks(e[2], 12) \o <<T("(")>> \o ListToks(e[3]) \o <<T(")")>>
         [] e[1] = "arr" -> <<T("[")>> \o ListToks(e[2]) \o <<T("]")>>
         [] e[1] = "obj" -> <<T("{")>> \o PairToks(e[2]) \o <<T("}")>>
\* A hole of an array literal is <<"hole">>.
ListToks(q) ==
  IF q = <<>> THEN <<>>
  ELSE (IF q[1][1] = "hole" THEN <<T(",")>>
        ELSE Toks(q[1], 2) \o (IF Len(q) > 1 THEN <<T(",")>> ELSE <<>>)) \o ListToks(Tail(q))
PairToks(q) ==
  IF q = <<>> THEN <<>>
  ELSE <<<<"id", q[1][1]>>, T(":")>> \o Toks(q[1][2], 2)
       \o (IF Len(q) > 1 THEN <<T(",")>> ELSE <<>>) \o PairToks(Tail(q))

Simple == {"expr", "var", "ret", "thr", "brk", "cont"}
RECURSIVE StmtToks(_), BlockToks(_), CaseToks(_)
\* The semicolon before a } is left out.
BlockToks(q) ==
  LET last == Len(q) > 0 /\ q[Len(q)][1] \in Simple
      t == FlattenSeq([i \in DOMAIN q |-> StmtToks(q[i])])
  IN  <<T("{")>> \o (IF last THEN Front(t) ELSE t) \o <<T("}")>>
Optional(e) == IF e[1] = "none" THEN <<>> ELSE Toks(e, 0)
Paren(e) == <<T("(")>> \o Toks(e, 0) \o <<T(")")>>
StmtToks(s) ==
  CASE s[1] = "expr" -> (IF Toks(s[2], 0)[1] = T("{") THEN Paren(s[2]) ELSE Toks(s[2], 0)) \o <<T(";")>>
    [] s[1] = "empty" -> <<T(";")>>
    [] s[1] = "var" -> <<T("var"), <<"id", s[2]>>>>
                       \o (IF s[3][1] = "none" THEN <<>> ELSE <<T("=")>> \o Toks(s[3], 2)) \o <<T(";")>>
    [] s[1] = "block" -> BlockToks(s[2])
    [] s[1] = "if" -> <<T("if")>> \o Paren(s[2]) \o StmtToks(s[3])
                      \o (IF s[4][1] = "none" THEN <<>> ELSE <<T("else")>> \o StmtToks(s[4]))
    [] s[1] = "while" -> <<T("while")>> \o Paren(s[2]) \o StmtToks(s[3])
    [] s[1] = "do" -> <<T("do")>> \o StmtToks(s[2]) \o <<T("while")>> \o Paren(s[3])
    [] s[1] = "for" -> <<T("for"), T("(")>> \o Optional(s[2]) \o <<T(";")>> \o Optional(s[3])
                       \o <<T(";")>> \o Optional(s[4]) \o <<T(")")>> \o StmtToks(s[5])
    [] s[1] = "forin" -> <<T("for"), T("(")>> \o Toks(s[2], 12) \o <<T("in")>> \o Toks(s[3], 0)
                         \o <<T(")")>> \o StmtToks(s[4])
    [] s[1] = "switch" -> <<T("switch")>> \o Paren(s[2]) \o <<T("{")>> \o CaseToks(s[3]) \o <<T("}")>>
    [] s[1] \in {"brk", "cont"} -> <<T(IF s[1] = "brk" THEN "break" ELSE "continue")>>
                                   \o (IF s[2] = 0 THEN <<>> ELSE <<<<"id", s[2]>>>>) \o <<T(";")>>
    [] s[1] = "ret" -> <<T("return")>> \o Optional(s[2]) \o <<T(";")>>
    [] s[1] = "thr" -> <<T("throw")>> \o Toks(s[2], 0) \o <<T(";")>>
    [] s[1] = "label" -> <<<<"id", s[2]>>, T(":")>> \o StmtToks(s[3])
    [] s[1] = "try" -> <<T("try")>> \o BlockToks(s[2])
                       \o (IF s[3] = 0 THEN <<>>
                           ELSE <<T("catch"), T("("), <<"id", s[3]>>, T(")")>> \o BlockToks(s[4]))
                       \o (IF s[5] THEN <<T("finally")>> \o BlockToks(s[6]) ELSE <<>>)
    [] s[1] = "with" -> <<T("with")>> \o Paren(s[2]) \o StmtToks(s[3])
CaseToks(q) ==
  IF q = <<>> THEN <<>>
  ELSE (IF q[1][1][1] = "none" THEN <<T("default"), T(":")>>
        ELSE <<T("case")>> \o Toks(q[1][1], 0) \o <<T(":")>>)
       \o FlattenSeq([i \in DOMAIN q[1][2] |-> StmtToks(q[1][2][i])]) \o CaseToks(Tail(q))
Unparse(stmts) == Append(FlattenSeq([i \in DOMAIN stmts |-> StmtToks(stmts[i])]), T("EOF"))

-----------------------------------------------------------------------------
(* The reference: what ECMAScript says a program does.  A state q has the   *)
(* variables, scopes, objects and trace; a completion is [q, k, x]: k is    *)
(* "normal", "throw", "return", "break" or "continue".                      *)

N(q, x) == [q |-> q, k |-> "normal", x |-> x]
K(q, k, x) == [q |-> q, k |-> k, x |-> x]
RefScope(q, n) == LET I == {i \in DOMAIN q.env : IF q.env[i][1] = "with" THEN Entry(q.h, q.env[i][2], n) # 0
                                                 ELSE q.env[i][2] = n}
                  IN  IF I = {} THEN 0 ELSE Max(I)
RefGet(q, n) == LET i == RefScope(q, n)
                IN  CASE i > 0 -> IF q.env[i][1] = "with" THEN GetProp(q.h, q.env[i][2], n) ELSE q.env[i][3]
                      [] i = 0 -> IF n \in DOMAIN q.vs THEN q.vs[n] ELSE IF n = LOG THEN LOGF ELSE ABSENT
\* A reference: <<"prop", object, key>> or <<"scope", index, name>>, resolved
\* before the right-hand side of an assignment is evaluated.
RefPut(q, f, x) ==
  CASE f[1] = "prop" -> [q EXCEPT !.h = PutProp(@, f[2], f[3], x)]
    [] f[1] = "scope" /\ f[2] > 0 ->
         IF q.env[f[2]][1] = "with" THEN [q EXCEPT !.h = PutProp(@, q.env[f[2]][2], f[3], x)]
         ELSE [q EXCEPT !.env[f[2]] = <<"catch", f[3], x>>]
    [] OTHER -> [q EXCEPT !.vs = [y \in DOMAIN @ \union {f[3]} |-> IF y = f[3] THEN x ELSE @[y]]]

\* The register variable an operand stays in until its operator is computed, or
\* 0: in the language itself (reg empty) there is none.
RECURSIVE Late(_, _), Ev(_, _), EvRef(_, _), EvList(_, _, _), EvPairs(_, _, _)
Then(r, F(_, _)) == IF r.k # "normal" THEN r ELSE F(r.q, r.x)
Late(q, e) ==
  CASE e[1] = "var" -> IF e[2] \in q.reg /\ \A i \in DOMAIN q.env : q.env[i][1] = "catch" /\ q.env[i][2] # e[2]
                       THEN e[2] ELSE 0
    [] e[1] = "bin" /\ e[2] = "," -> Late(q, e[4])
    [] OTHER -> 0
Operand(q, e, x, w) == IF Late(q, e) = 0 THEN x ELSE RefGet(w, Late(q, e))
\* Evaluate to a reference.
EvRef(q, e) ==
  CASE e[1] = "var" -> N(q, <<"scope", RefScope(q, e[2]), e[2]>>)
    [] e[1] = "dot" -> Then(Ev(q, e[2]), LAMBDA p, o : N(p, <<"prop", o, e[3]>>))
    [] e[1] = "idx" -> Then(Ev(q, e[2]), LAMBDA p, o : Then(Ev(p, e[3]), LAMBDA w, k : N(w, <<"prop", o, k>>)))
RefValue(q, f) ==
  IF f[1] = "prop" THEN (IF IsObject(f[2]) THEN N(q, GetProp(q.h, f[2], f[3])) ELSE K(q, "throw", TYPEERR))
  ELSE LET x == IF f[2] = 0 THEN (IF f[3] \in DOMAIN q.vs THEN q.vs[f[3]] ELSE IF f[3] = LOG THEN LOGF ELSE ABSENT)
                ELSE IF q.env[f[2]][1] = "with" THEN GetProp(q.h, q.env[f[2]][2], f[3]) ELSE q.env[f[2]][3]
       IN  IF x = ABSENT THEN K(q, "throw", REFERR) ELSE N(q, x)
RefStore(q, f, x, result) ==
  IF f[1] = "prop" /\ ~IsObject(f[2]) THEN K(q, "throw", TYPEERR) ELSE N(RefPut(q, f, x), result)
EvList(q, es, acc) ==
  IF es = <<>> THEN N(q, acc)
  ELSE IF es[1][1] = "hole" THEN EvList(q, Tail(es), Append(acc, ABSENT))
  ELSE Then(Ev(q, es[1]), LAMBDA p, x : EvList(p, Tail(es), Append(acc, x)))
EvPairs(q, es, acc) ==
  IF es = <<>> THEN N(q, acc)
  ELSE Then(Ev(q, es[1][2]), LAMBDA p, x : EvPairs(p, Tail(es), Append(acc, <<es[1][1], x>>)))
Ev(q, e) ==
  CASE e[1] = "num" -> N(q, e[2])
    [] e[1] \in {"var", "dot", "idx"} -> Then(EvRef(q, e), RefValue)
    [] e[1] = "bin" ->
         Then(Ev(q, e[3]), LAMBDA p, x :
           CASE e[2] = "&&" -> IF Truthy(x) THEN Ev(p, e[4]) ELSE N(p, x)
             [] e[2] = "||" -> IF Truthy(x) THEN N(p, x) ELSE Ev(p, e[4])
             [] e[2] = "," -> Ev(p, e[4])
             [] OTHER -> Then(Ev(p, e[4]), LAMBDA w, y : N(w, Arith(e[2], Operand(q, e[3], x, w), y))))
    [] e[1] = "asg" -> Then(EvRef(q, e[2]), LAMBDA p, f : Then(Ev(p, e[3]), LAMBDA w, x : RefStore(w, f, x, x)))
    [] e[1] = "opasg" ->
         Then(EvRef(q, e[2]), LAMBDA p, f : Then(RefValue(p, f), LAMBDA p1, x :
           Then(Ev(p1, e[3]), LAMBDA w, y : RefStore(w, f, Arith("+", x, y), Arith("+", x, y)))))
    [] e[1] \in {"pre", "post"} ->
         Then(EvRef(q, e[2]), LAMBDA p, f : Then(RefValue(p, f), LAMBDA w, x :
           RefStore(w, f, Arith("+", x, 1), IF e[1] = "pre" THEN Arith("+", x, 1) ELSE ToNumber(x))))
    [] e[1] = "cond" -> Then(Ev(q, e[2]), LAMBDA p, x : IF Truthy(x) THEN Ev(p, e[3]) ELSE Ev(p, e[4]))
    [] e[1] = "un" ->
         (CASE e[2] = "del" -> Then(EvRef(q, e[3]), LAMBDA p, f :
                CASE f[1] = "prop" -> IF IsObject(f[2]) THEN N([p EXCEPT !.h = DelProp(@, f[2], f[3])], TRUE_)
                                      ELSE K(p, "throw", TYPEERR)
                  [] f[1] = "scope" /\ f[2] > 0 ->
                       IF p.env[f[2]][1] # "with" THEN N(p, FALSE_)
                       ELSE N([p EXCEPT !.h = DelProp(@, p.env[f[2]][2], f[3])], TRUE_)
                  [] OTHER -> IF f[3] \in p.decl THEN N(p, FALSE_)
                              ELSE N([p EXCEPT !.vs = [n \in DOMAIN @ \ {f[3]} |-> @[n]]], TRUE_))
           [] e[2] = "typeof" /\ e[3][1] = "var" /\ RefGet(q, e[3][2]) = ABSENT -> N(q, TypeOf(UNDEF))
           [] e[2] = "void" -> Then(Ev(q, e[3]), LAMBDA p, x : N(p, UNDEF))
           [] OTHER -> Then(Ev(q, e[3]), LAMBDA p, x : N(p, Unary(e[2], x))))
    [] e[1] = "call" ->
         LET this(f, p) == IF f[1] = "prop" THEN f[2]
                           ELSE IF f[2] > 0 /\ p.env[Max({f[2], 1})][1] = "with" THEN p.env[f[2]][2] ELSE UNDEF
             Apply(p, fn, th) == Then(EvList(p, e[3], <<>>), LAMBDA w, xs :
                IF fn # LOGF THEN K(w, "throw", TYPEERR)
                ELSE N([w EXCEPT !.tr = Append(@, <<th>> \o xs)], IF xs = <<>> THEN UNDEF ELSE xs[1]))
         IN  IF e[2][1] \in {"var", "dot", "idx"}
             THEN Then(EvRef(q, e[2]), LAMBDA p, f : Then(RefValue(p, f), LAMBDA w, fn : Apply(w, fn, this(f, p))))
             ELSE Then(Ev(q, e[2]), LAMBDA p, fn : Apply(p, fn, UNDEF))
    [] e[1] = "new" ->
         Then(Ev(q, e[2]), LAMBDA p0, fn :
           LET o == NewId(p0.h) p == [p0 EXCEPT !.h = Append(@, <<>>)]
           IN  Then(EvList(p, e[3], <<>>), LAMBDA w, xs :
                 IF fn # LOGF THEN K(w, "throw", TYPEERR)
                 ELSE N([w EXCEPT !.tr = Append(@, <<o>> \o xs)],
                        IF xs # <<>> /\ IsObject(xs[Min({1, Len(xs)})]) THEN xs[1] ELSE o)))
    [] e[1] = "arr" ->
         LET q0 == [q EXCEPT !.h = Append(@, <<<<LEN, 0>>>>)] o == NewId(q.h)
         IN  Then(EvList(q0, e[2], <<>>), LAMBDA p, xs :
               N([p EXCEPT !.h = PutProp(FoldLeft(LAMBDA h, i : IF xs[i] = ABSENT THEN h ELSE PutProp(h, o, i - 1, xs[i]),
                                                   @, [i \in DOMAIN xs |-> i]), o, LEN, Len(xs))], o))
    [] e[1] = "obj" ->
         LET q0 == [q EXCEPT !.h = Append(@, <<>>)] o == NewId(q.h)
         IN  Then(EvPairs(q0, e[2], <<>>), LAMBDA p, xs :
               N([p EXCEPT !.h = FoldLeft(LAMBDA h, i : PutProp(h, o, xs[i][1], xs[i][2]), @,
                                          [i \in DOMAIN xs |-> i])], o))

RECURSIVE Do(_, _, _), DoAll(_, _, _), Loop(_, _, _, _, _, _), Each(_, _, _, _, _, _)
\* set: the labels of the statement.
OwnBreak(r, set) == IF r.k = "break" /\ r.x \in set THEN N(r.q, 0) ELSE r
DoAll(q, ss, i) == IF i > Len(ss) THEN N(q, 0)
                   ELSE LET r == Do(q, ss[i], {}) IN IF r.k # "normal" THEN r ELSE DoAll(r.q, ss, i + 1)
\* test (or none), body, update (or none).
Loop(q, test, body, upd, set, first) ==
  LET t == IF test[1] = "none" \/ first THEN N(q, 1) ELSE Ev(q, test)
      b == Do(t.q, body, {})
      b1 == IF b.k = "continue" /\ b.x \in set \union {0} THEN N(b.q, 0) ELSE b
      u == IF upd[1] = "none" THEN N(b1.q, 0) ELSE Ev(b1.q, upd)
  IN  IF t.k # "normal" THEN t
      ELSE IF ~Truthy(t.x) THEN N(t.q, 0)
      ELSE IF b1.k # "normal" THEN OwnBreak(b1, set \union {0})
      ELSE IF u.k # "normal" THEN u ELSE Loop(u.q, test, body, upd, set, FALSE)
Each(q, lhs, ks, o, body, set) ==
  IF ks = <<>> THEN N(q, 0)
  ELSE IF Entry(q.h, o, ks[1]) = 0 THEN Each(q, lhs, Tail(ks), o, body, set)
  ELSE LET f == EvRef(q, lhs)
           w == RefStore(f.q, f.x, ks[1], 0)
           b == Do(w.q, body, {})
           b1 == IF b.k = "continue" /\ b.x \in set \union {0} THEN N(b.q, 0) ELSE b
       IN  IF f.k # "normal" THEN f ELSE IF w.k # "normal" THEN w
           ELSE IF b1.k # "normal" THEN OwnBreak(b1, set \union {0})
           ELSE Each(b1.q, lhs, Tail(ks), o, body, set)
Exit(r, n) == [r EXCEPT !.q.env = SubSeq(@, 1, n)]
RECURSIVE PickCase(_, _, _, _, _)
\* The first clause that matches: 0 when none does.
PickCase(q, d, x, cs, i) ==   \* d: the expression of value x
  IF i > Len(cs) THEN N(q, 0)
  ELSE IF cs[i][1][1] = "none" THEN PickCase(q, d, x, cs, i + 1)
  ELSE Then(Ev(q, cs[i][1]), LAMBDA p, y :
         IF Arith("===", Operand(q, d, x, p), y) = TRUE_ THEN N(p, i) ELSE PickCase(p, d, x, cs, i + 1))
Do(q, s, set) ==
  CASE s[1] = "expr" -> Then(Ev(q, s[2]), LAMBDA p, x : N([p EXCEPT !.cv = x], 0))
    [] s[1] = "empty" -> N(q, 0)
    [] s[1] = "var" -> IF s[3][1] = "none" THEN N(q, 0)
                       ELSE LET f == EvRef(q, <<"var", s[2]>>).x
                            IN  Then(Ev(q, s[3]), LAMBDA p, x : N(RefPut(p, f, x), 0))
    [] s[1] = "block" -> OwnBreak(DoAll(q, s[2], 1), set)
    [] s[1] = "if" -> OwnBreak(Then(Ev(q, s[2]), LAMBDA p, x :
                        IF Truthy(x) THEN Do(p, s[3], {}) ELSE IF s[4][1] = "none" THEN N(p, 0) ELSE Do(p, s[4], {})), set)
    [] s[1] = "while" -> Loop(q, s[2], s[3], <<"none">>, set, FALSE)
    [] s[1] = "do" -> Loop(q, s[3], s[2], <<"none">>, set, TRUE)
    [] s[1] = "for" -> LET i == IF s[2][1] = "none" THEN N(q, 0) ELSE Ev(q, s[2])
                       IN  Then(i, LAMBDA p, x : Loop(p, s[3], s[5], s[4], set, FALSE))
    [] s[1] = "forin" -> Then(Ev(q, s[3]), LAMBDA p, o :
                           IF ~IsObject(o) THEN N(p, 0) ELSE Each(p, s[2], Keys(p.h, o), o, s[4], set))
    [] s[1] = "switch" ->
         Then(Ev(q, s[2]), LAMBDA p, x :
           Then(PickCase(p, s[2], x, s[3], 1), LAMBDA w, i :
             LET d == SelectInSeq(s[3], LAMBDA k : k[1][1] = "none")
                 from == IF i > 0 THEN i ELSE d
             IN  IF from = 0 THEN N(w, 0)
                 ELSE OwnBreak(DoAll(w, FlattenSeq([j \in 1..Len(s[3]) - from + 1 |-> s[3][j + from - 1][2]]), 1),
                               set \union {0})))
    [] s[1] = "brk" -> K(q, "break", s[2])
    [] s[1] = "cont" -> K(q, "continue", s[2])
    [] s[1] = "ret" -> IF s[2][1] = "none" THEN K(q, "return", UNDEF)
                       ELSE Then(Ev(q, s[2]), LAMBDA p, x : K(p, "return", x))
    [] s[1] = "thr" -> Then(Ev(q, s[2]), LAMBDA p, x : K(p, "throw", x))
    [] s[1] = "label" -> OwnBreak(Do(q, s[3], set \union {s[2]}), {s[2]})
    [] s[1] = "with" -> Then(Ev(q, s[2]), LAMBDA p, o :
                          IF ~IsObject(o) THEN K(p, "throw", TYPEERR)
                          ELSE OwnBreak(Exit(Do([p EXCEPT !.env = Append(@, <<"with", o>>)], s[3], {}), Len(p.env)), set))
    [] s[1] = "try" ->
         LET t == DoAll(q, s[2], 1)
             t1 == IF t.k = "throw" /\ s[3] # 0
                   THEN Exit(DoAll([t.q EXCEPT !.env = Append(SubSeq(@, 1, Len(q.env)), <<"catch", s[3], t.x>>)],
                                   s[4], 1), Len(q.env))
                   ELSE Exit(t, Len(q.env))
             f == DoAll(t1.q, s[6], 1)
             r == IF ~s[5] THEN t1 ELSE IF f.k = "normal" THEN [t1 EXCEPT !.q = f.q] ELSE f
         IN  OwnBreak(r, set)

\* Declared variables start undefined.
RECURSIVE Declared(_)
Declared(s) ==
  CASE s[1] = "var" -> {s[2]}
    [] s[1] = "block" -> UNION {Declared(s[2][i]) : i \in DOMAIN s[2]}
    [] s[1] = "if" -> Declared(s[3]) \union (IF s[4][1] = "none" THEN {} ELSE Declared(s[4]))
    [] s[1] \in {"while", "label", "with"} -> Declared(s[3])
    [] s[1] = "do" -> Declared(s[2])
    [] s[1] = "for" -> Declared(s[5])
    [] s[1] = "forin" -> Declared(s[4])
    [] s[1] = "switch" -> UNION {UNION {Declared(s[3][i][2][j]) : j \in DOMAIN s[3][i][2]} : i \in DOMAIN s[3]}
    [] s[1] = "try" -> Declared(<<"block", s[2] \o s[4] \o s[6]>>)
    [] OTHER -> {}
\* regs: the variables kept in registers whose reading is late.
Ref(ss, regs) ==
  LET D == Declared(<<"block", ss>>)
      r == DoAll([vs |-> [n \in D |-> UNDEF], decl |-> D, reg |-> regs, env |-> <<>>, h |-> <<>>, tr |-> <<>>,
                  cv |-> UNDEF], ss, 1)
  IN  [out |-> IF r.k \in {"throw", "return"} THEN <<r.k, r.x>> ELSE <<"return", UNDEF>>,
       tr |-> r.q.tr, vs |-> r.q.vs, h |-> r.q.h, cv |-> r.q.cv, plain |-> r.k = "normal"]

=============================================================================

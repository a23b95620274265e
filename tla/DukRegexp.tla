----------------------------- MODULE DukRegexp ------------------------------
(***************************************************************************)
(* Regular expressions: the compiler (duk_regexp_compiler.c), which turns  *)
(* pattern tokens into bytecode while it parses, and the backtracking      *)
(* matcher (duk_regexp_executor.c).  Re, a matcher that works on the       *)
(* pattern's tree with the rules of ECMAScript (E5 15.10.2), says what a   *)
(* match should be.                                                        *)
(*                                                                         *)
(* Bytecode is a sequence of cells.  An integer takes one, two or three    *)
(* cells, like the bytes of an extended UTF-8 encoding, so that jump       *)
(* offsets change with what is inserted between them; U1 and U2 stand for  *)
(* 0x80 and 0x800.  Characters are 0..7: 0 is a line terminator, 1 2 are   *)
(* upper case and 5 6 the same letters in lower case, 3 a digit, 4 and 7   *)
(* punctuation.                                                            *)
(***************************************************************************)
EXTENDS Integers, Sequences, SequencesExt, FiniteSets, FiniteSetsExt

CONSTANTS Patterns,    \* set of <<tree, flags, inputs>>: flags a subset of {"g", "i", "m"},
                       \* inputs a set of sequences of characters
          U1, U2,      \* first values whose encoding takes two and three cells
          RecLimit,    \* DUK_USE_REGEXP_EXECUTOR_RECLIMIT
          StepLimit,   \* DUK_RE_EXECUTE_STEPS_LIMIT
          MaxCopies,   \* DUK_RE_MAX_ATOM_COPIES
          MaxExec      \* calls of exec on one regular expression

VARIABLES re, rc, in, last, off, x, out, calls

vars == <<re, rc, in, last, off, x, out, calls>>

INF == 1000            \* DUK_RE_QUANTIFIER_INFINITE
NIL == -1              \* an unset saved pointer
Unset == <<NIL, NIL>>  \* an unset capture
WordChar(ch) == ch \in {1, 2, 3, 5, 6}
LineTerm(ch) == ch = 0
Canon(ch) == IF ch \in {5, 6} THEN ch - 4 ELSE ch    \* duk_unicode_re_canonicalize_char
Chars == 0..7

-----------------------------------------------------------------------------
(* Trees and their tokens.  <<"char", c>>, <<"any">>, <<"class", inverted,  *)
(* ranges>>, <<"back", k>>, <<"assert", kind>>, <<"seq", trees>>,           *)
(* <<"alt", tree, tree>>, <<"cap", tree>>, <<"group", tree>>,               *)
(* <<"look", positive, tree>>, <<"rep", tree, min, max, greedy>>.           *)

RECURSIVE Toks(_)
Toks(t) ==
  CASE t[1] \in {"char", "any", "class", "back", "assert"} -> <<t>>
    [] t[1] = "seq" -> FlattenSeq([i \in DOMAIN t[2] |-> Toks(t[2][i])])
    [] t[1] = "alt" -> Toks(t[2]) \o <<<<"|">>>> \o Toks(t[3])
    [] t[1] = "cap" -> <<<<"(">>>> \o Toks(t[2]) \o <<<<")">>>>
    [] t[1] = "group" -> <<<<"(?:">>>> \o Toks(t[2]) \o <<<<")">>>>
    [] t[1] = "look" -> <<<<IF t[2] THEN "(?=" ELSE "(?!">>>> \o Toks(t[3]) \o <<<<")">>>>
    [] t[1] = "rep" -> Toks(t[2]) \o <<<<"quant", t[3], t[4], t[5]>>>>

-----------------------------------------------------------------------------
(* Cells and jump offsets.                                                  *)

Width(n) == IF n < U1 THEN 1 ELSE IF n < U2 THEN 2 ELSE 3
IntCells(n) == <<<<"int", n>>>> \o [i \in 1..Width(n) - 1 |-> <<"pad", 0>>]
Op(o) == <<<<"op", o>>>>
Signed(n) == IF n < 0 THEN (-n) * 2 + 1 ELSE n * 2            \* duk__encode_i32
InsertSeq(q, at, ins) == SubSeq(q, 1, at) \o ins \o SubSeq(q, at + 1, Len(q))

\* duk__insert_jump_offset: a negative offset also skips its own encoding,
\* whose length depends on the offset.
Offset(skip) ==
  IF skip >= 0 THEN skip
  ELSE IF skip >= -(U1 \div 2 - 2) THEN skip - 1
  ELSE IF skip >= -(U2 \div 2 - 3) THEN skip - 2 ELSE skip - 3
Jump(skip) == IntCells(Signed(Offset(skip)))

\* duk__regexp_generate_ranges: with the ignore-case flag, the canonical forms
\* of a range's characters as ranges.
RECURSIVE CanonRanges(_, _, _, _)
CanonRanges(i, r2, start, end) ==
  IF i > r2 THEN <<start, end>>
  ELSE IF Canon(i) = end + 1 THEN CanonRanges(i + 1, r2, start, Canon(i))
  ELSE <<start, end>> \o CanonRanges(i + 1, r2, Canon(i), Canon(i))
Ranges(icase, r1, r2) ==
  IF icase THEN CanonRanges(r1 + 1, r2, Canon(r1), Canon(r1)) ELSE <<r1, r2>>
ClassCode(icase, inverted, rs) ==
  LET q == FlattenSeq([i \in DOMAIN rs |-> Ranges(icase, rs[i][1], rs[i][2])])
  IN  Op(IF inverted THEN "INVRANGES" ELSE "RANGES") \o IntCells(Len(q) \div 2)
      \o FlattenSeq([i \in DOMAIN q |-> IntCells(q[i])])

-----------------------------------------------------------------------------
(* duk__parse_disjunction.  s is the compiler: tokens, position, code,      *)
(* captures so far, highest back reference, error.  l is one activation:    *)
(* the atom a quantifier would apply to (start, character length or -1,     *)
(* captures before it), the unpatched split and jump of a disjunction,      *)
(* where its code begins, and the character length of the whole.            *)

Insert(s, at, q) == [s EXCEPT !.code = InsertSeq(@, at, q)]
Append_(s, q) == [s EXCEPT !.code = @ \o q]
Size(s) == Len(s.code)
Error(s, why) == [s EXCEPT !.err = IF @ = "" THEN why ELSE @]

\* Patch the jump over the alternatives and the split before them.
PatchDisj(s, split, jump) ==
  IF jump < 0 THEN s
  ELSE LET s1 == Insert(s, jump, Jump(Size(s) - jump))
           at == jump + (Size(s1) - Size(s))
       IN  Insert(s1, split, Jump(at - split))

\* An atom of a fixed length: one instruction that counts repetitions.
SimpleQuant(s, atom, len, q) ==
  LET cap(n) == IF len = 0 THEN Min({n, 1}) ELSE n
      s1 == Append_(s, Op("MATCH"))
      skip == Size(s1) - atom
  IN  Insert(s1, atom, Op(IF q[4] THEN "SQGREEDY" ELSE "SQMINIMAL") \o IntCells(cap(q[2])) \o IntCells(cap(q[3]))
                       \o (IF q[4] THEN IntCells(len) ELSE <<>>) \o Jump(skip))

\* Any other atom: the captures inside it are wiped first, and its code is
\* copied for the iterations.
Wipe(s, atom, caps) ==
  IF caps = s.caps THEN s
  ELSE Insert(s, atom, Op("WIPERANGE") \o IntCells((caps + 1) * 2) \o IntCells((s.caps - caps) * 2))
RECURSIVE OptionalCopies(_, _, _, _, _)
OptionalCopies(s, at, body, n, greedy) ==
  IF n = 0 THEN s
  ELSE LET s1 == Insert(s, at, body)
           s2 == Insert(s1, at, Op(IF greedy THEN "SPLIT1" ELSE "SPLIT2"))
       IN  OptionalCopies(Insert(s2, at + 1, Jump(Size(s2) - (at + 1))), at, body, n - 1, greedy)
ComplexQuant(s0, atom, caps, q) ==
  LET s == Wipe(s0, atom, caps)
      body == SubSeq(s.code, atom + 1, Size(s))
      n == Len(body)
      required == FlattenSeq([i \in 1..q[2] |-> body])
      s1 == Append_(s, required)
      s2 == IF q[2] = 0 THEN Append_(s1, Op("JUMP") \o Jump(n) \o body) ELSE s1
      s3 == Append_(s2, Op(IF q[4] THEN "SPLIT2" ELSE "SPLIT1") \o Jump(-n - 1))
      s4 == OptionalCopies(s1, Size(s1), body, q[3] - q[2], q[4])
      s5 == IF q[3] = INF THEN s3 ELSE s4
  IN  IF (IF q[3] = INF THEN q[2] ELSE q[3]) > MaxCopies THEN Error(s, "copies")
      ELSE [s5 EXCEPT !.code = SubSeq(@, 1, atom) \o SubSeq(@, atom + n + 1, Len(@))]

Fresh(s) == [atom |-> -1, len |-> 0, caps |-> s.caps, split |-> -1, jump |-> -1, entry |-> Size(s),
             charlen |-> 0]

RECURSIVE Disj(_, _, _)
\* Returns [s, len]: after the closing parenthesis or the end of the pattern.
Disj(s, l, eof) ==
  LET t == s.toks[s.p]
      s1 == [s EXCEPT !.p = @ + 1]
      caps == s.caps
      Simple(q, code) ==                 \* an atom of one character
        Disj(Append_(q, code), [l EXCEPT !.atom = Size(s), !.len = 1, !.caps = caps,
                                         !.charlen = IF @ >= 0 THEN @ + 1 ELSE -1], eof)
      Complex(q) == Disj(q, [l EXCEPT !.atom = Size(s), !.len = -1, !.caps = caps, !.charlen = -1], eof)
      Assertion(q, len) == Disj(q, [l EXCEPT !.atom = -1, !.len = -1, !.caps = caps, !.charlen = len], eof)
      Done(q) == [s |-> PatchDisj(q, l.split, l.jump), len |-> l.charlen]
      inner == Disj(s1, Fresh(s1), FALSE)
      c1 == [s1 EXCEPT !.caps = @ + 1]
      c2 == Append_(c1, Op("SAVE") \o IntCells(c1.caps * 2))
      cin == Disj(c2, Fresh(c2), FALSE)
      icase == s.icase
  IN  CASE s.err # "" -> [s |-> s, len |-> -1]
        [] s.err = "" /\ t[1] = "|" ->
             LET p == PatchDisj(s1, l.split, l.jump)
                 q == Append_(Insert(p, l.entry, Op("SPLIT1")), Op("JUMP"))
             IN  Disj(q, [l EXCEPT !.split = l.entry + 1, !.jump = Size(q), !.charlen = -1,
                                   !.atom = -1, !.len = -1, !.caps = caps], eof)
        [] s.err = "" /\ t[1] = "quant" ->
             IF l.atom < 0 THEN Disj(Error(s, "no atom"), l, eof)
             ELSE IF t[2] > t[3] THEN Disj(Error(s, "values"), l, eof)
             ELSE Disj(IF l.len >= 0 THEN SimpleQuant(s1, l.atom, l.len, t)
                       ELSE ComplexQuant(s1, l.atom, l.caps, t),
                       [l EXCEPT !.atom = -1, !.len = -1, !.caps = caps, !.charlen = -1], eof)
        [] s.err = "" /\ t[1] = "assert" -> Assertion(Append_(s1, Op(t[2])), l.charlen)
        [] s.err = "" /\ t[1] \in {"(?=", "(?!"} ->
             LET q == Append_(inner.s, Op("MATCH"))
                 q1 == Insert(q, Size(s), Op(IF t[1] = "(?=" THEN "LOOKPOS" ELSE "LOOKNEG"))
             IN  Assertion(Insert(q1, Size(s) + 1, Jump(Size(q1) - (Size(s) + 1))), -1)
        [] s.err = "" /\ t[1] = "any" -> Simple(s1, Op("PERIOD"))
        [] s.err = "" /\ t[1] = "char" -> Simple(s1, Op("CHAR") \o IntCells(IF icase THEN Canon(t[2]) ELSE t[2]))
        [] s.err = "" /\ t[1] = "class" -> Simple(s1, ClassCode(icase, t[2], t[3]))
        [] s.err = "" /\ t[1] = "back" ->
             Complex(Append_([s1 EXCEPT !.back = Max({@, t[2]})], Op("BACKREF") \o IntCells(t[2])))
        [] s.err = "" /\ t[1] = "(" -> Complex(Append_(cin.s, Op("SAVE") \o IntCells(c1.caps * 2 + 1)))
        [] s.err = "" /\ t[1] = "(?:" ->
             Disj(inner.s, [l EXCEPT !.atom = Size(s), !.len = inner.len, !.caps = caps,
                                     !.charlen = IF inner.len < 0 \/ @ < 0 THEN -1 ELSE @ + inner.len], eof)
        [] s.err = "" /\ t[1] = ")" -> IF eof THEN Done(Error(s1, "paren")) ELSE Done(s1)
        [] s.err = "" /\ t[1] = "EOF" -> IF eof THEN Done(s1) ELSE Done(Error(s1, "end of pattern"))

\* duk_regexp_compile
CompileRe(tree, flags) ==
  LET s0 == [toks |-> Append(Toks(tree), <<"EOF">>), p |-> 1, code |-> Op("SAVE") \o IntCells(0), caps |-> 0,
             back |-> 0, icase |-> "i" \in flags, err |-> ""]
      s1 == Append_(Disj(s0, Fresh(s0), TRUE).s, Op("SAVE") \o IntCells(1) \o Op("MATCH"))
      s2 == IF s1.back > s1.caps THEN Error(s1, "backrefs") ELSE s1
  IN  [code |-> s2.code, nsaved |-> (s2.caps + 1) * 2, err |-> s2.err]

-----------------------------------------------------------------------------
(* duk__match_regexp as a machine of small steps.  x is the machine: the    *)
(* program counter and input position of the activation that runs, the      *)
(* saved pointers, which all activations share, the activations that wait   *)
(* for a recursive call, innermost first, the opcodes executed since exec    *)
(* began, and the result (GOING while the activation runs, FAIL, a limit, or *)
(* the position where it matched).                                           *)

GOING == -3
FAIL == -1
LIMIT == -2
STEPS == -4

UInt(code, pc) == code[pc + 1][2]
After(code, pc) == pc + Width(UInt(code, pc))
SInt(code, pc) == LET n == UInt(code, pc) IN IF n % 2 = 1 THEN -(n \div 2) ELSE n \div 2
Cp(input, flags, sp) ==        \* duk__inp_get_cp
  IF sp >= Len(input) THEN -1 ELSE IF "i" \in flags THEN Canon(input[sp + 1]) ELSE input[sp + 1]

\* A recursive call is refused at the limit (duk_err_range: an error, not a failure).
Call(m, f, pc, sp) ==
  IF Len(m.stk) + 1 >= RecLimit THEN [m EXCEPT !.r = LIMIT, !.stk = <<>>]
  ELSE [m EXCEPT !.stk = <<f>> \o @, !.pc = pc, !.sp = sp, !.r = GOING]
Fail(m) == [m EXCEPT !.r = FAIL]
Go(m, pc, sp) == [m EXCEPT !.pc = pc, !.sp = sp, !.r = GOING]

InRanges(code, pc, n, ch) ==
  \E i \in 1..n : ch >= UInt(code, pc + 2 * i - 2) /\ ch <= UInt(code, pc + 2 * i - 1)
AssertHolds(op, input, fl, sp) ==
  LET prev == Cp(input, fl, sp - 1) next == Cp(input, fl, sp)
      w1 == sp > 0 /\ WordChar(prev)
      w2 == sp < Len(input) /\ WordChar(next)
  IN  CASE op = "START" -> sp = 0 \/ ("m" \in fl /\ LineTerm(prev))
        [] op = "END" -> next < 0 \/ ("m" \in fl /\ LineTerm(next))
        [] op = "WB" -> w1 # w2
        [] op = "NWB" -> w1 = w2
SameText(input, fl, from, end, sp) ==
  \A i \in 0..end - from - 1 : Cp(input, fl, from + i) = Cp(input, fl, sp + i)

\* The simple quantifiers.  f: [q, min, max, len, body, cont, sp].
GreedyMore(m, f) ==              \* another atom, or the rest of the pattern
  IF f.q < f.max THEN Call(m, [f EXCEPT !.k = "greedy"], f.body, f.sp)
  ELSE IF f.q < f.min THEN Fail(m) ELSE Call(m, [f EXCEPT !.k = "retry"], f.cont, f.sp)
GreedyEnough(m, f) ==            \* no more atoms match
  IF f.q < f.min THEN Fail(m) ELSE Call(m, [f EXCEPT !.k = "retry"], f.cont, f.sp)
GiveBack(m, f) ==                \* back one atom, and try again
  IF f.q = f.min THEN Fail(m)
  ELSE Call(m, [f EXCEPT !.q = @ - 1, !.sp = @ - f.len], f.cont, f.sp - f.len)
MinimalNext(m, f) ==
  IF f.q > f.max THEN Fail(m)
  ELSE IF f.q >= f.min THEN Call(m, [f EXCEPT !.k = "minrest"], f.cont, f.sp)
  ELSE Call(m, [f EXCEPT !.k = "minatom"], f.body, f.sp)

\* One instruction, or the error of the step limit.
Instr(m0, code, input, fl) ==
  LET m == [m0 EXCEPT !.steps = @ + 1]
      op == code[m.pc + 1][2]
      sp == m.sp
      a == m.pc + 1                                \* operands
      n == UInt(code, a)
      b == After(code, a)
      jmp == b + SInt(code, a)
      ch == Cp(input, fl, sp)
      wiped(k) == [i \in DOMAIN m.sv |-> IF i \in n..n + k - 1 THEN NIL ELSE m.sv[i]]
  IN  IF m0.steps >= StepLimit THEN [m0 EXCEPT !.r = STEPS, !.stk = <<>>]
      ELSE CASE op = "MATCH" -> [m EXCEPT !.r = sp]
        [] op = "CHAR" -> IF n = ch THEN Go(m, b, sp + 1) ELSE Fail(m)
        [] op = "PERIOD" -> IF ch < 0 \/ LineTerm(ch) THEN Fail(m) ELSE Go(m, a, sp + 1)
        [] op \in {"RANGES", "INVRANGES"} ->
             IF ch < 0 \/ InRanges(code, a + 1, n, ch) # (op = "RANGES") THEN Fail(m)
             ELSE Go(m, a + 1 + 2 * n, sp + 1)
        [] op \in {"START", "END", "WB", "NWB"} ->
             IF AssertHolds(op, input, fl, sp) THEN Go(m, a, sp) ELSE Fail(m)
        [] op = "JUMP" -> Go(m, jmp, sp)
        [] op = "SPLIT1" -> Call(m, [k |-> "split", pc |-> jmp, sp |-> sp], b, sp)
        [] op = "SPLIT2" -> Call(m, [k |-> "split", pc |-> b, sp |-> sp], jmp, sp)
        [] op = "SQMINIMAL" ->
             LET k == After(code, b) body == After(code, k)
             IN  MinimalNext(m, [k |-> "", q |-> 0, min |-> n, max |-> UInt(code, b), len |-> 0, body |-> body,
                                 cont |-> body + SInt(code, k), sp |-> sp])
        [] op = "SQGREEDY" ->
             LET l == After(code, b) k == After(code, l) body == After(code, k)
             IN  GreedyMore(m, [k |-> "", q |-> 0, min |-> n, max |-> UInt(code, b), len |-> UInt(code, l),
                                body |-> body, cont |-> body + SInt(code, k), sp |-> sp])
        [] op = "SAVE" ->
             Call([m EXCEPT !.sv[n] = sp], [k |-> "save", from |-> n, old |-> <<m.sv[n]>>], b, sp)
        [] op = "WIPERANGE" ->
             LET k == UInt(code, b)
             IN  Call([m EXCEPT !.sv = wiped(k)],
                      [k |-> "save", from |-> n, old |-> [i \in 1..k |-> m.sv[n + i - 1]]], After(code, b), sp)
        [] op \in {"LOOKPOS", "LOOKNEG"} ->
             Call(m, [k |-> "look", pos |-> op = "LOOKPOS", pc |-> jmp, sp |-> sp, old |-> m.sv], b, sp)
        [] op = "BACKREF" ->
             LET s == m.sv[2 * n] e == m.sv[2 * n + 1]
             IN  IF NIL \in {s, e} THEN Go(m, b, sp)
                 ELSE IF SameText(input, fl, s, e, sp) THEN Go(m, b, sp + Max({e - s, 0})) ELSE Fail(m)

\* What an activation does with the result of its recursive call.
RestoreSaved(m, f) ==
  Fail([m EXCEPT !.sv = [i \in DOMAIN @ |-> IF i \in f.from..f.from + Len(f.old) - 1
                                            THEN f.old[i - f.from + 1] ELSE @[i]]])
Returned(m0) ==
  LET f == m0.stk[1]
      m == [m0 EXCEPT !.stk = Tail(@)]
      r == m.r
  IN  CASE f.k = "split" -> IF r # FAIL THEN m ELSE Go(m, f.pc, f.sp)
        [] f.k = "save" -> IF r # FAIL THEN m ELSE RestoreSaved(m, f)
        [] f.k = "look" ->
             IF (r # FAIL) = f.pos THEN Call(m, [k |-> "looked", old |-> f.old], f.pc, f.sp)
             ELSE [Fail(m) EXCEPT !.sv = f.old]
        [] f.k = "looked" -> IF r # FAIL THEN m ELSE [m EXCEPT !.sv = f.old]
        [] f.k = "greedy" -> IF r = FAIL THEN GreedyEnough(m, f) ELSE GreedyMore(m, [f EXCEPT !.q = @ + 1, !.sp = r])
        [] f.k = "retry" -> IF r # FAIL THEN m ELSE GiveBack(m, f)
        [] f.k = "minrest" -> IF r # FAIL THEN m ELSE Call(m, [f EXCEPT !.k = "minatom"], f.body, f.sp)
        [] f.k = "minatom" -> IF r = FAIL THEN m ELSE MinimalNext(m, [f EXCEPT !.q = @ + 1, !.sp = r])

-----------------------------------------------------------------------------
(* The reference.  tasks is what is left to match, caps the captures as     *)
(* <<start, end>> pairs; NoMatch when there is no way to match.             *)

NoMatch == <<-1, <<>>>>
RECURSIVE Groups(_), Re(_, _, _, _, _), CanBeEmpty(_), EmptyLoop(_), Alternatives(_), Fixed(_), Depth(_, _)
Groups(t) ==                    \* the number of capture groups in a tree
  CASE t[1] = "seq" -> FoldLeft(LAMBDA n, k : n + Groups(k), 0, t[2])
    [] t[1] = "alt" -> Groups(t[2]) + Groups(t[3])
    [] t[1] = "cap" -> 1 + Groups(t[2])
    [] t[1] = "group" -> Groups(t[2])
    [] t[1] = "look" -> Groups(t[3])
    [] t[1] = "rep" -> Groups(t[2])
    [] OTHER -> 0
\* A task is <<tree, n>>, with n groups before it, or <<<<"end", k, start>>, 0>>
\* or <<<<"again", repetition, start, min, max>>, n>>.
Re(input, fl, tasks, e, caps) ==
  LET t == tasks[1][1]
      n == tasks[1][2]
      rest == Tail(tasks)
      cn(ch) == IF "i" \in fl THEN Canon(ch) ELSE ch
      ch == IF e < Len(input) THEN cn(input[e + 1]) ELSE -1
      One(P) == IF e < Len(input) /\ P THEN Re(input, fl, rest, e + 1, caps) ELSE NoMatch
      Repeat(rep, min, max) ==
        LET g == Groups(rep[2])
            more == Re(input, fl, <<<<rep[2], n>>, <<<<"again", rep, e, min, max>>, n>>>> \o rest, e,
                       [i \in DOMAIN caps |-> IF i \in n + 1..n + g THEN Unset ELSE caps[i]])
            done == Re(input, fl, rest, e, caps)
        IN  IF max = 0 THEN done
            ELSE IF min > 0 THEN more
            ELSE IF rep[5] THEN (IF more # NoMatch THEN more ELSE done)
            ELSE IF done # NoMatch THEN done ELSE more
  IN  IF tasks = <<>> THEN <<e, caps>>
      ELSE CASE t[1] = "char" -> One(cn(t[2]) = ch)
        [] t[1] = "any" -> One(~LineTerm(ch))
        [] t[1] = "class" -> One((\E i \in DOMAIN t[3] : \E k \in t[3][i][1]..t[3][i][2] : cn(k) = ch) = ~t[2])
        [] t[1] = "back" ->
             LET s == caps[t[2]]
                 w == IF s = Unset THEN <<>> ELSE SubSeq(input, s[1] + 1, s[2])
             IN  IF e + Len(w) <= Len(input) /\ \A i \in DOMAIN w : cn(w[i]) = cn(input[e + i])
                 THEN Re(input, fl, rest, e + Len(w), caps) ELSE NoMatch
        [] t[1] = "assert" ->
             LET pre == IF e > 0 THEN input[e] ELSE -1
             IN  IF CASE t[2] = "START" -> e = 0 \/ ("m" \in fl /\ LineTerm(pre))
                      [] t[2] = "END" -> ch = -1 \/ ("m" \in fl /\ LineTerm(ch))
                      [] t[2] = "WB" -> WordChar(pre) # WordChar(ch)
                      [] t[2] = "NWB" -> WordChar(pre) = WordChar(ch)
                 THEN Re(input, fl, rest, e, caps) ELSE NoMatch
        [] t[1] = "seq" ->
             Re(input, fl, [i \in DOMAIN t[2] |->
                              <<t[2][i], FoldLeft(LAMBDA m, k : m + Groups(k), n, SubSeq(t[2], 1, i - 1))>>] \o rest,
                e, caps)
        [] t[1] = "alt" ->
             LET r == Re(input, fl, <<<<t[2], n>>>> \o rest, e, caps)
             IN  IF r # NoMatch THEN r ELSE Re(input, fl, <<<<t[3], n + Groups(t[2])>>>> \o rest, e, caps)
        [] t[1] = "cap" -> Re(input, fl, <<<<t[2], n + 1>>, <<<<"end", n + 1, e>>, 0>>>> \o rest, e, caps)
        [] t[1] = "end" -> Re(input, fl, rest, e, [caps EXCEPT ![t[2]] = <<t[3], e>>])
        [] t[1] = "group" -> Re(input, fl, <<<<t[2], n>>>> \o rest, e, caps)
        [] t[1] = "look" ->
             LET r == Re(input, fl, <<<<t[3], n>>>>, e, caps)
             IN  IF (r # NoMatch) # t[2] THEN NoMatch
                 ELSE Re(input, fl, rest, e, IF t[2] THEN r[2] ELSE caps)
        [] t[1] = "rep" -> Repeat(t, t[3], t[4])
        [] t[1] = "again" ->
             IF t[4] = 0 /\ e = t[3] THEN NoMatch
             ELSE Repeat(t[2], Max({t[4] - 1, 0}), IF t[5] = INF THEN INF ELSE t[5] - 1)

\* A repetition of something that can match nothing: the matcher has no check
\* for that, and without a bound it runs into its recursion limit.
CanBeEmpty(t) ==
  CASE t[1] \in {"char", "any", "class"} -> FALSE
    [] t[1] \in {"assert", "look", "back"} -> TRUE
    [] t[1] = "seq" -> \A i \in DOMAIN t[2] : CanBeEmpty(t[2][i])
    [] t[1] = "alt" -> CanBeEmpty(t[2]) \/ CanBeEmpty(t[3])
    [] t[1] \in {"cap", "group"} -> CanBeEmpty(t[2])
    [] t[1] = "rep" -> t[3] = 0 \/ CanBeEmpty(t[2])
EmptyLoop(t) ==
  CASE t[1] = "seq" -> \E i \in DOMAIN t[2] : EmptyLoop(t[2][i])
    [] t[1] = "alt" -> EmptyLoop(t[2]) \/ EmptyLoop(t[3])
    [] t[1] \in {"cap", "group"} -> EmptyLoop(t[2])
    [] t[1] = "look" -> EmptyLoop(t[3])
    [] t[1] = "rep" -> EmptyLoop(t[2]) \/ CanBeEmpty(t[2])
    [] OTHER -> FALSE

\* The recursion that doc/regexp.rst:328-348 says a pattern costs, on an input of
\* n characters: a simple quantifier one for what follows, a complex one for each
\* atom (one more when captures are wiped) and for what follows, a capture two, a
\* lookahead one, each alternative but the last one.  A loop that may match
\* nothing costs without bound.
Alternatives(t) == IF t[1] = "alt" THEN Alternatives(t[2]) \o Alternatives(t[3]) ELSE <<t>>
Fixed(t) ==
  CASE t[1] \in {"char", "any", "class", "assert"} -> TRUE
    [] t[1] = "seq" -> \A i \in DOMAIN t[2] : Fixed(t[2][i])
    [] t[1] = "group" -> Fixed(t[2])
    [] OTHER -> FALSE
Depth(t, n) ==
  CASE t[1] = "seq" -> FoldLeft(LAMBDA d, k : d + Depth(k, n), 0, t[2])
    [] t[1] = "alt" -> LET as == Alternatives(t)
                       IN  Len(as) - 1 + Max({Depth(as[i], n) : i \in DOMAIN as})
    [] t[1] = "cap" -> 2 + Depth(t[2], n)
    [] t[1] = "group" -> Depth(t[2], n)
    [] t[1] = "look" -> 1 + Depth(t[3], n)
    [] t[1] = "rep" ->
         LET each == 1 + (IF Groups(t[2]) > 0 THEN 1 ELSE 0) + Depth(t[2], n)
         IN  IF Fixed(t[2]) THEN 1
             ELSE IF CanBeEmpty(t[2]) THEN (IF t[4] = INF THEN RecLimit ELSE t[4] * each)
             ELSE Min({t[4], n + 1}) * each
    [] OTHER -> 0

-----------------------------------------------------------------------------
(* RegExp.prototype.exec: duk__regexp_match_helper.  off is the character   *)
(* offset being tried; out is the state of the call, which began at out[2]. *)

Idle == [pc |-> 0, sp |-> 0, sv |-> <<>>, stk |-> <<>>, steps |-> 0, r |-> FAIL]
Init == /\ re \in Patterns
        /\ rc = CompileRe(re[1], re[2])
        /\ in \in re[3]
        /\ last \in IF "g" \in re[2] THEN {-1, 0, Len(in), Len(in) + 1} ELSE {0}
        /\ off = 0 /\ calls = 0 /\ x = Idle /\ out = <<"idle", 0>>

NoSaved == [i \in 0..rc.nsaved - 1 |-> NIL]
KeepLast(l) == l                                       \* mutant of NewLast
NewLast(l) == 0        \* what lastIndex is when nothing matched

BeginExec ==
  /\ rc.err = "" /\ out[1] \in {"idle", "match", "null"} /\ calls < MaxExec
  /\ calls' = calls + 1
  /\ LET start == IF "g" \in re[2] THEN last ELSE 0
     IN  IF start < 0 \/ start > Len(in)
         THEN last' = NewLast(last) /\ out' = <<"null", Len(in) + 1>> /\ UNCHANGED <<off, x>>
         ELSE /\ off' = start /\ out' = <<"run", start>> /\ UNCHANGED last
              /\ x' = [Go(Idle, 0, start) EXCEPT !.sv = NoSaved]
  /\ UNCHANGED <<re, rc, in>>

Running == out[1] = "run"
Execute == /\ Running /\ x.r = GOING
           /\ x' = Instr(x, rc.code, in, re[2])
           /\ UNCHANGED <<re, rc, in, last, off, out, calls>>
Return == /\ Running /\ x.r # GOING /\ x.stk # <<>>
          /\ x' = Returned(x)
          /\ UNCHANGED <<re, rc, in, last, off, out, calls>>

\* The attempt at one offset is over.  The saved pointers are not cleared
\* before the next one.
Capture(i) == LET s == x.sv[2 * i] e == x.sv[2 * i + 1]
              IN  IF s # NIL /\ e # NIL /\ e >= s THEN <<s, e>> ELSE Unset
Matched == /\ Running /\ x.stk = <<>> /\ x.r >= 0
           /\ out' = <<"match", out[2], off, [i \in 0..rc.nsaved \div 2 - 1 |-> Capture(i)]>>
           /\ last' = IF "g" \in re[2] THEN off + (Capture(0)[2] - Capture(0)[1]) ELSE last
           /\ UNCHANGED <<re, rc, in, off, x, calls>>
NextOffset == /\ Running /\ x.stk = <<>> /\ x.r = FAIL
              /\ IF off + 1 > Len(in)
                 THEN out' = <<"null", out[2]>> /\ last' = NewLast(last) /\ UNCHANGED <<off, x>>
                 ELSE off' = off + 1 /\ x' = Go(x, 0, off + 1) /\ UNCHANGED <<last, out>>
              /\ UNCHANGED <<re, rc, in, calls>>
Limit == /\ Running /\ x.r \in {LIMIT, STEPS}
         /\ out' = <<"error", out[2], x.r>>
         /\ UNCHANGED <<re, rc, in, last, off, x, calls>>

Next == BeginExec \/ Execute \/ Return \/ Matched \/ NextOffset \/ Limit
Spec == Init /\ [][Next]_vars

-----------------------------------------------------------------------------
(* Properties.                                                              *)

\* Positions are within the input and the matcher within its limits.
TypeOK == /\ last \in -1..Len(in) + 1 /\ off \in 0..Len(in) /\ calls \in 0..MaxExec
          /\ x.r \in STEPS..Len(in) /\ x.steps \in 0..StepLimit /\ x.sp \in 0..Len(in) /\ Len(x.stk) < RecLimit
          /\ x.sv = <<>> \/ x.sv \in [0..rc.nsaved - 1 -> NIL..Len(in)]

Reference(from) ==
  LET g == Groups(re[1])
      r == Re(in, re[2], <<<<re[1], 0>>>>, from, [i \in 1..g |-> Unset])
  IN  IF r = NoMatch THEN NoMatch
      ELSE <<from, [i \in 0..g |-> IF i = 0 THEN <<from, r[1]>> ELSE r[2][i]]>>

\* Where no repetition can match nothing, exec finds what ECMAScript's
\* matcher finds: the first offset that matches from where it starts, the
\* same end and the same captures.  Backtracking, greedy and minimal loops,
\* captures wiped per iteration and restored on failure, lookaheads, jump
\* offsets of every width and canonical ranges all have to be right.
MatchAgrees == ~EmptyLoop(re[1]) =>
  /\ out[1] = "match" => /\ Reference(out[3]) = <<out[3], out[4]>>
                         /\ \A k \in out[2]..out[3] - 1 : Reference(k) = NoMatch
  /\ out[1] = "null" => \A k \in out[2]..Len(in) : Reference(k) = NoMatch

\* A failed attempt leaves no trace: the next offset, which uses the same
\* saved pointers, starts with none of them set.
FailureRestores == Running /\ x.stk = <<>> /\ x.r = FAIL => x.sv = NoSaved

\* Recursion costs what doc/regexp.rst:328-348 says and no more: the calls in
\* progress are the first one, those of the two SAVEs around the pattern and
\* the costs of its constructs, whatever backtracking did before, so exec fails
\* at the recursion limit only when the documented costs exceed it.
DepthAsDocumented ==
  LET d == 3 + Depth(re[1], Len(in))
  IN  /\ Running => Len(x.stk) + 1 <= d
      /\ out[1] = "error" /\ out[3] = LIMIT => d > RecLimit

\* After exec of a global expression lastIndex is the end of the match or 0,
\* so that repeated calls walk through the input and start over.
LastIndexFollows ==
  "g" \in re[2] => /\ out[1] = "match" => last = out[4][0][2]
                   /\ out[1] = "null" => last = 0

=============================================================================

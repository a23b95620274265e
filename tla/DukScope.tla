------------------------------ MODULE DukScope ------------------------------
(***************************************************************************)
(* Variables and scopes: environment records that alias the registers of a *)
(* running function until it returns (duk_js_var.c), the records created   *)
(* only when somebody needs them (act->lex_env == NULL), arguments objects *)
(* mapped to parameters (duk_js_call.c), direct eval (duk_bi_global.c),    *)
(* and the inspection and injection of variables (duk_rp_scope_vars.c).    *)
(*                                                                         *)
(* m is what the code keeps.  a is what E5 sections 10.2 to 10.6 promise:  *)
(* every call makes a record at once and variables live only in records.   *)
(* Each operation is applied to both; ret and aret are the two results.    *)
(***************************************************************************)
EXTENDS Integers, Sequences, SequencesExt, FiniteSets, FiniteSetsExt, TLC

CONSTANTS Names, Vals,
          CatchNames, EvalNames,    \* names a catch clause binds, and evaluated code declares
          Templates,     \* functions: [formals, vars, named, args, strict]
          Globals,       \* the initial objects: 1 the global object, 2 its prototype, 3 a plain object
          Actuals,       \* the argument lists of calls
          MaxActs, MaxClos, MaxOps

VARIABLES m, a, ret, aret, ops

vars == <<m, a, ret, aret, ops>>

UNDEF == 0
FUN == 9                                          \* the function a name binding holds
Prop(v, f) == [v |-> v, w |-> "w" \in f, e |-> "e" \in f, c |-> "c" \in f, acc |-> FALSE]
WE(v) == Prop(v, {"w", "e"})
WEC(v) == Prop(v, {"w", "e", "c"})
NoNames == [n \in {} |-> Prop(UNDEF, {})]
Set(f, n, p) == (n :> p) @@ f
Drop(f, n) == [k \in DOMAIN f \ {n} |-> f[k]]
Names2(t) == Range(t.formals \o t.vars)           \* the names in _Varmap
Reg(t, n) == Max({i \in DOMAIN (t.formals \o t.vars) : (t.formals \o t.vars)[i] = n})
PROGRAM == [formals |-> <<>>, vars |-> <<>>, named |-> FALSE, args |-> FALSE, strict |-> FALSE, new |-> FALSE, conf |-> FALSE]
EVAL(strict) == [PROGRAM EXCEPT !.conf = TRUE, !.strict = strict]
FUNC(t) == [formals |-> t.formals, vars |-> t.vars, named |-> t.named, args |-> t.args, strict |-> t.strict,
            new |-> TRUE, conf |-> FALSE]
Res(s, r) == [s |-> s, r |-> r]
ErrIf(strict, e) == IF strict THEN e ELSE "ok"

-----------------------------------------------------------------------------
(* Objects behind object environment records: prototype chains of two.      *)

Owner(objs, o, n) == IF n \in DOMAIN objs[o].props THEN o
                     ELSE IF objs[o].proto # 0 /\ n \in DOMAIN objs[objs[o].proto].props THEN objs[o].proto ELSE 0
PutObj(objs, o, n, v, strict) ==
  LET h == Owner(objs, o, n)
      p == objs[h].props[n]
      own == [objs EXCEPT ![o].props = Set(@, n, IF h = o THEN [p EXCEPT !.v = v] ELSE WEC(v))]
  IN IF h # 0 /\ p.acc THEN Res(objs, "ok")                            \* a setter is called
     ELSE IF h # 0 /\ ~p.w THEN Res(objs, ErrIf(strict, "TypeError"))
     ELSE IF h # o /\ ~objs[o].ext THEN Res(objs, ErrIf(strict, "TypeError"))
     ELSE Res(own, "ok")
DelObj(objs, o, n) ==
  IF n \notin DOMAIN objs[o].props THEN Res(objs, TRUE)
  ELSE IF objs[o].props[n].c THEN Res([objs EXCEPT ![o].props = Drop(@, n)], TRUE) ELSE Res(objs, FALSE)

-----------------------------------------------------------------------------
(* Identifier resolution.  An open record has reg > 0: the activation level *)
(* whose registers, at their offset in the value stack, hold its variables. *)

Lazy(s, l) == s.acts[l].lex = 0
Up(s, e) == LET C[k \in 0..Len(s.envs)] == IF k = 0 THEN <<>> ELSE <<k>> \o C[s.envs[k].up] IN C[e]
RegVal(s, l, r) == IF l \in DOMAIN s.acts /\ r \in DOMAIN s.acts[l].regs THEN s.acts[l].regs[r] ELSE UNDEF
NONE == [at |-> "none", e |-> 0, l |-> 0, r |-> 0]
RefIn(s, e, n) ==
  LET env == s.envs[e] IN
  IF env.kind = "dec" THEN
       IF env.reg > 0 /\ n \in Names2(env.map) THEN [at |-> "reg", e |-> e, l |-> env.reg, r |-> Reg(env.map, n)]
       ELSE IF n \in DOMAIN env.ents THEN [NONE EXCEPT !.at = "ent", !.e = e]
       ELSE NONE
  ELSE IF Owner(s.objs, env.tgt, n) # 0 THEN [NONE EXCEPT !.at = "obj", !.e = e] ELSE NONE
Walk(s, e, n) == LET refs == [i \in DOMAIN Up(s, e) |-> RefIn(s, Up(s, e)[i], n)]
                     hits == {i \in DOMAIN refs : refs[i].at # "none"}
                 IN IF hits = {} THEN NONE ELSE refs[Min(hits)]
\* duk__get_identifier_reference from an activation, with parents
RefAct(s, l, n) ==
  LET t == s.acts[l].tmpl IN
  IF ~Lazy(s, l) THEN Walk(s, s.acts[l].lex, n)
  ELSE IF n \in Names2(t) THEN [at |-> "reg", e |-> 0, l |-> l, r |-> Reg(t, n)]
  ELSE Walk(s, s.acts[l].fenv, n)
GetRef(s, ref, n) == CASE ref.at = "none" -> "ReferenceError"
                       [] ref.at = "reg" -> ToString(RegVal(s, ref.l, ref.r))
                       [] ref.at = "ent" -> ToString(s.envs[ref.e].ents[n].v)
                       [] ref.at = "obj" -> LET o == s.envs[ref.e].tgt IN ToString(s.objs[Owner(s.objs, o, n)].props[n].v)
GetVar(s, l, n) == GetRef(s, RefAct(s, l, n), n)
PutRef(s, ref, n, v, strict) ==
  CASE ref.at = "reg" -> Res([s EXCEPT !.acts[ref.l].regs[ref.r] = v], "ok")
    [] ref.at = "ent" -> IF s.envs[ref.e].ents[n].w THEN Res([s EXCEPT !.envs[ref.e].ents[n].v = v], "ok")
                         ELSE Res(s, ErrIf(strict, "TypeError"))
    [] ref.at = "obj" -> LET p == PutObj(s.objs, s.envs[ref.e].tgt, n, v, strict) IN Res([s EXCEPT !.objs = p.s], p.r)
    [] ref.at = "none" -> IF strict THEN Res(s, "ReferenceError")
                          ELSE Res([s EXCEPT !.objs = PutObj(@, 1, n, v, FALSE).s], "ok")
DelVarOp(s, l, n) ==
  LET ref == RefAct(s, l, n) IN
  CASE ref.at = "none" -> Res(s, TRUE)
    [] ref.at = "reg" -> Res(s, FALSE)
    [] ref.at = "ent" -> IF s.envs[ref.e].ents[n].c THEN Res([s EXCEPT !.envs[ref.e].ents = Drop(@, n)], TRUE) ELSE Res(s, FALSE)
    [] ref.at = "obj" -> LET d == DelObj(s.objs, s.envs[ref.e].tgt, n) IN Res([s EXCEPT !.objs = d.s], d.r)

-----------------------------------------------------------------------------
(* Records: created late, closed on return.                                 *)

Env(kind, up) == [kind |-> kind, up |-> up, ents |-> NoNames, reg |-> 0, map |-> PROGRAM, tgt |-> 0]
NewEnv(s, env) == [s EXCEPT !.envs = Append(@, env)]
Preallocated(t) == [n \in Names2(t) |-> WE(UNDEF)]
CreateEnv(s, l) == NewEnv(s, [Env("dec", s.acts[l].fenv) EXCEPT !.reg = l, !.map = s.acts[l].tmpl, !.ents = Preallocated(s.acts[l].tmpl)])
InitDelayed(s, l) ==
  IF ~Lazy(s, l) THEN s
  ELSE LET s1 == CreateEnv(s, l) IN [s1 EXCEPT !.acts[l].lex = Len(s1.envs), !.acts[l].var = Len(s1.envs)]
CloseEnv(s, e) ==
  IF s.envs[e].kind # "dec" \/ s.envs[e].reg = 0 THEN s
  ELSE LET env == s.envs[e]
           closed == [n \in Names2(env.map) |-> WE(RegVal(s, env.reg, Reg(env.map, n)))]
       IN [s EXCEPT !.envs[e].ents = closed @@ env.ents, !.envs[e].reg = 0]
\* duk__activation_unwind_nofree_norz: scopes go, then the record is closed
NoClose(s) == s                                   \* mutant of Unwind
Unwind(s) == LET act == Last(s.acts) IN IF act.tmpl.new /\ act.var # 0 THEN CloseEnv(s, act.var) ELSE s
PopAct(s) == [s EXCEPT !.acts = Front(@)]

-----------------------------------------------------------------------------
(* Functions and calls.                                                     *)

PushClosure(s, t, lex) ==
  IF ~t.named THEN [s EXCEPT !.clos = Append(@, [tmpl |-> t, env |-> lex])]
  ELSE LET s1 == NewEnv(s, [Env("dec", lex) EXCEPT !.ents = ("f" :> Prop(FUN, {}))])
       IN [s1 EXCEPT !.clos = Append(@, [tmpl |-> t, env |-> Len(s1.envs)])]
Act(t, fenv, regs) == [tmpl |-> t, fenv |-> fenv, lex |-> 0, var |-> 0, regs |-> regs, saved |-> <<>>]
\* duk__create_arguments_object: from the last argument down, each name once
ArgMap(t, argv) == [i \in DOMAIN argv |->
  IF t.strict \/ i > Len(t.formals) THEN ""
  ELSE IF \E k \in (i + 1)..Min({Len(argv), Len(t.formals)}) : t.formals[k] = t.formals[i] THEN "" ELSE t.formals[i]]
ArgsOf(t, argv, env) == [vals |-> argv, map |-> ArgMap(t, argv), env |-> env]
Params(t, argv) == [i \in 1..Len(t.formals \o t.vars) |-> IF i <= Min({Len(argv), Len(t.formals)}) THEN argv[i] ELSE UNDEF]
\* duk__call_env_setup: only CREATEARGS needs the record at once
CallEnvSetup(s, argv) ==
  LET l == Len(s.acts)   t == s.acts[l].tmpl IN
  IF ~t.args THEN s
  ELSE LET s1 == InitDelayed(s, l)   e == Len(s1.envs) IN
       [s1 EXCEPT !.args = Append(@, ArgsOf(t, argv, e)),
                  !.envs[e].ents = Set(@, "arguments", IF t.strict THEN Prop(FUN, {"e"}) ELSE WE(FUN))]
CallOp(s, c, argv) == LET k == s.clos[c] IN CallEnvSetup([s EXCEPT !.acts = Append(@, Act(k.tmpl, k.env, Params(k.tmpl, argv)))], argv)
TailCallOp(s, c, argv) == CallOp(PopAct(Unwind(s)), c, argv)
\* duk_bi_global_object_eval with duk__handle_oldenv_for_call
EvalOp(s, direct, strict) ==
  LET l == Len(s.acts)
      s1 == IF direct THEN InitDelayed(s, l) ELSE s
      st == strict \/ (direct /\ s.acts[l].tmpl.strict)
      s2 == IF direct /\ st THEN NewEnv(s1, Env("dec", s1.acts[l].lex)) ELSE s1
      lex == IF ~direct THEN 1 ELSE IF st THEN Len(s2.envs) ELSE s1.acts[l].lex
      var == IF ~direct THEN 1 ELSE IF st THEN Len(s2.envs) ELSE s1.acts[l].var
  IN [s2 EXCEPT !.acts = Append(@, [Act(EVAL(st), lex, <<>>) EXCEPT !.lex = lex, !.var = var])]
EnterScope(s, env) ==
  LET l == Len(s.acts)   s1 == InitDelayed(s, l)
      s2 == NewEnv(s1, [env EXCEPT !.up = s1.acts[l].lex])
  IN [s2 EXCEPT !.acts[l].saved = Append(@, s1.acts[l].lex), !.acts[l].lex = Len(s2.envs)]
LeaveOp(s) == LET l == Len(s.acts) IN [s EXCEPT !.acts[l].lex = Last(s.acts[l].saved), !.acts[l].saved = Front(@)]

-----------------------------------------------------------------------------
(* Declarations: duk_js_declvar_activation and DUK_OP_DECLVAR.              *)

\* E5.1 section 10.5, step 5.e; but a property that is not configurable gets the
\* attributes of the declaration too.
DeclGlobalFunc(s, n, v, p) ==
  LET h == Owner(s.objs, 1, n)   q == s.objs[h].props[n] IN
  IF ~q.c /\ (q.acc \/ ~(q.w /\ q.e)) THEN Res(s, "TypeError")
  ELSE Res([s EXCEPT !.objs[1].props = Set(@, n, p)], "ok")
DeclVarOp(s, l, n, v, func, conf) ==
  LET s1 == InitDelayed(s, l)
      e == s1.acts[l].var
      p == IF conf THEN WEC(v) ELSE WE(v)
      ref == RefIn(s1, e, n)
  IN IF ref.at # "none" THEN
          IF func /\ e = 1 THEN DeclGlobalFunc(s1, n, v, p)
          ELSE IF func THEN PutRef(s1, RefAct(s1, l, n), n, v, s1.acts[l].tmpl.strict) ELSE Res(s1, "ok")
     ELSE IF s1.envs[e].kind = "dec" THEN Res([s1 EXCEPT !.envs[e].ents = Set(@, n, p)], "ok")
     ELSE IF ~s1.objs[s1.envs[e].tgt].ext THEN Res(s1, "TypeError")
     ELSE Res([s1 EXCEPT !.objs[s1.envs[e].tgt].props = Set(@, n, p)], "ok")

-----------------------------------------------------------------------------
(* Inspection and injection: duk_rp_get_scope_vars and duk_rp_localize.     *)

FindIn(s, e, n) ==
  LET env == s.envs[e] IN
  IF env.kind = "obj" THEN LET h == Owner(s.objs, env.tgt, n) IN IF h = 0 THEN "" ELSE ToString(s.objs[h].props[n].v)
  ELSE IF env.reg # 0 /\ n \in Names2(env.map) THEN ToString(RegVal(s, env.reg, Reg(env.map, n)))
  ELSE IF n \in DOMAIN env.ents THEN ToString(env.ents[n].v) ELSE ""
\* duk__scope_classify along a chain; started says the local scope is behind
Classify(s, ch, started) == [i \in DOMAIN ch |->
  IF s.envs[ch[i]].kind = "obj" THEN IF ch[i] = 1 THEN "global" ELSE "with"
  ELSE IF ~started /\ \A k \in 1..(i - 1) : s.envs[ch[k]].kind = "obj" THEN "local" ELSE "closure"]
ChainOf(s, l) == Up(s, IF Lazy(s, l) THEN s.acts[l].fenv ELSE s.acts[l].lex)
ClassesOf(s, l) == Classify(s, ChainOf(s, l), Lazy(s, l))
FindVar(s, l, n) ==
  LET t == s.acts[l].tmpl
      ch == ChainOf(s, l)
      found == [i \in DOMAIN ch |-> FindIn(s, ch[i], n)]
      hits == {i \in DOMAIN ch : found[i] # ""}
  IN IF Lazy(s, l) /\ n \in Names2(t) THEN <<ToString(RegVal(s, l, Reg(t, n))), "local">>
     ELSE IF hits = {} THEN <<"ReferenceError", "">>
     ELSE <<found[Min(hits)], ClassesOf(s, l)[Min(hits)]>>
OpenVars(s, e, acc, skip) ==
  LET env == s.envs[e]
      regs == [n \in {k \in Names2(env.map) : ~(skip /\ k \in DOMAIN acc)} |-> RegVal(s, env.reg, Reg(env.map, n))]
      rest == [n \in DOMAIN env.ents \ Names2(env.map) |-> env.ents[n].v]
  IN rest @@ regs @@ acc
ClosedVars(s, e, acc, skip) ==
  LET new == {k \in DOMAIN s.envs[e].ents : ~(skip /\ k \in DOMAIN acc)} IN [n \in new |-> s.envs[e].ents[n].v] @@ acc
AddVars(s, e, acc, skip) == IF s.envs[e].reg # 0 THEN OpenVars(s, e, acc, skip) ELSE ClosedVars(s, e, acc, skip)
NoVars == [n \in {} |-> UNDEF]
LocalVars(s, l) ==
  LET t == s.acts[l].tmpl
      ch == ChainOf(s, l)
      mine == {i \in DOMAIN ch : ClassesOf(s, l)[i] = "local"}
  IN IF Lazy(s, l) THEN [n \in Names2(t) |-> RegVal(s, l, Reg(t, n))]
     ELSE IF mine = {} THEN NoVars ELSE AddVars(s, ch[Min(mine)], NoVars, FALSE)
ClosureEnvs(s, l) == LET ch == ChainOf(s, l) IN SelectSeq(ch, LAMBDA e : ClassesOf(s, l)[SelectInSeq(ch, LAMBDA x : x = e)] = "closure")
ClosureVars(s, l) == FoldLeft(LAMBDA acc, e : AddVars(s, e, acc, TRUE), NoVars, ClosureEnvs(s, l))
ScopeTarget(s, l) == LET w == SelectSeq(ChainOf(s, l), LAMBDA e : s.envs[e].kind = "obj" /\ e # 1) IN IF w = <<>> THEN 0 ELSE s.envs[w[1]].tgt

\* The put goes through the records of the chain as through prototypes.
ReadOnlyAbove(s, e, n) == LET h == {i \in DOMAIN Up(s, e) : n \in DOMAIN s.envs[Up(s, e)[i]].ents}
                          IN h # {} /\ ~s.envs[Up(s, e)[Min(h)]].ents[n].w
LocalizeOp(s, l, n, v, ignore) ==
  LET s1 == IF s.acts[l].tmpl.new THEN InitDelayed(s, l) ELSE s
      e == s1.acts[l].lex
  IN IF s1.envs[e].kind = "dec" THEN
          IF n \in Names2(s1.acts[l].tmpl) THEN Res(s1, IF ignore THEN "ok" ELSE "TypeError")
          ELSE IF ReadOnlyAbove(s1, e, n) THEN Res(s1, "TypeError")
          ELSE Res([s1 EXCEPT !.envs[e].ents = Set(@, n, IF n \in DOMAIN @ THEN [@[n] EXCEPT !.v = v] ELSE WEC(v))], "ok")
     ELSE IF e = 1 THEN LET p == PutObj(s1.objs, 1, n, v, TRUE) IN Res([s1 EXCEPT !.objs = p.s], p.r)
     ELSE Res(s1, "ok")

-----------------------------------------------------------------------------
(* E5: declarative and object environment records, all created eagerly.     *)

AEnv(kind, up, ents, tgt) == [kind |-> kind, up |-> up, ents |-> ents, tgt |-> tgt]
AHas(s, e, n) == IF s.envs[e].kind = "dec" THEN n \in DOMAIN s.envs[e].ents ELSE Owner(s.objs, s.envs[e].tgt, n) # 0
AWhere(s, e, n) == LET h == {i \in DOMAIN Up(s, e) : AHas(s, Up(s, e)[i], n)} IN IF h = {} THEN 0 ELSE Up(s, e)[Min(h)]
AGetAt(s, e, n) == IF e = 0 THEN "ReferenceError"
                   ELSE IF s.envs[e].kind = "dec" THEN ToString(s.envs[e].ents[n].v)
                   ELSE ToString(s.objs[Owner(s.objs, s.envs[e].tgt, n)].props[n].v)
AGet(s, l, n) == AGetAt(s, AWhere(s, s.acts[l].lex, n), n)
APutAt(s, e, n, v, strict) ==
  IF e = 0 THEN IF strict THEN Res(s, "ReferenceError") ELSE Res([s EXCEPT !.objs = PutObj(@, 1, n, v, FALSE).s], "ok")
  ELSE IF s.envs[e].kind = "obj" THEN LET p == PutObj(s.objs, s.envs[e].tgt, n, v, strict) IN Res([s EXCEPT !.objs = p.s], p.r)
  ELSE IF s.envs[e].ents[n].w THEN Res([s EXCEPT !.envs[e].ents[n].v = v], "ok") ELSE Res(s, ErrIf(strict, "TypeError"))
ADel(s, l, n) ==
  LET e == AWhere(s, s.acts[l].lex, n) IN
  IF e = 0 THEN Res(s, TRUE)
  ELSE IF s.envs[e].kind = "obj" THEN LET d == DelObj(s.objs, s.envs[e].tgt, n) IN Res([s EXCEPT !.objs = d.s], d.r)
  ELSE IF s.envs[e].ents[n].c THEN Res([s EXCEPT !.envs[e].ents = Drop(@, n)], TRUE) ELSE Res(s, FALSE)
APush(s, env) == [s EXCEPT !.envs = Append(@, env)]
AClosure(s, t) ==
  LET lex == Last(s.acts).lex
      s1 == IF t.named THEN APush(s, AEnv("dec", lex, ("f" :> Prop(FUN, {})), 0)) ELSE s
  IN [s1 EXCEPT !.clos = Append(@, [tmpl |-> t, env |-> IF t.named THEN Len(s1.envs) ELSE lex])]
ACall(s, c, argv) ==
  LET t == s.clos[c].tmpl
      given == [n \in Names2(t) |-> LET i == Reg(t, n) IN WE(IF i <= Min({Len(argv), Len(t.formals)}) THEN argv[i] ELSE UNDEF)]
      argb == IF t.args THEN ("arguments" :> IF t.strict THEN Prop(FUN, {"e"}) ELSE WE(FUN)) ELSE NoNames
      s1 == APush(s, AEnv("dec", s.clos[c].env, argb @@ given, 0))
      e == Len(s1.envs)
  IN [s1 EXCEPT !.acts = Append(@, [tmpl |-> t, lex |-> e, var |-> e, saved |-> <<>>]),
                !.args = IF t.args THEN Append(@, [vals |-> argv, tmpl |-> t, env |-> e]) ELSE @]
AEval(s, direct, strict) ==
  LET top == Last(s.acts)
      st == strict \/ (direct /\ top.tmpl.strict)
      s1 == IF direct /\ st THEN APush(s, AEnv("dec", top.lex, NoNames, 0)) ELSE s
      at == IF ~direct THEN <<1, 1>> ELSE IF st THEN <<Len(s1.envs), Len(s1.envs)>> ELSE <<top.lex, top.var>>
  IN [s1 EXCEPT !.acts = Append(@, [tmpl |-> EVAL(st), lex |-> at[1], var |-> at[2], saved |-> <<>>])]
AEnter(s, kind, ents, tgt) ==
  LET l == Len(s.acts)   s1 == APush(s, AEnv(kind, s.acts[l].lex, ents, tgt))
  IN [s1 EXCEPT !.acts[l].saved = Append(@, s.acts[l].lex), !.acts[l].lex = Len(s1.envs)]
\* Not E5: a function declared again by evaluated code is assigned to the name as the code
\* reads it, which a with or catch scope may hold, not to the variable environment.
ADecl(s, l, n, v, func, conf) ==
  LET e == s.acts[l].var
      p == IF conf THEN WEC(v) ELSE WE(v)
  IN IF AHas(s, e, n) THEN
          IF func /\ e = 1 THEN DeclGlobalFunc(s, n, v, p)
          ELSE IF func THEN APutAt(s, AWhere(s, s.acts[l].lex, n), n, v, s.acts[l].tmpl.strict) ELSE Res(s, "ok")
     ELSE IF s.envs[e].kind = "dec" THEN Res([s EXCEPT !.envs[e].ents = Set(@, n, p)], "ok")
     ELSE IF ~s.objs[1].ext THEN Res(s, "TypeError") ELSE Res([s EXCEPT !.objs[1].props = Set(@, n, p)], "ok")
\* A name the function declares is left alone, also from code it evaluates.
ALocalize(s, l, n, v, ignore) ==
  LET e == s.acts[l].lex
      ents == s.envs[e].ents
      outer == AWhere([s EXCEPT !.envs = [i \in DOMAIN @ |-> IF @[i].kind = "obj" THEN AEnv("dec", @[i].up, NoNames, 0) ELSE @[i]]], e, n)
  IN IF s.envs[e].kind = "dec" THEN
          IF n \in Names2(s.acts[l].tmpl) THEN Res(s, IF ignore THEN "ok" ELSE "TypeError")
          ELSE IF outer # 0 /\ ~s.envs[outer].ents[n].w THEN Res(s, "TypeError")
          ELSE IF n \in DOMAIN ents THEN
                  Res(IF \E k \in 1..l : s.acts[k].tmpl.new /\ s.acts[k].var = e /\ n \in Names2(s.acts[k].tmpl)
                      THEN s ELSE [s EXCEPT !.envs[e].ents[n].v = v], "ok")
          ELSE Res([s EXCEPT !.envs[e].ents = Set(@, n, WEC(v))], "ok")
     ELSE IF e = 1 THEN LET p == PutObj(s.objs, 1, n, v, TRUE) IN Res([s EXCEPT !.objs = p.s], p.r)
     ELSE Res(s, "ok")
\* E5 section 10.6: an element is the parameter it is mapped to.
AAlias(g, i) == LET same == {k \in 1..Min({Len(g.vals), Len(g.tmpl.formals)}) : g.tmpl.formals[k] = g.tmpl.formals[i]}
                IN IF ~g.tmpl.strict /\ i <= Len(g.tmpl.formals) /\ i = Max(same) THEN g.tmpl.formals[i] ELSE ""
AArg(s, g, i) == IF AAlias(g, i) = "" THEN ToString(g.vals[i]) ELSE AGetAt(s, g.env, AAlias(g, i))

\* The arguments exotic behaviour, through duk_js_getvar_envrec and duk_js_putvar_envrec.
GetArg(s, g, i) == IF g.map[i] = "" THEN ToString(g.vals[i]) ELSE GetRef(s, Walk(s, g.env, g.map[i]), g.map[i])
PutArgOp(s, k, i, v) ==
  LET g == s.args[k]   s1 == [s EXCEPT !.args[k].vals[i] = v] IN
  IF g.map[i] = "" THEN s1 ELSE PutRef(s1, Walk(s1, g.env, g.map[i]), g.map[i], v, FALSE).s
APutArg(s, k, i, v) ==
  LET g == s.args[k]   s1 == [s EXCEPT !.args[k].vals[i] = v] IN
  IF AAlias(g, i) = "" THEN s1 ELSE APutAt(s1, g.env, AAlias(g, i), v, FALSE).s

-----------------------------------------------------------------------------
(* Behaviour: the innermost activation runs; bounds name what is capped.    *)

Top == Len(m.acts)
Code == m.acts[Top].tmpl
Both(cr, ar) == /\ ops < MaxOps /\ ops' = ops + 1
                /\ m' = cr.s /\ ret' = cr.r /\ a' = ar.s /\ aret' = ar.r
Quiet(cs, as) == Both(Res(cs, "ok"), Res(as, "ok"))

Fresh(objs) == [envs |-> <<[Env("obj", 0) EXCEPT !.tgt = 1]>>, clos |-> <<>>, args |-> <<>>, objs |-> objs,
                acts |-> <<[Act(PROGRAM, 1, <<>>) EXCEPT !.lex = 1, !.var = 1]>>]
AFresh(objs) == [envs |-> <<AEnv("obj", 0, NoNames, 1)>>, clos |-> <<>>, args |-> <<>>, objs |-> objs,
                 acts |-> <<[tmpl |-> PROGRAM, lex |-> 1, var |-> 1, saved |-> <<>>]>>]
\* The program has made one function and is in its first call.
Init == /\ \E objs \in Globals, t \in Templates, argv \in Actuals :
             /\ m = CallOp(PushClosure(Fresh(objs), FUNC(t), 1), 1, argv)
             /\ a = ACall(AClosure(AFresh(objs), FUNC(t)), 1, argv)
        /\ ret = "ok" /\ aret = "ok" /\ ops = 0

PutVar == \E n \in Names, v \in Vals :
  Both(PutRef(m, RefAct(m, Top, n), n, v, Code.strict), APutAt(a, AWhere(a, a.acts[Top].lex, n), n, v, Code.strict))
\* Compiled code reaches its own variables by register outside with and catch.
PutReg == \E n \in Names2(Code), v \in Vals :
  /\ m.acts[Top].saved = <<>>
  /\ Quiet([m EXCEPT !.acts[Top].regs[Reg(Code, n)] = v], [a EXCEPT !.envs[a.acts[Top].var].ents[n].v = v])
DelVar == ~Code.strict /\ \E n \in Names : Both(DelVarOp(m, Top, n), ADel(a, Top, n))
DeclVar == \E n \in EvalNames, v \in Vals, func \in BOOLEAN :
  /\ ~Code.new
  /\ LET u == IF func THEN v ELSE UNDEF IN Both(DeclVarOp(m, Top, n, u, func, Code.conf), ADecl(a, Top, n, u, func, Code.conf))
MakeClosure == \E t \in Templates :
  /\ Len(m.clos) < MaxClos
  /\ LET s1 == InitDelayed(m, Top) IN Quiet(PushClosure(s1, FUNC(t), s1.acts[Top].lex), AClosure(a, FUNC(t)))
Call == \E c \in DOMAIN m.clos, argv \in Actuals :
  Top < MaxActs /\ Quiet(CallOp(m, c, argv), ACall(a, c, argv))
TailCall == \E c \in DOMAIN m.clos, argv \in Actuals :
  /\ Code.new /\ m.acts[Top].saved = <<>>
  /\ Quiet(TailCallOp(m, c, argv), ACall([a EXCEPT !.acts = Front(@)], c, argv))
Return == Top > 1 /\ Quiet(PopAct(Unwind(m)), [a EXCEPT !.acts = Front(@)])
Eval == \E direct, strict \in BOOLEAN : Top < MaxActs /\ Quiet(EvalOp(m, direct, strict), AEval(a, direct, strict))
EnterWith == ~Code.strict /\ Quiet(EnterScope(m, [Env("obj", 0) EXCEPT !.tgt = 3]), AEnter(a, "obj", NoNames, 3))
EnterCatch == \E n \in CatchNames, v \in Vals :
  LET b == (n :> Prop(v, {"w"})) IN Quiet(EnterScope(m, [Env("dec", 0) EXCEPT !.ents = b]), AEnter(a, "dec", b, 0))
LeaveScope == m.acts[Top].saved # <<>> /\ Quiet(LeaveOp(m), LeaveOp(a))
PutArg == \E k \in DOMAIN m.args, v \in Vals : \E i \in DOMAIN m.args[k].vals : Quiet(PutArgOp(m, k, i, v), APutArg(a, k, i, v))
Localize == \E n \in Names, v \in Vals, ignore \in BOOLEAN :
  Both(LocalizeOp(m, Top, n, v, ignore), ALocalize(a, Top, n, v, ignore))

Next == PutVar \/ PutReg \/ DelVar \/ DeclVar \/ MakeClosure \/ Call \/ TailCall \/ Return \/ Eval
        \/ EnterWith \/ EnterCatch \/ LeaveScope \/ PutArg \/ Localize
Spec == Init /\ [][Next]_vars

-----------------------------------------------------------------------------
(* Properties.                                                              *)

\* Only an activation of a function may be without a record, and the open
\* records are exactly those of running activations, each of its own level.
OpenExact ==
  /\ \A l \in DOMAIN m.acts : Lazy(m, l) => m.acts[l].tmpl.new /\ m.acts[l].saved = <<>>
  /\ \A e \in DOMAIN m.envs : m.envs[e].reg # 0 =>
       LET l == m.envs[e].reg IN l \in DOMAIN m.acts /\ m.acts[l].var = e /\ m.acts[l].tmpl = m.envs[e].map

\* Every name, looked up from every running activation and from every
\* function that may be called later, has the value E5 says, whichever of
\* registers, open records, closed records and objects hold it now.
ScopesAgree ==
  /\ m.objs = a.objs
  /\ \A l \in DOMAIN m.acts, n \in Names : GetVar(m, l, n) = AGet(a, l, n)
  /\ \A c \in DOMAIN m.clos, n \in Names :
       GetRef(m, Walk(m, m.clos[c].env, n), n) = AGetAt(a, AWhere(a, a.clos[c].env, n), n)

\* Assignment, deletion, declaration and injection succeed or fail with the
\* error E5 (and the header of duk_rp_localize) prescribes.
ResultsAgree == ret = aret

\* An element of an arguments object is the parameter it is mapped to while
\* the function runs and after it has returned.
ArgumentsAlias == \A k \in DOMAIN m.args : \A i \in DOMAIN m.args[k].vals : GetArg(m, m.args[k], i) = AArg(a, a.args[k], i)

\* What duk_rp_get_scope_vars reports of a name is what the code at that
\* level would read, its list of locals is the innermost declarative record,
\* never the stale preallocated entries of an open one, and its list of
\* closure variables has the names of the outer ones, each with the value of
\* the innermost of them ("inner wins"); but a name that an open record holds
\* outside its registers (injected, declared by eval, arguments) hides those
\* further in: duk__scope_add_open_vars does not look whether it is there.
InspectorAgrees ==
  \A l \in DOMAIN m.acts :
    LET ch == Up(a, a.acts[l].lex)
        decs == {i \in DOMAIN ch : a.envs[ch[i]].kind = "dec"}
        withs == {i \in DOMAIN ch : a.envs[ch[i]].kind = "obj" /\ ch[i] # 1}
        outer(n) == {i \in decs \ {Min(decs)} : n \in DOMAIN a.envs[ch[i]].ents}
        late(n) == {i \in outer(n) : \E k \in DOMAIN a.acts : /\ a.acts[k].tmpl.new /\ a.acts[k].var = ch[i]
                                                            /\ n \notin Names2(a.acts[k].tmpl)}
        shown(n) == IF late(n) # {} THEN Max(late(n)) ELSE Min(outer(n))
    IN /\ \A n \in Names : FindVar(m, l, n)[1] = AGet(a, l, n)
       /\ LocalVars(m, l) = IF decs = {} THEN NoVars
                            ELSE LET b == a.envs[ch[Min(decs)]].ents IN [n \in DOMAIN b |-> b[n].v]
       /\ decs # {} => ClosureVars(m, l) =
            [n \in UNION {DOMAIN a.envs[ch[i]].ents : i \in decs \ {Min(decs)}} |-> a.envs[ch[shown(n)]].ents[n].v]
       /\ ScopeTarget(m, l) = IF withs = {} THEN 0 ELSE a.envs[ch[Min(withs)]].tgt
=============================================================================

--------------------------- MODULE DukCallTarget ---------------------------
(***************************************************************************)
(* Which function a call reaches, with which this and arguments            *)
(* (duk__resolve_target_func_and_this_binding in duk_js_call.c): bound     *)
(* functions, call, apply, Reflect.apply, Reflect.construct, eval and      *)
(* proxies are resolved by rewriting the value stack [func, this, args...] *)
(* and the call flags until an ordinary function is on it.  bind collapses *)
(* chains of bound functions when it makes one.                            *)
(*                                                                         *)
(* Values: <<"f", i>> a function, <<"v", n>> a primitive, <<"w", n>> its   *)
(* wrapper object, <<"a", q>> an array, <<"h", i>> the handler of proxy i, *)
(* <<"o", i>> the default instance with the prototype of function i (0 is  *)
(* Object.prototype).  afns holds the functions as the program made them   *)
(* and want what ECMAScript's [[Call]] and [[Construct]] reach.            *)
(***************************************************************************)
EXTENDS Integers, Sequences, SequencesExt, FiniteSets, FiniteSetsExt

CONSTANTS Fns,          \* functions there from the start
          BindArgs,     \* arguments given to bind
          CallArgs,     \* argument lists of calls
          ThisArgs,     \* this values of calls
          Traps,        \* functions used as traps; 0 is none, -1 a property that is undefined
          MaxFns

VARIABLES fns, afns, call, stk, flags, first, out, want

vars == <<fns, afns, call, stk, flags, first, out, want>>

UNDEF == <<"v", 0>>
GLOBAL == <<"g", 0>>
NONE == [fn |-> 0]
Error(e) == [err |-> e]
Fn(i) == <<"f", i>>
IsFn(v) == v[1] = "f"
IsObject(v) == v[1] # "v"
NoFlags == [con |-> FALSE, px |-> FALSE, upd |-> FALSE, ev |-> "no", blank |-> FALSE]
\* A result: function, this, arguments, constructor call, construct trap, direct eval
Reach(i, this, args, con, px, direct) == [fn |-> i, this |-> this, args |-> args, con |-> con, px |-> px, direct |-> direct]

Special == {"call", "apply", "rapply", "rconstruct", "eval"}
Target(f) == f.target[2]
Constructable(F, i) == \/ F[i].kind = "plain" /\ F[i].con
                       \/ F[i].kind \in {"bound", "proxy"} /\ F[i].con
\* Get(f, "prototype"): a bound function has none, a proxy asks its target
ProtoOf(F, i) == LET t == IF F[i].kind = "proxy" THEN Target(F[i]) ELSE i IN IF F[t].kind = "plain" /\ F[t].con THEN t ELSE 0
PadTo(q, n) == q \o [i \in 1..Max({0, n - Len(q)}) |-> UNDEF]
\* duk_unpack_array_like; objects other than arrays have no length here
Unpackable(v) == IsObject(v) \/ v = UNDEF
Unpack(v) == IF v[1] = "a" THEN v[2] ELSE <<>>
\* duk__coerce_nonstrict_this_binding
Coerced(v) == IF v = UNDEF THEN GLOBAL ELSE IF v[1] = "v" THEN <<"w", v[2]>> ELSE v

-----------------------------------------------------------------------------
(* Making functions.                                                        *)

\* Each function is made from the one made before it: chains as long as MaxFns allows
Chained(i) == Len(fns) = Len(Fns) \/ i = Len(fns)
\* duk_bi_function_prototype_bind: the target of a bound function is never bound
NotCollapsed(i, this, args) ==                    \* mutant of Bound
  [kind |-> "bound", target |-> Fn(i), this |-> this, args |-> args, con |-> Constructable(fns, i)]
Bound(i, this, args) ==
  LET f == fns[i] IN
  IF f.kind = "bound" THEN [kind |-> "bound", target |-> f.target, this |-> f.this, args |-> f.args \o args, con |-> f.con]
  ELSE [kind |-> "bound", target |-> Fn(i), this |-> this, args |-> args, con |-> Constructable(fns, i)]
Bind == /\ call = <<>> /\ Len(fns) < MaxFns
        /\ \E i \in DOMAIN fns, this \in ThisArgs, args \in BindArgs :
             /\ Chained(i)
             /\ fns' = Append(fns, Bound(i, this, args))
             /\ afns' = Append(afns, [kind |-> "bound", target |-> Fn(i), this |-> this, args |-> args, con |-> Constructable(fns, i)])
        /\ UNCHANGED <<call, stk, flags, first, out, want>>
\* duk_push_proxy refuses a proxy as the target
MakeProxy == /\ call = <<>> /\ Len(fns) < MaxFns
             /\ \E i \in {j \in DOMAIN fns : fns[j].kind # "proxy"}, at, ct \in Traps :
                  Chained(i) /\ LET p == [kind |-> "proxy", target |-> Fn(i), apply |-> at, construct |-> ct, con |-> Constructable(fns, i)] IN
                  fns' = Append(fns, p) /\ afns' = Append(afns, p)
             /\ UNCHANGED <<call, stk, flags, first, out, want>>

-----------------------------------------------------------------------------
(* ECMAScript.                                                              *)

RECURSIVE ACall(_, _, _, _), ACon(_, _, _)
Redirect(v, this, args) == IF IsFn(v) THEN ACall(v[2], this, args, FALSE) ELSE Error("type")
ACall(i, this, args, direct) == LET f == afns[i] IN
  CASE f.kind = "plain" -> Reach(i, IF f.strict THEN this ELSE Coerced(this), args, FALSE, FALSE, FALSE)
    [] f.kind = "eval" -> Reach(i, this, args, FALSE, FALSE, direct)
    [] f.kind = "bound" -> ACall(Target(f), f.this, f.args \o args, FALSE)
    [] f.kind = "call" -> Redirect(this, PadTo(args, 1)[1], IF args = <<>> THEN <<>> ELSE Tail(args))
    [] f.kind = "apply" -> IF ~IsFn(this) \/ ~Unpackable(PadTo(args, 2)[2]) THEN Error("type")
                           ELSE Redirect(this, PadTo(args, 1)[1], Unpack(PadTo(args, 2)[2]))
    [] f.kind = "rapply" -> LET q == PadTo(args, 3) IN
                            IF ~Unpackable(q[3]) THEN Error("type") ELSE Redirect(q[1], q[2], Unpack(q[3]))
    [] f.kind = "rconstruct" -> IF args = <<>> \/ ~IsFn(args[1]) \/ ~Constructable(afns, args[1][2]) \/ Len(args) < 2 THEN Error("type")
                                ELSE IF Len(args) > 2 /\ args[3] # args[1] THEN Error("unsupported")
                                ELSE IF ~Unpackable(args[2]) THEN Error("type") ELSE ACon(args[1][2], Unpack(args[2]), args[1][2])
    [] f.kind = "proxy" -> IF f.apply <= 0 THEN ACall(Target(f), this, args, FALSE)
                           ELSE ACall(f.apply, <<"h", i>>, <<f.target, this, <<"a", args>>>>, FALSE)
ACon(i, args, nt) == LET f == afns[i] IN
  CASE ~Constructable(afns, i) -> Error("type")
    [] f.kind = "plain" -> Reach(i, <<"o", ProtoOf(afns, nt)>>, args, TRUE, FALSE, FALSE)
    [] f.kind = "bound" -> ACon(Target(f), f.args \o args, IF nt = i THEN Target(f) ELSE nt)
    [] f.kind = "proxy" -> IF f.construct <= 0 THEN ACon(Target(f), args, nt)
                           ELSE LET r == ACall(f.construct, <<"h", i>>, <<f.target, <<"a", args>>, Fn(i)>>, FALSE)
                                IN IF "err" \in DOMAIN r THEN r ELSE [r EXCEPT !.px = TRUE]

-----------------------------------------------------------------------------
(* The loop.                                                                *)

Init == /\ fns = Fns /\ afns = Fns /\ call = <<>> /\ stk = <<>> /\ flags = NoFlags /\ first = TRUE
        /\ out = NONE /\ want = NONE

\* A call expression, by name eval or not, or new
Begin == /\ call = <<>> /\ Len(fns) = MaxFns
         /\ \E i \in DOMAIN fns, this \in ThisArgs \cup {Fn(MaxFns)}, args \in CallArgs, how \in {"call", "eval", "new"} :
              /\ i = MaxFns \/ fns[i].kind \in Special          \* what was made last is involved
              /\ call' = <<i, how>>
              /\ stk' = <<Fn(i), IF how = "new" THEN <<"o", 0>> ELSE this>> \o args
              /\ flags' = [NoFlags EXCEPT !.con = how = "new", !.ev = IF how = "eval" THEN "called" ELSE "no"]
              /\ want' = IF how = "new" THEN ACon(i, args, i) ELSE ACall(i, this, args, how = "eval")
         /\ UNCHANGED <<fns, afns, first, out>>

Resolving == call # <<>> /\ out = NONE
Func == fns[stk[1][2]]
Can == IsFn(stk[1]) /\ (flags.con => Constructable(fns, stk[1][2]))
Rewrites(q) == /\ stk' = q /\ first' = FALSE
               /\ UNCHANGED <<fns, afns, call, out, want>>
Ends(r) == /\ out' = r /\ UNCHANGED <<fns, afns, call, stk, flags, first, want>>

\* duk__handle_bound_chain_for_call
ResolveBound == /\ Resolving /\ Can /\ Func.kind = "bound"
                /\ Rewrites(<<Func.target, IF flags.con THEN stk[2] ELSE Func.this>> \o Func.args \o SubSeq(stk, 3, Len(stk)))
                /\ UNCHANGED flags
\* duk__handle_specialfuncs_for_call
ResolveCall == /\ Resolving /\ Can /\ Func.kind = "call"
               /\ Rewrites(PadTo(Tail(stk), 2)) /\ UNCHANGED flags
Shared(q) == IF Len(q) <= 2 THEN PadTo(q, 2) ELSE IF ~IsFn(q[1]) THEN SubSeq(q, 1, 3) ELSE SubSeq(q, 1, 2) \o Unpack(q[3])
Shareable(q) == Len(q) > 2 /\ IsFn(q[1]) => Unpackable(q[3])
ResolveApply == /\ Resolving /\ Can /\ Func.kind \in {"apply", "rapply"}
                /\ LET q == SubSeq(stk, IF Func.kind = "apply" THEN 2 ELSE 3, Len(stk)) IN
                   IF Shareable(q) THEN Rewrites(Shared(q)) /\ UNCHANGED flags ELSE Ends(Error("type"))
ResolveConstruct ==
  /\ Resolving /\ Can /\ Func.kind = "rconstruct"
  /\ LET q == SubSeq(stk, 3, Len(stk)) IN
     IF q = <<>> \/ ~IsFn(q[1]) \/ ~Constructable(fns, q[1][2])
     THEN Rewrites(SubSeq(PadTo(q, 2), 1, 2)) /\ flags' = [flags EXCEPT !.con = TRUE]
     ELSE IF Len(q) < 2 THEN Ends(Error("type"))
     ELSE IF Len(q) > 2 /\ q[3] # q[1] THEN Ends(Error("unsupported"))
     ELSE IF ~Unpackable(q[2]) THEN Ends(Error("type"))
     ELSE Rewrites(<<q[1], <<"o", 0>>>> \o Unpack(q[2])) /\ flags' = [flags EXCEPT !.con = TRUE]
\* duk__handle_proxy_for_call; without a trap the default instance is updated from the proxy
Updated(i) == IF flags.con /\ ~flags.upd /\ ProtoOf(fns, i) # 0 THEN <<"o", ProtoOf(fns, i)>> ELSE stk[2]
Through(i) == <<Func.target, Updated(i)>> \o SubSeq(stk, 3, Len(stk))
TrapOf(f) == IF flags.con THEN f.construct ELSE f.apply
Trapped(i) ==
  LET args == <<"a", SubSeq(stk, 3, Len(stk))>>
      trap == IF TrapOf(Func) = -1 THEN UNDEF ELSE Fn(TrapOf(Func)) IN
  IF flags.con THEN <<trap, <<"h", i>>, Func.target, args, Fn(i)>>
  ELSE <<trap, <<"h", i>>, Func.target, stk[2], args>>
ResolveProxy ==
  /\ Resolving /\ Can /\ Func.kind = "proxy"
  /\ LET i == stk[1][2] IN
     IF TrapOf(Func) = 0
     THEN Rewrites(Through(i)) /\ flags' = [flags EXCEPT !.upd = @ \/ flags.con]
     ELSE Rewrites(Trapped(i)) /\ flags' = [flags EXCEPT !.con = FALSE, !.px = @ \/ flags.con,
                                                            !.blank = @ \/ TrapOf(Func) = -1]
NotCallable == Resolving /\ ~Can /\ Ends(Error("type"))
\* Only the function first on the stack can make a direct eval
DirectEval == first /\ flags.ev = "called"
Finish == /\ Resolving /\ Can /\ Func.kind \in {"plain", "eval"}
          /\ LET i == stk[1][2]
                 this == IF Func.kind = "eval" \/ Func.strict THEN stk[2] ELSE Coerced(stk[2]) IN
             Ends(Reach(i, IF flags.con THEN Updated(i) ELSE this, SubSeq(stk, 3, Len(stk)), flags.con, flags.px,
                        Func.kind = "eval" /\ DirectEval))

Next == \/ Bind \/ MakeProxy \/ Begin \/ ResolveBound \/ ResolveCall \/ ResolveApply \/ ResolveConstruct
        \/ ResolveProxy \/ NotCallable \/ Finish
Spec == Init /\ [][Next]_vars

-----------------------------------------------------------------------------

(* Functions have their E5 counterparts, within the bound.                  *)
TypeOK == /\ Len(fns) = Len(afns) /\ Len(fns) <= MaxFns
          /\ first \in BOOLEAN /\ flags.ev \in {"no", "called"}
          /\ \A i \in DOMAIN fns : fns[i].kind \in {"plain", "bound", "proxy"} \cup Special

(* The function, this, arguments and default prototype the loop ends with,  *)
(* or the error, are what ECMAScript's [[Call]] or [[Construct]] reaches    *)
(* through any chain of bound functions, call, apply, Reflect and proxies.  *)
(* A trap that is there but undefined is a TypeError, where ES2015's        *)
(* GetMethod goes on to the target as if there was none.                    *)
TargetAgrees == out # NONE => out = IF flags.blank THEN Error("type") ELSE want

(* bind leaves no chain of bound functions to walk.                         *)
NoBoundChains == \A i \in DOMAIN fns : fns[i].kind = "bound" => fns[Target(fns[i])].kind # "bound"
=============================================================================

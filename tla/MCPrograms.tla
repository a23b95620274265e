----------------------------- MODULE MCPrograms -----------------------------
(* The programs that DukBytecode compiles and runs for TLC. *)
EXTENDS DukBytecode

\* Names: two variables, a label, two properties.
X == 201
Y == 202
L1 == 221
A == 211
B == 212
Nn(n) == <<"num", n>>
V(n) == <<"var", n>>
Lg(e) == <<"call", V(LOG), <<e>>>>
Ex(e) == <<"expr", e>>
None_ == <<"none">>
Dot == <<"dot", V(Y), A>>
Idx(e) == <<"idx", V(Y), e>>
\* Every program starts with  var x = 2, y = {a: 7, b: log}.
Decl == << <<"var", X, Nn(2)>>, <<"var", Y, <<"obj", <<<<A, Nn(7)>>, <<B, V(LOG)>>>>>>>> >>
Bin(o, a, b) == <<"bin", o, a, b>>
Ops == {"+", "*", "<", "&&", "||", ","}
A0 == {Nn(1), Lg(Nn(0)), Dot}
\* Expressions that change what the rest of the expression reads.
Mut == {<<"asg", V(X), Lg(Nn(5))>>, <<"opasg", V(X), Nn(4)>>, <<"opasg", V(X), <<"post", V(X)>>>>,
        <<"asg", V(X), <<"post", V(X)>>>>, <<"pre", Dot>>, <<"post", Idx(V(X))>>,
        <<"asg", Idx(<<"post", V(X)>>), V(X)>>, <<"opasg", Dot, Lg(Nn(2))>>,
        <<"asg", V(Y), <<"asg", Dot, V(Y)>>>>}
Sub == Mut \union {Bin(o, Nn(2), V(X)) : o \in {"===", "*", ","}} \union {Bin(o, Lg(Nn(0)), Lg(Nn(4))) : o \in {"+", "&&", "||"}}
           \union {<<"un", "neg", V(X)>>, <<"un", "not", Dot>>, <<"un", "void", Nn(0)>>}
           \union {<<"cond", Lg(Nn(0)), V(X), Lg(Nn(1))>>}
\* Those and others as operands, arguments, elements, keys and targets.
E2 == {Bin(o, a, e) : o \in Ops, a \in A0, e \in Sub} \union {Bin(o, e, a) : o \in Ops, a \in {V(X), Lg(Nn(3))}, e \in Sub}
   \union {<<"cond", e, Lg(Nn(1)), f>> : e \in Sub, f \in {V(X), <<"asg", V(X), Nn(6)>>}}
   \union {<<"cond", V(X), e, Nn(1)>> : e \in Sub}
   \union {<<"call", f, <<V(X), e, V(X), Nn(4), Nn(5)>>>> : e \in Sub, f \in {V(LOG), <<"dot", V(Y), B>>}}
   \union {<<"arr", <<V(X), e, <<"hole">>, V(X), e, <<"hole">>>>>> : e \in Sub}
   \union {<<"obj", <<<<A, V(X)>>, <<B, e>>, <<213, V(X)>>>>>> : e \in Sub}
   \union {<<"asg", V(X), e>> : e \in Sub} \union {<<"opasg", V(X), e>> : e \in Sub}
   \union {<<"asg", <<"idx", V(Y), e>>, <<"asg", V(Y), V(X)>>>> : e \in Sub} \union {<<"opasg", <<"idx", V(Y), V(X)>>, e>> : e \in Sub}
   \union {Bin(o, <<"asg", V(X), Bin("*", V(X), Nn(3))>>, e) : o \in Ops, e \in Mut}
   \union {Bin(o, l, e) : o \in Ops \union {"==="}, l \in {V(X), Bin(",", Nn(2), V(X))}, e \in Mut}
   \union {<<"un", o, e>> : o \in {"neg", "not", "typeof"}, e \in Sub}
   \union {<<"un", o, V(n)>> : o \in {"typeof", "del"}, n \in {X, LOG, 230}}
   \union {Bin(",", <<"asg", V(230), Nn(1)>>, <<"un", "del", V(230)>>)}
   \union {<<"new", f, <<V(X), e, V(X)>>>> : e \in Mut, f \in {V(LOG), <<"dot", V(Y), B>>, V(X)}}
   \union {<<"new", V(LOG), <<e, V(X), V(X), V(X), V(X)>>>> : e \in {V(Y), V(X)}} \union {<<"un", "del", Idx(e)>> : e \in Sub}
\* Modes: a function or a program, with 255 or only 3 directly addressed registers.
Fn == <<"function", 255>>
Fs == <<"function", 3>>
Pr == <<"program", 255>>
Ps == <<"program", 3>>
Progs1 == {<<m[1], m[2], Decl \o <<Ex(e)>>>> : m \in {Fs, Pr}, e \in E2}
     \union {<<m[1], m[2], Decl \o <<Ex(Lg(e))>>>> : m \in {Fn}, e \in E2}

Blk(q) == <<"block", q>>
Say(n) == Ex(Lg(Nn(n)))
\* Ways out of a statement, and statements that have to be left: every way out of every
\* statement in every kind of loop.
Jmp == {<<"brk", 0>>, Say(1), <<"brk", L1>>, <<"cont", L1>>, <<"ret", Nn(8)>>, <<"thr", Nn(9)>>}
If1(s) == <<"if", Bin("===", V(X), Nn(1)), s, None_>>
Inner == {Blk(<<If1(j), Say(2)>>) : j \in Jmp}
   \union {<<"try", <<If1(j), Say(2)>>, 203, <<Ex(Lg(V(203))), k>>, FALSE, <<>>>> : j \in Jmp, k \in {<<"cont", 0>>, Say(3)}}
   \union {<<"try", <<If1(j), Say(2)>>, n, <<Ex(<<"asg", V(X), V(X)>>), If1(k)>>, TRUE, <<If1(f), Say(4)>>>> :
             n \in {0, X}, j \in Jmp, k \in {<<"thr", Nn(6)>>}, f \in {<<"empty">>, <<"cont", 0>>, <<"thr", Nn(7)>>}}
   \union {<<"try", <<If1(j), Say(2)>>, X, <<Ex(Lg(V(X))), <<"if", Bin("===", V(X), Nn(8)), <<"thr", Nn(6)>>, None_>>>>, TRUE,
             <<If1(f), Ex(Lg(V(X)))>>>> : j \in {<<"brk", 0>>, <<"ret", Nn(8)>>, <<"thr", Nn(8)>>}, f \in {<<"empty">>, <<"thr", Nn(7)>>}}
   \union {<<"with", V(Y), Blk(<<Ex(<<"opasg", V(A), V(X)>>), <<"if", Bin("===", V(X), Nn(1)), j, Say(2)>>>>)>> : j \in Jmp}
   \union {<<"with", <<"obj", <<<<X, V(X)>>>>>>, Blk(<<Ex(Lg(<<"un", "del", V(X)>>)), <<"if", Bin("===", <<"opasg", V(X), Nn(1)>>, Nn(2)), j, Say(2)>>>>)>> : j \in Jmp}
   \union {<<"do", Blk(<<If1(j), Say(3)>>), Nn(0)>> : j \in Jmp}
   \union {<<"switch", V(X), <<<<<<"post", V(X)>>, <<Say(7)>>>>, <<<<"pre", V(X)>>, <<Say(8)>>>>, <<None_, <<Say(5), j>>>>>>>> :
             j \in {<<"brk", 0>>}}
   \union {<<"switch", V(X), <<<<Nn(0), <<Say(2)>>>>, <<Nn(1), <<Say(3), j>>>>, <<None_, <<Say(5), j>>>>, <<Nn(2), <<Say(6)>>>>>>>> : j \in Jmp}
Loops(b) == {<<"for", <<"asg", V(X), Nn(0)>>, Bin("<", V(X), Nn(3)), <<"post", V(X)>>, b>>,
             <<"while", Bin("<", <<"post", V(X)>>, Nn(4)), b>>,
             <<"do", b, Bin("<", <<"pre", V(X)>>, Nn(4))>>,
             <<"forin", V(X), <<"arr", <<Nn(4), Nn(5), Nn(6)>>>>, b>>}
Stm == UNION {{<<"label", L1, l>> : l \in Loops(b)} : b \in Inner}
Progs2 == {<<m[1], m[2], Decl \o <<s, Say(9)>>>> : m \in {Fn, Ps}, s \in Stm}
\* A program may not return.  A labelled try is left out (see README).
HasRet(ss) == <<"return", 0>> \in Range(Unparse(ss))
Progs == {p \in Progs1 \union Progs2 : p[1] = "function" \/ ~HasRet(p[3])}
=============================================================================

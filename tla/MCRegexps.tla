----------------------------- MODULE MCRegexps -----------------------------
(* The patterns and inputs that DukRegexp is run on by TLC: every quantifier, greedy
   and minimal, over atoms, captures, alternatives, lookaheads and empty groups. *)
EXTENDS DukRegexp

C(z) == <<"char", z>>
Rep(t, a, b, g) == <<"rep", t, a, b, g>>
Sq(q) == <<"seq", q>>
Cap(t) == <<"cap", t>>
Gr(t) == <<"group", t>>
A == C(5)
B == C(6)
Cls == <<"class", FALSE, <<<<3, 6>>>>>>
NCls == <<"class", TRUE, <<<<6, 6>>>>>>
Atoms == {A, <<"any">>, Cls, NCls}
Quants == {<<0, INF>>, <<1, INF>>, <<0, 1>>, <<2, 3>>, <<1, 2>>}
Inner == {A, Sq(<<A, B>>), <<"alt", A, Sq(<<A, B>>)>>, Sq(<<Rep(A, 0, INF, TRUE)>>), Sq(<<A, Cap(Rep(B, 0, 1, TRUE))>>),
          <<"alt", Cap(A), Cap(B)>>, Sq(<<<<"look", TRUE, Cap(A)>>, <<"any">>>>), Sq(<<<<"look", FALSE, B>>, <<"any">>>>), Sq(<<>>), <<"alt", A, Sq(<<>>)>>}
Q(t) == {Rep(t, q[1], q[2], g) : q \in Quants, g \in BOOLEAN}
Reps == UNION {Q(t) : t \in Atoms \union {Cap(i) : i \in Inner} \union {Gr(i) : i \in Inner}}
Trees == {Sq(<<r, B>>) : r \in Reps} \union {Sq(<<r, <<"back", 1>>>>) : r \in {z \in Reps : Groups(z) > 0}}
   \union {<<"alt", Sq(<<r, B>>), A>> : r \in Reps} \union {Sq(<<<<"assert", k>>, r, <<"assert", "END">>>>) : k \in {"START", "WB", "NWB"}, r \in Q(Gr(<<"alt", A, Sq(<<A, B>>)>>))}
   \union {Cap(r) : r \in Q(Gr(Sq(<<A, Cap(Rep(B, 0, 1, TRUE)), A, B, A>>)))} \union {<<"alt", Cap(A), <<"alt", Sq(<<B, A>>), Sq(<<Cls, B>>)>>>>}
   \union {Rep(Gr(Rep(Gr(<<"alt", Sq(<<A, B, A>>), Cap(B)>>), 1, 2, g)), 1, INF, g) : g \in BOOLEAN}
Ins == {<<5, 6>>, <<5, 5, 6>>, <<6, 5, 6, 5>>, <<1, 6, 0, 2>>}
\* Long enough for the recursion limit (captures) and the step limit (alternatives that
\* backtrack) without a loop that may match nothing.
Long == {<<5, 5, 5, 5, 5, 5, 5, 5, 5>>}
LongTrees == {Sq(<<Rep(i, 1, INF, g), B>>) : g \in BOOLEAN, i \in {A, Gr(<<"alt", A, Sq(<<A, B>>)>>), Cap(<<"alt", A, A>>), Gr(<<"alt", A, A>>)}}
Pats == {<<t, {}, Ins>> : t \in Trees} \union {<<t, {"i", "g", "m"}, Ins>> : t \in {z \in Trees : z[1] # "alt"}}
   \union {<<t, {}, Long>> : t \in LongTrees}
=============================================================================

----------------------------- MODULE MCJson -----------------------------
(* The values DukJson writes and the texts it reads for TLC: shared, cyclic and odd
   objects, getters and toJSON methods that change what they are part of, every text of
   up to five tokens. *)
EXTENDS DukJson

O(class, ents, arr) == [class |-> class, ents |-> ents, arr |-> arr, apart |-> class = "Array", covered |-> TRUE, inh |-> FALSE,
                        tj |-> "none", tjret |-> UNDEF, tjhits |-> 0, inner |-> <<"num", 2>>]
E(k, v) == [k |-> k, v |-> v, e |-> TRUE, g |-> "none", hits |-> 0]
G(k, v, h) == [k |-> k, v |-> v, e |-> TRUE, g |-> "get", hits |-> h]
Hid(k, v) == [E(k, v) EXCEPT !.e = FALSE]
A == <<1>>
B == <<9>>
Leafs == {UNDEF, <<"null">>, <<"bool">>, <<"num", 1>>, <<"nzero">>, <<"nan">>, <<"inf">>, <<"str", <<1, 2>>>>,
          <<"str", <<3, 4, 5>>>>, <<"str", <<6, 7>>>>, <<"str", SYM>>, <<"ptr", 1>>, <<"lf">>, <<"buf", <<3, 4>>>>, <<"buf", <<>>>>}
Ref(i) == <<"obj", i>>
Arr(q) == O("Array", <<>>, q)
Ob(q) == O("Object", q, <<>>)
Odd == {O("Function", <<>>, <<>>), O("Number", <<>>, <<>>), [O("Pointer", <<>>, <<>>) EXCEPT !.inner = <<"ptr", 2>>],
        [O("String", <<>>, <<>>) EXCEPT !.inner = <<"str", <<2>>>>], [O("Buffer", <<E(<<10>>, <<"num", 3>>)>>, <<>>) EXCEPT !.inner = <<3>>],
        [O("Buffer", <<>>, <<>>) EXCEPT !.covered = FALSE], [Ob(<<E(A, <<"num", 1>>)>>) EXCEPT !.apart = TRUE], O("BigInt", <<>>, <<>>),
        [Ob(<<>>) EXCEPT !.tj = "call", !.tjret = <<"num", 4>>], [Ob(<<>>) EXCEPT !.tj = "call", !.tjret = UNDEF, !.tjhits = 1],
        [Ob(<<E(A, <<"num", 1>>)>>) EXCEPT !.tj = "notfn"], [Arr(<<<<"num", 1>>>>) EXCEPT !.apart = FALSE],
        [Arr(<<<<"hole">>, <<"num", 1>>>>) EXCEPT !.inh = TRUE], Arr(<<<<"hole">>, UNDEF>>), Arr(<<>>), Ob(<<>>),
        [Ob(<<>>) EXCEPT !.tj = "call", !.tjret = Ref(1)]}
Tops(v) == {Ob(<<E(A, v), E(B, v)>>), Arr(<<v, v>>), Ob(<<E(<<11>>, v), E(<<10>>, <<"num", 0>>)>>), Ob(<<Hid(A, v), E(SYM, v), E(B, v)>>),
            Ob(<<G(A, v, 0), E(B, v)>>), Ob(<<G(A, v, 1), E(B, v)>>), Arr(<<<<"hole">>, v>>), Ob(<<E(<<1, 2>>, v)>>)}
Flat == {<<t, Ob(<<E(A, <<"num", 3>>)>>)>> : t \in UNION {Tops(v) : v \in Leafs \union {Ref(1), Ref(2)}}}
Nest == {<<t, o>> : t \in UNION {Tops(v) : v \in {Ref(2)}}, o \in Odd}
Deep == {<<t, m, b>> : t \in {Ob(<<E(A, Ref(2)), E(B, Ref(3))>>), Arr(<<Ref(2), Ref(2)>>)},
                       m \in {Ob(<<E(A, Ref(3)), E(B, Ref(3))>>), Arr(<<Ref(3), Ref(3)>>), Arr(<<Ref(3), Ref(1)>>)},
                       b \in {Ob(<<E(A, Ref(2))>>), Ob(<<>>), Arr(<<Ref(3)>>), Ob(<<G(A, <<"num", 1>>, 1)>>), Arr(<<Ref(1)>>)}}
        \union {<<Ob(<<E(A, Ref(2))>>), Arr(<<Ref(3), Ref(3)>>), Ob(<<E(A, Ref(4)), E(B, Ref(4))>>), x>> : x \in {Arr(<<>>), Arr(<<Ref(3)>>), Arr(<<Ref(4)>>), Arr(<<Ref(5)>>)}}
Heaps == Flat \union Nest \union Deep
Reps == {{}, {<<<<"num", 1>>, UNDEF>>}, {<<UNDEF, <<"num", 7>>>>}}
MCCases == {[heap |-> h \o <<Ob(<<>>)>>, root |-> r, ext |-> x, gap |-> g, ascii |-> a, noquote |-> n, rep |-> p, list |-> <<>>] :
             h \in Heaps, r \in {Ref(1)}, x \in {"json", "jx", "jc"}, g \in {TRUE, FALSE}, a \in {TRUE, FALSE}, n \in {FALSE}, p \in {{}}}
   \union {[heap |-> h \o <<Ob(<<>>)>>, root |-> r, ext |-> x, gap |-> FALSE, ascii |-> FALSE, noquote |-> x = "jx", rep |-> p, list |-> l] :
             h \in Heaps, r \in {Ref(1)}, x \in {"json", "jx"},  p \in Reps, l \in {<<>>}}
   \union {[heap |-> h \o <<Ob(<<>>)>>, root |-> Ref(1), ext |-> "json", gap |-> FALSE, ascii |-> FALSE, noquote |-> FALSE, rep |-> {}, list |-> <<B, A>>] : h \in Heaps}
   \union {[heap |-> <<Ob(<<>>)>>, root |-> r, ext |-> x, gap |-> TRUE, ascii |-> TRUE, noquote |-> FALSE, rep |-> {}, list |-> <<>>] : r \in Leafs, x \in {"json", "jx", "jc"}}
Nested(n, q) == [i \in 1..n |-> <<"[">>] \o q \o [i \in 1..n |-> <<"]">>]
Tk == {<<"{">>, <<"}">>, <<"[">>, <<"]">>, <<",">>, <<":">>, S0, N0}
MCTexts == {[text |-> q, ext |-> "json", rev |-> {}] : q \in UNION {[1..n -> Tk] : n \in 0..5}}
   \union {[text |-> q, ext |-> "json", rev |-> {}] : q \in Vals(6) \union Vals(7)}
   \union {[text |-> q, ext |-> "json", rev |-> r] : q \in Vals(5) \union Vals(6) \union Vals(7),
             r \in {{<<N0, UNDEF>>}, {<<N0, <<"num", 2>>>>, <<<<"arr", <<>>>>, UNDEF>>}, {<<<<"arr", <<<<"hole">>>>>>, N0>>, <<N0, UNDEF>>}}}
   \union {[text |-> Nested(n, q), ext |-> "json", rev |-> {<<N0, <<"num", 2>>>>}] : n \in 4..6, q \in {<<>>, <<N0>>, <<S0>>}}
=============================================================================

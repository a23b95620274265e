-------------------------------- MODULE MCCbor ------------------------------
(* The values DukCbor writes and the bytes it reads for TLC: numbers at the edges of every
   encoding, strings and maps around the end of the buffer, getters that drop what follows,
   every short byte string over the initial bytes that matter, arguments of every width, and all half floats. *)
EXTENDS DukCbor

Rep(n) == [i \in 1..n |-> 1]
Fps == {v \in {<<"fp", s, e, m>> : s \in {0, 1}, e \in {-40, -16, -15, -14, -8, -7, -6, -1, 0, 5, 7, 8, 15, 16, 19, 20, 30},
                m \in {0, 1, 2^9, 2^10, 2^14, 2^15, 2^19, 2^20 - 2^15}} : Canon(v) = v}
Ints == {<<"int", n>> : n \in {0, 1, 23, 24, 31, 32, 1023, 1024, 2^20 - 1, -1, -24, -25, -32, -33, -1024, -1025, -(2^20)}}
Leaves == Fps \union Ints \union {<<"undef">>, <<"null">>, <<"true">>, <<"false">>, <<"nzero">>, <<"nan">>, <<"inf", 0>>, <<"inf", 1>>, <<"lightfunc">>, <<"ptr", <<5>>>>}
   \union {<<k, q>> : k \in {"str", "buf", "bufobj"}, q \in {Rep(n) : n \in 0..35} \union {<<31>>, <<1, 30>>}} \union {<<"str", <<30, 1>>>>}
Few == {<<"int", 1>>, <<"nzero">>, UNDEF, <<"arr", <<>>>>, <<"obj", <<>>>>} \union {<<"str", Rep(n)>> : n \in {0, 1, 4, 5, 6, 7, 9, 10, 20}}
Wrapped(w) == Few \union {<<w, v>> : v \in Few}
Arrs(d) == {<<"arr", q>> : q \in UNION {[1..n -> d] : n \in 0..2}}
Objs(d) == {<<"obj", [i \in DOMAIN q |-> <<<<i>>, q[i]>>]>> : q \in UNION {[1..n -> d] : n \in 0..2}}
  \union {<<"obj", <<<<<<1>>, a>>, <<<<>>, UNDEF>>, <<<<2, 3>>, b>>>>>> : a \in d, b \in d}
One == Arrs(Wrapped("cut")) \union Objs(Wrapped("del"))
Tail1(z) == <<"obj", <<<<<<1>>, <<"del", <<"arr", <<z>>>>>>>>, <<<<2>>, z>>>>>>
Deep == {<<"arr", <<<<"cut", Tail1(z)>>, y>>>> : z \in {<<"arr", <<>>>>, <<"bufobj", <<1>>>>, <<"int", 30>>}, y \in Few}
MCTrees == Leaves \union One \union Deep
A == {0, 1, 30, 32, 24, 25, 64, 65, 95, 96, 97, 127, 128, 129, 159, 160, 161, 191, 192, 216, 244, 247, 255}
Short == UNION {[1..n -> A] : n \in 0..3}
Nested == {<<159>> \o x \o <<255>> : x \in [1..2 -> A]} \union {<<191>> \o x \o <<255>> : x \in [1..3 -> A \ {0, 25, 95, 96, 127, 191, 192, 216}]}
  \union {<<161>> \o x : x \in [1..2 -> A]} \union {<<127>> \o x \o <<255>> : x \in [1..2 -> A]} \union {<<95>> \o x \o <<255>> : x \in [1..2 -> A]}
Halves == {q \o <<249, c, m>> : q \in {<<>>, <<129>>}, c \in 0..31, m \in 0..31}
\* Arguments of 2, 4 and 8 bytes that fit, that say as much as 32 bits can, and that do not fit,
\* with fewer bytes, as many or more than they ask for
Wide == {Digits(n, 2^k) : n \in {0, 1, 2, U32 - 1, U32, U32 + 2}, k \in 1..3}
Wides == {<<32 * mt + 24 + Log2(Len(d))>> \o SubSeq(d, 1, Len(d) - cut) \o rest :
            mt \in 0..6, d \in Wide, cut \in {0, 1}, rest \in {<<>>, <<1>>, <<1, 2>>, <<97, 1, 2, 64>>}}
  \union {<<h>> \o <<32 * mt + 24 + Log2(Len(d))>> \o d \o <<1, 255>> : h \in {95, 127, 129, 159}, mt \in 2..5, d \in Wide}
MCInputs == Short \union Nested \union Halves \union Wides
=============================================================================

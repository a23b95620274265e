------------------------------ MODULE MCArray ------------------------------
(* Arrays for DukArray: each kind, with every pattern of holes, with values that repeat,
   and of lengths at the limits of 32 and 31 bits. *)
EXTENDS DukArray

Obj(kind, asize, q) == [kind |-> kind, asize |-> asize, len |-> Len(q),
                        e |-> [i \in {k - 1 : k \in {j \in DOMAIN q : ~IsHole(q[j])}} |-> q[i + 1]]]
Patterns == UNION {{[k \in 1..n |-> IF k \in S THEN Num(k) ELSE HOLE] : S \in SUBSET (1..n)} : n \in 0..3}
Mixed == [1..3 -> {Num(1), Num(2), UNDEF, HOLE}]
  \union {<<Num(2), HOLE, UNDEF, Num(1)>>, <<Num(2), Num(1), Num(2), Num(1)>>}
Long(n) == {[k \in 1..n |-> IF k = n THEN Num(3) ELSE HOLE], [k \in 1..n |-> IF k = 2 THEN Num(1) ELSE HOLE]}
MCStarts == {Obj("part", Len(q) + d, q) : q \in Patterns, d \in {0, 1}} \union {Obj("slow", 0, q) : q \in Patterns}
  \union {Obj("like", 0, q) : q \in Patterns \union Long(W - 1)} \union {Obj("part", 4, q) : q \in Mixed}
  \union {Obj("slow", 0, q) : q \in Long(W - 1) \union Long(W - 2) \union Long(W \div 2)}
  \union {[Obj("part", 1, <<Num(1)>>) EXCEPT !.len = 3]}

\* What concat is given: values, an array with a hole, one that asks not to be spread, an
\* array-like object that asks to be, a proxy that hides an index, lengths at the limit
Piece(array, spread, proxy, len, e) ==
  <<"obj", [array |-> array, spread |-> spread, proxy |-> proxy, len |-> len, e |-> e, has |-> {0, 2}]>>
Three == [i \in {0, 1} |-> Num(i + 4)]
MCPieces == {<<>>, <<UNDEF>>, <<Num(7), Num(8)>>,
             <<Piece(TRUE, "unset", FALSE, 3, Three), Num(7)>>,
             <<Piece(TRUE, "no", FALSE, 3, Three)>>, <<Piece(FALSE, "unset", FALSE, 3, Three)>>,
             <<Piece(FALSE, "yes", FALSE, 3, Three), Piece(TRUE, "unset", FALSE, 1, <<>>)>>,
             <<Piece(TRUE, "unset", TRUE, 3, Three)>>,
             <<Piece(FALSE, "yes", FALSE, W, <<>>)>>, <<Piece(FALSE, "yes", FALSE, W + 1, Three)>>}
=============================================================================

---------------------------- MODULE DukPc2line ----------------------------
(***************************************************************************)
(* The pc2line data of a compiled function (duk_hobject_pc2line.c): a      *)
(* header entry [line, offset] for every SKIP instructions and, from each  *)
(* offset on, a bit stream of line differences, padded to whole bytes.     *)
(* The widths are parameters: BYTE bits make a byte, a short difference    *)
(* takes MID bits, a whole line 2 * HALF bits.                             *)
(***************************************************************************)
EXTENDS Integers, Sequences, SequencesExt, FiniteSets, FiniteSetsExt

CONSTANTS SKIP, BYTE, MID, HALF,
          Lines,        \* line numbers of instructions
          MaxLength     \* instructions of a function

VARIABLES instrs, pc, bits, buf, truncated, query

vars == <<instrs, pc, bits, buf, truncated, query>>

CLOSED == <<-1>>                                  \* no run is being encoded
Bits(v, n) == [i \in 1..n |-> (v \div 2^(n - i)) % 2]
Number(b) == FoldLeft(LAMBDA v, x : 2 * v + x, 0, b)

-----------------------------------------------------------------------------
(* Packing.                                                                 *)

\* DUK_PC2LINE_MAX_DIFF_LENGTH
MaxDiffLength == ((SKIP - 1) * (2 * HALF + 3) + BYTE - 1) \div BYTE
\* The code of one difference
Code(line, next) ==
  LET d == next - line IN
  IF d = 0 THEN <<0>> ELSE IF d \in 1..4 THEN <<1, 0>> \o Bits(d - 1, 2)
  ELSE IF d >= -(2^(MID - 1)) /\ d < 2^(MID - 1) THEN <<1, 1, 0>> \o Bits(d + 2^(MID - 1), MID)
  ELSE <<1, 1, 1>> \o Bits(next \div 2^HALF, HALF) \o Bits(next, HALF)
\* duk_be_finish: a stream that ends on a byte boundary gets a byte of zeroes
Finish(b) == b \o [i \in 1..(BYTE - (Len(b) % BYTE)) |-> 0]
\* The encoder's bytes stop at the length it was given
Written(b) == SubSeq(b, 1, Min({Len(b), MaxDiffLength * BYTE}))

Init == /\ instrs \in UNION {[1..n -> Lines] : n \in 1..MaxLength}
        /\ pc = 0 /\ bits = <<>> /\ buf = [limit |-> Len(instrs), hdr |-> <<>>, data |-> <<>>]
        /\ truncated = FALSE /\ query = [pc |-> -1, line |-> 0]

\* A header entry begins each run
BeginRun == /\ pc < Len(instrs) /\ pc % SKIP = 0 /\ (pc = 0 \/ bits = CLOSED)
            /\ buf' = [buf EXCEPT !.hdr = Append(@, <<instrs[pc + 1], Len(buf.data) \div BYTE>>)]
            /\ bits' = <<>> /\ pc' = pc + 1
            /\ UNCHANGED <<instrs, truncated, query>>
EncodeDiff == /\ pc % SKIP # 0 /\ pc < Len(instrs)
              /\ bits' = bits \o Code(instrs[pc], instrs[pc + 1]) /\ pc' = pc + 1
              /\ UNCHANGED <<instrs, buf, truncated, query>>
\* End of a run or of the bytecode
EndRun == /\ pc > 0 /\ (pc % SKIP = 0 \/ pc = Len(instrs)) /\ bits # CLOSED
          /\ LET b == Finish(bits) IN
             /\ buf' = [buf EXCEPT !.data = @ \o Written(b)]
             /\ truncated' = (truncated \/ Len(b) > Len(Written(b)))
          /\ bits' = CLOSED
          /\ UNCHANGED <<instrs, pc, query>>
Packed == pc = Len(instrs) /\ bits = CLOSED

-----------------------------------------------------------------------------
(* Lookup: duk__hobject_pc2line_query_raw.                                  *)

\* duk_bd_decode: zeroes are shifted in after the end
Decode(p, n) == Number([i \in 1..n |-> IF p + i <= Len(buf.data) THEN buf.data[p + i] ELSE 0])
\* One difference at bit x.p
DecodeDiff(x) ==
  IF Decode(x.p, 1) = 0 THEN [x EXCEPT !.p = @ + 1]
  ELSE IF Decode(x.p + 1, 1) = 0 THEN [p |-> x.p + 4, line |-> x.line + Decode(x.p + 2, 2) + 1]
  ELSE IF Decode(x.p + 2, 1) = 0 THEN [p |-> x.p + 3 + MID, line |-> x.line + Decode(x.p + 3, MID) - 2^(MID - 1)]
  ELSE [p |-> x.p + 3 + 2 * HALF, line |-> Decode(x.p + 3, HALF) * 2^HALF + Decode(x.p + 3 + HALF, HALF)]
LimitIncluded(n) ==                               \* mutant of QueryRaw: one past the end is looked up
  IF n > buf.limit THEN 0
  ELSE LET h == buf.hdr[Min({(n \div SKIP) + 1, Len(buf.hdr)})] IN
       FoldLeft(LAMBDA x, i : DecodeDiff(x), [p |-> h[2] * BYTE, line |-> h[1]], [i \in 1..(n % SKIP) |-> i]).line
QueryRaw(n) ==
  IF n >= buf.limit THEN 0
  ELSE LET h == buf.hdr[(n \div SKIP) + 1] IN
       IF h[2] > Len(buf.data) \div BYTE THEN 0
       ELSE FoldLeft(LAMBDA x, i : DecodeDiff(x), [p |-> h[2] * BYTE, line |-> h[1]], [i \in 1..(n % SKIP) |-> i]).line
Query == /\ Packed /\ query.pc = -1
         /\ \E n \in 0..MaxLength : query' = [pc |-> n, line |-> QueryRaw(n)]
         /\ UNCHANGED <<instrs, pc, bits, buf, truncated>>

Next == BeginRun \/ EncodeDiff \/ EndRun \/ Query
Spec == Init /\ [][Next]_vars

-----------------------------------------------------------------------------

(* The encoder is within the function and writes bits.                      *)
TypeOK == /\ pc \in 0..Len(instrs) /\ truncated \in BOOLEAN /\ query.pc \in -1..MaxLength
          /\ \A i \in DOMAIN buf.data : buf.data[i] \in {0, 1}

(* The space made for a run holds its longest encoding, padding included    *)
(* (the assertion on be_ctx->truncated).                                    *)
RunFits == ~truncated

(* A program counter maps back to the line its instruction was compiled     *)
(* from, across runs and through every width of difference; one out of the  *)
(* bytecode maps to zero.                                                   *)
LineExact == query.pc # -1 => query.line = IF query.pc < Len(instrs) THEN instrs[query.pc + 1] ELSE 0
=============================================================================

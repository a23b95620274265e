------------------------------ MODULE MCLanguage ------------------------------
(***************************************************************************)
(* Small instances of the components that carry out the language, checked  *)
(* side by side: strings, property tables, compiled code, regular          *)
(* expressions, JSON, CBOR, Map and Set, arrays, the line table, and the   *)
(* resolution of call targets.                                             *)
(* A behaviour is one of the instance that part names.  The string table,  *)
(* and Map and Set, have their own variables, which stay as they begin in  *)
(* the other parts; the other instances share x1, ..., x9, and those an    *)
(* instance does not use stay 0.                                           *)
(***************************************************************************)
EXTENDS DukStrings, DukMapSet, TLC

CONSTANTS keyA, keyB, val1, val2, g1, UNSET,   \* names, values and a getter
          text1, text2, text3, lit1, lit2, adr1, adr2,   \* texts, literals and addresses of strings
          KeyHash, Programs, RegexpPatterns, JsonCases, Texts, BindArgs, CallArgs,
          ThisArgs, CborTrees, Encodings, Starts, Pieces, ParseStmt(_), ProgramMeaning(_, _)

VARIABLES part, x1, x2, x3, x4, x5, x6, x7, x8, x9

From7 == <<x7, x8, x9>>
From4 == <<x4, x5, x6, From7>>
X == <<x1, x2, x3, From4>>
language == <<part, X, vars, mapVars>>

\* Two indices and two names that share a hash; keyB and index 1 inherited and read-only.
\* An array part with more holes than none is sparse when it is compacted or grows to index 1.
Desc(has, on, v, get) == [has |-> has, on |-> on, v |-> v, get |-> get, set |-> UNSET]
Props == INSTANCE DukProps WITH
  UNDEF <- UNSET,
  MaxIndex <- 1, Names <- {keyA, keyB}, Values <- {val1},
  Descs <- {Desc({"V"}, {}, val2, UNSET), Desc({"W"}, {}, UNSET, UNSET), Desc({"G", "S"}, {}, UNSET, g1)},
  Literal <- [k |-> keyB, p |-> [f |-> {"A", "E", "C"}, v |-> UNSET, get |-> UNSET, set |-> g1]],
  Proto <- [k \in {keyB, 1} |-> [f |-> {"E"}, v |-> val1, get |-> UNSET, set |-> UNSET]],
  HashLimit <- 2, EGrowAdd <- 2, EGrowDiv <- 2, AGrowAdd <- 4, AGrowDiv <- 2, Unit <- 1,
  AbandonLimit <- 1, AbandonMinSize <- 2, FastLimit <- 0, MaxSlots <- 4, MaxOps <- 4, MaxFin <- 1,
  o <- x1, ret <- x2, ops <- x3, own <- x4

Code == INSTANCE MCPrograms WITH
  MaxInit <- 2, MaxPeephole <- 3, MaxSteps <- 300, prog <- x1, c <- x2, v <- x3

\* Encoded values of 16 and 64 take a second and a third cell.
Regexp == INSTANCE MCRegexps WITH
  Patterns <- RegexpPatterns,
  U1 <- 16, U2 <- 64, RecLimit <- 45, StepLimit <- 400, MaxCopies <- 10, MaxExec <- 2,
  re <- x1, rc <- x2, in <- x3, last <- x4, off <- x5, x <- x6, out <- x7, calls <- x8

Json == INSTANCE MCJson WITH
  Cases <- JsonCases, LoopArray <- 2, EncLimit <- 4, DecLimit <- 5, j <- x1, phase <- x2, res <- x3

\* Differences of every width: none, one and two bits, a byte, and an absolute line.
Pc2line == INSTANCE DukPc2line WITH
  SKIP <- 3, BYTE <- 4, MID <- 3, HALF <- 3, Lines <- {0, 1, 2, 5, 9, 60}, MaxLength <- 5,
  instrs <- x1, pc <- x2, bits <- x3, buf <- x4, truncated <- x5, query <- x6

\* A sloppy and a strict function, and the functions that redirect calls.
Target == INSTANCE DukCallTarget WITH
  Fns <- <<[kind |-> "plain", strict |-> FALSE, con |-> TRUE],
           [kind |-> "plain", strict |-> TRUE, con |-> FALSE], [kind |-> "call"],
           [kind |-> "apply"], [kind |-> "rapply"], [kind |-> "rconstruct"], [kind |-> "eval"]>>,
  Traps <- {-1, 0, 2}, MaxFns <- 9,
  fns <- x1, afns <- x2, call <- x3, stk <- x4, flags <- x5, first <- x6, out <- x7, want <- x8

\* Data bytes below 32, so that integers of every size are near one another.
Cbor == INSTANCE MCCbor WITH
  BASE <- 32, MapSmall <- 2, InitCap <- 10, EncLimit <- 3, DecLimit <- 3, Trees <- CborTrees,
  Inputs <- Encodings, job <- x1, out <- x2, res <- x3

\* Lengths end at 9, and at 4 for the methods that use signed indices.
Arrays == INSTANCE MCArray WITH
  W <- 10, MidJoin <- 2, Prealloc <- 2, MaxOps <- 1, MaxChanges <- 1,
  Items <- {<<>>, <<<<"undef">>>>, <<<<"num", 7>>, <<"num", 8>>>>},
  Froms <- {-3, -1, 0, 2, 5}, Counts <- {<<"num", n>> : n \in {-1, 0, 1, 2, 9}},
  o <- x1, want <- x2, wret <- x3, ret <- x4, job <- x5, ops <- x6, past <- x7

-----------------------------------------------------------------------------
(* What the configuration gives the remaining constants.                   *)

\* The programs, patterns, values and inputs do not depend on what an instance runs.
ProgramData == INSTANCE MCPrograms WITH
  Programs <- {}, ParseStmt <- LAMBDA s : s, ProgramMeaning <- LAMBDA p, q : p, MaxInit <- 0, MaxPeephole <- 0, MaxSteps <- 0, prog <- 0, c <- 0, v <- 0
RegexpData == INSTANCE MCRegexps WITH
  Patterns <- {}, U1 <- 16, U2 <- 64, RecLimit <- 0, StepLimit <- 0, MaxCopies <- 0, MaxExec <- 0,
  re <- 0, rc <- 0, in <- 0, last <- 0, off <- 0, x <- 0, out <- 0, calls <- 0
JsonData == INSTANCE MCJson WITH
  Cases <- {}, Texts <- {}, LoopArray <- 0, EncLimit <- 0, DecLimit <- 0, j <- 0, phase <- 0, res <- 0
CborData == INSTANCE MCCbor WITH
  BASE <- 32, MapSmall <- 0, InitCap <- 0, EncLimit <- 0, DecLimit <- 0, Trees <- {}, Inputs <- {},
  job <- 0, out <- 0, res <- 0
ArrayData == INSTANCE MCArray WITH
  W <- 10, MidJoin <- 0, Prealloc <- 0, MaxOps <- 0, MaxChanges <- 0, Items <- {}, Pieces <- {}, Froms <- {}, Counts <- {},
  Starts <- {}, o <- 0, want <- 0, wret <- 0, ret <- 0, job <- 0, ops <- 0, past <- 0

\* Three texts for two addresses; text2 and text3 share a chain while the table is small.
MCAddr == {adr1, adr2}
MCText == {text1, text2, text3}
MCHash == text1 :> 0 @@ text2 :> 2 @@ text3 :> 3
MCData == text1 :> <<0, 0>> @@ text2 :> <<0, 1, 0>> @@ text3 :> <<0, 0, 1>>
MCLit == lit1 :> text1 @@ lit2 :> text2
MCLitKey == lit1 :> 0 @@ lit2 :> 0

\* The two zeros, a string and one that goes on after it with a NUL, two plain pointers;
\* objects have one address (Addrs), used again and again.
MCScalars == {<<1, 0>>, <<1, 0, 1>>, <<2, 8>>, <<2, 8, 0, 9>>, <<4, 1>>, <<4, 2>>}

MCKeyHash == [k \in 0..1 \union {keyA, keyB} |-> IF k \in {keyA, keyB} THEN 1 ELSE 0]
MCProgs == ProgramData!Progs
\* The compiler and the meaning are parameters only because TLC keeps statistics of each
\* place a definition is used in, and these two have too many.
MCParseStmt(s) == LET t == Code!Stmt(s) IN t
MCProgramMeaning(p, regs) == LET r == Code!Ref(p, regs) IN r
MCPatterns == RegexpData!Pats
MCCases == JsonData!MCCases
MCTexts == JsonData!MCTexts
MCTrees == CborData!MCTrees
MCEncodings == CborData!MCInputs
MCStarts == ArrayData!MCStarts
MCPieces == ArrayData!MCPieces
V2 == <<"v", 2>>
Fun(i) == <<"f", i>>
MCBindArgs == {<<>>, <<Fun(1), <<"a", <<Fun(2), V2>>>>>>}
MCCallArgs == {<<>>, <<Fun(8), Fun(9), V2>>, <<V2, <<"a", <<Fun(9)>>>>>>, <<Fun(9), <<"a", <<V2>>>>, Fun(9)>>}
MCThisArgs == {<<"v", 0>>, <<"v", 1>>}

-----------------------------------------------------------------------------
Zero7 == x7 = 0 /\ x8 = 0 /\ x9 = 0
Zero4 == x4 = 0 /\ x5 = 0 /\ x6 = 0 /\ Zero7

OtherInit ==
  \/ part = "props" /\ Props!Init /\ x5 = 0 /\ x6 = 0 /\ Zero7
  \/ part = "code" /\ Code!Init /\ Zero4
  \/ part = "regexp" /\ Regexp!Init /\ x9 = 0
  \/ part = "json" /\ Json!Init /\ Zero4
  \/ part = "pc2line" /\ Pc2line!Init /\ Zero7
  \/ part = "target" /\ Target!Init /\ x9 = 0
  \/ part = "cbor" /\ Cbor!Init /\ Zero4
  \/ part = "arrays" /\ Arrays!Init /\ x8 = 0 /\ x9 = 0
  \/ part \in {"strings", "mapset"} /\ x1 = 0 /\ x2 = 0 /\ x3 = 0 /\ Zero4

LanguageInit == Init /\ MapInit /\ OtherInit

LanguageNext ==
  \/ part = "props" /\ Props!Next /\ UNCHANGED <<part, vars, mapVars, x5, x6, From7>>
  \/ part = "code" /\ Code!Next /\ UNCHANGED <<part, vars, mapVars, From4>>
  \/ part = "regexp" /\ Regexp!Next /\ UNCHANGED <<part, vars, mapVars, x9>>
  \/ part = "json" /\ Json!Next /\ UNCHANGED <<part, vars, mapVars, From4>>
  \/ part = "mapset" /\ MapNext /\ UNCHANGED <<part, X, vars>>
  \/ part = "pc2line" /\ Pc2line!Next /\ UNCHANGED <<part, vars, mapVars, From7>>
  \/ part = "target" /\ Target!Next /\ UNCHANGED <<part, vars, mapVars, x9>>
  \/ part = "cbor" /\ Cbor!Next /\ UNCHANGED <<part, vars, mapVars, From4>>
  \/ part = "arrays" /\ Arrays!Next /\ UNCHANGED <<part, vars, mapVars, x8, x9>>
  \/ part = "strings" /\ Next /\ UNCHANGED <<part, X, mapVars>>

LanguageSpec == LanguageInit /\ [][LanguageNext]_language

-----------------------------------------------------------------------------
(* The properties of the parts.                                            *)

\* Entry part, array part and hash part together implement the object of the language
\* (ObjectSpec): each step of duk_hobject_props.c is a step of it or leaves it as it is,
\* except that arrays fill a hole past the prototype's index properties, freezing leaves the
\* length writable and a definition can be seen half-way (steps of ObjectSpec that E5 does not
\* have); and what was sealed or frozen stays so.
ImplementsObject ==
  /\ part = "props" => Props!Abs!Init
  /\ [][part = "props" => (Props!Abs!Next \/ UNCHANGED Props!Abs!vars) /\ Props!SealedStays]_language

\* However often the table was rebuilt: every live entry is found through the hash part and
\* probing ends; an element is in one part only and the fast path reads and writes what the
\* slow path does, inherited index properties aside; elements are below the length; keys are
\* enumerated indices first and then names in the order of creation; isFrozen and isSealed
\* tell the truth of everything but an array's length; and only a finalizer that changes the
\* object can lead the second half of a definition astray.
TablesSound == part = "props" => /\ Props!HashExact /\ Props!FastPathAgrees /\ Props!LengthCovers
                                 /\ Props!EnumerationOrder /\ Props!FrozenKnown /\ Props!TornByFinalizer

\* Every program is accepted; its code makes the calls, in the order, with the outcome and
\* the effects that ECMAScript gives the program, and ends with no catcher left behind.
CodeAgrees == part = "code" => Code!Accepted /\ Code!CompiledAgrees /\ Code!CatchersBalanced

\* exec finds what ECMAScript's matcher finds, captures and lastIndex included; a failed
\* attempt leaves no saved pointer set, and the matcher recurses no deeper than the
\* documented costs of the constructs, so that it meets the limit only when they exceed it.
RegexpAgrees == part = "regexp" =>
  /\ Regexp!TypeOK /\ Regexp!MatchAgrees /\ Regexp!FailureRestores
  /\ Regexp!DepthAsDocumented /\ Regexp!LastIndexFollows

\* The fast path of JSON.stringify writes what the slow path writes; the text is well formed
\* whatever user code does to the objects being written and reads back as what the value
\* means; cyclic input alone is refused; JSON.parse accepts exactly the grammar, and the
\* reviver maps the tree bottom up.
JsonAgrees == part = "json" =>
  /\ Json!TypeOK /\ Json!FastAgrees /\ Json!RoundTrips /\ Json!WellFormed
  /\ Json!CyclesExact /\ Json!AcceptsJson /\ Json!RevivesBottomUp

\* What CBOR.encode writes, within its buffer and whatever getters do meanwhile, decodes to
\* what the value means, and the decoder accepts the heads, chunks and containers that RFC
\* 7049 gives a meaning and this build can represent, and no others.
CborAgrees == part = "cbor" => Cbor!CborRoundTrips /\ Cbor!CborInBounds /\ Cbor!CborAccepts

\* Array methods leave the elements, holes and length ECMAScript describes, on fast and slow
\* paths and up to the 32 bit limits, past which they throw; sort permutes whatever the
\* compare function answers or does, with undefined and holes last; and iterations visit in order whatever callbacks do.
ArraysAgree == part = "arrays" => /\ Arrays!ArraysAgree /\ Arrays!ElementsInside
                                  /\ Arrays!SortSound /\ Arrays!IterationInOrder

\* A program counter maps back to the line its instruction was compiled from, and the space
\* made for a run of the line table holds its longest encoding.
LinesExact == part = "pc2line" => Pc2line!TypeOK /\ Pc2line!RunFits /\ Pc2line!LineExact

\* The function, this, arguments and default prototype of a call, or its error, are what
\* [[Call]] or [[Construct]] reaches through bound functions, call, apply and proxies, and
\* bind leaves no chain of bound functions to walk.
TargetAgrees == part = "target" => Target!TypeOK /\ Target!TargetAgrees /\ Target!NoBoundChains
=============================================================================

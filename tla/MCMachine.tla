------------------------------ MODULE MCMachine ------------------------------
(***************************************************************************)
(* Small instances of the components below the language, checked side by   *)
(* side: weak references, the debugger, the value stack, scopes, and       *)
(* buffers.  A behaviour is one of the instance that part names.  The      *)
(* debugger has its own variables, which stay as they begin in the other   *)
(* parts; the other instances share x1, ..., x6, and those an instance     *)
(* does not use stay 0.                                                    *)
(***************************************************************************)
EXTENDS DukDebugger, TLC

CONSTANTS o1, o2, o3, NULL,             \* heap cells
          t1, t2, UNSET, NUM,           \* threads and values on the value stack
          Templates, Globals, Starts, Ends

VARIABLES part, x1, x2, x3, x4, x5, x6

X == <<x1, x2, x3, x4, x5, x6>>
machine == <<part, X, vars>>

\* Two objects and a holder of each class; one object and two holders.
MCKinds == {o1 :> k[1] @@ o2 :> k[2] @@ o3 :> k[3] :
              k \in {<<"plain", "plain", "map">>, <<"plain", "leaf", "freg">>,
                     <<"plain", "ref", "map">>, <<"plain", "set", "ref">>}}
Weak == INSTANCE DukWeakRefs WITH
  Obj <- {o1, o2, o3}, MaxLen <- 2,
  Held <- {o1, NULL}, Kinds <- MCKinds,
  kind <- x1, roots <- x2, s <- x3, cur <- x4

\* Two threads, a reserve of 2 and an internal extra of 3 slots.
Stack == INSTANCE DukValueStack WITH
  Threads <- {t1, t2}, Main <- t1, Obj <- {o1, o2}, UNDEF <- UNSET, JUNK <- 0, ENTRY <- 2, EXTRA <- 3, LIMIT <- 16,
  GrowShift <- 1, ShrinkShift <- 2, SlackShift <- 3, MaxFrames <- 2, MaxOps <- 4,
  m <- x1, ret <- x2, ops <- x3

\* A named function, one with duplicate parameters and arguments, a strict one.
Scope == INSTANCE DukScope WITH
  Names <- {"x", "y", "f"}, Vals <- {1}, CatchNames <- {"x"}, EvalNames <- {"y"},
  Actuals <- {<<2, 3>>}, MaxActs <- 3, MaxClos <- 2, MaxOps <- 4,
  m <- x1, a <- x2, ret <- x3, aret <- x4, ops <- x5

Buffers == INSTANCE DukBuffers WITH
  B <- 4, Dynamic <- {1}, Nums <- {-1, 2}, Strings <- {<<>>, <<3, 1>>},
  Values <- {-2, 6}, Sizes <- {2, 6}, MaxOps <- 2,
  s <- x1, ret <- x2, want <- x3, aret <- x4, fair <- x5, ops <- x6

-----------------------------------------------------------------------------
(* What the configuration gives the remaining constants.                   *)

\* The debugger: a function of two lines and an inner one between them.
MCFns == {"f", "g"}
MCLines == [f |-> {1, 3}, g |-> {2}]
MCFirst == [f |-> 1, g |-> 2]
MCFinal == [f |-> 3, g |-> 2]
MCInner == [f |-> {"g"}, g |-> {}]
MCCmds == {"PAUSE", "RESUME", "STEPINTO", "STEPOVER", "ADDBREAK", "DELBREAK", "DETACH", "EVAL"}

Template(formals, locals, named, args, strict) ==
  [formals |-> formals, vars |-> locals, named |-> named, args |-> args, strict |-> strict]
MCTemplates == {Template(<<"x">>, <<>>, TRUE, FALSE, FALSE),
                Template(<<"x", "x", "y">>, <<>>, FALSE, TRUE, FALSE),
                Template(<<>>, <<"x">>, FALSE, TRUE, TRUE)}

Prop(v, f) == [v |-> v, w |-> "w" \in f, e |-> "e" \in f, c |-> "c" \in f, acc |-> FALSE]
NoNames == [n \in {} |-> 0]
Object(proto, ext, props) == [proto |-> proto, ext |-> ext, props |-> props]
MCGlobals ==
  {<<Object(2, TRUE, "y" :> Prop(1, {"w", "e"})), Object(0, TRUE, NoNames),
     Object(0, TRUE, "x" :> Prop(2, {"w", "e", "c"}))>>,
   <<Object(2, FALSE, "y" :> [Prop(1, {"w", "e", "c"}) EXCEPT !.acc = TRUE]),
     Object(0, TRUE, "x" :> Prop(1, {"e"})), Object(2, TRUE, NoNames)>>}

\* Views of one buffer that overlap at different element sizes, and a buffer that was
\* resized under views with an offset.
View(cls, b, off, len, t, prop) ==
  [cls |-> cls, buf |-> b, off |-> off, len |-> len, type |-> t, prop |-> prop]
MCStarts ==
  {[bufs |-> <<<<1, 3, 2, 0, 3>>, <<2, 1>>>>, oob |-> "",
    views |-> <<View("ab", 1, 0, 5, "u8", 0), View("typed", 1, 1, 3, "i8", 1),
                View("typed", 1, 0, 4, "u16", 1), View("typed", 2, 0, 2, "c8", 0)>>],
   [bufs |-> <<<<0, 2, 3, 1>>>>, oob |-> "",
    views |-> <<View("ab", 1, 1, 3, "u8", 0), View("typed", 1, 2, 2, "i8", 0),
                View("typed", 1, 1, 2, "c8", 1)>>]}
MCEnds == {-1, 3, -99}   \* the last is undefined

-----------------------------------------------------------------------------
OtherInit ==
  \/ part = "weak" /\ Weak!Init /\ x5 = 0 /\ x6 = 0
  \/ part = "stack" /\ Stack!Init /\ x4 = 0 /\ x5 = 0 /\ x6 = 0
  \/ part = "scope" /\ Scope!Init /\ x6 = 0
  \/ part = "buffers" /\ Buffers!Init
  \/ part = "debugger" /\ x1 = 0 /\ x2 = 0 /\ x3 = 0 /\ x4 = 0 /\ x5 = 0 /\ x6 = 0

MachineInit == Init /\ OtherInit

MachineNext ==
  \/ part = "weak" /\ Weak!Next /\ UNCHANGED <<part, vars, x5, x6>>
  \/ part = "stack" /\ Stack!Next /\ UNCHANGED <<part, vars, x4, x5, x6>>
  \/ part = "scope" /\ Scope!Next /\ UNCHANGED <<part, vars, x6>>
  \/ part = "buffers" /\ Buffers!Next /\ UNCHANGED <<part, vars>>
  \/ part = "debugger" /\ Next /\ UNCHANGED <<part, X>>

MachineSpec == MachineInit /\ [][MachineNext]_machine

-----------------------------------------------------------------------------
(* The properties of the parts.                                            *)

\* Through refzero, finalizers, sweeps, unregistering and pending callbacks: the weak
\* pointers of a holder and the back-table entries match one to one and none refers to a
\* freed cell, the parallel arrays of a weak map or registry stay aligned, every counted
\* reference is counted exactly, nothing that the program can still get at by the
\* ephemeron rule is freed, and pending callbacks have the notifier called or a drain
\* running.  The operations that break this (a removal that reaches the holder it began
\* in, an object freed while weak pointers or the back-table name it, a WeakRef that gives
\* a freed object) are steps of the model too, and happen only where TornOnly says.
WeakSound == part = "weak" => /\ Weak!TornOnly
                              /\ Weak!Untorn => /\ Weak!WeakExact /\ Weak!Aligned /\ Weak!CountsExact
                                                /\ Weak!NeededLive /\ Weak!NotifierCalled

\* A registered target that dies while its registry lives has its callback queued once.
CallbackQueued == [][part = "weak" => Weak!CallbackQueued]_machine

\* Whenever user code can run: counts are exact, no slot refers to a freed object, bottom,
\* top and reserve are within the memory, no stale pointer is used, the space a frame was
\* promised is available, and the handler of a protected call has room for its error.
StackSound == part = "stack" => Stack!StackInOrder /\ Stack!ReserveKept /\ Stack!ErrorDelivered

\* An operation changes nothing below the bottom of its frame, and one of a frame that
\* keeps within its promise never runs out of stack.
FramesKept == [][part = "stack" => Stack!CallerUntouched /\ Stack!InternalReserve]_machine

\* Every name, from every activation and closure, has the value E5 says, whichever of
\* registers, open and closed records and objects hold it; arguments objects alias the
\* parameters, open records are those of running activations, operations succeed or fail
\* as prescribed, and the inspector reports what the code would read, the innermost of the outer
\* variables but for names an open record holds outside its registers.
ScopesAgree == part = "scope" => /\ Scope!OpenExact /\ Scope!ScopesAgree /\ Scope!ResultsAgree
                                 /\ Scope!ArgumentsAlias /\ Scope!InspectorAgrees

\* Although coercions of arguments may resize the buffer: an access leaves it only in fill and
\* the two copying slices (no check, start not clamped, size read too early) and only on
\* bytes that are gone; overlapping copies and conversions leave what reading the whole source
\* first leaves; answers are those the arguments call for, except that slices losing their
\* bytes inside a comparison compare as equal; the ArrayBuffer behind a view covers it.
BuffersAgree == part = "buffers" => /\ Buffers!Confined /\ Buffers!BytesAgree
                                    /\ Buffers!AnswersAgree /\ Buffers!BufferCovers
=============================================================================

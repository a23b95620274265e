# The Duktape engine: a TLA+ verification project

This directory holds TLA+ models of the Duktape engine (the fork with the
Rampart additions, `src/src-input/`), from its heap to its compiler, the TLC
configurations that check them on small instances, and proofs checked by TLAPS.

`PROJECT.json` lists, for every definition, the source lines it models; the
runs with their properties; one mutant of the code's logic for every property;
the hazards the properties are aimed at; and the theorems.

## 1. Inventory

Duktape is single threaded: one heap is used by one native thread at a time.
What makes it hard is *nesting*, not parallelism. Almost every operation of the
engine may drop a reference; dropping a reference may run a refzero cascade; the
cascade may run finalizers; a finalizer is arbitrary ECMAScript code that may
allocate; an allocation may run mark-and-sweep; and mark-and-sweep may queue
more finalizers. Each activity finds the data structures in the middle of
another activity's work.

| Component | State | Operations | Hard behaviour | Module |
|---|---|---|---|---|
| Heap lists, refcounts, finalizers, mark-and-sweep (`duk_heap_refcount.c`, `duk_heap_finalize.c`, `duk_heap_markandsweep.c`, `duk_heap_misc.c`) | three lists, header flags, `h_refcount`, `ms_running`, `pf_prevent_count` | INCREF/DECREF, refzero cascade, finalizer processing, mark, sweep | nesting, recursion limit, rescue, postponed decisions | `DukHeap` |
| Heap creation and destruction (`duk_heap_alloc.c`) | blocks, forced finalizer rounds | `duk_heap_alloc`, `duk_heap_free` | failure half way; finalizers that create finalizable objects | `DukHeapLife` |
| Memory allocation (`duk_heap_memory.c`), string table, string and literal caches | trigger counter, chains, `st_count`, cache entries | alloc and realloc with GC retry, intern, remove, resize | resize inside GC inside intern; pointers that move | `DukStrings` |
| Weak references (`duk_rp_weak_refs.c`) | back-table target to holders, pending callbacks | WeakRef, WeakMap, WeakSet, FinalizationRegistry | pointers not counted; objects freed on three paths | `DukWeakRefs` |
| Native promises, microtasks (`duk_rp_promise_native.c`) | promise state, reaction lists, queue | resolve, reject, then, drain | re-entrant drain, thenable jobs, ordering | `DukPromise` |
| Calls, threads, unwinding (`duk_js_call.c`, `duk_js_executor.c`, `duk_bi_thread.c`, `duk_error_*.c`, `duk_hthread_stacks.c`) | activations, catchers, `lj`, thread states | call, return, throw, catch, yield, resume, cancel | errors while unwinding, finally, coroutine states | `DukThread`, `DukCallTarget` |
| Value stack (`duk_api_stack.c`) | bottom, top, end, reserve of each frame | push, pop, replace, resize, shrink, calls | side effects of every pop; a stack that moves | `DukValueStack` |
| Variables and scopes (`duk_js_var.c`, `duk_rp_scope_vars.c`) | environment records, open or closed | get, put, delete, declare, close, inspect | records that alias registers; records made late | `DukScope` |
| Property tables (`duk_hobject_props.c`, `duk_hobject_enum.c`) | entry, array and hash part | get, put, delete, define, seal, enumerate, resize | GC in the middle of a resize; array abandonment | `DukProps` |
| Debugger (`duk_debugger.c`, `duk_api_debug.c`) | paused, pause flags, message loop | attach, pause, step, eval, detach | detach in the middle of a message, stale activations | `DukDebugger` |
| Compiler and executor (`duk_js_compiler.c`, `duk_js_executor.c`) | tokens, registers, jumps, emitted code | compile, execute | register lifetime, shuffling, jumps through catchers | `DukCompiler`, `DukBytecode` |
| Line tables (`duk_hobject_pc2line.c`) | bit stream with a header | pack, query | space for the longest run | `DukPc2line` |
| Regular expressions (`duk_regexp_*.c`) | bytecode, saved pointers, `lastIndex` | compile, match, exec | backtracking, recursion limit | `DukRegexp` |
| JSON and CBOR (`duk_bi_json.c`, `duk_bi_cbor.c`) | output buffer, objects on the way down | stringify, parse, encode, decode | user code while a value is written | `DukJson`, `DukCbor` |
| Buffers and typed arrays (`duk_bi_buffer.c`) | slices of buffers that are resized | element access, set, copy, slice | bounds checked before user code | `DukBuffers` |
| Map and Set (`duk_rp_map_set.c`) | a property store, name lists of iterators | get, set, delete, clear, iterate | addresses as keys; changes during iteration | `DukMapSet` |
| Arrays (`duk_bi_array.c`) | elements and length | the methods of Array.prototype | callbacks that change the array; 32-bit lengths | `DukArray` |
| Numbers, dates, BigInt, Unicode, strings, errors, other built-ins | little | pure algorithms | numeric edges | - |
| Extras, examples, tools, debugger UI | - | - | not part of the engine | - |

Interaction: everything allocates through `duk_heap_memory.c`, which calls
mark-and-sweep; everything stores values through the UPDREF macros of
`duk_refcount.h`, which call the refzero code; both end in
`duk_heap_process_finalize_list()`, which calls back into the executor. The
debugger suspends all of it by setting `ms_running = 2`.

What makes each of the modelled parts correct.

The heap: counts equal references; no slot refers to a freed
cell; every object is on one list; a list never changes under a scan; a
finalizer runs before its object is freed, and once per rescue; garbage is freed
in the end.

Promises: a promise settles once; every reaction of a settled promise runs
exactly once, in the order of the `then()` calls, with the value and the handler
that belong together; the event loop is woken whenever work is queued.

Calls and coroutines: the C stack and the callstacks agree at every longjmp;
thread states follow the coroutine state machine; counters that are only
incremented and decremented (`callstack_preventcount`, `pf_prevent_count`) stay
exact on every error path; no finally clause is skipped; error handling ends.

Weak references: a weak pointer never outlives its target and is never cleared
before; a value reachable only through live keys stays alive; every registered
callback is queued once and the event loop hears of it.

Strings and allocation: one content, one string; caches never answer for a
string that is gone; a block that moved is not used at its old place.

Value stack, scopes, buffers: whatever user code runs at a coercion or a
decref, the frame below is untouched, every name has the value the language
gives it, and no access leaves its buffer, except in three operations that use a
length from before the coercions (section 6).

Everything that computes (property tables, compiled code, regular expressions,
JSON, CBOR, arrays, Map and Set, line tables, call targets): the result is the one
of a definition written from the language, which knows nothing of the fast paths,
caches and encodings of the code.

## 2. Modules

The modules below the heading of a component hold its state and actions. Three
modules, `MCMachine`, `MCLanguage` and `MCLiveness`, check several components with TLC
side by side: the variable `part`, chosen in `Init` and never changed, says which
component a behaviour belongs to. Each of the three extends the components it checks
that have proofs of their own (`DukDebugger`; `DukStrings` and `DukMapSet`;
`DukHeapLife`), so that TLC evaluates the assumptions the proofs use, and instantiates
the others, which share the variables `x1`, `x2`, ... as their own. Their properties join the properties of a component that belong to one
question.

### DukHeap

One state machine for reference counting, finalization and mark-and-sweep,
because their correctness is a joint one.

* **State.** An object is a member of `Obj`; its references sit in slots
  `<<o, f>>`. Slots `<<ROOT, r>>` stand for everything that keeps a value alive
  from outside (value stacks, builtins, `lj.value1/2`), one more,
  `<<ROOT, FINARG>>`, for the argument of a running finalizer on the heap
  thread's value stack. `ref` gives each slot its value, `rc` is `h_refcount`,
  the three lists are sets (their order decides only the order of independent
  steps, and every order is explored), the four header flags are sets of
  objects. `ms_running` has the code's values 0, 1, 2 and stands for
  `ms_prevent_count` too, which is non-zero in the same states.
  `pf_prevent_count`, `had_zero` and `curr` are the code's variables.
* **Control.** `phase` names the innermost activity: `run` (ordinary code or a
  finalizer body), `free_pending` (inside `duk__refcount_free_pending`),
  `pf_enter`, `pf`, `pf_free` (points of `duk_heap_process_finalize_list`), and
  the phases of mark-and-sweep. `after` is where a cascade returns to. Nesting
  needs no stack: finalizer processing does not nest (`pf_prevent_count`), a
  cascade calls no user code, and mark-and-sweep does not nest (`ms_running`),
  which are exactly the rules whose enforcement the model reproduces.
* **Actions.** `Alloc`, `SetSlot` (the UPDREF macros with and without NORZ),
  `SetFinalizer`, `PushHeapptr` (with its cancellation of a pending finalizer),
  `RefzeroCheck`, `PreventFinalizers`/`AllowFinalizers` (the
  `pf_prevent_count` sections of property and string table resizes and of error
  unwinding), `DebugPause`/`DebugResume`; `FreePending` is one round of the
  cascade; `PfEnter`, `PfRunFinalizer`, `FinalizerReturn`, `PfFree`, `PfEnd` are
  the parts of the finalizer loop between which other code runs; `MarkAndSweep`,
  `MarkRoot`, `MarkChild`, `MarkReturn`, `TemprootScan`, `HandleTemproot`,
  `MarkPhaseDone`, `FinalizeRefcounts`, `SweepHeap` are mark-and-sweep, with the
  marking recursion (and its limit) explicit.
* **Abstractions.** Strings and buffers hold no references and are left out.
  Object kinds are one kind: a set of slots. An inherited finalizer is a change
  of `hasFin`. A Proxy's skipped finalizer call is a finalizer that does
  nothing. A finalizer that throws returns, and "the
  finalizer was called" means that the protected call was made: whether the
  heap thread accepts it is a question of `DukThread` (finding
  `thread_finalizer`). `ran` is a history variable.

`MCDukHeap` adds the symmetry set for TLC; `DukHeap_proofs` holds the proofs.

### DukPromise and PromiseSpec

`duk_rp_promise_native.c`: the promise records, the capability functions, the
microtask queue, the drain loop and the notifier.

* **State.** Promises and resolve/reject pairs are numbered in the order they
  are created. `state`, `result`, `fq`, `rq` are `p_state`, `p_result`, `p_fq`,
  `p_rq`; `target` and `done` are `cap_target` and `cap_done` (one flag per
  function, as in the code, not per pair); `queue` is the linked list of
  microtasks; `unlinked` numbers the entries that have left it, so that an entry
  unlinked twice can be told apart; `wake` is a notifier call not yet answered by
  a drain; `frames` is the nesting of drains, executors, handlers and `then`
  methods. `known` and `held` are what user code can name. `source`, `ran` and
  `lost` are history variables.
* **Actions.** `NewPromise`/`CtorReturn` (the constructor around its executor),
  `CapCall` (a resolve or reject function), `Then`, `PromiseResolve`,
  `PromiseReject`; `WakeDrain` and `CallDrain` start a drain, `DrainEnd` ends it;
  `PassThrough`, `AdoptedSettles`, `CallHandler`/`HandlerReturn` are
  `duk__pmt_reaction_run`, `AdoptPromise`, `CallThen`/`ThenMethodReturn`,
  `AdoptionAbandoned` are `duk__pmt_thenable_run`. The entry being run stays at
  the head of the queue until its action returns, as in the code.
* **Abstractions.** A value is another promise, a plain value, an error, a foreign
  thenable, or an object whose `then` getter throws. `then()` covers `catch()` and
  `finally()`, which only choose handlers; the combinators are user code on top of
  it. The side effects of a getter that does not throw are left out. `p_handled`
  is written and never read. The notifier is installed before user code runs, as
  `duk_rp_extensions_init` does. `Rooms` gives the number of microtasks that can be
  allocated before memory runs out inside one operation; `9` is "enough".
  `Reentrant` lets jobs call the exposed drainer.
* **Abstract specification.** `PromiseSpec` knows no queue, no jobs and no
  capabilities: promises settle once, and the reactions of `then()` calls run at
  most once, after the promise settled, in the order of the calls.
  `ImplementsPromises` is the statement that `DukPromise` implements it; the
  refinement mapping is the identity on the shared variables and the history
  variables.

### DukThread

`duk_js_call.c`, `duk_bi_thread.c`, `duk_error_longjmp.c`,
`duk_hthread_stacks.c` and the parts of `duk_js_executor.c` that enter, leave and
unwind calls, statements and threads.

* **State.** Two kinds of stack. `callstack[t]` holds the activations of thread
  `t`, each with its catchers (`CATCH_ENABLED`, `FINALLY_ENABLED`, `LEXENV_ACTIVE`,
  the continuation registers) and the clause the code is in. `cstack` is the one
  native stack: executors, native functions, protected calls and the protected
  call of a finalizer, each with what it saved at entry. `tstate`, `resumer`,
  `preventcount`, `curr`, `lj`, `pf` are `state`, `resumer`,
  `callstack_preventcount`, `curr_thread`, `lj`, `pf_prevent_count`; `armed` is the
  embedder's cancel request. A `"bare"` catcher is not in the code: it is the
  position inside a finally body that is executed without its catcher.
* **Actions.** Calls: `SafeCall`, `HandleCall`, `EcmaCall`, `TailCall`,
  `NativeReturn`, `SafeReturn`, `RunFinalizer`, `Throw`. Statements: `Enter`,
  `EndTry`, `EndCatch`, `EndLabel`, `EndFin`, `Break`, `Return`. Coroutines:
  `Resume`, `Yield`. The longjmp handler: `HandleResume`, `HandleResumeError`,
  `HandleYield`, `HandleCatch`, `CatchSetup`, `HandleFinally`, `HandleUnwind`,
  `HandleUncaught`, `SafeError`. Cancellation: `Arm`, `Interrupt`, `HandleCancel`.
  One iteration of the handler's loop is one action, so that an error that ends
  several coroutines takes several steps.
* **Abstractions.** Values, value stacks and constructor results are left out;
  so are opcodes other than the ones named. A check that fails (a limit, a
  refused resume or yield) is `Throw`. `continue` behaves as `break`. A statement
  is entered and left in the order of its clauses; the registers are read where
  the code reads them. Memory runs out in the setup of a catch scope
  (`CatchSetup`); memory that runs out in the first resume of a coroutine and in
  closing a scope is left out (see section 6). Calls from C code into other
  threads are protected calls.

### DukHeapLife

`duk_heap_alloc` with every allocation that may fail, and `duk_heap_free`: the
forced rounds of finalizers with their decreasing limit (`NextLimit`), which
objects they skip, rescue and create, and the order in which lists, string table,
thread and heap are freed. `HeapGivenBack` joins `NothingLeaks` and
`FinalizersHonored`; `DestructionEnds` is the liveness property.
`DukHeapLife_proofs` holds the proofs.

### DukStrings

The string table, the offset cache, the literal cache and the allocator below them.

* **State.** `m` is the heap: `mem` gives the content of the string at each address (an
  address is used again), `tab` the chains of the `size` slots, `tabptr` the place of
  the table, `cache` the offset cache, `lit` and `pinned` the literal cache. A chain is
  the bag of the strings linked in it, so that a string linked twice shows; nothing
  depends on the order. The offset cache is the code's array of fixed length, with
  holes and with the move to the front. `held` counts the program's references, `lost`
  are strings only unreachable cycles refer to. `op` is the intern or reallocation in
  progress; `blk` is a block reallocated through `duk_heap_mem_realloc_indirect`.
* **Actions.** `InternHit`, `LitcacheHit`, `InternMiss`; `ResizeCheck`, `Realloced`,
  `GrowGiveUp` are the growing and shrinking of the table around its reallocation;
  `Retry` is a failed attempt of an allocation with its collection, which sweeps
  strings, wipes the literal cache and in emergency mode resizes the table (`ForceResize`);
  `AllocOk`, `AllocFails`; `BlkBegin`, `BlkOk`, `BlkFails`; `Release`, `Orphan`,
  `Collect`; `CharAt` is `duk_heap_strcache_offset_char2byte`.
* **Abstractions.** The hash of a content is a constant. Symbols are left out: they
  begin with a continuation byte, and only the C API indexes them by character.

`DukStrings_proofs` holds the proofs.

### DukWeakRefs

Holders (WeakRef, WeakMap, WeakSet, FinalizationRegistry), the back-table, refzero
with its nested hooks, native finalizers of holders, mark-and-sweep with the
ephemeron pass, the pending callbacks and their drain. Operators on the stored
state `s` reproduce the nesting inside one operation. A nested removal may reach the
holder whose arrays are being compacted; `busy` says which ones are, and `torn` records
an operation that left arrays out of step or freed an object that weak pointers or the
back-table still name. A behaviour ends there: what the code does with such memory is
undefined. `TornOnly` says exactly which programs get there, and the other properties hold
for everybody else.

### DukDebugger

Client, transport and target: `inq` is what the client sent, `peer` what it knows,
`m` the heap's `dbg_*` fields and the callstack, `pc` where the executor or the
message loop is. Every read and write may find the transport broken, after which
the two-part detach and the detached callback follow. Inspection requests that
only read are one kind of request. An unwind to a depth is one step with the callstack
it leaves. The handshake of an attach may fail to be written, also when the detached
callback attaches again; `Stranded` is the state that leaves behind (see section 6).
`DukDebugger_proofs` holds the proofs.

### DukValueStack

Frames of C functions on the value stacks of two threads. Each API operation is an
action; each DECREF that reaches zero and each coercion of an object may run user
code, which may collect garbage, shrink the stack and move it; so does the allocation in a
resize, which reads the old pointers only before it and, like every operation that
looks a slot up again, is checked not to use a pointer from before (`bad`). Native calls,
safe calls and their error path set up and tear down frames. `Throw` is `duk_throw`, which
makes no space for the handler's push; errors that the engine raises do.

### DukScope

`m` holds what the code keeps (registers, delayed, open and closed records, global
and with objects, mapped arguments), `a` what E5 10.2-10.6 says, in which variables
live only in records. Each operation is applied to both, and the properties compare
what can be seen: values of names, results, arguments objects and the inspector's
answer, values included. The rule `InspectorAgrees` compares with is that the inner
variable wins, with the exception the code makes (section 6).

### DukBuffers

Slices over plain buffers of base-`B` bytes. An operation takes the resize its
coercions cause, applied where the code makes them. `Confined` says of every operation
that it stays inside the buffer as it is when the bytes are touched; `fill`, `slice` of an
ArrayBuffer and `slice` of a plain buffer are named in it as the ones that do not, when
bytes are gone. `BytesAgree` and `AnswersAgree` compare with copies made at once.

### DukProps and ObjectSpec

The three parts of a property table, its growth and abandonment rules, the hash
part with its probing and deleted marks, get, put (fast and slow), delete, define,
seal, freeze, enumeration, array `length` and mapped arguments. An operation may run
out of memory between its steps. The prototype has an index property, which the fast path
does not look at. A definition that replaces getter and setter of an accessor is two steps
(`HalfDefined`, `FinishDefine`): between them the finalizer of the old setter may delete,
freeze or compact (`FinalizerOp`), and the getter goes to the entry found before;
`TornByFinalizer` says that only then it can miss. `ObjectSpec` is the object of the
language; `ImplementsObject` maps the parts to its properties and states the refinement.
Three steps of `ObjectSpec` are the code's own and marked as such: filling a hole of an
array past the prototype, freezing without the `length`, a definition seen half-way.

### EcmaScript, DukCompiler, DukBytecode, MCPrograms

`EcmaScript` defines values, syntax trees and the reference interpreter.
`DukCompiler` is the Pratt parser and statement compiler with its two passes,
register allocation, operand shuffling, jump lists, catch and label depths and the
peephole pass. `DukBytecode` runs the opcodes; its catchers keep the flags the executor
leaves set. Tokens come from the tree of the
program: the lexer is modelled by what it delivers. `MCPrograms` lists the programs:
every kind of statement and operator, nested where their codes interact, each
compiled with wide and with narrow instruction fields (`amax`).
The comparison knows two deviations of the code. A variable kept in a register is read
when the instruction that uses it runs, not when its operand is evaluated; the reference
takes the set of variables read late and does the same, so everything else about such
programs is still compared. And a catch flag left on when a `return` or `break` entered a
finally clause (finding `thread_finally_catch`) sends a later error the wrong way: `stray`
is where that happened, and what was called up to there must still agree.

### DukRegexp and MCRegexps

The pattern compiler, whose jumps change with what is inserted before them, the
matcher with its recursion and step limits, and exec with `lastIndex`; `Re`, a matcher on
the pattern's tree; and `Depth`, the recursion that `doc/regexp.rst` says each construct
costs for an input.

### DukJson and MCJson; DukCbor and MCCbor

The fast and the slow path of `JSON.stringify` with user code in getters, `toJSON`
and replacers; `JSON.parse` with reviver and its recursion limit; JX and JC. CBOR encoding
into a buffer that grows ahead of each write, with getters that drop later elements and
keys, and decoding, compared with `Denotes`, which gives a byte string its values. A byte of
data is a digit in base 32, and arguments of 1, 2, 4 and 8 of them are read.

### DukMapSet

The store of a collection is a list of entries in the order of insertion, each under a
name built from its key; the name of an object holds its address, that of a value without
a heap address (plain pointers, light functions) nothing, and a string is cut at its first
NUL. Memory is the
program's: an object is freed when the program forgets it and no store in use, that of
the collection or of an iterator the program holds, has it as a key; its address may
then be another object's. The constructor calls `set` once per value of the iterable and
runs the iterable's code in between (`building`). `clear` gives the collection a new
store; iterators stay with the old one. An iterator has a list of names and an index,
which `map_iter_next` leaves alone when it answers that it is done; the key it gives is
the program's again. `abs` has, for each store, the ECMAScript collection of the keys up to
what the code takes for the same (`Norm`), `owes` the entries that an
iterator has to give, `gave` those it has given. `DukMapSet_proofs` holds the proof.

### DukArray and MCArray

A row, the elements in order with holes, is what each method is defined on;
`Popped`, `Pushed`, `Spliced` and the others are the loops of the code. `sort` and the
iterations take one step per comparison or callback, in which user code may
change the array, throw or answer inconsistently. `concat` asks its arguments whether they
are to be spread and meets proxies that hide an index. `W` is the number of 32-bit lengths;
the length of an array-like object is taken after ToUint32. The reference follows
ECMAScript; `past` marks the calls that it gives a meaning and the code refuses (section 6).

### DukPc2line

Packing line differences into bits, the fixed buffer for one run, and the query.

### DukCallTarget

The loop that resolves bound functions, `call`, `apply`, `Reflect.apply`,
`Reflect.construct`, `eval` and proxies on the value stack, and `bind` with its
collapsing of chains. A trap is absent, a function, or present with the value undefined,
which the code refuses (section 6).

## 3. Runs

| Run | Instance | Question |
|---|---|---|
| `heap_collect` | 3 objects, 1 field, 2 roots, recursion limit 1 | Do cascades, finalizers and mark-and-sweep together keep counts and flags right (`CountsAndFlags`: no zero count forgotten, swept objects have count zero, flags only where the code expects them), never queue a reachable object and never skip a finalizer? |
| `heap_nested` | 2 objects, 2 fields, 2 roots, one extra `pf_prevent_count` level, debugger | Do counts, lists and marking state stay consistent when finalizers are prevented and when the debugger pauses anywhere? `SafeHeap` is the invariant of the proofs. |
| `promise_safety` | 4 operations of user code, any microtask allocation may fail | Do promises implement `PromiseSpec`; does each reaction run once, with its own handler and value; are thenables unwrapped and jobs matched to their promises (`PromiseState`); is no wakeup missed? |
| `promise_nested_drain` | 2 operations, jobs may drain | Is every microtask unlinked once? **Violated.** |
| `promise_neutralized` | 3 operations | Are the other calls of a pair no-ops after `resolve(thenable)`? **Violated.** |
| `thread_switch` | heap thread and 2 coroutines, 4 activations per thread, 4 C frames, one try-catch-finally, finalizers | Do thread states, suspended callstacks and C frames (`ThreadsConsistent`), the yield prevention count and `pf_prevent_count` (`CountersExact`) agree, whatever resumes, yields, errors, tail calls and finalizers do? |
| `thread_unwind` | heap thread and 1 coroutine, all statement kinds, 2 open at once, cancellation | Is no finally clause ever skipped, and does all handling of longjmps end? |
| `thread_finalizer` | heap thread and 1 coroutine | Can a finalizer that may run now be called? **Violated.** |
| `thread_finally_catch` | heap thread and 1 coroutine, one try-catch-finally | Does an error in a finally clause leave the statement? **Violated.** |
| `machine` | weak references, debugger, value stack, scopes, buffers | Are they consistent (`WeakSound`, `CallbackQueued`, `DebuggerSound`, `StackSound`, `FramesKept`), and do scopes and buffers show what the language says (`ScopesAgree`, `BuffersAgree`)? |
| `language` | strings, property tables, compiled code, regular expressions, JSON, CBOR, Map and Set, arrays, line tables, call targets | Are the string table and its caches consistent at every point of an operation (`StringsSound`), do the property tables implement `ObjectSpec` and keep their structure (`TablesSound`), and do the others compute what their reference definitions compute? |
| `liveness` | heap, promises, heap destruction, debugger | Is garbage freed, do reactions run and adoptions settle, does destruction end and give everything back, does a target that lost its debugger run on? |

The properties of the last three runs are conjunctions of properties of the
components' modules, each commented there.

Every property of a passing run has a mutant in `PROJECT.json`, an operator of
the module itself that changes one definition the way a bug in the code would;
TLC finds the property violated under it.

## 4. Bounds

*Heap.* Three objects give a chain, a two-cycle hanging off a third object, and
two finalizable objects that refer to each other; a recursion limit of 1 makes
every chain overrun it, so temproot scans happen in most mark-and-sweep runs (the
code's limit is hit by long lists only). Two roots are needed to connect two
objects outside a finalizer. Two fields allow an object with two references to
the same target. `MaxPrevent` bounds the nesting of `pf_prevent_count` sections.

*Promises.* `MaxOps` bounds what user code does; four operations are enough for
two reactions on one promise, for a promise resolved with a promise that settles
later, and for a handler that returns a promise it just created. `Rooms` lets memory
run out at the first microtask of an operation, at the second (between two microtasks of one
settlement) or not at all. `MaxPromise` and
`MaxPair` bound what is created, by user code and by the adoption jobs
(`CanCreate`); 4 and 5 leave room for every one of the cases above, and a behaviour
that needs more stops. The proofs hold for all values of the bounds. `MaxDepth` is
reached only by re-entrant drains. In `liveness`, with three operations, an adopted promise is already settled
when the adoption job runs.

*Threads.* Three threads give a coroutine that resumes another one and three
states at once. Four activations and C frames hold a native function that calls
ECMAScript code that resumes, under a protected call. Two open statements give
every pair of nested statements in one activation and one statement in each of
two activations or threads. The limits are the code's own limit checks with small
values: a call beyond them throws, so they are reached in both runs. The runs
without finalizers or cancellation only split the work.

*Weak references.* Two objects and one holder of each class, or one object and two
holders: a key and a value that die in either order, a value that is or leads to a key of
its own map, a holder that is itself a target or a value, and a cell used again. A target
registered twice.
*Strings.* Three texts for two addresses, two of them on one chain, a table of 1 to 4
chains that grows and shrinks at once, and caches of one entry.
*Heap destruction.* Three objects and two that finalizers create: more than one round.
*Debugger.* An inner call between two lines of a function: stepping over, into and
out of it; one breakpoint; one request on the way; any number of attaches.
*Value stack.* A reserve of 2, an internal extra of 3 and shifts that make every second
push grow the stack; two frames and four operations, from four starts: the fresh stack,
inside a C function with objects below its frame, in a safe call that it made, and in one
made with all of the reserve used. In the last two an operation reaches into the internal
extra, and an error finds the stack full, within the four.
*Scopes.* Three functions (named, with duplicate parameters and arguments, strict),
three activations, one closure at the start and one that the program makes, four
operations: a closure over a returned activation, an eval
that declares, a delayed record asked for after an assignment.
*Buffers.* Two operations on views that overlap at different element sizes and on views
of a buffer that shrinks below them.
*Property tables.* Two indices and two names that share a hash slot, one of each inherited;
an array part counts as sparse as soon as fewer than all of its elements are used, so that
two indices reach every branch; growth by 2;
four operations: enough to abandon an array and to resize a table with deleted entries;
one operation of a finalizer inside a definition.
*Regular expressions.* A recursion limit of 45 and a step limit of 400, which an input of 9
characters exceeds with captures and with backtracking alternatives; the other inputs have
at most 4.
*CBOR.* Data bytes below 32; arguments of 2, 4 and 8 of them at both ends of the range that 4
can say, whole and cut short, before fewer, as many and more bytes than they ask for.
*Programs, patterns, values and texts* are lists in `MCPrograms`, `MCRegexps`, `MCJson` and
`MCCbor`, one for each construct and for each pair whose codes interact.
*Map and Set.* Two objects at one address, both zeros, a string and one that goes on after
it with a NUL, two plain pointers, one iterator, five steps: an address is used again, an
entry is deleted and added while an iterator runs, and an iterator outlives a `clear`.
*Arrays.* Lengths end at 9 (4 for the methods with signed indices), so that the last
valid index and the wrap of every index are near; arrays of three elements with
holes in every place and two of four for `sort`; the callbacks of one call act between its
steps, and a compare function changes the array once.
*Line tables* of five instructions in blocks of three, with differences of every width.
*Call targets.* Two functions made by bind or Proxy on top of seven.

Deadlock is checked in the heap and thread runs. The promise runs and the last
three runs end when user code has used up its operations or the computation is
done, so it is not checked there.

## 5. Fairness

*Heap.* `InertSpec` is used for liveness only. Weak fairness of `Engine`: the C
code does not stop in the middle of its work. Strong fairness of
`FinalizerReturn`: a finalizer call returns. Strong fairness of `MarkAndSweep`:
the voluntary GC trigger counter (`ms_trigger_counter` in `duk_heap_memory.c`)
runs out again and again in a program that keeps allocating. Finalizers in
`InertSpec` do not touch the heap: a finalizer that stores its argument somewhere
may keep it forever.

*Promises.* `FairSpec`: user code returns, the drain loop goes on, and the event
loop drains after it has been woken (that is what the notifier is for). Nothing
is assumed about `CallDrain`.

*Heap destruction.* Weak fairness of the steps of `duk_heap_free`, which is one
sequential function. Nothing is assumed about what finalizers do.

*Debugger.* Weak fairness of the message loop, and of the failing read once the
connection is gone: a read callback that has lost its peer returns zero. Nothing is
assumed about the client.

*Threads.* None. That the handling of a longjmp ends is stated without fairness:
`HandlingEnds` says that every step of it leaves less to unwind, and the absence
of deadlock that it never gets stuck.

## 6. Findings

Where the code does something else than its documentation, comments or tests
say; the quotes are in `PROJECT.json`.

* `promise_nested_drain`: the drain loop runs the head of the queue before it
  unlinks it. A job that calls the drainer runs the same job again, and both
  levels unlink it.
* `promise_neutralized`: `cap_done` belongs to one function, not to the pair.
  After `resolve(thenable)` the promise is still pending and the `reject` of the
  same pair still works, which a test of the repository says is a no-op.
* `thread_finalizer`: finalizers are called on `heap_thread`. While a coroutine
  runs, `heap_thread` is RESUMED and cannot be entered; the error of the refused
  call is ignored and the object is freed without its finalizer.
* `thread_finally_catch`: `duk__handle_finally` clears `FINALLY_ENABLED` only. When
  a return or break entered the clause, the catch clause of the same statement is
  still enabled and catches an error of the finally clause; the finally body then
  runs again.

Observations that have no run of their own. Heap, promises and calls:

* A sweep clears FINALIZED of every marked object (`duk_heap_markandsweep.c:705`),
  and marking includes what FINALIZABLE objects of the same round refer to. A
  finalized object that only such an object refers to counts as rescued, and its
  finalizer is called again.
* Memory that runs out in the first resume of a coroutine
  (`duk_js_executor.c:1395`): the resumee is already current but has no resumer yet,
  contrary to the comment at line 1516 ("There is always a resumer in this case").
* A return, break or error inside a catch clause enters the finally clause with
  the catch scope still active: only ENDCATCH closes it.
* The pre-scan of a cancellation (`duk_js_executor.c:1635`) looks at the innermost
  catcher only, so a cancellation that passes a label or `with` statement on its
  way to a finally clause leaves the request armed.
* `Duktape.Thread.resume` set as the finalizer of a thread object runs on top of
  an ECMAScript activation, is accepted, and its RESUME longjmp reaches the
  protected call of the finalizer, which expects THROW (`duk_js_call.c:2526`). This
  behaviour is in the model (`SafeError`).
* A `then` getter that throws makes the resolve function throw and leaves the
  promise pending.
* `duk_heap_remove_from_finalize_list` of the single-linked list build
  (`duk_heap_misc.c:109`) never advances its cursor.

Weak references and garbage collection (`TornOnly` has the first three as the only ways
to damage; a behaviour ends there):

* A WeakMap or registry value that is, or leads to, a key of the same holder: removing the
  entry drops the value after the key array was compacted and before the value array is,
  and the nested removal then works with the older index and count
  (`duk_rp_weak_refs.c:612-628`). The comment at line 655 says that the two arrays' indices
  "stay aligned".
* `duk__mark_finalizable` runs before the passes that mark ephemeron values and pending
  callbacks, so a holder reachable only through them has its finalizer run and is used
  afterwards; the back-table still names it when it is freed.
* A holder that mark-and-sweep or refzero frees directly after its finalizer does not pass
  through the hook for dying targets, so weak pointers to it stay.
* A back-table allocation that fails after the entry was added leaves the entry; one that
  fails in queueing a callback loses the callback (`duk_rp_weak_refs.c:1373-1375`). These two
  are not in the model.

Debugger:

* A detached callback that attaches again and whose handshake cannot be written
  leaves the target paused without transport (`duk_debugger.c:2751`, `:65`): the loop whose
  comment (`:2627-2634`) says "until we're either cleanly attached or fully detached" sees
  no detach pending. Inside a `debugger` statement `duk_debug_halt_execution` then waits with
  no client. `PausedConnected`, `StatusFresh` and `RunsOn` name this state (`Stranded`); nothing
  else leads to it.
* Request handlers that throw leave `dbg_processing` set; a `debugger` statement in
  an Eval enters the message loop again.

Property tables: freezing leaves the `length` of an array writable, and `isFrozen` does not
look at it, although the comment at `duk_hobject_props.c:6230-6236` (and 6296-6298, 6314) says
that all virtual properties are non-writable; `ObjectSpec!Seal` and `FrozenKnown` say which
property is meant. The fast path of an array put ignores an inherited read-only
index, as the comment in the code and `tests/ecmascript/test-misc-array-fast-write.js` say.
Dropping the old setter "may invalidate e_idx" (`:5996`), which is used again for the getter;
`TornByFinalizer` says when. Sealing does not unmap arguments.

Value stack: a safe call whose function pops below its arguments is not restored as
`website/api/duk_safe_call.yaml` says ("Such elements are restored with undefined
values before returning"); the initial `valstack_end` of a thread
(`duk_hthread_alloc.c:34`) has no internal extra, contrary to `duk_hthread.h:19`. The handler
of a protected call pushes the error without a check ("now relies on internal reserve",
`duk_js_call.c:2559`), and `duk_throw` (`duk_api_stack.c:6382`) makes no space for it: a frame
that has used all of its reserve, in the first frame of a thread one that only used what it
was promised, loses the error to another one (`ErrorDelivered`).

Compiler: a `break` to the label of a labelled `try` statement jumps to a slot that is
never patched (`duk_js_compiler.c:6645`); `MCPrograms` leaves that shape out. The left operand
of an operator that is a variable stays in the variable's register while the right one assigns
to it (`:4415` and `:4416`, and `:5639` for `switch`), which
`tests/ecmascript/test-bug-assign-mutate-gh381.js` describes for assignments; this is in the
model and in the reference.

Scopes: among the outer variables that the inspector reports, one that an open record holds
outside its registers overwrites an inner one of the same name
(`duk_rp_scope_vars.c:103-124`), contrary to the comment "inner scope wins on name
collisions"; `InspectorAgrees` has exactly this exception. Redeclaring a non-configurable
global by a function of eval code makes it configurable (`duk_js_var.c:1690`), and a function
declared under a `with` or `catch` goes the same way; both sides of `DukScope` do that.

Buffers: three operations use a size from before their coercions, and leave the buffer when
a coercion shrank it: `fill` (`duk_bi_buffer.c:1383-1452`), `slice` of an ArrayBuffer, which
clamps the length and not the start (`:2071-2077`), and `slice` of a plain buffer
(`:1928-1953`). A comparison whose buffers lose bytes in its own coercions answers equal
(`:1345-1347`), where the comment at 1284-1287 wants "equals() is false".

Regular expressions: a quantified group that matches the empty string is not cut off,
so it recurses to the limit; `Depth` counts it as unbounded. `DepthAsDocumented` says that no
pattern recurses deeper than `doc/regexp.rst:328-348` says its constructs do. JSON:
characters above U+FFFF in ASCII-only output are written as `U+...`. CBOR: strings that
are not UTF-8 come back as buffers, symbols and light functions as empty objects.

Map and Set: names are C strings, so string keys that differ after a NUL are one key, and
`get` and `has` do not find a key that holds one (`duk_rp_map_set.c:106`); plain pointers and
light functions all have the name `p:(nil)` (`:80-81`), where the comment at line 26 promises "a
unique string for any JS value". Iterators do not see later additions, and go on over the old
store after `clear()`, so they give entries that the comment at 244-247 wants skipped. All of
this is in the model, and `Norm`, `MapAnswers` and `IterationComplete` say it. An iterator that
has answered that it is done does not move its index (`duk_rp_map_set.c:261`): when an entry it
had passed over at the end, because it was deleted, is added again, its next answer gives that
entry.

Arrays: `push` and `unshift` past 2^32 - 1 elements throw before they write, also for objects
that are not arrays; `tests/ecmascript/test-bi-array-push-maxlen.js`,
`test-bi-array-proto-push.js:101-111` and `duk_bi_array.c:23-26` have the items written first. The
methods with signed indices refuse lengths of 2^31 and more. `past` marks these calls.
`slice` ends its result at the last element present, `concat` counts trailing
holes; the fast paths of `push` and `pop` ignore index properties of the prototype, as
documented.

Line tables: the space for one run suffices only because the longest run is not a
multiple of eight bits. Call targets: `newTarget` of a construct trap is the innermost
proxy, as documented; a trap that is present and undefined is a TypeError
(`duk_js_call.c:891-892`), where ES2015's GetMethod goes on to the target.

## 7. Proofs

Eight modules hold proofs, about the seven components whose safety is the least
obvious. Each theorem holds for every value of the constants that satisfies the
named assumption of the component's module; the runs of section 3 check the same
properties, and TLC checked each inductive invariant on small instances before it was
proved.

| Module | Theorem | Statement |
|---|---|---|
| `DukHeap_proofs` | `TypeCorrect` | `Spec => []TypeOK` |
| | `HeapSafe` | `Spec => []SafeHeap`, the inductive invariant |
| | `CountsExact` | `Spec => []RefcountExact` |
| | `NothingDangles` | `Spec => []NoDangling` |
| | `OneListEach` | `Spec => []ListsPartition` |
| | `RefzeroCompletes` | `Spec => []RefzeroInline` |
| | `MarkingSound` | `Spec => []MarkState` |
| | `FlagsHold` | `Spec => []FlagDiscipline` |
| | `OnlyGarbageQueued` | `Spec => QueuedIsGarbage` (a property of steps) |
| | `FinalizedFirst` | `Spec => FinalizedBeforeFree` (a property of steps) |
| | `CountsAndFlagsHold` | `Spec => []CountsAndFlags`, without a debugger |
| `DukPromise_proofs` | `PromiseStateHolds` | `Spec => []PromiseState` |
| | `NoWakeupLost` | `Spec => []NoLostWakeup` |
| | `ReactionOnceHolds` | `Spec => []ReactionOnce`, if jobs do not drain |
| | `UnlinkedOnceHolds` | `Spec => []UnlinkedOnce`, if jobs do not drain |
| | `Refinement` | `Spec => ImplementsPromises`, if jobs do not drain |
| `DukThread_proofs` | `ThreadsAgree` | `Spec => []ThreadsConsistent` |
| | `FramesAlwaysMatch` | `Spec => []FramesMatch` |
| | `CountersAlwaysExact` | `Spec => []CountersExact` |
| `DukUnwind_proofs` | `HandlingAlwaysEnds` | `Spec => HandlingEnds` (a property of steps) |
| | `NoFinallySkipped` | `Spec => FinallyNeverSkipped` (a property of steps) |
| `DukHeapLife_proofs` | `AllGivenBack` | `Spec => []NothingLeaks` |
| | `FinalizersAlwaysHonored` | `Spec => []FinalizersHonored` |
| | `HeapAlwaysGivenBack` | `Spec => []HeapGivenBack` |
| | `RoundsShrink` | a further round of forced finalizers has a smaller limit (a property of steps) |
| `DukStrings_proofs` | `StringsAlwaysSound` | `Spec => []StringsSound` |
| `DukMapSet_proofs` | `MapSetAlwaysAgrees` | `MapSpec => []MapSetAgrees` |
| `DukDebugger_proofs` | `DebuggerAlways` | `Spec => []DebuggerInv`, the inductive invariant |
| | `DebuggerAlwaysSound` | `Spec => []DebuggerSound` |

### The heap

The assumption is `HeapAssumption`: objects, fields and roots are finite sets, the
special values are not among them, the bounds are numbers.

None of the properties is inductive alone. `SafeHeap` joins them, because the
reference counting half of the collector needs the marking half and conversely: a
sweep is safe because what it frees is not referred to, which is a fact about
marking (`MarkState`); a cascade is safe because a count of zero means no
reference, which is `RefcountExact`. It adds three facts that no run checks on
their own: `FreeCellsEmpty` (a freed cell's slots hold nothing, so that reusing the
cell does not bring counts back), `QueuedUnreferenced` (what waits on
`refzero_list`, and the object whose finalizer has just returned, has no reference
left) and `FinalizerContext` (where a finalizer call can be suspended and that its
argument slot holds exactly the object, so that the count of a running finalizer's
object is known). `MarkState` is the tri-colour invariant with the recursion
limit: a marked object that is neither on the recursion stack nor a temproot
refers to marked objects only, and every temproot has a scan of the heap coming.

The argument: lemmas about counting (`DropCount`, `StoreCount`) say how the number
of slots that hold an object changes with one store or with the release of a set
of slots; one lemma per action shows that it preserves `SafeHeap`; the steps that
touch neither counts nor lists share `QuietSteps` and `MarkingFrame`.

The second half of the module adds `FlagInv`: where FINALIZABLE and FINALIZED may be set,
that FINALIZED implies that the finalizer was called, and that what mark-and-sweep is
about to queue is unreachable. Reachability is stated as membership in every set that
holds the roots and is closed under references, so that it needs no induction: the
marked objects are such a set when marking is done. `CountInv` (a count on
`heap_allocated` is zero only between refcount finalization and sweep) needs that
refzero handling is switched off only inside mark-and-sweep. A paused debugger sets
`ms_running = 2`, which switches it off in ordinary code too; there the property is
false by design (the next mark-and-sweep finds the object), so `CountsAndFlagsHold`
assumes `~Debugger`. Everything else is proved with the debugger.

### Promises

The assumption is `PromiseAssumption`: the bounds are numbers and the special
values differ. `BaseInv` is `TypeOK`, `StoreOK` (the reactions and jobs that are stored
refer to promises and pairs that exist, carry the state and value their promise settled
with, and the two lists of a promise go together) and `ContextOK` (numbers are given out
in order; user code and the code that runs know only what exists). It is inductive for
nested drains too, and gives `PromiseState` and `NoLostWakeup`.

`OnceInv` says where every reaction is, that lists and queue are in the order of the
`then()` calls, and that the job that runs is the head of the queue, below one drain.
With re-entrant drains this is false: `promise_nested_drain` shows a job that is
unlinked twice. The last three theorems therefore assume `~Reentrant`. The
refinement maps every action of `DukPromise` to a settling, a `then()`, the run of a
reaction or a stuttering step of `PromiseSpec`.

### Calls and coroutines

The assumption is `ThreadAssumption`: a finite set of threads with the heap thread in
it, limits that are numbers. `ThreadInv` is inductive:

* `Frames`: the C frames among themselves. Only a protected call changes the thread, and
  only to one without frames; tops of the frames of one thread grow.
* `States`: who runs, who waits for whom. A thread other than the current one runs only
  while a protected call on another thread was made from it.
* `Match` and `Levels`: every frame finds its activation, and the callstack of every
  outer frame is still as deep as that frame left it, on the thread that was current
  there. This is what makes a return, an error path or a yield land where it should.
* `Owned`: an activation that was entered through C has its frame, unless a longjmp
  has jumped over it; then it and all above it are about to be unwound and have no catchers.
* `Acts`, `Shape`, `Pending`: what activations, suspended threads and the longjmp in
  progress look like.
* `PreventExact`, `PfExact`: the counters.
* `Chained`: each coroutine that has a resumer was resumed under one executor frame, and
  those under one frame form one chain that ends in the thread current in that frame.
  It is stated with two functions, `h` (the frame) and `d` (the place in the chain), whose
  existence is the invariant. Without it an error that ends a coroutine could not be
  shown to go on in a thread of the same executor.

Each action has a lemma. Actions of one kind share a lemma: `StayStep` (only the
innermost activation changes), `InnerPush`, `SafeEnter`, `PopStep`, `CutStep` (a longjmp
drops frames), `SwitchStep` (resume), `LeaveStep` (yield, the end of a coroutine).

`DukUnwind_proofs` rests on `ThreadInv`. `HandlingEnds` is the measure `ToUnwind`: a
handler step that does not end the handling loses a frame, an activation or a thread,
or turns a resume or yield into a throw, once. `FinallyNeverSkipped` needs `FinInv`: a
clause that is being run is not pending (`Fine`), nothing runs on top of `resume()` or
`yield()` (`SuspOK`), and what a protected call has called prevents yielding
(`SafeOn`), so that no coroutine can be suspended or unwound across a protected call
with its catchers still set. The interesting case is `SafeError`, which unwinds several
activations at once: it skips nothing because every one of them was emptied by the
executor that let the error pass.

### Creation and destruction of a heap

The theorems about states need no assumption; `RoundsShrink` needs that the objects are
finitely many and that a finalizer creates a number of them. The inductive invariant is
`LifeInv`: what exists of the heap at each point of the creation and when it fails
(`PartsOK`), what each step of `duk_heap_free` has freed (`FreesOK`), and who a finalizer
call is due to (`ObjectsOK`): a live object with a finalizer that is not marked FINALIZED, or
is and was rescued, so that a collection or a forced round will see it; none from the
freeing of the lists on. That last part is why the order of `duk_heap_free` matters. Without
a heap thread no finalizer can run; then no object with a finalizer exists yet, since only
the last allocations of the creation make the program possible.

### Strings

The assumption is `StringsAssumption`: addresses are finitely many, hashes and limits are
numbers, contents are byte sequences that do not begin with a continuation byte, a slot
count is at least one load unit. The inductive invariant is `StringsInv`:

* `Good(m)`: the table is exactly `Table(mem, size)`, the one that links each string once, in
  the chain of its hash; no two strings have one content (`Distinct`); `st_count` is their
  number; the strings of the literal cache are alive and pinned (`LitOK`); a cached offset is
  the offset of that character of a string that is alive (`CacheOK`).
* `HeldOK`: the program refers to live strings only.
* `OpOK`: from the lookup to the linking of a new string finalizers are prevented, so no
  string of the same content can appear meanwhile, whatever collections run; `st_resizing`
  is set exactly while the table is being reallocated, so no collection moves the table
  and the pointer given to the reallocation stays right.

The sizes of a table are the smallest set that holds the minimum and is closed under
doubling (`Sizes`), which makes a size halved by a shrink a size again without an induction.
`DoubleSlot` and `HalfSlot` say how the slot of a hash changes with the size. For the offset
cache, a byte offset belongs to a character when as many characters begin before it
(`Rank`, `Right`). That a scan finds such an offset is a counting argument: the characters
that begin after the starting point are as many as the ranks they can have, and ranks differ,
so each rank occurs. The three starting points of a scan share the lemmas for the two directions.

### Map and Set

The assumption is `MapAssumption`, the shape of the keys that are not objects. The inductive
invariant is `MapInv`:

* `Unshared(addr, AliveNow)`: objects that are alive have different addresses. It is
  inductive because a key keeps its object alive as long as its store is in use, and a new
  object gets the address of no living one. From it follows `NamesTellApart`: the names of
  two keys are equal exactly when `Norm` makes them the same, which is ECMAScript's
  SameValueZero except for strings cut at a NUL and values without a heap address.
* `StoreOK`, for every store, also one that only an iterator refers to: each entry is under
  the name of its key, and names differ.
* `Exact`: every store in use is its `abs`, entry for entry.
* `ItOK`: names are listed once; each key given has one of the names passed, so none is
  given twice although later objects may have taken the names; a key that is owed was given,
  or is still in the iterator's store under a name not reached yet. That store need not be the
  collection's: nothing deletes from a store that `clear` has replaced, so its iterators keep
  owing what they owed.

`PutKeeps` and `DelKeeps` show that setting and deleting a property do to the store what
`set` and `delete` do to the collection; `IteratorGives` and `IteratorEnds` are the two
outcomes of `next`.

### Debugger

The assumption is `DebuggerAssumption`. `DebuggerInv` relates the target `m`, the place `pc`,
the messages on the way and what the client knows:

* `Settled`: collections are prevented exactly while paused; pause flags and active
  breakpoints need a connection; `dbg_pause_act` is an activation of the callstack.
* `Knows`, `Sent`, `Owes`: the client knows the state of the target unless it is still to be
  sent, which it is before the target reads; the answers it is owed are the requests on the way.
* `PlaceOK`: the message loop is not entered twice, and from where it was entered.
* `WatchOK`: while running with a connection, the breakpoints of the top activation are
  marked (`InSync`) and the interrupt comes before its next instruction, or a restart of the
  executor does that first (`ExecOK`); a line that asks for a pause has been noticed before one
  of its instructions is executed (`Noticed`).

A detached callback may attach again. When that handshake cannot be written the target is
paused without a transport, and the next attach then finds it paused already and does not
announce it. `DebuggerSound` names this state instead of excluding it: a target without a
transport is paused exactly when it is `Stranded`, and the client of a later attach is marked as
one that was told nothing (`peer.status = "unsaid"`). The invariant carries both facts through
every step.

### Only model-checked

* Liveness (`GarbageFreed`, `PromisesProgress`, `DestructionEnds`, `BrokenRunsOn`): fairness and
  ENABLED are out of the prover's reach. `RoundsShrink` proves the measure behind
  `DestructionEnds`.
* The other components of the run `language`, which compare a computation with a reference
  definition: the definitions are RECURSIVE operators or folds, and what they compute for
  every input needs an induction over data.
* In the run `machine`: `DukWeakRefs` is written with RECURSIVE operators, because its hooks
  nest inside one operation; `DukScope` and `DukBuffers` compare with a reference definition;
  `DukValueStack` see the plan.
* The lemmas of the proofs use no induction over data either: where a sequence is
  filtered or searched, the last match is characterised as a maximum.

## 8. Not modelled

The components with status `not_modelled` in `PROJECT.json`, each with its reason:
numbers and dates (floating point is out of TLC's reach), BigInt (a front end of a
vendored library), Unicode (tables), error messages, bytecode dump and load, the other
library functions and the extensions without state. Inside the modelled parts:

* heap: emergency compaction, single-linked list builds;
* promises: the marking of the microtask queue by the collector;
* threads: value stacks (in `DukValueStack`) and scope objects (in `DukScope`);
* weak references: user finalizers of holders; memory that runs out in the back-table and in
  queueing a callback; in the run, programs with two WeakMaps;
* compiler: nested functions and closures (closures are in `DukScope`), regular
  expression literals, strict mode, tail calls (in `DukThread`), reading characters;
* regular expressions and JSON: UTF-8 and the reading of characters;
* JSON and CBOR: revivers that edit their holder; the pointer to a buffer's data that the
  CBOR encoder takes before its own buffer grows (`duk_bi_cbor.c:519`, `:576`), which the growth
  could only invalidate by a finalizer that resizes that very buffer; 8-byte integers that a
  double cannot hold, and 4- and 8-byte floats other than those that were encoded;
* property tables: calls of setters, proxies as targets, String and buffer objects;
* buffers: floats, external buffers, string conversions;
* arrays: inherited, read-only and accessor elements, proxies (but as arguments of `concat`), `reduce` callbacks
  that change the array.

## 9. Plan

1. Proofs about the value stack, and about the weak reference tables, which first need
   their nested hooks as steps of their own.
2. A composition of promises and the collector: the microtask queue and the pending
   callbacks as roots, with the order in which the collector marks them.
3. Nested functions in `DukCompiler`; proxies in `DukProps`.
4. Dates and the number conversions on integers with explicit width.

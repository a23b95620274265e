----------------------------- MODULE DukPromise -----------------------------
(***************************************************************************)
(* Native promises and the microtask queue (duk_rp_promise_native.c).      *)
(*                                                                         *)
(* User code creates promises, attaches handlers with then() and calls     *)
(* resolve and reject functions.  Handlers and the then() methods of       *)
(* foreign thenables are user code too; they run from the microtask queue, *)
(* which duk_rp_microtask_drain() empties.  frames is the nesting of       *)
(* executors, drains and jobs, innermost first.                            *)
(*                                                                         *)
(* then() stands for catch() and finally() as well, which only choose the  *)
(* handlers, and Promise.all() and its kin are user code on top of it.     *)
(***************************************************************************)
EXTENDS Naturals, Sequences, FiniteSets

CONSTANTS MaxPromise,  \* promises ever created
          MaxPair,     \* resolve/reject pairs ever created
          MaxOps,      \* operations of user code
          MaxDepth,    \* nesting of drains, executors and jobs
          Rooms,       \* how many allocations of one operation may succeed
          Reentrant,   \* TRUE when jobs may call the drainer again
          PLAIN,       \* a value without a then method
          ERR,         \* an error object
          THENABLE,    \* a foreign object with a then method
          BADTHEN,     \* an object whose then getter throws
          NONE, USER   \* no handler, a handler that is user code

Promise == 1..MaxPromise
Pair == 1..MaxPair
Kind == {"resolve", "reject"}
Cap == Pair \X Kind

ASSUME PromiseAssumption ==
  /\ MaxPromise \in Nat /\ MaxPair \in Nat /\ MaxOps \in Nat /\ MaxDepth \in Nat
  /\ Rooms \subseteq Nat /\ Rooms # {}
  /\ Reentrant \in BOOLEAN
  /\ {PLAIN, ERR, THENABLE, BADTHEN, NONE} \cap Promise = {}
  /\ {NONE, USER} \cap Cap = {}

Value == Promise \cup {PLAIN, ERR, THENABLE, BADTHEN}
Handler == Cap \cup {NONE, USER}

\* An entry of p_fq or p_rq; the resolve and reject capability it holds are
\* those of one pair.
Reaction == [handler : Handler, pair : Pair]
ReactionJob == [type : {"reaction"}, rtype : {"fulfilled", "rejected"},
                handler : Handler, pair : Pair, value : Value]
ThenableJob == [type : {"thenable"}, promise : Promise,
                thenable : Promise \cup {THENABLE}]
Job == ReactionJob \cup ThenableJob
Frame == [kind : {"drain"}] \cup [kind : {"ctor"}, promise : Promise]
           \cup [kind : {"handler"}, pair : Pair, pos : Nat]
           \cup [kind : {"then"}, pair : Pair, pos : Nat]

VARIABLES
  state, result,   \* p_state and p_result, "free" before creation
  fq, rq,          \* p_fq and p_rq
  target,          \* cap_target of each pair
  done,            \* capability functions with cap_done set
  held,            \* pairs user code was given
  known,           \* promises user code can name
  queue,           \* the microtask queue
  unlinked,        \* how many microtasks have been unlinked
  wake,            \* the notifier was called and no drain has started since
  frames,
  ops,
  source,          \* history: the promise each then() call was made on
  ran,             \* history: the then() calls whose reaction ran, in order
  lost             \* history: the then() calls abandoned for want of memory

stored == <<state, result, fq, rq, queue, lost>>
vars == <<stored, target, done, held, known, unlinked, wake, frames, ops, source,
          ran>>

TypeOK ==
  /\ state \in [Promise -> {"free", "pending", "fulfilled", "rejected"}]
  /\ result \in [Promise -> Value]
  /\ fq \in [Promise -> Seq(Reaction)]
  /\ rq \in [Promise -> Seq(Reaction)]
  /\ target \in [Pair -> Promise \cup {NONE}]
  /\ done \subseteq Cap /\ held \subseteq Pair /\ known \subseteq Promise
  /\ queue \in Seq(Job) /\ unlinked \in Nat /\ wake \in BOOLEAN
  /\ frames \in Seq(Frame) /\ ops \in 0..MaxOps
  /\ source \in [Pair -> Promise \cup {NONE}]
  /\ ran \in Seq(Pair) /\ lost \subseteq Pair

Init ==
  /\ state = [p \in Promise |-> "free"] /\ result = [p \in Promise |-> PLAIN]
  /\ fq = [p \in Promise |-> <<>>] /\ rq = [p \in Promise |-> <<>>]
  /\ target = [c \in Pair |-> NONE] /\ done = {} /\ held = {} /\ known = {}
  /\ queue = <<>> /\ unlinked = 0 /\ wake = FALSE
  /\ frames = <<>> /\ ops = 0
  /\ source = [c \in Pair |-> NONE] /\ ran = <<>> /\ lost = {}

-----------------------------------------------------------------------------
(* The promise state helpers, as functions of the stored state s.  room is  *)
(* how many microtasks can be allocated before memory runs out; the next    *)
(* allocation throws, which abandons the rest of the operation.             *)

Store == [state |-> state, result |-> result, fq |-> fq, rq |-> rq,
          queue |-> queue, lost |-> lost]

Least(a, b) == IF a <= b THEN a ELSE b

\* duk__pmt_enqueue() of the jobs, in order.
EnqueueInFront(s, jobs, room) ==
  LET n == Least(room, Len(jobs))
  IN  [s EXCEPT !.queue = SubSeq(jobs, 1, n) \o @,
                !.lost = @ \cup {jobs[i].pair : i \in (n + 1)..Len(jobs)}]
Enqueue(s, jobs, room) ==
  LET n == Least(room, Len(jobs))
  IN  [s EXCEPT !.queue = @ \o SubSeq(jobs, 1, n),
                !.lost = @ \cup {jobs[i].pair : i \in (n + 1)..Len(jobs)}]

ReactionOf(r, st, v) ==
  [type |-> "reaction", rtype |-> st, handler |-> r.handler, pair |-> r.pair,
   value |-> v]

\* The reactions duk__ptrigger_reactions() turns into microtasks.
Reactions(s, p, st) == IF st = "fulfilled" THEN s.fq[p] ELSE s.rq[p]

\* duk__pfulfill_promise() and duk__preject_promise().
SettleKeepReactions(s, p, st, v, room) ==   \* mutant of Settle
  IF s.state[p] # "pending" THEN s
  ELSE [s EXCEPT !.state[p] = st, !.result[p] = v, !.fq[p] = <<>>, !.rq[p] = <<>>]
Settle(s, p, st, v, room) ==
  IF s.state[p] # "pending" THEN s
  ELSE LET rs == Reactions(s, p, st)
           jobs == [i \in 1..Len(rs) |-> ReactionOf(rs[i], st, v)]
           t == [Enqueue(s, jobs, room) EXCEPT !.state[p] = st, !.result[p] = v]
       IN  IF room < Len(rs) THEN t ELSE [t EXCEPT !.fq[p] = <<>>, !.rq[p] = <<>>]

AdoptLater(s, p, v, room) ==
  IF room = 0 THEN s
  ELSE [s EXCEPT !.queue = Append(@, [type |-> "thenable", promise |-> p,
                                      thenable |-> v])]

\* duk__presolve_promise().
ResolveNoAdopt(s, p, v, room) ==   \* mutant of Resolve
  IF s.state[p] # "pending" \/ v = BADTHEN THEN s
  ELSE IF v = p THEN Settle(s, p, "rejected", ERR, room)
  ELSE IF v = THENABLE THEN AdoptLater(s, p, v, room)
  ELSE Settle(s, p, "fulfilled", v, room)
Resolve(s, p, v, room) ==
  IF s.state[p] # "pending" \/ v = BADTHEN THEN s
  ELSE IF v = p THEN Settle(s, p, "rejected", ERR, room)
  ELSE IF v \in Promise /\ s.state[v] \in {"fulfilled", "rejected"}
  THEN Settle(s, p, s.state[v], s.result[v], room)
  ELSE IF v \in Promise \cup {THENABLE} THEN AdoptLater(s, p, v, room)
  ELSE Settle(s, p, "fulfilled", v, room)

\* duk__pcap_resolve() and duk__pcap_reject(): each function of a pair has its
\* own cap_done.
Call(s, cap, v, room) ==
  IF cap \in done THEN s
  ELSE IF cap[2] = "resolve" THEN Resolve(s, target[cap[1]], v, room)
  ELSE Settle(s, target[cap[1]], "rejected", v, room)

\* Whether a call of cap with a settled value throws for want of memory.
CallFails(s, cap, room) ==
  /\ cap \notin done /\ s.state[target[cap[1]]] = "pending"
  /\ room < Len(Reactions(s, target[cap[1]],
                          IF cap[2] = "resolve" THEN "fulfilled" ELSE "rejected"))

\* duk__promise_then() on p: a pending promise stores both reactions, a settled
\* one schedules the matching one at once.
ThenUnordered(s, p, hf, hr, c, room) ==   \* mutant of ThenReactions
  IF s.state[p] = "pending"
  THEN [s EXCEPT !.fq[p] = Append(@, [handler |-> hf, pair |-> c]),
                 !.rq[p] = Append(@, [handler |-> hr, pair |-> c])]
  ELSE LET h == IF s.state[p] = "fulfilled" THEN hf ELSE hr
       IN  EnqueueInFront(s, <<ReactionOf([handler |-> h, pair |-> c], s.state[p],
                                          s.result[p])>>, room)
ThenReactions(s, p, hf, hr, c, room) ==
  IF s.state[p] = "pending"
  THEN [s EXCEPT !.fq[p] = Append(@, [handler |-> hf, pair |-> c]),
                 !.rq[p] = Append(@, [handler |-> hr, pair |-> c])]
  ELSE LET h == IF s.state[p] = "fulfilled" THEN hf ELSE hr
       IN  Enqueue(s, <<ReactionOf([handler |-> h, pair |-> c], s.state[p],
                                   s.result[p])>>, room)

\* The stored state becomes s.  The notifier is called when the queue becomes
\* non-empty.
WakesIfStillEmpty(s) == s.queue = <<>>   \* mutant of Wakes
Wakes(s) == queue = <<>> /\ s.queue # <<>>

Becomes(s) ==
  /\ state' = s.state /\ result' = s.result /\ fq' = s.fq /\ rq' = s.rq
  /\ lost' = s.lost
  /\ wake' = (wake \/ Wakes(s))

NextPromise == 1 + Cardinality({p \in Promise : state[p] # "free"})
NextPair == 1 + Cardinality({c \in Pair : target[c] # NONE})

New(s, p) == [s EXCEPT !.state[p] = "pending"]

\* The bounds leave room for more promises and pairs.
CanCreate(promises, pairs) ==
  NextPromise + promises <= MaxPromise + 1 /\ NextPair + pairs <= MaxPair + 1

-----------------------------------------------------------------------------
(* User code. *)

Draining == \E i \in 1..Len(frames) : frames[i].kind = "drain"
UserCode == frames # <<>> => frames[1].kind # "drain"
Values == known \cup {PLAIN, THENABLE, BADTHEN}   \* to resolve with
Reasons == known \cup {ERR}                        \* to reject with

Op == /\ UserCode
      /\ ops < MaxOps
      /\ ops' = ops + 1

\* The Promise constructor up to the call of the executor, which gets the pair.
NewPromise ==
  /\ Op
  /\ CanCreate(1, 1) /\ Len(frames) < MaxDepth
  /\ Becomes(New(Store, NextPromise))
  /\ target' = [target EXCEPT ![NextPair] = NextPromise]
  /\ held' = held \cup {NextPair}
  /\ frames' = <<[kind |-> "ctor", promise |-> NextPromise]>> \o frames
  /\ UNCHANGED <<queue, done, known, unlinked, source, ran>>

\* The executor returned, or threw and the promise is rejected.
CtorReturn(throws) ==
  /\ frames # <<>> /\ frames[1].kind = "ctor"
  /\ LET p == frames[1].promise
         s == IF throws THEN Settle(Store, p, "rejected", ERR, 0) ELSE Store
     IN  /\ Becomes(s)
         /\ queue' = s.queue
         /\ known' = known \cup {p}
  /\ frames' = Tail(frames)
  /\ UNCHANGED <<target, done, held, unlinked, ops, source, ran>>

\* A call of a resolve or reject function.
CapCall(cap, v, room) ==
  /\ Op
  /\ cap[1] \in held /\ cap \notin done
  /\ LET s == Call(Store, cap, v, room)
     IN  Becomes(s) /\ queue' = s.queue
  /\ done' = done \cup {cap}
  /\ UNCHANGED <<target, held, known, unlinked, frames, source, ran>>

\* Promise.prototype.then().
Then(p, hf, hr, room) ==
  /\ Op
  /\ CanCreate(1, 1)
  /\ p \in known
  /\ LET s == ThenReactions(New(Store, NextPromise), p, hf, hr, NextPair, room)
     IN  Becomes(s) /\ queue' = s.queue
  /\ target' = [target EXCEPT ![NextPair] = NextPromise]
  /\ source' = [source EXCEPT ![NextPair] = p]
  /\ known' = IF state[p] # "pending" /\ room = 0 THEN known   \* then() throws
              ELSE known \cup {NextPromise}
  /\ UNCHANGED <<done, held, unlinked, frames, ran>>

\* Promise.resolve() of a value that is not a promise, and Promise.reject().
PromiseResolve(v, room) ==
  /\ Op
  /\ CanCreate(1, 0)
  /\ v \notin Promise
  /\ LET s == Resolve(New(Store, NextPromise), NextPromise, v, room)
     IN  Becomes(s) /\ queue' = s.queue
  /\ known' = IF v = BADTHEN \/ (v = THENABLE /\ room = 0) THEN known   \* it throws
              ELSE known \cup {NextPromise}
  /\ UNCHANGED <<target, done, held, unlinked, frames, source, ran>>

PromiseReject(v) ==
  /\ Op
  /\ CanCreate(1, 0)
  /\ LET s == Settle(New(Store, NextPromise), NextPromise, "rejected", v, 0)
     IN  Becomes(s) /\ queue' = s.queue
  /\ known' = known \cup {NextPromise}
  /\ UNCHANGED <<target, done, held, unlinked, frames, source, ran>>

-----------------------------------------------------------------------------
(* duk_rp_microtask_drain(). *)

drained == <<target, done, held, known, unlinked, ops, source, ran>>

\* From the event loop, after the notifier was called.
WakeDrain ==
  /\ frames = <<>>
  /\ wake
  /\ wake' = FALSE
  /\ frames' = <<[kind |-> "drain"]>>
  /\ UNCHANGED <<stored, drained>>

\* From code that calls __drainMicrotasks(), or an embedder between evaluations.
CallDrain ==
  /\ UserCode
  /\ queue # <<>>
  /\ Reentrant \/ ~Draining
  /\ Len(frames) < MaxDepth
  /\ frames' = <<[kind |-> "drain"]>> \o frames
  /\ UNCHANGED <<stored, wake, drained>>

AtLoopTop == frames # <<>> /\ frames[1].kind = "drain"

DrainEnd ==
  /\ AtLoopTop
  /\ queue = <<>>
  /\ frames' = Tail(frames)
  /\ UNCHANGED <<stored, wake, drained>>

\* The head stays in the queue while it runs.  Afterwards it is unlinked; had
\* another drain already unlinked it, its next pointer would be garbage.
UnlinkFirst(s, pos) ==
  IF pos = unlinked + 1 THEN queue' = Tail(s.queue)
  ELSE \E n \in 0..Len(s.queue) : queue' = SubSeq(s.queue, n + 1, Len(s.queue))
Unlink(s, pos) ==
  /\ unlinked' = unlinked + 1
  /\ UnlinkFirst(s, pos)

\* duk__pmt_reaction_run() without a handler: the value goes straight to the
\* result promise.
PassThroughCap(m) == <<m.pair, IF m.rtype = "fulfilled" THEN "resolve" ELSE "reject">>
PassThrough(room) ==
  /\ AtLoopTop /\ queue # <<>>
  /\ queue[1].type = "reaction" /\ queue[1].handler = NONE
  /\ LET m == queue[1]
         s == Call(Store, PassThroughCap(m), m.value, room)
     IN  /\ Becomes(s)
         /\ Unlink(s, unlinked + 1)
         /\ done' = done \cup {PassThroughCap(m)}
         /\ ran' = Append(ran, m.pair)
  /\ UNCHANGED <<target, held, known, frames, ops, source>>

\* The handler is a capability function, from the adoption of a promise: call
\* it, then the resolve or reject function of the result promise.
AdoptedSettles(room) ==
  /\ AtLoopTop /\ queue # <<>>
  /\ queue[1].type = "reaction" /\ queue[1].handler \in Cap
  /\ LET m == queue[1]
         fails == CallFails(Store, m.handler, room)
         s == Call(Store, m.handler, m.value, room)
         cap == <<m.pair, IF fails THEN "reject" ELSE "resolve">>
         t == Call(s, cap, IF fails THEN ERR ELSE PLAIN, 0)
     IN  /\ Becomes(t)
         /\ Unlink(t, unlinked + 1)
         /\ done' = done \cup {m.handler, cap}
         /\ ran' = Append(ran, m.pair)
  /\ UNCHANGED <<target, held, known, frames, ops, source>>

\* The handler is user code.
CallHandler ==
  /\ AtLoopTop /\ queue # <<>>
  /\ queue[1].type = "reaction" /\ queue[1].handler = USER
  /\ frames' = <<[kind |-> "handler", pair |-> queue[1].pair,
                  pos |-> unlinked + 1]>> \o frames
  /\ ran' = Append(ran, queue[1].pair)
  /\ UNCHANGED <<stored, target, done, held, known, unlinked, wake, ops, source>>

\* The handler returned v, or threw.
HandlerReturn(kind, v, room) ==
  /\ frames # <<>> /\ frames[1].kind = "handler"
  /\ LET f == frames[1]
         s == Call(Store, <<f.pair, kind>>, v, room)
     IN  /\ Becomes(s)
         /\ Unlink(s, f.pos)
         /\ done' = done \cup {<<f.pair, kind>>}
  /\ frames' = Tail(frames)
  /\ UNCHANGED <<target, held, known, ops, source, ran>>

\* The handlers of the then() call that adopts a promise.
AdoptHandlers(c) == <<<<c, "resolve">>, <<c, "reject">>>>

\* duk__pmt_thenable_run() for a native promise: its then() with a fresh pair
\* for the adopting promise as the handlers.  If then() fails the promise is
\* rejected.
AdoptPromise(room) ==
  /\ AtLoopTop /\ queue # <<>>
  /\ queue[1].type = "thenable" /\ queue[1].thenable \in Promise
  /\ CanCreate(1, 2)
  /\ LET m == queue[1]
         c == NextPair
         fails == state[m.thenable] # "pending" /\ room = 0
         h == AdoptHandlers(c)
         s == ThenReactions(New(Store, NextPromise), m.thenable, h[1], h[2], c + 1,
                            room)
         t == IF fails THEN Settle(s, m.promise, "rejected", ERR, room) ELSE s
     IN  /\ Becomes(t)
         /\ Unlink(t, unlinked + 1)
         /\ target' = [target EXCEPT ![c] = m.promise, ![c + 1] = NextPromise]
         /\ source' = [source EXCEPT ![c + 1] = m.thenable]
         /\ done' = IF fails THEN done \cup {<<c, "reject">>} ELSE done
  /\ UNCHANGED <<held, known, frames, ops, ran>>

\* The same for a foreign thenable: its then method is user code.
CallThen ==
  /\ AtLoopTop /\ queue # <<>>
  /\ queue[1].type = "thenable" /\ queue[1].thenable = THENABLE
  /\ CanCreate(0, 1)
  /\ target' = [target EXCEPT ![NextPair] = queue[1].promise]
  /\ held' = held \cup {NextPair}
  /\ frames' = <<[kind |-> "then", pair |-> NextPair, pos |-> unlinked + 1]>> \o frames
  /\ UNCHANGED <<stored, done, known, unlinked, wake, ops, source, ran>>

\* The pair for the then method cannot be allocated: the microtask is abandoned.
AdoptionAbandoned ==
  /\ AtLoopTop /\ queue # <<>>
  /\ queue[1].type = "thenable"
  /\ 0 \in Rooms
  /\ Unlink(Store, unlinked + 1)
  /\ UNCHANGED <<state, result, fq, rq, lost, target, done, held, known, wake,
                 frames, ops, source, ran>>

\* It returned, or threw, which rejects.
ThenMethodReturn(throws, room) ==
  /\ frames # <<>> /\ frames[1].kind = "then"
  /\ LET f == frames[1]
         cap == <<f.pair, "reject">>
         s == IF throws THEN Call(Store, cap, ERR, room) ELSE Store
     IN  /\ Becomes(s)
         /\ Unlink(s, f.pos)
         /\ done' = IF throws THEN done \cup {cap} ELSE done
  /\ frames' = Tail(frames)
  /\ UNCHANGED <<target, held, known, ops, source, ran>>

-----------------------------------------------------------------------------
User ==
  \/ NewPromise
  \/ \E c \in Pair, v \in Values, room \in Rooms : CapCall(<<c, "resolve">>, v, room)
  \/ \E c \in Pair, v \in Reasons, room \in Rooms : CapCall(<<c, "reject">>, v, room)
  \/ \E p \in known, hf, hr \in {NONE, USER}, room \in Rooms : Then(p, hf, hr, room)
  \/ \E v \in Values, room \in Rooms : PromiseResolve(v, room)
  \/ \E v \in Reasons : PromiseReject(v)

\* The end of a call of user code.
Return ==
  \/ \E throws \in BOOLEAN : CtorReturn(throws)
  \/ \E v \in Values, room \in Rooms : HandlerReturn("resolve", v, room)
  \/ \E room \in Rooms : HandlerReturn("reject", ERR, room)
  \/ \E throws \in BOOLEAN, room \in Rooms : ThenMethodReturn(throws, room)

RunJob ==
  \/ \E room \in Rooms : PassThrough(room) \/ AdoptedSettles(room) \/ AdoptPromise(room)
  \/ CallHandler \/ CallThen \/ AdoptionAbandoned

Next == User \/ Return \/ WakeDrain \/ CallDrain \/ RunJob \/ DrainEnd

Spec == Init /\ [][Next]_vars

\* User code returns, the drain loop runs on, and a drain that the notifier
\* asked for happens.
FairSpec ==
  /\ Spec
  /\ WF_vars(Return) /\ WF_vars(RunJob \/ DrainEnd) /\ WF_vars(WakeDrain)

-----------------------------------------------------------------------------
(* Properties. *)

\* Promises behave as the abstract specification says: they settle once and for
\* good, and the reactions of a promise run at most once, after it settled, in
\* the order they were attached, before and after settling alike.
Abstract == INSTANCE PromiseSpec
ImplementsPromises == Abstract!Spec

Settled(p) == state[p] \in {"fulfilled", "rejected"}
Attached == {c \in Pair : source[c] # NONE}

\* The places the reaction of a then() call can be in.
Waiting(c) == /\ state[source[c]] = "pending"
              /\ \E i \in 1..Len(fq[source[c]]) : fq[source[c]][i].pair = c
QueuedAt(c) == {i \in 1..Len(queue) : queue[i].type = "reaction" /\ queue[i].pair = c}
RanAt(c) == {i \in 1..Len(ran) : ran[i] = c}

\* The microtask whose user code is running, still at the head of the queue.
RunningHead(c) == \E i \in 1..Len(frames) : frames[i].kind = "handler"
                                           /\ frames[i].pair = c

\* Every then() call is in exactly one place: waiting for a pending promise,
\* queued once as a microtask, or run, unless memory ran out when it was to be
\* queued.  No reaction is lost or doubled when a promise settles from inside a
\* handler, an executor or an adoption.
ReactionOnce ==
  \A c \in Attached :
    LET places == (IF Waiting(c) THEN 1 ELSE 0) + Cardinality(QueuedAt(c))
                    + Cardinality(RanAt(c)) - (IF RunningHead(c) THEN 1 ELSE 0)
    IN  places = IF c \in lost THEN 0 ELSE 1

\* A queued reaction carries the state and the value its promise settled with,
\* although it runs much later.
JobsMatch ==
  \A i \in 1..Len(queue) :
    queue[i].type = "reaction" =>
      LET p == source[queue[i].pair]
      IN  queue[i].rtype = state[p] /\ queue[i].value = result[p]

\* A drain is running or has been asked for whenever a microtask is queued, so
\* an event loop that sleeps until the notifier is called misses nothing.
NoLostWakeup == queue # <<>> => wake \/ Draining

\* A promise is never fulfilled with a promise or a thenable, however long the
\* chain of adoptions: what it is fulfilled with was unwrapped.
FulfilledUnwrapped ==
  \A p \in Promise : state[p] = "fulfilled" => result[p] = PLAIN

\* What is stored of promises, reactions and jobs is consistent across adoptions
\* and drains: well formed, jobs that match the state of their promise, and values
\* that were unwrapped.
PromiseState == TypeOK /\ JobsMatch /\ FulfilledUnwrapped

\* Each microtask runs while it is the head of the queue and is unlinked when it
\* is done ("Now safe to unlink and release"): no other drain has unlinked and
\* freed it meanwhile.
UnlinkedOnce ==
  \A i \in 1..Len(frames) :
    frames[i].kind \in {"handler", "then"} => frames[i].pos = unlinked + 1

\* Once the resolve function of a pair was called, the reject function of the
\* pair has no effect any more, also while a thenable is being adopted ("Calls to
\* previous resolve/reject ... are no-op").
OtherCallsNoOp ==
  [][\A c \in held :
       (<<c, "resolve">> \in done /\ <<c, "reject">> \in done' \ done)
         => UNCHANGED <<state, result>>]_vars

\* Every then() handler of a settled promise is run in the end.
Due(c) == c \in Attached /\ Settled(source[c])
Ran(c) == c \in {ran[i] : i \in 1..Len(ran)}
ReactionsRun == \A c \in Pair : Due(c) ~> Ran(c)

\* p was resolved with the promise v: the adoption is queued, or its then() call
\* (pair c + 1) was made with a pair c that no user code ever sees.
Adopting(p, v) ==
  \/ \E i \in 1..Len(queue) : /\ queue[i].type = "thenable"
                             /\ queue[i].promise = p /\ queue[i].thenable = v
  \/ \E c \in 1..(MaxPair - 1) : /\ target[c] = p /\ source[c] = NONE
                                /\ c \notin held /\ source[c + 1] = v

\* A promise resolved with another promise settles once the other has settled.
AdoptsSettled(p) == \E v \in Promise : Settled(v) /\ Adopting(p, v)
AdoptionSettles == \A p \in Promise : AdoptsSettled(p) ~> Settled(p)

=============================================================================

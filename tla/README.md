# proxy-wasm-host in TLA+

A verification development of the crate `proxy-wasm-host`, a host for
Proxy-Wasm plugins (ABI 0.2.1) on wasmtime. Paths below are relative to
`crates/proxy-wasm-host/src/`; `A/` stands for `abi/v0_2_1/`.

## 1. The system

An *embedder* (a proxy) compiles a plugin, builds a `Guest` from it and drives
the guest through methods that call the plugin's exported callbacks. While a
callback runs, the plugin calls *host functions*, which act on the guest's
state, on the embedder's stream state and on the embedder's services. Every
method borrows the guest mutably, so one guest is sequential; what makes it
hard is that the plugin is arbitrary code that runs in the middle of a method,
that a call may trap or unwind, and that several methods call the plugin more
than once.

| Component | State | Operations | Interacts with |
|---|---|---|---|
| Context table (`A/context/table.rs`) | live contexts with parent, state, refusal, plugin, stream family, tick period; the effective context; the VM's refusal; the next identifier | create, remove, set_state, reject, set_plugin, set_stream_kind, set_effective, done | every callback and every host function |
| Callout table (`A/callout.rs`) | open callouts with kind, caller, root, half-close; the next identifier, which wraps | reserve, enter, remove, close_by_guest, made_by, issued | callout host functions, deliveries, on_delete |
| Call scope (`A/call_scope.rs`, `A/call_scope/`) | the stream context it serves | the lifecycle, stream, delivery and finalizing callbacks; finish, drop | the guest it borrows |
| Guest (`A/guest.rs`, `A/guest/`) | poison, current callback, detached stream state | enter, start, take_stream, expect_stream_kind, queries | scopes, runtime |
| ABI state (`A/state.rs`, `A/state/`) | delivery, announced size, deleting mark, VM started mark, grants, held names, registrants, changes | setters and settle_grants | host functions |
| Host functions (`A/host_functions/`) | none of their own | callouts, gRPC, contexts, buffers, maps, queues, metrics, shared data, properties, timers, logs | all of the above and the embedder's services |
| Shared store (`A/shared_services/`) | values with CAS, queues, metrics, limits | set/get, register, resolve, enqueue, dequeue, define, record, increment | several guests at once, an observer |
| Runtime (`runtime/`) | engine epoch and its ticker, budget, memory, poison | call_on, fail, allocation, range checks | wasmtime |
| Codec (`codec/`, `header_map.rs`, `buffer.rs`) | none | pairs, paths, header maps, buffer splices | host functions |
| WASI functions (`A/wasi.rs`) | none of their own | fd_write, clocks, randomness, arguments, environment, proc_exit | memory, the embedder's log, clock and randomness |
| Construction (`abi/version.rs`, `runtime/module.rs`, `runtime/instance.rs`, `A/guest/callbacks.rs`) | what a module exports | detect, instantiate, run the start functions, resolve callbacks | the guest's own code, with host functions linked |
| Guest spec (`A/guest_spec.rs`) | build and poison counters | build, drop of a guest | pools of the embedder |
| Worker pool (`examples/http_workers/` of the crate) | one thread and one guest per worker, channels, the route of each queue | dispatch, serve a job, replace a lost guest, wake for a queue | guests, the store's observer |

What is hard, and what correctness means for each part:

* **Re-entrance.** `on_delete` fails the open callouts of a context one by one
  and the guest may open, cancel and close callouts from inside each delivery.
  Correct: the loop ends, no callout is lost or told twice, the embedder can
  account for every request it sent.
* **Check, run, act.** Methods check a condition, run the guest, and act on the
  result of the check (children of a root, refusal of a root, existence of a
  callout). Correct: the condition still holds, or it does not matter.
* **Failure.** A trap or a limit poisons the guest; a panic of the embedder's
  own code unwinds through the guest and skips the rest of the method. Correct:
  no guest runs on state that a callback left half updated, and what the tables
  say after the failure is what the embedder needs.
* **Scoped state.** Deliveries, announced sizes, the deleting mark and the
  stream state exist for one callback or one scope. Correct: none is seen by
  another callback, none is lost in silence.
* **Sharing.** The store is used by guests on several threads, and its small
  identifiers are guarded by what each guest was granted, against the services it
  has now. Correct: no update is lost to a compare-and-swap, every item is
  announced and none is lost or doubled without a failed write, an identifier
  means the same queue for as long as the guest may use it.
* **Untrusted arguments.** Host functions take pointers, lengths and encodings
  from the guest, and run its allocator in the middle of a call. Correct: `OK` is
  only answered when the thing was done, a failure leaves nothing done, and the
  embedder is asked only after the guest's arguments have been checked.
* **Time.** A thread of the engine advances the epoch against calls that begin
  anywhere between two ticks. Correct: a call that loops is stopped.
* **Threads of the embedder.** The example pool wakes a worker from another
  worker's thread, and replaces guests it lost. Correct: no job is forgotten, and
  no worker waits for itself.

The complete list of components and hazards is in `PROJECT.json`.

## 2. The modules

| Module | Models |
|---|---|
| `ContextTable` | the methods of the context table as operators on a function from identifiers to entries |
| `CalloutTable` | the methods of the callout table, likewise |
| `Guest` | one guest: the methods of `Guest` and `CallScope`, the host functions that touch contexts and callouts, the guest's returns, traps and panics |
| `GuestProofs` | lemmas on the tables, that every step keeps the types and the invariant, and the theorems about a guest |
| `SharedProofs`, `SharedRefinementProofs` | the invariant of the shared state; items, updates, limits and changes; the refinement, step by step |
| `Iteration` | induction over sets of numbers, and what a recursive function or a fold computes |
| `FormatsProofs` | words, memories, maps, buffers, the codec and paths: the theorems about the formats, and the lemmas that the next two use |
| `HostCallsProofs`, `HostAnswersProofs` | the theorems about the host functions: who is asked and what a failure leaves; types, log lines, and what an `OK` is worth |
| `ProcessProofs` | the theorems about the callout identifiers, the epoch clock, the construction of a guest and the worker pool |
| `CalloutIds` | the identifier counter of the callout table with its wrap, one action per turn of `reserve` |
| `SharedStore` | the methods of `InMemoryStore`, each one critical section |
| `SharedGuests` | guests on threads of their own that use stores: the shared data, queue, metric and timer host functions, grants, held names, registrants, changes, `settle_grants`, `on_queue_ready`, `take_changes`, replaced services and rebuilt guests |
| `Sharing` | what the services promise, with no identifiers in it (the abstract specification) |
| `SharedRefinement` | the refinement mapping from `SharedGuests` to `Sharing` |
| `GuestMemory` | the guest's memory and the host's checked accesses, with the width of a byte and of a word as parameters |
| `Codec`, `HeaderMaps` | the pair codec, property paths, the header map and the buffer, byte by byte |
| `Formats` | what those promise, as predicates over an input |
| `HostBodies` | the checks of every host function, in the order of the code |
| `HostCalls` | one callback as its host functions see it: check, resolve who answers, allocate in the guest, write |
| `Wasi` | the eight WASI functions on the same state |
| `Engine` | the epoch clock, its thread, and the budget of a call |
| `Building` | from a module to a guest: `GuestSpec::new`, ABI detection, instantiation, start functions, callbacks |
| `Workers` | the worker pool of the example, with the counters of `GuestSpec` |
| `Types` | the enumerations of the ABI with their numbers |
| `DataTests`, `TableTests`, `HostTests` | the crate's unit tests of the pure parts, of the tables, and of the host and WASI functions, run on the operators of the modules above |
| `MCGuest`, `MCGuestParts`, `MCSharedGuests`, `MCHostCalls`, `MCProcess` | instances for TLC: the operations and inputs of a question, several questions side by side as `part`s that share no step |

### How Guest corresponds to the code

Each variable names the field it stands for. A method that runs the guest is
split at the guest call: the action before it does the method's checks (its
guard) and everything up to the call, and pushes `frame`; the host functions are
actions that are enabled while there is a frame; the action that pops the frame
is the rest of the method. `on_delete` and `start` call the guest several times:
`deletion` and `starting` hold their local variables, and `FailNext`,
`CallDelete`, `EndDelete`, `StartVm`, `StartRoot`, `StartTooLarge` are the
stretches of code between two guest calls. `Trap` is an error that passes up
through `deliver`, `on_delete` and `start`, each tidying up as the code does
(`deliver` restores the entry it took, `on_delete` clears the mark, `start`
refuses the VM or the root). `Panic` runs none of that; of the destructors only
the scope of `start` is on the way. A scope of the embedder may then be dropped,
finished, used again or forgotten.

A call that fails without changing anything is a stuttering step, so early
returns appear as guards. The exceptions are kept: `on_log` and `on_delete` fail
after the scope recorded the stream (`OnLog`, `OnDelete`), `start` fails after it
entered its scope (`StartRefused`), any callback poisons a guest whose last
callback was cut (`RefuseCutGuest`), a refused request spends an identifier
(`OpenCallout` with `taken` false).

Data is abstracted to what the control depends on: the six HTTP and five TCP
callbacks are five classes (family, announced size or not, answers an action or
not); configurations are root ids; payloads are the callback and the callout they
belong to; a guest that does not export a callback behaves as one that returns at
once. `requests` is the embedder's own record of its requests (external): the
`Callouts` service is told of an open, a half-close and a cancel, and the
embedder ends a record when its delivery returns or when `on_delete` answers.
The callout counter is used up to its first wrap; the wrap is in `CalloutIds`.

### How the shared state corresponds to the code

`data`, `queues` and `metrics` are the three mutexes of an `InMemoryStore`, so a
host function that takes one of them once is one action, and threads interleave
between actions. Two functions are more than one action: an enqueue calls the
observer after it released the lock (`EnqueueSharedQueue`,
`Observe`), and a dequeue removes
the item before the guest's allocator runs for it (`DequeueSharedQueue`,
then the write or its failure). `grants`, `registrants` and `changes` are the fields of the guest's
state; every host function settles the grants first, as `settle_grants` does, and
a replaced store is noticed there and nowhere else. The embedder may replace
services, take changes, deliver `on_queue_ready` for a registrant, end a root
(which forgets its registrations), and build a poisoned guest again.

`Sharing` has cells, lines and meters by key and, per guest, handles obtained by
name. `SharedRefinement` maps an identifier that a guest holds to the key it
stands for in the store it was granted against; `ImplementsSharing` then says
that no guest ever reaches a queue or metric it did not name, and that wrapping
CAS numbers, identifiers at their end and failed calls never show.

### How the host functions correspond to the code

A call is one record of arguments. `HostBodies` gives for each function the
sequence of its checks; the first that fails is the answer. What passes goes to
who serves it: the crate (configurations, the payload of a delivery) or the
embedder (`held`, the stream state), which may answer, refuse with any status, or
not be there. A function that returns a value then waits on `calls` for the
guest's allocator, which may grow and write the memory, call other host
functions, return any address or trap; the rest of the function is the step that
pops it. `told` and `asked` are the embedder's view of the call, which the
properties compare with the guest's.

Bytes have few values and words few bytes (`Base`, `WordBytes`), so that the ends
of a word are within reach: every range check at the end of the memory and at
`u32::MAX` happens in the instance.

### How the process parts correspond to the code

`Engine` counts time in units below a period. The ticker wakes at or after its
time, the guest checks the epoch when it pleases, and the host returns when it
has answered. `Building` is a sequence of stages with every way each fails; its
property is about the guest code that runs inside the constructor. `Workers` has
one program counter per thread; the observer of a store runs on the thread of the
worker that enqueued, looks up the route under the lock and sends after it. Each
of the four parts (with `CalloutIds`) has its own initial states, next-state
relation and specification, about which `ProcessProofs` proves; `MCProcess` runs
them side by side.

## 3. The runs

| Run | Instance | Shows |
|---|---|---|
| `guest` | every action; 2 contexts, 1 callout | types; a callback sees only its own payload; no poisoned or cut guest runs; poison and refusals are final; a refused root serves nothing |
| `callouts` | 2 contexts, 3 callouts, limit 2, with fairness | requests and table agree; the limit, and the one entry above it after a trap; the guest hears every end; a trap loses nothing but what a failed deletion had ended; every method returns |
| `contexts` | 3 contexts; in one part 2 callouts and limit 1, in the other scopes and stream callbacks | parents alive; isolation of roots; owners of callouts; one family per stream; lent stream state kept |
| `shared` | 2 guests, 2 stores, 2 roots, 2 names, seven parts | no lost update under wrapping CAS; items conserved, and noticed; limits of stores and of guests, each of which refuses; identifiers agree with names across replaced stores; registrants alive; changes told; `Sharing` implemented |
| `host_calls` | memory of 24 to 30 bytes, bytes of base 6, words of 2 bytes | `OK` means done; a failed call has no effect; the embedder is asked last; a log is a prefix of what was written; the codec is strict; edits are exact |
| `process` | callout identifiers 1 to 4; a period of 2; 2 workers | identifiers sound past the wrap; CPU time kept and calls end; guest code finds its host; routes lead to workers; the pool accounts for guests, and serves its jobs |
| `failed_deletion`, `refused_vm`, `issued_after_wrap`, `shared_swap_back`, `shared_vm_id`, `cpu_time` | as above | the code against a sentence of its documentation, see section 5 |

*Bounds.* `MaxContextId` 2 gives a root with a stream, or two roots; 3 gives two
streams of a root, or a stream next to a second root, which isolation and the
ownership of callouts need. Three callouts with a limit of two reach the case in
which one is in delivery, two are open, and a trap restores the first. The
counter of contexts runs out within the bound, as the code's does at its last
value. Identifiers are never reused, so states with more of them repeat the same
pattern; the theorems are for every value of the bounds.

In `shared`, `MaxCas` 3 with `MaxWrites` 4 makes the number of a key wrap; two
stores make the same small identifier mean two queues; `MaxMetric` 2 with steps of
-1, 1 and 2 reaches both ends. Every limit is below what the guests ask for, so that
each is refused: a store takes one key, two queues, two metrics and two items of a
queue, and two VMs set two keys (part `Data`) and name four queues and four metrics
(part `Limit`), and three items are sent to one queue (part `Queue`); a guest may
hold two queues and metrics, and names more. The identifiers (`MaxId` 3) outnumber
the limits; that they end is only in the theorems. The parts use the members of the
sets their question needs. In none of them is a living guest given another VM id
(the run `shared_vm_id` does that); a guest that is built again may have another. In
the part `Grant`, the one that takes changes and replaces stores, the embedder moves
on to a store the guest did not have (`shared_swap_back` puts one back); in the part
`Store` it moves to either store at any time. In `host_calls` the allocator of a call makes at most one
call of its own (`MaxCalls` 1, `MaxDepth` 2), maps have up to three pairs, one
callout is opened; every string of up to 14 zeros and ones and every small map
go through the codec. In `process` five ticks cover a budget of two with late wakes;
two requests, two items and four builds let a worker lose its guest with work
waiting, build it again and lose it again.

Deadlock is checked except in `shared`, where guests may run out of writes, and
in `process`, where the identifiers, the construction and the pool come to an end.

*Fairness.* `MethodsReturn` assumes weak fairness of the host's own stretches of
code and of the end of a guest call. The first is a sequential program that runs
on. The second is what the budget gives, and `Engine` shows why: there the ticker
wakes (a thread that is scheduled), time passes, host functions return, and a
guest that looped past its deadline is interrupted at one of its checks (strong
fairness of `Interrupt` and `OutOfFuel`, since wasmtime puts a check in every
loop and function); `CallsEnd` follows while the engine is held. `JobsServed`
assumes that each worker's thread goes on when it can, and nothing of arrivals.

*Mutants.* Each property has a small change of the code that breaks it (a dropped
guard, a missing reset, a limit off by one), named `Mutant` in the modules.

*The crate's own tests.* The tests of `codec/pairs.rs`, `codec/path.rs`,
`header_map.rs`, `buffer.rs`, `runtime/memory.rs` and `A/types.rs` are conjuncts
of `DataTests`, those of the store, the two tables, the ABI versions and the
routes of the pool conjuncts of `TableTests`, each after the name of the test.
TLC evaluates them as assumptions of `process` and of `host_calls`: an operator
that does not do what the crate's tests expect of its function stops the run.
`HostTests` replays the tests of `A/host_functions/` and of `A/wasi.rs`: a test's
guest is a record of what the call finds (its memory, its callback's buffer and
map, the limits), and the test's assertions are about the outcomes `HostCalls` and
`Wasi` give for it. Their operators read variables, so an assumption cannot
name the tests; `process` gives `HostTestsPass` to the constant `HostTestsHold`
of `MCProcess` and assumes that. Sizes are scaled to a word of two half-byte digits. Left out are the
tests whose point the abstraction drops: identities of contexts and plugins that
a call passes on, numbers handed through unread (a timeout, a gRPC status), the
WASI clock and random bytes, and the tests that send on or end an open gRPC
callout, which are actions of `Guest`.
The mutants of a property are checked in the run that does not assume the tests
of the operator they change, or change what no test reaches.

## 4. What is proved

The theorems hold for every value of the constants. The assumptions on these are
what the code guarantees, and TLC evaluates them on the instances of the runs:

* `ContextTableAssumption`, `CalloutTableAssumption`, `CalloutIdsAssumption`: there
  is an identifier to give out, limits are natural numbers; for the wrap, the limit
  of open callouts is below the number of identifiers.
* `SharedStoreAssumption`, `SharedGuestsAssumption`: limits are natural numbers, a
  metric counts up to some number, no address of a store is zero.
* `WidthAssumption`, `AbsentAssumption`: a byte has more than one value and a word a
  byte at least; the mark for "no value" is no value.
* `ArgumentsAssumption`, `WasiAssumption`: what a guest passes are words (`u32`).
  `EmbedderAssumption`, `ConfigurationAssumption`: what the embedder holds, answers
  and configures is bytes. `BoundsAssumption`, `PlacesAssumption`: the first memory
  is one, and a callback that runs is at a place that `Guest` reaches.
* `EngineAssumption`: a period is not zero, which `EngineConfig::build` checks.
* `WorkersAssumption`: there is a worker, which `options.rs` of the example checks.

### One guest (`GuestProofs`)

`Spec => []IInv`, and from it `TypeOK`, `ContextTree`, `RootIsolation`,
`CalloutsOwned`, `LedgerAgrees` and `PayloadOfItsCallback`. `LentStateKept` is
inductive by itself.

`TypeOK` alone is not inductive: the root that `open_callout` writes into an
entry is a context only because the effective context is live, and that depends
on what deletions in progress have removed. The invariant adds what the
properties need to know of the call stack:

* `StackInv`: a method in progress runs on a guest that is not poisoned and whose
  callback on record is the one that runs; between callbacks of a sound guest no
  payload is left; `start` and `on_delete` do not nest.
* `StartInv`, `DeletionInv`: the locals of the two long methods agree with the
  tables. In particular a context that is being deleted has no children, its
  root is alive, and the callouts of a root that is being deleted all wait in
  `left`, because the root opens none while it is marked.
* `SavedInv`: the entry of a delivery in progress is outside the table.
* `IdsInv`: identifiers in use are below the counter.

Two ideas carry the argument. `Sound` (not poisoned, and no callback cut that
the guest does not know of) separates what holds always from what a trap or a
panic gives up: after either the guest never runs again, so only the facts a
reader of the tables needs must survive. `InFlight` names the callouts that left
the table and whose end the embedder has not been told yet; the ledger is exact
up to them. The step lemmas group the actions by their effect on the stack, and
`InvStep` has one case per action.

The action properties follow from `IInv`, each by a lemma that says which steps
can touch what it speaks of: `NeverRunsCut` (`CallsLive`), `PoisonFreezes`
(`PoisonedStep`: a poisoned guest is idle and no method passes `require_live`),
`TrapAccounts` (`PoisoningStep`, then the ledger). `OpenCalloutsBounded` uses
`OpenForms`, that the table of callouts grows only by `open_callout`, which tests the limit, and by the entry that a trap
puts back, after which nothing grows any more (`UnsoundStep`).

Two further invariants were needed:

* `ServeInv`, for `RefusedRootServesNothing`, `RefusalIsFinal` and
  `OneFamilyPerStream`. `start` and `on_delete` test a root once and call the guest
  on it several callbacks later, so that the root is not refused must be known of
  `starting.root` and of the root that a deletion fails callouts on. It holds
  because a refusal comes only from a callback of `start` or of a method by hand,
  which cannot run in between, and ends `start`.
* `EndsInv`, for `GuestHearsEveryEnd`: once `proxy_on_delete` returned, every open
  callout of the context is in `left`. Hence the `drop_open_callouts` that ends
  `on_delete` finds nothing: it is never how a callout ends in silence.

### Callout identifiers (`ProcessProofs`)

`IdentifiersSound` for a counter of any size. The invariant says of a `reserve`
in progress that what it examined in vain is exactly the stretch of the ring
behind the counter and is all open (`Behind`); since fewer than the limit are
open, and the limit is smaller than the ring, it ends in time and never gives
out an open identifier.

### The shared state (`SharedProofs`, `SharedRefinementProofs`)

For any number of guests, stores, names, items and any limits:

* `TypeOK`, `IdsAgree` and `RegistrantsAlive`, from `SharedInv`: the maps of each
  family of a store agree on its identifiers, which are `1 .. next` (`StoreInv`);
  what a guest was granted names identifiers of the store it was granted against,
  although that store grew since (`GrantInv`, with `StoresGrow`: no step of any
  guest takes a name back); a host call in progress belongs to a live callback
  (`ControlInv`).
* `ItemsConserved`, from `ItemsInv`: an accepted item is at one place of one queue,
  or in one `dequeue`, or received, or lost to an allocator that failed.
* `NoLostUpdate`, from `CasInv`: the number of writes of a key and its compare and
  swap number determine each other up to whole rounds of the counter, for the
  entry and for every read a guest remembers.
* `StoreLimits`, the limits of the stores, whatever embedders and guests do; and
  `GuestLimits`, the limit on the queues and metrics a guest holds, if no embedder
  gives a living guest another VM id (`VmIdKept`). Without that a name that is held
  is registered again under the new id and the limit is not asked, as the run
  `shared_vm_id` shows (section 5).
* `ChangesTell`, from `TellInv`, for embedders that do not put a store back under a
  guest whose grants are still held against it (`NotPutBack`). The invariant says
  the same of grants that are not current: they are compared with the store they
  are held against, so that `settle_grants` may drop them together with the changes
  not yet told. Without `NotPutBack` it is false, as the run `shared_swap_back`
  shows (section 5); in the run `shared` it holds because the part that takes changes
  only moves on to new stores.
* `ImplementsSharing`: every step of `SharedGuests` is a step of `Sharing` or
  changes nothing of it. The lemmas say of each critical section what it does to a
  family without its identifiers, and `GrantInv` that a granted identifier is the
  handle of exactly one name, so that what the host does by number is what
  `Sharing` does by name.

### The host functions (`HostCallsProofs`, `HostAnswersProofs`)

About `CallsSpec`, the specification of `HostCalls` with the calls of `Wasi`, for
every memory, every width of a byte and of a word, every argument, every answer of
the embedder and every depth of calls from the allocator.

`EmbedderAskedLast` and `FailedCallHasNoEffect` rest on one fact about each
family of bodies (`OutcomesGood`): an outcome that is not `OK` has told, held and
opened nothing, and the embedder is asked only in the last branch of a body. A
failure may also come later, when the guest's allocator has run in the middle of
the call. `CallsInv` says why nothing was done by then: the calls that wait all
go on to `OK` and told the embedder nothing, except `proxy_call_foreign_function`,
whose call the embedder has served before there is a value to allocate for (the
exception is in the property too).

`TypeOK`, `LogIsPrefix` and `OkMeansDone` come from `HostInv`, which adds that the
memory of every waiting call still has its places (`Awaits`): they were in range
when they were checked, and a memory only grows (`Larger`). An `OK` is then true
because the words and bytes the host writes are read back as what they stand for
(`WordRoundTrip`, `WriteAllLands`) where the places do not overlap. `TypeOK` needs
of every encoder, decoder and edit that it makes bytes of bytes (`EncodeTyped`,
`DecodeTyped`, `SetTyped`, `ReplaceTyped`, ...), and `LogIsPrefix` that what
`fd_write` gathers is cut at the limit.

The attempt to prove `OkMeansDone` showed a gap in the model: where the guest wants
the size of a value and not its bytes, a length that has no place in a word was
answered `OK`. The code answers `INTERNAL_FAILURE` there (`write_return`), and so
does `TooLarge` now.

### The formats (`FormatsProofs`)

`CodecStrict` and `EditsAreExact` hold of every input in `Inputs`: all bytes, maps,
paths, limits, keys and ranges, for every base of a byte greater than one and every
width of a word. The run `host_calls` evaluates the same definitions on short
inputs; there is no state to step through, so the theorems are about one state.

`CodecHolds` goes through a description that neither side of the codec mentions.
`Laid` says of bytes where fields lie in them: that field *i* has its length in word
*i* of the table (`HasLength`), begins where the field before it ended and is followed
by a terminator (`HasField`). `Encodes` says that the bytes are the count, the
table and the fields of a map, to the last byte. Then

* whatever is laid out in this way decodes to the map (`DecodeUp`), and whatever
  decodes to pairs is laid out in this way (`DecodeDown`): by induction over the
  fields the cursor takes;
* the encoding of a map is laid out in this way (`EncodingHas`), and bytes laid out
  in this way are that encoding, with no room for others (`EncodingOnly`): by
  induction over the pieces that `FlattenSeq` puts together (`ChainOf`,
  `HasPieces`), and because a word and its digits determine each other
  (`WordRoundTrip`, `WordBack`).

`StrictDecodes` and `RoundTrips` combine the two. `LimitsRefuse` compares the decoder
under limits with the one without, check by check. For a path, the split is one step
for each byte (`SplitOne`); when the byte at the end of segment *k* has been seen, the
parts are the first *k* segments (`PartsAre`), and a separator begins another.

`EditsHold` runs an edit and a filter side by side, both folds over the pairs: what
`set` has kept so far, filtered, is what the filter has kept so far (`SetWith`). Up
to the first pair with the key (`FirstAt`) the two agree and have kept everything,
which is why the new value takes that place. `get_all` and the pairs of other keys are
one kind of filter (`Picks`), and what appends to a map appends to each. The four
operations on a buffer are arithmetic on the clamped range.

The encoders are recursive functions and folds, about which the provers know
nothing. `Iteration` has the induction they need in a form that can be used: over a
*set* of numbers (`UpTo`), not over a predicate; and a function that is defined by
recursion exists when one step is a function (`IterationExists`, `FoldChain`).

### The epoch clock (`ProcessProofs`)

`CpuTimeKept`: with the ticker, a call is stopped no earlier than its time less
one period and no later than it plus what the ticker is late. `TicksInv` relates
the time spent, the ticks left and the time since the last tick; `BudgetCovers`
says of the rounding in `Budget::new` that the ticks cover the CPU time.

### Construction (`ProcessProofs`)

`GuestCodeFindsHost`: whatever the module exports and wherever the construction
fails, guest code that runs inside the constructor has its version, a budget, the
memory and the allocator, and the start functions run in their order. The property
outlives a failure, so it cannot be read off the stage; `BuildInv` says separately
what is set up at each stage (`StageInv`), what code that ran has found
(`CodeFinds`), and what holds of a guest that was built (`BuiltInv`).

### The worker pool (`ProcessProofs`)

For any number of workers, queues, requests and builds:

* `RoutesLead`, from `RoutingInv`: a queue that the guest of a worker registered is in
  the changes that were not taken yet, or its route has the worker (`OwnRoutes`); a
  thread that is about to stop takes itself out of every route first. `PlaceInv`
  says which guest a thread has at which place of its loop.
* `PoolAccounts`, from `AccountsInv`: both accounts count over all workers. Of the
  requests, a step changes one channel or one job in hand, and the count of the
  others is carried over (`InChannels`, `WaitingChanges`); of the guests, a step
  makes or ends one (`Alive`).

### Only model-checked

* Liveness (`MethodsReturn`, `EveryItemNoticed`, `CallsEnd`, `JobsServed`), which is
  outside the prover's reach.

Every other property of a passing run is stated by a theorem.

## 5. Where code and documentation differ

Each has a run whose property states the documentation and is violated.

* `FailedDeletionAccounts`: `on_delete` documents its answer as the one signal of
  the callouts it ended, and `open_callouts` after a failure as those that did
  not end. A trap in the middle loses the list of those already ended.
* `RefusedGuestNeverRuns`: after a refused VM start "every later callback" is
  documented to answer `GuestRejected`; `on_done`, `on_log` and `on_delete` run
  (which a test relies on for refused roots).
* `IssuedFalseAfterWrap`: `issued` is documented to answer false for every
  identifier after the wrap; it answers true again below the counter.
* `ChangesTell` (run `shared_swap_back`): `Changes::queues` is documented as "each
  queue a root registered". When the embedder replaces the services, takes the
  changes and puts the services back before the guest makes a call, the
  registrations are in force again and are never told. The same property holds in
  the run `shared`, whose part with `take_changes` never puts a store back.
* `GuestLimits` (run `shared_vm_id`): `with_max_shared_names` is documented as how
  many shared queues and metrics one guest may hold, each identifier spending one. A
  name that is held costs nothing, and a held name (a registered queue, a metric) does
  not say its VM id. When the embedder gives a living guest another VM id on the same
  store, the name obtains a second identifier, one more than the limit.
* `CpuTimeInFull`: `Limits::cpu_time` is documented to be reached "between the
  time you set and that time plus one epoch period"; a call that begins just
  before a tick is stopped up to one period earlier.

Smaller differences met on the way, which no run is about:

* a count word of zero alone also decodes as an empty map (and a test expects it),
  where `codec/pairs.rs` speaks of "either no bytes or a single `0x00` byte";
* a slice that ends exactly at 2^32 is refused, although a memory can have that
  size (`runtime/memory.rs`);
* `encode_visited` fails with `Changed` when the second walk has another total
  length; a second walk of other pairs with the same total length passes, with a
  wrong length table. The maps of the crate cannot change between the walks;
* `proxy_get_current_time_nanoseconds` asks the embedder's clock before it checks
  the pointer, where `host_functions/foreign.rs` says every function checks first
  (harmless: the clock keeps no state);
* the table of host functions in `v0_2_1.rs` leaves out BAD_ARGUMENT for the
  undecodable headers of `proxy_send_local_response`, and INTERNAL_FAILURE of
  `proxy_get_header_map_size`;
* `vm_started` is documented as whether `proxy_on_vm_start` "already ran and was
  accepted" (`state/names.rs`), but only `Guest::start` sets it, so `start` after an
  accepted `on_vm_start` by hand starts the VM again;
* `Engine::new` documents `Error::Instantiate` where `build` returns
  `Error::Config`; fuel limits without metering are documented to have no effect
  (`docs/src/guide/configuration.md`), and make `Instance::new` fail;
* a guest that outlives its `Engine` has no CPU limit, since the ticker ended;
* in the example pool, `Failure::Build` is documented as tried again with the
  next job, but it stops the worker; a rebuilt guest that registers nothing keeps
  its worker's old route, so an item for it waits.

## 6. Not modelled

* Builders, getters, `Display`, messages, tracing and the warnings of the host: no
  property is about them. Enumerations are in `Types`; what a configuration value
  guards is in the module of the code it guards.
* wasmtime: compiling, linking, validating. It appears as "a call returns, traps
  or unwinds", "a link fails", "the epoch is checked somewhere in a loop".
* The embedder's own services. They appear as what they may answer, and as the
  record of requests in `Guest`.
* The data of a delivery beyond its kind and callout in `Guest`; the bytes are in
  `HostCalls`. That a received HTTP response has a header is an early return of
  the delivery that changes nothing.
* The overflow of `usize` in size computations, which 64-bit targets do not reach.
* The example's command line and HTTP answers, and test doubles.
* Tests that drive a whole plugin (they are the behaviours of `Guest`), and tests
  of messages and of thread timing.

## 7. Plan

1. *(done)* `ContextTable`, `CalloutTable`, `Guest`, `CalloutIds`, and the
   inductive invariant of `Guest`.
2. *(done)* The shared store and the guests' grants, with the abstract
   specification and its refinement.
3. *(done)* Memory, codecs, maps, buffers, host functions, WASI.
4. *(done)* Engine, construction, worker pool; the unit tests on the operators.
5. *(done)* The invariants and action properties of `Guest`, `CalloutIds`,
   `SharedGuests` with its refinement, and `Engine`.
6. *(done)* Theorems about the host functions, the formats, the construction and the
   worker pool.

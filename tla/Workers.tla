------------------------------ MODULE Workers ------------------------------
(***************************************************************************)
(* The pool of examples/http_workers: one thread and one guest per worker, *)
(* requests handed out in turn, queue items that wake the worker whose     *)
(* root registered last, and a worker that replaces a guest it lost with   *)
(* GuestSpec::build and Guest::start.                                      *)
(*                                                                         *)
(* A guest is what its worker sees of it: the queues its root registered,  *)
(* the registrations nobody took yet, and whether it is poisoned.          *)
(* SharedGuests has the store, Building the build, Engine why a call ends. *)
(***************************************************************************)
EXTENDS Integers, Sequences, SequencesExt, FiniteSets

CONSTANTS
    Count,        \* Options::workers
    Queues,       \* the shared queues
    MaxRequests,  \* bound: the requests that arrive
    MaxItems,     \* bound: the items that are enqueued
    MaxBuilds     \* bound: the builds of the spec

ASSUME WorkersAssumption == Count \in Nat \ {0}

Worker == 1 .. Count

VARIABLES
    pc,        \* where the thread of each worker is
    guest,     \* Worker.guest
    job,       \* the job in hand
    jobs,      \* the channel of each worker
    routes,    \* QueueRoutes: the workers of each queue, the last one is woken
    notify,    \* of each worker: the item its guest enqueued, on its way
    starting,  \* the worker that start_workers is at, past Count once it serves
    turn,      \* the worker of the next request
    items,     \* the items in each queue
    enqueued,  \* the items ever enqueued
    counters,  \* BuildCounters
    tally      \* what became of the requests, and the guests that were refused

poolVars == <<pc, guest, job, jobs, routes, notify, starting, turn, items, enqueued, counters, tally>>

NoGuest == [registered |-> {}, changes |-> {}, poisoned |-> FALSE, alive |-> FALSE]
NewGuest == [NoGuest EXCEPT !.alive = TRUE]

RequestJob == [kind |-> "Request", queue |-> "None"]
QueueReady(q) == [kind |-> "QueueReady", queue |-> q]
NoJob == [kind |-> "None", queue |-> "None"]

\* The places of the requests in a channel.
Requests(list) == {i \in DOMAIN list : list[i] = RequestJob}

\* Nothing is on its way, or an item is, first without and then with a target.
Quiet == [queue |-> "None", to |-> 0]
Found(q, w) == [queue |-> q, to |-> w]

PoolInit ==
    /\ pc = [w \in Worker |-> IF w = 1 THEN "building" ELSE "new"]
    /\ guest = [w \in Worker |-> NoGuest]
    /\ job = [w \in Worker |-> NoJob]
    /\ jobs = [w \in Worker |-> <<>>]
    /\ routes = [q \in Queues |-> <<>>]
    /\ notify = [w \in Worker |-> Quiet]
    /\ starting = 1
    /\ turn = 1
    /\ items = [q \in Queues |-> 0]
    /\ enqueued = 0
    /\ counters = [builds |-> 0, poisoned |-> 0]
    /\ tally = [sent |-> 0, answered |-> 0, dropped |-> 0, refused |-> 0]

Goes(w, to) == pc' = [pc EXCEPT ![w] = to]

-----------------------------------------------------------------------------
(***************************************************************************)
(* routes.rs                                                               *)
(***************************************************************************)
\* Vec::retain.
Without(list, w) ==
    FoldLeft(LAMBDA kept, v : IF v # w THEN Append(kept, v) ELSE kept, <<>>, list)

\* QueueRoutes::register.
Register(table, q, w) == [table EXCEPT ![q] = Append(Without(@, w), w)]

\* Mutant: the routes of a worker that stopped stay.
ForgetNothing(table, w) == table

\* QueueRoutes::forget.
Forget(table, w) == [q \in Queues |-> Without(table[q], w)]

\* The observer of the store runs on the thread that enqueued: it looks the
\* route up under the lock,
Route(w) ==
    /\ notify[w].queue # "None" /\ notify[w].to = 0
    /\ LET list == routes[notify[w].queue] IN
       notify' = [notify EXCEPT ![w] = IF list = <<>> THEN Quiet ELSE Found(@.queue, Last(list))]
    /\ UNCHANGED <<pc, guest, job, jobs, routes, starting, turn, items, enqueued, counters, tally>>

\* Mutant: the channel holds one job, and the observer waits for room.
SendBounded(w) ==
    LET to == notify[w].to IN
    /\ to # 0 /\ jobs[to] = <<>>
    /\ jobs' = IF pc[to] = "stopped" THEN jobs
               ELSE [jobs EXCEPT ![to] = Append(@, QueueReady(notify[w].queue))]
    /\ notify' = [notify EXCEPT ![w] = Quiet]
    /\ UNCHANGED <<pc, guest, job, routes, starting, turn, items, enqueued, counters, tally>>

\* and sends after the lock.  The item waits when the worker has stopped.
Send(w) ==
    LET to == notify[w].to IN
    /\ to # 0
    /\ jobs' = IF pc[to] = "stopped" THEN jobs
               ELSE [jobs EXCEPT ![to] = Append(@, QueueReady(notify[w].queue))]
    /\ notify' = [notify EXCEPT ![w] = Quiet]
    /\ UNCHANGED <<pc, guest, job, routes, starting, turn, items, enqueued, counters, tally>>

-----------------------------------------------------------------------------
(***************************************************************************)
(* The guest in a callback                                                 *)
(***************************************************************************)
InGuest(w) == pc[w] \in {"busy", "starts"} /\ ~guest[w].poisoned /\ notify[w] = Quiet

GuestRegisters(w, q) ==
    /\ InGuest(w) /\ q \notin guest[w].registered
    /\ guest' = [guest EXCEPT ![w].registered = @ \cup {q}, ![w].changes = @ \cup {q}]
    /\ UNCHANGED <<pc, job, jobs, routes, notify, starting, turn, items, enqueued, counters, tally>>

GuestEnqueues(w, q) ==
    /\ InGuest(w) /\ enqueued < MaxItems
    /\ items' = [items EXCEPT ![q] = @ + 1]
    /\ enqueued' = enqueued + 1
    /\ notify' = [notify EXCEPT ![w] = Found(q, 0)]
    /\ UNCHANGED <<pc, guest, job, jobs, routes, starting, turn, counters, tally>>

GuestDequeues(w, q) ==
    /\ InGuest(w) /\ items[q] > 0
    /\ items' = [items EXCEPT ![q] = @ - 1]
    /\ UNCHANGED <<pc, guest, job, jobs, routes, notify, starting, turn, enqueued, counters, tally>>

\* The callback traps, or spends its budget.
GuestTraps(w) ==
    /\ InGuest(w)
    /\ guest' = [guest EXCEPT ![w].poisoned = TRUE]
    /\ UNCHANGED <<pc, job, jobs, routes, notify, starting, turn, items, enqueued, counters, tally>>

-----------------------------------------------------------------------------
(***************************************************************************)
(* Worker::run                                                             *)
(***************************************************************************)
\* recv.  on_queue_ready refuses a queue that the root did not register, and
\* then the guest does not run.
Receive(w) ==
    /\ pc[w] = "idle" /\ jobs[w] # <<>>
    /\ jobs' = [jobs EXCEPT ![w] = Tail(@)]
    /\ LET next == Head(jobs[w]) IN
       /\ job' = [job EXCEPT ![w] = next]
       /\ Goes(w, IF next.kind = "QueueReady" /\ next.queue \notin guest[w].registered
                  THEN "handled" ELSE "busy")
    /\ UNCHANGED <<guest, routes, notify, starting, turn, items, enqueued, counters, tally>>

\* Worker::handle returns: serve answers the request, with 500 for a failure.
Handled(w) ==
    /\ pc[w] = "busy" /\ notify[w] = Quiet
    /\ Goes(w, "handled")
    /\ tally' = IF job[w].kind = "Request" THEN [tally EXCEPT !.answered = @ + 1] ELSE tally
    /\ UNCHANGED <<guest, job, jobs, routes, notify, starting, turn, items, enqueued, counters>>

\* collect_registrations takes the changes of the guest, a lost one too, and
\* writes each under the lock; then `serving' decides.
Collect(w) ==
    /\ pc[w] \in {"handled", "started"}
    /\ \/ \E q \in guest[w].changes :
            /\ guest' = [guest EXCEPT ![w].changes = @ \ {q}]
            /\ routes' = Register(routes, q, w)
            /\ UNCHANGED <<pc, job>>
       \/ /\ guest[w].changes = {}
          /\ Goes(w, IF guest[w].poisoned THEN "lost" ELSE "idle")
          /\ job' = [job EXCEPT ![w] = NoJob]
          /\ UNCHANGED <<guest, routes>>
    /\ UNCHANGED <<jobs, notify, starting, turn, items, enqueued, counters, tally>>

\* Mutant: a guest counts as poisoned whatever became of it.
DropGuestCounted(c, g) == [c EXCEPT !.poisoned = @ + 1]

\* Drop for Guest: a poisoned guest raises the counter of its spec.
DropGuest(c, g) == IF g.alive /\ g.poisoned THEN [c EXCEPT !.poisoned = @ + 1] ELSE c

\* Worker::rebuild begins with the drop of the guest.
Lose(w) ==
    /\ pc[w] = "lost" /\ counters.builds < MaxBuilds
    /\ counters' = DropGuest(counters, guest[w])
    /\ guest' = [guest EXCEPT ![w] = NoGuest]
    /\ Goes(w, "building")
    /\ UNCHANGED <<job, jobs, routes, notify, starting, turn, items, enqueued, tally>>

\* GuestSpec::build counts the guest it built; then Guest::start runs its code.
Build(w) ==
    /\ pc[w] = "building" /\ counters.builds < MaxBuilds
    /\ counters' = [counters EXCEPT !.builds = @ + 1]
    /\ guest' = [guest EXCEPT ![w] = NewGuest]
    /\ Goes(w, "starts")
    /\ UNCHANGED <<job, jobs, routes, notify, starting, turn, items, enqueued, tally>>

Started(w) ==
    /\ pc[w] = "starts" /\ notify[w] = Quiet /\ ~guest[w].poisoned
    /\ Goes(w, "started")
    /\ UNCHANGED <<guest, job, jobs, routes, notify, starting, turn, items, enqueued, counters, tally>>

\* A failure of rebuild ends the process in start_workers, and the worker in run.
Fails(w) ==
    /\ IF w = starting
       THEN starting' = 0 /\ UNCHANGED <<pc, routes>>
       ELSE Goes(w, "stopping") /\ routes' = Forget(routes, w) /\ UNCHANGED starting
    /\ UNCHANGED <<job, jobs, notify, turn, items, enqueued>>

\* The build fails, which counts nothing.
BuildFails(w) ==
    /\ pc[w] = "building" /\ counters.builds < MaxBuilds
    /\ Fails(w)
    /\ UNCHANGED <<guest, counters, tally>>

\* The start trapped, or the plugin refuses it.  The guest is dropped with the
\* registrations nobody took.
StartFails(w) ==
    /\ pc[w] = "starts" /\ notify[w] = Quiet
    /\ Fails(w)
    /\ counters' = DropGuest(counters, guest[w])
    /\ tally' = IF guest[w].poisoned THEN tally ELSE [tally EXCEPT !.refused = @ + 1]
    /\ guest' = [guest EXCEPT ![w] = NoGuest]

\* The thread returns, and its channel closes with the jobs that are in it.
Stop(w) ==
    /\ pc[w] = "stopping"
    /\ Goes(w, "stopped")
    /\ jobs' = [jobs EXCEPT ![w] = <<>>]
    /\ tally' = [tally EXCEPT !.dropped = @ + Cardinality(Requests(jobs[w]))]
    /\ UNCHANGED <<guest, job, routes, notify, starting, turn, items, enqueued, counters>>

-----------------------------------------------------------------------------
(***************************************************************************)
(* main.rs                                                                 *)
(***************************************************************************)
\* start_workers goes to the next worker once this one has its thread.
StartNext ==
    /\ starting \in Worker /\ pc[starting] = "idle"
    /\ starting' = starting + 1
    /\ pc' = IF starting < Count THEN [pc EXCEPT ![starting + 1] = "building"] ELSE pc
    /\ UNCHANGED <<guest, job, jobs, routes, notify, turn, items, enqueued, counters, tally>>

\* dispatch: the request of a worker that stopped is dropped.
Dispatch ==
    /\ starting = Count + 1 /\ tally.sent < MaxRequests
    /\ turn' = (turn % Count) + 1
    /\ IF pc[turn] = "stopped"
       THEN /\ tally' = [tally EXCEPT !.sent = @ + 1, !.dropped = @ + 1]
            /\ UNCHANGED jobs
       ELSE /\ tally' = [tally EXCEPT !.sent = @ + 1]
            /\ jobs' = [jobs EXCEPT ![turn] = Append(@, RequestJob)]
    /\ UNCHANGED <<pc, guest, job, routes, notify, starting, items, enqueued, counters>>

\* A failure in start_workers ends the process.
Running == starting # 0

\* The thread of a worker, which is the main thread until the worker runs.
Thread(w) ==
    \/ Receive(w) \/ Handled(w) \/ Collect(w) \/ Lose(w) \/ Build(w) \/ Started(w)
    \/ BuildFails(w) \/ StartFails(w) \/ Stop(w) \/ Route(w) \/ Send(w) \/ GuestTraps(w)
    \/ \E q \in Queues : GuestRegisters(w, q) \/ GuestEnqueues(w, q) \/ GuestDequeues(w, q)

PoolNext == Running /\ (StartNext \/ Dispatch \/ \E w \in Worker : Thread(w))

\* Every thread is scheduled.  A callback ends, as Engine shows.
PoolFairness == \A w \in Worker : WF_poolVars(Running /\ Thread(w))

PoolSpec == PoolInit /\ [][PoolNext]_poolVars /\ PoolFairness

-----------------------------------------------------------------------------
\* The routes lead to workers (routes.rs, worker.rs).  A worker that stopped is
\* in no list, so the next item goes to one that did not; no worker is in a list
\* twice; and a worker at rest is in the list of every queue that its guest
\* registered, with this guest or the one it replaced.
RoutesLead ==
    \A q \in Queues :
        /\ \A w \in Worker : pc[w] \in {"stopping", "stopped"} => ~Contains(routes[q], w)
        /\ IsInjective(routes[q])
        /\ \A w \in Worker :
              pc[w] = "idle" /\ q \in guest[w].registered => Contains(routes[q], w)

\* The requests in the channels, and the workers that serve one.
Waiting == UNION {{w} \X Requests(jobs[w]) : w \in Worker}
Served == {w \in Worker : pc[w] = "busy" /\ job[w] = RequestJob}

\* Nothing is lost count of (main.rs, guest_spec.rs).  A request was answered,
\* is on its way, or was dropped with a worker that stopped; a guest the spec
\* built is in service, was refused, or is counted as poisoned.
PoolAccounts ==
    /\ tally.sent = tally.answered + tally.dropped + Cardinality(Waiting) + Cardinality(Served)
    /\ counters.builds = Cardinality({w \in Worker : guest[w].alive})
                         + counters.poisoned + tally.refused

\* A worker that goes on serves (worker.rs): every job it was sent is received,
\* whatever its guests do, until its bound of builds is used up.
JobsServed ==
    \A w \in Worker :
        jobs[w] # <<>> ~> (jobs[w] = <<>> \/ ~Running \/ counters.builds = MaxBuilds)
=============================================================================

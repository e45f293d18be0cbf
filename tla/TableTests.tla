------------------------------ MODULE TableTests ------------------------------
(***************************************************************************)
(* The unit tests of the crate's tables, run on the operators that model   *)
(* them: the in-memory store (shared_services/store.rs), the contexts      *)
(* (context/table.rs), the callouts (callout.rs), the ABI versions         *)
(* (abi/version.rs) and the routes of the pool (http_workers/routes.rs).   *)
(* A test is a conjunct, after its name.  u32 counts to 15, u64 to 255.    *)
(***************************************************************************)
EXTENDS Integers, Sequences, SequencesExt, FiniteSets

\* The store as InMemoryStore::new makes it, but for values of at most four
\* digits, and one whose limits are all one.
LargeItems == {"12345", "123456789"}
S == INSTANCE SharedStore WITH
        VmId <- {"vm-1", "vm-2"}, Name <- {"k"}, Item <- LargeItems, TooLarge <- LargeItems,
        MaxCas <- 15, MaxId <- 15, MaxMetric <- 255,
        MaxKeys <- 4, MaxQueueItems <- 4, MaxQueues <- 4, MaxMetrics <- 4
S1 == INSTANCE SharedStore WITH
        VmId <- {"vm-1", "vm-2"}, Name <- {"k"}, Item <- LargeItems, TooLarge <- LargeItems,
        MaxCas <- 15, MaxId <- 15, MaxMetric <- 255,
        MaxKeys <- 1, MaxQueueItems <- 1, MaxQueues <- 1, MaxMetrics <- 1

Mine(name) == <<"vm-1", name>>
Theirs(name) == <<"vm-2", name>>

-----------------------------------------------------------------------------
(***************************************************************************)
(* shared_services/store.rs                                                *)
(***************************************************************************)
OneKey(value) == S!Written(S!EmptyData, Mine("k"), value)

SharedDataTests ==
    LET first == OneKey("first")
        second == S!Written(first, Mine("k"), "second")
    IN  \* a_value_reads_back_with_a_number_that_is_not_zero
        /\ S!SetStatus(S!EmptyData, Mine("k"), "v", S!NoCas) = "Ok"
        /\ OneKey("v")[Mine("k")] = [value |-> "v", cas |-> 1]
        \* a_key_of_one_vm_is_not_visible_to_another, an_absent_key_is_not_found
        /\ Theirs("k") \notin DOMAIN OneKey("secret") /\ Mine("missing") \notin DOMAIN S!EmptyData
        \* a_stale_number_is_refused_and_the_value_stays
        /\ S!SetStatus(first, Mine("k"), "second", first[Mine("k")].cas + 1) = "CasMismatch"
        /\ first[Mine("k")].value = "first"
        \* the_number_the_store_reports_writes_the_value, no_number_writes_over_any_value
        /\ \A cas \in {first[Mine("k")].cas, S!NoCas} :
             S!SetStatus(first, Mine("k"), "second", cas) = "Ok"
        /\ second[Mine("k")].value = "second"
        \* a_number_on_a_key_that_is_not_there_writes_it
        /\ S!SetStatus(S!EmptyData, Mine("k"), "v", 7) = "Ok"
        \* a_second_write_moves_the_number_and_retires_the_first
        /\ second[Mine("k")].cas # first[Mine("k")].cas
        /\ S!SetStatus(second, Mine("k"), "v3", first[Mine("k")].cas) = "CasMismatch"

OneQueue == S!Registered(S!EmptyQueues, Mine("q"))
Q == OneQueue.by_name[Mine("q")]

StoreLimitTests ==
    \* a_value_at_the_limit_is_stored_and_one_byte_more_is_refused
    /\ S!SetStatus(S!EmptyData, Mine("k"), "1234", S!NoCas) = "Ok"
    /\ S!SetStatus(OneKey("1234"), Mine("j"), "12345", S!NoCas) = "InternalFailure"
    \* an_item_at_the_limit_is_queued_and_a_larger_one_is_refused
    /\ S!EnqueueStatus(OneQueue, Q, "1234") = "Ok"
    /\ LET holding == S!Enqueued(OneQueue, Q, "1234")
       IN  /\ \A item \in LargeItems : S!EnqueueStatus(holding, Q, item) = "InternalFailure"
           /\ S!DequeueStatus(holding, Q) = "Ok" /\ Head(holding.items[Q]) = "1234"
    \* a_value_past_the_limit_is_refused
    /\ S!SetStatus(S!EmptyData, Mine("k"), "12345", S!NoCas) = "InternalFailure"
    \* a_key_past_the_limit_is_refused
    /\ S1!SetStatus(OneKey("v"), Mine("second"), "v", S!NoCas) = "InternalFailure"
    \* a_queue_past_the_limit_is_refused_and_not_created
    /\ S1!RegisterStatus(OneQueue, Mine("second")) = "InternalFailure"
    /\ S1!ResolveStatus(OneQueue, Mine("second")) = "NotFound"
    \* a_queue_the_store_holds_opens_at_the_limit
    /\ S1!RegisterStatus(OneQueue, Mine("q")) = "Ok"
    /\ S1!Registered(OneQueue, Mine("q")) = OneQueue
    \* a_metric_past_the_limit_is_refused
    /\ LET one == S1!Defined(S1!EmptyMetrics, Mine("first"), "Counter")
       IN  /\ S1!DefineStatus(one, Mine("second"), "Counter") = "InternalFailure"
           /\ S1!DefineStatus(one, Mine("first"), "Counter") = "Ok"
           /\ S1!Defined(one, Mine("first"), "Counter") = one
    \* a_queue_past_its_depth_refuses_the_item
    /\ S1!EnqueueStatus(S1!Enqueued(OneQueue, Q, "first"), Q, "second") = "InternalFailure"

QueueTests ==
    \* the_number_never_reaches_zero_when_it_wraps
    /\ S!NextCas(15) = 1
    \* a_registration_that_repeats_a_name_opens_the_same_queue
    /\ S!RegisterStatus(OneQueue, Mine("q")) = "Ok"
    /\ S!Registered(OneQueue, Mine("q")).by_name[Mine("q")] = Q
    \* a_queue_resolves_through_a_second_holder_of_the_same_value
    /\ S!ResolveStatus(OneQueue, Mine("q")) = "Ok"
    \* a_queue_no_vm_registered_is_not_found
    /\ S!ResolveStatus(S!EmptyQueues, Mine("q")) = "NotFound"
    \* an_item_moves_through_the_queue_in_order
    /\ LET two == S!Enqueued(S!Enqueued(OneQueue, Q, "first"), Q, "second")
           one == S!Dequeued(two, Q)
       IN  /\ Head(two.items[Q]) = "first" /\ Head(one.items[Q]) = "second"
           /\ S!DequeueStatus(one, Q) = "Ok" /\ S!DequeueStatus(S!Dequeued(one, Q), Q) = "Empty"
    \* a_queue_that_is_not_there_is_not_found
    /\ S!EnqueueStatus(S!EmptyQueues, 9, "v") = "NotFound"
    /\ S!DequeueStatus(S!EmptyQueues, 9) = "NotFound"

\* A store with one metric of this value.
OneMetric(kind, value) ==
    S!Recorded(S!Defined(S!EmptyMetrics, Mine("m"), kind), 1, value)

MetricTests ==
    LET counter == S!Incremented(OneMetric("Counter", 0), 1, 5)
        histogram == OneMetric("Histogram", 12)
    IN  \* a_metric_carries_a_value_above_the_thirty_two_bit_limit
        /\ OneMetric("Gauge", 15 + 7).entries[1].value = 15 + 7
        /\ S!GetMetricStatus(OneMetric("Gauge", 15 + 7), 1) = "Ok"
        \* a_metric_of_one_vm_is_not_the_metric_of_another
        /\ S!Defined(counter, Theirs("m"), "Counter").by_name[Theirs("m")] # 1
        \* a_name_defined_twice_with_one_kind_is_one_metric
        /\ S!DefineStatus(counter, Mine("m"), "Counter") = "Ok"
        /\ S!Defined(counter, Mine("m"), "Counter") = counter
        \* a_name_defined_with_another_kind_is_a_bad_argument
        /\ S!DefineStatus(counter, Mine("m"), "Gauge") = "BadArgument"
        \* a_counter_refuses_a_negative_delta, a_counter_accepts_a_delta_of_zero
        /\ S!IncrementStatus(counter, 1, -1) = "BadArgument" /\ counter.entries[1].value = 5
        /\ S!IncrementStatus(counter, 1, 0) = "Ok" /\ S!Incremented(counter, 1, 0) = counter
        \* a_gauge_that_would_go_below_zero_is_refused, a_gauge_accepts_a_negative_delta
        /\ S!IncrementStatus(OneMetric("Gauge", 1), 1, -2) = "BadArgument"
        /\ S!IncrementStatus(OneMetric("Gauge", 5), 1, -2) = "Ok"
        /\ S!Incremented(OneMetric("Gauge", 5), 1, -2).entries[1].value = 3
        \* a_histogram_takes_an_observation_and_refuses_the_other_two
        /\ S!RecordStatus(histogram, 1) = "Ok"
        /\ S!IncrementStatus(histogram, 1, 1) = "BadArgument"
        /\ S!GetMetricStatus(histogram, 1) = "BadArgument"
        \* a_metric_that_is_not_there_is_not_found
        /\ {S!RecordStatus(counter, 9), S!IncrementStatus(counter, 9, 1),
            S!GetMetricStatus(counter, 9)} = {"NotFound"}

-----------------------------------------------------------------------------
(***************************************************************************)
(* context/table.rs: u32::MAX is 15                                        *)
(***************************************************************************)
C == INSTANCE CalloutTable WITH
        MaxContextId <- 14, RootIds <- {"http", "tcp"}, MaxCalloutId <- 15, MaxOpenCallouts <- 4

\* The whole of the struct; `ticks' is the period of each entry, zero for None.
NewTable(next) ==
    [entries |-> C!EmptyTable, next |-> next, effective |-> C!NoContext,
     vm_rejected |-> C!NoContext, ticks |-> [c \in 1 .. 14 |-> 0]]

CreateProblem(table, parent) ==
    CASE parent # C!NoContext /\ C!RootOf(table.entries, parent) = C!NoContext -> "Unknown"
      [] C!IsStream(table.entries, parent) -> "NotRoot"
      [] table.next > 14 -> "ContextIdsExhausted"
      [] OTHER -> "None"
Create(table, parent) ==
    [table EXCEPT !.entries = C!CreateContext(@, table.next, parent), !.next = @ + 1]

SetEffective(table, id) ==
    IF id \in DOMAIN table.entries THEN [table EXCEPT !.effective = id] ELSE table
RemoveEntry(table, id) ==
    [table EXCEPT !.entries = C!RemoveContext(@, id),
                  !.effective = IF @ = id THEN C!NoContext ELSE @,
                  !.ticks[id] = 0]
RejectionOf(table, id) ==
    IF table.vm_rejected # C!NoContext THEN "VmStart"
    ELSE IF C!IsRejected(table.entries, id) THEN "Configure" ELSE "None"
PluginOfRoot(table, id) ==
    LET root == C!RootOf(table.entries, id)
    IN  IF root = C!NoContext THEN C!NoPlugin ELSE table.entries[root].plugin
RootsWithId(table, root_id) ==
    {c \in DOMAIN table.entries : table.entries[c].plugin = root_id}
SetTickPeriod(table, id, period) ==
    LET root == C!RootOf(table.entries, id)
    IN  IF root = C!NoContext THEN table ELSE [table EXCEPT !.ticks[root] = period]
TickPeriod(table, id) == IF C!IsRoot(table.entries, id) THEN table.ticks[id] ELSE 0

\* table_with_root_and_stream: the root is 1, its stream 2; then another root.
Two == Create(Create(NewTable(1), C!NoContext), 1)
Three == Create(Two, C!NoContext)

CreateTests ==
    \* roots_are_numbered_from_one_and_have_no_parent
    /\ LET roots == Create(Create(NewTable(1), C!NoContext), C!NoContext).entries
       IN  /\ DOMAIN roots = {1, 2} /\ C!IsRoot(roots, 1) /\ C!IsRoot(roots, 2)
           /\ roots[1].state = "Active" /\ roots[1].parent = C!NoContext
           /\ C!RootOf(roots, 2) = 2
    \* a_stream_records_its_parent_and_cannot_be_a_parent
    /\ C!IsStream(Two.entries, 2) /\ Two.entries[2].parent = 1 /\ C!RootOf(Two.entries, 2) = 1
    /\ CreateProblem(Two, 2) = "NotRoot"
    \* an_unknown_parent_is_reported
    /\ CreateProblem(NewTable(1), 9) = "Unknown"
    \* the_last_identifier_is_never_handed_out
    /\ LET last == NewTable(15 - 1)
       IN  /\ CreateProblem(last, C!NoContext) = "None"
           /\ DOMAIN Create(last, C!NoContext).entries = {15 - 1}
           /\ CreateProblem(Create(last, C!NoContext), C!NoContext) = "ContextIdsExhausted"
    \* the_effective_context_changes_only_to_a_known_one
    /\ SetEffective(SetEffective(Two, 1), 9).effective = 1

EntryTests ==
    LET pending == [SetEffective(Two, 2) EXCEPT !.entries = C!SetState(@, 2, "Pending")]
        gone == RemoveEntry(Two, 2)
        refused == [Three EXCEPT !.entries = C!Reject(@, 1)]
    IN  \* done_succeeds_once_on_a_pending_effective_context
        /\ ~C!MayDone(Two.entries, Two.effective) /\ ~C!MayDone(SetEffective(Two, 2).entries, 2)
        /\ C!MayDone(pending.entries, pending.effective)
        /\ ~C!MayDone(C!SetState(pending.entries, 2, "Done"), 2)
        \* children_are_counted_until_removed
        /\ C!HasChildren(Two.entries, 1) /\ ~C!HasChildren(gone.entries, 1)
        \* a_rejection_covers_the_root_and_its_streams_only
        /\ {c \in {1, 2, 3, 9} : C!IsRejected(refused.entries, c)} = {1, 2}
        \* a_vm_rejection_outranks_a_root_rejection
        /\ RejectionOf(refused, 2) = "Configure" /\ RejectionOf(refused, 3) = "None"
        /\ \A c \in {2, 3} : RejectionOf([refused EXCEPT !.vm_rejected = 3], c) = "VmStart"
        \* a_stream_never_has_children
        /\ ~C!HasChildren(Two.entries, 2)
        \* remove_clears_the_effective_context_it_named
        /\ RemoveEntry(SetEffective(Two, 2), 2).effective = C!NoContext
        /\ DOMAIN gone.entries = {1} /\ RemoveEntry(gone, 2) = gone

PluginTests ==
    LET set(table, c, p) == [table EXCEPT !.entries = C!SetPlugin(@, c, p)]
        named == set(set(Three, 1, "http"), 3, "tcp")
    IN  \* a_plugin_is_recorded_on_a_root_and_read_through_its_streams
        /\ PluginOfRoot(named, 1) = "http" /\ PluginOfRoot(named, 2) = "http"
        \* a_root_is_found_by_the_root_id_of_its_plugin
        /\ RootsWithId(named, "http") = {1} /\ RootsWithId(named, "tcp") = {3}
        /\ ~C!HoldsRootId(named.entries, "udp")
        \* a_root_with_no_plugin_holds_no_root_id
        /\ ~C!HoldsRootId(Two.entries, "")
        \* a_plugin_is_refused_on_a_stream_context
        /\ PluginOfRoot(set(Two, 2, "http"), 1) = C!NoPlugin
        /\ PluginOfRoot(set(Two, 2, "http"), 2) = C!NoPlugin
        \* a_plugin_is_none_for_an_unknown_context
        /\ PluginOfRoot(NewTable(1), 7) = C!NoPlugin

TickTests ==
    LET set == SetTickPeriod(Two, 2, 25)
        kind(table, c) == table.entries[c].stream_kind
        http == [Two EXCEPT !.entries = C!SetStreamKind(@, 2, "Http")]
        after == Create(RemoveEntry([Two EXCEPT !.entries = C!SetStreamKind(@, 2, "Tcp")], 2), 1)
    IN  \* a_tick_period_set_from_a_stream_lands_on_its_root
        /\ TickPeriod(set, 1) = 25 /\ TickPeriod(set, 2) = 0
        \* a_tick_period_set_on_a_root_reads_back
        /\ TickPeriod(SetTickPeriod(Two, 1, 4), 1) = 4
        \* a_tick_period_of_none_clears_a_recorded_one
        /\ TickPeriod(SetTickPeriod(set, 1, 0), 1) = 0
        \* a_tick_period_on_an_unknown_context_is_refused
        /\ SetTickPeriod(NewTable(1), 7, 1) = NewTable(1)
        \* remove_drops_the_plugin_and_the_period_of_a_root
        /\ LET root == Create(NewTable(1), C!NoContext)
               gone == RemoveEntry([SetTickPeriod(root, 1, 25) EXCEPT
                                  !.entries = C!SetPlugin(@, 1, "http")], 1)
           IN  PluginOfRoot(gone, 1) = C!NoPlugin /\ TickPeriod(gone, 1) = 0
        \* the_family_of_a_stream_context_is_recorded_and_answered
        /\ kind(Two, 2) = C!NoKind /\ kind(http, 2) = "Http" /\ kind(http, 1) = C!NoKind
        \* the_family_ends_with_its_context_and_no_identifier_returns
        /\ DOMAIN after.entries = {1, 3} /\ kind(after, 3) = C!NoKind
        /\ C!SetStreamKind(after.entries, 2, "Tcp") = after.entries

-----------------------------------------------------------------------------
(***************************************************************************)
(* callout.rs                                                              *)
(***************************************************************************)
Ids == INSTANCE CalloutIds WITH
        MaxCalloutId <- 15, MaxOpenCallouts <- 4, open <- {}, next <- 1,
        phase <- "idle", candidate <- 0, examined <- 0, given <- {}, wrapped <- FALSE

\* `reserve': the first turn of its loop at an identifier that is not open.
Reserve(o, n) ==
    LET turn[k \in 0 .. 15] == IF k = 0 THEN n ELSE Ids!Successor(turn[k - 1])
        found == turn[C!First({k \in 0 .. 15 : turn[k] \notin o})]
    IN  [id |-> found, next |-> Ids!Successor(found)]

Http(caller) == C!NewCallout("HttpCall", caller, 1)

CalloutTests ==
    LET none == [id \in {} |-> Http(1)]
        made == [id \in 1 .. 3 |-> Http(<<2, 3, 2>>[id])]
    IN  \* a_reserved_identifier_that_is_not_entered_leaves_the_table_empty
        /\ \A n \in 1 .. 10 : Reserve({}, n) = [id |-> n, next |-> n + 1]
        \* the_counter_skips_zero_and_an_open_identifier_when_it_wraps
        /\ Reserve({1}, 15) = [id |-> 15, next |-> 1]
        /\ Reserve({1}, 1).id = 2
        \* made_by_lists_the_callouts_of_one_caller_in_order
        /\ C!EnterCallout(C!EnterCallout(C!EnterCallout(none, 1, Http(2)), 2, Http(3)), 3, Http(2))
              = made
        /\ C!MadeBy(made, 2) = {1, 3} /\ C!First(C!MadeBy(made, 2)) = 1
        /\ C!MadeBy(made, 9) = {}
        \* a_removed_callout_is_gone_and_its_siblings_stay
        /\ LET left == C!RemoveCallouts([id \in 1 .. 2 |-> Http(2)], {1})
           IN  left = [id \in {2} |-> Http(2)] /\ C!RemoveCallouts(left, {1}) = left

-----------------------------------------------------------------------------
(***************************************************************************)
(* abi/version.rs                                                          *)
(***************************************************************************)
B == INSTANCE Building WITH
        Callbacks <- {}, Offers <- {}, module <- 0, limits <- 0, stage <- 0, refilled <- 0,
        state <- 0, ran <- 0, abi <- 0, outcome <- 0

DetectTests ==
    \* detect_prefers_the_newest_accepted_version
    /\ B!Detect({"0.2.1"}) = "0.2.1" /\ B!Detect({"0.2.0"}) = "0.2.0"
    /\ B!Detect({"0.2.0", "0.2.1"}) = "0.2.1"
    \* detect_rejects_an_old_version_and_names_it, detect_rejects_an_empty_list
    /\ B!Detect({"0.1.0"}) = "None" /\ B!Detect({}) = "None"

(***************************************************************************)
(* examples/http_workers/routes.rs; the root of a route is not kept        *)
(***************************************************************************)
W == INSTANCE Workers WITH
        Count <- 4, Queues <- {1, 2}, MaxRequests <- 0, MaxItems <- 0, MaxBuilds <- 0,
        pc <- 0, guest <- 0, job <- 0, jobs <- 0, routes <- 0, notify <- 0, starting <- 0,
        turn <- 0, items <- 0, enqueued <- 0, counters <- 0, tally <- 0

\* Registrations of queue 1, in their order, and the worker an item would wake.
Routes(workers) == FoldLeft(LAMBDA table, w : W!Register(table, 1, w), [q \in {1, 2} |-> <<>>], workers)
Woken(table, q) == IF table[q] = <<>> THEN 0 ELSE Last(table[q])

RouteTests ==
    \* a_route_is_found_by_its_queue, a_later_registration_takes_the_next_item
    /\ Woken(Routes(<<2>>), 1) = 2 /\ Woken(Routes(<<1, 3>>), 1) = 3
    \* a_worker_that_registers_again_takes_the_next_item
    /\ Woken(Routes(<<1, 2, 1>>), 1) = 1
    \* a_worker_that_stops_gives_the_queue_back_to_an_earlier_worker
    /\ Woken(W!Forget(Routes(<<1, 3>>), 3), 1) = 1
    \* a_queue_with_no_worker_left_has_no_route
    /\ Woken(W!Forget(Routes(<<1>>), 1), 1) = 0
    \* an_unknown_queue_has_no_route
    /\ Woken(Routes(<<1>>), 2) = 0

\* The model's tables give what the unit tests of the crate assert.
ASSUME TableTestsPass ==
    /\ SharedDataTests /\ StoreLimitTests /\ QueueTests /\ MetricTests
    /\ CreateTests /\ EntryTests /\ PluginTests /\ TickTests
    /\ CalloutTests /\ DetectTests /\ RouteTests
=============================================================================

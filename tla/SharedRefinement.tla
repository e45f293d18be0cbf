-------------------------- MODULE SharedRefinement --------------------------
(***************************************************************************)
(* The guests and stores of SharedGuests, with their small identifiers and  *)
(* grants, implement Sharing: an identifier a guest holds against a store   *)
(* stands for the queue or metric of one key of that store.                 *)
(***************************************************************************)
EXTENDS SharedGuests

CellsOf(s)  == [k \in DOMAIN data[s] |-> data[s][k].value]
LinesOf(s)  == [k \in DOMAIN queues[s].by_name |-> queues[s].items[queues[s].by_name[k]]]
MetersOf(s) == [k \in DOMAIN metrics[s].by_name |->
                   metrics[s].entries[metrics[s].by_name[k]]]

HandlesOf(g) ==
    LET s == grants[g].against
    IN  IF s = NoStore THEN {}
        ELSE {<<s, "Queue", k>> : k \in {x \in DOMAIN queues[s].by_name :
                                            queues[s].by_name[x] \in grants[g].queues}}
             \cup
             {<<s, "Metric", k>> : k \in {x \in DOMAIN metrics[s].by_name :
                                            metrics[s].by_name[x] \in grants[g].metrics}}

Abstract == INSTANCE Sharing WITH
    MetricValue <- 0..MaxMetric,
    cells    <- [s \in Store |-> CellsOf(s)],
    lines    <- [s \in Store |-> LinesOf(s)],
    meters   <- [s \in Store |-> MetersOf(s)],
    handles  <- [g \in Guest |-> HandlesOf(g)]

\* The host functions, with the numbers they hand to guests and the grants they
\* look them up in, let a guest do nothing that Sharing does not: a number of
\* another store or of another VM opens nothing.
ImplementsSharing == Abstract!Spec
=============================================================================

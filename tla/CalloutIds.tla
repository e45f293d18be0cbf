----------------------------- MODULE CalloutIds -----------------------------
(***************************************************************************)
(* The identifier counter of the callout table at its full behaviour:      *)
(* `reserve', `enter', `remove' and `issued' of abi/v0_2_1/callout.rs, with *)
(* the counter's wrap.  The loop of `reserve' is one action per turn.      *)
(* Guest uses the counter up to its first wrap; this module is about what  *)
(* comes after.                                                            *)
(***************************************************************************)
EXTENDS Integers, FiniteSets

CONSTANTS
    MaxCalloutId,     \* u32::MAX, the last value of the counter
    MaxOpenCallouts   \* Limits::max_open_callouts

\* The table is smaller than the identifier space, as `reserve' says it is.
ASSUME CalloutIdsAssumption ==
    /\ MaxCalloutId \in Nat \ {0}
    /\ MaxOpenCallouts \in 0 .. MaxCalloutId - 1

VARIABLES
    open,      \* the identifiers in the table
    next,      \* CalloutTable.next
    phase,     \* where open_callout is: before, inside or after `reserve'
    candidate, \* what `reserve' answered, 0 before it did
    examined,  \* how many identifiers this call of `reserve' looked at, up to MaxExamined
    given,     \* every identifier `reserve' ever answered
    wrapped    \* the counter passed its last value

vars == <<open, next, phase, candidate, examined, given, wrapped>>

CalloutId == 1 .. MaxCalloutId

\* The count of examined identifiers stops here, past what `reserve' can need.
MaxExamined == MaxCalloutId + 1

Init ==
    /\ open = {}
    /\ next = 1
    /\ phase = "idle"
    /\ candidate = 0
    /\ examined = 0
    /\ given = {}
    /\ wrapped = FALSE

\* Mutant: zero is not skipped.
SuccessorZero(n) == IF n = MaxCalloutId THEN 0 ELSE n + 1

\* checked_add(1), or NonZeroU32::MIN.
Successor(n) == IF n = MaxCalloutId THEN 1 ELSE n + 1

IsFree(id) == id \notin open

\* `issued'.
Issued(id) == id < next

\* open_callout passed the check of the limit.
Begin ==
    /\ phase = "idle" /\ Cardinality(open) < MaxOpenCallouts
    /\ phase' = "reserve"
    /\ examined' = 0
    /\ UNCHANGED <<open, next, candidate, given, wrapped>>

\* One turn of the loop.
Examine ==
    /\ phase = "reserve"
    /\ next' = Successor(next)
    /\ wrapped' = (wrapped \/ next = MaxCalloutId)
    /\ examined' = IF examined < MaxExamined THEN examined + 1 ELSE examined
    /\ IF IsFree(next)
       THEN phase' = "reserved" /\ candidate' = next /\ given' = given \cup {next}
       ELSE UNCHANGED <<phase, candidate, given>>
    /\ UNCHANGED open

\* The service takes the request, and the entry is made.
EnterReserved ==
    /\ phase = "reserved"
    /\ open' = open \cup {candidate}
    /\ phase' = "idle" /\ candidate' = 0 /\ examined' = 0
    /\ UNCHANGED <<next, given, wrapped>>

\* The service refuses it.
RefuseReserved ==
    /\ phase = "reserved"
    /\ phase' = "idle" /\ candidate' = 0 /\ examined' = 0
    /\ UNCHANGED <<open, next, given, wrapped>>

\* A callout ends.
RemoveOpen(id) ==
    /\ phase = "idle" /\ id \in open
    /\ open' = open \ {id}
    /\ UNCHANGED <<next, phase, candidate, examined, given, wrapped>>

Next ==
    \/ Begin \/ Examine \/ EnterReserved \/ RefuseReserved
    \/ \E id \in CalloutId : RemoveOpen(id)

Spec == Init /\ [][Next]_vars

-----------------------------------------------------------------------------
\* Identifiers are sound (callout.rs).  The one that `reserve' answers is not
\* zero and is not open, also after the counter wrapped among identifiers that
\* are still open, and it is found after one more than the table holds at most,
\* because the limit on open callouts keeps the table smaller than the counter.
\* Until the wrap, `issued' tells exactly which identifiers the guest was given,
\* so that a call on an ended callout is told from one on an unknown identifier.
IdentifiersSound ==
    /\ phase = "reserved" => candidate \in CalloutId /\ candidate \notin open
    /\ examined <= Cardinality(open) + 1
    /\ ~wrapped => {id \in CalloutId : Issued(id)} = given

\* What the comment on `issued' says: false for every identifier after the
\* counter wraps.
IssuedFalseAfterWrap == wrapped => \A id \in CalloutId : ~Issued(id)
=============================================================================

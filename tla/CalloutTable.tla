---------------------------- MODULE CalloutTable ----------------------------
(***************************************************************************)
(* The open callouts of one guest (abi/v0_2_1/callout.rs): operators on    *)
(* the table `open', a function whose domain is the set of open            *)
(* identifiers.  The identifier counter, which wraps, is modelled at its   *)
(* full behaviour in CalloutIds.                                           *)
(***************************************************************************)
EXTENDS ContextTable, FiniteSets

CONSTANTS
    MaxCalloutId,     \* the last identifier of the counter (2^32 - 1)
    MaxOpenCallouts   \* Limits::max_open_callouts

\* The limit is far below the identifier space, as `reserve' relies on.
ASSUME CalloutTableAssumption ==
    /\ MaxCalloutId \in Nat \ {0}
    /\ MaxOpenCallouts \in Nat

-----------------------------------------------------------------------------
CalloutId == 1 .. MaxCalloutId
NoCalloutId == 0

CalloutKind == {"HttpCall", "GrpcCall", "GrpcStream"}

Callout ==
    [ kind            : CalloutKind,
      caller          : ContextId,
      root            : ContextId,
      closed_by_guest : BOOLEAN ]

\* `None' of an Option<Callout>.
NoCallout ==
    [kind |-> "NoCallout", caller |-> NoContext, root |-> NoContext,
     closed_by_guest |-> FALSE]

CalloutTables(o) == DOMAIN o \subseteq CalloutId /\ o \in [DOMAIN o -> Callout]

NewCallout(kind, caller, root) ==
    [kind |-> kind, caller |-> caller, root |-> root, closed_by_guest |-> FALSE]

EnterCallout(o, id, callout) ==
    [i \in DOMAIN o \cup {id} |-> IF i = id THEN callout ELSE o[i]]

RemoveCallouts(o, ids) == Restrict(o, DOMAIN o \ ids)

\* Mutant: the close of the guest's side is not recorded.
CloseByGuestLost(o, id) == o

CloseByGuest(o, id) ==
    IF id \in DOMAIN o THEN [o EXCEPT ![id].closed_by_guest = TRUE] ELSE o

\* Mutant: the callouts of a root instead of the caller's.
MadeByRoot(o, caller) == {id \in DOMAIN o : o[id].root = caller}

MadeBy(o, caller) == {id \in DOMAIN o : o[id].caller = caller}

\* The identifier order of a BTreeMap: the first identifier of a non-empty set.
First(ids) == CHOOSE id \in ids : \A other \in ids : id <= other
=============================================================================

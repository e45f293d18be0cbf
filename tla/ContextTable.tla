---------------------------- MODULE ContextTable ----------------------------
(***************************************************************************)
(* The table of live contexts of one guest (abi/v0_2_1/context/table.rs).  *)
(*                                                                         *)
(* The table is a function whose domain is the set of live identifiers, as *)
(* the code's BTreeMap is.  The module has no variables: each operator is  *)
(* one method, from the table before the call to the table after it or to  *)
(* the answer of the method.  `effective', `next' and `vm_rejected' are    *)
(* variables of Guest, which applies these operators.                      *)
(***************************************************************************)
EXTENDS Integers, Functions

CONSTANTS
    MaxContextId,   \* the last identifier `create' gives out (2^32 - 2)
    RootIds         \* the root ids a plugin configuration can carry

\* There is at least one identifier to give out, and no root id is the mark of
\* a context that has no plugin yet.
ASSUME ContextTableAssumption ==
    /\ MaxContextId \in Nat \ {0}
    /\ "NoPlugin" \notin RootIds

-----------------------------------------------------------------------------
ContextId == 1 .. MaxContextId

\* `None' of an Option<ContextId>; the code's identifiers are NonZeroU32.
NoContext == 0

NoPlugin == "NoPlugin"
Plugin == RootIds \cup {NoPlugin}

ContextState == {"Active", "Pending", "Done"}
StreamKind == {"Http", "Tcp"}
NoKind == "NoKind"

\* A context is a root exactly when it has no parent, so the context type of
\* the entry is not kept apart.  The tick period carries no control.
ContextEntry ==
    [ parent      : ContextId \cup {NoContext},
      state       : ContextState,
      rejected    : BOOLEAN,
      plugin      : Plugin,
      stream_kind : StreamKind \cup {NoKind} ]

\* An empty BTreeMap.
EmptyTable == [id \in {} |-> NoContext]

ContextTables(t) == DOMAIN t \subseteq ContextId /\ t \in [DOMAIN t -> ContextEntry]

-----------------------------------------------------------------------------
IsRoot(t, c) == c \in DOMAIN t /\ t[c].parent = NoContext
IsStream(t, c) == c \in DOMAIN t /\ t[c].parent # NoContext

\* `root_of': a context's root, and NoContext for an unknown one.
RootOf(t, c) ==
    CASE IsRoot(t, c)   -> c
      [] IsStream(t, c) -> t[c].parent
      [] OTHER          -> NoContext

HasChildren(t, c) == IsRoot(t, c) /\ \E d \in DOMAIN t : t[d].parent = c

\* `is_rejected': the root of c is in the table and was refused.
IsRejected(t, c) ==
    RootOf(t, c) \in DOMAIN t /\ t[RootOf(t, c)].rejected

\* `root_with_id' finds a root that holds this root id.
HoldsRootId(t, p) == \E c \in DOMAIN t : t[c].plugin = p

-----------------------------------------------------------------------------
CreateContext(t, c, parent) ==
    [d \in DOMAIN t \cup {c} |->
        IF d = c
        THEN [parent |-> parent, state |-> "Active", rejected |-> FALSE,
              plugin |-> NoPlugin, stream_kind |-> NoKind]
        ELSE t[d]]

RemoveContext(t, c) == Restrict(t, DOMAIN t \ {c})

SetState(t, c, s) ==
    IF c \in DOMAIN t THEN [t EXCEPT ![c].state = s] ELSE t

Reject(t, c) ==
    IF c \in DOMAIN t THEN [t EXCEPT ![c].rejected = TRUE] ELSE t

SetPlugin(t, c, p) ==
    IF IsRoot(t, c) THEN [t EXCEPT ![c].plugin = p] ELSE t

SetStreamKind(t, c, k) ==
    IF c \in DOMAIN t THEN [t EXCEPT ![c].stream_kind = k] ELSE t

\* `done': moves the effective context from Pending to Done, and nothing else.
MayDone(t, effective) == effective \in DOMAIN t /\ t[effective].state = "Pending"
=============================================================================

------------------------------ MODULE Building ------------------------------
(***************************************************************************)
(* From a compiled module to a guest: GuestSpec::new checks the module     *)
(* once, Guest::new detects the ABI version, Instance::new links and runs  *)
(* the start sequence, Callbacks::resolve takes the typed callbacks.  Each *)
(* step can fail, and the guest's own code runs in three of them, with the *)
(* host functions already linked.                                          *)
(***************************************************************************)
EXTENDS Integers, Sequences, SequencesExt

CONSTANTS
    Callbacks,  \* the callbacks of the ABI that a module may export
    Offers      \* bound: the sets of proxy_abi_version exports of the modules

\* How a module exports a name: not at all, with the type the host expects, or
\* with another one.
Typing == {"absent", "typed", "mistyped"}
Allocator == {"proxy_on_memory_allocate", "malloc"}
Starter == {"_initialize", "main", "_start"}

\* AbiVersion: 0.2.0 and 0.2.1 are accepted; a module may offer others too.
AbiVersion == {"0.2.0", "0.2.1"}

VARIABLES
    module,   \* Module: what it advertises, imports and exports
    limits,   \* the limits and the engine: metered, and whether fuel is set
    stage,    \* what the construction does next
    refilled, \* the store has its budget
    state,    \* HostState, the data of the store
    ran,      \* the guest functions that ran, in order
    abi,      \* Guest::abi
    outcome   \* "None", "Built", or the error

buildVars == <<module, limits, stage, refilled, state, ran, abi, outcome>>

\* The imports, the memory and the start function of a module are looked at once,
\* in Instantiate and SetMemory, and chosen there.
Modules ==
    [abis : Offers, sameEngine : BOOLEAN,
     allocators : [Allocator -> Typing], starters : [Starter -> Typing],
     callbacks : [Callbacks -> Typing]]

LimitSettings == [metered : BOOLEAN, fuel : BOOLEAN]

\* AbiVersion::detect picks the newest accepted version.
Detect(abis) == IF "0.2.1" \in abis THEN "0.2.1"
                ELSE IF "0.2.0" \in abis THEN "0.2.0" ELSE "None"

\* Instance::typed_func: an export that is no function of the type is an error.
TypedFunc(typing) ==
    CASE typing = "absent" -> "None" [] typing = "typed" -> "Some" [] OTHER -> "ExportTypeMismatch"

\* The allocator is the first of the two that has the type; a mistyped one is
\* passed over.
FindAllocator(allocators) ==
    SelectSeq(<<"proxy_on_memory_allocate", "malloc">>, LAMBDA n : allocators[n] = "typed")

\* HostState::new: every handle is absent, and no callout may be opened.
HostStateNew == [limits |-> FALSE, memory |-> FALSE, allocator |-> FALSE, poisoned |-> FALSE]

\* A construction that nobody asks for.
Unstarted ==
    /\ module = CHOOSE m \in Modules : TRUE
    /\ limits = CHOOSE l \in LimitSettings : TRUE
    /\ stage = "end"
    /\ refilled = FALSE /\ state = HostStateNew /\ ran = <<>> /\ abi = "None" /\ outcome = "None"

BuildInit ==
    /\ module \in Modules
    /\ limits \in LimitSettings
    /\ stage = "spec"
    /\ refilled = FALSE
    /\ state = HostStateNew
    /\ ran = <<>>
    /\ abi = "None"
    /\ outcome = "None"

Ends(result) ==
    /\ outcome' = result /\ stage' = "end"
    /\ UNCHANGED <<module, limits, refilled, state, ran, abi>>

-----------------------------------------------------------------------------
\* GuestSpec::new.
GuestSpecNew ==
    /\ stage = "spec"
    /\ IF Detect(module.abis) = "None" THEN Ends("UnsupportedAbi")
       ELSE IF ~module.sameEngine THEN Ends("EngineMismatch")
       ELSE stage' = "detect" /\ UNCHANGED <<module, limits, refilled, state, ran, abi, outcome>>

\* Guest::new without a spec begins here.
GuestNewAlone ==
    /\ stage = "spec"
    /\ stage' = "detect"
    /\ UNCHANGED <<module, limits, refilled, state, ran, abi, outcome>>

\* AbiVersion::detect of Guest::new.
DetectAbi ==
    /\ stage = "detect"
    /\ IF Detect(module.abis) = "None" THEN Ends("UnsupportedAbi")
       ELSE /\ abi' = Detect(module.abis)
            /\ stage' = "limits"
            /\ UNCHANGED <<module, limits, refilled, state, ran, outcome>>

\* Fuel is set exactly when the engine meters it, and the store has its budget
\* and its limits before anything runs.
CheckLimits ==
    /\ stage = "limits"
    /\ IF limits.metered # limits.fuel THEN Ends("Config")
       ELSE /\ refilled' = TRUE
            /\ state' = [state EXCEPT !.limits = TRUE]
            /\ stage' = "instantiate"
            /\ UNCHANGED <<module, limits, ran, abi, outcome>>

\* Linker::instantiate: the engines, the imports, the memory ceiling and the
\* table bound, then the start function of the module if it has one, which may
\* trap.
Instantiate ==
    /\ stage = "instantiate"
    /\ \/ Ends("Instantiate")
       \/ /\ module.sameEngine
          /\ ran' = Append(ran, "section")
          /\ \/ stage' = "end" /\ outcome' = "Instantiate"
             \/ stage' = "memory" /\ UNCHANGED outcome
          /\ UNCHANGED <<module, limits, refilled, state, abi>>
       \/ /\ module.sameEngine
          /\ stage' = "memory"
          /\ UNCHANGED <<module, limits, refilled, state, ran, abi, outcome>>

SetMemory ==
    /\ stage = "memory"
    /\ \/ Ends("MissingMemory")
       \/ /\ state' = [state EXCEPT !.memory = TRUE]
          /\ stage' = "allocator"
          /\ UNCHANGED <<module, limits, refilled, ran, abi, outcome>>

\* Mutant: the allocator is taken after the start sequence.
SetAllocatorLate ==
    /\ stage = "allocator"
    /\ stage' = "start"
    /\ UNCHANGED <<module, limits, refilled, state, ran, abi, outcome>>

SetAllocator ==
    /\ stage = "allocator"
    /\ IF FindAllocator(module.allocators) = <<>> THEN Ends("MissingAllocator")
       ELSE /\ state' = [state EXCEPT !.allocator = TRUE]
            /\ stage' = "start"
            /\ UNCHANGED <<module, limits, refilled, ran, abi, outcome>>

\* call_typed of a start function: it returns, or unwinds and poisons the
\* instance, which is dropped.
Runs(name, then) ==
    /\ ran' = Append(ran, name)
    /\ \/ stage' = then /\ UNCHANGED <<outcome, state>>
       \/ /\ stage' = "end" /\ outcome' = "Trap"
          /\ state' = [state EXCEPT !.poisoned = TRUE]
    /\ UNCHANGED <<module, limits, refilled, abi>>

Skips(then) ==
    /\ stage' = then
    /\ UNCHANGED <<module, limits, refilled, state, ran, abi, outcome>>

\* Instance::start.
Start ==
    LET found == TypedFunc(module.starters["_initialize"]) IN
    /\ stage = "start"
    /\ \/ found = "Some" /\ Runs("_initialize", "main")
       \/ found = "None" /\ Skips("_start")
       \/ found = "ExportTypeMismatch" /\ Ends(found)

StartNamed(name) ==
    LET found == TypedFunc(module.starters[name]) IN
    /\ stage = name
    /\ \/ found = "Some" /\ Runs(name, "callbacks")
       \/ found = "None" /\ Skips("callbacks")
       \/ found = "ExportTypeMismatch" /\ Ends(found)

\* Callbacks::resolve.
Resolve ==
    /\ stage = "callbacks"
    /\ IF \E c \in Callbacks : TypedFunc(module.callbacks[c]) = "ExportTypeMismatch"
       THEN Ends("ExportTypeMismatch")
       ELSE Ends("Built")

BuildNext ==
    \/ GuestSpecNew \/ GuestNewAlone \/ DetectAbi \/ CheckLimits \/ Instantiate
    \/ SetMemory \/ SetAllocator \/ Start \/ StartNamed("main") \/ StartNamed("_start")
    \/ Resolve

BuildSpec == BuildInit /\ [][BuildNext]_buildVars

-----------------------------------------------------------------------------
\* What ran after the start section of the module.
StartCode(code) == IF code # <<>> /\ code[1] = "section" THEN Tail(code) ELSE code

\* The guest's code finds a host that is ready (instance.rs).  No code of a
\* module runs before its version is accepted and its budget set; the start
\* sequence finds the memory and the allocator that the host functions use;
\* `main' follows `_initialize', and `_start' runs only without it.  What is
\* built ran its whole start sequence, speaks the newest version it offers,
\* and has no callback of another type.
GuestCodeFindsHost ==
    /\ ran # <<>> => /\ refilled /\ state.limits /\ limits.metered = limits.fuel
                     /\ module.sameEngine /\ abi # "None"
    /\ LET code == StartCode(ran) IN
       /\ code \in {<<>>, <<"_initialize">>, <<"_initialize", "main">>, <<"_start">>}
       /\ code # <<>> => state.memory /\ state.allocator
       /\ outcome = "Built" =>
            /\ ~state.poisoned
            /\ "0.2.1" \in module.abis => abi = "0.2.1"
            /\ code = IF module.starters["_initialize"] = "absent"
                      THEN IF module.starters["_start"] = "absent" THEN <<>> ELSE <<"_start">>
                      ELSE IF module.starters["main"] = "absent" THEN <<"_initialize">>
                      ELSE <<"_initialize", "main">>
            /\ \A c \in Callbacks : module.callbacks[c] # "mistyped"
=============================================================================

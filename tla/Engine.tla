------------------------------- MODULE Engine -------------------------------
(***************************************************************************)
(* The clock that bounds a guest call (runtime/engine.rs) and the budget   *)
(* of the call (runtime/guest_call.rs).  The ticker's thread advances the  *)
(* epoch once per period; a call may see so many ticks and burn so much    *)
(* fuel, and the first check of the guest after that traps it.  The guest  *)
(* runs its allocator inside a call, on the budget of that call.           *)
(*                                                                         *)
(* Time passes in units smaller than a period, so that a call begins       *)
(* anywhere between two ticks.                                             *)
(***************************************************************************)
EXTENDS Integers

CONSTANTS
    Period,    \* EngineConfig::epoch_period, in units of time
    CpuTime,   \* Limits::cpu_time, in the same units
    Fuel,      \* Limits::fuel, or Unmetered
    MaxTicks,  \* u64::MAX / 4
    MaxLate    \* bound: how many units late the ticker's thread wakes

Unmetered == -1

\* EngineConfig::build refuses a zero period.
ASSUME EngineAssumption ==
    /\ Period \in Nat \ {0} /\ MaxTicks \in Nat \ {0}
    /\ CpuTime \in Nat /\ Fuel \in Nat \cup {Unmetered} /\ MaxLate \in Nat

VARIABLES
    external,  \* EngineConfig::external_ticks: there is no ticker
    held,      \* some Engine value is alive
    ticker,    \* the ticker's thread: none, waiting or ended
    clock,     \* units of time since the last tick
    running,   \* what runs on the thread of the guest
    left,      \* ticks until the deadline of the store
    fuel,      \* the fuel of the store
    spent,     \* units of time since the call began
    poisoned,  \* HostState::poisoned
    result     \* how the last call ended

engineVars == <<external, held, ticker, clock, running, left, fuel, spent, poisoned, result>>

Least(a, b) == IF a <= b THEN a ELSE b
Most(a, b) == IF a >= b THEN a ELSE b

\* Budget::new: div_ceil, at least one, below what wasmtime can add.
Budget == Least(Most((CpuTime + Period - 1) \div Period, 1), MaxTicks)

\* The longest a call runs before its deadline, when no tick is lost.
Longest == Budget * (Period + MaxLate)

GuestCode == {"guest", "allocator"}

EngineInit ==
    /\ external \in BOOLEAN
    /\ held = TRUE
    /\ ticker = IF external THEN "none" ELSE "waiting"
    /\ clock = 0
    /\ running = "nothing"
    /\ left = 0 /\ fuel = 0 /\ spent = 0
    /\ poisoned = FALSE
    /\ result = "None"

-----------------------------------------------------------------------------
(***************************************************************************)
(* The clock                                                               *)
(***************************************************************************)
\* A guest out of ticks or fuel reaches a check before any time passes.  The
\* ticker's thread is late by MaxLate at most; nothing else bounds the clock.
TimePasses ==
    /\ ~(running \in GuestCode /\ (left = 0 \/ fuel = 0))
    /\ ticker = "waiting" => clock < Period + MaxLate
    /\ clock' = Least(clock + 1, Period + MaxLate)
    /\ spent' = IF running = "nothing" THEN spent ELSE Least(spent + 1, Longest + 1)
    /\ UNCHANGED <<external, held, ticker, running, left, fuel, poisoned, result>>

\* Engine::increment_epoch.
IncrementEpoch ==
    /\ clock' = 0
    /\ left' = Most(left - 1, 0)
    /\ UNCHANGED <<external, held, running, fuel, spent, poisoned, result>>

\* The wait of the ticker's thread times out before the engine is dropped.
Tick == ticker = "waiting" /\ held /\ clock >= Period /\ IncrementEpoch /\ UNCHANGED ticker

\* The embedder advances the epoch from its own loop.
ExternalTick == external /\ held /\ clock >= Period /\ IncrementEpoch /\ UNCHANGED ticker

\* The last Engine is dropped, and Ticker::drop sets the flag under the lock.
\* A guest holds no Engine, so one may be running.
DropEngine ==
    /\ held
    /\ held' = FALSE
    /\ UNCHANGED <<external, ticker, clock, running, left, fuel, spent, poisoned, result>>

\* Mutant: the thread does not look at the flag, and ticks on.
TickerDeaf == ticker = "waiting" /\ ~held /\ clock >= Period /\ IncrementEpoch /\ UNCHANGED ticker

\* The ticker's thread wakes, sees the flag, and ends, so that the drop joins it.
TickerEnds ==
    /\ ticker = "waiting" /\ ~held
    /\ ticker' = "ended"
    /\ UNCHANGED <<external, held, clock, running, left, fuel, spent, poisoned, result>>

-----------------------------------------------------------------------------
(***************************************************************************)
(* A call                                                                  *)
(***************************************************************************)
\* Budget::refill.
Refill == left' = Budget /\ fuel' = Fuel

\* call_on: a poisoned store is refused before the guest runs.
CallOn ==
    /\ running = "nothing"
    /\ IF poisoned
       THEN result' = "Poisoned" /\ UNCHANGED <<running, left, fuel, spent>>
       ELSE /\ Refill
            /\ running' = "guest" /\ spent' = 0 /\ result' = "None"
    /\ UNCHANGED <<external, held, ticker, clock, poisoned>>

\* The guest runs an instruction that costs fuel.
Burn ==
    /\ running \in GuestCode /\ left > 0 /\ fuel > 0
    /\ fuel' = fuel - 1
    /\ UNCHANGED <<external, held, ticker, clock, running, left, spent, poisoned, result>>

\* The guest calls a host function, which may wait, and which returns.
HostFunction ==
    /\ running = "guest" /\ running' = "host"
    /\ UNCHANGED <<external, held, ticker, clock, left, fuel, spent, poisoned, result>>
HostReturns ==
    /\ running = "host" /\ running' = "guest"
    /\ UNCHANGED <<external, held, ticker, clock, left, fuel, spent, poisoned, result>>

\* Mutant: the call of the allocator refills the budget.
AllocateRefilled ==
    /\ running = "host" /\ running' = "allocator"
    /\ Refill
    /\ UNCHANGED <<external, held, ticker, clock, spent, poisoned, result>>

\* allocate of runtime/alloc.rs: no refill.
Allocate ==
    /\ running = "host" /\ running' = "allocator"
    /\ UNCHANGED <<external, held, ticker, clock, left, fuel, spent, poisoned, result>>
AllocatorReturns ==
    /\ running = "allocator" /\ running' = "host"
    /\ UNCHANGED <<external, held, ticker, clock, left, fuel, spent, poisoned, result>>

Return ==
    /\ running = "guest" /\ running' = "nothing"
    /\ result' = "Ok"
    /\ UNCHANGED <<external, held, ticker, clock, left, fuel, spent, poisoned>>

\* map_guest_error.
MapGuestError(trap) ==
    CASE trap = "Interrupt" -> "Epoch"
      [] trap = "OutOfFuel" -> "Fuel"
      [] trap = "StackOverflow" -> "Stack"
      [] trap = "HostError" -> "Ours"
      [] OTHER -> "Trap"

\* fail: whatever unwinds the guest poisons it.
Fail(trap) ==
    /\ running' = "nothing"
    /\ poisoned' = TRUE
    /\ result' = MapGuestError(trap)
    /\ UNCHANGED <<external, held, ticker, clock, left, fuel, spent>>

Interrupt == running \in GuestCode /\ left = 0 /\ Fail("Interrupt")
OutOfFuel == running \in GuestCode /\ fuel = 0 /\ Fail("OutOfFuel")
OtherTrap ==
    \/ running \in GuestCode /\ \E trap \in {"StackOverflow", "Unreachable"} : Fail(trap)
    \/ running = "host" /\ Fail("HostError")

EngineNext ==
    \/ TimePasses \/ Tick \/ ExternalTick \/ DropEngine \/ TickerEnds
    \/ CallOn \/ Burn \/ HostFunction \/ HostReturns \/ Allocate \/ AllocatorReturns
    \/ Return \/ Interrupt \/ OutOfFuel \/ OtherTrap

\* Time passes, the ticker's thread is scheduled, a host function returns, and
\* the guest's code comes to a check again and again, as wasmtime compiles one
\* into every loop and every function.
EngineFairness ==
    /\ WF_engineVars(TimePasses) /\ WF_engineVars(Tick) /\ WF_engineVars(TickerEnds)
    /\ WF_engineVars(HostReturns) /\ SF_engineVars(Interrupt) /\ SF_engineVars(OutOfFuel)

EngineSpec == EngineInit /\ [][EngineNext]_engineVars /\ EngineFairness

-----------------------------------------------------------------------------
\* The deadline is the call's own (guest_call.rs, alloc.rs): a call ends for
\* its CPU time only after all but one period of it, and a guest that used
\* its ticks up, in however many calls of its allocator, is at its deadline.
CpuTimeKept ==
    ~external =>
        /\ result = "Epoch" => spent >= Least(CpuTime, MaxTicks * Period) - Period
        /\ (held /\ running \in GuestCode /\ spent > Longest) => left = 0

\* A guest that never returns is stopped while the engine is held (engine.rs),
\* and dropping the engine ends the ticker's thread.
CallsEnd ==
    /\ (running # "nothing" /\ ~external) ~> (running = "nothing" \/ ~held)
    /\ ~held ~> ticker # "waiting"

\* What limits.rs says of the CPU time: the bound is reached between the time
\* the embedder sets and that time plus one period.
CpuTimeInFull == (result = "Epoch" /\ ~external) => spent >= CpuTime
=============================================================================

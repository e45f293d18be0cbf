------------------------------ MODULE MCProcess ------------------------------
(***************************************************************************)
(* The parts of a process around its guests, each on its own: the callout  *)
(* identifiers, the engine's clock, the construction of a guest, the pool  *)
(* of workers.  They share no state, so a behaviour is one of one part:    *)
(* `part' is chosen at the start, and the others stand still.              *)
(***************************************************************************)
EXTENDS CalloutIds, Engine, Building, Workers, DataTests, HostTests, TLC

CONSTANT HostTestsHold  \* HostTestsPass, whose operators have the level of a state

ASSUME HostTestsAssumption == HostTestsHold

VARIABLE part

allVars == <<part, vars, engineVars, buildVars, poolVars>>

MCInit ==
    /\ Init /\ PoolInit
    /\ \/ /\ part = "building"
          /\ BuildInit /\ EngineInit /\ ~external
       \/ /\ part = "engine"
          /\ EngineInit /\ Unstarted
       \/ /\ part \in {"ids", "workers"}
          /\ EngineInit /\ ~external /\ Unstarted

MCNext ==
    /\ \/ part = "ids" /\ Next /\ UNCHANGED <<engineVars, buildVars, poolVars>>
       \/ part = "engine" /\ EngineNext /\ UNCHANGED <<vars, buildVars, poolVars>>
       \/ part = "building" /\ BuildNext /\ UNCHANGED <<vars, engineVars, poolVars>>
       \/ part = "workers" /\ PoolNext /\ UNCHANGED <<vars, engineVars, buildVars>>
    /\ UNCHANGED part

\* The fairness of Engine and of Workers, each for its own behaviours.
MCEngineFairness ==
    /\ WF_engineVars(part = "engine" /\ TimePasses)
    /\ WF_engineVars(part = "engine" /\ Tick)
    /\ WF_engineVars(part = "engine" /\ TickerEnds)
    /\ WF_engineVars(part = "engine" /\ HostReturns)
    /\ SF_engineVars(part = "engine" /\ Interrupt)
    /\ SF_engineVars(part = "engine" /\ OutOfFuel)
MCPoolFairness ==
    \A w \in Worker : WF_poolVars(part = "workers" /\ Running /\ Thread(w))

MCSpec == MCInit /\ [][MCNext]_allVars /\ MCEngineFairness /\ MCPoolFairness
=============================================================================

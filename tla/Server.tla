------------------------------- MODULE Server -------------------------------
(***************************************************************************)
(* cmd/main.go: the life of the process around the operations of           *)
(* ConnectionPool, from the loading of its settings (AppConfig) to         *)
(* graceful or forced shutdown.  Two settings decide what is served:       *)
(* metrics_enabled chooses the transaction manager, max_open_conns is the  *)
(* size of the pool.                                                       *)
(***************************************************************************)
EXTENDS ConnectionPool, AppConfig

CONSTANT Followed    \* bound: the <<file, env>> whose process is followed further

ASSUME ServerAssumption == Followed \subseteq Files \X Environments

VARIABLES
    phase,           \* where main is
    cutOff           \* operations that died with the process

serverVars == <<poolVars, configVars, phase, cutOff>>

ServerInit == PoolInit /\ AppConfigInit /\ phase = "starting" /\ cutOff = {}

\* Load, the first thing main does; its error ends the process.
LoadConfig ==
    /\ phase = "starting"
    /\ AppConfigNext
    /\ phase' = IF stage' = "exited" THEN "exited" ELSE "starting"
    /\ UNCHANGED <<poolVars, cutOff>>

\* The database answers Ping and ListenAndServe is started.
Start ==
    /\ phase = "starting" /\ stage = "loaded"
    /\ <<file, env>> \in Followed
    /\ cfg["metrics_enabled"] = TxInContext /\ cfg["max_open_conns"] = MaxOpenConns
    /\ phase' = "serving"
    /\ UNCHANGED <<poolVars, configVars, cutOff>>

\* The process is gone, and with it its connections and what it was doing.
Exit ==
    /\ phase' = "exited"
    /\ cutOff' = {op \in Ops : UnderWay(op)}
    /\ pos' = [op \in Ops |-> IF UnderWay(op) THEN Len(Script(op)) + 1 ELSE pos[op]]
    /\ begun' = {} /\ running' = {} /\ waiting' = {} /\ failed' = {} /\ locked' = {}
    /\ UNCHANGED configVars

\* log.Fatal when the database or the listener fails, or a kill.
Die ==
    /\ phase # "exited"
    /\ phase = "starting" => stage = "loaded" /\ <<file, env>> \in Followed
    /\ Exit

\* SIGINT or SIGTERM: Shutdown closes the listener.
Signal ==
    /\ phase = "serving"
    /\ phase' = "draining"
    /\ UNCHANGED <<poolVars, configVars, cutOff>>

\* Shutdown returns once no request is active, and main returns.
Drained ==
    /\ phase = "draining"
    /\ \A op \in Ops : ~UnderWay(op)
    /\ Exit

\* Mutant: Shutdown with a context that never expires.
WaitForAll == FALSE

\* ... or when shutdownCtx expires: main returns whoever is still active.
ShutdownTimeout == phase = "draining" /\ Exit

Serve(op) ==
    /\ phase \in {"serving", "draining"}
    /\ OpStep(op)
    /\ phase = "draining" => pos[op] # 0
    /\ UNCHANGED <<configVars, phase, cutOff>>

\* The part of Serve that is fair.
Continue(op) ==
    /\ phase \in {"serving", "draining"}
    /\ Proceed(op)
    /\ UNCHANGED <<configVars, phase, cutOff>>

ServerNext ==
    \/ LoadConfig \/ Start \/ Die \/ Signal \/ Drained \/ ShutdownTimeout
    \/ \E op \in Ops : Serve(op)

\* The timer of shutdownCtx runs out; operations go on as in ConnectionPool.
ServerFairness ==
    /\ \A op \in Ops : WF_serverVars(Continue(op))
    /\ WF_serverVars(Drained) /\ WF_serverVars(ShutdownTimeout)

ServerSpec == ServerInit /\ [][ServerNext]_serverVars /\ ServerFairness
-----------------------------------------------------------------------------
(* Properties.                                                             *)

(* A signal ends the process, even when requests wait for each other's     *)
(* connections or for another service and will never be done.              *)
ShutdownEnds == phase = "draining" ~> phase = "exited"
=============================================================================

-------------------------------- MODULE Node --------------------------------
(***************************************************************************)
(* The node's process (server/start.go, pkg/rpc/server.go): StartHandler   *)
(* opens the application, starts the services one by one, launches the     *)
(* rollkit node in a goroutine of an errgroup, and at the end runs its     *)
(* deferred clean-up functions.  The block and DA loops of Adapter run     *)
(* while the rollkit node does (up), concurrently with all of that.        *)
(***************************************************************************)
EXTENDS Adapter

CONSTANT StartFaults  \* the services whose start may fail

Services == {"app", "bus", "indexer", "rpc", "gossip", "grpc"}

ASSUME StartFaultsAssumption == StartFaults \subseteq Services

VARIABLES phase,       \* where the goroutine of StartHandler is
          services,    \* what is running
          grpcOnly,    \* the --grpc-only flag
          cancelled,   \* the context of the errgroup is cancelled
          startFailed  \* this start has failed with the node launched already

procVars == <<phase, services, grpcOnly, cancelled, startFailed>>
nodeVars == <<vars, procVars>>

NodeInit == /\ Init
            /\ phase = "off"
            /\ services = {}
            /\ grpcOnly = FALSE
            /\ cancelled = FALSE
            /\ startFailed = FALSE

-----------------------------------------------------------------------------
\* The start of s fails: startInProcess returns the error, and what has been
\* deferred so far runs.
StartFails(s, cleanup) ==
    /\ s \in StartFaults
    /\ phase' = cleanup
    /\ startFailed' = (cleanup = "stopBus")
    /\ UNCHANGED services

\* startApp.  (When it fails there is nothing to clean up but the trace
\* writer, and the process ends.)
StartApp == /\ phase = "off"
            /\ services' = {"app"}
            /\ grpcOnly' \in BOOLEAN
            /\ phase' = IF grpcOnly' THEN "servers" ELSE "setup"
            /\ UNCHANGED <<vars, cancelled, startFailed>>

\* setupNodeAndExecutor: key, genesis, database, executor, mempool, DA client,
\* sequencer and node are made, none of them started; then the event bus, the
\* indexer and the RPC server are.  On an error the function returns before
\* cleanupFn is set: what has been started is left to the end of the process.
SetupNodeAndExecutor ==
    /\ phase = "setup"
    /\ \/ services' = services \cup {"bus", "indexer", "rpc"} /\ phase' = "launch"
       \/ /\ StartFaults \cap {"bus", "indexer", "rpc"} # {}
          /\ services' \in {services, services \cup {"bus"},
                            services \cup {"bus", "indexer"}}
          /\ phase' = "cancel"
    /\ UNCHANGED <<vars, grpcOnly, cancelled, startFailed>>

\* g.Go(rollkitNode.Run)
Launch == /\ phase = "launch"
          /\ StartNode
          /\ phase' = "gossip"
          /\ UNCHANGED <<services, grpcOnly, cancelled, startFailed>>

\* executor.Start, a second later: fails if the node has not got its PubSub
\* up by then.  The gossiper it starts ends with the process.
StartExecutor ==
    /\ phase = "gossip"
    /\ \/ phase' = "servers" /\ UNCHANGED <<services, startFailed>>
       \/ StartFails("gossip", "stopBus")
    /\ UNCHANGED <<vars, grpcOnly, cancelled>>

\* The gRPC and API servers.
StartServers ==
    /\ phase = "servers"
    /\ \/ /\ services' = services \cup {"grpc"}
          /\ phase' = "wait"
          /\ UNCHANGED startFailed
       \/ StartFails("grpc", IF grpcOnly THEN "cancel" ELSE "stopBus")
    /\ UNCHANGED <<vars, grpcOnly, cancelled>>

\* A quit signal, or a gRPC or API server that returns an error, cancels the
\* context.
QuitSignal == /\ phase # "off" /\ ~ cancelled
              /\ cancelled' = TRUE
              /\ UNCHANGED <<vars, phase, services, grpcOnly, startFailed>>

\* A slip: a failed run does not cancel the context (the errgroup's own
\* context is not the one handed out).
NodeReturnsQuietly ==
    /\ up
    /\ cancelled \/ xpc = "failed" \/ fpc = "failed"
    /\ Halt
    /\ UNCHANGED procVars

\* rollkitNode.Run returns, because the context is cancelled or because one
\* of the loops reported an error: cancelFn, or the errgroup, cancels.
NodeReturns ==
    /\ up
    /\ cancelled \/ xpc = "failed" \/ fpc = "failed"
    /\ Halt
    /\ cancelled' = TRUE
    /\ UNCHANGED <<phase, services, grpcOnly, startFailed>>

\* A slip: the signal alone ends the wait.
WaitForSignal == /\ phase = "wait" /\ cancelled
                 /\ services' = services \ {"grpc"}
                 /\ phase' = IF grpcOnly THEN "cancel" ELSE "stopBus"
                 /\ UNCHANGED <<vars, grpcOnly, cancelled, startFailed>>

\* g.Wait returns when every goroutine of the group has: the node, and the
\* servers, which end with the context.
Wait == /\ phase = "wait" /\ cancelled /\ ~ up
        /\ services' = services \ {"grpc"}
        /\ phase' = IF grpcOnly THEN "cancel" ELSE "stopBus"
        /\ UNCHANGED <<vars, grpcOnly, cancelled, startFailed>>

-----------------------------------------------------------------------------
\* The deferred functions, last deferred first: cleanupFn, cancelFn and
\* appCleanupFn.  None of them waits for the node.
End(p, s, next) ==
    /\ phase = p
    /\ services' = services \ {s}
    /\ phase' = next
    /\ UNCHANGED <<vars, grpcOnly, cancelled, startFailed>>

StopBus == End("stopBus", "bus", "stopIndexer")
StopIndexer == End("stopIndexer", "indexer", "stopRPC")
StopRPC == End("stopRPC", "rpc", "cancel")

Cancel == /\ phase = "cancel"
          /\ cancelled' = TRUE
          /\ phase' = "closeApp"
          /\ UNCHANGED <<vars, services, grpcOnly, startFailed>>

CloseApp == End("closeApp", "app", "exit")

\* The process ends, and with it every goroutine that is left: after the
\* clean-up, or in a crash at any point.
ProcessEnds == /\ Halt
               /\ phase' = "off"
               /\ services' = {}
               /\ grpcOnly' = FALSE
               /\ cancelled' = FALSE
               /\ startFailed' = FALSE

Exit == phase = "exit" /\ ProcessEnds

Crash == "crash" \in Faults /\ phase # "off" /\ ProcessEnds

-----------------------------------------------------------------------------
\* The loops of the adapter, next to that.  A closed application refuses
\* every call, and what is published on a stopped bus is dropped without an
\* error.
UsesApp == xpc \in {"initChain", "idle", "finalize", "commit"}
LoopStep ==
    /\ \/ /\ UsesApp => "app" \in services
          /\ xpc = "fire" => "bus" \in services
          /\ ExecStep
       \/ /\ up /\ UsesApp /\ "app" \notin services
          /\ ExecFails
       \/ /\ At("fire") /\ "bus" \notin services
          /\ xpc' = "return"
          /\ UNCHANGED <<disk, up, xs, appended, fbEvents, stackedEvents,
                         final, published>>
       \/ FinalStep
    /\ UNCHANGED procVars

Main == \/ StartApp \/ SetupNodeAndExecutor \/ Launch
        \/ StartExecutor \/ StartServers \/ Wait
        \/ StopBus \/ StopIndexer \/ StopRPC \/ Cancel \/ CloseApp \/ Exit

NodeNext == Main \/ QuitSignal \/ NodeReturns \/ Crash \/ LoopStep

-----------------------------------------------------------------------------
\* The node's loops never outlive what they use.  Only after a start that
\* failed with the node launched already does the clean-up run under it:
\* "the node goroutine might still be running".
ServicesOutliveNode ==
    startFailed \/ (up => {"app", "bus", "indexer", "rpc"} \subseteq services)

\* A quit signal and a failed loop end the process, whatever has been
\* started by then.
QuitEndsProcess ==
    (phase # "off" /\ (cancelled \/ xpc = "failed")) ~> (phase = "off")
=============================================================================

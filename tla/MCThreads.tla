------------------------------ MODULE MCThreads -------------------------------
(* Two components that are a thread behind a mailbox: the owner of the engine
   supervisor, and the worker of a WebAssembly extension with the
   synchronisation loop.  A behaviour is about one of them. *)
EXTENDS MCEngineSupervisor, WasmWorker

VARIABLE focus   \* the thread this behaviour is about

ThreadsInit == Init /\ WasmInit /\ focus \in {"owner", "worker"}

ThreadsNext ==
  \/ focus = "owner" /\ Next /\ UNCHANGED <<wasmVars, focus>>
  \/ focus = "worker" /\ WasmNext /\ UNCHANGED <<vars, focus>>

\* Fairness and WasmFairness, each for its own behaviours
ThreadsFairness ==
  /\ WF_vars(focus = "owner" /\ OwnerStep)
  /\ WF_vars(focus = "owner" /\ SendShutdown)
  /\ \A d \in Doc : /\ WF_vars(focus = "owner" /\ SendDetach(d))
                    /\ \A t \in Thread : WF_vars(focus = "owner" /\ SendCall(d, t))
  /\ \A d \in Steady : WF_vars(focus = "owner" /\ Receive(d))
  /\ WF_wasmVars(focus = "worker" /\ WorkerThread)
  /\ WF_wasmVars(focus = "worker" /\ SyncLoop)

ThreadsSpec ==
  ThreadsInit /\ [][ThreadsNext]_<<vars, wasmVars, focus>> /\ ThreadsFairness
=============================================================================

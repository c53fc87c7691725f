---------------------------- MODULE MCWasmWorker ----------------------------
(* The worker, its proxy and the synchronisation loop, with an upgrade that
   is being activated. *)
EXTENDS WasmWorker
=============================================================================

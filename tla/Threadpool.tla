------------------------------ MODULE Threadpool ------------------------------
(* The worker threads FastAPI runs a route that is not a coroutine in: two *)
(* requests to such routes may interleave at any step.                     *)
CONSTANT Threads
ASSUME ThreadpoolAssumption == Threads # {}
=============================================================================

----------------------------- MODULE MCJobQueue -----------------------------
(* A small instance of JobQueue for TLC. *)
EXTENDS JobQueue, TLC

CONSTANTS web, w1, w2, j1, j2, k1

\* A web process enqueues a job, then a delayed and more urgent one, under one
\* idempotency key.
MCFrom == j1 :> web @@ j2 :> web
MCKey == j1 :> k1 @@ j2 :> k1
MCScore == j1 :> 300 @@ j2 :> 100
MCMaxRetries == j1 :> 2 @@ j2 :> 1
=============================================================================

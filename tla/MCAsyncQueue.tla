---------------------------- MODULE MCAsyncQueue ----------------------------
(* Two worker threads, three jobs of which one is discardable.             *)
EXTENDS AsyncQueue

CONSTANTS t1, t2, j1, j2, j3

MCWorkers == {t1, t2}
MCJobs == {j1, j2, j3}
MCDiscardable == {j3}
=============================================================================

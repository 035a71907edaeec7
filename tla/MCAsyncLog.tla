---------------------------- MODULE MCAsyncLog ----------------------------
(* AsyncLog with more producers than the queue has room for.               *)
EXTENDS AsyncLog
=============================================================================

----------------------------- MODULE MCTaskQueue -----------------------------
(* TaskQueue for TLC: the constants are given in TaskQueue.cfg.            *)
EXTENDS TaskQueue
==============================================================================

----------------------------- MODULE MCAccessLog -----------------------------
(* AccessLog for TLC: the constants are given in Log.cfg.                  *)
EXTENDS AccessLog
==============================================================================

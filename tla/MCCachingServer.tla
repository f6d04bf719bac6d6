-------------------------- MODULE MCCachingServer --------------------------
(* CachingServer for TLC.                                                  *)
EXTENDS CachingServer

CONSTANTS c1, c2, c3, a

\* Two clients for one path, so that a hit and a stampede happen, and a third
\* whose entry evicts theirs.
TwoAndOne == { [c \in Clients |-> IF c = c3 THEN Root ELSE a] }
============================================================================

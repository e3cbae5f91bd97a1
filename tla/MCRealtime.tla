------------------------------ MODULE MCRealtime ------------------------------
(* An instance of Realtime for TLC: two tabs, two sockets.                 *)
EXTENDS Realtime

CONSTANTS t1, t2, s1, s2

MCTabs    == {t1, t2}
MCSockets == {s1, s2}
=============================================================================

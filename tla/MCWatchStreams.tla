---------------------------- MODULE MCWatchStreams ----------------------------
(* Two Works, the first of them watched on its own, for watch.cfg.         *)
EXTENDS WatchStreams

CONSTANTS w1, w2, x1, y1

FirstWork == [x \in Watchers |-> w1]
=============================================================================

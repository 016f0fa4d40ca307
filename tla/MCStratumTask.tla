--------------------------- MODULE MCStratumTask ---------------------------
(***************************************************************************)
(* StratumTask on two pools, both slots filled: the first is primary, the  *)
(* second is the fallback. Every other selection is reached through the    *)
(* HTTP handlers, and for safety also from one pool in both roles, which   *)
(* leaves a slot that may be deleted.                                      *)
(***************************************************************************)
EXTENDS StratumTask

MCInit ==
    /\ Init
    /\ cfg.primary = 0 /\ cfg.secondary = 1 /\ cfg.filled = Pools

OnePoolInit ==
    /\ Init
    /\ cfg.primary = 0 /\ cfg.secondary = 0 /\ cfg.filled = Pools
    /\ cfg.useFallback = FALSE /\ up = Pools

MCSpec == (MCInit \/ OnePoolInit) /\ [][Next]_vars

(* For liveness the user only edits pools (PUT); the selection is one of    *)
(* the two initial ones.                                                    *)
PutNext ==
    \/ StratumStep \/ HeartbeatStep \/ HttpStep
    \/ \E p \in Pools : PutPool(p)
    \/ ReceiveLine \/ PoolEndsSession \/ WorldChanges

MCPutSpec == MCInit /\ [][PutNext]_vars /\ Fairness
=============================================================================

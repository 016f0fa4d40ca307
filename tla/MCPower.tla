------------------------------ MODULE MCPower ------------------------------
(* PowerManagement from one pair of settings; the user's edits lower the    *)
(* voltage or the frequency, as an overheat does. Chips or fans fail only    *)
(* in behaviours without an edit and without overheating.                   *)
EXTENDS PowerManagement

MCInit == Init /\ volt = 12 /\ freq = 5

MCNext == Next /\ (fails' = 0 \/ edits' + heats' = 0)

MCSpec == MCInit /\ [][MCNext]_vars /\ Fairness
=============================================================================

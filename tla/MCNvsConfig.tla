---------------------------- MODULE MCNvsConfig ----------------------------
(* Two pools: two indexes of one string setting, which share its is_set.    *)
EXTENDS NvsConfig

MCSlots   == {"pool1", "pool2"}
MCKeys    == {"pool"}
MCKeyOf   == [s \in MCSlots |-> "pool"]
MCValues  == {"", "a", "b"}
MCDefault == [s \in MCSlots |-> "a"]
=============================================================================

---------------------------- MODULE MCWmsViewer ----------------------------
(***************************************************************************)
(* The map viewer with three layers and three times, and contexts in which *)
(* layers share all, some or no times, have none, or have no default.      *)
(***************************************************************************)
EXTENDS WmsViewer

CONSTANTS Ocean, Ice

MCLayers == {First, Ocean, Ice}
MCTimes == 1 .. 3

MCValues ==
    {[l \in MCLayers |-> CASE l = First -> a [] l = Ocean -> b [] OTHER -> c] :
        a \in {{}, {1, 2, 3}}, b \in {{2, 3}, {1}}, c \in {{}, {1, 3}}}

MCContexts ==
    {[base |-> bs, visible |-> {First}, values |-> v,
      default |-> [l \in MCLayers |-> IF l = First THEN d ELSE NoTime]] :
        bs \in {{}, {First}, {First, Ocean}}, v \in MCValues, d \in {NoTime, 2}}
=============================================================================

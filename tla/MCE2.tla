-------------------------------- MODULE MCE2 --------------------------------
(* Two subscriptions of one xApp at a DU that may restart. *)
EXTENDS E2Subscriptions

CONSTANTS du, xapp

MCNodes == {du}
MCXApps == {xapp}
==============================================================================

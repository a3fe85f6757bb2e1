---------------------------- MODULE MCRateLimits ----------------------------
(* RateLimits and Bandwidth on small instances.  The two limiters share no *)
(* state, so a behaviour of both is two behaviours side by side; only one  *)
(* of them moves in a behaviour here, and the properties of each see all   *)
(* it can do.  Callers, devices, controllers and handlers are              *)
(* interchangeable.                                                        *)
EXTENDS Bandwidth, TLC

(* Two of a message's three keys; a controller's key works like a device's. *)
MCKeys == {"global", "device"}
MCLimit == [global |-> 2, device |-> 1]
MCKeysOf == [h \in Handlers |-> <<"global", "device">>]

MCInit == Init /\ BandwidthInit

MCNext ==
  \/ BandwidthInit /\ Next /\ UNCHANGED bandwidthVars
  \/ Init /\ BandwidthNext /\ UNCHANGED vars

MCSpec == MCInit /\ [][MCNext]_<<vars, bandwidthVars>>

Symmetry == Permutations(Callers) \cup Permutations(Devices)
            \cup Permutations(Controllers) \cup Permutations(Handlers)
=============================================================================

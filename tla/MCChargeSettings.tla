--------------------------- MODULE MCChargeSettings ---------------------------
(* Requests of every handler, chosen so that each check of the adapters and of
   the guard passes for some values and fails for others. *)
EXTENDS ChargeSettings, TLC

MCSymmetry == Permutations(Threads)

MCBlocks ==
  {[classic |-> [limit |-> amps, absorb |-> 560, float |-> 559, equalize |-> 560, comp |-> 560],
    epever |-> [boost |-> 560, float |-> 560, equalize |-> 560, reconnect |-> 550,
                current |-> 800]
               @@ ("charging_limit" :> 565)] : amps \in {0, 800}}

MCRequests ==
  {[kind |-> "nudge", device |-> d, delta |-> 5] : d \in Devices}
  \cup {[kind |-> "nudge", device |-> "epever", delta |-> 11]}
  \cup {[kind |-> "scalar", device |-> d, volts |-> v] : d \in Devices, v \in {555}}
  \cup {[kind |-> "settings", device |-> "classic", cells |-> [float |-> 565, comp |-> 565]],
        [kind |-> "settings", device |-> "epever",
         cells |-> [equalize |-> 562, reconnect |-> 558, current |-> 5]],
        [kind |-> "settings", device |-> "epever",
         cells |-> [boost |-> 560] @@ ("boost_time" :> 60) @@ ("equalize_time" :> 0)],
        [kind |-> "settings", device |-> "epever", cells |-> [current |-> 600]],
        [kind |-> "sync", offset |-> 3, current |-> TRUE],
        [kind |-> "factor", value |-> 4],
        [kind |-> "factor", value |-> 60],
        [kind |-> "factor_delta", delta |-> 10],
        [kind |-> "switch", device |-> "epever", on |-> FALSE],
        [kind |-> "switch", device |-> "classic", on |-> TRUE]}
=============================================================================

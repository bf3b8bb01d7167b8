------------------------------ MODULE MCHandling ------------------------------
(* Two keys for one direction, a key for two actions, and settings of every kind. *)
EXTENDS Handling

MCBindings ==
    [l |-> {"left"}, m |-> {"left", "cw"}, r |-> {"right"}, d |-> {"softDrop"},
     s |-> {"hardDrop"}, h |-> {"hold"}]

Setting(das, arr, dcd, sdf, cancel, preferDrop, buffer) ==
    [das |-> das, arr |-> arr, dcd |-> dcd, sdf |-> sdf, cancel |-> cancel,
     preferDrop |-> preferDrop, safe |-> TRUE, irs |-> buffer, ihs |-> buffer]
MCSettings ==
    {Setting(2, 1, 0, 1, FALSE, TRUE, "tap"), Setting(2, 0, 1, 2, FALSE, FALSE, "hold"),
     Setting(1, 0, 1, Sonic, TRUE, FALSE, "off")}

=============================================================================

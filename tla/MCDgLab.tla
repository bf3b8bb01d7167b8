------------------------------- MODULE MCDgLab -------------------------------
(* One channel or both, a limit that can be lowered, and the switch turned off. *)
EXTENDS DgLab

MCConfigs ==
    {[enabled |-> TRUE, channels |-> {"A"}, maxStrength |-> 3],
     [enabled |-> TRUE, channels |-> {"A", "B"}, maxStrength |-> 1],
     [enabled |-> FALSE, channels |-> {"A"}, maxStrength |-> 3]}

=============================================================================

------------------------------ MODULE MCReplay ------------------------------
(* A small match: an input carries one action, or two of which one is fatal; a *)
(* frame throws when a player has more than two actions in it.                *)
EXTENDS ReplayPersistence

MCActionLists == {<<"drop">>, <<"drop", "fatal">>}

=============================================================================

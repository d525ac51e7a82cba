----------------------------- MODULE MCCarInfo -----------------------------
(* An instance of AllCarInfo for TLC. *)
EXTENDS AllCarInfo

MCRounds ==
    {[race |-> TRUE, cars |-> {1, 2}, frames |-> 6, flashbacks |-> 1],
     [race |-> TRUE, cars |-> {1}, frames |-> 8, flashbacks |-> 2],
     [race |-> FALSE, cars |-> {2}, frames |-> 6, flashbacks |-> 1]}

(* A recorder that starts with the cars on the grid or two points on. *)
MCStarts == {0, 2}
============================================================================

------------------------ MODULE MCSmartHomeRegistry ------------------------
(* A light and a switch, an area that may be renamed or moved, and a       *)
(* packaged home with one light in one area.                               *)
EXTENDS SmartHomeRegistry, TLC

CONSTANTS a1, d1

Hall == [name |-> "hall", order |-> 0]
MCLabel == {Hall, [Hall EXCEPT !.order = 1], [Hall EXCEPT !.name = "kitchen"]}
MCType == {"light", "switch"}
MCTrait == {"onoff", "level"}
MCSupports(type) == IF type = "light" THEN MCTrait ELSE {"onoff"}
MCSample ==
  [areas |-> [a \in Area |-> IF a = a1 THEN Hall ELSE None],
   devices |-> [d \in Device |-> IF d = d1 THEN [area |-> a1, type |-> "light"] ELSE None],
   scenes |-> {}, actions |-> [s \in Scene |-> {}],
   placements |-> [p \in Ref |-> None]]
=============================================================================

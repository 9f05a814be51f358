--------------------------- MODULE MCFrigateMotion ---------------------------
(***************************************************************************)
(* Three detections, two of a person and one of a label without an object  *)
(* type, and up to three handlers at once.                                 *)
(***************************************************************************)
EXTENDS FrigateMotion

CONSTANTS core_task, h1, h2, h3, none, person, personLabel, dogLabel, d1, d2, d3

MCLabelOf == [d \in {d1, d2, d3} |-> IF d = d2 THEN dogLabel ELSE personLabel]
MCTypeOf == [l \in {personLabel, dogLabel} |-> IF l = personLabel THEN person ELSE none]
=============================================================================

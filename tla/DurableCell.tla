----------------------------- MODULE DurableCell ------------------------------
(***************************************************************************)
(* What a file replaced by write, flush and rename promises: a reader finds *)
(* one complete value, and a loss of power leaves the last flushed value or *)
(* one that replaced it since.                                              *)
(***************************************************************************)
CONSTANT Values, Absent

VARIABLES
  value,    \* what a reader finds
  stable    \* what a loss of power may leave

vars == <<value, stable>>

Init == value = Absent /\ stable = {Absent}

Replace(v) == value' = v /\ stable' = stable \union {v}

Flush == stable' = {value} /\ UNCHANGED value

Lose == value' \in stable /\ stable' = {value'}

Next == (\E v \in Values : Replace(v)) \/ Flush \/ Lose

Spec == Init /\ [][Next]_vars
=============================================================================

---------------------------- MODULE MCTimelapse ----------------------------
(* Model values for Timelapse. *)
EXTENDS Timelapse
CONSTANTS f1, f2

ASSUME WithoutSelects ==
  \A s \in UNION {[1..n -> Dir] : n \in 0..4} : \A D \in SUBSET Dir :
    Without(s, D) = SelectSeq(s, LAMBDA x : x \notin D)
=============================================================================

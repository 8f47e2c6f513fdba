------------------------------ MODULE Playback ------------------------------
(* What a viewer of a live stream is promised: segments are published one  *)
(* after the other, and those that are played are played in that order,    *)
(* each at most once.  Segments may be skipped.                            *)
EXTENDS Naturals, Sequences

CONSTANT MaxSeg          \* bound of the model: segments ever published
VARIABLES last,          \* the newest segment published
          played         \* segments played, in order

Init == last \in 0 .. MaxSeg /\ played = <<>>

Publish ==
    /\ last < MaxSeg
    /\ last' = last + 1
    /\ UNCHANGED played

Latest == IF played = <<>> THEN 0 ELSE played[Len(played)]

Play ==
    /\ \E n \in Latest + 1 .. last : played' = Append(played, n)
    /\ UNCHANGED last

Next == Publish \/ Play
Spec == Init /\ [][Next]_<<last, played>>
=============================================================================

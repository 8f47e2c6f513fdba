------------------------------ MODULE Delivery ------------------------------
(* What the receiver of a stream of segments is promised: it gets bytes of *)
(* one segment after the other, those of each from its first on and without*)
(* a gap.  A segment may break off, and the stream may end at any byte.    *)
EXTENDS Naturals, Sequences

CONSTANTS Segments,    \* their numbers, in the order they are to be sent
          Bytes        \* positions in a segment
VARIABLE received      \* the bytes that have arrived

Follows(a, b) ==
    \/ b.seg = a.seg /\ b.n = a.n + 1
    \/ b.seg > a.seg /\ b.n = 1

InOrder(s) ==
    /\ s # <<>> => s[1].n = 1
    /\ \A i \in 1 .. Len(s) - 1 : Follows(s[i], s[i + 1])

Init == received = <<>>

(* As many bytes as one send brings.                                       *)
Deliver ==
    /\ received' \in Seq([seg : Segments, n : Bytes])
    /\ Len(received') >= Len(received)
    /\ SubSeq(received', 1, Len(received)) = received
    /\ InOrder(received')

Spec == Init /\ [][Deliver]_received
=============================================================================

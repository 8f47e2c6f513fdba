--------------------------- MODULE HlsRelay_proofs ---------------------------
(* Proofs about HlsRelay, for requests, segments and buffers of any size.  *)
EXTENDS HlsRelay, SequenceTheorems, TLAPS

(* Sequences                                                               *)

LEMMA SplitSeq ==
    ASSUME NEW S, NEW s \in Seq(S), NEW n \in Nat, n <= Len(s)
    PROVE  /\ Take(s, n) \in Seq(S) /\ Len(Take(s, n)) = n
           /\ Drop(s, n) \in Seq(S) /\ Take(s, n) \o Drop(s, n) = s
<1>1. Take(s, n) \in Seq(S) /\ Len(Take(s, n)) = n
  <2>1. \A i \in 1 .. n : s[i] \in S
    BY ElementOfSeq, LenProperties
  <2> QED
    BY <2>1, SubSeqProperties DEF Take
<1>2. Drop(s, n) \in Seq(S)
  <2>1. n + 1 \in Int /\ Len(s) \in Int /\ \A i \in n + 1 .. Len(s) : s[i] \in S
    BY ElementOfSeq, LenProperties
  <2> QED
    BY <2>1, SubSeqProperties DEF Drop
<1>3. Take(s, n) \o Drop(s, n) = s
  <2>1. /\ 1 \in 1 .. Len(s) + 1 /\ n \in 1 - 1 .. Len(s) /\ Len(s) \in n .. Len(s)
    BY LenProperties
  <2>2. SubSeq(s, 1, n) \o SubSeq(s, n + 1, Len(s)) = SubSeq(s, 1, Len(s))
    BY <2>1, ConcatAdjacentSubSeq
  <2> QED
    BY <2>2, SubSeqFull DEF Take, Drop
<1> QED
  BY <1>1, <1>2, <1>3

LEMMA DropSeq == ASSUME NEW S, NEW s \in Seq(S), NEW n \in Nat PROVE Drop(s, n) \in Seq(S)
<1>1. n + 1 \in Int /\ Len(s) \in Int /\ \A i \in n + 1 .. Len(s) : s[i] \in S
  BY ElementOfSeq, LenProperties
<1> QED
  BY <1>1, SubSeqProperties DEF Drop

Cat(a, b)        == a \o b
Transit(a, b, c) == a \o b \o c

LEMMA CatProperties ==
    ASSUME NEW S, NEW a \in Seq(S), NEW b \in Seq(S), NEW c \in Seq(S)
    PROVE  Cat(a, b) \in Seq(S) /\ Cat(Cat(a, b), c) = Cat(a, Cat(b, c))
<1>1. (a \o b) \o c = a \o (b \o c)
  BY ConcatAssociative
<1>2. a \o b \in Seq(S)
  BY ConcatProperties
<1> QED
  BY <1>1, <1>2 DEF Cat

(* What is sent, kept and left over of what was in the buffer and to be    *)
(* put: as long as these are the same bytes, so is all that is in transit. *)
LEMMA Regroup ==
    ASSUME NEW S, NEW r \in Seq(S), NEW a \in Seq(S), NEW b \in Seq(S),
           NEW x \in Seq(S), NEW y \in Seq(S), NEW z \in Seq(S),
           Transit(x, y, z) = Cat(a, b)
    PROVE  Transit(Cat(r, x), y, z) = Transit(r, a, b)
<1>1. /\ Cat(Cat(r, x), y) = Cat(r, Cat(x, y)) /\ Cat(x, y) \in Seq(S)
      /\ Cat(Cat(r, a), b) = Cat(r, Cat(a, b))
  BY CatProperties
<1>2. Cat(Cat(r, Cat(x, y)), z) = Cat(r, Cat(Cat(x, y), z))
  BY <1>1, CatProperties
<1>3. Cat(Cat(x, y), z) = Cat(a, b)
  BY DEF Cat, Transit
<1>4. Cat(Cat(Cat(r, x), y), z) = Cat(Cat(r, a), b)
  BY <1>1, <1>2, <1>3
<1> QED
  BY <1>4 DEF Cat, Transit

-----------------------------------------------------------------------------
(* The buffer of a stream                                                  *)

(* A send that leaves a stream good has sent the whole buffer.             *)
LEMMA Sends ==
    ASSUME NEW s \in Streams, NEW o \in output_buffer(s)
    PROVE  /\ o.to \in Streams /\ o.sent \in Seq(Items)
           /\ o.to.open = s.open /\ (s.bad => o.to.bad)
           /\ o.to.obuf = <<>> \/ (o.to.obuf = s.obuf /\ o.to.bad)
           /\ ~o.to.bad => o.sent = s.obuf /\ o.to.obuf = <<>>
<1>0. s.obuf \in Seq(Items) /\ Len(s.obuf) \in Nat
  BY LenProperties DEF Streams
<1>f. ASSUME NEW to, NEW sent, o = Outcome(to, sent)
      PROVE  o.to = to /\ o.sent = sent
  BY <1>f DEF Outcome
<1>e. <<>> \in Seq(Items)
  BY EmptySeq
<1>1. CASE ~s.open
  <2>1. o = Outcome([s EXCEPT !.bad = TRUE], <<>>)
    BY <1>1 DEF output_buffer
  <2>2. o.to = [s EXCEPT !.bad = TRUE] /\ o.sent = <<>>
    BY <2>1, <1>f
  <2> QED
    BY <2>2, <1>e DEF Streams
<1>2. CASE s.open /\ o = Outcome([s EXCEPT !.obuf = <<>>], s.obuf)
  <2>1. o.to = [s EXCEPT !.obuf = <<>>] /\ o.sent = s.obuf
    BY <1>2, <1>f
  <2> QED
    BY <2>1, <1>0, <1>e DEF Streams
<1>3. ASSUME s.open, NEW k \in {0} \union 1 .. Len(s.obuf) - 1,
             o = Outcome([s EXCEPT !.bad = TRUE], Take(s.obuf, k))
      PROVE  /\ o.to \in Streams /\ o.sent \in Seq(Items)
             /\ o.to.open = s.open /\ o.to.bad /\ o.to.obuf = s.obuf
  <2>1. k \in Nat /\ k <= Len(s.obuf)
    BY <1>0
  <2>2. Take(s.obuf, k) \in Seq(Items)
    BY <1>0, <2>1, SplitSeq
  <2>3. o.to = [s EXCEPT !.bad = TRUE] /\ o.sent = Take(s.obuf, k)
    BY <1>3, <1>f
  <2> QED
    BY <2>2, <2>3 DEF Streams
<1> QED
  BY <1>1, <1>2, <1>3 DEF output_buffer

(* Bytes put into a stream with room stay within its buffer, and none of   *)
(* them is lost unless it goes bad.                                        *)
PutOutcome(s, bytes, o) ==
    /\ o.to \in Streams /\ o.sent \in Seq(Items) /\ o.rest \in Seq(Items)
    /\ Len(o.to.obuf) <= SIZE
    /\ o.to.open = s.open
    /\ o.to.bad => o.rest = <<>>
    /\ ~o.to.bad => /\ ~s.bad /\ Len(o.to.obuf) < SIZE
                    /\ Transit(o.sent, o.to.obuf, o.rest) = Cat(s.obuf, bytes)

LEMMA PutsBytes ==
    ASSUME NEW s \in Streams, NEW bytes \in Seq(Items), Len(s.obuf) < SIZE,
           NEW o \in Puts(s, bytes)
    PROVE  PutOutcome(s, bytes, o)
<1>s. SIZE \in Nat /\ SIZE > 0
  BY HlsRelayAssumption
<1>0. /\ SIZE \in Nat /\ SIZE > 0 /\ s.obuf \in Seq(Items) /\ Len(s.obuf) \in Nat /\ Len(bytes) \in Nat
      /\ <<>> \in Seq(Items) /\ Len(<<>>) = 0 /\ s.bad \in BOOLEAN
  BY <1>s, LenProperties, EmptySeq DEF Streams
<1>1. CASE Len(s.obuf) + Len(bytes) < SIZE
  <2>1. o = [to |-> [s EXCEPT !.obuf = s.obuf \o bytes], sent |-> <<>>, rest |-> <<>>]
    BY <1>1 DEF Puts
  <2>2. s.obuf \o bytes \in Seq(Items) /\ Len(s.obuf \o bytes) = Len(s.obuf) + Len(bytes)
    BY <1>0, ConcatProperties
  <2>3. <<>> \o (s.obuf \o bytes) \o <<>> = s.obuf \o bytes
    BY <2>2, ConcatEmptySeq
  <2>4. /\ o.to = [s EXCEPT !.obuf = s.obuf \o bytes]
        /\ o.sent = <<>> /\ o.rest = <<>>
    BY <2>1
  <2>5. /\ o.to \in Streams /\ o.to.obuf = s.obuf \o bytes
        /\ o.to.open = s.open /\ o.to.bad = s.bad
    BY <2>2, <2>4 DEF Streams
  <2>6. Len(o.to.obuf) < SIZE
    BY <1>0, <1>1, <2>2, <2>5
  <2> QED
    BY <1>0, <2>3, <2>4, <2>5, <2>6 DEF PutOutcome, Transit, Cat
<1>2. CASE ~(Len(s.obuf) + Len(bytes) < SIZE)
  <2> DEFINE n == SIZE - Len(s.obuf)
             full == [s EXCEPT !.obuf = s.obuf \o Take(bytes, n)]
  <2>1. n \in Nat /\ n <= Len(bytes)
    BY <1>0, <1>2
  <2>2. /\ Take(bytes, n) \in Seq(Items) /\ Len(Take(bytes, n)) = n
        /\ Drop(bytes, n) \in Seq(Items) /\ Take(bytes, n) \o Drop(bytes, n) = bytes
    BY <2>1, SplitSeq
  <2>3. /\ s.obuf \o Take(bytes, n) \in Seq(Items)
        /\ Len(s.obuf \o Take(bytes, n)) = SIZE
    <3>1. /\ s.obuf \o Take(bytes, n) \in Seq(Items)
          /\ Len(s.obuf \o Take(bytes, n)) = Len(s.obuf) + Len(Take(bytes, n))
      BY <1>0, <2>2, ConcatProperties
    <3>2. Len(s.obuf) + Len(Take(bytes, n)) = SIZE
      <4>1. Len(Take(bytes, n)) = SIZE - Len(s.obuf)
        BY <2>2
      <4> HIDE DEF n
      <4> QED
        BY <1>0, <4>1
    <3> QED
      BY <3>1, <3>2
  <2>4. full \in Streams /\ full.obuf = s.obuf \o Take(bytes, n) /\ full.open = s.open
        /\ full.bad = s.bad
    BY <2>3 DEF Streams
  <2>5. PICK q \in output_buffer(full) :
           o = [to |-> q.to, sent |-> q.sent,
                rest |-> IF q.to.bad THEN <<>> ELSE Drop(bytes, n)]
    BY <1>2 DEF Puts
  <2>6. /\ q.to \in Streams /\ q.sent \in Seq(Items)
        /\ q.to.open = full.open /\ (full.bad => q.to.bad)
        /\ q.to.obuf = <<>> \/ (q.to.obuf = full.obuf /\ q.to.bad)
        /\ ~q.to.bad => q.sent = full.obuf /\ q.to.obuf = <<>>
    BY <2>4, <2>5, Sends
  <2>7. (s.obuf \o Take(bytes, n)) \o <<>> \o Drop(bytes, n) = s.obuf \o bytes
    <3>1. PICK a \in Seq(Items), t \in Seq(Items), d \in Seq(Items) :
             a = s.obuf /\ t = Take(bytes, n) /\ d = Drop(bytes, n) /\ t \o d = bytes
      BY <1>0, <2>2
    <3>2. (a \o t) \o <<>> = a \o t
      BY <2>3, <3>1, ConcatEmptySeq
    <3>3. (a \o t) \o d = a \o (t \o d)
      <4>1. Cat(Cat(a, t), d) = Cat(a, Cat(t, d))
        BY CatProperties
      <4> QED
        BY <4>1 DEF Cat
    <3> QED
      BY <3>1, <3>2, <3>3
  <2>8. Len(q.to.obuf) <= SIZE
    <3>1. Len(full.obuf) = SIZE
      BY <2>3, <2>4
    <3> HIDE DEF full
    <3> QED
      BY <1>0, <2>6, <3>1
  <2>9. o.to = q.to /\ o.sent = q.sent
        /\ o.rest = IF q.to.bad THEN <<>> ELSE Drop(bytes, n)
    BY <2>5
  <2>10. q.to.bad \in BOOLEAN
    BY <2>6 DEF Streams
  <2> HIDE DEF n, full
  <2>11. CASE q.to.bad
    BY <1>0, <2>4, <2>6, <2>8, <2>9, <2>11 DEF PutOutcome
  <2>12. CASE ~q.to.bad
    <3>1. q.sent \o q.to.obuf \o Drop(bytes, n) = s.obuf \o bytes
      BY <2>4, <2>6, <2>7, <2>12
    <3>2. Len(q.to.obuf) < SIZE
      BY <1>0, <2>6, <2>12
    <3> QED
      BY <1>0, <2>2, <2>4, <2>6, <2>8, <2>9, <2>12, <3>1, <3>2 DEF PutOutcome, Transit, Cat
  <2> QED
    BY <2>10, <2>11, <2>12
<1> QED
  BY <1>1, <1>2

-----------------------------------------------------------------------------
(* The invariant                                                           *)

LEMMA InvInit == Init => StreamInv
<1> SUFFICES ASSUME Init PROVE StreamInv
  OBVIOUS
<1>1. <<>> \in Seq(Items) /\ Len(<<>>) = 0 /\ <<>> \o <<>> \o <<>> = <<>>
  BY EmptySeq, ConcatEmptySeq
<1>2. Opened \in Streams /\ Closed \in Streams /\ Opened.obuf = <<>> /\ Closed.obuf = <<>>
  BY <1>1 DEF Opened, Closed, Streams
<1>3. TypeOK
  <2>1. readPos \in 1 .. NumSegments + 1 /\ att500 \in 0 .. ATTEMPTS
    BY HlsRelayAssumption DEF Init
  <2>2. \A s \in {put, TsBuf, asked, answer, received, copied} : s \in Seq(Items)
    BY <1>1 DEF Init
  <2>3. pc = "segment" /\ pc \in Locations
    BY DEF Init, Locations
  <2> QED
    BY <1>2, <2>1, <2>2, <2>3 DEF Init, TypeOK
<1>4. RoomToWrite
  BY <1>1, <1>2, HlsRelayAssumption DEF Init, RoomToWrite
<1>5. NothingLost
  BY <1>1, <1>2, HlsRelayAssumption DEF Init, NothingLost
<1> QED
  BY <1>3, <1>4, <1>5 DEF Init, StreamInv, RequestInTransit, AnswersRequest

(* Steps that only move on, or read: neither what is in transit nor a      *)
(* buffer for sending changes, and no write or request begins.             *)
LEMMA QuietStep ==
    ASSUME StreamInv, TypeOK', UNCHANGED <<VideoStream, put, received, copied, asked>>,
           tsStream'.obuf = tsStream.obuf,
           pc = "failed" => pc' = "failed",
           pc' \in {"request", "write"} => pc' = pc /\ UNCHANGED tsStream,
           pc = "write" => pc' \in {"write", "failed"} \/ put = <<>>,
           pc' = "read" => pc = "read" \/ good(VideoStream),
           pc' = "status" /\ ~tsStream'.bad => pc = "status" /\ ~tsStream.bad,
           pc' \in {"headers", "answer", "copy", "read", "write"} => asked' = Request
    PROVE  StreamInv'
<1>1. RoomToWrite'
  BY DEF StreamInv, RoomToWrite, good
<1>2. NothingLost'
  <2>1. CASE pc = "write" /\ pc' = "write"
    BY <2>1 DEF StreamInv, NothingLost, good
  <2>2. CASE pc = "write" /\ pc' # "write" /\ pc' # "failed"
    BY <2>2 DEF StreamInv, NothingLost, good
  <2>3. CASE pc # "write" /\ pc' # "write" /\ pc # "failed"
    BY <2>3 DEF StreamInv, NothingLost, good
  <2>4. CASE pc = "failed" /\ pc' # "failed"
    BY <2>4 DEF StreamInv, NothingLost, good
  <2>5. CASE pc' = "failed"
    BY <2>5 DEF NothingLost
  <2> QED
    BY <2>1, <2>2, <2>3, <2>4, <2>5
<1>3. RequestInTransit'
  BY DEF StreamInv, RequestInTransit
<1>4. AnswersRequest'
  BY DEF AnswersRequest, Request
<1> QED
  BY <1>1, <1>2, <1>3, <1>4 DEF StreamInv

(* Steps of the request                                                    *)

LEMMA RequestProperties == Request \in Seq(Items) /\ Len(Request) = RequestLen
<1>1. \A i \in 1 .. RequestLen : [line |-> i] \in Items
  BY DEF Items
<1> QED
  BY <1>1, HlsRelayAssumption DEF Request

LEMMA ConnectStep == StreamInv /\ Connect => StreamInv'
<1> SUFFICES ASSUME StreamInv, Connect PROVE StreamInv'
  OBVIOUS
<1>1. <<>> \in Seq(Items) /\ Len(<<>>) = 0
  BY EmptySeq
<1>2. /\ Opened \in Streams /\ Closed \in Streams
      /\ Opened.obuf = <<>> /\ Closed.obuf = <<>> /\ ~Opened.bad
  BY <1>1 DEF Opened, Closed, Streams
<1>3. tsStream' \in {Opened, Closed} /\ put' \in {put, Request}
  BY DEF Connect
<1>4. TypeOK'
  <2>1. put' \in Seq(Items)
    BY <1>3, RequestProperties DEF StreamInv, TypeOK
  <2>2. tsStream' \in Streams
    BY <1>2, <1>3
  <2> QED
    <3>1. \A s \in {put', TsBuf', asked', answer', received', copied'} : s \in Seq(Items)
      BY <1>1, <2>1 DEF Connect, StreamInv, TypeOK
    <3>2. pc' \in {"failed", "request"} /\ pc = "connect"
      BY DEF Connect
    <3> QED
      BY <2>2, <3>1, <3>2 DEF Connect, StreamInv, TypeOK, Locations, response
<1>5. RoomToWrite'
  BY <1>1, <1>2, <1>3, HlsRelayAssumption DEF Connect, StreamInv, RoomToWrite, good
<1>6. NothingLost'
  BY DEF Connect, StreamInv, NothingLost, good
<1>7. RequestInTransit'
  <2>1. CASE pc' = "failed"
    BY <2>1 DEF RequestInTransit
  <2>2. CASE pc' = "request" /\ tsStream' = Opened /\ put' = Request
    <3>1. <<>> \o <<>> \o Request = Request
      BY <1>1, RequestProperties, ConcatEmptySeq
    <3>2. asked' \o tsStream'.obuf \o put' = Request
      BY <1>2, <2>2, <3>1 DEF Connect
    <3> QED
      BY <1>2, <2>2, <3>2 DEF RequestInTransit, Request
  <2> QED
    BY <2>1, <2>2 DEF Connect
<1> QED
  BY <1>4, <1>5, <1>6, <1>7 DEF Connect, StreamInv, AnswersRequest

LEMMA SendRequestStep == StreamInv /\ SendRequest => StreamInv'
<1> SUFFICES ASSUME StreamInv, SendRequest PROVE StreamInv'
  OBVIOUS
<1>1. /\ tsStream \in Streams /\ put \in Seq(Items) /\ asked \in Seq(Items)
      /\ tsStream.obuf \in Seq(Items) /\ Len(tsStream.obuf) < SIZE
      /\ pc = "request" /\ pc' = "request" /\ put # <<>> /\ ~tsStream.bad
  BY DEF StreamInv, TypeOK, RoomToWrite, RequestInTransit, SendRequest, Streams
<1>2. PICK o \in Puts(tsStream, put) :
         tsStream' = o.to /\ asked' = asked \o o.sent /\ put' = o.rest
  BY DEF SendRequest
<1>3. PutOutcome(tsStream, put, o)
  BY <1>1, PutsBytes
<1>4. o.to.obuf \in Seq(Items) /\ asked \o o.sent \in Seq(Items)
  BY <1>1, <1>3, ConcatProperties DEF PutOutcome, Streams
<1>5. TypeOK'
  BY <1>1, <1>2, <1>3, <1>4 DEF PutOutcome, SendRequest, StreamInv, TypeOK, response
<1>6. RoomToWrite'
  BY <1>1, <1>2, <1>3 DEF PutOutcome, SendRequest, StreamInv, RoomToWrite, good
<1>7. NothingLost'
  BY <1>1 DEF SendRequest, StreamInv, NothingLost, good
<1>8. RequestInTransit'
  <2>1. CASE o.to.bad
    BY <1>1, <1>2, <1>3, <2>1 DEF PutOutcome, RequestInTransit
  <2>2. CASE ~o.to.bad
    <3>1. Transit(asked, tsStream.obuf, put) = Request
      BY <1>1 DEF StreamInv, RequestInTransit, Transit
    <3>2. Transit(o.sent, o.to.obuf, o.rest) = Cat(tsStream.obuf, put)
          /\ o.sent \in Seq(Items) /\ o.rest \in Seq(Items)
      BY <1>3, <2>2 DEF PutOutcome
    <3>3. Transit(Cat(asked, o.sent), o.to.obuf, o.rest)
             = Transit(asked, tsStream.obuf, put)
      BY SMTT(20), <1>1, <1>4, <3>2, Regroup
    <3>4. asked' \o tsStream'.obuf \o put' = Request
      BY <1>2, <3>1, <3>3 DEF Transit, Cat
    <3> QED
      BY <1>1, <1>2, <2>2, <3>4 DEF RequestInTransit, Request
  <2> QED
    BY <2>1, <2>2
<1> QED
  BY <1>1, <1>5, <1>6, <1>7, <1>8 DEF StreamInv, AnswersRequest

LEMMA FlushStep == StreamInv /\ Flush => StreamInv'
<1> SUFFICES ASSUME StreamInv, Flush PROVE StreamInv'
  OBVIOUS
<1>1. /\ tsStream \in Streams /\ asked \in Seq(Items) /\ tsStream.bad \in BOOLEAN
      /\ tsStream.obuf \in Seq(Items) /\ Len(tsStream.obuf) <= SIZE
      /\ pc = "request" /\ pc' = "status" /\ put = <<>> /\ put' = <<>>
      /\ <<>> \in Seq(Items) /\ Len(<<>>) = 0 /\ 0 <= SIZE
  BY EmptySeq, HlsRelayAssumption DEF StreamInv, TypeOK, RoomToWrite, Flush, Streams
<1>2. /\ tsStream' \in Streams /\ asked' \in Seq(Items) /\ Len(tsStream'.obuf) <= SIZE
      /\ ~tsStream'.bad => asked' = Request
  <2>1. CASE tsStream.bad /\ FlushChecks
    BY <1>1, <2>1 DEF Flush
  <2>2. CASE ~(tsStream.bad /\ FlushChecks)
    <3>1. PICK o \in output_buffer(tsStream) :
             /\ tsStream' = [o.to EXCEPT !.bad = o.to.bad \/ tsStream.bad]
             /\ asked' = asked \o o.sent
      BY <2>2 DEF Flush
    <3>2. /\ o.to \in Streams /\ o.sent \in Seq(Items)
          /\ o.to.obuf = <<>> \/ o.to.obuf = tsStream.obuf
          /\ ~o.to.bad => o.sent = tsStream.obuf /\ o.to.obuf = <<>>
      BY <1>1, Sends
    <3>3. /\ tsStream' \in Streams /\ tsStream'.obuf = o.to.obuf
          /\ ~tsStream'.bad => ~o.to.bad /\ ~tsStream.bad
      BY <1>1, <3>1, <3>2 DEF Streams
    <3>4. asked' \in Seq(Items)
      BY <1>1, <3>1, <3>2, ConcatProperties
    <3>5. ASSUME ~tsStream'.bad PROVE asked' = Request
      <4>1. asked \o tsStream.obuf \o <<>> = Request
        BY <1>1, <3>3, <3>5 DEF StreamInv, RequestInTransit
      <4>2. asked \o tsStream.obuf \in Seq(Items)
        BY <1>1, ConcatProperties
      <4>3. asked \o tsStream.obuf = Request
        BY <4>1, <4>2, ConcatEmptySeq
      <4> QED
        BY <3>1, <3>2, <3>3, <3>5, <4>3
    <3> QED
      BY <1>1, <3>2, <3>3, <3>4, <3>5
  <2> QED
    BY <2>1, <2>2
<1>3. TypeOK'
  BY <1>1, <1>2 DEF Flush, StreamInv, TypeOK, response, Locations
<1>4. RoomToWrite'
  BY <1>1, <1>2 DEF Flush, StreamInv, RoomToWrite, good
<1>5. NothingLost'
  BY <1>1 DEF Flush, StreamInv, NothingLost, good
<1>6. RequestInTransit'
  BY <1>1, <1>2 DEF RequestInTransit, Request
<1> QED
  BY <1>1, <1>3, <1>4, <1>5, <1>6 DEF StreamInv, AnswersRequest

-----------------------------------------------------------------------------
(* Steps that read                                                         *)

LEMMA InputFields ==
    ASSUME NEW q \in Seq(Items), tsStream \in Streams,
           tsStream' = [tsStream EXCEPT !.ibuf = q]
    PROVE  /\ tsStream' \in Streams /\ tsStream'.obuf = tsStream.obuf
           /\ tsStream'.bad = tsStream.bad /\ tsStream'.ibuf = q
  BY DEF Streams

LEMMA FailureFields ==
    ASSUME tsStream \in Streams, tsStream' = [tsStream EXCEPT !.bad = TRUE]
    PROVE  tsStream' \in Streams /\ tsStream'.obuf = tsStream.obuf /\ tsStream'.bad
  BY DEF Streams

LEMMA UnderflowStep == StreamInv /\ Underflow => StreamInv'
<1> SUFFICES ASSUME StreamInv, Underflow PROVE StreamInv'
  OBVIOUS
<1>1. tsStream \in Streams /\ answer \in Seq(Items) /\ Len(answer) \in Nat
  BY LenProperties DEF StreamInv, TypeOK
<1>2. PICK n \in 1 .. SIZE :
         /\ n <= Len(answer)
         /\ tsStream' = [tsStream EXCEPT !.ibuf = Take(answer, n)]
         /\ answer' = Drop(answer, n)
  BY DEF Underflow
<1>3. n \in Nat
  BY HlsRelayAssumption
<1>4. Take(answer, n) \in Seq(Items) /\ answer' \in Seq(Items)
  BY <1>1, <1>2, <1>3, SplitSeq
<1>5. /\ tsStream' \in Streams /\ tsStream'.obuf = tsStream.obuf
      /\ tsStream'.bad = tsStream.bad
  BY <1>1, <1>2, <1>4, InputFields
<1>6. TypeOK'
  BY <1>4, <1>5 DEF Underflow, StreamInv, TypeOK, response
<1>7. pc' = pc /\ pc \in {"status", "headers", "read"} /\ ~tsStream.bad
  BY DEF Underflow, Reading
<1> QED
  BY <1>5, <1>6, <1>7, QuietStep DEF Underflow, StreamInv, AnswersRequest

LEMMA ReadFailsStep == StreamInv /\ ReadFails => StreamInv'
<1> SUFFICES ASSUME StreamInv, ReadFails PROVE StreamInv'
  OBVIOUS
<1>1. tsStream' \in Streams /\ tsStream'.obuf = tsStream.obuf /\ tsStream'.bad
  BY FailureFields DEF ReadFails, StreamInv, TypeOK
<1>2. \/ pc' = "failed" /\ headers' = headers
      \/ /\ pc = "headers" /\ pc' = "answer"
         /\ headers' \subseteq {"Content-Length", "Location"}
  BY DEF ReadFails, StreamInv, TypeOK
<1>3. TypeOK'
  BY <1>1, <1>2 DEF ReadFails, Reading, StreamInv, TypeOK, origin, Locations
<1>4. pc \in {"status", "headers", "read"}
  BY DEF ReadFails, Reading
<1> QED
  BY <1>1, <1>2, <1>3, <1>4, QuietStep DEF ReadFails, origin, StreamInv, AnswersRequest

LEMMA LineTypes ==
    ASSUME NEW line \in Items
    PROVE  /\ "status" \in DOMAIN line => line.status \in {200, 302, 404}
           /\ "header" \in DOMAIN line /\ line # End =>
                 line.header \in {"Content-Length", "Location"}
<1>1. CASE line \in {Status(200), Status(302), Status(404)}
  BY <1>1 DEF Status
<1>2. CASE line = Page
  BY <1>2 DEF Page
<1>3. CASE line \in {End, Header("Content-Length"), Header("Location")}
  <2>1. PICK h : line = [header |-> h] /\ h \in {"", "Content-Length", "Location"}
    BY <1>3 DEF End, Header
  <2>2. DOMAIN line = {"header"} /\ line.header = h
    BY <2>1
  <2>3. line # End => h # ""
    BY <2>1 DEF End, Header
  <2> QED
    BY <2>1, <2>2, <2>3
<1>4. CASE line \in [line : 1 .. RequestLen]
  BY <1>4
<1>5. CASE line \in BodyItems
  BY <1>5 DEF BodyItems
<1> QED
  BY <1>1, <1>2, <1>3, <1>4, <1>5 DEF Items

LEMMA FirstLine ==
    ASSUME tsStream \in Streams, tsStream.ibuf # <<>>,
           tsStream' = [tsStream EXCEPT !.ibuf = Tail(tsStream.ibuf)]
    PROVE  /\ Head(tsStream.ibuf) \in Items
           /\ tsStream' \in Streams /\ tsStream'.obuf = tsStream.obuf
           /\ tsStream'.bad = tsStream.bad
<1>1. tsStream.ibuf \in Seq(Items)
  BY DEF Streams
<1>2. Head(tsStream.ibuf) \in Items /\ Tail(tsStream.ibuf) \in Seq(Items)
  BY <1>1, HeadTailProperties
<1> QED
  BY <1>2, InputFields

LEMMA StatusLineStep == StreamInv /\ StatusLine => StreamInv'
<1> SUFFICES ASSUME StreamInv, StatusLine PROVE StreamInv'
  OBVIOUS
<1>0. pc = "status" /\ pc' \in {"failed", "headers"} /\ tsStream \in Streams
  BY DEF StatusLine, StreamInv, TypeOK
<1>1. CASE tsStream.bad /\ pc' = "failed" /\ UNCHANGED <<tsStream, response>>
  <2>1. TypeOK'
    BY <1>0, <1>1 DEF StatusLine, StreamInv, TypeOK, response, origin, Locations
  <2> QED
    BY <1>0, <1>1, <2>1, QuietStep DEF StatusLine, origin
<1>2. CASE /\ ~tsStream.bad /\ tsStream.ibuf # <<>>
           /\ tsStream' = [tsStream EXCEPT !.ibuf = Tail(tsStream.ibuf)]
           /\ IF "status" \in DOMAIN Head(tsStream.ibuf)
              THEN /\ pc' = "headers" /\ headers' = {}
                   /\ status' = Head(tsStream.ibuf).status
              ELSE pc' = "failed" /\ UNCHANGED response
  <2>1. /\ Head(tsStream.ibuf) \in Items
        /\ tsStream' \in Streams /\ tsStream'.obuf = tsStream.obuf
        /\ tsStream'.bad = tsStream.bad
    BY <1>0, <1>2, FirstLine
  <2>2. status' \in {200, 302, 404} /\ headers' \subseteq {"Content-Length", "Location"}
    BY <1>2, <2>1, LineTypes DEF StreamInv, TypeOK, response
  <2>3. TypeOK'
    BY <1>0, <2>1, <2>2 DEF StatusLine, StreamInv, TypeOK, origin, Locations
  <2>4. asked' = Request
    BY <1>0, <1>2 DEF StatusLine, origin, StreamInv, RequestInTransit
  <2> QED
    BY <1>0, <1>2, <2>1, <2>3, <2>4, QuietStep DEF StatusLine, origin
<1> QED
  BY <1>1, <1>2 DEF StatusLine

LEMMA HeaderLineStep == StreamInv /\ HeaderLine => StreamInv'
<1> SUFFICES ASSUME StreamInv, HeaderLine PROVE StreamInv'
  OBVIOUS
<1>0. pc = "headers" /\ pc' \in {"failed", "headers", "answer"} /\ tsStream \in Streams
  BY DEF HeaderLine, StreamInv, TypeOK
<1>1. /\ Head(tsStream.ibuf) \in Items
      /\ tsStream' \in Streams /\ tsStream'.obuf = tsStream.obuf
      /\ tsStream'.bad = tsStream.bad
  BY <1>0, FirstLine DEF HeaderLine
<1>2. headers' \subseteq {"Content-Length", "Location"}
  <2>1. headers \subseteq {"Content-Length", "Location"}
    BY DEF StreamInv, TypeOK
  <2>2. PICK line \in Items :
           CASE line = End -> pc' = "answer" /\ UNCHANGED headers
             [] "header" \in DOMAIN line /\ line # End ->
                   headers' = headers \union {line.header} /\ UNCHANGED pc
             [] OTHER -> pc' = "failed" /\ UNCHANGED headers
    BY <1>1 DEF HeaderLine
  <2>3. CASE line = End
    BY <2>1, <2>2, <2>3
  <2>4. CASE "header" \in DOMAIN line /\ line # End
    <3>1. line.header \in {"Content-Length", "Location"}
      BY <2>4, LineTypes
    <3> QED
      BY <2>1, <2>2, <2>4, <3>1
  <2>5. CASE line # End /\ ~("header" \in DOMAIN line)
    BY <2>1, <2>2, <2>5
  <2> QED
    BY <2>3, <2>4, <2>5
<1>3. TypeOK'
  BY <1>0, <1>1, <1>2 DEF HeaderLine, StreamInv, TypeOK, origin, Locations
<1> QED
  BY <1>0, <1>1, <1>3, QuietStep DEF HeaderLine, origin, StreamInv, AnswersRequest

LEMMA AnswerStep == StreamInv /\ Answer => StreamInv'
<1> SUFFICES ASSUME StreamInv, Answer PROVE StreamInv'
  OBVIOUS
<1>0. pc = "answer" /\ pc' \in {"connect", "failed", "copy"}
  BY DEF Answer, HasSegment
<1>1. att500' \in 0 .. ATTEMPTS /\ (pc' = "connect" => att500' < ATTEMPTS)
  BY <1>0, HlsRelayAssumption DEF Answer, HasSegment, StreamInv, TypeOK
<1>2. TypeOK'
  BY <1>0, <1>1 DEF Answer, StreamInv, TypeOK, response, origin, Locations
<1> QED
  BY <1>0, <1>2, QuietStep DEF Answer, response, origin, StreamInv, AnswersRequest

-----------------------------------------------------------------------------
(* Steps of the copy                                                       *)

LEMMA SegmentStep == StreamInv /\ Segment => StreamInv'
<1> SUFFICES ASSUME StreamInv, Segment PROVE StreamInv'
  OBVIOUS
<1>0. pc = "segment" /\ pc' \in {"connect", "done"}
  BY DEF Segment
<1>1. TypeOK'
  <2>1. 0 \in 0 .. ATTEMPTS /\ 0 < ATTEMPTS
    BY HlsRelayAssumption
  <2>2. pc' = "connect" => readPos \in Segments
    BY HlsRelayAssumption DEF Segment, Segments, StreamInv, TypeOK
  <2> QED
    BY <1>0, <2>1, <2>2 DEF Segment, StreamInv, TypeOK, response, origin, Locations
<1> QED
  BY <1>0, <1>1, QuietStep DEF Segment, response, origin

LEMMA CopyStep == StreamInv /\ Copy => StreamInv'
<1> SUFFICES ASSUME StreamInv, Copy PROVE StreamInv'
  OBVIOUS
<1>0. /\ pc = "copy" /\ <<>> \in Seq(Items)
      /\ \/ pc' = "read" /\ good(VideoStream) /\ readPos' = readPos
         \/ pc' = "segment" /\ readPos' = readPos + 1
  BY EmptySeq DEF Copy
<1>1. TypeOK'
  <2>1. readPos \in Segments /\ readPos' \in 1 .. NumSegments + 1
    BY <1>0, HlsRelayAssumption DEF StreamInv, TypeOK, Segments
  <2>2. TsBuf' \in Seq(Items)
    BY <1>0 DEF Copy
  <2> QED
    BY <1>0, <2>1, <2>2 DEF Copy, StreamInv, TypeOK, response, origin, Locations
<1> QED
  BY <1>0, <1>1, QuietStep DEF Copy, response, origin, StreamInv, AnswersRequest

LEMMA ReadStep == StreamInv /\ Read => StreamInv'
<1> SUFFICES ASSUME StreamInv, Read PROVE StreamInv'
  OBVIOUS
<1> DEFINE input == tsStream.ibuf
           space == SIZE - Len(TsBuf)
           n     == IF Len(input) < space THEN Len(input) ELSE space
<1>0. pc = "read" /\ pc' = "read"
  BY DEF Read
<1>1. /\ input \in Seq(Items) /\ Len(input) \in Nat /\ TsBuf \in Seq(Items)
      /\ space \in Nat /\ n \in Nat /\ n <= Len(input) /\ tsStream \in Streams
  <2>1. /\ input \in Seq(Items) /\ TsBuf \in Seq(Items) /\ tsStream \in Streams
    BY DEF StreamInv, TypeOK, Streams
  <2>2. Len(input) \in Nat /\ Len(TsBuf) \in Nat
    BY <2>1, LenProperties
  <2>3. SIZE \in Nat /\ Len(TsBuf) < SIZE
    BY HlsRelayAssumption DEF Read
  <2> HIDE DEF input
  <2> QED
    BY <2>1, <2>2, <2>3
<1>2. TsBuf' = TsBuf \o Take(input, n) /\ tsStream' = [tsStream EXCEPT !.ibuf = Drop(input, space)]
  BY DEF Read
<1> HIDE DEF input, space, n
<1>3. Take(input, n) \in Seq(Items) /\ Drop(input, space) \in Seq(Items)
  BY <1>1, SplitSeq, DropSeq
<1>4. TsBuf' \in Seq(Items)
  BY <1>1, <1>2, <1>3, ConcatProperties
<1>5. /\ tsStream' \in Streams /\ tsStream'.obuf = tsStream.obuf
      /\ tsStream'.bad = tsStream.bad
  BY <1>1, <1>2, <1>3, InputFields
<1>6. TypeOK'
  BY <1>0, <1>4, <1>5 DEF Read, StreamInv, TypeOK, response, origin
<1> QED
  BY <1>0, <1>5, <1>6, QuietStep DEF Read, response, origin, StreamInv, AnswersRequest

LEMMA ReadDoneStep == StreamInv /\ ReadDone => StreamInv'
<1> SUFFICES ASSUME StreamInv, ReadDone PROVE StreamInv'
  OBVIOUS
<1>0. /\ pc = "read" /\ pc' = "write" /\ copied' = copied \o put'
      /\ copied \in Seq(Items) /\ received \in Seq(Items)
      /\ VideoStream.obuf \in Seq(Items)
  BY DEF ReadDone, StreamInv, TypeOK, Streams
<1>1. put' \in Seq(Items)
  <2>1. put' \in {TsBuf, <<>>}
    BY DEF ReadDone
  <2>2. TsBuf \in Seq(Items) /\ <<>> \in Seq(Items)
    BY EmptySeq DEF StreamInv, TypeOK
  <2> QED
    BY <2>1, <2>2
<1>2. copied' \in Seq(Items)
  BY <1>0, <1>1, ConcatProperties
<1>3. tsStream' \in Streams /\ tsStream'.obuf = tsStream.obuf
  BY FailureFields DEF ReadDone, StreamInv, TypeOK
<1>4. TypeOK'
  BY <1>0, <1>1, <1>2, <1>3 DEF ReadDone, StreamInv, TypeOK, response, origin, Locations
<1>5. RoomToWrite'
  BY <1>0, <1>3 DEF ReadDone, StreamInv, RoomToWrite, good
<1>6. NothingLost'
  <2> SUFFICES ASSUME good(VideoStream)' PROVE
         copied' = received' \o VideoStream'.obuf \o put' /\ Len(VideoStream'.obuf) < SIZE
    BY <1>0 DEF NothingLost, good
  <2>1. copied = received \o VideoStream.obuf \o <<>> /\ Len(VideoStream.obuf) < SIZE
    BY <1>0 DEF ReadDone, StreamInv, NothingLost, good
  <2>2. received \o VideoStream.obuf \in Seq(Items)
    BY <1>0, ConcatProperties
  <2>3. copied = received \o VideoStream.obuf
    BY <2>1, <2>2, ConcatEmptySeq
  <2> QED
    BY <1>0, <2>1, <2>3 DEF ReadDone
<1> QED
  BY <1>0, <1>4, <1>5, <1>6 DEF ReadDone, origin, StreamInv, RequestInTransit,
                               AnswersRequest, Request

LEMMA WriteStep == StreamInv /\ Write => StreamInv'
<1> SUFFICES ASSUME StreamInv, Write PROVE StreamInv'
  OBVIOUS
<1>1. /\ VideoStream \in Streams /\ put \in Seq(Items) /\ received \in Seq(Items)
      /\ VideoStream.obuf \in Seq(Items) /\ Len(VideoStream.obuf) < SIZE
      /\ pc = "write" /\ pc' = "write" /\ put # <<>>
  BY DEF StreamInv, TypeOK, RoomToWrite, Write, Streams
<1>2. PICK o \in Puts(VideoStream, put) :
         VideoStream' = o.to /\ received' = received \o o.sent /\ put' = o.rest
  BY DEF Write
<1>3. PutOutcome(VideoStream, put, o)
  BY <1>1, PutsBytes
<1>4. o.to.obuf \in Seq(Items) /\ received \o o.sent \in Seq(Items)
  BY <1>1, <1>3, ConcatProperties DEF PutOutcome, Streams
<1>5. TypeOK'
  BY <1>1, <1>2, <1>3, <1>4 DEF PutOutcome, Write, StreamInv, TypeOK, response, origin
<1>6. RoomToWrite'
  <2>1. o.to.bad => put' = <<>> /\ ~good(VideoStream')
    BY <1>2, <1>3 DEF PutOutcome, good
  <2>2. ~o.to.bad => Len(VideoStream'.obuf) < SIZE
    BY <1>2, <1>3 DEF PutOutcome
  <2>3. Len(VideoStream'.obuf) <= SIZE
    BY <1>2, <1>3 DEF PutOutcome
  <2> QED
    BY <1>1, <2>1, <2>2, <2>3 DEF Write, StreamInv, RoomToWrite, good
<1>7. NothingLost'
  <2> SUFFICES ASSUME good(VideoStream)' PROVE
         copied' = received' \o VideoStream'.obuf \o put' /\ Len(VideoStream'.obuf) < SIZE
    BY <1>1 DEF NothingLost, good
  <2>1. /\ ~o.to.bad /\ good(VideoStream) /\ Len(o.to.obuf) < SIZE
        /\ Transit(o.sent, o.to.obuf, o.rest) = Cat(VideoStream.obuf, put)
        /\ o.sent \in Seq(Items) /\ o.rest \in Seq(Items)
    BY <1>2, <1>3 DEF PutOutcome, good
  <2>2. copied = Transit(received, VideoStream.obuf, put)
    BY <1>1, <2>1 DEF StreamInv, NothingLost, Transit
  <2>3. Transit(Cat(received, o.sent), o.to.obuf, o.rest)
           = Transit(received, VideoStream.obuf, put)
    BY SMTT(20), <1>1, <1>4, <2>1, Regroup
  <2>4. copied' = received' \o VideoStream'.obuf \o put'
    BY <1>2, <2>2, <2>3 DEF Write, Transit, Cat
  <2> QED
    BY <1>2, <2>1, <2>4
<1> QED
  BY <1>1, <1>5, <1>6, <1>7 DEF Write, origin, StreamInv, RequestInTransit,
                               AnswersRequest, Request

LEMMA WriteDoneStep == StreamInv /\ WriteDone => StreamInv'
<1> SUFFICES ASSUME StreamInv, WriteDone PROVE StreamInv'
  OBVIOUS
<1>1. TypeOK'
  BY DEF WriteDone, StreamInv, TypeOK, response, origin, Locations
<1> QED
  BY <1>1, QuietStep DEF WriteDone, response, origin, StreamInv, AnswersRequest

LEMMA BrokenPipeStep == StreamInv /\ BrokenPipe => StreamInv'
<1> SUFFICES ASSUME StreamInv, BrokenPipe PROVE StreamInv'
  OBVIOUS
<1>1. TypeOK'
  BY DEF BrokenPipe, StreamInv, TypeOK, response, origin, Locations
<1> QED
  BY <1>1, QuietStep DEF BrokenPipe, response, origin

-----------------------------------------------------------------------------
(* Signals and origins                                                     *)

(* A stream that a signal closes is not good again, whatever is cleared.   *)
LEMMA StopStep == StreamInv /\ Stop => StreamInv'
<1> SUFFICES ASSUME StreamInv, Stop PROVE StreamInv'
  OBVIOUS
<1>1. /\ VideoStream' \in Streams /\ VideoStream'.obuf = VideoStream.obuf
      /\ ~good(VideoStream')
  BY DEF Stop, StreamInv, TypeOK, Streams, good
<1>2. TypeOK'
  BY <1>1 DEF Stop, StreamInv, TypeOK, response, origin
<1>3. RoomToWrite'
  BY <1>1 DEF Stop, StreamInv, RoomToWrite, good
<1>4. NothingLost'
  BY <1>1 DEF NothingLost, good
<1> QED
  BY <1>2, <1>3, <1>4 DEF Stop, origin, StreamInv, RequestInTransit, AnswersRequest, Request

LEMMA AnswersAreItems == \A seg \in Segments : Answers(seg) \subseteq Seq(Items)
<1> SUFFICES ASSUME NEW seg \in Segments PROVE Answers(seg) \subseteq Seq(Items)
  OBVIOUS
<1>1. Body(seg) \in Seq(Items)
  <2>1. \A i \in 1 .. BodyLen : [seg |-> seg, n |-> i] \in Items
    BY DEF Items, BodyItems
  <2> QED
    BY <2>1, HlsRelayAssumption DEF Body
<1>2. {Status(200), Status(302), Status(404), Header("Content-Length"),
       Header("Location"), End, Page} \subseteq Items
  BY DEF Items
<1>3. /\ <<Status(200), Header("Content-Length"), End>> \in Seq(Items)
      /\ <<Status(200), End>> \in Seq(Items)
      /\ <<Status(302), Header("Location"), End, Page>> \in Seq(Items)
      /\ <<Status(302), End>> \in Seq(Items) /\ <<Status(404), End, Page>> \in Seq(Items)
      /\ <<Page>> \in Seq(Items) /\ <<End>> \in Seq(Items)
  BY <1>2
<1>4. /\ <<Status(200), Header("Content-Length"), End>> \o Body(seg) \in Seq(Items)
      /\ <<Status(200), End>> \o Body(seg) \in Seq(Items)
  BY <1>1, <1>3, ConcatProperties
<1> QED
  BY <1>3, <1>4 DEF Answers

LEMMA OriginAnswersStep == StreamInv /\ OriginAnswers => StreamInv'
<1> SUFFICES ASSUME StreamInv, OriginAnswers PROVE StreamInv'
  OBVIOUS
<1>1. readPos \in Segments
  BY DEF OriginAnswers, StreamInv, TypeOK
<1>2. answer' \in Seq(Items)
  BY <1>1, AnswersAreItems DEF OriginAnswers
<1>3. TypeOK'
  BY <1>2 DEF OriginAnswers, StreamInv, TypeOK, response
<1> QED
  BY <1>3, QuietStep DEF OriginAnswers, response, StreamInv, AnswersRequest

LEMMA InvStep == StreamInv /\ [Next]_vars => StreamInv'
<1> SUFFICES ASSUME StreamInv, [Next]_vars PROVE StreamInv'
  OBVIOUS
<1>1. ASSUME Relay PROVE StreamInv'
  BY <1>1, SegmentStep, ConnectStep, SendRequestStep, FlushStep, UnderflowStep,
     ReadFailsStep, StatusLineStep, HeaderLineStep, AnswerStep, CopyStep, ReadStep,
     ReadDoneStep, WriteStep, WriteDoneStep, BrokenPipeStep DEF Relay
<1>2. ASSUME UNCHANGED vars PROVE StreamInv'
  <2>1. TypeOK'
    BY <1>2 DEF vars, StreamInv, TypeOK
  <2> QED
    BY <1>2, <2>1, QuietStep DEF vars, StreamInv, AnswersRequest
<1> QED
  BY <1>1, <1>2, StopStep, OriginAnswersStep DEF Next, Over

-----------------------------------------------------------------------------
(* Whatever sends, reads and signals do, no buffer is written beyond its   *)
(* end, and nothing in transit is lost as long as its stream is good.      *)
THEOREM Invariant == Spec => []StreamInv
  BY InvInit, InvStep, PTL DEF Spec

(* As long as its stream is good, the client has, or is about to get, what *)
(* has been read of the segments, every byte once and in place.            *)
THEOREM NothingIsLost == Spec => []NothingLost
<1>1. StreamInv => NothingLost
  BY DEF StreamInv
<1> QED
  BY <1>1, Invariant, PTL

(* A response is read only after the origin has got the request once and   *)
(* whole, also from libraries that flush a stream that has failed.         *)
THEOREM ResponsesAreOurs == Spec => []AnswersRequest
<1>1. StreamInv => AnswersRequest
  BY DEF StreamInv
<1> QED
  BY <1>1, Invariant, PTL

-----------------------------------------------------------------------------
(* What the client gets is in order                                        *)

(* More on sequences: their elements, first parts and rests.               *)

LEMMA PartElements ==
    ASSUME NEW S, NEW s \in Seq(S), NEW n \in Nat, n <= Len(s)
    PROVE  /\ Take(s, n) \in Seq(S) /\ Len(Take(s, n)) = n
           /\ \A i \in 1 .. n : Take(s, n)[i] = s[i]
           /\ Drop(s, n) \in Seq(S) /\ Len(Drop(s, n)) = Len(s) - n
           /\ \A i \in 1 .. Len(s) - n : Drop(s, n)[i] = s[n + i]
<1>0. Len(s) \in Nat /\ \A i \in 1 .. Len(s) : s[i] \in S
  BY ElementOfSeq, LenProperties
<1>1. /\ Take(s, n) \in Seq(S) /\ Len(Take(s, n)) = n
      /\ \A i \in 1 .. n : Take(s, n)[i] = s[i]
  <2>1. 1 \in Int /\ n \in Int /\ \A i \in 1 .. n : s[i] \in S
    BY <1>0
  <2>2. /\ SubSeq(s, 1, n) \in Seq(S)
        /\ Len(SubSeq(s, 1, n)) = IF 1 <= n THEN n - 1 + 1 ELSE 0
        /\ \A i \in 1 .. n - 1 + 1 : SubSeq(s, 1, n)[i] = s[1 + i - 1]
    BY <2>1, SubSeqProperties
  <2> QED
    BY <1>0, <2>2 DEF Take
<1>2. /\ Drop(s, n) \in Seq(S) /\ Len(Drop(s, n)) = Len(s) - n
      /\ \A i \in 1 .. Len(s) - n : Drop(s, n)[i] = s[n + i]
  <2>1. n + 1 \in Int /\ Len(s) \in Int /\ \A i \in n + 1 .. Len(s) : s[i] \in S
    BY <1>0
  <2>2. /\ SubSeq(s, n + 1, Len(s)) \in Seq(S)
        /\ Len(SubSeq(s, n + 1, Len(s)))
              = IF n + 1 <= Len(s) THEN Len(s) - (n + 1) + 1 ELSE 0
        /\ \A i \in 1 .. Len(s) - (n + 1) + 1 :
              SubSeq(s, n + 1, Len(s))[i] = s[n + 1 + i - 1]
    BY <2>1, SubSeqProperties
  <2>3. /\ Len(s) - (n + 1) + 1 = Len(s) - n /\ \A i \in Nat : n + 1 + i - 1 = n + i
        /\ (IF n + 1 <= Len(s) THEN Len(s) - (n + 1) + 1 ELSE 0) = Len(s) - n
    BY <1>0
  <2>4. Len(Drop(s, n)) = Len(s) - n
    BY <2>2, <2>3 DEF Drop
  <2>5. ASSUME NEW i \in 1 .. Len(s) - n PROVE Drop(s, n)[i] = s[n + i]
    <3>1. i \in 1 .. Len(s) - (n + 1) + 1 /\ n + 1 + i - 1 = n + i
      BY <1>0
    <3>2. SubSeq(s, n + 1, Len(s))[i] = s[n + 1 + i - 1]
      BY <2>2, <3>1
    <3> QED
      BY <3>1, <3>2 DEF Drop
  <2> QED
    BY <2>2, <2>4, <2>5 DEF Drop
<1> QED
  BY <1>1, <1>2

LEMMA NothingDropped == ASSUME NEW S, NEW s \in Seq(S) PROVE Drop(s, 0) = s
<1>1. Len(s) \in Nat
  BY LenProperties
<1>2. /\ Drop(s, 0) \in Seq(S) /\ Len(Drop(s, 0)) = Len(s) - 0
      /\ \A i \in 1 .. Len(s) - 0 : Drop(s, 0)[i] = s[0 + i]
  BY <1>1, PartElements
<1> QED
  BY <1>1, <1>2, SeqEqual

LEMMA AllDropped ==
    ASSUME NEW S, NEW s \in Seq(S), NEW n \in Nat, Len(s) <= n
    PROVE  Drop(s, n) = <<>> /\ Drop(s, Len(s)) = <<>>
<1>1. Len(s) \in Nat
  BY LenProperties
<1>2. n + 1 \in Int /\ Len(s) + 1 \in Int /\ Len(s) < n + 1 /\ Len(s) < Len(s) + 1
  BY <1>1
<1> QED
  BY <1>1, <1>2, SubSeqEmpty DEF Drop

LEMMA DropTwice ==
    ASSUME NEW S, NEW s \in Seq(S), NEW k \in Nat, NEW n \in Nat, k + n <= Len(s)
    PROVE  Drop(Drop(s, k), n) = Drop(s, k + n)
<1> DEFINE r == Drop(s, k)
<1>1. Len(s) \in Nat /\ k <= Len(s) /\ k + n \in Nat
  BY LenProperties
<1>2. /\ r \in Seq(S) /\ Len(r) = Len(s) - k
      /\ \A i \in 1 .. Len(s) - k : r[i] = s[k + i]
  BY <1>1, PartElements
<1>3. /\ Drop(s, k + n) \in Seq(S) /\ Len(Drop(s, k + n)) = Len(s) - (k + n)
      /\ \A i \in 1 .. Len(s) - (k + n) : Drop(s, k + n)[i] = s[k + n + i]
  BY <1>1, PartElements
<1> HIDE DEF r
<1>4. n <= Len(r)
  BY <1>1, <1>2
<1>5. /\ Drop(r, n) \in Seq(S) /\ Len(Drop(r, n)) = Len(r) - n
      /\ \A i \in 1 .. Len(r) - n : Drop(r, n)[i] = r[n + i]
  BY <1>2, <1>4, PartElements
<1>6. Len(Drop(r, n)) = Len(Drop(s, k + n))
  BY <1>1, <1>2, <1>3, <1>5
<1>7. ASSUME NEW i \in 1 .. Len(Drop(r, n)) PROVE Drop(r, n)[i] = Drop(s, k + n)[i]
  <2>1. i \in 1 .. Len(r) - n /\ n + i \in 1 .. Len(s) - k /\ i \in 1 .. Len(s) - (k + n)
    BY <1>1, <1>2, <1>5
  <2>2. Drop(r, n)[i] = s[k + (n + i)] /\ Drop(s, k + n)[i] = s[k + n + i]
    BY <1>2, <1>3, <1>5, <2>1
  <2>3. k + (n + i) = k + n + i
    OBVIOUS
  <2> QED
    BY <2>2, <2>3
<1>8. Drop(r, n) = Drop(s, k + n)
  BY <1>3, <1>5, <1>6, <1>7, SeqEqual
<1> QED
  BY <1>8 DEF r

LEMMA DropFirst ==
    ASSUME NEW S, NEW s \in Seq(S), NEW t \in Seq(S), NEW n \in Nat, n <= Len(s)
    PROVE  Drop(s, n) \o t = Drop(s \o t, n)
<1> DEFINE a == Drop(s, n)
           u == s \o t
<1>1. Len(s) \in Nat /\ Len(t) \in Nat
  BY LenProperties
<1>2. /\ a \in Seq(S) /\ Len(a) = Len(s) - n
      /\ \A i \in 1 .. Len(s) - n : a[i] = s[n + i]
  BY PartElements
<1>3. /\ u \in Seq(S) /\ Len(u) = Len(s) + Len(t)
      /\ \A i \in 1 .. Len(s) + Len(t) : u[i] = IF i <= Len(s) THEN s[i] ELSE t[i - Len(s)]
  BY ConcatProperties
<1> HIDE DEF a, u
<1>4. n <= Len(u)
  BY <1>1, <1>3
<1>5. /\ Drop(u, n) \in Seq(S) /\ Len(Drop(u, n)) = Len(u) - n
      /\ \A i \in 1 .. Len(u) - n : Drop(u, n)[i] = u[n + i]
  BY <1>3, <1>4, PartElements
<1>6. /\ a \o t \in Seq(S) /\ Len(a \o t) = Len(a) + Len(t)
      /\ \A i \in 1 .. Len(a) + Len(t) :
            (a \o t)[i] = IF i <= Len(a) THEN a[i] ELSE t[i - Len(a)]
  BY <1>2, ConcatProperties
<1>7. Len(a \o t) = Len(Drop(u, n))
  BY <1>1, <1>2, <1>3, <1>5, <1>6
<1>8. ASSUME NEW i \in 1 .. Len(a \o t) PROVE (a \o t)[i] = Drop(u, n)[i]
  <2>1. /\ i \in 1 .. Len(a) + Len(t) /\ i \in 1 .. Len(u) - n /\ n + i \in 1 .. Len(s) + Len(t)
        /\ (i <= Len(a)) = (n + i <= Len(s)) /\ i - Len(a) = n + i - Len(s)
        /\ i <= Len(a) => i \in 1 .. Len(s) - n
    BY <1>1, <1>2, <1>3, <1>6
  <2>2. Drop(u, n)[i] = IF n + i <= Len(s) THEN s[n + i] ELSE t[n + i - Len(s)]
    BY <1>3, <1>5, <2>1
  <2>3. (a \o t)[i] = IF i <= Len(a) THEN a[i] ELSE t[i - Len(a)]
    BY <1>6, <2>1
  <2> QED
    BY <1>2, <2>1, <2>2, <2>3
<1>9. a \o t = Drop(u, n)
  BY <1>5, <1>6, <1>7, <1>8, SeqEqual
<1> QED
  BY <1>9 DEF a, u

LEMMA HeadTailConcat ==
    ASSUME NEW S, NEW s \in Seq(S), NEW t \in Seq(S), s # <<>>
    PROVE  /\ s \o t # <<>> /\ Head(s \o t) = Head(s)
           /\ Tail(s) \o t = Tail(s \o t)
<1>1. Len(s) \in Nat \ {0} /\ Len(t) \in Nat
  BY LenProperties, EmptySeq
<1>2. /\ s \o t \in Seq(S) /\ Len(s \o t) = Len(s) + Len(t)
      /\ \A i \in 1 .. Len(s) + Len(t) : (s \o t)[i] = IF i <= Len(s) THEN s[i] ELSE t[i - Len(s)]
  BY ConcatProperties
<1>3. s \o t # <<>>
  BY <1>1, <1>2, EmptySeq
<1>4. Head(s \o t) = Head(s)
  <2>1. /\ 1 \in 1 .. Len(s) /\ Len(s) \in 1 .. Len(s)
        /\ 1 \in 1 .. Len(s \o t) /\ Len(s \o t) \in 1 .. Len(s \o t)
    BY <1>1, <1>2
  <2>2. Head(SubSeq(s, 1, Len(s))) = s[1]
    BY <2>1, HeadTailOfSubSeq
  <2>3. Head(SubSeq(s \o t, 1, Len(s \o t))) = (s \o t)[1]
    BY <1>2, <2>1, HeadTailOfSubSeq
  <2>4. Head(s) = s[1] /\ Head(s \o t) = (s \o t)[1]
    BY <1>2, <2>2, <2>3, SubSeqFull
  <2>5. (s \o t)[1] = s[1]
    BY <1>1, <1>2
  <2> QED
    BY <2>4, <2>5
<1>5. Tail(s) \o t = Tail(s \o t)
  <2>1. 1 \in Nat /\ 1 <= Len(s) /\ 1 + 1 = 2
    BY <1>1
  <2>2. Drop(s, 1) \o t = Drop(s \o t, 1)
    BY <2>1, DropFirst
  <2>3. Tail(s) = Drop(s, 1) /\ Tail(s \o t) = Drop(s \o t, 1)
    BY <1>2, <1>3, <2>1, TailIsSubSeq DEF Drop
  <2> QED
    BY <2>2, <2>3
<1> QED
  BY <1>3, <1>4, <1>5

(* First parts.                                                            *)
LEMMA PrefixOfConcat ==
    ASSUME NEW S, NEW s \in Seq(S), NEW t \in Seq(S)
    PROVE  Prefix(s, s \o t)
<1>1. Len(s) \in Nat /\ Len(t) \in Nat
  BY LenProperties
<1>2. /\ Len(s \o t) = Len(s) + Len(t)
      /\ \A i \in 1 .. Len(s) + Len(t) : (s \o t)[i] = IF i <= Len(s) THEN s[i] ELSE t[i - Len(s)]
  BY ConcatProperties
<1> QED
  BY <1>1, <1>2 DEF Prefix

LEMMA PrefixTransitive ==
    ASSUME NEW S, NEW s \in Seq(S), NEW t \in Seq(S), NEW u \in Seq(S),
           Prefix(s, t), Prefix(t, u)
    PROVE  Prefix(s, u)
<1>1. Len(s) \in Nat /\ Len(t) \in Nat /\ Len(u) \in Nat
  BY LenProperties
<1> QED
  BY <1>1 DEF Prefix

(* The first part of a sequence in order is in order.                      *)
LEMMA PrefixInOrder ==
    ASSUME NEW S, NEW T, NEW s \in Seq(S), NEW t \in Seq(T), Prefix(s, t), D!InOrder(t)
    PROVE  D!InOrder(s) /\ s \in Seq(T)
<1>1. Len(s) \in Nat /\ Len(t) \in Nat /\ s \in [1 .. Len(s) -> S]
  BY LenProperties
<1>2. Len(s) <= Len(t) /\ \A i \in 1 .. Len(s) : s[i] = t[i]
  BY DEF Prefix
<1>3. s # <<>> => s[1].n = 1
  <2> SUFFICES ASSUME s # <<>> PROVE s[1].n = 1
    OBVIOUS
  <2>1. Len(s) > 0
    BY <1>1, EmptySeq
  <2>2. t # <<>>
    BY <1>1, <1>2, <2>1, EmptySeq
  <2> QED
    BY <1>1, <1>2, <2>1, <2>2 DEF D!InOrder
<1>4. \A i \in 1 .. Len(s) - 1 : D!Follows(s[i], s[i + 1])
  <2> SUFFICES ASSUME NEW i \in 1 .. Len(s) - 1 PROVE D!Follows(s[i], s[i + 1])
    OBVIOUS
  <2>1. i \in 1 .. Len(s) /\ i + 1 \in 1 .. Len(s) /\ i \in 1 .. Len(t) - 1
    BY <1>1, <1>2
  <2> QED
    BY <1>2, <2>1 DEF D!InOrder
<1>5. s \in Seq(T)
  <2>1. \A i \in 1 .. Len(s) : s[i] \in T
    BY <1>1, <1>2, ElementOfSeq
  <2>2. s \in [1 .. Len(s) -> T]
    BY <1>1, <2>1
  <2> QED
    BY <1>1, <2>2, SeqDef
<1> QED
  BY <1>3, <1>4, <1>5 DEF D!InOrder

(* A send, whole or not, sends a first part of the buffer, and leaves what *)
(* has been received alone.                                                *)
LEMMA SendsPart ==
    ASSUME NEW s \in Streams, NEW o \in output_buffer(s)
    PROVE  /\ o.to.ibuf = s.ibuf /\ (~s.open => o.sent = <<>>)
           /\ \E r \in Seq(Items) : Cat(o.sent, r) = s.obuf
<1>0. s.obuf \in Seq(Items) /\ Len(s.obuf) \in Nat /\ <<>> \in Seq(Items)
  BY LenProperties, EmptySeq DEF Streams
<1>f. ASSUME NEW to, NEW sent, o = Outcome(to, sent)
      PROVE  o.to = to /\ o.sent = sent
  BY <1>f DEF Outcome
<1>1. CASE ~s.open
  <2>1. o = Outcome([s EXCEPT !.bad = TRUE], <<>>)
    BY <1>1 DEF output_buffer
  <2>2. o.to = [s EXCEPT !.bad = TRUE] /\ o.sent = <<>>
    BY <2>1, <1>f
  <2>3. <<>> \o s.obuf = s.obuf
    BY <1>0, ConcatEmptySeq
  <2> QED
    BY <1>0, <2>2, <2>3 DEF Streams, Cat
<1>2. CASE s.open /\ o = Outcome([s EXCEPT !.obuf = <<>>], s.obuf)
  <2>1. o.to = [s EXCEPT !.obuf = <<>>] /\ o.sent = s.obuf
    BY <1>2, <1>f
  <2>2. s.obuf \o <<>> = s.obuf
    BY <1>0, ConcatEmptySeq
  <2> QED
    BY <1>0, <1>2, <2>1, <2>2 DEF Streams, Cat
<1>3. ASSUME s.open, NEW k \in {0} \union 1 .. Len(s.obuf) - 1,
             o = Outcome([s EXCEPT !.bad = TRUE], Take(s.obuf, k))
      PROVE  o.to.ibuf = s.ibuf /\ \E r \in Seq(Items) : Cat(o.sent, r) = s.obuf
  <2>1. k \in Nat /\ k <= Len(s.obuf)
    BY <1>0
  <2>2. Drop(s.obuf, k) \in Seq(Items) /\ Take(s.obuf, k) \o Drop(s.obuf, k) = s.obuf
    BY <1>0, <2>1, SplitSeq
  <2>3. o.to = [s EXCEPT !.bad = TRUE] /\ o.sent = Take(s.obuf, k)
    BY <1>3, <1>f
  <2> QED
    BY <2>2, <2>3 DEF Streams, Cat
<1> QED
  BY <1>1, <1>2, <1>3 DEF output_buffer

LEMMA RegroupPart ==
    ASSUME NEW S, NEW a \in Seq(S), NEW t \in Seq(S), NEW d \in Seq(S),
           NEW x \in Seq(S), NEW r \in Seq(S), Cat(x, r) = Cat(a, t)
    PROVE  Cat(r, d) \in Seq(S) /\ Cat(x, Cat(r, d)) = Cat(a, Cat(t, d))
<1>1. Cat(Cat(x, r), d) = Cat(x, Cat(r, d)) /\ Cat(Cat(a, t), d) = Cat(a, Cat(t, d))
  BY CatProperties
<1>2. Cat(r, d) \in Seq(S)
  BY CatProperties
<1> QED
  BY <1>1, <1>2

LEMMA PutsPart ==
    ASSUME NEW s \in Streams, NEW bytes \in Seq(Items), Len(s.obuf) < SIZE,
           NEW o \in Puts(s, bytes)
    PROVE  /\ o.to.ibuf = s.ibuf /\ (~s.open => o.sent = <<>>)
           /\ o.sent \in Seq(Items)
           /\ \E r \in Seq(Items) : Cat(o.sent, r) = Cat(s.obuf, bytes)
<1>0. /\ SIZE \in Nat /\ s.obuf \in Seq(Items) /\ Len(s.obuf) \in Nat /\ Len(bytes) \in Nat
      /\ <<>> \in Seq(Items)
  BY LenProperties, EmptySeq, HlsRelayAssumption DEF Streams
<1>1. CASE Len(s.obuf) + Len(bytes) < SIZE
  <2>1. o = [to |-> [s EXCEPT !.obuf = s.obuf \o bytes], sent |-> <<>>, rest |-> <<>>]
    BY <1>1 DEF Puts
  <2>2. s.obuf \o bytes \in Seq(Items)
    BY <1>0, ConcatProperties
  <2>3. <<>> \o (s.obuf \o bytes) = s.obuf \o bytes
    BY <2>2, ConcatEmptySeq
  <2>4. o.to = [s EXCEPT !.obuf = s.obuf \o bytes] /\ o.sent = <<>>
    BY <2>1
  <2> QED
    BY <1>0, <2>2, <2>3, <2>4 DEF Streams, Cat
<1>2. CASE ~(Len(s.obuf) + Len(bytes) < SIZE)
  <2> DEFINE n == SIZE - Len(s.obuf)
             full == [s EXCEPT !.obuf = s.obuf \o Take(bytes, n)]
  <2>1. n \in Nat /\ n <= Len(bytes)
    BY <1>0, <1>2
  <2>2. /\ Take(bytes, n) \in Seq(Items) /\ Drop(bytes, n) \in Seq(Items)
        /\ Take(bytes, n) \o Drop(bytes, n) = bytes
    BY <2>1, SplitSeq
  <2>3. s.obuf \o Take(bytes, n) \in Seq(Items)
    BY <1>0, <2>2, ConcatProperties
  <2>4. full \in Streams /\ full.obuf = Cat(s.obuf, Take(bytes, n))
        /\ full.ibuf = s.ibuf /\ full.open = s.open
    BY <2>3 DEF Streams, Cat
  <2>5. PICK q \in output_buffer(full) :
           o = [to |-> q.to, sent |-> q.sent,
                rest |-> IF q.to.bad THEN <<>> ELSE Drop(bytes, n)]
    BY <1>2 DEF Puts
  <2>6. o.to = q.to /\ o.sent = q.sent
    BY <2>5
  <2>7. q.to.ibuf = full.ibuf /\ (~full.open => q.sent = <<>>) /\ q.sent \in Seq(Items)
    BY <2>4, <2>5, SendsPart, Sends
  <2>8. PICK t \in Seq(Items), d \in Seq(Items) :
           full.obuf = Cat(s.obuf, t) /\ Cat(t, d) = bytes
    BY <2>2, <2>4 DEF Cat
  <2>9. PICK r \in Seq(Items) : Cat(q.sent, r) = full.obuf
    BY <2>4, <2>5, SendsPart
  <2> HIDE DEF n, full
  <2>10. Cat(r, d) \in Seq(Items) /\ Cat(q.sent, Cat(r, d)) = Cat(s.obuf, Cat(t, d))
    BY <1>0, <2>7, <2>8, <2>9, RegroupPart
  <2> QED
    BY <2>4, <2>6, <2>7, <2>8, <2>10
<1> QED
  BY <1>1, <1>2

(* The responses with status 200, line after line.                         *)

LEMMA BodyProperties ==
    ASSUME NEW seg \in Segments
    PROVE  /\ Body(seg) \in Seq(Items) /\ Body(seg) \in Seq(BodyItems) /\ Len(Body(seg)) = BodyLen
           /\ \A i \in 1 .. BodyLen : Body(seg)[i] = [seg |-> seg, n |-> i]
<1>1. \A i \in 1 .. BodyLen : [seg |-> seg, n |-> i] \in BodyItems
  BY DEF BodyItems
<1>2. Body(seg) \in [1 .. BodyLen -> BodyItems] /\ BodyLen \in Nat
  BY <1>1, HlsRelayAssumption DEF Body
<1>3. Body(seg) \in Seq(BodyItems)
  BY <1>2, SeqDef
<1>4. Body(seg) \in Seq(Items)
  <2>1. BodyItems \subseteq Items
    BY DEF Items
  <2> QED
    BY <1>3, <2>1, SeqMonotonic
<1>5. DOMAIN Body(seg) = 1 .. BodyLen
  BY DEF Body
<1>6. Len(Body(seg)) = BodyLen
  BY <1>2, <1>3, <1>5, LenProperties
<1> QED
  BY <1>3, <1>4, <1>6 DEF Body

WithLength(seg) == <<Header("Content-Length"), End>> \o Body(seg)
NoLength(seg)   == <<End>> \o Body(seg)

LEMMA LinesOfBody ==
    ASSUME NEW seg \in Segments
    PROVE  /\ WithLength(seg) # <<>> /\ Head(WithLength(seg)) = Header("Content-Length")
           /\ Tail(WithLength(seg)) = NoLength(seg)
           /\ NoLength(seg) # <<>> /\ Head(NoLength(seg)) = End
           /\ Tail(NoLength(seg)) = Body(seg)
<1>1. Body(seg) \in Seq(Items)
  BY BodyProperties
<1>2. Header("Content-Length") \in Items /\ End \in Items
  BY DEF Items
<1>3. /\ <<Header("Content-Length"), End>> \in Seq(Items) /\ <<End>> \in Seq(Items)
      /\ Tail(<<Header("Content-Length"), End>>) = <<End>> /\ Tail(<<End>>) = <<>>
      /\ <<Header("Content-Length"), End>> # <<>> /\ <<End>> # <<>>
      /\ Head(<<Header("Content-Length"), End>>) = Header("Content-Length")
      /\ Head(<<End>>) = End
  BY <1>2
<1>4. <<>> \o Body(seg) = Body(seg)
  BY <1>1, ConcatEmptySeq
<1>5. /\ WithLength(seg) # <<>> /\ Head(WithLength(seg)) = Header("Content-Length")
      /\ Tail(WithLength(seg)) = NoLength(seg)
  <2> DEFINE lines == <<Header("Content-Length"), End>>
  <2>1. lines \in Seq(Items) /\ lines # <<>> /\ Tail(lines) = <<End>>
        /\ Head(lines) = Header("Content-Length") /\ WithLength(seg) = lines \o Body(seg)
    BY <1>3 DEF WithLength
  <2> HIDE DEF lines
  <2>2. /\ lines \o Body(seg) # <<>> /\ Head(lines \o Body(seg)) = Head(lines)
        /\ Tail(lines) \o Body(seg) = Tail(lines \o Body(seg))
    BY <1>1, <2>1, HeadTailConcat
  <2> QED
    BY <2>1, <2>2 DEF NoLength
<1>6. /\ NoLength(seg) # <<>> /\ Head(NoLength(seg)) = End
      /\ Tail(NoLength(seg)) = Body(seg)
  <2> DEFINE lines == <<End>>
  <2>1. lines \in Seq(Items) /\ lines # <<>> /\ Tail(lines) = <<>>
        /\ Head(lines) = End /\ NoLength(seg) = lines \o Body(seg)
    BY <1>3 DEF NoLength
  <2> HIDE DEF lines
  <2>2. /\ lines \o Body(seg) # <<>> /\ Head(lines \o Body(seg)) = Head(lines)
        /\ Tail(lines) \o Body(seg) = Tail(lines \o Body(seg))
    BY <1>1, <2>1, HeadTailConcat
  <2> QED
    BY <1>4, <2>1, <2>2
<1> QED
  BY <1>5, <1>6

LEMMA LinesOfAnswer ==
    ASSUME NEW seg \in Segments, NEW a \in Answers(seg)
    PROVE  /\ a # <<>>
           /\ "status" \in DOMAIN Head(a) /\ Head(a).status = 200 =>
                 Tail(a) \in {WithLength(seg), NoLength(seg)}
<1>1. Body(seg) \in Seq(Items)
  BY BodyProperties
<1>2. {Status(200), Header("Content-Length"), End} \subseteq Items
  BY DEF Items
<1>3. CASE a = <<Status(200), Header("Content-Length"), End>> \o Body(seg)
  <2> DEFINE lines == <<Status(200), Header("Content-Length"), End>>
  <2>1. lines \in Seq(Items) /\ lines # <<>>
        /\ Tail(lines) = <<Header("Content-Length"), End>> /\ a = lines \o Body(seg)
    BY <1>2, <1>3
  <2> HIDE DEF lines
  <2>2. lines \o Body(seg) # <<>> /\ Tail(lines) \o Body(seg) = Tail(lines \o Body(seg))
    BY <1>1, <2>1, HeadTailConcat
  <2> QED
    BY <2>1, <2>2 DEF WithLength
<1>4. CASE a = <<Status(200), End>> \o Body(seg)
  <2> DEFINE lines == <<Status(200), End>>
  <2>1. lines \in Seq(Items) /\ lines # <<>> /\ Tail(lines) = <<End>> /\ a = lines \o Body(seg)
    BY <1>2, <1>4
  <2> HIDE DEF lines
  <2>2. lines \o Body(seg) # <<>> /\ Tail(lines) \o Body(seg) = Tail(lines \o Body(seg))
    BY <1>1, <2>1, HeadTailConcat
  <2> QED
    BY <2>1, <2>2 DEF NoLength
<1>5. CASE a \in {<<Status(302), Header("Location"), End, Page>>, <<Status(302), End>>,
                  <<Status(404), End, Page>>, <<Page>>, <<End>>}
  <2>1. a # <<>> /\ Head(a) \in {Status(302), Status(404), Page, End}
    BY <1>5
  <2>2. /\ Status(302).status = 302 /\ Status(404).status = 404
        /\ "status" \notin DOMAIN Page /\ "status" \notin DOMAIN End
    BY DEF Status, Page, End, Header
  <2> QED
    BY <2>1, <2>2
<1> QED
  BY <1>3, <1>4, <1>5 DEF Answers

(* The initial state, and what a step that leaves a part alone keeps.      *)

Early == {"segment", "connect", "request", "status", "headers", "answer"}

OrderInv == ResponseComes /\ BodyComes /\ GotInOrder /\ SentIsCopied

LEMMA OrderInit == Init => OrderInv
<1> SUFFICES ASSUME Init PROVE OrderInv
  OBVIOUS
<1>1. <<>> \in Seq(BodyItems) /\ Len(<<>>) = 0 /\ <<>> \o <<>> = <<>> /\ DOMAIN <<>> = {}
  BY EmptySeq, ConcatEmptySeq
<1>2. Got = <<>>
  BY <1>1 DEF Init, Got
<1>3. GotInOrder
  <2>1. D!InOrder(<<>>)
    BY <1>1 DEF D!InOrder
  <2>2. \A seg : Older(seg)
    BY <1>1, <1>2 DEF Older
  <2> QED
    BY <1>1, <1>2, <2>1, <2>2 DEF GotInOrder
<1> QED
  BY <1>1, <1>3 DEF Init, OrderInv, ResponseComes, BodyComes, SentIsCopied, Prefix

LEMMA GotKept ==
    ASSUME TypeOK, GotInOrder, Got' = Got,
           \/ readPos' = readPos /\ (pc' \in Early => pc \in Early)
           \/ readPos' = readPos + 1
    PROVE  GotInOrder'
<1>1. readPos \in Nat /\ NumSegments \in Nat
  BY HlsRelayAssumption DEF TypeOK
<1>2. \A i \in DOMAIN Got : Got[i].seg \in Nat
  <2>1. Got \in Seq(BodyItems)
    BY DEF GotInOrder
  <2>2. DOMAIN Got = 1 .. Len(Got)
    BY <2>1, LenProperties
  <2>3. \A i \in DOMAIN Got : Got[i] \in BodyItems
    BY <2>1, <2>2, ElementOfSeq
  <2> QED
    BY <1>1, <2>3 DEF BodyItems, Segments
<1>3. Older(readPos + 1)
  BY <1>1, <1>2 DEF GotInOrder, Older
<1>4. Got' \in Seq(BodyItems) /\ D!InOrder(Got)'
  BY DEF GotInOrder, D!InOrder, D!Follows
<1>5. IF pc' \in Early THEN Older(readPos)' ELSE Older(readPos + 1)'
  <2>1. CASE readPos' = readPos /\ pc' \in Early
    BY <2>1 DEF GotInOrder, Older, Early
  <2>2. CASE readPos' = readPos /\ pc' \notin Early
    BY <1>3, <2>2 DEF Older
  <2>3. CASE readPos' = readPos + 1
    BY <1>1, <1>2, <1>3, <2>3 DEF Older
  <2> QED
    BY <2>1, <2>2, <2>3
<1> QED
  BY <1>4, <1>5 DEF GotInOrder, Early

LEMMA SentKept ==
    ASSUME SentIsCopied, UNCHANGED <<VideoStream, received, copied>>,
           \/ pc' \notin {"read", "write"} \/ ~VideoStream.bad
           \/ pc' = pc /\ UNCHANGED put
    PROVE  SentIsCopied'
  BY DEF SentIsCopied, Prefix

LEMMA BodyKept ==
    ASSUME BodyComes, Incoming' = Incoming, Got' = Got, UNCHANGED readPos,
           tsStream'.bad = tsStream.bad, pc \in {"copy", "read", "write"},
           pc' = "read" => ~tsStream.bad
    PROVE  BodyComes'
<1>1. ASSUME ~tsStream.bad
      PROVE  \E k \in 0 .. BodyLen :
                /\ Incoming' = Drop(Body(readPos'), k)
                /\ IF k = 0 THEN Older(readPos)'
                   ELSE Got' # <<>> /\ Got'[Len(Got')] = Body(readPos')[k]
  BY <1>1 DEF BodyComes, Older
<1> QED
  BY <1>1 DEF BodyComes

(* Nothing is promised of what comes at the other places.                  *)
LEMMA NothingComes ==
    ASSUME pc' \notin {"request", "status", "headers", "answer", "copy", "read", "write"}
    PROVE  ResponseComes' /\ BodyComes'
  BY DEF ResponseComes, BodyComes

LEMMA NoBodyComes ==
    ASSUME pc' \notin {"copy", "read", "write"}
    PROVE  BodyComes'
  BY DEF BodyComes

LEMMA NoResponseComes ==
    ASSUME pc' \in {"copy", "read", "write"}
    PROVE  ResponseComes'
  BY DEF ResponseComes


(* Steps of the request                                                    *)

LEMMA SegmentOrder == StreamInv /\ OrderInv /\ Segment => OrderInv'
<1> SUFFICES ASSUME StreamInv, OrderInv, Segment PROVE OrderInv'
  OBVIOUS
<1>1. pc = "segment" /\ pc' \in {"connect", "done"} /\ UNCHANGED <<readPos, copied>>
  BY DEF Segment
<1>2. Got' = Got
  BY <1>1 DEF Got
<1>3. GotInOrder'
  BY <1>1, <1>2, GotKept DEF StreamInv, OrderInv, Early
<1>4. SentIsCopied'
  BY <1>1, SentKept DEF Segment, OrderInv
<1> QED
  BY <1>1, <1>3, <1>4, NothingComes DEF OrderInv

LEMMA ConnectOrder == StreamInv /\ OrderInv /\ Connect => OrderInv'
<1> SUFFICES ASSUME StreamInv, OrderInv, Connect PROVE OrderInv'
  OBVIOUS
<1>1. pc = "connect" /\ pc' \in {"failed", "request"} /\ UNCHANGED <<readPos, copied>>
  BY DEF Connect
<1>2. Got' = Got
  BY <1>1 DEF Got
<1>3. GotInOrder'
  BY <1>1, <1>2, GotKept DEF StreamInv, OrderInv, Early
<1>4. SentIsCopied'
  BY <1>1, SentKept DEF Connect, OrderInv
<1>5. ResponseComes'
  <2>1. tsStream' \in {Opened, Closed} /\ answer' = <<>> /\ answered' = FALSE
    BY DEF Connect
  <2>2. Opened.ibuf = <<>> /\ Closed.ibuf = <<>>
    BY DEF Opened, Closed
  <2>3. tsStream'.ibuf = <<>>
    BY <2>1, <2>2
  <2>4. <<>> \o <<>> = <<>>
    BY ConcatEmptySeq, EmptySeq
  <2>5. Incoming' = <<>>
    BY <2>1, <2>3, <2>4 DEF Incoming
  <2> QED
    BY <1>1, <2>1, <2>5 DEF ResponseComes
<1> QED
  BY <1>1, <1>3, <1>4, <1>5, NoBodyComes DEF OrderInv

LEMMA SendRequestOrder == StreamInv /\ OrderInv /\ SendRequest => OrderInv'
<1> SUFFICES ASSUME StreamInv, OrderInv, SendRequest PROVE OrderInv'
  OBVIOUS
<1>1. /\ pc = "request" /\ pc' = "request" /\ put # <<>>
      /\ UNCHANGED <<readPos, copied, answer, answered>>
  BY DEF SendRequest
<1>2. Got' = Got
  BY <1>1 DEF Got
<1>3. GotInOrder'
  BY <1>1, <1>2, GotKept DEF StreamInv, OrderInv, Early
<1>4. SentIsCopied'
  BY <1>1, SentKept DEF SendRequest, OrderInv
<1>5. tsStream'.ibuf = tsStream.ibuf
  <2>1. tsStream \in Streams /\ put \in Seq(Items) /\ Len(tsStream.obuf) < SIZE
    BY <1>1 DEF StreamInv, TypeOK, RoomToWrite, RequestInTransit
  <2>2. PICK o \in Puts(tsStream, put) : tsStream' = o.to
    BY DEF SendRequest
  <2>3. o.to.ibuf = tsStream.ibuf
    BY <2>1, PutsPart
  <2> QED
    BY <2>2, <2>3
<1>6. Incoming' = Incoming
  BY <1>1, <1>5 DEF Incoming
<1>7. ResponseComes'
  BY <1>1, <1>6 DEF OrderInv, ResponseComes
<1> QED
  BY <1>1, <1>3, <1>4, <1>7, NoBodyComes DEF OrderInv

LEMMA FlushOrder == StreamInv /\ OrderInv /\ Flush => OrderInv'
<1> SUFFICES ASSUME StreamInv, OrderInv, Flush PROVE OrderInv'
  OBVIOUS
<1>1. pc = "request" /\ pc' = "status" /\ UNCHANGED <<readPos, copied, answer, answered>>
  BY DEF Flush
<1>2. Got' = Got
  BY <1>1 DEF Got
<1>3. GotInOrder'
  BY <1>1, <1>2, GotKept DEF StreamInv, OrderInv, Early
<1>4. SentIsCopied'
  BY <1>1, SentKept DEF Flush, OrderInv
<1>5. tsStream'.ibuf = tsStream.ibuf
  <2>1. CASE tsStream' = tsStream
    BY <2>1
  <2>2. ASSUME NEW o \in output_buffer(tsStream),
               tsStream' = [o.to EXCEPT !.bad = o.to.bad \/ tsStream.bad]
        PROVE  tsStream'.ibuf = tsStream.ibuf
    <3>1. tsStream \in Streams
      BY DEF StreamInv, TypeOK
    <3>2. o.to \in Streams /\ o.to.ibuf = tsStream.ibuf
      BY <3>1, Sends, SendsPart
    <3> QED
      BY <2>2, <3>2 DEF Streams
  <2> QED
    BY <2>1, <2>2 DEF Flush
<1>6. Incoming' = Incoming
  BY <1>1, <1>5 DEF Incoming
<1>7. ResponseComes'
  BY <1>1, <1>6 DEF OrderInv, ResponseComes
<1> QED
  BY <1>1, <1>3, <1>4, <1>7, NoBodyComes DEF OrderInv

LEMMA EmptyConcat ==
    ASSUME NEW S, NEW s \in Seq(S), NEW t \in Seq(S)
    PROVE  /\ s \o t = <<>> => s = <<>> /\ t = <<>>
           /\ <<>> \o t = t
<1>1. Len(s) \in Nat /\ Len(t) \in Nat /\ Len(s \o t) = Len(s) + Len(t)
  BY LenProperties, ConcatProperties
<1>2. s \o t = <<>> => Len(s) + Len(t) = 0
  BY <1>1, EmptySeq
<1>3. s \o t = <<>> => Len(s) = 0 /\ Len(t) = 0
  BY <1>1, <1>2
<1> QED
  BY <1>3, EmptySeq, ConcatEmptySeq

LEMMA InputTypes ==
    ASSUME TypeOK
    PROVE  /\ tsStream.ibuf \in Seq(Items) /\ answer \in Seq(Items)
           /\ Incoming \in Seq(Items)
<1>1. tsStream.ibuf \in Seq(Items) /\ answer \in Seq(Items)
  BY DEF TypeOK, Streams
<1> QED
  BY <1>1, ConcatProperties DEF Incoming

(* The one answer to a request is the first that comes.                    *)
LEMMA OriginAnswersOrder == StreamInv /\ OrderInv /\ OriginAnswers => OrderInv'
<1> SUFFICES ASSUME StreamInv, OrderInv, OriginAnswers PROVE OrderInv'
  OBVIOUS
<1>1. /\ pc \in {"request", "status"} /\ answered = FALSE
      /\ UNCHANGED <<pc, readPos, copied, tsStream>>
      /\ answered' = TRUE /\ answer' \in Answers(readPos)
  BY DEF OriginAnswers, StreamInv, TypeOK
<1>2. Got' = Got
  BY <1>1 DEF Got
<1>3. GotInOrder'
  BY <1>1, <1>2, GotKept DEF StreamInv, OrderInv, Early
<1>4. SentIsCopied'
  BY <1>1, SentKept DEF OriginAnswers, OrderInv
<1>5. Incoming' \in Answers(readPos)
  <2>1. Incoming = <<>>
    BY <1>1 DEF OrderInv, ResponseComes
  <2>2. tsStream.ibuf \in Seq(Items) /\ answer \in Seq(Items)
    BY InputTypes DEF StreamInv
  <2>3. tsStream.ibuf = <<>>
    BY <2>1, <2>2, EmptyConcat DEF Incoming
  <2>4. readPos \in Segments
    BY <1>1 DEF StreamInv, TypeOK
  <2>5. answer' \in Seq(Items)
    BY <1>1, <2>4, AnswersAreItems
  <2>6. <<>> \o answer' = answer'
    BY <2>5, EmptyConcat
  <2>7. Incoming' = answer'
    BY <1>1, <2>3, <2>6 DEF Incoming
  <2> QED
    BY <1>1, <2>7
<1>6. ResponseComes'
  BY <1>1, <1>5 DEF ResponseComes
<1> QED
  BY <1>1, <1>3, <1>4, <1>6, NoBodyComes DEF OrderInv

(* Steps of the response                                                   *)

LEMMA UnderflowOrder == StreamInv /\ OrderInv /\ Underflow => OrderInv'
<1> SUFFICES ASSUME StreamInv, OrderInv, Underflow PROVE OrderInv'
  OBVIOUS
<1>1. /\ UNCHANGED <<pc, readPos, copied, answered, status, TsBuf>>
      /\ pc \in {"status", "headers", "read"} /\ tsStream.ibuf = <<>>
      /\ ~tsStream.bad
  BY DEF Underflow, Reading, response
<1>2. Got' = Got
  BY <1>1 DEF Got
<1>3. GotInOrder'
  BY <1>1, <1>2, GotKept DEF StreamInv, OrderInv
<1>4. SentIsCopied'
  BY <1>1, SentKept DEF Underflow, OrderInv
<1>5. tsStream'.bad = tsStream.bad /\ Incoming' = Incoming
  <2>1. tsStream \in Streams /\ answer \in Seq(Items) /\ Len(answer) \in Nat
    BY LenProperties DEF StreamInv, TypeOK
  <2>2. PICK n \in 1 .. SIZE :
           /\ n <= Len(answer)
           /\ tsStream' = [tsStream EXCEPT !.ibuf = Take(answer, n)]
           /\ answer' = Drop(answer, n)
    BY DEF Underflow
  <2>3. n \in Nat
    BY HlsRelayAssumption
  <2>4. /\ Take(answer, n) \in Seq(Items) /\ Take(answer, n) \o Drop(answer, n) = answer
    BY <2>1, <2>2, <2>3, SplitSeq
  <2>5. tsStream'.bad = tsStream.bad /\ tsStream'.ibuf = Take(answer, n)
    BY <2>1, <2>2, <2>4, InputFields
  <2>6. <<>> \o answer = answer
    BY <2>1, EmptyConcat
  <2> QED
    BY <1>1, <2>2, <2>4, <2>5, <2>6 DEF Incoming
<1>6. ResponseComes'
  BY <1>1, <1>5 DEF OrderInv, ResponseComes
<1>7. BodyComes'
  <2>1. CASE pc = "read"
    BY <1>1, <1>2, <1>5, <2>1, BodyKept DEF OrderInv
  <2>2. CASE pc # "read"
    BY <1>1, <2>2, NoBodyComes
  <2> QED
    BY <2>1, <2>2
<1> QED
  BY <1>3, <1>4, <1>6, <1>7 DEF OrderInv

LEMMA ReadFailsOrder == StreamInv /\ OrderInv /\ ReadFails => OrderInv'
<1> SUFFICES ASSUME StreamInv, OrderInv, ReadFails PROVE OrderInv'
  OBVIOUS
<1>1. /\ pc \in {"status", "headers"} /\ pc' \in {"failed", "answer"}
      /\ UNCHANGED <<readPos, copied>>
  BY DEF ReadFails
<1>2. Got' = Got
  BY <1>1 DEF Got
<1>3. GotInOrder'
  BY <1>1, <1>2, GotKept DEF StreamInv, OrderInv, Early
<1>4. SentIsCopied'
  BY <1>1, SentKept DEF ReadFails, OrderInv
<1>5. tsStream'.bad
  BY FailureFields DEF ReadFails, StreamInv, TypeOK
<1>6. ResponseComes'
  BY <1>1, <1>5 DEF ResponseComes
<1> QED
  BY <1>1, <1>3, <1>4, <1>6, NoBodyComes DEF OrderInv

LEMMA LineRead ==
    ASSUME TypeOK, tsStream.ibuf # <<>>, UNCHANGED answer,
           tsStream' = [tsStream EXCEPT !.ibuf = Tail(tsStream.ibuf)]
    PROVE  /\ Incoming # <<>> /\ Head(Incoming) = Head(tsStream.ibuf)
           /\ Incoming' = Tail(Incoming) /\ tsStream'.bad = tsStream.bad
<1>1. tsStream.ibuf \in Seq(Items) /\ answer \in Seq(Items) /\ tsStream \in Streams
  BY InputTypes DEF TypeOK
<1>2. Tail(tsStream.ibuf) \in Seq(Items)
  BY <1>1, HeadTailProperties
<1>3. tsStream'.ibuf = Tail(tsStream.ibuf) /\ tsStream'.bad = tsStream.bad
  BY <1>1, <1>2, InputFields
<1>4. /\ tsStream.ibuf \o answer # <<>>
      /\ Head(tsStream.ibuf \o answer) = Head(tsStream.ibuf)
      /\ Tail(tsStream.ibuf) \o answer = Tail(tsStream.ibuf \o answer)
  BY <1>1, HeadTailConcat
<1> QED
  BY <1>3, <1>4 DEF Incoming

LEMMA StatusLineOrder == StreamInv /\ OrderInv /\ StatusLine => OrderInv'
<1> SUFFICES ASSUME StreamInv, OrderInv, StatusLine PROVE OrderInv'
  OBVIOUS
<1>1. /\ pc = "status" /\ pc' \in {"failed", "headers"}
      /\ UNCHANGED <<readPos, copied, answer>>
  BY DEF StatusLine, origin
<1>2. Got' = Got
  BY <1>1 DEF Got
<1>3. GotInOrder'
  BY <1>1, <1>2, GotKept DEF StreamInv, OrderInv, Early
<1>4. SentIsCopied'
  BY <1>1, SentKept DEF StatusLine, OrderInv
<1>5. ResponseComes'
  <2>1. CASE pc' = "failed"
    BY <2>1 DEF ResponseComes
  <2>2. CASE pc' = "headers"
    <3>1. /\ tsStream.ibuf # <<>> /\ status' = Head(tsStream.ibuf).status
          /\ "status" \in DOMAIN Head(tsStream.ibuf)
          /\ tsStream' = [tsStream EXCEPT !.ibuf = Tail(tsStream.ibuf)]
      BY <2>2 DEF StatusLine
    <3>2. /\ Incoming # <<>> /\ Head(Incoming) = Head(tsStream.ibuf)
          /\ Incoming' = Tail(Incoming)
      BY <1>1, <3>1, LineRead DEF StreamInv
    <3>3. Incoming \in Answers(readPos) /\ readPos \in Segments
      BY <1>1, <3>2 DEF OrderInv, ResponseComes, StreamInv, TypeOK
    <3>4. status' = 200 => Incoming' \in {WithLength(readPos), NoLength(readPos)}
      BY <3>1, <3>2, <3>3, LinesOfAnswer
    <3>5. status' = 200 => Incoming' \in {<<Header("Content-Length"), End>> \o Body(readPos'),
                                          <<End>> \o Body(readPos')}
      BY <1>1, <3>4 DEF WithLength, NoLength
    <3> QED
      BY <2>2, <3>5 DEF ResponseComes
  <2> QED
    BY <1>1, <2>1, <2>2
<1> QED
  BY <1>1, <1>3, <1>4, <1>5, NoBodyComes DEF OrderInv

LEMMA HeaderLineOrder == StreamInv /\ OrderInv /\ HeaderLine => OrderInv'
<1> SUFFICES ASSUME StreamInv, OrderInv, HeaderLine PROVE OrderInv'
  OBVIOUS
<1>1. /\ pc = "headers" /\ pc' \in {"failed", "headers", "answer"}
      /\ UNCHANGED <<readPos, copied, answer, status>> /\ tsStream.ibuf # <<>>
      /\ tsStream' = [tsStream EXCEPT !.ibuf = Tail(tsStream.ibuf)]
  BY DEF HeaderLine, origin
<1>2. Got' = Got
  BY <1>1 DEF Got
<1>3. GotInOrder'
  BY <1>1, <1>2, GotKept DEF StreamInv, OrderInv, Early
<1>4. SentIsCopied'
  BY <1>1, SentKept DEF HeaderLine, OrderInv
<1>5. ResponseComes'
  <2> SUFFICES ASSUME pc' \in {"headers", "answer"}, ~tsStream'.bad, status' = 200
               PROVE  IF pc' = "headers"
                      THEN Incoming' \in {<<Header("Content-Length"), End>> \o Body(readPos'),
                                          <<End>> \o Body(readPos')}
                      ELSE Incoming' = Body(readPos')
    BY <1>1 DEF ResponseComes
  <2>1. /\ Head(Incoming) = Head(tsStream.ibuf) /\ Incoming' = Tail(Incoming)
        /\ tsStream'.bad = tsStream.bad
    BY <1>1, LineRead DEF StreamInv
  <2>2. Incoming \in {WithLength(readPos), NoLength(readPos)} /\ readPos \in Segments
    BY <1>1, <2>1 DEF OrderInv, ResponseComes, WithLength, NoLength, StreamInv, TypeOK
  <2>3. IF Head(Incoming) = End THEN pc' = "answer" ELSE pc' = "headers"
    BY <1>1, <2>1 DEF HeaderLine
  <2>4. Header("Content-Length") # End
    BY DEF End, Header
  <2>5. IF Head(Incoming) = End
        THEN Incoming' = Body(readPos) ELSE Incoming' = NoLength(readPos)
    BY <2>1, <2>2, <2>4, LinesOfBody
  <2> QED
    BY <1>1, <2>3, <2>5 DEF NoLength
<1> QED
  BY <1>1, <1>3, <1>4, <1>5, NoBodyComes DEF OrderInv

(* The copy begins with the first byte of a segment newer than all others. *)
LEMMA AnswerOrder == StreamInv /\ OrderInv /\ Answer => OrderInv'
<1> SUFFICES ASSUME StreamInv, OrderInv, Answer PROVE OrderInv'
  OBVIOUS
<1>1. /\ pc = "answer" /\ pc' \in {"failed", "connect", "copy"}
      /\ UNCHANGED <<readPos, copied, answer, tsStream>>
  BY DEF Answer, origin
<1>2. Got' = Got /\ Incoming' = Incoming
  BY <1>1 DEF Got, Incoming
<1>3. GotInOrder'
  BY <1>1, <1>2, GotKept DEF StreamInv, OrderInv, Early
<1>4. SentIsCopied'
  BY <1>1, SentKept DEF Answer, OrderInv
<1>5. CASE pc' # "copy"
  <2>1. ResponseComes' /\ BodyComes'
    BY <1>1, <1>5 DEF ResponseComes, BodyComes
  <2> QED
    BY <1>3, <1>4, <2>1 DEF OrderInv
<1>6. CASE pc' = "copy"
  <2>1. BodyComes'
    <3> SUFFICES ASSUME ~tsStream'.bad
                 PROVE  \E k \in 0 .. BodyLen :
                           /\ Incoming' = Drop(Body(readPos'), k)
                           /\ IF k = 0 THEN Older(readPos)'
                              ELSE Got' # <<>> /\ Got'[Len(Got')] = Body(readPos')[k]
      BY <1>6 DEF BodyComes
    <3>1. status = 200
      BY <1>6 DEF Answer, HasSegment
    <3>2. Incoming = Body(readPos) /\ readPos \in Segments
      BY <1>1, <3>1 DEF OrderInv, ResponseComes, StreamInv, TypeOK
    <3>3. Incoming' = Drop(Body(readPos'), 0)
      BY <1>1, <1>2, <3>2, BodyProperties, NothingDropped
    <3>4. Older(readPos)'
      BY <1>1, <1>2 DEF OrderInv, GotInOrder, Older
    <3>5. 0 \in 0 .. BodyLen
      BY HlsRelayAssumption
    <3> QED
      BY <3>3, <3>4, <3>5
  <2> QED
    BY <1>3, <1>4, <1>6, <2>1, NoResponseComes DEF OrderInv
<1> QED
  BY <1>5, <1>6

(* Steps of the copy                                                       *)

LEMMA CopyOrder == StreamInv /\ OrderInv /\ Copy => OrderInv'
<1> SUFFICES ASSUME StreamInv, OrderInv, Copy PROVE OrderInv'
  OBVIOUS
<1>1. /\ pc = "copy" /\ UNCHANGED <<copied, answer, tsStream>> /\ TsBuf' = <<>>
      /\ \/ pc' = "read" /\ readPos' = readPos /\ good(tsStream) /\ good(VideoStream)
         \/ pc' = "segment" /\ readPos' = readPos + 1
  BY DEF Copy, origin
<1>2. Got' = Got /\ Incoming' = Incoming
  BY <1>1 DEF Got, Incoming
<1>3. GotInOrder'
  BY <1>1, <1>2, GotKept DEF StreamInv, OrderInv, Early
<1>4. SentIsCopied'
  BY <1>1, SentKept DEF Copy, OrderInv, good
<1>5. ResponseComes' /\ BodyComes'
  <2>1. CASE pc' = "read" /\ readPos' = readPos /\ good(tsStream)
    BY <1>1, <1>2, <2>1, BodyKept, NoResponseComes DEF OrderInv, good
  <2>2. CASE pc' = "segment"
    BY <2>2, NothingComes
  <2> QED
    BY <1>1, <2>1, <2>2
<1> QED
  BY <1>3, <1>4, <1>5 DEF OrderInv

LEMMA WriteDoneOrder == StreamInv /\ OrderInv /\ WriteDone => OrderInv'
<1> SUFFICES ASSUME StreamInv, OrderInv, WriteDone PROVE OrderInv'
  OBVIOUS
<1>1. /\ pc = "write" /\ pc' = "copy" /\ UNCHANGED <<readPos, copied, answer, tsStream>>
  BY DEF WriteDone, origin
<1>2. Got' = Got /\ Incoming' = Incoming
  BY <1>1 DEF Got, Incoming
<1>3. GotInOrder'
  BY <1>1, <1>2, GotKept DEF StreamInv, OrderInv, Early
<1>4. SentIsCopied'
  BY <1>1, SentKept DEF WriteDone, OrderInv
<1>5. ResponseComes' /\ BodyComes'
  BY <1>1, <1>2, BodyKept, NoResponseComes DEF OrderInv
<1> QED
  BY <1>3, <1>4, <1>5 DEF OrderInv

LEMMA BrokenPipeOrder == StreamInv /\ OrderInv /\ BrokenPipe => OrderInv'
<1> SUFFICES ASSUME StreamInv, OrderInv, BrokenPipe PROVE OrderInv'
  OBVIOUS
<1>1. /\ pc \in {"request", "write"} /\ pc' = "failed" /\ UNCHANGED <<readPos, copied>>
  BY DEF BrokenPipe
<1>2. Got' = Got
  BY <1>1 DEF Got
<1>3. GotInOrder'
  BY <1>1, <1>2, GotKept DEF StreamInv, OrderInv, Early
<1>4. SentIsCopied'
  BY <1>1, SentKept DEF BrokenPipe, OrderInv
<1> QED
  BY <1>1, <1>3, <1>4, NothingComes DEF OrderInv

LEMMA StopOrder == StreamInv /\ OrderInv /\ Stop => OrderInv'
<1> SUFFICES ASSUME StreamInv, OrderInv, Stop PROVE OrderInv'
  OBVIOUS
<1>1. /\ UNCHANGED <<pc, readPos, put, copied, received, answer, answered, status,
                     TsBuf, tsStream>>
      /\ VideoStream'.bad = FALSE
  BY DEF Stop, response, origin, StreamInv, TypeOK, Streams
<1>2. Got' = Got /\ Incoming' = Incoming
  BY <1>1 DEF Got, Incoming
<1>3. GotInOrder'
  BY <1>1, <1>2, GotKept DEF StreamInv, OrderInv
<1>4. SentIsCopied'
  BY <1>1 DEF OrderInv, SentIsCopied, Prefix
<1>5. ResponseComes'
  BY <1>1, <1>2 DEF OrderInv, ResponseComes
<1>6. BodyComes'
  <2>1. CASE pc \in {"copy", "read", "write"}
    BY <1>1, <1>2, <2>1, BodyKept DEF OrderInv, BodyComes
  <2>2. CASE pc \notin {"copy", "read", "write"}
    BY <1>1, <2>2, NoBodyComes
  <2> QED
    BY <2>1, <2>2
<1> QED
  BY <1>3, <1>4, <1>5, <1>6 DEF OrderInv

(* The bytes from k + 1 on of the segment follow what has been read.       *)
LEMMA Appends ==
    ASSUME NEW seg \in Segments, NEW g \in Seq(BodyItems), D!InOrder(g),
           NEW k \in Nat,
           IF k = 0 THEN \A i \in 1 .. Len(g) : g[i].seg < seg
           ELSE g # <<>> /\ g[Len(g)] = [seg |-> seg, n |-> k],
           \A i \in 1 .. Len(g) : g[i].seg < seg + 1,
           NEW part \in Seq(Items), Len(part) > 0, k + Len(part) <= BodyLen,
           \A j \in 1 .. Len(part) : part[j] = [seg |-> seg, n |-> k + j]
    PROVE  /\ g \o part \in Seq(BodyItems) /\ D!InOrder(g \o part)
           /\ g \o part # <<>>
           /\ (g \o part)[Len(g \o part)] = [seg |-> seg, n |-> k + Len(part)]
           /\ \A i \in 1 .. Len(g \o part) : (g \o part)[i].seg < seg + 1
<1> DEFINE h == g \o part
<1>1. /\ Len(g) \in Nat /\ Len(part) \in Nat /\ BodyLen \in Nat /\ seg \in Nat
      /\ NumSegments \in Nat
  BY LenProperties, HlsRelayAssumption DEF Segments
<1>2. part \in Seq(BodyItems)
  <2>1. \A j \in 1 .. Len(part) : k + j \in 1 .. BodyLen
    BY <1>1
  <2>2. \A j \in 1 .. Len(part) : part[j] \in BodyItems
    <3> SUFFICES ASSUME NEW j \in 1 .. Len(part) PROVE part[j] \in BodyItems
      OBVIOUS
    <3>1. \A n \in 1 .. BodyLen : [seg |-> seg, n |-> n] \in BodyItems
      BY DEF BodyItems
    <3>2. part[j] = [seg |-> seg, n |-> k + j] /\ k + j \in 1 .. BodyLen
      BY <2>1
    <3> QED
      BY <3>1, <3>2
  <2>3. part \in [1 .. Len(part) -> Items]
    BY LenProperties
  <2>4. part \in [1 .. Len(part) -> BodyItems]
    BY <2>2, <2>3
  <2>5. \E n \in Nat : part \in [1 .. n -> BodyItems]
    BY <1>1, <2>4
  <2> QED
    BY <2>5, SeqDef
<1>3. /\ h \in Seq(BodyItems) /\ Len(h) = Len(g) + Len(part)
      /\ \A i \in 1 .. Len(g) + Len(part) : h[i] = IF i <= Len(g) THEN g[i] ELSE part[i - Len(g)]
  BY <1>2, ConcatProperties
<1> HIDE DEF h
<1>4. \A i \in 1 .. Len(g) : i \in 1 .. Len(g) + Len(part) /\ h[i] = g[i]
  BY <1>1, <1>3
<1>5. \A j \in 1 .. Len(part) :
         Len(g) + j \in 1 .. Len(h) /\ h[Len(g) + j] = [seg |-> seg, n |-> k + j]
  <2> SUFFICES ASSUME NEW j \in 1 .. Len(part)
               PROVE  /\ Len(g) + j \in 1 .. Len(h)
                      /\ h[Len(g) + j] = [seg |-> seg, n |-> k + j]
    OBVIOUS
  <2>1. /\ Len(g) + j \in 1 .. Len(g) + Len(part) /\ ~(Len(g) + j <= Len(g))
        /\ Len(g) + j - Len(g) = j
    BY <1>1
  <2> QED
    BY <1>3, <2>1
<1>6. \A i \in 1 .. Len(h) : i \in 1 .. Len(g) \/ \E j \in 1 .. Len(part) : i = Len(g) + j
  <2> SUFFICES ASSUME NEW i \in 1 .. Len(h), i \notin 1 .. Len(g)
               PROVE  \E j \in 1 .. Len(part) : i = Len(g) + j
    OBVIOUS
  <2>1. i - Len(g) \in 1 .. Len(part) /\ i = Len(g) + (i - Len(g))
    BY <1>1, <1>3
  <2> QED
    BY <2>1
<1>7. h # <<>>
  BY <1>1, <1>3, EmptySeq
<1>8. h[Len(h)] = [seg |-> seg, n |-> k + Len(part)]
  <2>1. Len(part) \in 1 .. Len(part)
    BY <1>1
  <2> QED
    BY <1>3, <1>5, <2>1
<1>9. \A i \in 1 .. Len(h) : h[i].seg < seg + 1
  <2>1. seg < seg + 1
    BY <1>1
  <2>2. ASSUME NEW j \in 1 .. Len(part) PROVE h[Len(g) + j].seg = seg
    <3>1. h[Len(g) + j] = [seg |-> seg, n |-> k + j]
      BY <1>5
    <3> QED
      BY <3>1
  <2> QED
    BY <1>4, <1>6, <2>1, <2>2
<1>10. h[1].n = 1
  <2>1. CASE g = <<>>
    <3>1. Len(g) = 0 /\ k = 0 /\ 1 \in 1 .. Len(part) /\ Len(g) + 1 = 1 /\ k + 1 = 1
      BY <1>1, <2>1, EmptySeq
    <3>2. h[Len(g) + 1] = [seg |-> seg, n |-> k + 1]
      BY <1>5, <3>1
    <3> QED
      BY <3>1, <3>2
  <2>2. CASE g # <<>>
    <3>1. 1 \in 1 .. Len(g)
      BY <1>1, <2>2, EmptySeq
    <3> QED
      BY <1>4, <2>2, <3>1 DEF D!InOrder
  <2> QED
    BY <2>1, <2>2
<1>11. ASSUME NEW i \in 1 .. Len(h) - 1 PROVE D!Follows(h[i], h[i + 1])
  <2>1. i \in 1 .. Len(h) /\ i + 1 \in 1 .. Len(h)
    BY <1>1, <1>3
  <2>2. CASE i < Len(g)
    <3>1. i \in 1 .. Len(g) /\ i + 1 \in 1 .. Len(g) /\ i \in 1 .. Len(g) - 1
      BY <1>1, <2>1, <2>2
    <3>2. D!Follows(g[i], g[i + 1])
      BY <3>1 DEF D!InOrder
    <3> QED
      BY <1>4, <3>1, <3>2
  <2>3. CASE i = Len(g)
    <3>1. i \in 1 .. Len(g) /\ g # <<>> /\ 1 \in 1 .. Len(part)
      BY <1>1, <2>1, <2>3, EmptySeq
    <3>2. h[i] = g[Len(g)] /\ h[i + 1] = [seg |-> seg, n |-> k + 1]
      BY <1>4, <1>5, <2>3, <3>1
    <3>3. CASE k = 0
      <4>1. g[i].seg < seg /\ k + 1 = 1 /\ g[i] \in BodyItems
        BY <3>1, <3>3, ElementOfSeq
      <4>2. g[i].seg \in Nat /\ seg > g[i].seg
        BY <1>1, <4>1 DEF BodyItems, Segments
      <4> QED
        BY <2>3, <3>2, <4>1, <4>2 DEF D!Follows
    <3>4. CASE k # 0
      BY <3>2, <3>4 DEF D!Follows
    <3> QED
      BY <3>3, <3>4
  <2>4. CASE i > Len(g)
    <3> DEFINE j == i - Len(g)
    <3>1. /\ j \in 1 .. Len(part) /\ j + 1 \in 1 .. Len(part)
          /\ i = Len(g) + j /\ i + 1 = Len(g) + (j + 1) /\ k + (j + 1) = k + j + 1
      BY <1>1, <1>3, <2>4
    <3> HIDE DEF j
    <3>2. h[i] = [seg |-> seg, n |-> k + j] /\ h[i + 1] = [seg |-> seg, n |-> k + j + 1]
      BY <1>5, <3>1
    <3> QED
      BY <3>2 DEF D!Follows
  <2> QED
    BY <1>1, <2>1, <2>2, <2>3, <2>4
<1>12. D!InOrder(h)
  BY <1>10, <1>11 DEF D!InOrder
<1> QED
  BY <1>3, <1>7, <1>8, <1>9, <1>12 DEF h

LEMMA ReadOrder == StreamInv /\ OrderInv /\ Read => OrderInv'
<1> SUFFICES ASSUME StreamInv, OrderInv, Read PROVE OrderInv'
  OBVIOUS
<1> DEFINE input == tsStream.ibuf
           space == SIZE - Len(TsBuf)
           n     == IF Len(input) < space THEN Len(input) ELSE space
           part  == Take(input, n)
<1>1. /\ pc = "read" /\ UNCHANGED <<pc, readPos, put, copied, answer>>
      /\ readPos \in Segments /\ readPos \in Nat /\ ~tsStream.bad
  BY DEF Read, origin, OrderInv, BodyComes, StreamInv, TypeOK, Segments
<1>2. PICK k \in 0 .. BodyLen :
         /\ Incoming = Drop(Body(readPos), k)
         /\ IF k = 0 THEN Older(readPos)
            ELSE Got # <<>> /\ Got[Len(Got)] = Body(readPos)[k]
  BY <1>1 DEF OrderInv, BodyComes
<1>3. BodyLen \in Nat /\ k \in Nat /\ k <= BodyLen
  BY HlsRelayAssumption
<1>4. /\ input \in Seq(Items) /\ Len(input) \in Nat /\ TsBuf \in Seq(Items)
      /\ answer \in Seq(Items) /\ Len(answer) \in Nat /\ copied \in Seq(Items)
      /\ space \in Nat /\ n \in Nat /\ n <= Len(input) /\ tsStream \in Streams
      /\ n > 0 /\ (n = space \/ (n = Len(input) /\ Len(input) <= space))
  <2>1. /\ input \in Seq(Items) /\ TsBuf \in Seq(Items) /\ tsStream \in Streams
        /\ answer \in Seq(Items) /\ copied \in Seq(Items)
    BY DEF StreamInv, TypeOK, Streams
  <2>2. Len(input) \in Nat /\ Len(TsBuf) \in Nat /\ Len(answer) \in Nat /\ Len(input) # 0
    BY <2>1, LenProperties, EmptySeq DEF Read
  <2>3. SIZE \in Nat /\ Len(TsBuf) < SIZE
    BY HlsRelayAssumption DEF Read
  <2> HIDE DEF input
  <2> QED
    BY <2>1, <2>2, <2>3
<1>5. /\ TsBuf' = TsBuf \o part
      /\ tsStream' = [tsStream EXCEPT !.ibuf = Drop(input, space)]
  BY DEF Read
<1>6. Incoming = input \o answer /\ Got = copied \o TsBuf
  BY <1>1 DEF Incoming, Got
<1> HIDE DEF input, space, n
<1>7. /\ part \in Seq(Items) /\ Len(part) = n /\ \A j \in 1 .. n : part[j] = input[j]
  BY <1>4, PartElements
<1>8. /\ Body(readPos) \in Seq(Items) /\ Len(Body(readPos)) = BodyLen
      /\ \A i \in 1 .. BodyLen : Body(readPos)[i] = [seg |-> readPos, n |-> i]
  BY <1>1, BodyProperties
<1>9. /\ Incoming \in Seq(Items) /\ Len(Incoming) = BodyLen - k
      /\ \A j \in 1 .. BodyLen - k : Incoming[j] = Body(readPos)[k + j]
  <2> DEFINE body == Body(readPos)
  <2>1. Incoming = Drop(body, k)
    BY <1>2
  <2>2. body \in Seq(Items) /\ k <= Len(body) /\ k \in Nat
    BY <1>3, <1>8
  <2> HIDE DEF body
  <2>3. /\ Drop(body, k) \in Seq(Items) /\ Len(Drop(body, k)) = Len(body) - k
        /\ \A j \in 1 .. Len(body) - k : Drop(body, k)[j] = body[k + j]
    BY <2>2, PartElements
  <2> QED
    BY <1>8, <2>1, <2>3 DEF body
<1>10. /\ Len(Incoming) = Len(input) + Len(answer)
       /\ \A j \in 1 .. Len(input) : Incoming[j] = input[j]
  <2>1. /\ Len(input \o answer) = Len(input) + Len(answer)
        /\ \A j \in 1 .. Len(input) + Len(answer) :
              (input \o answer)[j] = IF j <= Len(input) THEN input[j] ELSE answer[j - Len(input)]
    BY <1>4, ConcatProperties
  <2>2. \A j \in 1 .. Len(input) : j \in 1 .. Len(input) + Len(answer) /\ j <= Len(input)
    BY <1>4
  <2> QED
    BY <1>6, <2>1, <2>2
<1> HIDE DEF part
<1>11. k + n \in Nat /\ k + n <= BodyLen /\ k + n # 0 /\ k + n \in 1 .. BodyLen
       /\ k + n \in 0 .. BodyLen
  BY <1>3, <1>4, <1>9, <1>10
<1>12. ASSUME NEW j \in 1 .. n PROVE part[j] = [seg |-> readPos, n |-> k + j]
  <2>1. j \in 1 .. Len(input) /\ j \in 1 .. BodyLen - k /\ k + j \in 1 .. BodyLen
    BY <1>3, <1>4, <1>9, <1>10
  <2> QED
    BY <1>7, <1>8, <1>9, <1>10, <2>1
<1>13. /\ Got \in Seq(BodyItems) /\ D!InOrder(Got)
       /\ \A i \in 1 .. Len(Got) : Got[i].seg < readPos + 1
       /\ IF k = 0 THEN \A i \in 1 .. Len(Got) : Got[i].seg < readPos
          ELSE Got # <<>> /\ Got[Len(Got)] = [seg |-> readPos, n |-> k]
  <2>1. Got \in Seq(BodyItems) /\ D!InOrder(Got) /\ Older(readPos + 1)
    BY <1>1 DEF OrderInv, GotInOrder
  <2>2. DOMAIN Got = 1 .. Len(Got)
    BY <2>1, LenProperties
  <2>3. k # 0 => k \in 1 .. BodyLen
    BY <1>3
  <2> QED
    BY <1>2, <1>8, <2>1, <2>2, <2>3 DEF Older
<1>14. /\ Got \o part \in Seq(BodyItems) /\ D!InOrder(Got \o part)
       /\ Got \o part # <<>>
       /\ (Got \o part)[Len(Got \o part)] = [seg |-> readPos, n |-> k + Len(part)]
       /\ \A i \in 1 .. Len(Got \o part) : (Got \o part)[i].seg < readPos + 1
  <2>1. Len(part) > 0 /\ k + Len(part) <= BodyLen
        /\ \A j \in 1 .. Len(part) : part[j] = [seg |-> readPos, n |-> k + j]
    BY <1>4, <1>7, <1>11, <1>12
  <2> QED
    BY <1>1, <1>3, <1>7, <1>13, <2>1, Appends
<1>15. Got' = Got \o part
  <2>1. Got' = copied \o (TsBuf \o part)
    BY <1>1, <1>5 DEF Got
  <2>2. Cat(Cat(copied, TsBuf), part) = Cat(copied, Cat(TsBuf, part))
    BY <1>4, <1>7, CatProperties
  <2> QED
    BY <1>6, <2>1, <2>2 DEF Cat
<1>16. tsStream'.bad = tsStream.bad /\ tsStream'.ibuf = Drop(input, n)
  <2>1. Drop(input, space) \in Seq(Items)
    BY <1>4, DropSeq
  <2>2. tsStream'.bad = tsStream.bad /\ tsStream'.ibuf = Drop(input, space)
    BY <1>4, <1>5, <2>1, InputFields
  <2>3. n = Len(input) /\ Len(input) <= space => Drop(input, space) = Drop(input, n)
    BY <1>4, AllDropped
  <2> QED
    BY <1>4, <2>2, <2>3
<1>17. Incoming' = Drop(Body(readPos), k + n)
  <2>1. Incoming' = Drop(input, n) \o answer
    BY <1>1, <1>16 DEF Incoming
  <2>2. Drop(input, n) \o answer = Drop(input \o answer, n)
    BY <1>4, DropFirst
  <2>3. Drop(Drop(Body(readPos), k), n) = Drop(Body(readPos), k + n)
    BY <1>3, <1>4, <1>8, <1>11, DropTwice
  <2> QED
    BY <1>2, <1>6, <2>1, <2>2, <2>3
<1>18. GotInOrder'
  <2>1. DOMAIN (Got \o part) = 1 .. Len(Got \o part)
    BY <1>14, LenProperties
  <2>2. Got' \in Seq(BodyItems) /\ D!InOrder(Got)'
    BY <1>14, <1>15 DEF D!InOrder, D!Follows
  <2>3. Older(readPos + 1)'
    BY <1>1, <1>14, <1>15, <2>1 DEF Older
  <2> QED
    BY <1>1, <2>2, <2>3 DEF GotInOrder
<1>19. BodyComes'
  <2>1. Body(readPos)[k + n] = [seg |-> readPos, n |-> k + Len(part)]
    BY <1>7, <1>8, <1>11
  <2>2. /\ Incoming' = Drop(Body(readPos'), k + n)
        /\ Got' # <<>> /\ Got'[Len(Got')] = Body(readPos')[k + n]
    BY <1>1, <1>14, <1>15, <1>17, <2>1
  <2>3. ~tsStream'.bad
    BY <1>1, <1>16
  <2> QED
    BY <1>11, <2>2, <2>3 DEF BodyComes
<1>20. SentIsCopied'
  BY <1>1, SentKept DEF Read, OrderInv
<1> QED
  BY <1>1, <1>18, <1>19, <1>20, NoResponseComes DEF OrderInv

LEMMA ReadDoneOrder == StreamInv /\ OrderInv /\ ReadDone => OrderInv'
<1> SUFFICES ASSUME StreamInv, OrderInv, ReadDone PROVE OrderInv'
  OBVIOUS
<1>1. /\ pc = "read" /\ pc' = "write" /\ copied' = copied \o put'
      /\ UNCHANGED <<readPos, answer, received, VideoStream>>
      /\ copied \in Seq(Items) /\ TsBuf \in Seq(Items) /\ received \in Seq(Items)
  BY DEF ReadDone, origin, StreamInv, TypeOK
<1>2. \/ put' = TsBuf /\ tsStream' = tsStream
      \/ tsStream'.bad /\ put' \in {TsBuf, <<>>}
  BY FailureFields DEF ReadDone, StreamInv, TypeOK
<1>3. Got' = copied \o put'
  <2>1. put' \in Seq(Items)
    BY <1>1, <1>2, EmptySeq
  <2>2. (copied \o put') \o <<>> = copied \o put'
    BY <1>1, <2>1, ConcatProperties, ConcatEmptySeq
  <2> QED
    BY <1>1, <2>2 DEF Got
<1>4. SentIsCopied'
  <2>1. put' \in Seq(Items) /\ copied' \in Seq(Items)
    BY <1>1, <1>2, EmptySeq, ConcatProperties
  <2>2. Prefix(received, copied) /\ Prefix(copied, copied')
    BY <1>1, <2>1, PrefixOfConcat DEF OrderInv, SentIsCopied
  <2>3. Prefix(received, copied')
    BY <1>1, <2>1, <2>2, PrefixTransitive
  <2>4. Prefix(received', copied')
    BY <1>1, <2>3
  <2> QED
    BY <1>1, <2>4 DEF OrderInv, SentIsCopied, Prefix
<1>5. CASE put' = TsBuf
  <2>1. Got' = Got
    BY <1>1, <1>3, <1>5 DEF Got
  <2>2. GotInOrder'
    BY <1>1, <2>1, GotKept DEF StreamInv, OrderInv, Early
  <2>3. BodyComes'
    <3>1. CASE tsStream' = tsStream
      <4>1. Incoming' = Incoming
        BY <1>1, <3>1 DEF Incoming
      <4> QED
        BY <1>1, <2>1, <3>1, <4>1, BodyKept DEF OrderInv
    <3>2. CASE tsStream'.bad
      BY <1>1, <3>2 DEF BodyComes
    <3> QED
      BY <1>2, <3>1, <3>2
  <2> QED
    BY <1>1, <1>4, <2>2, <2>3, NoResponseComes DEF OrderInv
<1>6. CASE tsStream'.bad /\ put' = <<>>
  <2>1. Got' = copied
    BY <1>1, <1>3, <1>6, ConcatEmptySeq
  <2>2. Got \in Seq(BodyItems) /\ D!InOrder(Got) /\ Older(readPos + 1)
    BY <1>1 DEF OrderInv, GotInOrder
  <2>3. Prefix(copied, Got)
    BY <1>1, PrefixOfConcat DEF Got
  <2>4. D!InOrder(copied) /\ copied \in Seq(BodyItems)
    BY <1>1, <2>2, <2>3, PrefixInOrder
  <2>5. \A i \in DOMAIN copied : copied[i].seg < readPos + 1
    <3>1. DOMAIN copied = 1 .. Len(copied) /\ DOMAIN Got = 1 .. Len(Got)
          /\ Len(copied) \in Nat /\ Len(Got) \in Nat
      BY <1>1, <2>2, LenProperties
    <3>2. Len(copied) <= Len(Got) /\ \A i \in 1 .. Len(copied) : copied[i] = Got[i]
      BY <2>3 DEF Prefix
    <3> QED
      BY <2>2, <3>1, <3>2 DEF Older
  <2>6. Got' \in Seq(BodyItems) /\ D!InOrder(Got)' /\ Older(readPos + 1)'
    BY <1>1, <2>1, <2>4, <2>5 DEF D!InOrder, D!Follows, Older
  <2>7. GotInOrder'
    BY <1>1, <2>6 DEF GotInOrder
  <2>8. BodyComes'
    BY <1>1, <1>6 DEF BodyComes
  <2> QED
    BY <1>1, <1>4, <2>7, <2>8, NoResponseComes DEF OrderInv
<1> QED
  BY <1>2, <1>5, <1>6

(* Nothing is sent of a stream that is closed, and of one that is good     *)
(* only what comes next.                                                   *)
LEMMA WriteOrder == StreamInv /\ OrderInv /\ Write => OrderInv'
<1> SUFFICES ASSUME StreamInv, OrderInv, Write PROVE OrderInv'
  OBVIOUS
<1>1. /\ pc = "write" /\ put # <<>> /\ ~VideoStream.bad
      /\ UNCHANGED <<pc, readPos, copied, answer, tsStream>>
  BY DEF Write, origin, OrderInv, SentIsCopied
<1>2. Got' = Got /\ Incoming' = Incoming
  BY <1>1 DEF Got, Incoming
<1>3. GotInOrder'
  BY <1>1, <1>2, GotKept DEF StreamInv, OrderInv
<1>4. BodyComes'
  BY <1>1, <1>2, BodyKept DEF OrderInv
<1>5. /\ VideoStream \in Streams /\ put \in Seq(Items) /\ received \in Seq(Items)
      /\ copied \in Seq(Items) /\ VideoStream.obuf \in Seq(Items)
      /\ Len(VideoStream.obuf) < SIZE
  BY <1>1 DEF StreamInv, TypeOK, RoomToWrite, Streams
<1>6. PICK o \in Puts(VideoStream, put) :
         VideoStream' = o.to /\ received' = received \o o.sent /\ put' = o.rest
  BY DEF Write
<1>7. o.to.bad => o.rest = <<>>
  BY <1>5, PutsBytes DEF PutOutcome
<1>8. /\ o.sent \in Seq(Items) /\ (~VideoStream.open => o.sent = <<>>)
      /\ \E r \in Seq(Items) : Cat(o.sent, r) = Cat(VideoStream.obuf, put)
  BY <1>5, PutsPart
<1>9. Prefix(received', copied)
  <2>1. CASE ~VideoStream.open
    <3>1. received' = received
      BY <1>5, <1>6, <1>8, <2>1, ConcatEmptySeq
    <3> QED
      BY <3>1 DEF OrderInv, SentIsCopied, Prefix
  <2>2. CASE VideoStream.open
    <3>1. copied = Transit(received, VideoStream.obuf, put)
      BY <1>1, <2>2 DEF StreamInv, NothingLost, good, Transit
    <3>2. PICK r \in Seq(Items) : Cat(o.sent, r) = Cat(VideoStream.obuf, put)
      BY <1>8
    <3>3. PICK x \in Seq(Items) : x = o.sent
      BY <1>8
    <3>4. /\ Cat(Cat(received, x), r) = Cat(received, Cat(x, r))
          /\ Cat(received, x) \in Seq(Items)
      BY <1>5, CatProperties
    <3>5. PICK b \in Seq(Items) : b = VideoStream.obuf
      BY <1>5
    <3>6. Cat(Cat(received, b), put) = Cat(received, Cat(b, put))
      BY <1>5, CatProperties
    <3>7. Cat(Cat(received, x), r) = Transit(received, VideoStream.obuf, put)
      BY <3>2, <3>3, <3>4, <3>5, <3>6 DEF Transit, Cat
    <3>8. Prefix(Cat(received, x), Cat(received, x) \o r)
      BY <3>4, PrefixOfConcat
    <3>9. Cat(received, x) = received'
      BY <1>6, <3>3 DEF Cat
    <3> QED
      BY <3>1, <3>7, <3>8, <3>9 DEF Cat
  <2> QED
    BY <1>5, <2>1, <2>2 DEF Streams
<1>10. SentIsCopied'
  <2>1. Prefix(received', copied')
    BY <1>1, <1>9
  <2> QED
    BY <1>1, <1>6, <1>7, <2>1 DEF SentIsCopied, Prefix
<1> QED
  BY <1>1, <1>3, <1>4, <1>10, NoResponseComes DEF OrderInv

LEMMA IdleOrder == StreamInv /\ OrderInv /\ UNCHANGED vars => OrderInv'
<1> SUFFICES ASSUME StreamInv, OrderInv, UNCHANGED vars PROVE OrderInv'
  OBVIOUS
<1>1. /\ UNCHANGED <<pc, readPos, put, copied, received, answer, answered, status,
                     TsBuf, tsStream, VideoStream>>
  BY DEF vars
<1>2. Got' = Got /\ Incoming' = Incoming
  BY <1>1 DEF Got, Incoming
<1>3. GotInOrder'
  BY <1>1, <1>2, GotKept DEF StreamInv, OrderInv
<1>4. SentIsCopied'
  BY <1>1, SentKept DEF OrderInv
<1>5. ResponseComes'
  BY <1>1, <1>2 DEF OrderInv, ResponseComes
<1>6. BodyComes'
  <2>1. CASE pc \in {"copy", "read", "write"}
    BY <1>1, <1>2, <2>1, BodyKept DEF OrderInv, BodyComes
  <2>2. CASE pc \notin {"copy", "read", "write"}
    BY <1>1, <2>2, NoBodyComes
  <2> QED
    BY <2>1, <2>2
<1> QED
  BY <1>3, <1>4, <1>5, <1>6 DEF OrderInv

LEMMA OrderStep == StreamInv /\ OrderInv /\ [Next]_vars => OrderInv'
<1> SUFFICES ASSUME StreamInv, OrderInv, [Next]_vars PROVE OrderInv'
  OBVIOUS
<1>1. ASSUME Relay PROVE OrderInv'
  BY <1>1, SegmentOrder, ConnectOrder, SendRequestOrder, FlushOrder, UnderflowOrder,
     ReadFailsOrder, StatusLineOrder, HeaderLineOrder, AnswerOrder, CopyOrder,
     ReadOrder, ReadDoneOrder, WriteOrder, WriteDoneOrder, BrokenPipeOrder DEF Relay
<1> QED
  BY <1>1, StopOrder, OriginAnswersOrder, IdleOrder DEF Next, Over

-----------------------------------------------------------------------------
(* What is still to come is the rest of the response, and what the client  *)
(* has is the first part of what has been read, which is in order.         *)
THEOREM RelayInvariant == Spec => []RelayInv
<1>1. Init => RelayInv
  BY InvInit, OrderInit DEF OrderInv, RelayInv
<1>2. RelayInv /\ [Next]_vars => RelayInv'
  BY InvStep, OrderStep DEF OrderInv, RelayInv
<1> QED
  BY <1>1, <1>2, PTL DEF Spec

ReceivedSoFar == received \in Seq(BodyItems) /\ D!InOrder(received)

LEMMA ReceivedInOrder == RelayInv => ReceivedSoFar
<1> SUFFICES ASSUME RelayInv PROVE ReceivedSoFar
  OBVIOUS
<1>1. /\ received \in Seq(Items) /\ copied \in Seq(Items) /\ TsBuf \in Seq(Items)
      /\ Prefix(received, copied)
      /\ Got \in Seq(BodyItems) /\ D!InOrder(Got)
  BY DEF RelayInv, StreamInv, TypeOK, SentIsCopied, GotInOrder
<1>2. Prefix(copied, Got)
  BY <1>1, PrefixOfConcat, EmptySeq DEF Got
<1>3. Prefix(received, Got)
  <2>1. BodyItems \subseteq Items
    BY DEF Items
  <2>2. Got \in Seq(Items)
    BY <1>1, <2>1, SeqMonotonic
  <2> QED
    BY <1>1, <1>2, <2>2, PrefixTransitive
<1> QED
  BY <1>1, <1>3, PrefixInOrder DEF ReceivedSoFar

(* Wherever reads and sends cut it, whatever origins answer and however    *)
(* often connections fail, the client gets the segments one after the      *)
(* other, each from its first byte on and without a gap: Run, getResponse  *)
(* and the two socketstreams implement Delivery.                           *)
THEOREM ImplementsDelivery == Spec => Delivers
<1>1. Init => D!Init
  BY DEF Init, D!Init
<1>2. RelayInv /\ ReceivedSoFar' /\ [Next]_vars => [D!Deliver]_received
  <2> SUFFICES ASSUME RelayInv, ReceivedSoFar', [Next]_vars PROVE [D!Deliver]_received
    OBVIOUS
  <2>1. received' = received \/ \E t \in Seq(Items) : received' = received \o t
    <3>1. ASSUME Write PROVE \E t \in Seq(Items) : received' = received \o t
      <4>1. VideoStream \in Streams /\ put \in Seq(Items) /\ Len(VideoStream.obuf) < SIZE
        BY <3>1 DEF Write, RelayInv, StreamInv, TypeOK, RoomToWrite
      <4>2. PICK o \in Puts(VideoStream, put) : received' = received \o o.sent
        BY <3>1 DEF Write
      <4>3. o.sent \in Seq(Items)
        BY <4>1, PutsPart
      <4> QED
        BY <4>2, <4>3
    <3>2. ASSUME ~Write PROVE received' = received
      BY <3>2 DEF Next, Relay, Segment, Connect, SendRequest, Flush, Underflow,
         ReadFails, StatusLine, HeaderLine, Answer, Copy, Read, ReadDone, WriteDone,
         BrokenPipe, Stop, OriginAnswers, Over, vars
    <3> QED
      BY <3>1, <3>2
  <2>2. ASSUME NEW t \in Seq(Items), received' = received \o t PROVE D!Deliver
    <3>1. received \in Seq(Items)
      BY DEF RelayInv, StreamInv, TypeOK
    <3>2. received' \in Seq(BodyItems) /\ D!InOrder(received')
      BY DEF ReceivedSoFar, D!InOrder, D!Follows
    <3>3. /\ Len(received) \in Nat /\ Len(t) \in Nat /\ Len(received') = Len(received) + Len(t)
      BY <2>2, <3>1, LenProperties, ConcatProperties
    <3>4. SubSeq(received', 1, Len(received)) = received
      BY <2>2, <3>1, SubSeqOfConcat1
    <3> QED
      BY <3>2, <3>3, <3>4 DEF D!Deliver, BodyItems
  <2> QED
    BY <2>1, <2>2
<1> QED
  BY <1>1, <1>2, RelayInvariant, ReceivedInOrder, PTL DEF Spec, Delivers, D!Spec

-----------------------------------------------------------------------------
(* What bounds a session: segments, then the attempts for one and the copy *)
(* of it, then what an attempt or a turn of the copy has still to handle.  *)
Stage(loc) ==
    CASE loc = "segment" -> 0
      [] loc \in {"connect", "request", "status", "headers", "answer"} -> 1
      [] loc \in {"copy", "read", "write"} -> 2
      [] OTHER -> 3

(* In a turn of the copy bytes are read first, unless nothing comes.       *)
Turn ==
    CASE pc = "connect" -> 0 [] pc = "request" -> 1 [] pc = "status" -> 2
      [] pc = "headers" -> 3 [] pc = "answer"  -> 4
      [] pc = "read" /\ TsBuf # <<>> -> 0 [] pc = "write" -> 1 [] pc = "copy" -> 2
      [] pc = "read" /\ TsBuf = <<>> -> 3
      [] OTHER -> 0

ToCome == Len(tsStream.ibuf) + Len(answer)

Fewer ==
    \/ ToCome' = ToCome /\ Len(answer') < Len(answer)
    \/ ToCome' = ToCome /\ answer' = answer /\ Len(put') < Len(put)

Attempts ==
    \/ Turn < Turn'
    \/ Turn' = Turn /\ ~answered /\ answered'
    \/ Turn' = Turn /\ answered' = answered /\ (ToCome' < ToCome \/ Fewer)

Copies ==
    \/ ~tsStream.bad /\ tsStream'.bad
    \/ tsStream'.bad = tsStream.bad /\ ToCome' < ToCome
    \/ tsStream'.bad = tsStream.bad /\ ToCome' = ToCome /\ Turn < Turn'
    \/ tsStream'.bad = tsStream.bad /\ Turn' = Turn /\ Fewer

Advances ==
    \/ readPos < readPos'
    \/ readPos' = readPos /\ Stage(pc) < Stage(pc')
    \/ /\ readPos' = readPos /\ Stage(pc') = Stage(pc)
       /\ \/ att500 < att500'
          \/ att500' = att500 /\ Stage(pc) = 1 /\ Attempts
          \/ att500' = att500 /\ Stage(pc) = 2 /\ Copies

Position == <<readPos, pc, att500, put, TsBuf, tsStream, answer, answered>>

LEMMA DropLength ==
    ASSUME NEW S, NEW s \in Seq(S), s # <<>>, NEW n \in Nat \ {0}
    PROVE  Drop(s, n) \in Seq(S) /\ Len(Drop(s, n)) \in Nat /\ Len(Drop(s, n)) < Len(s)
<1>1. Len(s) \in Nat \ {0}
  BY EmptySeq, LenProperties
<1>2. Drop(s, n) \in Seq(S)
  BY DropSeq
<1>3. /\ n + 1 \in Int /\ Len(s) \in Int /\ \A i \in n + 1 .. Len(s) : s[i] \in S
  BY <1>1, ElementOfSeq
<1>4. Len(Drop(s, n)) = IF n + 1 <= Len(s) THEN Len(s) - (n + 1) + 1 ELSE 0
  BY <1>3, SubSeqProperties DEF Drop
<1> QED
  BY <1>1, <1>2, <1>4

LEMMA TailLength ==
    ASSUME NEW S, NEW s \in Seq(S), s # <<>>
    PROVE  Tail(s) \in Seq(S) /\ Len(Tail(s)) \in Nat /\ Len(Tail(s)) < Len(s)
<1>1. Tail(s) \in Seq(S) /\ Len(Tail(s)) = Len(s) - 1 /\ Len(s) \in Nat /\ Len(Tail(s)) \in Nat
  BY HeadTailProperties, LenProperties
<1> QED
  BY <1>1

(* Each round of xsputn puts something, or drops what is left.             *)
LEMMA PutsShrinks ==
    ASSUME NEW s \in Streams, NEW bytes \in Seq(Items), bytes # <<>>,
           NEW o \in Puts(s, bytes)
    PROVE  /\ o.to.ibuf = s.ibuf /\ o.to.bad \in BOOLEAN
           /\ Len(o.rest) \in Nat /\ Len(o.rest) < Len(bytes)
<1>0. /\ SIZE \in Nat \ {0} /\ s.obuf \in Seq(Items) /\ Len(s.obuf) \in Nat
      /\ Len(bytes) \in Nat \ {0} /\ Len(<<>>) = 0
  BY HlsRelayAssumption, LenProperties, EmptySeq DEF Streams
<1>1. ASSUME NEW ob \in Seq(Items), NEW q \in output_buffer([s EXCEPT !.obuf = ob])
      PROVE  q.to.ibuf = s.ibuf /\ q.to.bad \in BOOLEAN
  <2> DEFINE full == [s EXCEPT !.obuf = ob]
  <2>1. full \in Streams /\ full.ibuf = s.ibuf
    BY DEF Streams
  <2> HIDE DEF full
  <2>2. \E k : \/ q = Outcome([full EXCEPT !.bad = TRUE], k)
               \/ q = Outcome([full EXCEPT !.obuf = <<>>], k)
    BY <1>1 DEF output_buffer, full
  <2>f. ASSUME NEW to, NEW sent, q = Outcome(to, sent) PROVE q.to = to
    BY <2>f DEF Outcome
  <2>3. q.to = [full EXCEPT !.bad = TRUE] \/ q.to = [full EXCEPT !.obuf = <<>>]
    BY <2>2, <2>f
  <2> QED
    BY <2>1, <2>3 DEF Streams
<1>2. CASE Len(s.obuf) + Len(bytes) < SIZE
  <2>1. o = [to |-> [s EXCEPT !.obuf = s.obuf \o bytes], sent |-> <<>>, rest |-> <<>>]
    BY <1>2 DEF Puts
  <2>2. o.to = [s EXCEPT !.obuf = s.obuf \o bytes] /\ o.rest = <<>>
    BY <2>1
  <2>3. o.to.ibuf = s.ibuf /\ o.to.bad = s.bad /\ s.bad \in BOOLEAN
    BY <2>2 DEF Streams
  <2> QED
    BY <1>0, <2>2, <2>3
<1>3. CASE ~(Len(s.obuf) + Len(bytes) < SIZE)
  <2> DEFINE n == IF Len(s.obuf) < SIZE THEN SIZE - Len(s.obuf) ELSE 1
  <2>1. n \in Nat \ {0}
    BY <1>0
  <2>a. n <= Len(bytes)
    BY <1>0, <1>3
  <2>2. PICK q \in output_buffer([s EXCEPT !.obuf = s.obuf \o Take(bytes, n)]) :
           o = [to |-> q.to, sent |-> q.sent,
                rest |-> IF q.to.bad THEN <<>> ELSE Drop(bytes, n)]
    BY <1>3 DEF Puts
  <2> HIDE DEF n
  <2>3. q.to.ibuf = s.ibuf /\ q.to.bad \in BOOLEAN
    <3>1. Take(bytes, n) \in Seq(Items)
      BY <1>0, <2>1, <2>a, SplitSeq
    <3>2. s.obuf \o Take(bytes, n) \in Seq(Items)
      BY <1>0, <3>1, ConcatProperties
    <3> QED
      BY <1>1, <3>2
  <2>4. Len(Drop(bytes, n)) \in Nat /\ Len(Drop(bytes, n)) < Len(bytes)
    BY <2>1, DropLength
  <2> QED
    BY <1>0, <2>2, <2>3, <2>4
<1> QED
  BY <1>2, <1>3

LEMMA RelayAdvances ==
    ASSUME RelayInv, Relay
    PROVE  Advances
<1> USE DEF Advances, Stage
<1>0. /\ tsStream \in Streams /\ VideoStream \in Streams /\ put \in Seq(Items)
      /\ TsBuf \in Seq(Items) /\ answer \in Seq(Items) /\ tsStream.ibuf \in Seq(Items)
      /\ readPos \in Nat /\ att500 \in Nat /\ SIZE \in Nat \ {0}
      /\ Len(answer) \in Nat /\ Len(tsStream.ibuf) \in Nat /\ Len(TsBuf) \in Nat
      /\ Len(<<>>) = 0 /\ tsStream.bad \in BOOLEAN
  <2>1. TypeOK
    BY DEF RelayInv, StreamInv
  <2>2. tsStream.ibuf \in Seq(Items) /\ tsStream.bad \in BOOLEAN
    BY <2>1 DEF TypeOK, Streams
  <2>3. readPos \in Nat /\ att500 \in Nat /\ SIZE \in Nat \ {0}
    BY <2>1, HlsRelayAssumption DEF TypeOK
  <2> QED
    BY <2>1, <2>2, <2>3, LenProperties, EmptySeq DEF TypeOK
<1>1. CASE Segment \/ Connect \/ Flush \/ StatusLine \/ Answer
  <2>1. CASE Segment
    BY <2>1 DEF Segment
  <2>2. CASE Connect
    BY <2>2 DEF Connect, Attempts, Turn
  <2>3. CASE Flush
    BY <2>3 DEF Flush, Attempts, Turn
  <2>4. CASE StatusLine
    BY <2>4 DEF StatusLine, Attempts, Turn
  <2>5. CASE Answer
    BY <1>0, <2>5 DEF Answer
  <2> QED
    BY <1>1, <2>1, <2>2, <2>3, <2>4, <2>5
<1>2. CASE SendRequest
  <2>1. PICK o \in Puts(tsStream, put) : tsStream' = o.to /\ put' = o.rest
    BY <1>2 DEF SendRequest
  <2>2. tsStream'.ibuf = tsStream.ibuf /\ Len(put') < Len(put)
    BY <1>0, <1>2, <2>1, PutsShrinks DEF SendRequest
  <2> QED
    BY <1>2, <2>2 DEF SendRequest, Attempts, Turn, Fewer, ToCome
<1>3. CASE Underflow
  <2>1. PICK n \in 1 .. SIZE :
           /\ n <= Len(answer)
           /\ tsStream' = [tsStream EXCEPT !.ibuf = Take(answer, n)]
           /\ answer' = Drop(answer, n)
    BY <1>3 DEF Underflow
  <2>2. n \in Nat \ {0} /\ answer # <<>>
    BY <1>0, <2>1
  <2>3. /\ Len(Take(answer, n)) = n /\ Len(Drop(answer, n)) \in Nat
        /\ Len(Take(answer, n) \o Drop(answer, n)) = n + Len(Drop(answer, n))
        /\ Take(answer, n) \o Drop(answer, n) = answer
    <3>1. /\ Take(answer, n) \in Seq(Items) /\ Len(Take(answer, n)) = n
          /\ Drop(answer, n) \in Seq(Items) /\ Take(answer, n) \o Drop(answer, n) = answer
      BY <1>0, <2>1, <2>2, SplitSeq
    <3> QED
      BY <3>1, ConcatProperties, LenProperties
  <2>4. tsStream'.ibuf = Take(answer, n) /\ tsStream'.bad = tsStream.bad
    BY <1>0, <2>1 DEF Streams
  <2>5. Len(tsStream.ibuf) = 0
    BY <1>0, <1>3 DEF Underflow
  <2>6. ToCome' = ToCome /\ Len(answer') < Len(answer)
    BY <1>0, <2>1, <2>2, <2>3, <2>4, <2>5 DEF ToCome
  <2>7. UNCHANGED <<pc, TsBuf, readPos, att500, answered>>
    BY <1>3 DEF Underflow
  <2>8. Turn' = Turn
    BY <2>7 DEF Turn
  <2> QED
    BY <1>3, <2>4, <2>6, <2>7, <2>8 DEF Underflow, Reading, Attempts, Copies, Fewer
<1>4. CASE ReadFails
  BY <1>4 DEF ReadFails, Attempts, Turn
<1>5. CASE HeaderLine
  <2>1. tsStream'.ibuf = Tail(tsStream.ibuf)
    BY <1>0, <1>5 DEF HeaderLine, Streams
  <2>2. Len(tsStream'.ibuf) \in Nat /\ Len(tsStream'.ibuf) < Len(tsStream.ibuf)
    BY <1>0, <1>5, <2>1, TailLength DEF HeaderLine
  <2>3. ToCome' < ToCome
    BY <1>0, <1>5, <2>2 DEF HeaderLine, ToCome, origin
  <2>4. pc = "headers" /\ pc' \in {"headers", "answer", "failed"}
        /\ UNCHANGED <<readPos, att500, answered>>
    BY <1>5 DEF HeaderLine, origin
  <2> QED
    BY <2>3, <2>4 DEF Attempts, Turn
<1>6. CASE Copy
  <2>1. CASE pc' = "read"
    BY <1>6, <2>1 DEF Copy, Copies, Turn, ToCome, origin
  <2>2. CASE pc' # "read"
    BY <1>0, <1>6, <2>2 DEF Copy
  <2> QED
    BY <2>1, <2>2
<1>7. CASE Read
  <2>1. tsStream'.ibuf = Drop(tsStream.ibuf, SIZE - Len(TsBuf)) /\ tsStream'.bad = tsStream.bad
    BY <1>0, <1>7 DEF Read, Streams
  <2>2. SIZE - Len(TsBuf) \in Nat \ {0}
    BY <1>0, <1>7 DEF Read
  <2>3. Len(tsStream'.ibuf) \in Nat /\ Len(tsStream'.ibuf) < Len(tsStream.ibuf)
    BY <1>0, <1>7, <2>1, <2>2, DropLength DEF Read
  <2>4. ToCome' < ToCome
    BY <1>0, <1>7, <2>3 DEF Read, ToCome, origin
  <2> QED
    BY <1>7, <2>1, <2>4 DEF Read, Copies
<1>8. CASE ReadDone
  <2>1. CASE Len(TsBuf) = SIZE /\ UNCHANGED tsStream
    <3>1. TsBuf # <<>>
      BY <1>0, <2>1
    <3> QED
      BY <1>8, <2>1, <3>1 DEF ReadDone, Copies, Turn, ToCome, origin
  <2>2. CASE tsStream' = [tsStream EXCEPT !.bad = TRUE]
    <3>1. ~tsStream.bad /\ tsStream'.bad
      BY <1>0, <1>8, <2>2 DEF ReadDone, RelayInv, BodyComes, Streams
    <3> QED
      BY <1>8, <3>1 DEF ReadDone, Copies
  <2> QED
    BY <1>8, <2>1, <2>2 DEF ReadDone
<1>9. CASE Write
  <2>1. PICK o \in Puts(VideoStream, put) : put' = o.rest
    BY <1>9 DEF Write
  <2>2. Len(put') < Len(put)
    BY <1>0, <1>9, <2>1, PutsShrinks DEF Write
  <2> QED
    BY <1>9, <2>2 DEF Write, Copies, Turn, Fewer, ToCome, origin
<1>10. CASE WriteDone
  BY <1>10 DEF WriteDone, Copies, Turn, ToCome, origin
<1>11. CASE BrokenPipe
  BY <1>11 DEF BrokenPipe
<1> QED
  BY <1>1, <1>2, <1>3, <1>4, <1>5, <1>6, <1>7, <1>8, <1>9, <1>10, <1>11 DEF Relay

(* What RelayEnds rests on besides fairness, for segments, buffers and     *)
(* answers of any size: each step of Run takes the session further in a    *)
(* finite order, however its messages are cut and whatever fails, and      *)
(* neither a signal nor the origin sets it back.                           *)
SessionAdvances == (Relay => Advances) /\ (Advances \/ UNCHANGED Position)

THEOREM EveryStepAdvances == Spec => [][SessionAdvances]_vars
<1>1. RelayInv /\ [Next]_vars => [SessionAdvances]_vars
  <2> SUFFICES ASSUME RelayInv, Next PROVE SessionAdvances
    OBVIOUS
  <2>1. Relay => Advances
    BY RelayAdvances
  <2>2. (Stop => UNCHANGED Position) /\ (Over => UNCHANGED Position)
    BY DEF Stop, Over, vars, origin, Position
  <2>3. OriginAnswers => Advances
    BY DEF OriginAnswers, Advances, Stage, Attempts, Turn
  <2> QED
    BY <2>1, <2>2, <2>3 DEF Next, SessionAdvances
<1> QED
  BY <1>1, RelayInvariant, PTL DEF Spec
=============================================================================

------------------------------ MODULE HlsRelay ------------------------------
(***************************************************************************)
(* How hlspxd copies segments to its client, byte by byte: the loop over   *)
(* readPos of VideoViewer::Run (hlspxd/src/videoviewer.cpp) on top of      *)
(* HttpClient::getResponse and of two socketstreams (hlspxd/src/utils.h,   *)
(* utils.cpp, with the patches 100-202): VideoStream to the client and the *)
(* stream of tsClient, which is opened anew for every request.             *)
(*                                                                         *)
(* HlsViewer takes all this as one step, PlaySegment.  A line of a request *)
(* or of a response, and a byte of a body, is one item.  A failed stream is*)
(* bad, whichever of the three bits of iostate is set.  Pacing is left out.*)
(***************************************************************************)
EXTENDS Integers, Sequences

CONSTANTS
    SIZE,            \* socketbuf::SIZE, and TS_BUF_LEN: 752
    ATTEMPTS,        \* connections getResponse makes for one segment: 5
    FlushChecks,     \* does ostream::flush of the library look at the state?
    NumSegments,     \* segments to be played
    RequestLen,      \* items of a request
    BodyLen          \* items of a segment

Segments == 1 .. NumSegments

ASSUME HlsRelayAssumption ==
    /\ SIZE \in Nat \ {0, 1} /\ ATTEMPTS \in Nat \ {0}
    /\ FlushChecks \in BOOLEAN
    /\ NumSegments \in Nat /\ RequestLen \in Nat \ {0} /\ BodyLen \in Nat

VARIABLES
    pc,          \* where Run is
    readPos,     \* the segment in play
    att500,      \* connections made for it
    put,         \* what << or write has not yet put into the buffer
    status, headers,   \* of the response: its status and the headers seen
    TsBuf,       \* the bytes read so far by tsStream.read
    VideoStream, \* the stream to the client: is sock valid, is it bad, obuf
    tsStream,    \* the stream from the origin, with its ibuf
    \* the other ends
    asked,       \* items of the request the origin has got
    answer,      \* what it still has to send
    answered,    \* whether it has answered
    received,    \* bytes the client has got
    \* observed only
    copied       \* bytes read from segments and given to VideoStream.write

response == <<status, headers>>
origin   == <<asked, answer, answered>>
vars     == <<pc, readPos, att500, put, status, headers, TsBuf, VideoStream,
              tsStream, asked, answer, answered, received, copied>>

-----------------------------------------------------------------------------
Take(s, n) == SubSeq(s, 1, n)
Drop(s, n) == SubSeq(s, n + 1, Len(s))

Request  == [i \in 1 .. RequestLen |-> [line |-> i]]
Status(v) == [status |-> v]
Header(h) == [header |-> h]
End       == Header("")
Page      == [text |-> "page"]
Body(seg) == [i \in 1 .. BodyLen |-> [seg |-> seg, n |-> i]]

(* What an origin may answer.  The streams of a segment and of the page    *)
(* that comes with a redirect or an error end with the connection.         *)
Answers(seg) ==
    {<<Status(200), Header("Content-Length"), End>> \o Body(seg),
     <<Status(200), End>> \o Body(seg),
     <<Status(302), Header("Location"), End, Page>>,
     <<Status(302), End>>, <<Status(404), End, Page>>, <<Page>>, <<End>>}

-----------------------------------------------------------------------------
(* socketstream and socketbuf                                              *)

Closed == [open |-> FALSE, bad |-> FALSE, obuf |-> <<>>, ibuf |-> <<>>]
Opened == [Closed EXCEPT !.open = TRUE]

(* Fault: it is enough that the iostream is good.                          *)
good_Stream(s) == ~s.bad

good(s) == s.open /\ ~s.bad

Outcome(s, bytes) == [to |-> s, sent |-> bytes]

(* Faults: whatever send returns is success; what was sent stays.          *)
output_buffer_AnySend(s) ==
    IF ~s.open THEN {Outcome([s EXCEPT !.bad = TRUE], <<>>)}
    ELSE {Outcome([s EXCEPT !.obuf = <<>>], Take(s.obuf, k)) : k \in 0 .. Len(s.obuf)}

output_buffer_NoBump(s) ==
    IF ~s.open THEN {Outcome([s EXCEPT !.bad = TRUE], <<>>)}
    ELSE {Outcome(s, s.obuf)}
         \union {Outcome([s EXCEPT !.bad = TRUE], Take(s.obuf, k)) :
                    k \in {0} \union 1 .. Len(s.obuf) - 1}

(* All is sent; or select times out or is interrupted, or send fails or    *)
(* sends only a part: then nothing leaves obuf.                            *)
output_buffer(s) ==
    IF ~s.open THEN {Outcome([s EXCEPT !.bad = TRUE], <<>>)}
    ELSE {Outcome([s EXCEPT !.obuf = <<>>], s.obuf)}
         \union {Outcome([s EXCEPT !.bad = TRUE], Take(s.obuf, k)) :
                    k \in {0} \union 1 .. Len(s.obuf) - 1}

(* xsputn: fill the buffer up to its last place; overflow takes one more   *)
(* byte into that and sends.  A buffer that is overfull already is written *)
(* beyond its end.                                                         *)
Puts(s, bytes) ==
    LET n == IF Len(s.obuf) < SIZE THEN SIZE - Len(s.obuf) ELSE 1
    IN  IF Len(s.obuf) + Len(bytes) < SIZE
        THEN {[to |-> [s EXCEPT !.obuf = @ \o bytes], sent |-> <<>>, rest |-> <<>>]}
        ELSE {[to |-> o.to, sent |-> o.sent,
               rest |-> IF o.to.bad THEN <<>> ELSE Drop(bytes, n)] :
                 o \in output_buffer([s EXCEPT !.obuf = @ \o Take(bytes, n)])}
-----------------------------------------------------------------------------
Init ==
    /\ pc = "segment" /\ readPos = 1 /\ att500 = 0
    /\ put = <<>> /\ status = 200 /\ headers = {} /\ TsBuf = <<>>
    /\ VideoStream = Opened /\ tsStream = Closed
    /\ asked = <<>> /\ answer = <<>> /\ answered = FALSE
    /\ received = <<>> /\ copied = <<>>

Segment ==
    /\ pc = "segment"
    /\ IF readPos <= NumSegments /\ good(VideoStream)
       THEN pc' = "connect" ELSE pc' = "done"
    /\ att500' = 0
    /\ UNCHANGED <<readPos, put, response, TsBuf, VideoStream, tsStream, origin,
                   received, copied>>

(* connect2Host: the old connection is closed; the addresses of the host   *)
(* are tried one after the other, unless there is none or none answers.    *)
Connect ==
    /\ pc = "connect"
    /\ \/ pc' = "failed" /\ tsStream' = Closed /\ UNCHANGED put
       \/ pc' = "request" /\ tsStream' = Opened /\ put' = Request
    /\ asked' = <<>> /\ answer' = <<>> /\ answered' = FALSE
    /\ UNCHANGED <<readPos, att500, response, TsBuf, VideoStream, received, copied>>

(* _sockstream << "GET ...": nothing more goes into a stream that is bad.  *)
SendRequest ==
    /\ pc = "request" /\ put # <<>>
    /\ \E o \in Puts(tsStream, put) :
          tsStream' = o.to /\ asked' = asked \o o.sent /\ put' = o.rest
    /\ UNCHANGED <<pc, readPos, att500, response, TsBuf, VideoStream, answer,
                   answered, received, copied>>

(* flush(): in older libraries also when the stream is bad, so that the    *)
(* origin can get the same bytes twice.                                    *)
Flush ==
    /\ pc = "request" /\ put = <<>>
    /\ IF tsStream.bad /\ FlushChecks
       THEN UNCHANGED <<tsStream, asked>>
       ELSE \E o \in output_buffer(tsStream) :
               /\ tsStream' = [o.to EXCEPT !.bad = @ \/ tsStream.bad]
               /\ asked' = asked \o o.sent
    /\ pc' = "status"
    /\ UNCHANGED <<readPos, att500, put, response, TsBuf, VideoStream, answer,
                   answered, received, copied>>

-----------------------------------------------------------------------------
(* Reading from the origin                                                 *)

Reading == pc \in {"status", "headers", "read"} /\ ~tsStream.bad

(* underflow() with an empty buffer: recv brings what there is.            *)
Underflow ==
    /\ Reading /\ tsStream.ibuf = <<>>
    /\ pc = "read" => Len(TsBuf) < SIZE
    /\ \E n \in 1 .. SIZE :
          /\ n <= Len(answer)
          /\ tsStream' = [tsStream EXCEPT !.ibuf = Take(answer, n)]
          /\ answer' = Drop(answer, n)
    /\ UNCHANGED <<pc, readPos, att500, put, response, TsBuf, VideoStream, asked,
                   answered, received, copied>>

(* The connection ends or breaks, select times out or is interrupted: the  *)
(* line that is being read may have come in part.                          *)
ReadFails ==
    /\ Reading /\ tsStream.ibuf = <<>>
    /\ tsStream' = [tsStream EXCEPT !.bad = TRUE]
    /\ \/ pc = "status" /\ pc' = "failed" /\ UNCHANGED headers
       \/ pc = "headers" /\ pc' = "failed" /\ UNCHANGED headers
       \/ /\ pc = "headers" /\ pc' = "answer"
          /\ \E h \in SUBSET {"Content-Length", "Location"} :
                headers' = headers \union h
    /\ UNCHANGED <<readPos, att500, put, status, TsBuf, VideoStream, origin,
                   received, copied>>

(* HttpResponse::HttpResponse                                              *)
StatusLine ==
    /\ pc = "status"
    /\ \/ tsStream.bad /\ pc' = "failed" /\ UNCHANGED <<tsStream, response>>
       \/ /\ ~tsStream.bad /\ tsStream.ibuf # <<>>
          /\ tsStream' = [tsStream EXCEPT !.ibuf = Tail(@)]
          /\ LET line == Head(tsStream.ibuf)
             IN  IF "status" \in DOMAIN line
                 THEN pc' = "headers" /\ status' = line.status /\ headers' = {}
                 ELSE pc' = "failed" /\ UNCHANGED response
    /\ UNCHANGED <<readPos, att500, put, TsBuf, VideoStream, origin, received,
                   copied>>

(* HttpMessage::init: up to the empty line.                                *)
HeaderLine ==
    /\ pc = "headers" /\ tsStream.ibuf # <<>>
    /\ tsStream' = [tsStream EXCEPT !.ibuf = Tail(@)]
    /\ LET line == Head(tsStream.ibuf)
       IN  CASE line = End -> pc' = "answer" /\ UNCHANGED headers
             [] "header" \in DOMAIN line /\ line # End ->
                   headers' = headers \union {line.header} /\ UNCHANGED pc
             [] OTHER -> pc' = "failed" /\ UNCHANGED headers
    /\ UNCHANGED <<readPos, att500, put, status, TsBuf, VideoStream, origin,
                   received, copied>>

(* What Run wants of the response.                                         *)
HasSegment == status = 200 /\ "Content-Length" \in headers

(* Fault: a redirect does not count.                                       *)
Answer_Uncounted ==
    /\ pc = "answer"
    /\ pc' = IF status = 302
             THEN IF "Location" \in headers THEN "connect" ELSE "failed"
             ELSE IF HasSegment THEN "copy" ELSE "failed"
    /\ UNCHANGED <<readPos, att500, put, response, TsBuf, VideoStream, tsStream,
                   origin, received, copied>>

(* A redirect is followed, but the last attempt's is the response.         *)
Answer ==
    /\ pc = "answer"
    /\ att500' = att500 + 1
    /\ pc' = IF status = 302
             THEN IF "Location" \in headers /\ att500' < ATTEMPTS
                  THEN "connect" ELSE "failed"
             ELSE IF HasSegment THEN "copy" ELSE "failed"
    /\ UNCHANGED <<readPos, put, response, TsBuf, VideoStream, tsStream, origin,
                   received, copied>>

-----------------------------------------------------------------------------
(* The copy                                                                *)

(* Fault: what the last read has left in TsBuf counts again.               *)
Copy_Stale ==
    /\ pc = "copy"
    /\ IF good(tsStream) /\ good(VideoStream)
       THEN pc' = "read" /\ UNCHANGED readPos
       ELSE pc' = "segment" /\ readPos' = readPos + 1
    /\ UNCHANGED <<att500, put, response, TsBuf, VideoStream, tsStream, origin,
                   received, copied>>

Copy ==
    /\ pc = "copy"
    /\ IF good(tsStream) /\ good(VideoStream)
       THEN pc' = "read" /\ UNCHANGED readPos
       ELSE pc' = "segment" /\ readPos' = readPos + 1
    /\ TsBuf' = <<>>
    /\ UNCHANGED <<att500, put, response, VideoStream, tsStream, origin, received,
                   copied>>

(* tsStream.read: bytes are copied until TsBuf is full.                    *)
Read ==
    /\ pc = "read" /\ tsStream.ibuf # <<>> /\ Len(TsBuf) < SIZE
    /\ LET space == SIZE - Len(TsBuf)
       IN  /\ TsBuf' = TsBuf \o Take(tsStream.ibuf,
                          IF Len(tsStream.ibuf) < space THEN Len(tsStream.ibuf) ELSE space)
           /\ tsStream' = [tsStream EXCEPT !.ibuf = Drop(@, space)]
    /\ UNCHANGED <<pc, readPos, att500, put, response, VideoStream, origin,
                   received, copied>>

(* ... or the stream ends, which leaves what has been read; after an       *)
(* exception gcount() is 0.  VideoStream.write takes it.                   *)
ReadDone ==
    /\ pc = "read"
    /\ \/ Len(TsBuf) = SIZE /\ put' = TsBuf /\ UNCHANGED tsStream
       \/ /\ Len(TsBuf) < SIZE /\ tsStream.ibuf = <<>>
          /\ tsStream' = [tsStream EXCEPT !.bad = TRUE]
          /\ put' \in {TsBuf, <<>>}
    /\ copied' = copied \o put'
    /\ pc' = "write"
    /\ UNCHANGED <<readPos, att500, response, TsBuf, VideoStream, origin, received>>

Write ==
    /\ pc = "write" /\ put # <<>>
    /\ \E o \in Puts(VideoStream, put) :
          VideoStream' = o.to /\ received' = received \o o.sent /\ put' = o.rest
    /\ UNCHANGED <<pc, readPos, att500, response, TsBuf, tsStream, origin, copied>>

WriteDone ==
    /\ pc = "write" /\ put = <<>>
    /\ pc' = "copy"
    /\ UNCHANGED <<readPos, att500, put, response, TsBuf, VideoStream, tsStream,
                   origin, received, copied>>

(* SIGPIPE, when a peer is gone.                                           *)
BrokenPipe ==
    /\ pc \in {"request", "write"}
    /\ pc' = "failed"
    /\ UNCHANGED <<readPos, att500, put, response, TsBuf, VideoStream, tsStream,
                   origin, received, copied>>

Relay ==
    \/ Segment \/ Connect \/ SendRequest \/ Flush
    \/ Underflow \/ ReadFails \/ StatusLine \/ HeaderLine \/ Answer
    \/ Copy \/ Read \/ ReadDone \/ Write \/ WriteDone \/ BrokenPipe

-----------------------------------------------------------------------------
(* SIGHUP at any moment: handle_SIGHUP closes VideoStream, which clears    *)
(* its state, too.                                                         *)
Stop ==
    /\ pc \notin {"done", "failed"}
    /\ VideoStream.open \/ VideoStream.bad
    /\ VideoStream' = [VideoStream EXCEPT !.open = FALSE, !.bad = FALSE]
    /\ UNCHANGED <<pc, readPos, att500, put, response, TsBuf, tsStream, origin,
                   received, copied>>

(* An origin answers once it has got the end of a request; what it tells a *)
(* child that has ended does not matter.                                   *)
OriginAnswers ==
    /\ pc \in {"request", "status"}
    /\ ~answered /\ asked # <<>> /\ asked[Len(asked)] = Request[RequestLen]
    /\ answered' = TRUE
    /\ answer' \in Answers(readPos)
    /\ UNCHANGED <<pc, readPos, att500, put, response, TsBuf, VideoStream, tsStream,
                   asked, received, copied>>

Over == pc \in {"done", "failed"} /\ UNCHANGED vars

Next == Relay \/ Stop \/ OriginAnswers \/ Over
Spec == Init /\ [][Next]_vars

(* The child runs on: select and connect have timeouts.                    *)
FairSpec == Spec /\ WF_vars(Relay)

-----------------------------------------------------------------------------
Locations == {"segment", "connect", "request", "status", "headers", "answer",
              "copy", "read", "write", "done", "failed"}

BodyItems == [seg : Segments, n : 1 .. BodyLen]
Items     == {Status(200), Status(302), Status(404), Page, End,
              Header("Content-Length"), Header("Location")}
             \union [line : 1 .. RequestLen] \union BodyItems
Streams   == [open : BOOLEAN, bad : BOOLEAN, obuf : Seq(Items), ibuf : Seq(Items)]

TypeOK ==
    /\ pc \in Locations
    /\ readPos \in 1 .. NumSegments + 1 /\ att500 \in 0 .. ATTEMPTS
    /\ status \in {200, 302, 404} /\ headers \subseteq {"Content-Length", "Location"}
    /\ VideoStream \in Streams /\ tsStream \in Streams
    /\ \A s \in {put, TsBuf, asked, answer, received, copied} : s \in Seq(Items)
    /\ answered \in BOOLEAN
    /\ pc \in {"connect", "request", "status", "headers", "answer"} => att500 < ATTEMPTS
    /\ pc \notin {"segment", "done", "failed"} => readPos \in Segments

(* As long as the stream to the client is good, no byte of those read is   *)
(* lost, doubled or out of place, wherever the reads and the sends cut     *)
(* them: the client has them or they are on their way.  What is left in    *)
(* obuf at the end, less than SIZE bytes, is all that is never sent.       *)
NothingLost ==
    good(VideoStream) /\ pc # "failed" =>
       /\ copied = received \o VideoStream.obuf \o (IF pc = "write" THEN put ELSE <<>>)
       /\ Len(VideoStream.obuf) < SIZE

(* A stream that is good has room in its buffer, and so has one that is    *)
(* about to be written to, even if a signal has cleared its failure.       *)
RoomToWrite ==
    /\ Len(VideoStream.obuf) <= SIZE /\ Len(tsStream.obuf) <= SIZE
    /\ good(VideoStream) \/ pc = "read" \/ (pc = "write" /\ put # <<>>) =>
          Len(VideoStream.obuf) < SIZE
    /\ pc = "request" /\ (put # <<>> \/ ~tsStream.bad) => Len(tsStream.obuf) < SIZE

(* The request has been sent, is in the buffer or is being put into it; a  *)
(* stream that went bad drops what is left of it.                          *)
RequestInTransit ==
    /\ pc = "request" /\ ~tsStream.bad => asked \o tsStream.obuf \o put = Request
    /\ pc = "request" /\ tsStream.bad => put = <<>>
    /\ pc = "status" /\ ~tsStream.bad => asked = Request

(* A response that is believed answers the request that was made: the      *)
(* origin has got it once and whole, although a request can break off, be  *)
(* sent twice by the flush after it, or be followed by another one.        *)
AnswersRequest ==
    pc \in {"headers", "answer", "copy", "read", "write"} => asked = Request

(* No write ever goes beyond the SIZE bytes of obuf, and nothing is on its *)
(* way twice or not at all.                                                *)
StreamInv ==
    /\ TypeOK /\ RoomToWrite /\ RequestInTransit
    /\ NothingLost /\ AnswersRequest

(* The client gets what Delivery promises: a segment that breaks off, a    *)
(* timeout or a redirect in between never mixes two segments or two        *)
(* responses, not even across the end of a connection.                     *)
D == INSTANCE Delivery WITH Segments <- Segments, Bytes <- 1 .. BodyLen,
                            received <- received
Delivers == D!Spec

(* The inductive invariant behind Delivers.  What is still to come from    *)
(* the origin, as long as its stream is good, is the rest of the response  *)
(* to the request that was made; what has been read of the segments is in  *)
(* order and ends where the rest begins; the client has the first part of  *)
(* it.                                                                     *)
Incoming == tsStream.ibuf \o answer
Got      == copied \o (IF pc = "read" THEN TsBuf ELSE <<>>)

Older(seg) == \A i \in DOMAIN Got : Got[i].seg < seg

ResponseComes ==
    /\ pc \in {"request", "status"} =>
          IF answered THEN Incoming \in Answers(readPos) ELSE Incoming = <<>>
    /\ pc = "headers" /\ ~tsStream.bad /\ status = 200 =>
          Incoming \in {<<Header("Content-Length"), End>> \o Body(readPos),
                        <<End>> \o Body(readPos)}
    /\ pc = "answer" /\ ~tsStream.bad /\ status = 200 => Incoming = Body(readPos)

BodyComes ==
    /\ pc = "read" => ~tsStream.bad
    /\ pc \in {"copy", "read", "write"} /\ ~tsStream.bad =>
          \E k \in 0 .. BodyLen :
             /\ Incoming = Drop(Body(readPos), k)
             /\ IF k = 0 THEN Older(readPos)
                ELSE Got # <<>> /\ Got[Len(Got)] = Body(readPos)[k]

GotInOrder ==
    /\ Got \in Seq(BodyItems) /\ D!InOrder(Got)
    /\ IF pc \in {"segment", "connect", "request", "status", "headers", "answer"}
       THEN Older(readPos) ELSE Older(readPos + 1)

Prefix(s, t) == Len(s) <= Len(t) /\ \A i \in 1 .. Len(s) : s[i] = t[i]

SentIsCopied ==
    /\ pc = "read" \/ (pc = "write" /\ put # <<>>) => ~VideoStream.bad
    /\ Prefix(received, copied)

RelayInv == StreamInv /\ ResponseComes /\ BodyComes /\ GotInOrder /\ SentIsCopied

(* Every segment comes to an end, whole or not, and so does the session:   *)
(* endless redirects and peers that hang do not keep it.                   *)
RelayEnds == <>(pc \in {"done", "failed"})
=============================================================================

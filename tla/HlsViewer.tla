------------------------------ MODULE HlsViewer ------------------------------
(***************************************************************************)
(* One client session of hlspxd (hlspxd/src/videoviewer.cpp with the       *)
(* patches 100-202 applied): VideoViewer::Run reads an HLS playlist, plays *)
(* the segments it has not seen, reads the playlist again, and so on.      *)
(*                                                                         *)
(* Around it are the origin, which publishes segments 1, 2, ... and shows  *)
(* a window of the last of them, possibly from a cache that lags behind,   *)
(* the redirects of its hosts, and the client, which may go away.          *)
(* A URI is the host it names and the segment; everything in a playlist    *)
(* that only reaches the log (MEDIA-SEQUENCE, durations) is left out.      *)
(***************************************************************************)
EXTENDS Integers, Sequences, FiniteSets

CONSTANTS
    MaxSeg,       \* bound of the model: segments ever published
    Window,       \* segments a playlist shows at most
    Lag,          \* how many segments a cached playlist may be behind
    Hosts,        \* hosts that serve the stream
    Home,         \* the host the client asked for
    PlaylistMoves, SegmentsMove,    \* do the hosts redirect?
    Masters       \* what the first playlist can list: sequences of the
                  \* bandwidths of variants; <<>>: it lists segments

Segments == 1 .. MaxSeg
Uris     == [host : Hosts, seg : Segments]

ASSUME HlsViewerAssumption ==
    /\ MaxSeg \in Nat /\ Window \in Nat \ {0} /\ Lag \in Nat
    /\ Home \in Hosts
    /\ PlaylistMoves \in BOOLEAN /\ SegmentsMove \in BOOLEAN
    /\ Masters \subseteq Seq(Nat)

VARIABLES
    pc,           \* where Run is
    quality,      \* SessionQuality
    isHead,       \* the request is HEAD
    variant,      \* the stream selected from the master playlist, 0: none
    VideoUri,     \* its host: where the playlist is read from
    PlayList,     \* the records of the last playlist read
    it,           \* the scan's position in PlayList
    lastTs,       \* segment URI scanned last, in a set; {}: none yet
    uniqts, addedTs, emptCnt, endList, MaxHistLen,
    TsList,       \* URIs seen
    readPos,      \* position in TsList of the segment to play
    good,         \* VideoStream.good()
    \* the surroundings
    Bandwidths,   \* those of the first playlist
    last,         \* the newest segment published
    ended,        \* the origin has added ENDLIST
    client,       \* the client is still connected
    \* observed only
    played        \* segments sent to the client, in order

run    == <<quality, isHead, variant>>
scan   == <<it, lastTs, uniqts, addedTs, endList>>
hist   == <<TsList, MaxHistLen>>
world  == <<Bandwidths, last, ended, client>>
vars   == <<pc, quality, isHead, variant, VideoUri, PlayList, it, lastTs, uniqts,
            addedTs, emptCnt, endList, MaxHistLen, TsList, readPos, good,
            Bandwidths, last, ended, client, played>>

-----------------------------------------------------------------------------
Init ==
    /\ pc = "first"
    /\ quality \in {"high", "medium", "low"} /\ isHead \in BOOLEAN
    /\ variant = 0 /\ VideoUri = Home
    /\ PlayList = <<>> /\ it = 1 /\ lastTs = {}
    /\ uniqts = 0 /\ addedTs = 0 /\ emptCnt = 0 /\ endList = FALSE
    /\ MaxHistLen = 0 /\ TsList = <<>> /\ readPos = 1
    /\ good = TRUE
    /\ Bandwidths \in Masters
    /\ last \in 0 .. MaxSeg /\ ended \in BOOLEAN /\ client = TRUE
    /\ played = <<>>

-----------------------------------------------------------------------------
(* HttpClient::getResponse follows up to five redirects and leaves the     *)
(* final URI in its argument.                                              *)
Reached(host, moves) == IF moves THEN Hosts ELSE {host}

(* What a playlist read from host h can be: the window of the segments up  *)
(* to one not too far behind the newest.                                   *)
Oldest(newest) == IF newest > Window THEN newest - Window + 1 ELSE 1
Shown(newest)  == newest - Oldest(newest) + 1

Records(h, newest) ==
    [k \in 1 .. Shown(newest) |->
        [tag |-> "EXTINF", uri |-> [host |-> h, seg |-> Oldest(newest) + k - 1]]]
    \o (IF ended /\ newest = last THEN <<[tag |-> "ENDLIST"]>> ELSE <<>>)

(* ReadM3U8: the status is not 200, or what comes is not a playlist, or it *)
(* is and its segments, relative to it, are on the host it came from.      *)
ReadM3U8(next) ==
    \/ pc' = "failed" /\ UNCHANGED <<VideoUri, PlayList>>
    \/ \E h \in Reached(VideoUri, PlaylistMoves), newest \in last - Lag .. last :
          /\ newest >= 0
          /\ VideoUri' = h
          /\ PlayList' = Records(h, newest)
          /\ pc' = next

(* The first playlist; its success is what the client is told.             *)
FirstRead ==
    /\ pc = "first"
    /\ ReadM3U8(IF isHead THEN "done" ELSE "select")
    /\ UNCHANGED <<run, scan, hist, emptCnt, readPos, good, world, played>>

(* Fault: the variants are not sorted.                                     *)
AtRank_Unsorted(v, k) == v = k + 1

(* The stream at position k of the variants sorted by bandwidth.           *)
AtRank(v, k) ==
    /\ Cardinality({w \in DOMAIN Bandwidths : Bandwidths[w] < Bandwidths[v]}) <= k
    /\ k < Cardinality({w \in DOMAIN Bandwidths : Bandwidths[w] <= Bandwidths[v]})

SelectStream ==
    LET size == Len(Bandwidths)
    IN  /\ pc = "select"
        /\ \/ /\ size = 0
              /\ pc' = "scan" /\ UNCHANGED <<variant, VideoUri, PlayList>>
           \/ /\ \E v \in DOMAIN Bandwidths : Bandwidths[v] = 0
              /\ pc' = "failed" /\ UNCHANGED <<variant, VideoUri, PlayList>>
           \/ /\ size > 0 /\ \A v \in DOMAIN Bandwidths : Bandwidths[v] # 0
              /\ \E v \in DOMAIN Bandwidths :
                    /\ AtRank(v, CASE quality = "high"   -> size - 1
                                   [] quality = "medium" -> size \div 2
                                   [] quality = "low"    -> 0)
                    /\ variant' = v
              /\ ReadM3U8("scan")
        /\ UNCHANGED <<quality, isHead, scan, hist, emptCnt, readPos, good,
                       world, played>>

-----------------------------------------------------------------------------
(* One turn of the while loop: scan the records, one step each             *)

(* Fault: only the last segment is remembered.                             *)
Seen_Last(uri) == TsList # <<>> /\ TsList[Len(TsList)] = uri

Seen(uri) == \E i \in DOMAIN TsList : TsList[i] = uri

ScanSegment ==
    /\ pc = "scan" /\ it <= Len(PlayList) /\ PlayList[it].tag = "EXTINF"
    /\ LET nts == PlayList[it].uri
       IN  IF lastTs = {nts} THEN UNCHANGED <<lastTs, uniqts, addedTs, TsList>>
           ELSE /\ lastTs' = {nts}
                /\ uniqts' = uniqts + 1
                /\ IF Seen(nts) THEN UNCHANGED <<TsList, addedTs>>
                   ELSE /\ TsList' = Append(TsList, nts)
                        /\ addedTs' = addedTs + 1
    /\ it' = it + 1
    /\ UNCHANGED <<pc, run, VideoUri, PlayList, endList, MaxHistLen, emptCnt,
                   readPos, good, world, played>>

(* An EXTINF without a duration, or with a duration of 0.                  *)
ScanBad ==
    /\ pc = "scan" /\ it <= Len(PlayList) /\ PlayList[it].tag = "EXTINF"
    /\ pc' = "failed"
    /\ UNCHANGED <<run, VideoUri, PlayList, scan, hist, emptCnt, readPos, good,
                   world, played>>

ScanEndList ==
    /\ pc = "scan" /\ it <= Len(PlayList) /\ PlayList[it].tag = "ENDLIST"
    /\ endList' = TRUE
    /\ it' = it + 1
    /\ UNCHANGED <<pc, run, VideoUri, PlayList, lastTs, uniqts, addedTs, hist,
                   emptCnt, readPos, good, world, played>>

(* Faults: the count is off by one; it is not kept.                        *)
NothingNew_OneMore ==
    /\ pc = "scan" /\ it > Len(PlayList) /\ addedTs = 0
    /\ emptCnt' = emptCnt + 1
    /\ pc' = IF emptCnt > 5 THEN "done" ELSE IF lastTs = {} THEN "failed" ELSE "read"
    /\ UNCHANGED <<run, VideoUri, PlayList, scan, hist, readPos, good, world,
                   played>>

NothingNew_Uncounted ==
    /\ pc = "scan" /\ it > Len(PlayList) /\ addedTs = 0
    /\ pc' = IF emptCnt > 4 THEN "done" ELSE IF lastTs = {} THEN "failed" ELSE "read"
    /\ UNCHANGED <<run, VideoUri, PlayList, scan, hist, emptCnt, readPos, good,
                   world, played>>

(* Nothing new: give up at the sixth time in a row, else wait for as long  *)
(* as the last segment plays and read again.                               *)
NothingNew ==
    /\ pc = "scan" /\ it > Len(PlayList) /\ addedTs = 0
    /\ emptCnt' = emptCnt + 1
    /\ pc' = IF emptCnt > 4 THEN "done" ELSE IF lastTs = {} THEN "failed" ELSE "read"
    /\ UNCHANGED <<run, VideoUri, PlayList, scan, hist, readPos, good, world,
                   played>>

(* Fault: the other end is erased.                                         *)
LastOf_Front(list, n) == IF Len(list) > n THEN SubSeq(list, 1, n) ELSE list

LastOf(list, n) ==
    IF Len(list) > n THEN SubSeq(list, Len(list) - n + 1, Len(list)) ELSE list

(* Faults: the history does not grow with the playlist; the walk back over *)
(* what was added ends too early.                                          *)
SomethingNew_NoGrowth ==
    /\ pc = "scan" /\ it > Len(PlayList) /\ addedTs > 0
    /\ emptCnt' = 0 /\ MaxHistLen' = IF MaxHistLen = 0 THEN 1 ELSE MaxHistLen
    /\ TsList' = LastOf(TsList, MaxHistLen')
    /\ readPos' = Len(TsList') + 1 - addedTs
    /\ pc' = "play"
    /\ UNCHANGED <<run, VideoUri, PlayList, scan, good, world, played>>

SomethingNew_SkipOne ==
    /\ pc = "scan" /\ it > Len(PlayList) /\ addedTs > 0
    /\ emptCnt' = 0
    /\ MaxHistLen' = IF uniqts >= MaxHistLen THEN uniqts * 2 ELSE MaxHistLen
    /\ TsList' = LastOf(TsList, MaxHistLen')
    /\ readPos' = Len(TsList') + 2 - addedTs
    /\ pc' = "play"
    /\ UNCHANGED <<run, VideoUri, PlayList, scan, good, world, played>>

(* Something new: forget the oldest of the history, go back over what was  *)
(* added.                                                                  *)
SomethingNew ==
    /\ pc = "scan" /\ it > Len(PlayList) /\ addedTs > 0
    /\ emptCnt' = 0
    /\ MaxHistLen' = IF uniqts >= MaxHistLen THEN uniqts * 2 ELSE MaxHistLen
    /\ TsList' = LastOf(TsList, MaxHistLen')
    /\ readPos' = Len(TsList') + 1 - addedTs
    /\ pc' = "play"
    /\ UNCHANGED <<run, VideoUri, PlayList, scan, good, world, played>>

(* One segment: fetch it, which may leave another URI in its place, and    *)
(* copy it, as much of it as arrives.  A client that has gone makes a      *)
(* write fail or the SIGPIPE of it kill the process.                       *)
PlaySegment ==
    /\ pc = "play" /\ readPos <= Len(TsList) /\ good
    /\ \/ pc' = "failed" /\ UNCHANGED <<TsList, played, good, readPos>>
       \/ /\ \E h \in Reached(TsList[readPos].host, SegmentsMove) :
                TsList' = [TsList EXCEPT ![readPos].host = h]
          /\ IF client THEN /\ played' = Append(played, TsList[readPos].seg)
                            /\ UNCHANGED good
             ELSE good' = FALSE /\ UNCHANGED played
          /\ readPos' = readPos + 1
          /\ UNCHANGED pc
    /\ UNCHANGED <<run, VideoUri, PlayList, scan, MaxHistLen, emptCnt, world>>

(* The segments are played or the client is gone.                          *)
Played ==
    /\ pc = "play" /\ (readPos > Len(TsList) \/ ~good)
    /\ pc' = IF ~good \/ endList THEN "done" ELSE "read"
    /\ UNCHANGED <<run, VideoUri, PlayList, scan, hist, emptCnt, readPos, good,
                   world, played>>

ReadAgain ==
    /\ pc = "read"
    /\ ReadM3U8("scan")
    /\ it' = 1 /\ lastTs' = {} /\ uniqts' = 0 /\ addedTs' = 0
    /\ UNCHANGED <<run, endList, hist, emptCnt, readPos, good, world, played>>

Viewer ==
    \/ FirstRead \/ SelectStream
    \/ ScanSegment \/ ScanBad \/ ScanEndList \/ NothingNew \/ SomethingNew
    \/ PlaySegment \/ Played \/ ReadAgain

-----------------------------------------------------------------------------
Publish ==
    /\ ~ended /\ last < MaxSeg
    /\ last' = last + 1
    /\ UNCHANGED <<pc, run, VideoUri, PlayList, scan, hist, emptCnt, readPos,
                   good, Bandwidths, ended, client, played>>

EndStream ==
    /\ ~ended
    /\ ended' = TRUE
    /\ UNCHANGED <<pc, run, VideoUri, PlayList, scan, hist, emptCnt, readPos,
                   good, Bandwidths, last, client, played>>

ClientLeaves ==
    /\ client
    /\ client' = FALSE
    /\ UNCHANGED <<pc, run, VideoUri, PlayList, scan, hist, emptCnt, readPos,
                   good, Bandwidths, last, ended, played>>

(* SIGHUP: handle_SIGHUP calls Stop, which closes VideoStream.             *)
Stop ==
    /\ good
    /\ good' = FALSE
    /\ UNCHANGED <<pc, run, VideoUri, PlayList, scan, hist, emptCnt, readPos,
                   world, played>>

Over == pc \in {"done", "failed"} /\ UNCHANGED vars

Next == Viewer \/ Publish \/ EndStream \/ ClientLeaves \/ Stop \/ Over
Spec == Init /\ [][Next]_vars

(* The child process runs on; its reads and writes have timeouts.          *)
FairSpec == Spec /\ WF_vars(Viewer)

-----------------------------------------------------------------------------
Locations == {"first", "select", "scan", "play", "read", "done", "failed"}

TypeOK ==
    /\ pc \in Locations
    /\ quality \in {"high", "medium", "low"} /\ isHead \in BOOLEAN
    /\ variant \in {0} \union DOMAIN Bandwidths /\ VideoUri \in Hosts
    /\ PlayList \in Seq([tag : {"EXTINF"}, uri : Uris] \union [tag : {"ENDLIST"}])
    /\ it \in Nat \ {0} /\ lastTs \in SUBSET Uris
    /\ uniqts \in Nat /\ addedTs \in Nat /\ emptCnt \in 0 .. 6
    /\ endList \in BOOLEAN /\ MaxHistLen \in Nat
    /\ TsList \in Seq(Uris) /\ readPos \in Int
    /\ good \in BOOLEAN
    /\ Bandwidths \in Masters
    /\ last \in 0 .. MaxSeg /\ ended \in BOOLEAN /\ client \in BOOLEAN
    /\ played \in Seq(Segments)

(* The walk back from TsList.end() over the added segments never leaves    *)
(* the list, although the front of the list has just been erased.          *)
ReadPosInRange == pc = "play" => readPos \in 1 .. Len(TsList) + 1

(* The inductive invariant behind ReadPosInRange: what a scan has added is *)
(* in the list, and still is after its front has been erased, because the  *)
(* history is never shorter than the playlist.                             *)
ViewerInv ==
    /\ TypeOK
    /\ pc # "done" => emptCnt <= 5
    /\ addedTs <= uniqts /\ addedTs <= Len(TsList)
    /\ ReadPosInRange

WasPlayed(seg) == \E i \in DOMAIN played : played[i] = seg

(* "position of the first unplayed file" (the comment that patch 100 puts  *)
(* at videoviewer.cpp:283): what is still to be played has not been played *)
(* before.  It holds of playlists that never go back and are not           *)
(* redirected; a cache that is one segment behind is enough to break it.   *)
OnlyUnplayed ==
    pc = "play" =>
       \A i \in readPos .. Len(TsList) : ~WasPlayed(TsList[i].seg)

(* The stream that sort and the index pick for a session is the one its    *)
(* --quality or :q asks for: none has more bandwidth than "high" gets,     *)
(* none less than "low" gets, and "medium" gets one between two others, if *)
(* there are three.                                                        *)
QualityHonoured ==
    variant # 0 =>
       LET b == Bandwidths[variant]
           Others == DOMAIN Bandwidths \ {variant}
       IN  CASE quality = "high"   -> \A w \in Others : Bandwidths[w] <= b
             [] quality = "low"    -> \A w \in Others : Bandwidths[w] >= b
             [] quality = "medium" -> Cardinality(Others) >= 2 =>
                   \E v \in Others : \E w \in Others \ {v} :
                      Bandwidths[v] <= b /\ b <= Bandwidths[w]

(* When Run returns with an ended stream and a connected client, the whole *)
(* last playlist has been played.                                          *)
EndedIsComplete ==
    pc = "done" /\ endList /\ good =>
       \A i \in DOMAIN PlayList :
          PlayList[i].tag = "EXTINF" => WasPlayed(PlayList[i].uri.seg)

(* The positions in TsList of what is still to be played.                  *)
Pending ==
    CASE pc = "scan" -> Len(TsList) - addedTs + 1 .. Len(TsList)
      [] pc = "play" -> readPos .. Len(TsList)
      [] OTHER       -> {}

SeenTo(seg) == WasPlayed(seg) \/ \E i \in Pending : TsList[i].seg = seg

(* The inductive invariant behind EndedIsComplete: as long as the client   *)
(* listens, what is in the history or was scanned has been played or is    *)
(* pending, and a turn of the loop scans the whole playlist.               *)
CompleteInv ==
    /\ pc \in {"first", "select"} => it = 1 /\ ~endList
    /\ pc \in {"play", "read"} \/ (pc = "done" /\ endList) => it > Len(PlayList)
    /\ good /\ pc # "failed" =>
          /\ \A i \in DOMAIN TsList : SeenTo(TsList[i].seg)
          /\ \A uri \in lastTs : SeenTo(uri.seg)
          /\ \A k \in DOMAIN PlayList :
                k < it /\ PlayList[k].tag = "EXTINF" => SeenTo(PlayList[k].uri.seg)

(* The inductive invariant behind OnlyUnplayed and PlaysInOrder, for       *)
(* playlists that never go back (Lag = 0) and are not redirected.  The     *)
(* last playlist showed the segments up to n, and the end of TsList is     *)
(* made of those of them that have been seen, with no gap: erasing its     *)
(* front leaves MaxHistLen elements, never fewer than a playlist shows.    *)
Newest == IF TsList = <<>> THEN 0 ELSE TsList[Len(TsList)].seg

Shows(n) ==
    /\ Shown(n) <= Len(PlayList)
    /\ \A k \in DOMAIN PlayList :
          IF k <= Shown(n)
          THEN PlayList[k] = [tag |-> "EXTINF",
                              uri |-> [host |-> Home, seg |-> Oldest(n) + k - 1]]
          ELSE PlayList[k].tag = "ENDLIST"

Scanned(n) ==
    LET c == IF it <= Shown(n) THEN it - 1 ELSE Shown(n)
    IN  /\ uniqts = c
        /\ lastTs = IF c = 0 THEN {} ELSE {[host |-> Home, seg |-> Oldest(n) + c - 1]}
        /\ c > 0 => Oldest(n) + c - 1 <= Newest

Remembers(n) ==
    /\ Newest <= n
    /\ \A d \in 0 .. Newest - Oldest(n) :
          d < Len(TsList) /\ TsList[Len(TsList) - d].seg = Newest - d

ListSorted ==
    /\ \A i \in DOMAIN TsList : TsList[i].host = Home
    /\ \A i, j \in DOMAIN TsList : i < j => TsList[i].seg < TsList[j].seg

PendingIsNew ==
    /\ \A j \in DOMAIN played : played[j] <= Newest
    /\ \A i \in Pending, j \in DOMAIN played : played[j] < TsList[i].seg

InOrderInv ==
    /\ VideoUri = Home
    /\ pc \in {"first", "select"} =>
          TsList = <<>> /\ it = 1 /\ uniqts = 0 /\ addedTs = 0 /\ lastTs = {}
    /\ ListSorted /\ PendingIsNew
    /\ \E n \in 0 .. last : Shows(n) /\ Remembers(n) /\ (pc = "scan" => Scanned(n))

LiveInv == ViewerInv /\ CompleteInv /\ InOrderInv

(* The session of a client that has gone, or that SIGHUP has stopped, ends *)
(* although the stream is only looked at while a segment is being played.  *)
SessionEnds == (~client \/ ~good) ~> pc \in {"done", "failed"}

(* The segments go to the client as Playback promises.                     *)
P == INSTANCE Playback WITH MaxSeg <- MaxSeg, last <- last, played <- played
PlaysInOrder == P!Spec
=============================================================================

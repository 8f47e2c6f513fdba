--------------------------- MODULE HlsViewer_proofs ---------------------------
(* Proofs about HlsViewer, for streams and playlists of any length, caches *)
(* of any age and hosts that redirect or not.                              *)
EXTENDS HlsViewer, SequenceTheorems, FiniteSetTheorems, TLAPS

PlRecords == [tag : {"EXTINF"}, uri : Uris] \union [tag : {"ENDLIST"}]

(* Pruning keeps the last n elements, or all if there are fewer.           *)
LEMMA LastOfList ==
    ASSUME NEW S, NEW list \in Seq(S), NEW n \in Nat
    PROVE  /\ LastOf(list, n) \in Seq(S)
           /\ Len(LastOf(list, n)) = IF Len(list) > n THEN n ELSE Len(list)
           /\ \A i \in 1 .. Len(LastOf(list, n)) :
                 LastOf(list, n)[i] = list[i + (Len(list) - Len(LastOf(list, n)))]
<1>1. CASE Len(list) > n
  <2>1. /\ Len(list) \in Nat /\ Len(list) - n + 1 \in Int
        /\ \A i \in Len(list) - n + 1 .. Len(list) : list[i] \in S
    BY <1>1, LenProperties, ElementOfSeq
  <2> DEFINE tail == SubSeq(list, Len(list) - n + 1, Len(list))
  <2>2. /\ tail \in Seq(S)
        /\ Len(tail) = IF Len(list) - n + 1 <= Len(list)
                       THEN Len(list) - (Len(list) - n + 1) + 1 ELSE 0
        /\ \A i \in 1 .. Len(list) - (Len(list) - n + 1) + 1 :
              tail[i] = list[Len(list) - n + 1 + i - 1]
    BY <2>1, SubSeqProperties
  <2>3. Len(tail) = n
    BY <2>1, <2>2
  <2>4. ASSUME NEW i \in 1 .. n
        PROVE  tail[i] = list[i + (Len(list) - n)]
    <3>1. tail[i] = list[Len(list) - n + 1 + i - 1]
      BY <2>1, <2>2
    <3>2. Len(list) - n + 1 + i - 1 = i + (Len(list) - n)
      BY <2>1
    <3> QED
      BY <3>1, <3>2
  <2> QED
    BY <1>1, <2>2, <2>3, <2>4 DEF LastOf
<1>2. CASE ~(Len(list) > n)
  <2>1. Len(list) \in Nat
    BY LenProperties
  <2> QED
    BY <1>2, <2>1 DEF LastOf
<1> QED
  BY <1>1, <1>2

LEMMA FunctionIsSeq ==
    ASSUME NEW S, NEW n \in Nat, NEW f \in [1 .. n -> S]
    PROVE  f \in Seq(S)
  BY SeqDef

LEMMA ShownNumbers ==
    ASSUME NEW n \in Nat
    PROVE  /\ Oldest(n) \in Nat \ {0} /\ Shown(n) \in Nat
           /\ Oldest(n) + Shown(n) = n + 1
           /\ \A m \in Nat : n <= m => Oldest(n) <= Oldest(m)
  BY HlsViewerAssumption DEF Oldest, Shown

(* What an origin serves is a playlist.                                    *)
LEMMA RecordsType ==
    ASSUME TypeOK, NEW h \in Hosts, NEW newest \in last - Lag .. last, newest >= 0
    PROVE  /\ Records(h, newest) \in Seq(PlRecords)
           /\ Shown(newest) <= Len(Records(h, newest))
           /\ \A k \in DOMAIN Records(h, newest) :
                 IF k <= Shown(newest)
                 THEN Records(h, newest)[k]
                         = [tag |-> "EXTINF",
                            uri |-> [host |-> h, seg |-> Oldest(newest) + k - 1]]
                 ELSE Records(h, newest)[k].tag = "ENDLIST"
<1> DEFINE size == Shown(newest)
           window == [k \in 1 .. size |->
                        [tag |-> "EXTINF", uri |-> [host |-> h, seg |-> Oldest(newest) + k - 1]]]
           end == IF ended /\ newest = last THEN <<[tag |-> "ENDLIST"]>> ELSE <<>>
<1>1. newest \in 0 .. MaxSeg
  BY HlsViewerAssumption DEF TypeOK
<1>2. size \in Nat /\ Oldest(newest) \in Nat \ {0} /\ Oldest(newest) + size = newest + 1
  BY <1>1, ShownNumbers
<1>3. ASSUME NEW k \in 1 .. size
      PROVE  [tag |-> "EXTINF", uri |-> [host |-> h, seg |-> Oldest(newest) + k - 1]] \in PlRecords
  <2>1. Oldest(newest) + k - 1 \in Segments
    BY <1>1, <1>2, HlsViewerAssumption DEF Segments
  <2> QED
    BY <2>1 DEF PlRecords, Uris
<1>4. window \in [1 .. size -> PlRecords]
  BY <1>3
<1>5. window \in Seq(PlRecords) /\ Len(window) = size
  <2>1. DOMAIN window = 1 .. size
    OBVIOUS
  <2> HIDE DEF window, size
  <2>2. window \in Seq(PlRecords)
    BY <1>2, <1>4, FunctionIsSeq
  <2> QED
    BY <1>2, <2>1, <2>2, LenProperties
<1>6. end \in Seq(PlRecords) /\ (end = <<>> \/ end = <<[tag |-> "ENDLIST"]>>)
  <2>1. [tag |-> "ENDLIST"] \in PlRecords
    BY DEF PlRecords
  <2> QED
    BY <2>1, EmptySeq
<1>7. /\ window \o end \in Seq(PlRecords) /\ Len(window \o end) = size + Len(end)
      /\ \A k \in 1 .. size + Len(end) :
            (window \o end)[k] = IF k <= size THEN window[k] ELSE end[k - size]
  <2> HIDE DEF window, size, end
  <2> QED
    BY <1>5, <1>6, ConcatProperties
<1>8. \A k \in 1 .. Len(end) : end[k] = [tag |-> "ENDLIST"]
  BY <1>6
<1>9. Len(end) \in Nat
  BY <1>6, LenProperties
<1>10. \A k \in 1 .. size : window[k] = [tag |-> "EXTINF",
                                       uri |-> [host |-> h, seg |-> Oldest(newest) + k - 1]]
  OBVIOUS
<1>11. Records(h, newest) = window \o end
  BY DEF Records
<1>12. DOMAIN Records(h, newest) = 1 .. size + Len(end)
  <2> HIDE DEF window, size, end
  <2> QED
    BY <1>7, <1>11, LenProperties
<1>13. ASSUME NEW k \in DOMAIN Records(h, newest)
       PROVE  IF k <= size
              THEN Records(h, newest)[k]
                      = [tag |-> "EXTINF",
                         uri |-> [host |-> h, seg |-> Oldest(newest) + k - 1]]
              ELSE Records(h, newest)[k].tag = "ENDLIST"
  <2> HIDE DEF window, size, end
  <2>1. CASE k <= size
    BY <1>2, <1>7, <1>9, <1>10, <1>11, <1>12, <2>1
  <2>2. CASE ~(k <= size)
    <3>1. k - size \in 1 .. Len(end) /\ k \in 1 .. size + Len(end)
      BY <1>2, <1>9, <1>12, <2>2
    <3>2. Records(h, newest)[k] = end[k - size]
      BY <1>7, <1>11, <2>2, <3>1
    <3> QED
      BY <1>8, <2>2, <3>1, <3>2
  <2> QED
    BY <2>1, <2>2
<1>14. Shown(newest) <= Len(Records(h, newest))
  <2> HIDE DEF window, end
  <2> QED
    BY <1>2, <1>7, <1>9, <1>11
<1> QED
  BY <1>7, <1>11, <1>13, <1>14

(* Reading a playlist, for whatever comes next.                            *)
LEMMA ReadStep ==
    ASSUME TypeOK, NEW next \in Locations, ReadM3U8(next)
    PROVE  /\ VideoUri' \in Hosts /\ PlayList' \in Seq(PlRecords)
           /\ pc' \in {"failed", next}
<1>1. CASE pc' = "failed" /\ UNCHANGED <<VideoUri, PlayList>>
  BY <1>1 DEF TypeOK, PlRecords
<1>2. CASE pc' # "failed" \/ ~UNCHANGED <<VideoUri, PlayList>>
  <2>1. PICK h \in Reached(VideoUri, PlaylistMoves), newest \in last - Lag .. last :
           newest >= 0 /\ VideoUri' = h /\ PlayList' = Records(h, newest) /\ pc' = next
    BY <1>2 DEF ReadM3U8
  <2>2. h \in Hosts
    BY DEF TypeOK, Reached
  <2> QED
    BY <2>1, <2>2, RecordsType
<1> QED
  BY <1>1, <1>2

-----------------------------------------------------------------------------
LEMMA InvInit == Init => ViewerInv
<1> SUFFICES ASSUME Init PROVE ViewerInv
  OBVIOUS
<1>1. /\ <<>> \in Seq([tag : {"EXTINF"}, uri : Uris] \union [tag : {"ENDLIST"}])
      /\ <<>> \in Seq(Uris) /\ <<>> \in Seq(Segments) /\ Len(<<>>) = 0
  BY EmptySeq
<1>2. TypeOK
  <2>1. /\ PlayList \in Seq([tag : {"EXTINF"}, uri : Uris] \union [tag : {"ENDLIST"}])
        /\ TsList \in Seq(Uris) /\ played \in Seq(Segments)
    BY <1>1 DEF Init
  <2>2. /\ pc \in Locations /\ variant = 0 /\ VideoUri \in Hosts /\ it = 1
        /\ lastTs \in SUBSET Uris
    BY HlsViewerAssumption DEF Init, Locations
  <2>3. /\ quality \in {"high", "medium", "low"} /\ isHead \in BOOLEAN
        /\ uniqts = 0 /\ addedTs = 0 /\ emptCnt = 0 /\ endList \in BOOLEAN
        /\ MaxHistLen = 0 /\ readPos = 1 /\ good \in BOOLEAN
    BY DEF Init
  <2>4. /\ Bandwidths \in Masters /\ last \in 0 .. MaxSeg
        /\ ended \in BOOLEAN /\ client \in BOOLEAN
    BY DEF Init
  <2> QED
    BY <2>1, <2>2, <2>3, <2>4 DEF TypeOK
<1> QED
  BY <1>1, <1>2 DEF Init, ViewerInv, ReadPosInRange

LEMMA InvStep == ViewerInv /\ [Next]_vars => ViewerInv'
<1> SUFFICES ASSUME ViewerInv, [Next]_vars PROVE ViewerInv'
  OBVIOUS
<1>t. TypeOK
  BY DEF ViewerInv
<1>i. addedTs \in Nat /\ uniqts \in Nat /\ Len(TsList) \in Nat /\ emptCnt \in 0 .. 6
  BY <1>t, LenProperties DEF TypeOK
<1>1. CASE FirstRead
  <2>1. /\ VideoUri' \in Hosts /\ PlayList' \in Seq(PlRecords)
        /\ pc' \in {"failed", "done", "select"}
    BY <1>1, <1>t, ReadStep DEF FirstRead, Locations
  <2>2. TypeOK'
    BY <1>1, <1>t, <2>1 DEF FirstRead, TypeOK, PlRecords, Locations, run, scan, hist, world
  <2> QED
    BY <1>1, <2>1, <2>2 DEF FirstRead, ViewerInv, ReadPosInRange, run, scan, hist, world
<1>2. CASE SelectStream
  <2>1. /\ VideoUri' \in Hosts /\ PlayList' \in Seq(PlRecords)
        /\ variant' \in {0} \union DOMAIN Bandwidths /\ pc' \in {"failed", "scan"}
    <3>1. CASE UNCHANGED <<variant, VideoUri, PlayList>> /\ pc' \in {"failed", "scan"}
      BY <1>t, <3>1 DEF TypeOK, PlRecords
    <3>2. CASE ReadM3U8("scan") /\ variant' \in DOMAIN Bandwidths
      BY <1>t, <3>2, ReadStep DEF Locations
    <3> QED
      BY <1>2, <3>1, <3>2 DEF SelectStream
  <2>2. TypeOK'
    BY <1>2, <1>t, <2>1 DEF SelectStream, TypeOK, PlRecords, Locations, scan, hist, world
  <2> QED
    BY <1>2, <2>1, <2>2 DEF SelectStream, ViewerInv, ReadPosInRange, scan, hist, world
<1>3. CASE ScanSegment
  <2> DEFINE nts == PlayList[it].uri
  <2>1. nts \in Uris
    <3>1. it \in 1 .. Len(PlayList) /\ PlayList \in Seq(PlRecords)
      BY <1>3, <1>t, LenProperties DEF ScanSegment, TypeOK, PlRecords
    <3>2. PlayList[it] \in PlRecords /\ PlayList[it].tag = "EXTINF"
      BY <1>3, <3>1, ElementOfSeq DEF ScanSegment
    <3> QED
      BY <3>2 DEF PlRecords
  <2>2. /\ it' \in Nat \ {0} /\ lastTs' \in SUBSET Uris
        /\ uniqts' \in Nat /\ addedTs' \in Nat /\ TsList' \in Seq(Uris)
        /\ addedTs' <= uniqts' /\ addedTs' <= Len(TsList')
    <3>1. it' \in Nat \ {0}
      BY <1>3, <1>t DEF ScanSegment, TypeOK
    <3>2. CASE UNCHANGED <<lastTs, uniqts, addedTs, TsList>>
      BY <1>t, <3>1, <3>2 DEF ViewerInv, TypeOK
    <3>3. CASE /\ lastTs' = {nts} /\ uniqts' = uniqts + 1
               /\ UNCHANGED <<TsList, addedTs>>
      BY <1>t, <1>i, <2>1, <3>1, <3>3 DEF ViewerInv, TypeOK
    <3>4. CASE /\ lastTs' = {nts} /\ uniqts' = uniqts + 1
               /\ TsList' = Append(TsList, nts) /\ addedTs' = addedTs + 1
      <4>1. TsList' \in Seq(Uris) /\ Len(TsList') = Len(TsList) + 1
        BY <1>t, <2>1, <3>4 DEF TypeOK
      <4> QED
        BY <1>i, <2>1, <3>1, <3>4, <4>1 DEF ViewerInv
    <3> QED
      BY <1>3, <3>2, <3>3, <3>4 DEF ScanSegment
  <2>3. TypeOK'
    BY <1>3, <1>t, <2>2 DEF ScanSegment, TypeOK, run, world
  <2> QED
    BY <1>3, <2>2, <2>3 DEF ScanSegment, ViewerInv, ReadPosInRange
<1>4. CASE ScanBad
  <2>1. TypeOK'
    BY <1>4, <1>t DEF ScanBad, TypeOK, Locations, run, scan, hist, world
  <2> QED
    BY <1>4, <2>1 DEF ScanBad, ViewerInv, ReadPosInRange, scan, hist
<1>5. CASE ScanEndList
  <2>1. TypeOK'
    BY <1>5, <1>t DEF ScanEndList, TypeOK, run, hist, world
  <2> QED
    BY <1>5, <2>1 DEF ScanEndList, ViewerInv, ReadPosInRange, hist
<1>6. CASE NothingNew
  <2>1. emptCnt <= 5
    BY <1>6 DEF NothingNew, ViewerInv
  <2>2. /\ emptCnt' \in 0 .. 6 /\ pc' \in {"done", "failed", "read"}
        /\ pc' # "done" => emptCnt' <= 5
    BY <1>6, <1>i, <2>1 DEF NothingNew
  <2>3. TypeOK'
    BY <1>6, <1>t, <2>2 DEF NothingNew, TypeOK, Locations, run, scan, hist, world
  <2> QED
    BY <1>6, <2>2, <2>3 DEF NothingNew, ViewerInv, ReadPosInRange, scan, hist
<1>7. CASE SomethingNew
  <2>1. MaxHistLen' \in Nat /\ addedTs <= MaxHistLen' /\ addedTs > 0
    BY <1>7, <1>t, <1>i DEF SomethingNew, ViewerInv, TypeOK
  <2>2. /\ TsList' \in Seq(Uris)
        /\ Len(TsList') = IF Len(TsList) > MaxHistLen' THEN MaxHistLen' ELSE Len(TsList)
    BY <1>7, <1>t, <2>1, LastOfList DEF SomethingNew, TypeOK
  <2>3. Len(TsList') \in Nat /\ addedTs <= Len(TsList')
    BY <1>i, <2>1, <2>2 DEF ViewerInv
  <2>4. readPos' \in Int /\ readPos' \in 1 .. Len(TsList') + 1
    BY <1>7, <1>i, <2>1, <2>3 DEF SomethingNew
  <2>5. TypeOK'
    BY <1>7, <1>t, <2>1, <2>2, <2>4 DEF SomethingNew, TypeOK, Locations, run, scan, world
  <2> QED
    BY <1>7, <2>3, <2>4, <2>5 DEF SomethingNew, ViewerInv, ReadPosInRange, scan
<1>8. CASE PlaySegment
  <2>1. CASE pc' = "failed" /\ UNCHANGED <<TsList, played, good, readPos>>
    <3>1. TypeOK'
      BY <1>8, <1>t, <2>1 DEF PlaySegment, TypeOK, Locations, run, scan, world
    <3> QED
      BY <1>8, <2>1, <3>1 DEF PlaySegment, ViewerInv, ReadPosInRange, scan
  <2>2. CASE pc' # "failed" \/ ~UNCHANGED <<TsList, played, good, readPos>>
    <3>1. PICK h \in Reached(TsList[readPos].host, SegmentsMove) :
             TsList' = [TsList EXCEPT ![readPos].host = h]
      BY <1>8, <2>2 DEF PlaySegment
    <3>2. /\ readPos' = readPos + 1 /\ pc' = pc
          /\ \/ played' = Append(played, TsList[readPos].seg) /\ good' = good
             \/ good' = FALSE /\ played' = played
      BY <1>8, <2>2 DEF PlaySegment
    <3>3. readPos \in 1 .. Len(TsList)
      BY <1>8, <1>i DEF PlaySegment, ViewerInv, ReadPosInRange
    <3>4. TsList[readPos] \in Uris
      BY <1>t, <3>3, ElementOfSeq DEF TypeOK
    <3>5. h \in Hosts
      BY <3>4 DEF Reached, Uris
    <3>6. [TsList[readPos] EXCEPT !.host = h] \in Uris
      BY <3>4, <3>5 DEF Uris
    <3>7. TsList' = [TsList EXCEPT ![readPos] = [TsList[readPos] EXCEPT !.host = h]]
      BY <3>1
    <3>8. TsList' \in Seq(Uris) /\ Len(TsList') = Len(TsList)
      BY <1>t, <3>3, <3>6, <3>7, ExceptSeq DEF TypeOK
    <3>9. played' \in Seq(Segments) /\ good' \in BOOLEAN
      <4>1. played \in Seq(Segments) /\ TsList[readPos].seg \in Segments
        BY <1>t, <3>4 DEF TypeOK, Uris
      <4>2. Append(played, TsList[readPos].seg) \in Seq(Segments)
        BY <4>1
      <4>3. good \in BOOLEAN
        BY <1>t DEF TypeOK
      <4> QED
        BY <3>2, <4>1, <4>2, <4>3
    <3>10. readPos' \in 1 .. Len(TsList') + 1
      BY <1>i, <3>2, <3>3, <3>8
    <3>11. TypeOK'
      BY <1>8, <1>t, <3>2, <3>8, <3>9, <3>10 DEF PlaySegment, TypeOK, run, scan, world
    <3> QED
      BY <1>8, <3>2, <3>8, <3>10, <3>11 DEF PlaySegment, ViewerInv, ReadPosInRange, scan
  <2> QED
    BY <2>1, <2>2
<1>9. CASE Played
  <2>1. TypeOK' /\ pc' \in {"done", "read"}
    BY <1>9, <1>t DEF Played, TypeOK, Locations, run, scan, hist, world
  <2> QED
    BY <1>9, <2>1 DEF Played, ViewerInv, ReadPosInRange, scan, hist
<1>10. CASE ReadAgain
  <2>1. /\ VideoUri' \in Hosts /\ PlayList' \in Seq(PlRecords)
        /\ pc' \in {"failed", "scan"}
    BY <1>10, <1>t, ReadStep DEF ReadAgain, Locations
  <2>2. TypeOK'
    BY <1>10, <1>t, <2>1 DEF ReadAgain, TypeOK, PlRecords, Locations, run, hist, world
  <2> QED
    BY <1>10, <1>i, <2>1, <2>2 DEF ReadAgain, ViewerInv, ReadPosInRange, hist
<1>11. CASE Publish \/ EndStream \/ ClientLeaves \/ Stop
  <2>1. TypeOK'
    <3>1. last' \in 0 .. MaxSeg
      BY <1>11, <1>t, HlsViewerAssumption
      DEF Publish, EndStream, ClientLeaves, Stop, TypeOK, world
    <3>2. ended' \in BOOLEAN /\ client' \in BOOLEAN /\ good' \in BOOLEAN
      BY <1>11, <1>t DEF Publish, EndStream, ClientLeaves, Stop, TypeOK, world
    <3>3. UNCHANGED <<pc, run, VideoUri, PlayList, scan, hist, emptCnt, readPos,
                      Bandwidths, played>>
      BY <1>11 DEF Publish, EndStream, ClientLeaves, Stop, world
    <3> QED
      BY <1>t, <3>1, <3>2, <3>3 DEF TypeOK, run, scan, hist
  <2> QED
    BY <1>11, <2>1 DEF Publish, EndStream, ClientLeaves, Stop, ViewerInv, ReadPosInRange,
       scan, hist
<1>12. CASE UNCHANGED vars
  <2>1. TypeOK'
    BY <1>12, <1>t DEF vars, TypeOK
  <2> QED
    BY <1>12, <2>1 DEF vars, ViewerInv, ReadPosInRange
<1> QED
  BY <1>1, <1>2, <1>3, <1>4, <1>5, <1>6, <1>7, <1>8, <1>9, <1>10, <1>11, <1>12
  DEF Next, Viewer, Over

(* The history is at least as long as what a scan adds to it.              *)
THEOREM Invariant == Spec => []ViewerInv
  BY InvInit, InvStep, PTL DEF Spec

(* The walk back over the added segments stays inside TsList, whatever the *)
(* lengths of playlists and history, and playing never leaves it.          *)
THEOREM WalkStaysInside == Spec => []ReadPosInRange
<1>1. ViewerInv => ReadPosInRange
  BY DEF ViewerInv
<1> QED
  BY <1>1, Invariant, PTL
-----------------------------------------------------------------------------
(* An ended stream is played to its end.                                   *)

(* What had been seen to still is, if nothing that was played is forgotten *)
(* and what was pending has been played or is pending.                     *)
LEMMA SeenToKept ==
    ASSUME \A seg : WasPlayed(seg) => WasPlayed(seg)',
           \A i \in Pending : \A seg : TsList[i].seg = seg => SeenTo(seg)'
    PROVE  \A seg : SeenTo(seg) => SeenTo(seg)'
  BY DEF SeenTo

LEMMA SeenToUnchanged ==
    ASSUME UNCHANGED <<TsList, played>>, Pending \subseteq Pending'
    PROVE  \A seg : SeenTo(seg) => SeenTo(seg)'
  BY DEF SeenTo, WasPlayed

LEMMA AppendList ==
    ASSUME NEW S, NEW list \in Seq(S), NEW e \in S
    PROVE  /\ Append(list, e) \in Seq(S) /\ Len(Append(list, e)) = Len(list) + 1
           /\ \A i \in 1 .. Len(list) : Append(list, e)[i] = list[i]
           /\ Append(list, e)[Len(list) + 1] = e
  BY AppendProperties

(* Where a list ends.                                                      *)
LEMMA ListDomains ==
    ASSUME TypeOK
    PROVE  /\ Len(TsList) \in Nat /\ DOMAIN TsList = 1 .. Len(TsList)
           /\ Len(PlayList) \in Nat /\ DOMAIN PlayList = 1 .. Len(PlayList)
           /\ Len(played) \in Nat /\ DOMAIN played = 1 .. Len(played)
           /\ TsList \in Seq(Uris) /\ played \in Seq(Segments)
           /\ PlayList \in Seq(PlRecords)
           /\ it \in Nat \ {0} /\ addedTs \in Nat /\ readPos \in Int
  BY LenProperties DEF TypeOK, PlRecords

(* Erasing the front of the history leaves what was pending in place,      *)
(* counted from the end.                                                   *)
LEMMA Pruned ==
    ASSUME ViewerInv, SomethingNew
    PROVE  /\ MaxHistLen' \in Nat /\ uniqts <= MaxHistLen' /\ addedTs > 0
           /\ TsList' \in Seq(Uris) /\ Len(TsList') \in Nat /\ DOMAIN TsList' = 1 .. Len(TsList')
           /\ Len(TsList') = IF Len(TsList) > MaxHistLen' THEN MaxHistLen' ELSE Len(TsList)
           /\ addedTs <= Len(TsList') /\ Len(TsList') <= Len(TsList)
           /\ \A i \in 1 .. Len(TsList') :
                 TsList'[i] = TsList[i + (Len(TsList) - Len(TsList'))]
           /\ Pending' = Len(TsList') - addedTs + 1 .. Len(TsList')
<1>t. TypeOK /\ addedTs <= uniqts /\ addedTs <= Len(TsList)
  BY DEF ViewerInv
<1>d. Len(TsList) \in Nat /\ TsList \in Seq(Uris) /\ addedTs \in Nat /\ uniqts \in Nat
  BY <1>t, ListDomains DEF TypeOK
<1>1. MaxHistLen' \in Nat /\ uniqts <= MaxHistLen' /\ addedTs > 0
  BY <1>t, <1>d DEF SomethingNew, TypeOK
<1>2. TsList' = LastOf(TsList, MaxHistLen')
  BY DEF SomethingNew
<1>3. /\ TsList' \in Seq(Uris)
      /\ Len(TsList') = IF Len(TsList) > MaxHistLen' THEN MaxHistLen' ELSE Len(TsList)
      /\ \A i \in 1 .. Len(TsList') : TsList'[i] = TsList[i + (Len(TsList) - Len(TsList'))]
  BY <1>1, <1>2, <1>d, LastOfList
<1>4. addedTs <= Len(TsList') /\ Len(TsList') <= Len(TsList)
  BY <1>1, <1>3, <1>d, <1>t
<1>5. Len(TsList') \in Nat /\ DOMAIN TsList' = 1 .. Len(TsList')
  BY <1>3, LenProperties
<1>6. Pending' = readPos' .. Len(TsList') /\ readPos' = Len(TsList') + 1 - addedTs
  BY DEF Pending, SomethingNew
<1>7. readPos' = Len(TsList') - addedTs + 1
  BY <1>5, <1>6, <1>d
<1> QED
  BY <1>1, <1>3, <1>4, <1>5, <1>6, <1>7

(* Playing a segment to a client that listens.                             *)
LEMMA PlayedOne ==
    ASSUME ViewerInv, PlaySegment, good', pc' # "failed"
    PROVE  /\ readPos \in 1 .. Len(TsList) /\ readPos' = readPos + 1 /\ good /\ pc' = "play"
           /\ played' = Append(played, TsList[readPos].seg)
           /\ Len(TsList') = Len(TsList) /\ DOMAIN TsList' = DOMAIN TsList
           /\ \A i \in DOMAIN TsList : TsList'[i].seg = TsList[i].seg
           /\ TsList[readPos].seg \in Segments
           /\ Pending = readPos .. Len(TsList)
           /\ Pending' = readPos + 1 .. Len(TsList)
<1>t. TypeOK
  BY DEF ViewerInv
<1>d. Len(TsList) \in Nat /\ DOMAIN TsList = 1 .. Len(TsList) /\ TsList \in Seq(Uris)
  BY <1>t, ListDomains
<1>1. PICK h \in Reached(TsList[readPos].host, SegmentsMove) :
         TsList' = [TsList EXCEPT ![readPos].host = h]
  BY DEF PlaySegment
<1>2. readPos' = readPos + 1 /\ pc' = pc /\ played' = Append(played, TsList[readPos].seg)
  BY DEF PlaySegment
<1>3. readPos \in 1 .. Len(TsList) /\ pc = "play" /\ good
  BY <1>d DEF PlaySegment, ViewerInv, ReadPosInRange
<1>4. \A i \in DOMAIN TsList : TsList[i] \in Uris
  BY <1>d, ElementOfSeq
<1>5. DOMAIN TsList' = DOMAIN TsList /\ \A i \in DOMAIN TsList : TsList'[i].seg = TsList[i].seg
  BY <1>1, <1>4 DEF Uris
<1>6. Len(TsList') = Len(TsList)
  <2>1. TypeOK'
    BY InvStep DEF Next, Viewer, ViewerInv
  <2> QED
    BY <1>5, <1>d, <2>1, LenProperties DEF TypeOK
<1>7. Pending = readPos .. Len(TsList)
  BY <1>3 DEF Pending
<1>8. Pending' = readPos' .. Len(TsList')
  BY <1>2, <1>3 DEF Pending
<1>9. TsList[readPos].seg \in Segments
  BY <1>3, <1>4, <1>d DEF Uris
<1> QED
  BY <1>2, <1>3, <1>5, <1>6, <1>7, <1>8, <1>9

LEMMA CompleteInit == Init => CompleteInv
  BY DEF Init, CompleteInv

LEMMA CompleteStep == ViewerInv /\ CompleteInv /\ [Next]_vars => CompleteInv'
<1> SUFFICES ASSUME ViewerInv, CompleteInv, [Next]_vars PROVE CompleteInv'
  OBVIOUS
<1>t. TypeOK /\ TypeOK'
  BY InvStep DEF ViewerInv
<1>d. /\ Len(TsList) \in Nat /\ DOMAIN TsList = 1 .. Len(TsList) /\ TsList \in Seq(Uris)
      /\ Len(PlayList) \in Nat /\ DOMAIN PlayList = 1 .. Len(PlayList)
      /\ PlayList \in Seq(PlRecords) /\ it \in Nat \ {0} /\ addedTs \in Nat
      /\ addedTs <= Len(TsList)
  BY <1>t, ListDomains DEF ViewerInv
<1>n. \A k \in DOMAIN PlayList' : ~(k < 1)
  BY <1>t, LenProperties DEF TypeOK
<1>1. CASE FirstRead
  <2>1. /\ it' = 1 /\ ~endList' /\ Pending = {} /\ Pending' = {}
        /\ pc' \in {"failed", "done", "select"} /\ UNCHANGED <<TsList, played, lastTs, good>>
        /\ pc # "failed"
    BY <1>1 DEF FirstRead, ReadM3U8, CompleteInv, Pending, scan, hist
  <2>2. \A seg : SeenTo(seg) => SeenTo(seg)'
    BY <2>1, SeenToUnchanged
  <2> QED
    BY <1>n, <2>1, <2>2 DEF CompleteInv
<1>2. CASE SelectStream
  <2>1. /\ it' = 1 /\ ~endList' /\ Pending = {} /\ pc # "failed"
        /\ pc' \in {"failed", "scan"} /\ UNCHANGED <<TsList, played, lastTs, good>>
    BY <1>2 DEF SelectStream, ReadM3U8, CompleteInv, Pending, scan, hist
  <2>2. \A seg : SeenTo(seg) => SeenTo(seg)'
    BY <2>1, SeenToUnchanged
  <2> QED
    BY <1>n, <2>1, <2>2 DEF CompleteInv
<1>3. CASE ScanSegment
  <2> DEFINE nts == PlayList[it].uri
  <2>1. /\ pc = "scan" /\ pc' = "scan" /\ it' = it + 1 /\ it \in DOMAIN PlayList
        /\ UNCHANGED <<PlayList, played, good>>
        /\ Pending = Len(TsList) - addedTs + 1 .. Len(TsList)
        /\ Pending' = Len(TsList') - addedTs' + 1 .. Len(TsList')
    BY <1>3, <1>d DEF ScanSegment, Pending
  <2>2. nts \in Uris
    <3>1. PlayList[it] \in PlRecords /\ PlayList[it].tag = "EXTINF"
      BY <1>3, <1>d, <2>1, ElementOfSeq DEF ScanSegment
    <3> QED
      BY <3>1 DEF PlRecords
  <2>3. /\ \A seg : SeenTo(seg) => SeenTo(seg)'
        /\ lastTs' = {nts}
        /\ good => \A seg : nts.seg = seg => SeenTo(seg)'
    <3>1. CASE lastTs = {nts} /\ UNCHANGED <<lastTs, uniqts, addedTs, TsList>>
      <4>1. Pending' = Pending
        BY <2>1, <3>1
      <4>2. \A seg : SeenTo(seg) => SeenTo(seg)'
        BY <2>1, <3>1, <4>1, SeenToUnchanged
      <4>3. good => SeenTo(nts.seg)
        BY <2>1, <3>1 DEF CompleteInv
      <4> QED
        BY <3>1, <4>2, <4>3
    <3>2. CASE Seen(nts) /\ lastTs' = {nts} /\ UNCHANGED <<TsList, addedTs>>
      <4>1. Pending' = Pending
        BY <2>1, <3>2
      <4>2. \A seg : SeenTo(seg) => SeenTo(seg)'
        BY <2>1, <3>2, <4>1, SeenToUnchanged
      <4>3. good => SeenTo(nts.seg)
        BY <2>1, <3>2 DEF CompleteInv, Seen
      <4> QED
        BY <3>2, <4>2, <4>3
    <3>3. CASE lastTs' = {nts} /\ TsList' = Append(TsList, nts) /\ addedTs' = addedTs + 1
      <4>1. /\ Len(TsList') = Len(TsList) + 1 /\ TsList'[Len(TsList) + 1] = nts
            /\ \A i \in 1 .. Len(TsList) : TsList'[i] = TsList[i]
        BY <1>d, <2>2, <3>3, AppendList
      <4>2. Len(TsList) + 1 \in Pending' /\ Pending \subseteq Pending'
        BY <1>d, <2>1, <3>3, <4>1
      <4>3. Pending \subseteq 1 .. Len(TsList)
        BY <1>d, <2>1
      <4>4. \A i \in Pending : \A seg : TsList[i].seg = seg => SeenTo(seg)'
        BY <4>1, <4>2, <4>3 DEF SeenTo
      <4>5. \A seg : WasPlayed(seg) => WasPlayed(seg)'
        BY <2>1 DEF WasPlayed
      <4>6. \A seg : SeenTo(seg) => SeenTo(seg)'
        BY <4>4, <4>5, SeenToKept
      <4>7. \A seg : nts.seg = seg => SeenTo(seg)'
        <5>1. TsList'[Len(TsList) + 1].seg = nts.seg
          BY <4>1
        <5> HIDE DEF nts
        <5> QED
          BY <4>2, <5>1 DEF SeenTo
      <4> QED
        BY <3>3, <4>6, <4>7
    <3> QED
      BY <1>3, <3>1, <3>2, <3>3 DEF ScanSegment
  <2>4. ASSUME good, NEW k \in DOMAIN PlayList, k < it', PlayList[k].tag = "EXTINF"
        PROVE  \A seg : PlayList[k].uri.seg = seg => SeenTo(seg)'
    <3>1. CASE k = it
      BY <2>3, <2>4, <3>1
    <3>2. CASE k # it
      <4>1. k < it
        BY <1>d, <2>1, <2>4, <3>2
      <4>2. SeenTo(PlayList[k].uri.seg)
        BY <2>1, <2>4, <4>1 DEF CompleteInv
      <4> QED
        BY <2>3, <4>2
    <3> QED
      BY <3>1, <3>2
  <2>5. ASSUME good, NEW i \in DOMAIN TsList'
        PROVE  \A seg : TsList'[i].seg = seg => SeenTo(seg)'
    <3>1. CASE i \in DOMAIN TsList /\ TsList'[i] = TsList[i]
      BY <2>1, <2>3, <2>5, <3>1 DEF CompleteInv
    <3>2. CASE ~(i \in DOMAIN TsList /\ TsList'[i] = TsList[i])
      <4>1. TsList' = Append(TsList, nts)
        BY <1>3, <2>5, <3>2 DEF ScanSegment
      <4>2. /\ TsList'[Len(TsList) + 1] = nts /\ TsList' \in Seq(Uris)
            /\ Len(TsList') = Len(TsList) + 1
            /\ \A j \in 1 .. Len(TsList) : TsList'[j] = TsList[j]
        BY <1>d, <2>2, <4>1, AppendList
      <4>3. i = Len(TsList) + 1
        BY <1>d, <2>5, <3>2, <4>2, LenProperties
      <4> QED
        BY <2>3, <2>5, <4>2, <4>3
    <3> QED
      BY <3>1, <3>2
  <2> QED
    BY <2>1, <2>3, <2>4, <2>5 DEF CompleteInv
<1>4. CASE ScanBad
  BY <1>4 DEF ScanBad, CompleteInv
<1>5. CASE ScanEndList
  <2>1. /\ pc = "scan" /\ pc' = "scan" /\ it' = it + 1 /\ PlayList[it].tag # "EXTINF"
        /\ UNCHANGED <<PlayList, TsList, played, lastTs, good>> /\ Pending' = Pending
    BY <1>5 DEF ScanEndList, Pending, hist
  <2>2. \A seg : SeenTo(seg) => SeenTo(seg)'
    BY <2>1, SeenToUnchanged
  <2> QED
    BY <1>d, <2>1, <2>2 DEF CompleteInv
<1>6. CASE NothingNew
  <2>1. /\ pc = "scan" /\ pc' \in {"done", "failed", "read"} /\ it > Len(PlayList)
        /\ UNCHANGED <<it, endList, PlayList, TsList, played, lastTs, good>>
    BY <1>6 DEF NothingNew, scan, hist
  <2>2. Pending = {}
    BY <1>6, <1>d DEF NothingNew, Pending
  <2>3. \A seg : SeenTo(seg) => SeenTo(seg)'
    BY <2>1, <2>2, SeenToUnchanged
  <2> QED
    BY <2>1, <2>3 DEF CompleteInv
<1>7. CASE SomethingNew
  <2>1. /\ pc = "scan" /\ pc' = "play" /\ it > Len(PlayList)
        /\ UNCHANGED <<it, endList, PlayList, played, lastTs, good>>
    BY <1>7 DEF SomethingNew, scan
  <2>2. /\ Len(TsList') \in Nat /\ DOMAIN TsList' = 1 .. Len(TsList')
        /\ addedTs <= Len(TsList') /\ Len(TsList') <= Len(TsList)
        /\ \A i \in 1 .. Len(TsList') :
              TsList'[i] = TsList[i + (Len(TsList) - Len(TsList'))]
        /\ Pending' = Len(TsList') - addedTs + 1 .. Len(TsList')
    BY <1>7, Pruned
  <2>3. Pending = Len(TsList) - addedTs + 1 .. Len(TsList)
    BY <2>1 DEF Pending
  <2>4. ASSUME NEW i \in Pending
        PROVE  \A seg : TsList[i].seg = seg => SeenTo(seg)'
    <3> DEFINE j == i - (Len(TsList) - Len(TsList'))
    <3>1. j \in Pending' /\ j \in 1 .. Len(TsList') /\ j + (Len(TsList) - Len(TsList')) = i
      BY <1>d, <2>2, <2>3
    <3>2. TsList'[j] = TsList[i]
      BY <2>2, <3>1
    <3> HIDE DEF j
    <3> QED
      BY <3>1, <3>2 DEF SeenTo
  <2>5. \A seg : WasPlayed(seg) => WasPlayed(seg)'
    BY <2>1 DEF WasPlayed
  <2>6. \A seg : SeenTo(seg) => SeenTo(seg)'
    BY <2>4, <2>5, SeenToKept
  <2>7. \A i \in DOMAIN TsList' : i + (Len(TsList) - Len(TsList')) \in DOMAIN TsList
    BY <1>d, <2>2
  <2> QED
    BY <2>1, <2>2, <2>6, <2>7 DEF CompleteInv
<1>8. CASE PlaySegment
  <2>1. UNCHANGED <<PlayList, it, endList, lastTs>> /\ pc = "play" /\ pc' \in {"play", "failed"}
    BY <1>8 DEF PlaySegment, scan
  <2>2. CASE ~(good' /\ pc' # "failed")
    BY <2>1, <2>2 DEF CompleteInv
  <2>3. CASE good' /\ pc' # "failed"
    <3>1. /\ readPos \in 1 .. Len(TsList) /\ good
          /\ played' = Append(played, TsList[readPos].seg)
          /\ DOMAIN TsList' = DOMAIN TsList
          /\ \A i \in DOMAIN TsList : TsList'[i].seg = TsList[i].seg
          /\ TsList[readPos].seg \in Segments
          /\ Pending = readPos .. Len(TsList)
          /\ Pending' = readPos + 1 .. Len(TsList)
      BY <1>8, <2>3, PlayedOne
    <3>2. /\ \A i \in DOMAIN played : played'[i] = played[i] /\ i \in DOMAIN played'
          /\ \E i \in DOMAIN played' : played'[i] = TsList[readPos].seg
      <4>1. played \in Seq(Segments) /\ Len(played) \in Nat /\ DOMAIN played = 1 .. Len(played)
        BY <1>t, ListDomains
      <4>2. /\ played' \in Seq(Segments) /\ Len(played') = Len(played) + 1
            /\ \A i \in 1 .. Len(played) : played'[i] = played[i]
            /\ played'[Len(played) + 1] = TsList[readPos].seg
        BY <3>1, <4>1, AppendList
      <4>3. DOMAIN played' = 1 .. Len(played')
        BY <4>2, LenProperties
      <4>4. Len(played) + 1 \in DOMAIN played' /\ DOMAIN played \subseteq DOMAIN played'
        BY <4>1, <4>2, <4>3
      <4> QED
        BY <4>1, <4>2, <4>4
    <3>3. \A seg : WasPlayed(seg) => WasPlayed(seg)'
      BY <3>2 DEF WasPlayed
    <3>4. ASSUME NEW i \in Pending
          PROVE  \A seg : TsList[i].seg = seg => SeenTo(seg)'
      <4>1. CASE i = readPos
        BY <3>2, <4>1 DEF SeenTo, WasPlayed
      <4>2. CASE i # readPos
        <5>1. i \in Pending' /\ TsList'[i].seg = TsList[i].seg
          BY <1>d, <3>1, <4>2
        <5> QED
          BY <5>1 DEF SeenTo
      <4> QED
        BY <4>1, <4>2
    <3>5. \A seg : SeenTo(seg) => SeenTo(seg)'
      BY <3>3, <3>4, SeenToKept
    <3> QED
      BY <2>1, <2>3, <3>1, <3>5 DEF CompleteInv
  <2> QED
    BY <2>2, <2>3
<1>9. CASE Played
  <2>1. /\ pc = "play" /\ pc' \in {"done", "read"} /\ it > Len(PlayList)
        /\ UNCHANGED <<it, endList, PlayList, TsList, played, lastTs, good>>
    BY <1>9 DEF Played, scan, hist, CompleteInv
  <2>2. CASE ~good
    BY <2>1, <2>2 DEF CompleteInv
  <2>3. CASE good
    <3>1. Pending = {}
      BY <1>9, <1>d, <1>t, <2>3 DEF Played, Pending, TypeOK
    <3>2. \A seg : SeenTo(seg) => SeenTo(seg)'
      BY <2>1, <3>1, SeenToUnchanged
    <3> QED
      BY <2>1, <2>3, <3>2 DEF CompleteInv
  <2> QED
    BY <2>2, <2>3
<1>10. CASE ReadAgain
  <2>1. /\ it' = 1 /\ lastTs' = {} /\ UNCHANGED <<TsList, played, good>>
        /\ Pending = {} /\ pc' \in {"failed", "scan"} /\ pc = "read"
    BY <1>10 DEF ReadAgain, ReadM3U8, hist, Pending
  <2>2. \A seg : SeenTo(seg) => SeenTo(seg)'
    BY <2>1, SeenToUnchanged
  <2> QED
    BY <1>n, <2>1, <2>2 DEF CompleteInv
<1>11. CASE Publish \/ EndStream \/ ClientLeaves \/ Stop \/ UNCHANGED vars
  <2>1. /\ UNCHANGED <<pc, it, endList, PlayList, TsList, played, lastTs, addedTs, readPos>>
        /\ good' => good
    BY <1>11 DEF Publish, EndStream, ClientLeaves, Stop, vars, scan, hist, world
  <2>2. Pending' = Pending
    BY <2>1 DEF Pending
  <2>3. \A seg : SeenTo(seg) => SeenTo(seg)'
    BY <2>1, <2>2, SeenToUnchanged
  <2> QED
    BY <2>1, <2>3 DEF CompleteInv
<1> QED
  BY <1>1, <1>2, <1>3, <1>4, <1>5, <1>6, <1>7, <1>8, <1>9, <1>10, <1>11
  DEF Next, Viewer, Over

(* A session that returns with an ended stream and a client that listens   *)
(* has played the whole last playlist: for playlists and histories of any  *)
(* length, caches of any age, and hosts that redirect or not.              *)
THEOREM EndedStreamIsComplete == Spec => []EndedIsComplete
<1>1. ViewerInv /\ CompleteInv => EndedIsComplete
  <2> SUFFICES ASSUME ViewerInv, CompleteInv, pc = "done", endList, good,
                      NEW i \in DOMAIN PlayList, PlayList[i].tag = "EXTINF"
               PROVE  WasPlayed(PlayList[i].uri.seg)
    BY DEF EndedIsComplete
  <2>1. it > Len(PlayList) /\ i \in 1 .. Len(PlayList) /\ it \in Nat /\ Len(PlayList) \in Nat
    BY ListDomains DEF CompleteInv, ViewerInv
  <2>2. i < it
    BY <2>1
  <2>3. SeenTo(PlayList[i].uri.seg)
    BY <2>2 DEF CompleteInv
  <2> QED
    BY <2>3 DEF SeenTo, Pending
<1>2. Spec => [](ViewerInv /\ CompleteInv)
  BY InvInit, InvStep, CompleteInit, CompleteStep, PTL DEF Spec
<1> QED
  BY <1>1, <1>2, PTL
-----------------------------------------------------------------------------
(* The variant is the one the quality asks for.                            *)

(* A set of positions with more than one member has one other than v.      *)
LEMMA AnotherOne ==
    ASSUME NEW S, IsFiniteSet(S), Cardinality(S) > 1, NEW v
    PROVE  \E w \in S : w # v
<1> SUFFICES ASSUME S \subseteq {v} PROVE FALSE
  OBVIOUS
<1>1. IsFiniteSet({v}) /\ Cardinality({v}) = 1
  BY FS_Singleton
<1>2. Cardinality(S) <= 1 /\ Cardinality(S) \in Nat
  BY <1>1, FS_Subset, FS_CardinalityType
<1> QED
  BY <1>2

LEMMA RankQuality ==
    ASSUME TypeOK, NEW v \in DOMAIN Bandwidths,
           AtRank(v, CASE quality = "high"   -> Len(Bandwidths) - 1
                       [] quality = "medium" -> Len(Bandwidths) \div 2
                       [] quality = "low"    -> 0)
    PROVE  LET Others == DOMAIN Bandwidths \ {v}
           IN  /\ quality = "high" => \A w \in Others : Bandwidths[w] <= Bandwidths[v]
               /\ quality = "low"  => \A w \in Others : Bandwidths[w] >= Bandwidths[v]
               /\ quality = "medium" => (Cardinality(Others) >= 2 =>
                     \E x \in Others : \E y \in Others \ {x} :
                        Bandwidths[x] <= Bandwidths[v] /\ Bandwidths[v] <= Bandwidths[y])
<1> DEFINE D      == DOMAIN Bandwidths
           size   == Len(Bandwidths)
           Others == D \ {v}
           Less   == {w \in D : Bandwidths[w] < Bandwidths[v]}
           Most   == {w \in D : Bandwidths[w] <= Bandwidths[v]}
           k      == CASE quality = "high"   -> size - 1
                       [] quality = "medium" -> size \div 2
                       [] quality = "low"    -> 0
<1>1. size \in Nat /\ D = 1 .. size /\ \A w \in D : Bandwidths[w] \in Nat
  BY HlsViewerAssumption, LenProperties, ElementOfSeq DEF TypeOK
<1>2. IsFiniteSet(D) /\ Cardinality(D) = size
  BY <1>1, FS_Interval
<1>3. /\ IsFiniteSet(Less) /\ Cardinality(Less) \in Nat
      /\ IsFiniteSet(Most) /\ Cardinality(Most) \in Nat
      /\ IsFiniteSet(D \ Less) /\ Cardinality(D \ Less) = size - Cardinality(Less)
  <2>1. Less \in SUBSET D /\ Most \in SUBSET D /\ D \cap Less = Less
    OBVIOUS
  <2> HIDE DEF D, size, Less, Most
  <2>2. IsFiniteSet(Less) /\ IsFiniteSet(Most)
    BY <1>2, <2>1, FS_Subset
  <2>3. /\ IsFiniteSet(D \ Less)
        /\ Cardinality(D \ Less) = Cardinality(D) - Cardinality(D \cap Less)
    BY <1>2, FS_Difference
  <2>4. Cardinality(Less) \in Nat /\ Cardinality(Most) \in Nat
    BY <2>2, FS_CardinalityType
  <2> QED
    BY <1>2, <2>1, <2>2, <2>3, <2>4
<1>4. Cardinality(Less) <= k /\ k < Cardinality(Most)
  BY DEF AtRank
<1>5. ASSUME quality = "high", NEW w \in Others
      PROVE  Bandwidths[w] <= Bandwidths[v]
  <2>1. k = size - 1
    BY <1>5
  <2>2. Cardinality(Most) <= size /\ (Cardinality(Most) = size => Most = D)
    BY <1>2, FS_Subset
  <2>3. Cardinality(Most) = size
    <3>1. size - 1 < Cardinality(Most)
      BY <1>4, <2>1
    <3> HIDE DEF size, Most
    <3> QED
      BY <1>1, <1>3, <2>2, <3>1
  <2> QED
    BY <2>2, <2>3
<1>6. ASSUME quality = "low", NEW w \in Others
      PROVE  Bandwidths[w] >= Bandwidths[v]
  <2>1. Cardinality(Less) = 0
    BY <1>3, <1>4, <1>6
  <2>2. Less = {}
    BY <1>3, <2>1, FS_EmptySet
  <2> QED
    BY <1>1, <2>2
<1>7. ASSUME quality = "medium", Cardinality(Others) >= 2
      PROVE  \E x \in Others : \E y \in Others \ {x} :
                Bandwidths[x] <= Bandwidths[v] /\ Bandwidths[v] <= Bandwidths[y]
  <2>1. k = size \div 2
    BY <1>7
  <2>2. IsFiniteSet(Others) /\ Cardinality(Others) = size - 1
    BY <1>2, FS_RemoveElement
  <2>3. size >= 3
    BY <1>1, <1>7, <2>2
  <2>4. size \div 2 >= 1 /\ size - size \div 2 >= 2
    BY <1>1, <2>3
  <2>5. PICK x \in Most : x # v
    <3>1. size \div 2 < Cardinality(Most)
      BY <1>4, <2>1
    <3> HIDE DEF size, Most
    <3>2. Cardinality(Most) > 1
      BY <1>1, <1>3, <2>4, <3>1
    <3> QED
      BY <1>3, <3>2, AnotherOne
  <2>6. PICK y \in D \ Less : y # v
    <3>1. Cardinality(Less) <= size \div 2
      BY <1>4, <2>1
    <3> DEFINE More == D \ Less
    <3>2. Cardinality(More) = size - Cardinality(Less) /\ IsFiniteSet(More)
      BY <1>3
    <3> HIDE DEF Less, D, size, More
    <3>3. Cardinality(More) > 1
      BY <1>1, <1>3, <2>4, <3>1, <3>2
    <3>4. \E w \in More : w # v
      BY <3>2, <3>3, AnotherOne
    <3> QED
      BY <3>4 DEF More
  <2>7. x \in Others /\ y \in Others /\ Bandwidths[x] <= Bandwidths[v] /\ Bandwidths[v] <= Bandwidths[y]
    BY <1>1, <2>5, <2>6
  <2>8. CASE x # y
    BY <2>7, <2>8
  <2>9. CASE x = y
    <3>1. PICK z \in Others : z # x
      <4>1. Cardinality(Others) > 1
        BY <1>1, <2>2, <2>3
      <4> HIDE DEF Others
      <4> QED
        BY <2>2, <4>1, AnotherOne
    <3>2. CASE Bandwidths[z] <= Bandwidths[v]
      BY <2>7, <2>9, <3>1, <3>2
    <3>3. CASE Bandwidths[v] <= Bandwidths[z]
      BY <2>7, <2>9, <3>1, <3>3
    <3> QED
      BY <1>1, <3>1, <3>2, <3>3
  <2> QED
    BY <2>8, <2>9
<1> QED
  BY <1>5, <1>6, <1>7

LEMMA QualityStep == ViewerInv /\ QualityHonoured /\ [Next]_vars => QualityHonoured'
<1> SUFFICES ASSUME ViewerInv, QualityHonoured, [Next]_vars PROVE QualityHonoured'
  OBVIOUS
<1>1. CASE UNCHANGED <<variant, quality, Bandwidths>>
  BY <1>1 DEF QualityHonoured
<1>2. CASE ~UNCHANGED <<variant, quality, Bandwidths>>
  <2>1. SelectStream
    BY <1>2 DEF Next, Viewer, Over, vars, run, world, FirstRead, ScanSegment, ScanBad,
       ScanEndList, NothingNew, SomethingNew, PlaySegment, Played, ReadAgain, Publish,
       EndStream, ClientLeaves, Stop
  <2>2. UNCHANGED <<quality, Bandwidths>>
    BY <2>1 DEF SelectStream, world
  <2>3. PICK v \in DOMAIN Bandwidths :
           /\ AtRank(v, CASE quality = "high"   -> Len(Bandwidths) - 1
                          [] quality = "medium" -> Len(Bandwidths) \div 2
                          [] quality = "low"    -> 0)
           /\ variant' = v
    BY <1>2, <2>1, <2>2 DEF SelectStream
  <2>4. TypeOK /\ quality \in {"high", "medium", "low"}
    BY DEF ViewerInv, TypeOK
  <2>5. LET Others == DOMAIN Bandwidths \ {v}
        IN  /\ quality = "high" => \A w \in Others : Bandwidths[w] <= Bandwidths[v]
            /\ quality = "low"  => \A w \in Others : Bandwidths[w] >= Bandwidths[v]
            /\ quality = "medium" => (Cardinality(Others) >= 2 =>
                  \E x \in Others : \E y \in Others \ {x} :
                     Bandwidths[x] <= Bandwidths[v] /\ Bandwidths[v] <= Bandwidths[y])
    BY <2>3, <2>4, RankQuality
  <2> QED
    BY <2>2, <2>3, <2>4, <2>5 DEF QualityHonoured
<1> QED
  BY <1>1, <1>2

(* The stream selected from a master playlist is the one --quality or :q   *)
(* asks for, for any number of variants, in any order, with equal          *)
(* bandwidths or not.                                                      *)
THEOREM QualityIsHonoured == Spec => []QualityHonoured
<1>1. Init => QualityHonoured
  BY DEF Init, QualityHonoured
<1> QED
  BY <1>1, QualityStep, Invariant, PTL DEF Spec
-----------------------------------------------------------------------------
(* Segments are played in order, each at most once, if playlists never go  *)
(* back and nothing is redirected.                                         *)

NeverBack == Lag = 0 /\ ~PlaylistMoves /\ ~SegmentsMove

LEMMA OrderInit == Init => InOrderInv
<1> SUFFICES ASSUME Init PROVE InOrderInv
  OBVIOUS
<1>1. /\ pc = "first" /\ VideoUri = Home /\ TsList = <<>> /\ it = 1 /\ uniqts = 0
      /\ addedTs = 0 /\ lastTs = {} /\ PlayList = <<>> /\ played = <<>> /\ last \in Nat
      /\ DOMAIN TsList = {} /\ DOMAIN played = {} /\ DOMAIN PlayList = {}
  BY HlsViewerAssumption DEF Init
<1>2. Newest = 0 /\ Pending = {}
  BY <1>1 DEF Newest, Pending
<1>3. Oldest(0) = 1 /\ Shown(0) = 0
  BY HlsViewerAssumption DEF Oldest, Shown
<1>4. Shows(0) /\ Remembers(0)
  <2>1. Len(PlayList) = 0 /\ 0 .. Newest - Oldest(0) = {}
    BY <1>1, <1>2, <1>3
  <2> QED
    BY <1>1, <1>2, <1>3, <2>1 DEF Shows, Remembers
<1>5. ListSorted /\ PendingIsNew
  BY <1>1, <1>2 DEF ListSorted, PendingIsNew
<1>6. 0 \in 0 .. last
  BY <1>1
<1> QED
  BY <1>1, <1>4, <1>5, <1>6 DEF InOrderInv

(* A playlist that is read shows the newest segments, from the same host.  *)
LEMMA ReadInOrder ==
    ASSUME NeverBack, TypeOK, VideoUri = Home, NEW next, ReadM3U8(next)
    PROVE  \/ pc' = "failed" /\ UNCHANGED <<VideoUri, PlayList>>
           \/ /\ pc' = next /\ VideoUri' = Home
              /\ \A n : n = last => Shows(n)'
<1> SUFFICES ASSUME ~(pc' = "failed" /\ UNCHANGED <<VideoUri, PlayList>>)
             PROVE  pc' = next /\ VideoUri' = Home /\ \A n : n = last => Shows(n)'
  OBVIOUS
<1>1. PICK h \in Reached(VideoUri, PlaylistMoves), newest \in last - Lag .. last :
         newest >= 0 /\ VideoUri' = h /\ PlayList' = Records(h, newest) /\ pc' = next
  BY DEF ReadM3U8
<1>2. h = Home /\ newest = last
  BY <1>1, HlsViewerAssumption DEF NeverBack, Reached, TypeOK
<1>3. h \in Hosts
  BY <1>2, HlsViewerAssumption
<1>4. /\ Shown(newest) <= Len(Records(h, newest))
      /\ \A k \in DOMAIN Records(h, newest) :
            IF k <= Shown(newest)
            THEN Records(h, newest)[k]
                    = [tag |-> "EXTINF",
                       uri |-> [host |-> h, seg |-> Oldest(newest) + k - 1]]
            ELSE Records(h, newest)[k].tag = "ENDLIST"
  BY <1>1, <1>3, RecordsType
<1> QED
  BY <1>1, <1>2, <1>4 DEF Shows

(* Steps that leave history and playlist alone.                            *)
LEMMA OrderFrame ==
    ASSUME InOrderInv, TypeOK, TypeOK',
           UNCHANGED <<VideoUri, TsList, played, PlayList>>, last' >= last,
           Pending' \subseteq Pending,
           pc' \in {"first", "select", "scan"} =>
              pc' = pc /\ UNCHANGED <<it, uniqts, addedTs, lastTs>>
    PROVE  InOrderInv'
<1>1. PICK n \in 0 .. last : Shows(n) /\ Remembers(n) /\ (pc = "scan" => Scanned(n))
  BY DEF InOrderInv
<1>2. Newest' = Newest
  BY DEF Newest
<1>3. n \in 0 .. last'
  BY DEF TypeOK
<1>4. Shows(n)' /\ Remembers(n)'
  BY <1>1, <1>2 DEF Shows, Remembers
<1>5. pc' = "scan" => Scanned(n)'
  BY <1>1, <1>2 DEF Scanned
<1>6. ListSorted' /\ PendingIsNew'
  BY <1>2 DEF InOrderInv, ListSorted, PendingIsNew
<1> QED
  BY <1>3, <1>4, <1>5, <1>6 DEF InOrderInv

(* A new playlist.                                                         *)
LEMMA OrderRead ==
    ASSUME InOrderInv, TypeOK, NeverBack,
           UNCHANGED <<TsList, played, last>>, VideoUri' = Home,
           \A n : n = last => Shows(n)', Pending' = {},
           pc' = "scan" => it' = 1 /\ uniqts' = 0 /\ lastTs' = {},
           pc' \in {"first", "select"} =>
              pc \in {"first", "select"} /\ UNCHANGED <<it, uniqts, addedTs, lastTs>>
    PROVE  InOrderInv'
<1>1. PICK n \in 0 .. last : Remembers(n)
  BY DEF InOrderInv
<1>2. Newest' = Newest
  BY DEF Newest
<1>3. n \in Nat /\ last \in Nat /\ n <= last /\ last \in 0 .. last'
  BY HlsViewerAssumption DEF TypeOK
<1>4. Oldest(n) <= Oldest(last) /\ Oldest(n) \in Nat /\ Oldest(last) \in Nat /\ Shown(last) \in Nat
  BY <1>3, ShownNumbers
<1>5. Newest \in Nat
  <2>1. TsList # <<>> => TsList[Len(TsList)] \in Uris
    BY LenProperties, ElementOfSeq, EmptySeq DEF TypeOK
  <2> QED
    BY <2>1 DEF Newest, Uris, Segments
<1>6. \A m : m = last => Remembers(m)'
  <2>1. 0 .. Newest - Oldest(last) \subseteq 0 .. Newest - Oldest(n)
    BY <1>4, <1>5
  <2>2. Newest <= last
    BY <1>1, <1>3, <1>5 DEF Remembers
  <2> QED
    BY <1>1, <1>2, <2>1, <2>2 DEF Remembers
<1>7. pc' = "scan" => \A m : m = last => Scanned(m)'
  BY <1>4 DEF Scanned
<1>8. ListSorted' /\ PendingIsNew'
  BY <1>2 DEF InOrderInv, ListSorted, PendingIsNew
<1>9. pc' \in {"first", "select"} =>
         TsList' = <<>> /\ it' = 1 /\ uniqts' = 0 /\ addedTs' = 0 /\ lastTs' = {}
  BY DEF InOrderInv
<1>10. \E m \in 0 .. last' : Shows(m)' /\ Remembers(m)' /\ (pc' = "scan" => Scanned(m)')
  BY <1>3, <1>6, <1>7
<1> QED
  BY <1>8, <1>9, <1>10 DEF InOrderInv

LEMMA SegmentsNat == \A seg \in Segments : seg \in Nat \ {0}
  BY HlsViewerAssumption DEF Segments

(* The newest segment of the history.                                      *)
LEMMA NewestFacts ==
    ASSUME TypeOK, ListSorted
    PROVE  /\ Newest \in Nat
           /\ \A i \in DOMAIN TsList :
                 /\ TsList[i].seg \in Segments /\ TsList[i].seg <= Newest
                 /\ TsList[i].seg \in Nat \ {0}
                 /\ TsList[i] = [host |-> Home, seg |-> TsList[i].seg]
           /\ TsList # <<>> => Len(TsList) \in DOMAIN TsList /\ Newest = TsList[Len(TsList)].seg
<1>1. /\ Len(TsList) \in Nat /\ DOMAIN TsList = 1 .. Len(TsList)
      /\ TsList # <<>> => Len(TsList) \in 1 .. Len(TsList)
  BY LenProperties, EmptySeq DEF TypeOK
<1>2. \A i \in DOMAIN TsList : TsList[i] \in Uris
  BY <1>1, ElementOfSeq DEF TypeOK
<1>3. \A i \in DOMAIN TsList : /\ TsList[i].seg \in Segments
                               /\ TsList[i] = [host |-> Home, seg |-> TsList[i].seg]
  BY <1>2 DEF ListSorted, Uris
<1>4. \A i \in DOMAIN TsList : TsList # <<>>
  BY <1>1
<1>5. ASSUME NEW i \in DOMAIN TsList
      PROVE  TsList[i].seg <= Newest
  <2>1. Newest = TsList[Len(TsList)].seg /\ Len(TsList) \in DOMAIN TsList
    BY <1>1, <1>4 DEF Newest
  <2>2. CASE i = Len(TsList)
    BY <1>3, <2>1, <2>2 DEF Segments
  <2>3. CASE i # Len(TsList)
    <3>1. i < Len(TsList)
      BY <1>1, <2>3
    <3>2. TsList[i].seg < TsList[Len(TsList)].seg
      BY <2>1, <3>1 DEF ListSorted
    <3> QED
      BY <1>3, <2>1, <3>2 DEF Segments
  <2> QED
    BY <2>2, <2>3
<1>6. Newest \in Nat
  BY <1>1, <1>3 DEF Newest, Segments
<1>7. TsList # <<>> => Newest = TsList[Len(TsList)].seg
  BY DEF Newest
<1> QED
  BY <1>1, <1>3, <1>5, <1>6, <1>7, SegmentsNat

(* A segment of the playlist is scanned: it is in the history if it is not *)
(* newer than what is in there, and is put at its end else.                *)
LEMMA OrderScan ==
    ASSUME ViewerInv, InOrderInv, ScanSegment
    PROVE  InOrderInv'
<1> DEFINE nts == PlayList[it].uri
           len == Len(TsList)
<1>t. TypeOK /\ addedTs <= len
  BY DEF ViewerInv
<1>d. /\ len \in Nat /\ DOMAIN TsList = 1 .. len /\ TsList \in Seq(Uris)
      /\ DOMAIN PlayList = 1 .. Len(PlayList) /\ Len(PlayList) \in Nat /\ it \in Nat \ {0}
      /\ addedTs \in Nat
      /\ Len(played) \in Nat /\ DOMAIN played = 1 .. Len(played)
  BY <1>t, ListDomains
<1>1. /\ pc = "scan" /\ pc' = "scan" /\ it' = it + 1 /\ it \in DOMAIN PlayList
      /\ PlayList[it].tag = "EXTINF"
      /\ UNCHANGED <<VideoUri, PlayList, played, last>>
      /\ Pending = len - addedTs + 1 .. len
      /\ Pending' = Len(TsList') - addedTs' + 1 .. Len(TsList')
  BY <1>d DEF ScanSegment, Pending, world
<1>2. PICK n \in 0 .. last : Shows(n) /\ Remembers(n) /\ Scanned(n)
  BY <1>1 DEF InOrderInv
<1>3. /\ n \in Nat /\ Oldest(n) \in Nat \ {0} /\ Shown(n) \in Nat
      /\ Oldest(n) + Shown(n) = n + 1 /\ n <= last /\ last \in 0 .. MaxSeg
  <2>1. last \in 0 .. MaxSeg /\ n \in Nat /\ n <= last
    BY <1>t, HlsViewerAssumption DEF TypeOK
  <2> QED
    BY <2>1, ShownNumbers
<1>4. it <= Shown(n) /\ nts = [host |-> Home, seg |-> Oldest(n) + it - 1]
  BY <1>1, <1>2 DEF Shows
<1> DEFINE seg == Oldest(n) + it - 1
<1>5. seg \in Segments /\ seg <= n /\ seg \in Nat
  BY <1>3, <1>4, <1>d, HlsViewerAssumption DEF Segments
<1>6. uniqts = it - 1 /\ lastTs # {nts} /\ (it > 1 => seg - 1 <= Newest)
  <2>1. /\ uniqts = it - 1
        /\ lastTs = IF it - 1 = 0 THEN {} ELSE {[host |-> Home, seg |-> Oldest(n) + (it - 1) - 1]}
        /\ it - 1 > 0 => Oldest(n) + (it - 1) - 1 <= Newest
    BY <1>2, <1>4 DEF Scanned
  <2>2. Oldest(n) + (it - 1) - 1 = seg - 1 /\ seg - 1 # seg
    BY <1>3, <1>d
  <2> HIDE DEF seg
  <2> QED
    BY <1>4, <1>d, <2>1, <2>2 DEF seg
<1>7. lastTs' = {nts} /\ uniqts' = it
  BY <1>6, <1>d DEF ScanSegment
<1>8. /\ VideoUri' = Home /\ ListSorted /\ PendingIsNew
  BY <1>1 DEF InOrderInv
<1>9. /\ Newest \in Nat
      /\ \A i \in 1 .. len :
            /\ TsList[i].seg \in Nat /\ TsList[i].seg <= Newest
            /\ TsList[i] = [host |-> Home, seg |-> TsList[i].seg]
      /\ TsList # <<>> => len \in 1 .. len /\ Newest = TsList[len].seg
  BY <1>8, <1>t, <1>d, NewestFacts
<1>10. ASSUME NEW m \in Nat, Newest' = m, seg <= m
       PROVE  Scanned(n)'
  <2>1. (IF it' <= Shown(n) THEN it' - 1 ELSE Shown(n)) = it
    BY SMTT(20), <1>1, <1>3, <1>4, <1>d
  <2> QED
    BY <1>4, <1>7, <1>10, <1>d, <2>1 DEF Scanned
<1>11. CASE seg <= Newest
  <2>1. Seen(nts)
    <3> DEFINE d == Newest - seg
    <3>1. d \in 0 .. Newest - Oldest(n)
      BY SMTT(20), <1>3, <1>5, <1>9, <1>11, <1>d
    <3>2. d < len /\ TsList[len - d].seg = Newest - d
      BY <1>2, <3>1 DEF Remembers
    <3>3. len - d \in 1 .. len /\ Newest - d = seg
      BY <1>5, <1>9, <1>d, <3>1, <3>2
    <3>4. TsList[len - d] = nts
      BY <1>4, <1>9, <3>2, <3>3
    <3> QED
      BY <1>d, <3>3, <3>4 DEF Seen
  <2>2. UNCHANGED <<TsList, addedTs>>
    BY <1>6, <2>1 DEF ScanSegment
  <2>3. Newest' = Newest /\ Pending' = Pending
    BY <1>1, <2>2 DEF Newest
  <2>4. Scanned(n)'
    BY <1>9, <1>10, <1>11, <2>3
  <2>5. Shows(n)' /\ Remembers(n)' /\ ListSorted' /\ PendingIsNew'
    BY <1>1, <1>2, <1>8, <2>2, <2>3 DEF Shows, Remembers, ListSorted, PendingIsNew
  <2> QED
    BY <1>1, <1>8, <2>4, <2>5 DEF InOrderInv
<1>12. CASE seg > Newest
  <2>1. ~Seen(nts)
    <3>1. \A i \in 1 .. len : TsList[i].seg < seg
      <4>1. \A i \in 1 .. len : TsList[i].seg \in Nat /\ TsList[i].seg <= Newest
        BY <1>9
      <4> HIDE DEF seg, len
      <4> QED
        BY <1>5, <1>9, <1>12, <4>1
    <3>2. nts.seg = seg
      BY <1>4
    <3> QED
      BY <1>5, <1>d, <3>1, <3>2 DEF Seen
  <2>2. TsList' = Append(TsList, nts) /\ addedTs' = addedTs + 1
    BY <1>6, <2>1 DEF ScanSegment
  <2>3. nts \in Uris /\ nts.seg = seg /\ nts.host = Home
    BY <1>4, <1>5, HlsViewerAssumption DEF Uris
  <2>4. /\ Len(TsList') = len + 1 /\ TsList'[len + 1] = nts /\ TsList' \in Seq(Uris)
        /\ \A i \in 1 .. len : TsList'[i] = TsList[i]
    BY <1>d, <2>2, <2>3, AppendList
  <2>5. DOMAIN TsList' = 1 .. len + 1 /\ TsList' # <<>>
    BY <1>d, <2>4, LenProperties, EmptySeq
  <2>6. Newest' = seg
    BY <2>3, <2>4, <2>5 DEF Newest
  <2>7. Scanned(n)'
    BY <1>5, <1>10, <2>6
  <2>8. Shows(n)'
    BY <1>1, <1>2 DEF Shows
  <2>9. Remembers(n)'
    <3>1. ASSUME NEW d \in 0 .. seg - Oldest(n)
          PROVE  d < len + 1 /\ TsList'[len + 1 - d].seg = seg - d
      <4>1. CASE d = 0
        BY <1>5, <1>d, <2>3, <2>4, <4>1
      <4>2. CASE d > 0
        <5>1. it > 1
          BY <1>3, <1>d, <4>2
        <5>2. seg = Newest + 1
          BY <1>5, <1>6, <1>9, <1>12, <5>1
        <5>3. d - 1 \in 0 .. Newest - Oldest(n)
          BY <1>3, <1>9, <4>2, <5>2
        <5>4. d - 1 < len /\ TsList[len - (d - 1)].seg = Newest - (d - 1)
          BY <1>2, <5>3 DEF Remembers
        <5>5. len + 1 - d = len - (d - 1) /\ len - (d - 1) \in 1 .. len
          BY <1>d, <5>3, <5>4
        <5>6. Newest - (d - 1) = seg - d
          BY <1>9, <5>2
        <5> HIDE DEF seg, len
        <5> QED
          BY <1>d, <2>4, <5>4, <5>5, <5>6
      <4> QED
        BY <4>1, <4>2
    <3> QED
      BY SMTT(20), <1>5, <2>4, <2>6, <3>1 DEF Remembers
  <2>10. ListSorted'
    <3>1. \A i \in 1 .. len + 1 : TsList'[i].host = Home
      BY <1>8, <1>d, <2>3, <2>4 DEF ListSorted
    <3>2. ASSUME NEW i \in 1 .. len + 1, NEW j \in 1 .. len + 1, i < j
          PROVE  TsList'[i].seg < TsList'[j].seg
      <4>1. i \in 1 .. len /\ TsList'[i].seg = TsList[i].seg
        BY <1>d, <2>4, <3>2
      <4>2. CASE j = len + 1
        <5>1. TsList'[j].seg = seg /\ TsList[i].seg <= Newest /\ TsList[i].seg \in Nat
          BY <1>9, <2>3, <2>4, <4>1, <4>2
        <5> HIDE DEF seg
        <5> QED
          BY <1>5, <1>9, <1>12, <4>1, <5>1
      <4>3. CASE j # len + 1
        <5>1. j \in 1 .. len /\ TsList'[j].seg = TsList[j].seg
          BY <1>d, <2>4, <4>3
        <5> QED
          BY <1>8, <1>d, <3>2, <4>1, <5>1 DEF ListSorted
      <4> QED
        BY <4>2, <4>3
    <3> QED
      BY <2>5, <3>1, <3>2 DEF ListSorted
  <2>11. PendingIsNew'
    <3>1. \A j \in DOMAIN played : played[j] <= Newest /\ played[j] \in Nat
      <4>1. played \in Seq(Segments)
        BY <1>t DEF TypeOK
      <4>2. \A j \in DOMAIN played : played[j] \in Segments
        BY <1>d, <4>1, ElementOfSeq
      <4> QED
        BY <1>8, <4>2, SegmentsNat DEF PendingIsNew
    <3>2. \A j \in DOMAIN played : played[j] < seg
      BY <1>5, <1>9, <1>12, <3>1
    <3>3. Pending' = Pending \union {len + 1} /\ Pending \subseteq 1 .. len
      BY <1>1, <1>d, <1>t, <2>2, <2>4
    <3>4. ASSUME NEW i \in Pending', NEW j \in DOMAIN played
          PROVE  played[j] < TsList'[i].seg
      <4>1. CASE i = len + 1
        BY <2>3, <2>4, <3>2, <4>1
      <4>2. CASE i # len + 1
        <5>1. i \in Pending /\ TsList'[i] = TsList[i]
          BY <2>4, <3>3, <4>2
        <5> QED
          BY <1>8, <5>1 DEF PendingIsNew
      <4> QED
        BY <4>1, <4>2
    <3>5. \A j \in DOMAIN played : played[j] <= seg
      BY <1>5, <3>1, <3>2
    <3> QED
      BY <1>1, <2>6, <3>4, <3>5 DEF PendingIsNew
  <2> QED
    BY <1>1, <1>8, <2>7, <2>8, <2>9, <2>10, <2>11 DEF InOrderInv
<1> QED
  BY <1>5, <1>9, <1>11, <1>12

(* The front of the history is erased, but nothing a playlist may still    *)
(* show.                                                                   *)
LEMMA OrderPrune ==
    ASSUME ViewerInv, InOrderInv, SomethingNew
    PROVE  InOrderInv'
<1> DEFINE len == Len(TsList)
           gone == len - Len(TsList')
<1>t. TypeOK
  BY DEF ViewerInv
<1>d. /\ len \in Nat /\ DOMAIN TsList = 1 .. len /\ it \in Nat /\ addedTs \in Nat
      /\ Len(PlayList) \in Nat
  BY <1>t, ListDomains
<1>1. /\ pc = "scan" /\ pc' = "play" /\ it > Len(PlayList)
      /\ UNCHANGED <<VideoUri, PlayList, played, last>>
      /\ Pending = len - addedTs + 1 .. len
  BY DEF SomethingNew, Pending, world
<1>2. /\ MaxHistLen' \in Nat /\ uniqts <= MaxHistLen' /\ addedTs > 0
      /\ TsList' \in Seq(Uris) /\ Len(TsList') \in Nat /\ DOMAIN TsList' = 1 .. Len(TsList')
      /\ Len(TsList') = IF len > MaxHistLen' THEN MaxHistLen' ELSE len
      /\ addedTs <= Len(TsList') /\ Len(TsList') <= len
      /\ \A i \in 1 .. Len(TsList') : TsList'[i] = TsList[i + gone]
      /\ Pending' = Len(TsList') - addedTs + 1 .. Len(TsList')
  BY Pruned
<1>3. gone \in Nat /\ Len(TsList') + gone = len
  BY <1>2, <1>d
<1>4. PICK n \in 0 .. last : Shows(n) /\ Remembers(n) /\ Scanned(n)
  BY <1>1 DEF InOrderInv
<1>5. /\ n \in Nat /\ Oldest(n) \in Nat \ {0} /\ Shown(n) \in Nat
      /\ Oldest(n) + Shown(n) = n + 1
  <2>1. n \in Nat
    BY <1>t, HlsViewerAssumption DEF TypeOK
  <2> QED
    BY <2>1, ShownNumbers
<1>6. uniqts = Shown(n)
  <2>1. ~(it <= Shown(n))
    BY <1>1, <1>4, <1>5, <1>d DEF Shows
  <2> QED
    BY <1>4, <2>1 DEF Scanned
<1>7. VideoUri' = Home /\ ListSorted /\ PendingIsNew
  BY <1>1 DEF InOrderInv
<1>8. Newest \in Nat /\ Newest <= n /\ Newest = TsList[len].seg
  <2>1. TsList # <<>>
    <3>1. len > 0
      BY <1>2, <1>d
    <3> QED
      BY <3>1, EmptySeq
  <2> QED
    BY <1>4, <1>7, <1>t, <2>1, NewestFacts DEF Remembers
<1>9. Newest' = Newest
  <2>1. TsList' # <<>> /\ Len(TsList') \in 1 .. Len(TsList')
    BY <1>2, <1>d, EmptySeq
  <2>2. TsList'[Len(TsList')] = TsList[len]
    BY <1>2, <1>3, <2>1
  <2> QED
    BY <1>8, <2>1, <2>2 DEF Newest
<1>10. Shows(n)'
  BY <1>1, <1>4 DEF Shows
<1>11. Remembers(n)'
  <2>1. ASSUME NEW d \in 0 .. Newest - Oldest(n)
        PROVE  d < Len(TsList') /\ TsList'[Len(TsList') - d].seg = Newest - d
    <3>1. d < len /\ TsList[len - d].seg = Newest - d
      BY <1>4 DEF Remembers
    <3>2. d < MaxHistLen'
      BY <1>2, <1>5, <1>6, <1>8
    <3>3. d < Len(TsList')
      BY <1>2, <3>1, <3>2
    <3>4. Len(TsList') - d \in 1 .. Len(TsList') /\ Len(TsList') - d + gone = len - d
      <4>1. d \in Nat /\ Len(TsList') \in Nat
        BY <1>2, <1>5, <1>8
      <4> HIDE DEF gone, len
      <4> QED
        BY <1>3, <1>d, <3>3, <4>1
    <3>5. TsList'[Len(TsList') - d] = TsList[len - d]
      <4> HIDE DEF gone, len
      <4> QED
        BY <1>2, <3>4
    <3> QED
      BY <3>1, <3>3, <3>5
  <2> QED
    BY <1>8, <1>9, <2>1 DEF Remembers
<1>12. \A i \in 1 .. Len(TsList') : i + gone \in 1 .. len
  BY <1>2, <1>3, <1>d
<1>13. ListSorted'
  <2>1. \A i \in DOMAIN TsList' : TsList'[i].host = Home
    <3> HIDE DEF gone, len
    <3> QED
      BY <1>2, <1>7, <1>12, <1>d DEF ListSorted
  <2>2. ASSUME NEW i \in DOMAIN TsList', NEW j \in DOMAIN TsList', i < j
        PROVE  TsList'[i].seg < TsList'[j].seg
    <3>1. i + gone < j + gone
      BY <1>2, <1>3, <2>2
    <3> HIDE DEF gone, len
    <3>2. i + gone \in DOMAIN TsList /\ j + gone \in DOMAIN TsList
      BY <1>2, <1>12, <1>d
    <3>3. TsList[i + gone].seg < TsList[j + gone].seg
      BY <1>7, <3>1, <3>2 DEF ListSorted
    <3> QED
      BY <1>2, <3>3
  <2> QED
    BY <2>1, <2>2 DEF ListSorted
<1>14. PendingIsNew'
  <2>1. ASSUME NEW i \in Pending', NEW j \in DOMAIN played
        PROVE  played[j] < TsList'[i].seg
    <3>1. i \in 1 .. Len(TsList') /\ i + gone \in Pending
      <4>1. Len(TsList') \in Nat /\ addedTs <= Len(TsList')
        BY <1>2
      <4>2. i \in Len(TsList') - addedTs + 1 .. Len(TsList')
        BY <1>2
      <4> HIDE DEF gone, len
      <4>3. i + gone \in len - addedTs + 1 .. len
        BY <1>3, <1>d, <4>1, <4>2
      <4> QED
        BY <1>1, <1>d, <4>1, <4>2, <4>3
    <3> HIDE DEF gone, len
    <3>2. TsList'[i] = TsList[i + gone]
      BY <1>2, <3>1
    <3> QED
      BY <1>7, <3>1, <3>2 DEF PendingIsNew
  <2> QED
    BY <1>1, <1>7, <1>9, <2>1 DEF PendingIsNew
<1> QED
  BY <1>1, <1>4, <1>7, <1>10, <1>11, <1>13, <1>14 DEF InOrderInv

(* What PlaySegment sends is newer than all that was sent before, and      *)
(* published.                                                              *)
LEMMA PlaysNewer ==
    ASSUME ViewerInv, InOrderInv, pc = "play", readPos \in 1 .. Len(TsList)
    PROVE  /\ TsList[readPos].seg \in 1 .. last
           /\ \A j \in DOMAIN played : played[j] < TsList[readPos].seg
<1>1. TypeOK /\ ListSorted /\ PendingIsNew
  BY DEF ViewerInv, InOrderInv
<1>2. readPos \in Pending /\ readPos \in DOMAIN TsList
  BY <1>1, ListDomains DEF Pending
<1>3. PICK n \in 0 .. last : Remembers(n)
  BY DEF InOrderInv
<1>4. Newest \in Nat /\ TsList[readPos].seg \in Segments /\ TsList[readPos].seg <= Newest
  BY <1>1, <1>2, NewestFacts
<1>5. Newest <= n /\ last \in Nat
  BY <1>1, <1>3, HlsViewerAssumption DEF Remembers, TypeOK
<1>6. TsList[readPos].seg \in 1 .. last
  BY <1>4, <1>5 DEF Segments
<1> QED
  BY <1>1, <1>2, <1>6 DEF PendingIsNew

LEMMA OrderPlay ==
    ASSUME NeverBack, ViewerInv, InOrderInv, PlaySegment
    PROVE  InOrderInv'
<1>t. TypeOK /\ TypeOK'
  BY InvStep DEF ViewerInv, Next, Viewer
<1>d. /\ Len(TsList) \in Nat /\ DOMAIN TsList = 1 .. Len(TsList) /\ TsList \in Seq(Uris)
      /\ Len(played) \in Nat /\ DOMAIN played = 1 .. Len(played) /\ played \in Seq(Segments)
  BY <1>t, ListDomains
<1>1. /\ UNCHANGED <<VideoUri, PlayList, last>> /\ pc = "play" /\ pc' \in {"play", "failed"}
      /\ readPos \in 1 .. Len(TsList) /\ last' >= last
      /\ Pending = readPos .. Len(TsList)
  <2>1. /\ UNCHANGED <<VideoUri, PlayList, last>> /\ pc = "play" /\ pc' \in {"play", "failed"}
        /\ readPos <= Len(TsList)
    BY DEF PlaySegment, world
  <2>2. readPos \in 1 .. Len(TsList)
    BY <1>d, <2>1 DEF ViewerInv, ReadPosInRange
  <2>3. last' >= last
    BY <1>t, <2>1, HlsViewerAssumption DEF TypeOK
  <2> QED
    BY <2>1, <2>2, <2>3 DEF Pending
<1>2. TsList' = TsList
  <2>1. CASE UNCHANGED TsList
    BY <2>1
  <2>2. CASE ~UNCHANGED TsList
    <3>1. TsList' = [TsList EXCEPT ![readPos].host = TsList[readPos].host]
      BY <2>2 DEF PlaySegment, Reached, NeverBack
    <3>2. TsList[readPos] \in Uris
      BY <1>1, <1>d, ElementOfSeq
    <3>3. [TsList[readPos] EXCEPT !.host = TsList[readPos].host] = TsList[readPos]
      BY <3>2 DEF Uris
    <3>4. TsList' = [TsList EXCEPT ![readPos] = TsList[readPos]]
      BY <3>1, <3>3
    <3> QED
      BY <1>d, <3>4
  <2> QED
    BY <2>1, <2>2
<1>3. Pending' \subseteq Pending
  <2>1. CASE pc' = "failed"
    BY <2>1 DEF Pending
  <2>2. CASE pc' # "failed"
    <3>1. readPos' = readPos + 1 /\ pc' = "play"
      BY <1>1, <2>2 DEF PlaySegment
    <3>2. Pending' = readPos + 1 .. Len(TsList)
      BY <1>2, <3>1 DEF Pending
    <3> QED
      BY <1>1, <1>d, <3>2
  <2> QED
    BY <2>1, <2>2
<1>4. CASE UNCHANGED played
  BY <1>1, <1>2, <1>3, <1>4, <1>t, OrderFrame
<1>5. CASE ~UNCHANGED played
  <2>1. /\ played' = Append(played, TsList[readPos].seg) /\ pc' = "play"
        /\ readPos' = readPos + 1
    BY <1>1, <1>5 DEF PlaySegment
  <2>2. Pending' = readPos + 1 .. Len(TsList)
    BY <1>2, <2>1 DEF Pending
  <2>3. PICK n \in 0 .. last : Shows(n) /\ Remembers(n)
    BY DEF InOrderInv
  <2>4. Newest' = Newest
    BY <1>2 DEF Newest
  <2>5. Shows(n)' /\ Remembers(n)' /\ ListSorted /\ ListSorted' /\ PendingIsNew
    BY <1>1, <1>2, <2>3, <2>4 DEF Shows, Remembers, ListSorted, InOrderInv
  <2>6. /\ Newest \in Nat /\ TsList[readPos].seg \in Segments /\ TsList[readPos].seg <= Newest
        /\ \A i \in 1 .. Len(TsList) : TsList[i].seg \in Segments
    BY <1>1, <1>d, <1>t, <2>5, NewestFacts
  <2>7. /\ DOMAIN played' = 1 .. Len(played) + 1
        /\ \A j \in 1 .. Len(played) : played'[j] = played[j]
        /\ played'[Len(played) + 1] = TsList[readPos].seg
    <3>1. /\ played' \in Seq(Segments) /\ Len(played') = Len(played) + 1
          /\ \A j \in 1 .. Len(played) : played'[j] = played[j]
          /\ played'[Len(played) + 1] = TsList[readPos].seg
      BY <1>d, <2>1, <2>6, AppendList
    <3> QED
      BY <3>1, LenProperties
  <2>8. ASSUME NEW j \in DOMAIN played'
        PROVE  played'[j] <= Newest
    BY <1>d, <2>5, <2>6, <2>7 DEF PendingIsNew
  <2>9. ASSUME NEW i \in Pending', NEW j \in DOMAIN played'
        PROVE  played'[j] < TsList[i].seg
    <3>1. i \in Pending /\ i \in DOMAIN TsList /\ readPos \in DOMAIN TsList /\ readPos < i
      BY <1>1, <1>d, <2>2
    <3>2. CASE j = Len(played) + 1
      BY <2>5, <2>7, <3>1, <3>2 DEF ListSorted
    <3>3. CASE j # Len(played) + 1
      <4>1. j \in DOMAIN played /\ played'[j] = played[j]
        BY <1>d, <2>7, <3>3
      <4> QED
        BY <2>5, <3>1, <4>1 DEF PendingIsNew
    <3> QED
      BY <3>2, <3>3
  <2>10. PendingIsNew'
    BY <1>2, <2>4, <2>8, <2>9 DEF PendingIsNew
  <2>11. VideoUri' = Home
    BY <1>1 DEF InOrderInv
  <2> QED
    BY <1>1, <2>1, <2>3, <2>5, <2>10, <2>11 DEF InOrderInv
<1> QED
  BY <1>4, <1>5

LEMMA OrderStep ==
    ASSUME NeverBack PROVE ViewerInv /\ InOrderInv /\ [Next]_vars => InOrderInv'
<1> SUFFICES ASSUME ViewerInv, InOrderInv, [Next]_vars PROVE InOrderInv'
  OBVIOUS
<1>t. TypeOK /\ TypeOK' /\ VideoUri = Home
  BY InvStep DEF ViewerInv, InOrderInv
<1>l. last \in Nat /\ last' \in Nat
  BY <1>t, HlsViewerAssumption DEF TypeOK
<1>1. CASE FirstRead
  <2>1. /\ UNCHANGED <<TsList, played, last, it, uniqts, addedTs, lastTs>> /\ Pending' = {}
        /\ pc = "first" /\ pc' \in {"failed", "done", "select"}
        /\ ReadM3U8(IF isHead THEN "done" ELSE "select")
    BY <1>1 DEF FirstRead, ReadM3U8, Pending, scan, hist, world
  <2>2. CASE pc' = "failed" /\ UNCHANGED <<VideoUri, PlayList>>
    BY <1>l, <1>t, <2>1, <2>2, OrderFrame
  <2>3. CASE VideoUri' = Home /\ \A n : n = last => Shows(n)'
    BY <1>t, <2>1, <2>3, OrderRead
  <2> QED
    BY <1>t, <2>1, <2>2, <2>3, ReadInOrder
<1>2. CASE SelectStream
  <2>1. /\ UNCHANGED <<TsList, played, last, it, uniqts, addedTs, lastTs>>
        /\ pc = "select" /\ pc' \in {"failed", "scan"}
        /\ TsList = <<>> /\ it = 1 /\ uniqts = 0 /\ addedTs = 0 /\ lastTs = {}
    BY <1>2 DEF SelectStream, ReadM3U8, scan, hist, world, InOrderInv
  <2>2. Pending' = {}
    <3>1. Len(TsList') = 0 /\ addedTs' = 0
      BY <2>1
    <3>2. Len(TsList') - addedTs' + 1 .. Len(TsList') = {}
      BY <3>1
    <3> QED
      BY <2>1, <3>2 DEF Pending
  <2>3. CASE UNCHANGED <<VideoUri, PlayList>>
    <3>1. CASE pc' = "failed"
      BY <1>l, <1>t, <2>1, <2>2, <2>3, <3>1, OrderFrame
    <3>2. CASE pc' = "scan"
      <4>1. PICK n \in 0 .. last : Shows(n) /\ Remembers(n)
        BY DEF InOrderInv
      <4>2. Newest' = Newest
        BY <2>1 DEF Newest
      <4>3. Shows(n)' /\ Remembers(n)'
        BY <2>1, <2>3, <4>1, <4>2 DEF Shows, Remembers
      <4>4. Shown(n) \in Nat
        <5>1. n \in Nat
          BY <1>l
        <5> QED
          BY <5>1, ShownNumbers
      <4>5. Scanned(n)'
        BY <2>1, <4>4 DEF Scanned
      <4>6. ListSorted' /\ PendingIsNew'
        BY <2>1, <2>2, <4>2 DEF InOrderInv, ListSorted, PendingIsNew
      <4>7. VideoUri' = Home /\ last' = last
        BY <1>t, <2>1, <2>3
      <4> QED
        BY <3>2, <4>1, <4>3, <4>5, <4>6, <4>7 DEF InOrderInv
    <3> QED
      BY <2>1, <3>1, <3>2
  <2>4. CASE ~UNCHANGED <<VideoUri, PlayList>>
    <3>1. ReadM3U8("scan")
      BY <1>2, <2>4 DEF SelectStream
    <3>2. pc' = "scan" /\ VideoUri' = Home /\ \A n : n = last => Shows(n)'
      BY <1>t, <2>4, <3>1, ReadInOrder
    <3> QED
      BY <1>t, <2>1, <2>2, <3>2, OrderRead
  <2> QED
    BY <2>3, <2>4
<1>3. CASE ScanSegment
  BY <1>3, OrderScan
<1>4. CASE ScanBad
  <2>1. /\ pc' = "failed" /\ UNCHANGED <<VideoUri, TsList, played, PlayList, last>>
        /\ Pending' = {}
    BY <1>4 DEF ScanBad, Pending, hist, world
  <2> QED
    BY <1>l, <1>t, <2>1, OrderFrame
<1>5. CASE ScanEndList
  <2>1. /\ pc = "scan" /\ pc' = "scan" /\ it' = it + 1 /\ it \in DOMAIN PlayList
        /\ PlayList[it].tag = "ENDLIST"
        /\ UNCHANGED <<VideoUri, TsList, played, PlayList, last, uniqts, addedTs, lastTs>>
    BY <1>5, <1>t, ListDomains DEF ScanEndList, hist, world
  <2>2. Newest' = Newest /\ Pending' = Pending
    BY <2>1 DEF Newest, Pending
  <2>3. PICK n \in 0 .. last : Shows(n) /\ Remembers(n) /\ Scanned(n)
    BY <2>1 DEF InOrderInv
  <2>4. ~(it <= Shown(n)) /\ ~(it' <= Shown(n))
    <3>1. ~(it <= Shown(n))
      BY <2>1, <2>3 DEF Shows
    <3>2. Shown(n) \in Nat /\ it \in Nat
      <4>1. n \in Nat
        BY <1>l
      <4> QED
        BY <1>t, <4>1, ShownNumbers DEF TypeOK
    <3> QED
      BY <2>1, <3>1, <3>2
  <2>5. Shows(n)' /\ Remembers(n)' /\ Scanned(n)'
    BY <2>1, <2>2, <2>3, <2>4 DEF Shows, Remembers, Scanned
  <2>6. ListSorted' /\ PendingIsNew' /\ VideoUri' = Home
    BY <1>t, <2>1, <2>2 DEF InOrderInv, ListSorted, PendingIsNew
  <2> QED
    BY <2>1, <2>3, <2>5, <2>6 DEF InOrderInv
<1>6. CASE NothingNew
  <2>1. /\ pc' \in {"done", "failed", "read"} /\ Pending' = {}
        /\ UNCHANGED <<VideoUri, TsList, played, PlayList, last>>
    BY <1>6 DEF NothingNew, Pending, scan, hist, world
  <2> QED
    BY <1>l, <1>t, <2>1, OrderFrame
<1>7. CASE SomethingNew
  BY <1>7, OrderPrune
<1>8. CASE PlaySegment
  BY <1>8, OrderPlay
<1>9. CASE Played
  <2>1. /\ pc' \in {"done", "read"} /\ Pending' = {}
        /\ UNCHANGED <<VideoUri, TsList, played, PlayList, last>>
    BY <1>9 DEF Played, Pending, scan, hist, world
  <2> QED
    BY <1>l, <1>t, <2>1, OrderFrame
<1>10. CASE ReadAgain
  <2>1. /\ UNCHANGED <<TsList, played, last>> /\ it' = 1 /\ uniqts' = 0 /\ lastTs' = {}
        /\ addedTs' = 0 /\ pc' \in {"failed", "scan"} /\ ReadM3U8("scan")
    BY <1>10 DEF ReadAgain, ReadM3U8, hist, world
  <2>2. Pending' = {}
    <3>1. Len(TsList') \in Nat
      BY <1>t, LenProperties DEF TypeOK
    <3>2. Len(TsList') - addedTs' + 1 .. Len(TsList') = {}
      BY <2>1, <3>1
    <3> QED
      BY <2>1, <3>2 DEF Pending
  <2>3. CASE pc' = "failed" /\ UNCHANGED <<VideoUri, PlayList>>
    BY <1>l, <1>t, <2>1, <2>2, <2>3, OrderFrame
  <2>4. CASE VideoUri' = Home /\ \A n : n = last => Shows(n)'
    BY <1>t, <2>1, <2>2, <2>4, OrderRead
  <2> QED
    BY <1>t, <2>1, <2>3, <2>4, ReadInOrder
<1>11. CASE Publish \/ EndStream \/ ClientLeaves \/ Stop \/ UNCHANGED vars
  <2>1. /\ UNCHANGED <<VideoUri, TsList, played, PlayList, pc, it, uniqts, addedTs, lastTs, readPos>>
        /\ last' = last \/ last' = last + 1
    BY <1>11 DEF Publish, EndStream, ClientLeaves, Stop, vars, scan, hist, world
  <2>2. last' >= last /\ Pending' = Pending
    BY <1>l, <2>1 DEF Pending
  <2> QED
    BY <1>t, <2>1, <2>2, OrderFrame
<1> QED
  BY <1>1, <1>2, <1>3, <1>4, <1>5, <1>6, <1>7, <1>8, <1>9, <1>10, <1>11
  DEF Next, Viewer, Over

(* What the scan has passed and what is to be played are sorted, unplayed  *)
(* and remembered, if playlists never go back and nothing is redirected.   *)
THEOREM LiveInvariance ==
    ASSUME NeverBack PROVE Spec => []LiveInv
<1>1. Init => LiveInv
  BY InvInit, CompleteInit, OrderInit DEF LiveInv
<1>2. LiveInv /\ [Next]_vars => LiveInv'
  BY InvStep, CompleteStep, OrderStep DEF LiveInv
<1> QED
  BY <1>1, <1>2, PTL DEF Spec

(* What is to be played is unplayed, whatever the sizes of windows and     *)
(* histories, however many segments come between two reads, when the       *)
(* playlists that are read never go back and nothing is redirected.  The   *)
(* runs hls_forgotten and hls_moved show that both are needed.             *)
THEOREM PlaysOnlyUnplayed ==
    ASSUME NeverBack PROVE Spec => []OnlyUnplayed
<1>1. InOrderInv /\ ViewerInv => OnlyUnplayed
  <2> SUFFICES ASSUME InOrderInv, ViewerInv, pc = "play",
                      NEW i \in readPos .. Len(TsList), WasPlayed(TsList[i].seg)
               PROVE  FALSE
    BY DEF OnlyUnplayed
  <2>1. i \in Pending /\ PendingIsNew
    BY DEF Pending, InOrderInv
  <2>2. PICK j \in DOMAIN played : played[j] = TsList[i].seg
    BY DEF WasPlayed
  <2>3. played[j] < TsList[i].seg
    BY <2>1 DEF PendingIsNew
  <2>4. played[j] \in Nat
    <3>1. played \in Seq(Segments) /\ DOMAIN played = 1 .. Len(played)
      BY ListDomains DEF ViewerInv
    <3> QED
      BY <3>1, ElementOfSeq, SegmentsNat
  <2> QED
    BY <2>2, <2>3, <2>4
<1> QED
  BY <1>1, LiveInvariance, PTL DEF LiveInv

(* Such a session implements Playback: segments are published one after    *)
(* the other, and those the client gets come in that order, each at most   *)
(* once.                                                                   *)
THEOREM ImplementsPlayback ==
    ASSUME NeverBack PROVE Spec => PlaysInOrder
<1>1. Init => P!Init
  BY DEF Init, P!Init
<1>2. ViewerInv /\ InOrderInv /\ [Next]_vars => [P!Next]_<<last, played>>
  <2> SUFFICES ASSUME ViewerInv, InOrderInv, [Next]_vars, ~UNCHANGED <<last, played>>
               PROVE  P!Next
    OBVIOUS
  <2>1. CASE Publish
    BY <2>1 DEF Publish, P!Publish, P!Next
  <2>2. CASE PlaySegment /\ ~UNCHANGED played
    <3>1. /\ played' = Append(played, TsList[readPos].seg) /\ pc = "play" /\ last' = last
          /\ readPos <= Len(TsList)
      BY <2>2 DEF PlaySegment, world
    <3>2. readPos \in 1 .. Len(TsList) /\ played \in Seq(Segments)
      <4>1. Len(TsList) \in Nat /\ played \in Seq(Segments)
        BY ListDomains DEF ViewerInv
      <4> QED
        BY <3>1, <4>1 DEF ViewerInv, ReadPosInRange
    <3>3. /\ TsList[readPos].seg \in 1 .. last
          /\ \A j \in DOMAIN played : played[j] < TsList[readPos].seg
      BY <3>1, <3>2, PlaysNewer
    <3>4. P!Latest < TsList[readPos].seg /\ P!Latest \in Nat
      <4>1. CASE played = <<>>
        BY <3>3, <4>1 DEF P!Latest
      <4>2. CASE played # <<>>
        <5>1. Len(played) \in DOMAIN played /\ played[Len(played)] \in Segments
          BY <3>2, <4>2, LenProperties, EmptySeq, ElementOfSeq
        <5> QED
          BY <3>3, <4>2, <5>1 DEF P!Latest, Segments
      <4> QED
        BY <4>1, <4>2
    <3>5. TsList[readPos].seg \in P!Latest + 1 .. last
      <4>1. last \in Nat
        BY HlsViewerAssumption DEF ViewerInv, TypeOK
      <4> QED
        BY <3>3, <3>4, <4>1
    <3> QED
      BY <3>1, <3>5 DEF P!Play, P!Next
  <2> QED
    BY <2>1, <2>2 DEF Next, Viewer, Over, vars, world, FirstRead, SelectStream, ScanSegment,
       ScanBad, ScanEndList, NothingNew, SomethingNew, PlaySegment, Played, ReadAgain,
       EndStream, ClientLeaves, Stop
<1> QED
  BY <1>1, <1>2, LiveInvariance, PTL DEF Spec, LiveInv, PlaysInOrder, P!Spec
-----------------------------------------------------------------------------
(* What SessionEnds rests on besides the fairness of the child process: a  *)
(* session that has been stopped only goes forward.  Its reads are ordered *)
(* by the count of playlists with nothing new, which starts again at zero  *)
(* only on the way to "play", and from there a stopped session ends.       *)
Phase(loc) ==
    CASE loc = "first"           -> 0
      [] loc = "select"          -> 1
      [] loc \in {"read", "scan"} -> 2
      [] loc = "play"            -> 3
      [] OTHER                   -> 4

(* A record more has been scanned.                                         *)
ScansOn ==
    /\ pc = "scan" /\ pc' = "scan"
    /\ it <= Len(PlayList) /\ it' = it + 1 /\ PlayList' = PlayList

(* One more of the at most six reads with nothing new, or one of its steps.*)
ReadsOn ==
    /\ Phase(pc) = 2 /\ Phase(pc') = 2
    /\ \/ emptCnt < emptCnt'
       \/ emptCnt' = emptCnt /\ ((pc = "read" /\ pc' = "scan") \/ ScansOn)

Advances == Phase(pc) < Phase(pc') \/ ReadsOn
Position == <<pc, emptCnt, it, PlayList, good>>

StoppedAdvances ==
    ~good => /\ Viewer => Advances
             /\ Advances \/ UNCHANGED Position

LEMMA StoppedStep == ViewerInv /\ [Next]_vars => StoppedAdvances
<1> SUFFICES ASSUME ViewerInv, [Next]_vars, ~good PROVE StoppedAdvances
  BY DEF StoppedAdvances
<1> USE DEF Advances, ReadsOn, Phase
<1>1. ASSUME Viewer PROVE Advances
  <2>1. CASE FirstRead
    BY <2>1 DEF FirstRead, ReadM3U8
  <2>2. CASE SelectStream
    BY <2>2 DEF SelectStream, ReadM3U8
  <2>3. CASE ScanSegment
    BY <2>3 DEF ScanSegment, ScansOn
  <2>4. CASE ScanBad
    BY <2>4 DEF ScanBad
  <2>5. CASE ScanEndList
    BY <2>5 DEF ScanEndList, ScansOn
  <2>6. CASE NothingNew
    <3>1. emptCnt < emptCnt'
      BY <2>6 DEF NothingNew, ViewerInv, TypeOK
    <3> QED
      BY <2>6, <3>1 DEF NothingNew
  <2>7. CASE SomethingNew
    BY <2>7 DEF SomethingNew
  <2>8. CASE PlaySegment
    BY <2>8 DEF PlaySegment
  <2>9. CASE Played
    BY <2>9 DEF Played
  <2>10. CASE ReadAgain
    BY <2>10 DEF ReadAgain, ReadM3U8
  <2> QED
    BY <1>1, <2>1, <2>2, <2>3, <2>4, <2>5, <2>6, <2>7, <2>8, <2>9, <2>10 DEF Viewer
<1>2. CASE Viewer
  BY <1>1, <1>2 DEF StoppedAdvances
<1>3. ASSUME ~Viewer PROVE StoppedAdvances
  <2>1. Publish \/ EndStream \/ ClientLeaves \/ Stop \/ Over \/ UNCHANGED vars
    BY <1>3 DEF Next
  <2>2. UNCHANGED Position
    <3>1. CASE Publish
      BY <3>1 DEF Publish, scan, Position
    <3>2. CASE EndStream
      BY <3>2 DEF EndStream, scan, Position
    <3>3. CASE ClientLeaves
      BY <3>3 DEF ClientLeaves, scan, Position
    <3>4. CASE Stop
      BY <3>4 DEF Stop
    <3>5. CASE Over \/ UNCHANGED vars
      BY <3>5 DEF Over, vars, Position
    <3> QED
      BY <2>1, <3>1, <3>2, <3>3, <3>4, <3>5
  <2> QED
    BY <1>3, <2>2 DEF StoppedAdvances
<1> QED
  BY <1>2, <1>3

(* SIGHUP's Stop is enough to end a session at some time: from then on     *)
(* every step of the child takes it forward in an order with no endless    *)
(* ascent, the number of reads left being bounded, and nothing around it   *)
(* takes it back.                                                          *)
THEOREM StoppedGoesForward == Spec => [][StoppedAdvances]_vars
<1>1. Spec => []ViewerInv
  BY Invariant
<1>2. ViewerInv /\ [Next]_vars => StoppedAdvances
  BY StoppedStep
<1> QED
  BY <1>1, <1>2, PTL DEF Spec
=============================================================================

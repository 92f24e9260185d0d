--------------------------- MODULE Capture_proofs ---------------------------
(***************************************************************************)
(* Proofs about the audio a client captures, for every value of the        *)
(* constants: the write-ahead log the gateways keep, with and without      *)
(* failing file operations, then the client that forwards a device's       *)
(* frames to the hub, then the pass that uploads the log.                   *)
(***************************************************************************)
EXTENDS CaptureDrain, DeviceAudioForwarder, FoldLemmas

-----------------------------------------------------------------------------
(* Maxima                                                                   *)

(* The maximum of bounded naturals is one of them and bounds the others.    *)
LEMMA MaxOfNaturals ==
  ASSUME NEW S \in SUBSET Nat, S # {},
         NEW b \in Nat, \A x \in S : x <= b
  PROVE  Max(S) \in S /\ \A x \in S : x <= Max(S)
<1>1. IsFiniteSet(S)
  BY FS_BoundedSetOfNaturals
<1> QED
  BY <1>1, Greatest

(* The sequence an opening continues from is above every file it found.     *)
LEMMA AfterScanAbove ==
  ASSUME TypeOK, SequenceOrder
  PROVE  AfterScan(Files) \in Nat /\ \A f \in Files : f.seq < AfterScan(Files)
<1> DEFINE S == {f.seq : f \in Files}
<1>1. S \in SUBSET Nat /\ nextSeq \in Nat /\ \A x \in S : x <= nextSeq
  BY DEF TypeOK, SequenceOrder, Files, Segment
<1>2. CASE Files = {}
  BY <1>2 DEF AfterScan
<1>3. CASE Files # {}
  <2>1. S # {}
    BY <1>3
  <2>2. Max(S) \in S /\ \A x \in S : x <= Max(S)
    BY <1>1, <2>1, MaxOfNaturals
  <2>3. AfterScan(Files) = Max(S) + 1
    BY <1>3 DEF AfterScan
  <2>4. PICK m \in Nat : m = Max(S)
    BY <1>1, <2>2
  <2>5. \A f \in Files : f.seq \in Nat /\ f.seq <= m
    BY <1>1, <2>2, <2>4
  <2>6. AfterScan(Files) = m + 1
    BY <2>3, <2>4
  <2> HIDE DEF S
  <2> QED
    BY <2>5, <2>6
<1> QED
  BY <1>2, <1>3

-----------------------------------------------------------------------------
(* Files                                                                    *)

(* Eviction only takes files away.                                          *)
LEMMA EvictTakes ==
  ASSUME NEW files
  PROVE  Evict(files) \subseteq files
BY DEF Evict, Kept, Fresh, Listed

(* A begun segment is an empty segment under the next sequence.             *)
LEMMA BegunSegment ==
  ASSUME TypeOK, NEW id \in SegmentId, NEW start \in Nat
  PROVE  /\ Begun(id, start) \in Segment
         /\ Begun(id, start).seq = nextSeq /\ Begun(id, start).audio = <<>>
         /\ Begun(id, start).id = id
BY DEF TypeOK, Segment, Begun

(* So is a file whose header line was never written.                        *)
LEMMA HeadlessSegment ==
  ASSUME TypeOK
  PROVE  /\ Headless \in Segment /\ Headless.seq = nextSeq /\ Headless.audio = <<>>
         /\ ~Headless.header
<1>1. LiveId(0) \in SegmentId
  BY DEF LiveId, SegmentId
<1> QED
  BY <1>1, BegunSegment DEF Headless, Begun, Segment, TypeOK

(* How many frames of a range reach its segment is a natural number.        *)
LEMMA WrittenType ==
  ASSUME NEW s \in Sources
  PROVE  Written(s) \in Nat
<1>1. RangeLength[s] \in Nat /\ MaxSegmentBytes \in Nat
  BY RangeAssumption, BoundsAssumption
<1>2. CASE RangeLength[s] <= MaxSegmentBytes
  BY <1>1, <1>2 DEF Written, Min
<1>3. CASE RangeLength[s] > MaxSegmentBytes
  BY <1>1, <1>3 DEF Written, Min
<1> QED
  BY <1>1, <1>2, <1>3

(* An imported range is a segment under the next sequence.                  *)
LEMMA RingSegmentType ==
  ASSUME TypeOK, NEW s \in Sources, NEW k \in Nat
  PROVE  /\ RingSegment(s, k) \in Segment
         /\ RingSegment(s, k).seq = nextSeq
         /\ RingSegment(s, k).audio = RangeAudio(s, k) /\ RingSegment(s, k).id = RingId(s)
<1>1. RingId(s) \in SegmentId /\ RangeStart[s] \in Nat
  BY RangeAssumption DEF RingId, SegmentId
<1>2. RangeAudio(s, k) \in Seq(Frame)
  BY DEF RangeAudio, RingFrame, Frame
<1> QED
  BY <1>1, <1>2 DEF RingSegment, Begun, Segment, TypeOK

(* Sealing with eviction adds no file but those handed to it.               *)
LEMMA SealAndEvictTakes ==
  ASSUME NEW files, NEW due, SealAndEvict(files, due)
  PROVE  sealed' \subseteq files /\ owed' \subseteq due
BY EvictTakes DEF SealAndEvict

(* A frame more at the end of a segment leaves it a segment of its name.    *)
LEMMA GrownSegment ==
  ASSUME NEW o \in Segment, NEW last \in Frame
  PROVE  LET grown == [o EXCEPT !.audio = Append(@, last)] IN
         /\ grown \in Segment /\ grown.seq = o.seq
         /\ grown.id = o.id /\ grown.header = o.header
BY DEF Segment

(* Live frames and torn writes have the type of frames.                     *)
LEMMA FrameTypes ==
  Torn \in Frame /\ \A n \in Nat : LiveFrame(n) \in Frame
BY DEF Torn, LiveFrame, Frame

-----------------------------------------------------------------------------
(* The inductive invariant                                                  *)

IInv == TypeOK /\ SequenceOrder

(* A hub that was just started, with an empty directory.                    *)
LEMMA InitIInv == Init => IInv
<1> SUFFICES ASSUME Init PROVE IInv
  OBVIOUS
<1>1. TypeOK
  BY DEF Init, TypeOK
<1>2. SequenceOrder
  BY DEF Init, SequenceOrder, Files
<1> QED
  BY <1>1, <1>2 DEF IInv

(* Every command, failure and death keeps the types.                        *)
LEMMA TypeStep ==
  ASSUME IInv, Next
  PROVE  TypeOK'
<1> USE DEF IInv
<1>1. CASE Open
  <2>1. nextSeq' \in Nat
    BY <1>1, AfterScanAbove DEF Open
  <2>2. PICK left \in SUBSET (open \cup orphans) :
          SealAndEvict(Files \ left, owed) /\ orphans' = left
    BY <1>1 DEF Open
  <2>3. sealed' \subseteq Files /\ owed' \subseteq owed
    BY <2>2, SealAndEvictTakes
  <2> QED
    BY <1>1, <2>1, <2>2, <2>3 DEF Open, TypeOK, Files
<1>2. CASE Close
  BY <1>2 DEF Close, TypeOK
<1>3. CASE BeginSegment
  <2>1. LiveId(minted) \in SegmentId
    BY DEF LiveId, SegmentId, TypeOK
  <2>2. Begun(LiveId(minted), now) \in Segment
    BY <2>1, BegunSegment DEF TypeOK
  <2> QED
    BY <1>3, <2>2 DEF BeginSegment, TypeOK
<1>4. CASE AppendUnheld
  BY <1>4 DEF AppendUnheld, TypeOK
<1>5. CASE AppendLive
  <2>1. PICK o \in open :
          LET grown == [o EXCEPT !.audio = Append(@, LiveFrame(offered))]
              due == owed \cup ({LiveFrame(offered)} \cap Recovered(grown.audio)) IN
          \/ open' = {grown} /\ owed' = due /\ sealed' = sealed /\ orphans' = orphans
          \/ open' = {} /\ SealAndEvict(sealed \cup {grown}, due) /\ orphans' = orphans
          \/ open' = {} /\ orphans' = orphans \cup {grown} /\ owed' = due
             /\ sealed' = sealed
    BY <1>5 DEF AppendLive
  <2> DEFINE grown == [o EXCEPT !.audio = Append(@, LiveFrame(offered))]
             due == owed \cup ({LiveFrame(offered)} \cap Recovered(grown.audio))
  <2>2. grown \in Segment /\ due \subseteq Frame
    BY GrownSegment, FrameTypes DEF TypeOK
  <2>3. CASE open' = {grown} /\ owed' = due /\ sealed' = sealed /\ orphans' = orphans
    BY <1>5, <2>2, <2>3 DEF AppendLive, TypeOK
  <2>4. CASE open' = {} /\ SealAndEvict(sealed \cup {grown}, due) /\ orphans' = orphans
    <3>1. sealed' \subseteq sealed \cup {grown} /\ owed' \subseteq due
      BY <2>4, SealAndEvictTakes
    <3> QED
      BY <1>5, <2>2, <2>4, <3>1 DEF AppendLive, TypeOK
  <2>5. CASE open' = {} /\ orphans' = orphans \cup {grown} /\ owed' = due
             /\ sealed' = sealed
    BY <1>5, <2>2, <2>5 DEF AppendLive, TypeOK
  <2> QED
    BY <2>1, <2>3, <2>4, <2>5
<1>6. CASE Seal
  <2>1. sealed' \subseteq sealed \cup open /\ owed' \subseteq owed
    BY <1>6, SealAndEvictTakes DEF Seal
  <2> QED
    BY <1>6, <2>1 DEF Seal, TypeOK
<1>7. ASSUME NEW s \in Sources, ImportRange(s) PROVE TypeOK'
  <2>1. sealed' \subseteq sealed \cup open \cup {RingSegment(s, Written(s))}
        /\ owed' \subseteq owed
    BY <1>7, SealAndEvictTakes DEF ImportRange
  <2>2. RingSegment(s, Written(s)) \in Segment
    BY WrittenType, RingSegmentType
  <2> QED
    BY <1>7, <2>1, <2>2 DEF ImportRange, TypeOK
<1>8. ASSUME NEW f \in Listed(sealed), RemoveSegment(f) PROVE TypeOK'
  BY <1>8 DEF RemoveSegment, TypeOK
<1>9. CASE OpenFails
  BY <1>9 DEF OpenFails, TypeOK
<1>10. CASE BeginFails
  BY <1>10, HeadlessSegment DEF BeginFails, TypeOK
<1>11. CASE AppendFails
  <2>1. PICK o \in open : open' \in {{o}, {[o EXCEPT !.audio = Append(@, Torn)]}}
    BY <1>11 DEF AppendFails
  <2>2. [o EXCEPT !.audio = Append(@, Torn)] \in Segment
    BY GrownSegment, FrameTypes DEF TypeOK
  <2>3. open' \subseteq Segment /\ \A p, q \in open' : p = q
    BY <2>1, <2>2 DEF TypeOK
  <2> QED
    BY <1>11, <2>3 DEF AppendFails, TypeOK
<1>12. CASE SealFails
  BY <1>12 DEF SealFails, TypeOK
<1>13. ASSUME NEW s \in Sources, NEW k \in Nat, ImportFails(s, k) PROVE TypeOK'
  <2>1. RingSegment(s, k) \in Segment
    BY RingSegmentType
  <2>2. [RingSegment(s, k) EXCEPT !.audio = Append(@, Torn)] \in Segment
    BY <2>1, GrownSegment, FrameTypes
  <2>3. /\ sealed' = sealed \cup open
        /\ orphans' \subseteq orphans \cup {RingSegment(s, k)}
        /\ open' \in {{}, {RingSegment(s, k)},
                      {[RingSegment(s, k) EXCEPT !.audio = Append(@, Torn)]}}
    BY <1>13 DEF ImportFails
  <2>4. open' \subseteq Segment /\ \A p, q \in open' : p = q
    BY <2>1, <2>2, <2>3
  <2>5. orphans' \subseteq Segment /\ sealed' \subseteq Segment
    BY <2>1, <2>3 DEF TypeOK
  <2> QED
    BY <1>13, <2>4, <2>5 DEF ImportFails, TypeOK
<1>14. CASE Crash
  BY <1>14 DEF Crash, TypeOK
<1>15. CASE CrashInBegin
  BY <1>15, HeadlessSegment DEF CrashInBegin, CrashWriting, TypeOK
<1>16. ASSUME NEW s \in Sources, NEW k \in Nat, CrashInImport(s, k) PROVE TypeOK'
  BY <1>16, RingSegmentType DEF CrashInImport, CrashWriting, TypeOK
<1>17. CASE Tick
  BY <1>17 DEF Tick, TypeOK
<1>18. 0..MaxSegmentBytes \subseteq Nat
  BY BoundsAssumption
<1> QED
  BY <1>1, <1>2, <1>3, <1>4, <1>5, <1>6, <1>7, <1>8, <1>9, <1>10, <1>11, <1>12,
     <1>13, <1>14, <1>15, <1>16, <1>17, <1>18
     DEF Next, LiveCommands, Failures, Deaths

-----------------------------------------------------------------------------
(* The order of the files.  A command either keeps to the files there are,  *)
(* or makes the open one grow, or adds one under the next sequence.         *)

(* Files are sealed, evicted, removed or left behind.                       *)
LEMMA OrderKept ==
  ASSUME IInv,
         Files' \subseteq Files, nextSeq' = nextSeq, ready' => ready,
         open' \subseteq open,
         open' = {} \/ (ready' /\ sealed' \cup orphans' \subseteq sealed \cup orphans)
  PROVE  SequenceOrder'
BY DEF IInv, SequenceOrder, Files

(* The open segment grows, and may be sealed by it.                         *)
LEMMA OrderGrown ==
  ASSUME IInv, NEW o \in open, NEW grown, grown.seq = o.seq,
         Files' \subseteq sealed \cup orphans \cup {grown},
         nextSeq' = nextSeq, ready, ready',
         open' \subseteq {grown},
         open' = {} \/ sealed' \cup orphans' \subseteq sealed \cup orphans
  PROVE  SequenceOrder'
<1>1. \A f \in sealed \cup orphans : f.seq \in Nat /\ f.seq < grown.seq
  BY DEF IInv, SequenceOrder, TypeOK, Segment
<1>2. grown.seq \in Nat /\ nextSeq \in Nat /\ grown.seq < nextSeq
  BY DEF IInv, SequenceOrder, TypeOK, Segment, Files
<1>3. \A f, g \in Files' : f.seq = g.seq => f = g
  BY <1>1, <1>2 DEF IInv, SequenceOrder, Files
<1>4. \A f \in Files' : f.seq < nextSeq' /\ f.seq <= nextSeq'
  BY <1>1, <1>2 DEF IInv, SequenceOrder, Files
<1>5. \A p \in open', f \in sealed' \cup orphans' : f.seq < p.seq
  BY <1>1
<1> QED
  BY <1>3, <1>4, <1>5 DEF SequenceOrder

(* A file appears under the next sequence.                                  *)
LEMMA OrderAdded ==
  ASSUME IInv, ready, NEW added, added.seq = nextSeq,
         Files' \subseteq Files \cup {added},
         nextSeq' \in {nextSeq, nextSeq + 1}, ready' => nextSeq' = nextSeq + 1,
         open' \subseteq {added},
         open' = {} \/ (ready' /\ sealed' \cup orphans' \subseteq Files)
  PROVE  SequenceOrder'
<1>1. \A f \in Files : f.seq \in Nat /\ f.seq < added.seq
  BY DEF IInv, SequenceOrder, TypeOK, Segment, Files
<1>2. added.seq \in Nat /\ nextSeq \in Nat
  BY DEF IInv, TypeOK
<1>3. \A f, g \in Files' : f.seq = g.seq => f = g
  BY <1>1, <1>2 DEF IInv, SequenceOrder
<1>4. \A f \in Files' : f.seq <= nextSeq' /\ (ready' => f.seq < nextSeq')
  BY <1>1, <1>2
<1>5. \A p \in open', f \in sealed' \cup orphans' : f.seq < p.seq
  BY <1>1
<1> QED
  BY <1>3, <1>4, <1>5 DEF SequenceOrder

(* Every command, failure and death is one of these three.                  *)
LEMMA OrderStep ==
  ASSUME IInv, Next
  PROVE  SequenceOrder'
<1>1. CASE Open
  <2>1. PICK left \in SUBSET (open \cup orphans) :
          SealAndEvict(Files \ left, owed) /\ orphans' = left
    BY <1>1 DEF Open
  <2>2. Files' \subseteq Files /\ open' = {} /\ nextSeq' = AfterScan(Files) /\ ready'
    BY <1>1, <2>1, SealAndEvictTakes DEF Open, Files
  <2>3. nextSeq' \in Nat /\ \A f \in Files : f.seq \in Nat /\ f.seq < nextSeq'
    BY <2>2, AfterScanAbove DEF IInv, TypeOK, Segment, Files
  <2>4. \A f \in Files' : f.seq < nextSeq' /\ f.seq <= nextSeq'
    BY <2>2, <2>3
  <2> QED
    BY <2>2, <2>4 DEF IInv, SequenceOrder
<1>2. CASE Close
  BY <1>2, OrderKept DEF Close, Files
<1>3. CASE BeginSegment
  <2> DEFINE added == Begun(LiveId(minted), now)
  <2>1. added.seq = nextSeq
    BY DEF Begun
  <2>2. ready /\ ready' /\ nextSeq' = nextSeq + 1 /\ open' = {added}
        /\ sealed' = sealed \cup open /\ orphans' = orphans
    BY <1>3 DEF BeginSegment
  <2> HIDE DEF added
  <2> QED
    BY <2>1, <2>2, OrderAdded DEF Files
<1>4. CASE AppendUnheld
  BY <1>4, OrderKept DEF AppendUnheld, Files
<1>5. CASE AppendLive
  <2>1. PICK o \in open :
          LET grown == [o EXCEPT !.audio = Append(@, LiveFrame(offered))]
              due == owed \cup ({LiveFrame(offered)} \cap Recovered(grown.audio)) IN
          \/ open' = {grown} /\ sealed' = sealed /\ orphans' = orphans
          \/ open' = {} /\ SealAndEvict(sealed \cup {grown}, due) /\ orphans' = orphans
          \/ open' = {} /\ orphans' = orphans \cup {grown} /\ sealed' = sealed
    BY <1>5 DEF AppendLive
  <2> DEFINE grown == [o EXCEPT !.audio = Append(@, LiveFrame(offered))]
             due == owed \cup ({LiveFrame(offered)} \cap Recovered(grown.audio))
  <2>2. grown.seq = o.seq
    BY GrownSegment, FrameTypes DEF IInv, TypeOK
  <2>3. ready /\ ready' /\ nextSeq' = nextSeq
    BY <1>5 DEF AppendLive
  <2>4. SealAndEvict(sealed \cup {grown}, due) => sealed' \subseteq sealed \cup {grown}
    BY SealAndEvictTakes
  <2> HIDE DEF grown, due
  <2>5. /\ Files' \subseteq sealed \cup orphans \cup {grown} /\ open' \subseteq {grown}
        /\ open' = {} \/ sealed' \cup orphans' \subseteq sealed \cup orphans
    BY <2>1, <2>4 DEF Files, grown, due
  <2> QED
    BY <2>2, <2>3, <2>5, OrderGrown
<1>6. CASE Seal
  <2>1. sealed' \subseteq sealed \cup open
    BY <1>6, SealAndEvictTakes DEF Seal
  <2> QED
    BY <1>6, <2>1, OrderKept DEF Seal, Files
<1>7. ASSUME NEW s \in Sources, ImportRange(s) PROVE SequenceOrder'
  <2> DEFINE added == RingSegment(s, Written(s))
  <2>1. added.seq = nextSeq
    BY WrittenType, RingSegmentType DEF IInv
  <2>2. sealed' \subseteq sealed \cup open \cup {added}
    BY <1>7, SealAndEvictTakes DEF ImportRange
  <2>3. ready /\ nextSeq' = nextSeq + 1 /\ open' = {} /\ orphans' = orphans
    BY <1>7 DEF ImportRange
  <2> HIDE DEF added
  <2> QED
    BY <2>1, <2>2, <2>3, OrderAdded DEF Files
<1>8. ASSUME NEW f \in Listed(sealed), RemoveSegment(f) PROVE SequenceOrder'
  BY <1>8, OrderKept DEF RemoveSegment, Files
<1>9. CASE OpenFails
  BY <1>9, OrderKept DEF OpenFails, Files
<1>10. CASE BeginFails
  BY <1>10, HeadlessSegment, OrderAdded DEF BeginFails, Files, IInv
<1>11. CASE AppendFails
  <2>1. PICK o \in open : open' \in {{o}, {[o EXCEPT !.audio = Append(@, Torn)]}}
    BY <1>11 DEF AppendFails
  <2>2. [o EXCEPT !.audio = Append(@, Torn)].seq = o.seq
    BY GrownSegment, FrameTypes DEF IInv, TypeOK
  <2>3. PICK grown : grown.seq = o.seq /\ open' = {grown}
    BY <2>1, <2>2
  <2>4. ready /\ ready' /\ nextSeq' = nextSeq /\ sealed' = sealed /\ orphans' = orphans
    BY <1>11 DEF AppendFails
  <2> QED
    BY <2>3, <2>4, OrderGrown DEF Files
<1>12. CASE SealFails
  BY <1>12, OrderKept DEF SealFails, Files
<1>13. ASSUME NEW s \in Sources, NEW k \in Nat, ImportFails(s, k) PROVE SequenceOrder'
  <2> DEFINE ring == RingSegment(s, k)
             torn == [ring EXCEPT !.audio = Append(@, Torn)]
  <2>1. ring.seq = nextSeq /\ torn.seq = nextSeq
    BY RingSegmentType, GrownSegment, FrameTypes DEF IInv
  <2>2. ready /\ ready' /\ nextSeq' = nextSeq + 1 /\ sealed' = sealed \cup open
    BY <1>13 DEF ImportFails
  <2>3. \/ open' \in {{ring}, {torn}} /\ orphans' = orphans
        \/ open' = {} /\ orphans' = orphans \cup {ring}
    BY <1>13 DEF ImportFails
  <2> HIDE DEF ring, torn
  <2>4. CASE open' = {} /\ orphans' = orphans \cup {ring}
    BY <2>1, <2>2, <2>4, OrderAdded DEF Files
  <2>5. CASE open' \in {{ring}, {torn}} /\ orphans' = orphans
    <3>1. PICK added : added.seq = nextSeq /\ open' = {added}
      BY <2>1, <2>5
    <3> QED
      BY <2>2, <2>5, <3>1, OrderAdded DEF Files
  <2> QED
    BY <2>3, <2>4, <2>5
<1>14. CASE Crash
  BY <1>14, OrderKept DEF Crash, Files
<1>15. CASE CrashInBegin
  BY <1>15, HeadlessSegment, OrderAdded DEF CrashInBegin, CrashWriting, Files, IInv
<1>16. ASSUME NEW s \in Sources, NEW k \in Nat, CrashInImport(s, k) PROVE SequenceOrder'
  <2> DEFINE partial == RingSegment(s, k)
  <2>1. partial.seq = nextSeq
    BY RingSegmentType DEF IInv
  <2>2. CrashWriting(partial)
    BY <1>16 DEF CrashInImport
  <2> HIDE DEF partial
  <2> QED
    BY <2>1, <2>2, OrderAdded DEF CrashWriting, Files
<1>17. CASE Tick
  BY <1>17, OrderKept DEF Tick, Files, IInv, SequenceOrder
<1>18. 0..MaxSegmentBytes \subseteq Nat
  BY BoundsAssumption
<1> QED
  BY <1>1, <1>2, <1>3, <1>4, <1>5, <1>6, <1>7, <1>8, <1>9, <1>10, <1>11, <1>12,
     <1>13, <1>14, <1>15, <1>16, <1>17, <1>18
     DEF Next, LiveCommands, Failures, Deaths

(* Steps of others leave the log as it is.                                  *)
LEMMA IInvStutter ==
  ASSUME IInv, UNCHANGED vars
  PROVE  IInv'
<1>1. TypeOK'
  BY DEF IInv, TypeOK, vars
<1>2. SequenceOrder'
  BY DEF IInv, SequenceOrder, Files, vars
<1> QED
  BY <1>1, <1>2 DEF IInv

(* Every state of the log is well typed and its file names order the audio. *)
THEOREM IInvHolds == Spec => []IInv
<1>1. IInv /\ [Next]_vars => IInv'
  BY TypeStep, OrderStep, IInvStutter DEF IInv
<1> QED
  BY InitIInv, <1>1, PTL DEF Spec

(* The log is always of its types.                                          *)
THEOREM TypeCorrect == Spec => []TypeOK
<1>1. IInv => TypeOK
  BY DEF IInv
<1> QED
  BY IInvHolds, <1>1, PTL

(* The file names order the audio, whatever failed and whoever was killed.  *)
THEOREM SequenceOrderHolds == Spec => []SequenceOrder
<1>1. IInv => SequenceOrder
  BY DEF IInv
<1> QED
  BY IInvHolds, <1>1, PTL

-----------------------------------------------------------------------------
(* Sealed files                                                             *)

(* A new file that can be read has the next minted id, or a range's own.    *)
NewName(id) ==
  \/ id = LiveId(minted) /\ minted < MaxMinted /\ minted' = minted + 1
  \/ \E s \in Sources : id = RingId(s)

(* A file after a step was there before it, or stands in the place of the   *)
(* open one, or has the next sequence and a new name.                       *)
FileOrigin ==
  \A g \in Files' :
    \/ g \in Files
    \/ \E o \in open : g.seq = o.seq /\ g.id = o.id /\ g.header = o.header
    \/ ready /\ g.seq = nextSeq /\ (g.header => NewName(g.id))

(* Every file of the next state has one of these origins.                   *)
LEMMA FileOrigins ==
  ASSUME IInv, Next
  PROVE  FileOrigin
<1>1. CASE Open
  <2>1. PICK left \in SUBSET (open \cup orphans) :
          SealAndEvict(Files \ left, owed) /\ orphans' = left
    BY <1>1 DEF Open
  <2> QED
    BY <1>1, <2>1, SealAndEvictTakes DEF Open, Files, FileOrigin
<1>2. CASE BeginSegment
  <2> DEFINE added == Begun(LiveId(minted), now)
  <2>1. added.seq = nextSeq /\ NewName(added.id)
    BY <1>2 DEF Begun, BeginSegment, NewName
  <2>2. ready /\ open' = {added} /\ sealed' = sealed \cup open /\ orphans' = orphans
    BY <1>2 DEF BeginSegment
  <2> HIDE DEF added
  <2> QED
    BY <2>1, <2>2 DEF Files, FileOrigin
<1>3. CASE AppendLive
  <2>1. PICK o \in open :
          LET grown == [o EXCEPT !.audio = Append(@, LiveFrame(offered))]
              due == owed \cup ({LiveFrame(offered)} \cap Recovered(grown.audio)) IN
          \/ open' = {grown} /\ sealed' = sealed /\ orphans' = orphans
          \/ open' = {} /\ SealAndEvict(sealed \cup {grown}, due) /\ orphans' = orphans
          \/ open' = {} /\ orphans' = orphans \cup {grown} /\ sealed' = sealed
    BY <1>3 DEF AppendLive
  <2> DEFINE grown == [o EXCEPT !.audio = Append(@, LiveFrame(offered))]
             due == owed \cup ({LiveFrame(offered)} \cap Recovered(grown.audio))
  <2>2. grown.seq = o.seq /\ grown.id = o.id /\ grown.header = o.header
    BY GrownSegment, FrameTypes DEF IInv, TypeOK
  <2>3. SealAndEvict(sealed \cup {grown}, due) => sealed' \subseteq sealed \cup {grown}
    BY SealAndEvictTakes
  <2> HIDE DEF grown, due
  <2>4. Files' \subseteq sealed \cup orphans \cup {grown}
    BY <2>1, <2>3 DEF Files, grown, due
  <2> QED
    BY <2>2, <2>4 DEF Files, FileOrigin
<1>4. CASE Seal
  BY <1>4, SealAndEvictTakes DEF Seal, Files, FileOrigin
<1>5. ASSUME NEW s \in Sources, ImportRange(s) PROVE FileOrigin
  <2> DEFINE added == RingSegment(s, Written(s))
  <2>1. added.seq = nextSeq /\ NewName(added.id)
    BY WrittenType, RingSegmentType DEF IInv, NewName
  <2>2. sealed' \subseteq sealed \cup open \cup {added}
    BY <1>5, SealAndEvictTakes DEF ImportRange
  <2>3. ready /\ open' = {} /\ orphans' = orphans
    BY <1>5 DEF ImportRange
  <2> HIDE DEF added
  <2> QED
    BY <2>1, <2>2, <2>3 DEF Files, FileOrigin
<1>6. ASSUME NEW s \in Sources, NEW k \in Nat, ImportFails(s, k) PROVE FileOrigin
  <2> DEFINE ring == RingSegment(s, k)
             torn == [ring EXCEPT !.audio = Append(@, Torn)]
  <2>1. ring.seq = nextSeq /\ torn.seq = nextSeq /\ ring.id = RingId(s) /\ torn.id = RingId(s)
    BY RingSegmentType, GrownSegment, FrameTypes DEF IInv
  <2>2. ready /\ sealed' = sealed \cup open
        /\ open' \cup orphans' \subseteq orphans \cup {ring, torn}
    BY <1>6 DEF ImportFails
  <2> HIDE DEF ring, torn
  <2> QED
    BY <2>1, <2>2 DEF Files, FileOrigin, NewName
<1>7. ASSUME NEW s \in Sources, NEW k \in Nat, CrashInImport(s, k) PROVE FileOrigin
  <2> DEFINE partial == RingSegment(s, k)
  <2>1. partial.seq = nextSeq /\ partial.id = RingId(s)
    BY RingSegmentType DEF IInv
  <2>2. CrashWriting(partial)
    BY <1>7 DEF CrashInImport
  <2> HIDE DEF partial
  <2> QED
    BY <2>1, <2>2 DEF CrashWriting, Files, FileOrigin, NewName
<1>8. CASE BeginFails \/ CrashInBegin
  BY <1>8, HeadlessSegment
     DEF BeginFails, CrashInBegin, CrashWriting, Files, FileOrigin, IInv
<1>9. CASE AppendFails
  <2>1. PICK o \in open : open' \in {{o}, {[o EXCEPT !.audio = Append(@, Torn)]}}
    BY <1>9 DEF AppendFails
  <2> DEFINE torn == [o EXCEPT !.audio = Append(@, Torn)]
  <2>2. torn.seq = o.seq /\ torn.id = o.id /\ torn.header = o.header
    BY GrownSegment, FrameTypes DEF IInv, TypeOK
  <2>3. PICK grown : /\ grown.seq = o.seq /\ grown.id = o.id /\ grown.header = o.header
                     /\ open' = {grown}
    BY <2>1, <2>2
  <2> QED
    BY <1>9, <2>3 DEF AppendFails, Files, FileOrigin
<1>10. CASE Close \/ AppendUnheld \/ OpenFails \/ SealFails \/ Crash \/ Tick
  BY <1>10 DEF Close, AppendUnheld, OpenFails, SealFails, Crash, Tick, Files, FileOrigin
<1>11. ASSUME NEW f \in Listed(sealed), RemoveSegment(f) PROVE FileOrigin
  BY <1>11 DEF RemoveSegment, Files, FileOrigin
<1>12. 0..MaxSegmentBytes \subseteq Nat
  BY BoundsAssumption
<1> QED
  BY <1>1, <1>2, <1>3, <1>4, <1>5, <1>6, <1>7, <1>8, <1>9, <1>10, <1>11, <1>12
     DEF Next, LiveCommands, Failures, Deaths

(* No step of the log, and none of its failures, changes a sealed file.     *)
THEOREM SealedNeverChangesHolds == Spec => SealedNeverChanges
<1> DEFINE Same == \A f \in sealed, g \in Files' : g.seq = f.seq /\ g.id = f.id => g = f
<1>1. IInv /\ [Next]_vars => Same
  <2> SUFFICES ASSUME IInv, [Next]_vars,
                      NEW f \in sealed, NEW g \in Files', g.seq = f.seq
               PROVE  g = f
    OBVIOUS
  <2>1. f \in Files /\ f.seq \in Nat /\ (ready => f.seq < nextSeq)
        /\ \A o \in open : f.seq < o.seq
    BY DEF IInv, SequenceOrder, TypeOK, Segment, Files
  <2>2. g \in Files
    <3>1. CASE Next
      BY <2>1, <3>1, FileOrigins DEF FileOrigin
    <3>2. CASE UNCHANGED vars
      BY <3>2 DEF vars, Files
    <3> QED
      BY <3>1, <3>2
  <2> QED
    BY <2>1, <2>2 DEF IInv, SequenceOrder
<1> QED
  BY IInvHolds, <1>1, PTL DEF Spec, SealedNeverChanges

-----------------------------------------------------------------------------
(* What was written survives                                                *)

SurvivalInv == IInv /\ WrittenFramesSurvive

(* More files hold more frames.                                             *)
LEMMA FramesOfMonotone ==
  ASSUME NEW A, NEW B, A \subseteq B
  PROVE  FramesOf(A) \subseteq FramesOf(B)
BY DEF FramesOf

(* Two directories together hold what each of them holds.                   *)
LEMMA FramesOfUnion ==
  ASSUME NEW A, NEW B
  PROVE  FramesOf(A \cup B) = FramesOf(A) \cup FramesOf(B)
BY DEF FramesOf

(* Eviction releases the log from the frames it takes away, and only those. *)
LEMMA EvictionReleases ==
  ASSUME NEW files, NEW rest, NEW due, SealAndEvict(files, due),
         due \subseteq FramesOf(files \cup rest)
  PROVE  owed' \subseteq FramesOf(sealed' \cup rest)
<1> SUFFICES ASSUME NEW x \in owed' PROVE x \in FramesOf(sealed' \cup rest)
  OBVIOUS
<1>1. x \in due /\ x \notin FramesOf(files \ sealed')
  BY DEF SealAndEvict
<1>2. PICK f \in files \cup rest : x \in Recovered(f.audio)
  BY <1>1 DEF FramesOf
<1>3. f \in sealed' \cup rest
  BY <1>1, <1>2 DEF FramesOf
<1> QED
  BY <1>2, <1>3 DEF FramesOf

(* What is written behind a frame, torn or not, does not hide it.           *)
LEMMA GrownRecovers ==
  ASSUME NEW o \in Segment, NEW x \in Frame
  PROVE  FramesOf({o}) \subseteq FramesOf({[o EXCEPT !.audio = Append(@, x)]})
<1> DEFINE grown == [o EXCEPT !.audio = Append(@, x)]
<1>1. o.audio \in Seq(Frame) /\ grown.audio = Append(o.audio, x)
  BY DEF Segment
<1> HIDE DEF grown
<1>2. /\ DOMAIN o.audio = 1..Len(o.audio) /\ Len(o.audio) \in Nat
      /\ DOMAIN grown.audio = 1..(Len(o.audio) + 1)
      /\ \A i \in DOMAIN o.audio : grown.audio[i] = o.audio[i]
  BY <1>1
<1>3. ASSUME NEW i \in DOMAIN o.audio, \A k \in 1..i : o.audio[k] # Torn
      PROVE  i \in DOMAIN grown.audio /\ \A k \in 1..i : grown.audio[k] # Torn
  BY <1>2, <1>3
<1>4. Recovered(o.audio) \subseteq Recovered(grown.audio)
  BY <1>2, <1>3 DEF Recovered
<1>5. FramesOf({grown}) = Recovered(grown.audio) /\ FramesOf({o}) = Recovered(o.audio)
  BY DEF FramesOf
<1> QED
  BY <1>4, <1>5 DEF grown

(* The open segment grew: what it held is still held.                       *)
LEMMA GrownKeeps ==
  ASSUME SurvivalInv, NEW o \in open, NEW grown, NEW due,
         FramesOf({o}) \subseteq FramesOf({grown}),
         due \subseteq owed \cup FramesOf({grown})
  PROVE  due \subseteq FramesOf((sealed \cup {grown}) \cup orphans)
<1>1. open = {o} /\ owed \subseteq FramesOf((sealed \cup {o}) \cup orphans)
  BY DEF SurvivalInv, IInv, TypeOK, WrittenFramesSurvive, Files
<1>2. FramesOf((sealed \cup {o}) \cup orphans)
        = (FramesOf(sealed) \cup FramesOf({o})) \cup FramesOf(orphans)
  BY DEF FramesOf
<1>3. FramesOf((sealed \cup {grown}) \cup orphans)
        = (FramesOf(sealed) \cup FramesOf({grown})) \cup FramesOf(orphans)
  BY DEF FramesOf
<1> QED
  BY <1>1, <1>2, <1>3

(* An append, its seal at the cap and the eviction that follows.            *)
LEMMA LiveStep ==
  ASSUME SurvivalInv, AppendLive
  PROVE  WrittenFramesSurvive'
<1>1. PICK o \in open :
        LET grown == [o EXCEPT !.audio = Append(@, LiveFrame(offered))]
            due == owed \cup ({LiveFrame(offered)} \cap Recovered(grown.audio)) IN
        \/ open' = {grown} /\ owed' = due /\ sealed' = sealed /\ orphans' = orphans
        \/ open' = {} /\ SealAndEvict(sealed \cup {grown}, due) /\ orphans' = orphans
        \/ open' = {} /\ orphans' = orphans \cup {grown} /\ owed' = due /\ sealed' = sealed
  BY DEF AppendLive
<1> DEFINE grown == [o EXCEPT !.audio = Append(@, LiveFrame(offered))]
           due == owed \cup ({LiveFrame(offered)} \cap Recovered(grown.audio))
<1>2. o \in Segment /\ LiveFrame(offered) \in Frame
  BY FrameTypes DEF SurvivalInv, IInv, TypeOK
<1>3. FramesOf({o}) \subseteq FramesOf({grown})
  BY <1>2, GrownRecovers
<1>4. due \subseteq owed \cup FramesOf({grown})
  BY DEF FramesOf
<1>5. due \subseteq FramesOf((sealed \cup {grown}) \cup orphans)
  BY <1>3, <1>4, GrownKeeps
<1>6. open = {o}
  BY DEF SurvivalInv, IInv, TypeOK
<1> HIDE DEF grown, due
<1>7. CASE open' = {grown} /\ owed' = due /\ sealed' = sealed /\ orphans' = orphans
  <2>1. Files' = (sealed \cup {grown}) \cup orphans
    BY <1>7 DEF Files
  <2> QED
    BY <1>5, <1>7, <2>1 DEF WrittenFramesSurvive
<1>8. CASE open' = {} /\ SealAndEvict(sealed \cup {grown}, due) /\ orphans' = orphans
  <2>1. owed' \subseteq FramesOf(sealed' \cup orphans)
    BY <1>5, <1>8, EvictionReleases
  <2>2. Files' = sealed' \cup orphans
    BY <1>8 DEF Files
  <2> QED
    BY <2>1, <2>2 DEF WrittenFramesSurvive
<1>9. CASE open' = {} /\ orphans' = orphans \cup {grown} /\ owed' = due /\ sealed' = sealed
  <2>1. Files' = (sealed \cup {grown}) \cup orphans
    BY <1>9 DEF Files
  <2> QED
    BY <1>5, <1>9, <2>1 DEF WrittenFramesSurvive
<1> QED
  BY <1>1, <1>7, <1>8, <1>9 DEF grown, due

(* A write that fails, whole or inside its frame.                           *)
LEMMA TornStep ==
  ASSUME SurvivalInv, AppendFails
  PROVE  WrittenFramesSurvive'
<1>1. PICK o \in open : open' \in {{o}, {[o EXCEPT !.audio = Append(@, Torn)]}}
  BY DEF AppendFails
<1>2. o \in Segment /\ Torn \in Frame
  BY DEF SurvivalInv, IInv, TypeOK, Frame
<1>3. FramesOf({o}) \subseteq FramesOf({[o EXCEPT !.audio = Append(@, Torn)]})
  BY <1>2, GrownRecovers
<1>4. PICK grown : FramesOf({o}) \subseteq FramesOf({grown}) /\ open' = {grown}
  BY <1>1, <1>3
<1>5. owed \subseteq FramesOf((sealed \cup {grown}) \cup orphans)
  BY <1>4, GrownKeeps
<1>6. Files' = (sealed \cup {grown}) \cup orphans /\ owed' = owed
  BY <1>4 DEF AppendFails, Files
<1> QED
  BY <1>5, <1>6 DEF WrittenFramesSurvive

(* Every command, failure and death keeps the frames that are owed.         *)
LEMMA SurvivalStep ==
  ASSUME SurvivalInv, Next
  PROVE  WrittenFramesSurvive'
<1>a. owed \subseteq FramesOf(Files)
  BY DEF SurvivalInv, WrittenFramesSurvive
<1>b. ASSUME Files \subseteq Files', owed' = owed
      PROVE  WrittenFramesSurvive'
  BY <1>a, <1>b, FramesOfMonotone DEF WrittenFramesSurvive
<1>c. ASSUME NEW files, SealAndEvict(files, owed), NEW rest,
             Files \subseteq files \cup rest, Files' = sealed' \cup rest
      PROVE  WrittenFramesSurvive'
  <2>1. owed \subseteq FramesOf(files \cup rest)
    BY <1>a, <1>c, FramesOfMonotone
  <2> QED
    BY <1>c, <2>1, EvictionReleases DEF WrittenFramesSurvive
<1>1. CASE Open
  <2>1. PICK left \in SUBSET (open \cup orphans) :
          SealAndEvict(Files \ left, owed) /\ orphans' = left
    BY <1>1 DEF Open
  <2>2. open' = {}
    BY <1>1 DEF Open
  <2>3. Files \subseteq (Files \ left) \cup left /\ Files' = sealed' \cup left
    BY <2>1, <2>2 DEF Files
  <2> QED
    BY <1>c, <2>1, <2>3
<1>2. CASE AppendLive
  BY <1>2, LiveStep
<1>3. CASE AppendFails
  BY <1>3, TornStep
<1>4. CASE Seal
  <2>1. SealAndEvict(sealed \cup open, owed) /\ open' = {} /\ orphans' = orphans
    BY <1>4 DEF Seal
  <2>2. Files = (sealed \cup open) \cup orphans /\ Files' = sealed' \cup orphans
    BY <2>1 DEF Files
  <2> QED
    BY <1>c, <2>1, <2>2
<1>5. ASSUME NEW s \in Sources, ImportRange(s) PROVE WrittenFramesSurvive'
  <2> DEFINE added == RingSegment(s, Written(s))
  <2>1. SealAndEvict(sealed \cup open \cup {added}, owed)
        /\ open' = {} /\ orphans' = orphans
    BY <1>5 DEF ImportRange
  <2> HIDE DEF added
  <2>2. Files \subseteq (sealed \cup open \cup {added}) \cup orphans
        /\ Files' = sealed' \cup orphans
    BY <2>1 DEF Files
  <2> QED
    BY <1>c, <2>1, <2>2
<1>6. CASE BeginSegment \/ BeginFails \/ SealFails \/ OpenFails
           \/ Close \/ AppendUnheld \/ Crash \/ CrashInBegin \/ Tick
  <2>1. Files \subseteq Files' /\ owed' = owed
    BY <1>6 DEF BeginSegment, BeginFails, SealFails, OpenFails, Close, AppendUnheld,
                Crash, CrashInBegin, CrashWriting, Tick, Files
  <2> QED
    BY <1>b, <2>1
<1>7. ASSUME NEW s \in Sources, NEW k \in Nat, ImportFails(s, k) \/ CrashInImport(s, k)
      PROVE  WrittenFramesSurvive'
  <2>1. Files \subseteq Files' /\ owed' = owed
    BY <1>7 DEF ImportFails, CrashInImport, CrashWriting, Files
  <2> QED
    BY <1>b, <2>1
<1>8. ASSUME NEW f \in Listed(sealed), RemoveSegment(f) PROVE WrittenFramesSurvive'
  <2>1. Files' = (sealed \ {f}) \cup open \cup orphans /\ owed' = owed \ FramesOf({f})
    BY <1>8 DEF RemoveSegment, Files
  <2>2. Files \subseteq Files' \cup {f}
    BY <2>1 DEF Files
  <2>3. FramesOf(Files) \subseteq FramesOf(Files' \cup {f})
    BY <2>2, FramesOfMonotone
  <2>4. FramesOf(Files' \cup {f}) = FramesOf(Files') \cup FramesOf({f})
    BY FramesOfUnion
  <2> QED
    BY <1>a, <2>1, <2>3, <2>4 DEF WrittenFramesSurvive
<1>9. 0..MaxSegmentBytes \subseteq Nat
  BY BoundsAssumption
<1> QED
  BY <1>1, <1>2, <1>3, <1>4, <1>5, <1>6, <1>7, <1>8, <1>9
     DEF Next, LiveCommands, Failures, Deaths

(* A frame that could be read back once written can be read back until its  *)
(* file is evicted or removed, whatever fails and wherever the process dies *)
(* in between.                                                              *)
THEOREM WrittenFramesSurviveHolds == Spec => []WrittenFramesSurvive
<1>1. Init => SurvivalInv
  BY InitIInv DEF Init, SurvivalInv, WrittenFramesSurvive
<1>2. SurvivalInv /\ [Next]_vars => SurvivalInv'
  <2> SUFFICES ASSUME SurvivalInv, [Next]_vars PROVE SurvivalInv'
    OBVIOUS
  <2>1. IInv'
    BY TypeStep, OrderStep, IInvStutter DEF SurvivalInv, IInv
  <2>2. WrittenFramesSurvive'
    <3>1. CASE Next
      BY <3>1, SurvivalStep
    <3>2. CASE UNCHANGED vars
      BY <3>2 DEF vars, SurvivalInv, WrittenFramesSurvive, Files
    <3> QED
      BY <3>1, <3>2
  <2> QED
    BY <2>1, <2>2 DEF SurvivalInv
<1>3. SurvivalInv => WrittenFramesSurvive
  BY DEF SurvivalInv
<1> QED
  BY <1>1, <1>2, <1>3, PTL DEF Spec

-----------------------------------------------------------------------------
(* Eviction                                                                 *)

(* No file is both sealed and left behind, and the directory is finite.     *)
Apart == sealed \cap orphans = {}

EvictionInv == IInv /\ Apart /\ IsFiniteSet(Files)

(* A command seals, at most, one file that was not there, what it takes     *)
(* away it evicts or removes, and it opens no sealed file again.            *)
Evicts(one) ==
  \E files : sealed \subseteq files /\ files \subseteq Files \cup {one} /\ sealed' = Evict(files)

OneMore ==
  \E one \in Segment :
    /\ Files' \subseteq Files \cup {one}
    /\ sealed \subseteq sealed' \/ Evicts(one) \/ \E f \in sealed : RemoveSegment(f)
    /\ sealed \cap (open' \cup orphans') = {}

(* What the sequences say of the open file and of the next one.             *)
LEMMA FilesApart ==
  ASSUME IInv
  PROVE  /\ open \cap (sealed \cup orphans) = {}
         /\ \A o \in open : \A f \in Segment : f.seq = o.seq => f \notin sealed \cup orphans
         /\ ready => \A f \in Segment : f.seq = nextSeq => f \notin Files
         /\ sealed \subseteq Segment /\ open \subseteq Segment /\ orphans \subseteq Segment
<1>1. /\ \A o \in open, f \in sealed \cup orphans : f.seq < o.seq
      /\ ready => \A f \in Files : f.seq < nextSeq
      /\ nextSeq \in Nat /\ \A f \in Files : f.seq \in Nat
      /\ sealed \subseteq Segment /\ open \subseteq Segment /\ orphans \subseteq Segment
  BY DEF IInv, SequenceOrder, TypeOK, Segment, Files
<1>2. \A o \in open : \A f \in Segment : f.seq = o.seq => f \notin sealed \cup orphans
  <2> SUFFICES ASSUME NEW o \in open, NEW f \in Segment, f.seq = o.seq,
                      f \in sealed \cup orphans
               PROVE  FALSE
    OBVIOUS
  <2>1. f.seq < o.seq /\ f.seq \in Nat
    BY <1>1 DEF Files
  <2> QED
    BY <2>1
<1>3. ready => \A f \in Segment : f.seq = nextSeq => f \notin Files
  BY <1>1
<1> QED
  BY <1>1, <1>2, <1>3

(* Every command, failure and death.                                        *)
LEMMA FilesStep ==
  ASSUME IInv, Apart, Next
  PROVE  Apart' /\ OneMore
<1>0. /\ open \cap (sealed \cup orphans) = {} /\ sealed \cap orphans = {}
      /\ sealed \subseteq Segment /\ open \subseteq Segment /\ orphans \subseteq Segment
      /\ Files = sealed \cup open \cup orphans
      /\ Files' = sealed' \cup open' \cup orphans'
  BY FilesApart DEF Apart, Files
<1>a. PICK any : any \in Segment
  <2>1. Headless \in Segment
    BY HeadlessSegment DEF IInv
  <2> QED
    BY <2>1
<1>b. ASSUME NEW one \in Segment, one \notin sealed \cup orphans,
             sealed' = sealed \cup open,
             orphans' \in {orphans, orphans \cup {one}}, open' \in {{}, {one}},
             one \notin open
      PROVE  Apart' /\ OneMore
  BY <1>0, <1>b DEF Apart, OneMore
<1>c. ASSUME sealed' = sealed \/ sealed' = sealed \cup open,
             orphans' = orphans \/ (orphans' = orphans \cup open /\ sealed' = sealed),
             open' = {} \/ (open' = open /\ sealed' = sealed /\ orphans' = orphans)
      PROVE  Apart' /\ OneMore
  BY <1>0, <1>a, <1>c DEF Apart, OneMore
<1>d. ASSUME NEW one \in Segment, one \notin orphans, NEW files, NEW due,
             SealAndEvict(files, due), sealed \subseteq files,
             files \subseteq sealed \cup open \cup {one}, open' = {}, orphans' = orphans
      PROVE  Apart' /\ OneMore
  <2>1. sealed' = Evict(files) /\ sealed' \subseteq files
    BY <1>d, EvictTakes DEF SealAndEvict
  <2>2. Evicts(one)
    BY <1>0, <1>d, <2>1 DEF Evicts
  <2> QED
    BY <1>0, <1>d, <2>1, <2>2 DEF Apart, OneMore
<1>1. CASE Open
  <2>1. PICK left \in SUBSET (open \cup orphans) :
          SealAndEvict(Files \ left, owed) /\ orphans' = left
    BY <1>1 DEF Open
  <2>2. /\ sealed' = Evict(Files \ left) /\ sealed' \subseteq Files \ left
        /\ open' = {} /\ sealed \subseteq Files \ left
    BY <1>0, <1>1, <2>1, EvictTakes DEF SealAndEvict, Open
  <2>3. Evicts(any)
    BY <2>2 DEF Evicts
  <2> QED
    BY <1>0, <1>a, <2>1, <2>2, <2>3 DEF Apart, OneMore
<1>2. CASE Close \/ AppendUnheld \/ OpenFails \/ SealFails \/ Crash \/ Tick
  BY <1>2, <1>c DEF Close, AppendUnheld, OpenFails, SealFails, Crash, Tick
<1>3. CASE BeginSegment
  <2> DEFINE added == Begun(LiveId(minted), now)
  <2>1. added \in Segment /\ added.seq = nextSeq
    BY BegunSegment DEF LiveId, SegmentId, IInv, TypeOK
  <2>2. /\ ready /\ open' = {added} /\ sealed' = sealed \cup open /\ orphans' = orphans
    BY <1>3 DEF BeginSegment
  <2> HIDE DEF added
  <2>3. added \notin Files
    BY <2>1, <2>2, FilesApart
  <2> QED
    BY <1>0, <1>b, <2>1, <2>2, <2>3
<1>5. CASE AppendLive
  <2>1. PICK o \in open :
          LET grown == [o EXCEPT !.audio = Append(@, LiveFrame(offered))]
              due == owed \cup ({LiveFrame(offered)} \cap Recovered(grown.audio)) IN
          \/ open' = {grown} /\ sealed' = sealed /\ orphans' = orphans
          \/ open' = {} /\ SealAndEvict(sealed \cup {grown}, due) /\ orphans' = orphans
          \/ open' = {} /\ orphans' = orphans \cup {grown} /\ sealed' = sealed
    BY <1>5 DEF AppendLive
  <2> DEFINE grown == [o EXCEPT !.audio = Append(@, LiveFrame(offered))]
             due == owed \cup ({LiveFrame(offered)} \cap Recovered(grown.audio))
  <2>2. grown \in Segment /\ grown.seq = o.seq
    BY GrownSegment, FrameTypes DEF IInv, TypeOK
  <2> HIDE DEF grown, due
  <2>3. grown \notin sealed \cup orphans
    BY <2>2, FilesApart
  <2>4. CASE \/ open' = {grown} /\ sealed' = sealed /\ orphans' = orphans
             \/ open' = {} /\ orphans' = orphans \cup {grown} /\ sealed' = sealed
    BY <1>0, <2>2, <2>3, <2>4 DEF Apart, OneMore
  <2>5. CASE open' = {} /\ SealAndEvict(sealed \cup {grown}, due) /\ orphans' = orphans
    BY <1>d, <2>2, <2>3, <2>5
  <2> QED
    BY <2>1, <2>4, <2>5 DEF grown, due
<1>6. CASE Seal
  <2>1. SealAndEvict(sealed \cup open, owed) /\ open' = {} /\ orphans' = orphans
    BY <1>6 DEF Seal
  <2>2. sealed' = Evict(sealed \cup open) /\ sealed' \subseteq sealed \cup open
    BY <2>1, EvictTakes DEF SealAndEvict
  <2>3. Evicts(any)
    BY <1>0, <2>2 DEF Evicts
  <2> QED
    BY <1>0, <1>a, <2>1, <2>2, <2>3 DEF Apart, OneMore
<1>7. ASSUME NEW s \in Sources, ImportRange(s) PROVE Apart' /\ OneMore
  <2> DEFINE added == RingSegment(s, Written(s))
  <2>1. added \in Segment /\ added.seq = nextSeq
    BY WrittenType, RingSegmentType DEF IInv
  <2>2. /\ ready /\ open' = {} /\ orphans' = orphans
        /\ SealAndEvict(sealed \cup open \cup {added}, owed)
    BY <1>7 DEF ImportRange
  <2> HIDE DEF added
  <2>3. added \notin Files
    BY <2>1, <2>2, FilesApart
  <2> QED
    BY <1>0, <1>d, <2>1, <2>2, <2>3
<1>8. ASSUME NEW f \in Listed(sealed), RemoveSegment(f) PROVE Apart' /\ OneMore
  <2>1. /\ sealed' = sealed \ {f} /\ open' = open /\ orphans' = orphans /\ f \in sealed
    BY <1>8 DEF RemoveSegment, Listed
  <2> QED
    BY <1>0, <1>8, <1>a, <2>1 DEF Apart, OneMore
<1>10. CASE BeginFails \/ CrashInBegin
  <2>1. Headless \in Segment /\ Headless.seq = nextSeq
    BY HeadlessSegment DEF IInv
  <2>2. /\ ready /\ sealed' = sealed \cup open /\ open' = {}
        /\ orphans' \in {orphans, orphans \cup {Headless}}
    BY <1>10 DEF BeginFails, CrashInBegin, CrashWriting
  <2>3. Headless \notin Files
    BY <2>1, <2>2, FilesApart
  <2> QED
    BY <1>0, <1>b, <2>1, <2>2, <2>3
<1>11. CASE AppendFails
  <2>1. PICK o \in open : open' \in {{o}, {[o EXCEPT !.audio = Append(@, Torn)]}}
    BY <1>11 DEF AppendFails
  <2> DEFINE torn == [o EXCEPT !.audio = Append(@, Torn)]
  <2>2. torn \in Segment /\ torn.seq = o.seq
    BY GrownSegment, FrameTypes DEF IInv, TypeOK
  <2>3. sealed' = sealed /\ orphans' = orphans /\ open' \in {{o}, {torn}}
    BY <1>11, <2>1 DEF AppendFails
  <2> HIDE DEF torn
  <2>4. torn \notin sealed \cup orphans
    BY <2>2, FilesApart
  <2> QED
    BY <1>0, <2>2, <2>3, <2>4 DEF Apart, OneMore
<1>13. ASSUME NEW s \in Sources, NEW k \in Nat, ImportFails(s, k) \/ CrashInImport(s, k)
       PROVE  Apart' /\ OneMore
  <2> DEFINE ring == RingSegment(s, k)
             torn == [ring EXCEPT !.audio = Append(@, Torn)]
  <2>1. ring \in Segment /\ ring.seq = nextSeq /\ torn \in Segment /\ torn.seq = nextSeq
    BY RingSegmentType, GrownSegment, FrameTypes DEF IInv
  <2>2. ready /\ sealed' = sealed \cup open
    BY <1>13 DEF ImportFails, CrashInImport, CrashWriting
  <2>3. \/ open' \in {{ring}, {torn}} /\ orphans' = orphans
        \/ open' = {} /\ orphans' = orphans \cup {ring}
    BY <1>13 DEF ImportFails, CrashInImport, CrashWriting
  <2> HIDE DEF ring, torn
  <2>4. ring \notin Files /\ torn \notin Files
    BY <2>1, <2>2, FilesApart
  <2> QED
    BY <1>0, <1>b, <2>1, <2>2, <2>3, <2>4
<1>18. 0..MaxSegmentBytes \subseteq Nat
  BY BoundsAssumption
<1> QED
  BY <1>1, <1>2, <1>3, <1>5, <1>6, <1>7, <1>8, <1>10, <1>11, <1>13, <1>18
     DEF Next, LiveCommands, Failures, Deaths

LEMMA EvictionInvHolds == Spec => []EvictionInv
<1>1. Init => EvictionInv
  <2>1. Init => sealed = {} /\ Files = {} /\ IInv
    BY InitIInv DEF Init, Files
  <2>2. IsFiniteSet({})
    BY FS_EmptySet
  <2> QED
    BY <2>1, <2>2 DEF EvictionInv, Apart
<1>2. EvictionInv /\ [Next]_vars => EvictionInv'
  <2> SUFFICES ASSUME EvictionInv, [Next]_vars PROVE EvictionInv'
    OBVIOUS
  <2>1. IInv'
    BY TypeStep, OrderStep, IInvStutter DEF EvictionInv, IInv
  <2>2. CASE UNCHANGED vars
    BY <2>1, <2>2 DEF vars, EvictionInv, Apart, Files
  <2>3. CASE Next
    <3>1. Apart' /\ OneMore
      BY <2>3, FilesStep DEF EvictionInv
    <3>2. PICK one \in Segment : Files' \subseteq Files \cup {one}
      BY <3>1 DEF OneMore
    <3>3. IsFiniteSet(Files')
      BY <3>2, FS_AddElement, FS_Subset DEF EvictionInv
    <3> QED
      BY <2>1, <3>1, <3>3 DEF EvictionInv
  <2> QED
    BY <2>2, <2>3
<1> QED
  BY <1>1, <1>2, PTL DEF Spec

(* What files take up is a sum, and fewer files take up no more.            *)
Sizes(S) == [f \in S |-> Len(f.audio)]

LEMMA BytesIs ==
  ASSUME NEW S \in SUBSET Segment, IsFiniteSet(S)
  PROVE  Bytes(S) = Sum(Sizes(S), S) /\ Bytes(S) \in Nat
<1> DEFINE w == Sizes(S)
           body(f) == [s \in SUBSET S |->
                         IF s = {} THEN 0
                         ELSE Len((CHOOSE x \in s : TRUE).audio)
                                + f[s \ {CHOOSE x \in s : TRUE}]]
           iter == CHOOSE f : f = body(f)
<1>1. \A x \in S : w[x] = Len(x.audio) /\ w[x] \in Nat
  BY DEF Sizes, Segment
<1> HIDE DEF w
<1>2. PICK g \in [SUBSET S -> Nat] : Sums(w, S, g)
  BY <1>1, SumsExist
<1>3. ASSUME NEW f
      PROVE  body(f) = [s \in SUBSET S |->
                          IF s = {} THEN 0 ELSE w[Chosen(s)] + f[s \ {Chosen(s)}]]
  <2>1. \A s \in SUBSET S : s # {} => (CHOOSE x \in s : TRUE) \in S
    OBVIOUS
  <2>2. \A s \in SUBSET S :
          (IF s = {} THEN 0
           ELSE Len((CHOOSE x \in s : TRUE).audio) + f[s \ {CHOOSE x \in s : TRUE}])
            = IF s = {} THEN 0 ELSE w[Chosen(s)] + f[s \ {Chosen(s)}]
    BY <1>1, <2>1 DEF Chosen
  <2> QED
    BY <2>2
<1>4. g = body(g)
  <2> HIDE DEF body
  <2> QED
    BY <1>2, <1>3 DEF Sums
<1>5. iter = body(iter)
  <2> HIDE DEF body
  <2> QED
    BY <1>4
<1>6. Sums(w, S, iter)
  <2> HIDE DEF iter, body
  <2> QED
    BY <1>3, <1>5 DEF Sums
<1>7. Bytes(S) = iter[S]
  BY DEF Bytes, MapThenSumSet, MapThenFoldSet
<1> HIDE DEF iter
<1>8. Sum(w, S) = iter[S]
  <2>1. IsFiniteSet(S) /\ S \in SUBSET S /\ \A x \in S : w[x] \in Nat
    BY <1>1
  <2> QED
    BY <1>6, <2>1, SumIs
<1>9. Sum(w, S) \in Nat
  BY <1>1, SumTakesOut
<1> QED
  BY <1>7, <1>8, <1>9 DEF w

LEMMA BytesGrow ==
  ASSUME NEW S \in SUBSET Segment, IsFiniteSet(S), NEW T \in SUBSET S
  PROVE  Bytes(T) <= Bytes(S) /\ Bytes(T) \in Nat /\ Bytes(S) \in Nat
<1>1. IsFiniteSet(T) /\ T \in SUBSET Segment
  BY FS_Subset
<1>2. /\ Bytes(S) = Sum(Sizes(S), S) /\ Bytes(S) \in Nat
      /\ Bytes(T) = Sum(Sizes(T), T) /\ Bytes(T) \in Nat
  BY <1>1, BytesIs
<1>3. /\ \A x \in S : Sizes(S)[x] \in Nat
      /\ \A x \in T : Sizes(T)[x] \in Nat /\ Sizes(T)[x] <= Sizes(S)[x]
  BY DEF Sizes, Segment
<1>4. Sum(Sizes(T), T) <= Sum(Sizes(S), S)
  BY <1>3, SumGrows
<1> QED
  BY <1>2, <1>4

(* A file that stays has room, with everything newer, and so has every one  *)
(* that is newer than it: what goes is older than what stays.               *)
LEMMA OldestGo ==
  ASSUME NEW files \in SUBSET Segment, IsFiniteSet(files),
         NEW f \in Fresh(files) \ Evict(files), NEW g \in Listed(Evict(files))
  PROVE  f.seq < g.seq
<1> DEFINE From(n) == {h \in Fresh(files) : h.seq >= n}
<1>0. /\ f \in Fresh(files) /\ g \in Fresh(files) /\ Fresh(files) \in SUBSET files
      /\ Bytes(From(g.seq)) <= MaxBytes /\ ~(Bytes(From(f.seq)) <= MaxBytes)
  BY DEF Evict, Kept, Fresh, Listed
<1>1. f.seq \in Nat /\ g.seq \in Nat /\ \A h \in files : h.seq \in Nat
  BY <1>0 DEF Segment
<1> SUFFICES ASSUME f.seq >= g.seq PROVE FALSE
  BY <1>1
<1>2. From(f.seq) \in SUBSET From(g.seq) /\ From(g.seq) \in SUBSET files
  BY <1>0, <1>1
<1> HIDE DEF From
<1>3. IsFiniteSet(From(g.seq)) /\ From(g.seq) \in SUBSET Segment
  BY <1>2, FS_Subset
<1>4. /\ Bytes(From(f.seq)) <= Bytes(From(g.seq))
      /\ Bytes(From(f.seq)) \in Nat /\ Bytes(From(g.seq)) \in Nat
  BY <1>2, <1>3, BytesGrow
<1> QED
  BY <1>0, <1>4, BoundsAssumption

(* What stays keeps to the bounds.                                          *)
LEMMA EvictMakesRoom ==
  ASSUME NEW files \in SUBSET Segment, IsFiniteSet(files)
  PROVE  /\ Bytes(Listed(Evict(files))) <= MaxBytes
         /\ \A f \in Listed(Evict(files)) : f.start + MaxAge >= now
<1> DEFINE From(n) == {h \in Fresh(files) : h.seq >= n}
           K == Kept(files)
<1>1. Listed(Evict(files)) = K /\ K \subseteq Fresh(files) /\ Fresh(files) \in SUBSET files
  BY DEF Evict, Kept, Fresh, Listed
<1>2. \A f \in K : f.start + MaxAge >= now /\ Bytes(From(f.seq)) <= MaxBytes
  BY DEF Kept, Fresh
<1>3. CASE K = {}
  <2>1. Bytes({}) = 0
    <3>1. {} \in SUBSET Segment /\ IsFiniteSet({})
      BY FS_EmptySet
    <3>2. Bytes({}) = Sum(Sizes({}), {})
      BY <3>1, BytesIs
    <3>3. Sum(Sizes({}), {}) = 0
      BY <3>1, SumTakesOut
    <3> QED
      BY <3>2, <3>3
  <2> QED
    BY <1>1, <1>3, <2>1, BoundsAssumption
<1>4. CASE K # {}
  <2> DEFINE N == {f.seq : f \in K}
  <2>1. N \in SUBSET Nat /\ N # {} /\ \A h \in K : h.seq \in Nat
    BY <1>1, <1>4 DEF Segment
  <2> HIDE DEF K
  <2>2. PICK n \in N : \A x \in N : n <= x
    <3> HIDE DEF N
    <3> QED
      BY <2>1, LeastNatural
  <2>3. PICK g \in K : g.seq = n
    BY <2>2
  <2>4. K \in SUBSET From(g.seq) /\ From(g.seq) \in SUBSET files
    BY <1>1, <2>1, <2>2, <2>3
  <2>5. Bytes(From(g.seq)) <= MaxBytes
    BY <1>2
  <2> HIDE DEF From
  <2>6. IsFiniteSet(From(g.seq)) /\ From(g.seq) \in SUBSET Segment
    BY <2>4, FS_Subset
  <2>7. Bytes(K) <= Bytes(From(g.seq)) /\ Bytes(K) \in Nat /\ Bytes(From(g.seq)) \in Nat
    BY <2>4, <2>6, BytesGrow
  <2> QED
    BY <1>1, <1>2, <2>5, <2>7, BoundsAssumption
<1> QED
  BY <1>3, <1>4

(* Which commands evict, and from what.                                     *)
LEMMA EndsInEvict ==
  ASSUME IInv, Open \/ Seal \/ (AppendLive /\ open' = {} /\ UNCHANGED orphans)
  PROVE  \E one \in Segment : \E files : files \subseteq Files \cup {one} /\ sealed' = Evict(files)
<1>1. PICK any : any \in Segment
  <2>1. Headless \in Segment
    BY HeadlessSegment DEF IInv
  <2> QED
    BY <2>1
<1>2. CASE Open
  <2>1. PICK left \in SUBSET (open \cup orphans) : SealAndEvict(Files \ left, owed)
    BY <1>2 DEF Open
  <2> QED
    BY <1>1, <2>1 DEF SealAndEvict
<1>3. CASE Seal
  <2>1. sealed' = Evict(sealed \cup open)
    BY <1>3 DEF Seal, SealAndEvict
  <2> QED
    BY <1>1, <2>1 DEF Files
<1>4. CASE AppendLive /\ open' = {} /\ UNCHANGED orphans
  <2>1. PICK o \in open :
          LET grown == [o EXCEPT !.audio = Append(@, LiveFrame(offered))]
              due == owed \cup ({LiveFrame(offered)} \cap Recovered(grown.audio)) IN
          \/ open' = {grown}
          \/ SealAndEvict(sealed \cup {grown}, due)
          \/ orphans' = orphans \cup {grown}
    BY <1>4 DEF AppendLive
  <2> DEFINE grown == [o EXCEPT !.audio = Append(@, LiveFrame(offered))]
             due == owed \cup ({LiveFrame(offered)} \cap Recovered(grown.audio))
  <2>2. grown \in Segment /\ grown.seq = o.seq
    BY GrownSegment, FrameTypes DEF IInv, TypeOK
  <2> HIDE DEF grown, due
  <2>3. grown \notin orphans
    BY <2>2, FilesApart
  <2>4. SealAndEvict(sealed \cup {grown}, due)
    BY <1>4, <2>1, <2>3 DEF grown, due
  <2>5. sealed' = Evict(sealed \cup {grown}) /\ sealed \cup {grown} \subseteq Files \cup {grown}
    BY <2>4 DEF SealAndEvict, Files
  <2> QED
    BY <2>2, <2>5
<1> QED
  BY <1>2, <1>3, <1>4

(* Space is made at the expense of the oldest audio, whatever command made  *)
(* it; and every seal, every full segment and every opening leaves the      *)
(* readable sealed files within max_bytes and none of them too old.         *)
THEOREM EvictionIsOrderlyHolds == Spec => EvictionIsOrderly
<1> DEFINE Ordered ==
             (~\E f \in sealed : RemoveSegment(f)) =>
               \A f \in Fresh(sealed) \ sealed', g \in Listed(sealed') : f.seq < g.seq
           Roomy ==
             (Open \/ Seal \/ (AppendLive /\ open' = {} /\ UNCHANGED orphans)) =>
               /\ Bytes(Listed(sealed')) <= MaxBytes
               /\ \A f \in Listed(sealed') : f.start + MaxAge >= now
<1>1. ASSUME EvictionInv, NEW one \in Segment, NEW files, files \subseteq Files \cup {one}
      PROVE  files \in SUBSET Segment /\ IsFiniteSet(files)
  <2>1. Files \subseteq Segment /\ IsFiniteSet(Files)
    BY <1>1 DEF EvictionInv, IInv, TypeOK, Files
  <2> QED
    BY <1>1, <2>1, FS_AddElement, FS_Subset
<1>2. ASSUME EvictionInv, Next PROVE Ordered
  <2> SUFFICES ASSUME ~\E f \in sealed : RemoveSegment(f),
                      NEW f \in Fresh(sealed) \ sealed', NEW g \in Listed(sealed')
               PROVE  f.seq < g.seq
    OBVIOUS
  <2>1. f \in sealed /\ f \notin sealed'
    BY DEF Fresh, Listed
  <2>2. PICK one \in Segment : Evicts(one)
    BY <1>2, <2>1, FilesStep DEF EvictionInv, OneMore
  <2>3. PICK files : /\ sealed \subseteq files /\ files \subseteq Files \cup {one}
                     /\ sealed' = Evict(files)
    BY <2>2 DEF Evicts
  <2>4. f \in Fresh(files)
    BY <2>3 DEF Fresh, Listed
  <2>5. files \in SUBSET Segment /\ IsFiniteSet(files)
    BY <1>1, <1>2, <2>3
  <2> QED
    BY <2>1, <2>3, <2>4, <2>5, OldestGo
<1>3. ASSUME EvictionInv PROVE Roomy
  <2> SUFFICES ASSUME Open \/ Seal \/ (AppendLive /\ open' = {} /\ UNCHANGED orphans)
               PROVE  /\ Bytes(Listed(sealed')) <= MaxBytes
                      /\ \A f \in Listed(sealed') : f.start + MaxAge >= now
    OBVIOUS
  <2>0. PICK one \in Segment :
          \E files : files \subseteq Files \cup {one} /\ sealed' = Evict(files)
    BY <1>3, EndsInEvict DEF EvictionInv
  <2>1. PICK files : files \subseteq Files \cup {one} /\ sealed' = Evict(files)
    BY <2>0
  <2>2. files \in SUBSET Segment /\ IsFiniteSet(files)
    BY <1>1, <1>3, <2>1
  <2> QED
    BY <2>1, <2>2, EvictMakesRoom
<1>4. EvictionInv /\ [Next]_vars => [Ordered /\ Roomy]_vars
  BY <1>2, <1>3
<1> QED
  BY <1>4, EvictionInvHolds, PTL DEF Spec, EvictionIsOrderly

-----------------------------------------------------------------------------
(* The forwarder's sessions and the hub's open segment keep together, and   *)
(* what a segment holds is one whole stretch of one session's audio.        *)

-----------------------------------------------------------------------------
(* The inductive invariant                                                  *)

(* What is known of the calls: only start() calls made so far run, the last *)
(* of them awaits the session there is, and each is where its session is.   *)
CallsAgree ==
  \A g \in Calls :
    /\ g > generation => call[g].at = "none"
    /\ call[g].at = "stopping" /\ g = generation => current \in {0, call[g].awaits}
    /\ call[g].at = "transcribing" => ~sessions[g].started
    /\ call[g].at = "beginning" => sessions[g].phase = "over" \/ sessions[g].started

Live(s) == s.phase \in {"open", "draining", "stopping"}

Carries(s) == s.carried # 0 \/ s.pending # <<>>

(* There is one session at a time, and its segment is open from the begin   *)
(* to the seal; only a session that has a segment has frames.               *)
SessionsAgree ==
  /\ \A g \in Calls : sessions[g].phase # "over" <=> g = current
  /\ segment.of # 0 =>
       segment.of = current /\ sessions[current].started /\ Live(sessions[current])
  /\ \A g \in Calls :
       /\ Live(sessions[g]) /\ sessions[g].started => segment.of = g
       /\ sessions[g].accepting => sessions[g].phase = "open"
       /\ sessions[g].heard => sessions[g].started
       /\ Carries(sessions[g]) =>
            sessions[g].started /\ sessions[g].phase \in {"open", "draining"}

(* Frame b comes next after a in the session s (a is 0 at its beginning).   *)
Follows(a, b, s) == a < b /\ (a = 0 \/ b = a + 1 \/ s.rejoined)

Base(g) == IF segment.of = g THEN segment.last ELSE 0

Reached(g) == IF sessions[g].carried # 0 THEN sessions[g].carried ELSE Base(g)

(* What the log has, what is carried to it and what waits are one stretch,  *)
(* up to the last frame accepted.                                           *)
Stretch(g, s) ==
  /\ s.carried # 0 => Follows(Base(g), s.carried, s)
  /\ s.pending # <<>> => Follows(Reached(g), s.pending[1], s)
  /\ \A i \in 1..(Len(s.pending) - 1) : Follows(s.pending[i], s.pending[i + 1], s)
  /\ Live(s) /\ ~s.broken =>
       s.latest = IF s.pending = <<>> THEN Reached(g) ELSE s.pending[Len(s.pending)]
  /\ s.broken => ~s.accepting /\ ~Carries(s)
  /\ s.latest < frame
  /\ s.fresh /\ ~s.rejoined => s.latest = 0

Stretches == \A g \in Calls : Stretch(g, sessions[g])

LossIsMarked == lost => gapBefore

SessionsInv == ForwarderTypeOK /\ CallsAgree /\ SessionsAgree /\ Stretches /\ LossIsMarked

-----------------------------------------------------------------------------
(* Types                                                                    *)

USE PendingAssumption, RestartsAssumption, ForwarderBounds DEF Calls

LEMMA EndingTypes ==
  ASSUME NEW s \in Session, NEW b \in BOOLEAN
  PROVE  Ending(s, b) \in Session
<1>1. [s EXCEPT !.phase = "draining", !.accepting = FALSE, !.grace = FALSE,
                !.abort = b] \in Session
  BY DEF Session
<1>2. [s EXCEPT !.abort = @ \/ b] \in Session
  BY DEF Session
<1>3. QED BY <1>1, <1>2 DEF Ending

LEMMA NewTypes == NoSession \in Session /\ NewSession \in Session
<1>1. <<>> \in Seq(1..MaxFrames) /\ 0 \in 0..MaxFrames
  OBVIOUS
<1>2. NoSession \in Session
  BY <1>1 DEF NoSession, Session
<1>3. [NoSession EXCEPT !.phase = "open", !.accepting = TRUE,
                        !.connected = TRUE, !.fresh = TRUE] \in Session
  BY <1>2 DEF Session
<1>4. QED BY <1>2, <1>3 DEF NewSession

LEMMA EndsTypes ==
  ASSUME ForwarderTypeOK, NEW g \in Calls, NEW b \in BOOLEAN, Ends(g, b)
  PROVE  sessions' \in [Calls -> Session]
BY EndingTypes DEF Ends, ForwarderTypeOK

LEMMA EndsCurrentTypes ==
  ASSUME ForwarderTypeOK, EndsCurrent
  PROVE  sessions' \in [Calls -> Session]
<1>1. ASSUME NEW s \in Session PROVE [s EXCEPT !.intended = TRUE] \in Session
  BY DEF Session
<1>2. QED BY <1>1, EndingTypes DEF EndsCurrent, ForwarderTypeOK

LEMMA InitTypes == ForwarderInit => ForwarderTypeOK
<1> SUFFICES ASSUME ForwarderInit PROVE ForwarderTypeOK
  OBVIOUS
<1>1. sessions \in [Calls -> Session]
  BY NewTypes DEF ForwarderInit
<1>2. call \in [Calls ->
         [at : {"none", "stopping", "transcribing", "failing", "beginning"},
          awaits : Calls \cup {0}]]
  BY DEF ForwarderInit, NoCall
<1>3. gapBefore \in BOOLEAN /\ lost \in BOOLEAN
  BY DEF ForwarderInit
<1>4. segment \in [of : Calls \cup {0}, last : 0..MaxFrames, marked : BOOLEAN]
  BY DEF ForwarderInit, NoSegment
<1>5. QED BY <1>1, <1>2, <1>3, <1>4 DEF ForwarderInit, ForwarderTypeOK

LEMMA MarkTypes ==
  ForwarderTypeOK /\ [ForwarderNext]_forwarderVars => gapBefore' \in BOOLEAN /\ lost' \in BOOLEAN
<1> SUFFICES ASSUME gapBefore \in BOOLEAN, lost \in BOOLEAN, [ForwarderNext]_forwarderVars
             PROVE  gapBefore' \in BOOLEAN /\ lost' \in BOOLEAN
  BY DEF ForwarderTypeOK
<1>1. CASE UserStarts \/ UserStops \/ TimerFires \/ FrameLost
  BY <1>1 DEF UserStarts, UserStops, TimerFires, Starting, FrameLost, loopVars
<1>2. ASSUME NEW g \in Calls, CallStep(g)
      PROVE  gapBefore' \in BOOLEAN /\ lost' \in BOOLEAN
  BY <1>2 DEF CallStep, Ready, Started, Refused, Throws, SegmentBegun, loopVars
<1>3. ASSUME NEW g \in Calls, SessionStep(g)
      PROVE  gapBefore' \in BOOLEAN /\ lost' \in BOOLEAN
  BY <1>3 DEF SessionStep, Takes, Appends, Drained, Stopped, Over, Recovers, loopVars
<1>4. ASSUME NEW g \in Calls, World(g)
      PROVE  gapBefore' \in BOOLEAN /\ lost' \in BOOLEAN
  BY <1>4 DEF World, Accept, Reject, LinkDrops, LinkReturns, GraceOver, SourceFails,
              SourceEnds, loopVars
<1>5. CASE UNCHANGED forwarderVars
  BY <1>5 DEF forwarderVars
<1>6. QED BY <1>1, <1>2, <1>3, <1>4, <1>5 DEF ForwarderNext, Loop

LEMMA StepTypes == ForwarderTypeOK /\ [ForwarderNext]_forwarderVars => ForwarderTypeOK'
<1> SUFFICES ASSUME ForwarderTypeOK, [ForwarderNext]_forwarderVars PROVE ForwarderTypeOK'
  OBVIOUS
<1>0. sessions \in [Calls -> Session]
  BY DEF ForwarderTypeOK
<1> DEFINE Rest ==
      /\ generation' \in Calls \cup {0} /\ acts' \in 0..MaxActs
      /\ call' \in [Calls ->
           [at : {"none", "stopping", "transcribing", "failing", "beginning"},
            awaits : Calls \cup {0}]]
      /\ current' \in Calls \cup {0} /\ timer' \in Calls \cup {0}
      /\ restarts' \in 0..MaxRestarts
      /\ lastError' \in {"none", "gap", "other"}
      /\ frame' \in 1..(MaxFrames + 1)
      /\ segment' \in [of : Calls \cup {0}, last : 0..MaxFrames, marked : BOOLEAN]
<1>1. ASSUME sessions' \in [Calls -> Session], Rest PROVE ForwarderTypeOK'
  BY <1>1, MarkTypes DEF ForwarderTypeOK
<1> HIDE DEF Rest
<1>2. CASE UserStarts
  <2>1. Rest BY <1>2 DEF UserStarts, Starting, ForwarderTypeOK, Rest
  <2>2. QED BY <1>1, <1>2, <2>1, EndsCurrentTypes DEF UserStarts, Starting
<1>3. CASE UserStops
  <2>1. Rest BY <1>3 DEF UserStops, ForwarderTypeOK, Rest
  <2>2. QED BY <1>1, <1>3, <2>1, EndsCurrentTypes DEF UserStops
<1>4. CASE TimerFires
  <2>1. Rest BY <1>4 DEF TimerFires, Starting, ForwarderTypeOK, Rest
  <2>2. sessions' \in [Calls -> Session]
    BY <1>0, <1>4, EndsCurrentTypes DEF TimerFires, Starting
  <2>3. QED BY <1>1, <2>1, <2>2
<1>5. CASE FrameLost
  <2>1. Rest BY <1>5 DEF FrameLost, loopVars, ForwarderTypeOK, Rest
  <2>2. QED BY <1>0, <1>1, <1>5, <2>1 DEF FrameLost
<1>6. ASSUME NEW g \in Calls, Ready(g) PROVE ForwarderTypeOK'
  <2>1. Rest BY <1>6 DEF Ready, Returns, NoCall, loopVars, ForwarderTypeOK, Rest
  <2>2. sessions' \in [Calls -> Session] BY <1>0, <1>6, NewTypes DEF Ready
  <2>3. QED BY <1>1, <2>1, <2>2
<1>7. ASSUME NEW g \in Calls, Started(g) PROVE ForwarderTypeOK'
  <2>1. Rest
    <3>1. segment' \in [of : Calls \cup {0}, last : 0..MaxFrames, marked : BOOLEAN]
      <4>1. 0 \in 0..MaxFrames /\ gapBefore \in BOOLEAN BY DEF ForwarderTypeOK
      <4>2. [of |-> g, last |-> 0, marked |-> gapBefore]
              \in [of : Calls \cup {0}, last : 0..MaxFrames, marked : BOOLEAN]
        BY <4>1
      <4>3. segment' = segment \/ segment' = [of |-> g, last |-> 0, marked |-> gapBefore]
        BY <1>7 DEF Started
      <4>4. QED BY <4>2, <4>3 DEF ForwarderTypeOK
    <3>2. call' = [call EXCEPT ![g].at = "failing"]
            \/ call' = [call EXCEPT ![g].at = "beginning"]
      BY <1>7 DEF Started
    <3>3. call' \in [Calls ->
             [at : {"none", "stopping", "transcribing", "failing", "beginning"},
              awaits : Calls \cup {0}]]
      <4> DEFINE Place == {"none", "stopping", "transcribing", "failing", "beginning"}
                 Call == [at : Place, awaits : Calls \cup {0}]
      <4>1. ASSUME NEW a \in Place, NEW c \in Call PROVE [c EXCEPT !.at = a] \in Call
        OBVIOUS
      <4>2. call \in [Calls -> Call] BY DEF ForwarderTypeOK
      <4>3. "failing" \in Place /\ "beginning" \in Place OBVIOUS
      <4> HIDE DEF Place, Call
      <4>4. /\ [call[g] EXCEPT !.at = "failing"] \in Call
            /\ [call[g] EXCEPT !.at = "beginning"] \in Call
        BY <4>1, <4>2, <4>3
      <4>5. call' = [call EXCEPT ![g] = [call[g] EXCEPT !.at = "failing"]]
              \/ call' = [call EXCEPT ![g] = [call[g] EXCEPT !.at = "beginning"]]
        BY <3>2, <4>2
      <4>6. call' \in [Calls -> Call] BY <4>2, <4>4, <4>5
      <4>7. QED BY <4>6 DEF Place, Call
    <3>4. QED BY <1>7, <3>1, <3>3 DEF Started, ForwarderTypeOK, Rest
  <2>2. sessions' \in [Calls -> Session]
    <3>1. CASE Ends(g, TRUE) BY <3>1, EndsTypes
    <3>2. CASE sessions' = [sessions EXCEPT ![g].started = TRUE]
      <4>1. [sessions[g] EXCEPT !.started = TRUE] \in Session
        BY <1>0 DEF Session
      <4>2. QED BY <1>0, <3>2, <4>1
    <3>3. QED BY <1>7, <3>1, <3>2 DEF Started
  <2>3. QED BY <1>1, <2>1, <2>2
<1>8. ASSUME NEW g \in Calls, Refused(g) \/ Reject(g) \/ GraceOver(g) \/ SourceFails(g)
      PROVE  ForwarderTypeOK'
  <2>1. CASE Refused(g)
    <3>1. Rest BY <2>1 DEF Refused, loopVars, ForwarderTypeOK, Rest
    <3>2. QED BY <1>1, <2>1, <3>1, EndsTypes DEF Refused
  <2>2. CASE Reject(g)
    <3>1. Rest BY <2>2 DEF Reject, Listens, loopVars, ForwarderTypeOK, Rest
    <3>2. QED BY <1>1, <2>2, <3>1, EndsTypes DEF Reject
  <2>3. CASE GraceOver(g)
    <3>1. Rest BY <2>3 DEF GraceOver, loopVars, ForwarderTypeOK, Rest
    <3>2. QED BY <1>1, <2>3, <3>1, EndsTypes DEF GraceOver
  <2>4. CASE SourceFails(g)
    <3>1. Rest BY <2>4 DEF SourceFails, loopVars, ForwarderTypeOK, Rest
    <3>2. QED BY <1>1, <2>4, <3>1, EndsTypes DEF SourceFails
  <2>5. QED BY <1>8, <2>1, <2>2, <2>3, <2>4
<1>9. ASSUME NEW g \in Calls, SourceEnds(g) PROVE ForwarderTypeOK'
  <2>1. Rest BY <1>9 DEF SourceEnds, loopVars, ForwarderTypeOK, Rest
  <2>2. QED BY <1>1, <1>9, <2>1, EndsTypes DEF SourceEnds
<1>10. ASSUME NEW g \in Calls, Throws(g) PROVE ForwarderTypeOK'
  <2>1. Rest BY <1>10 DEF Throws, Returns, NoCall, loopVars, ForwarderTypeOK, Rest
  <2>2. QED BY <1>0, <1>1, <1>10, <2>1 DEF Throws
<1>11. ASSUME NEW g \in Calls, SegmentBegun(g) \/ LinkDrops(g) \/ LinkReturns(g) PROVE ForwarderTypeOK'
  <2>1. CASE SegmentBegun(g)
    <3>1. Rest BY <2>1 DEF SegmentBegun, Returns, NoCall, loopVars, ForwarderTypeOK, Rest
    <3>2. [sessions[g] EXCEPT !.heard = ~Finishing(g)] \in Session
      BY <1>0 DEF Finishing, Session
    <3>3. QED BY <1>0, <1>1, <2>1, <3>1, <3>2 DEF SegmentBegun
  <2>2. CASE LinkDrops(g)
    <3>1. Rest BY <2>2 DEF LinkDrops, loopVars, ForwarderTypeOK, Rest
    <3>2. [sessions[g] EXCEPT !.connected = FALSE, !.grace = TRUE] \in Session
      <4>1. ASSUME NEW s \in Session
            PROVE  [s EXCEPT !.connected = FALSE, !.grace = TRUE] \in Session
        BY DEF Session
      <4>2. QED BY <1>0, <4>1
    <3>3. sessions' = [sessions EXCEPT ![g] =
                        [sessions[g] EXCEPT !.connected = FALSE, !.grace = TRUE]]
      BY <1>0, <2>2 DEF LinkDrops
    <3>4. QED BY <1>0, <1>1, <3>1, <3>2, <3>3
  <2>3. CASE LinkReturns(g)
    <3>1. Rest BY <2>3 DEF LinkReturns, loopVars, ForwarderTypeOK, Rest
    <3>2. [sessions[g] EXCEPT !.connected = TRUE, !.grace = FALSE,
                             !.fresh = TRUE, !.rejoined = TRUE] \in Session
      <4>1. ASSUME NEW s \in Session
            PROVE  [s EXCEPT !.connected = TRUE, !.grace = FALSE] \in Session
        BY DEF Session
      <4>2. ASSUME NEW s \in Session
            PROVE  [s EXCEPT !.fresh = TRUE, !.rejoined = TRUE] \in Session
        BY DEF Session
      <4>3. [sessions[g] EXCEPT !.connected = TRUE, !.grace = FALSE] \in Session
        BY <1>0, <4>1
      <4>4. QED BY <4>2, <4>3
    <3>3. sessions' = [sessions EXCEPT ![g] =
                        [sessions[g] EXCEPT !.connected = TRUE, !.grace = FALSE,
                                           !.fresh = TRUE, !.rejoined = TRUE]]
      BY <1>0, <2>3 DEF LinkReturns
    <3>4. QED BY <1>0, <1>1, <3>1, <3>2, <3>3
  <2>4. QED BY <1>11, <2>1, <2>2, <2>3
<1>12. ASSUME NEW g \in Calls, Accept(g) PROVE ForwarderTypeOK'
  <2> DEFINE full == Len(sessions[g].pending) = MaxPending - 1
             s == [sessions[g] EXCEPT !.pending = Append(@, frame), !.latest = frame,
                                     !.fresh = FALSE, !.paused = full]
  <2>1. Rest BY <1>12 DEF Accept, Listens, ForwarderTypeOK, Rest
  <2>2. frame \in 1..MaxFrames BY <1>12 DEF Accept, Listens, ForwarderTypeOK
  <2>3. Append(sessions[g].pending, frame) \in Seq(1..MaxFrames)
    BY <1>0, <2>2 DEF Session
  <2>4. frame \in 0..MaxFrames /\ full \in BOOLEAN
    BY <2>2
  <2>5. sessions' = [sessions EXCEPT ![g] = s]
    BY <1>0, <1>12 DEF Accept
  <2> HIDE DEF full
  <2>6. s \in Session
    BY <1>0, <2>3, <2>4 DEF Session
  <2>7. QED BY <1>0, <1>1, <2>1, <2>5, <2>6
<1>13. ASSUME NEW g \in Calls, Takes(g) PROVE ForwarderTypeOK'
  <2>1. Rest BY <1>13 DEF Takes, loopVars, ForwarderTypeOK, Rest
  <2>2. sessions[g].pending \in Seq(1..MaxFrames) BY <1>0 DEF Session
  <2>3. /\ Head(sessions[g].pending) \in 0..MaxFrames
        /\ Tail(sessions[g].pending) \in Seq(1..MaxFrames)
    <3>1. sessions[g].pending # <<>> BY <1>13 DEF Takes
    <3>2. ASSUME NEW q \in Seq(1..MaxFrames), q # <<>>
          PROVE  Head(q) \in 0..MaxFrames /\ Tail(q) \in Seq(1..MaxFrames)
      BY <3>2
    <3>3. QED BY <2>2, <3>1, <3>2
  <2>4. [sessions[g] EXCEPT !.carried = Head(sessions[g].pending),
                           !.pending = Tail(sessions[g].pending)] \in Session
    BY <1>0, <2>3 DEF Session
  <2>5. sessions' = [sessions EXCEPT ![g] =
                      [sessions[g] EXCEPT !.carried = Head(sessions[g].pending),
                                         !.pending = Tail(sessions[g].pending)]]
    BY <1>0, <1>13 DEF Takes
  <2>6. QED BY <1>0, <1>1, <2>1, <2>4, <2>5
<1>14. ASSUME NEW g \in Calls, Appends(g) PROVE ForwarderTypeOK'
  <2> DEFINE held == sessions[g].paused /\
                       ~(sessions[g].accepting /\ sessions[g].pending = <<>>)
             s == [sessions[g] EXCEPT !.carried = 0, !.paused = held]
             t == [sessions[g] EXCEPT !.carried = 0, !.pending = <<>>, !.broken = TRUE]
  <2>1. Rest
    <3>1. sessions[g].carried \in 0..MaxFrames BY <1>0 DEF Session
    <3>2. QED BY <1>14, <3>1 DEF Appends, loopVars, ForwarderTypeOK, Rest
  <2>2. /\ <<>> \in Seq(1..MaxFrames) /\ 0 \in 0..MaxFrames
        /\ held \in BOOLEAN
    OBVIOUS
  <2>3. sessions' = [sessions EXCEPT ![g] = s]
          \/ sessions' = [sessions EXCEPT ![g] = Ending(t, TRUE)]
    BY <1>0, <1>14 DEF Appends
  <2> HIDE DEF held
  <2>4. s \in Session
    BY <1>0, <2>2 DEF Session
  <2>5. t \in Session
    BY <1>0, <2>2 DEF Session
  <2>6. sessions' \in [Calls -> Session]
    BY <1>0, <2>3, <2>4, <2>5, EndingTypes
  <2>7. QED BY <1>1, <2>1, <2>6
<1>15. ASSUME NEW g \in Calls, Drained(g) \/ Stopped(g) PROVE ForwarderTypeOK'
  <2>1. Rest
    <3>1. NoSegment \in [of : Calls \cup {0}, last : 0..MaxFrames, marked : BOOLEAN]
      BY DEF NoSegment
    <3>2. QED BY <1>15, <3>1 DEF Drained, Stopped, loopVars, ForwarderTypeOK, Rest
  <2>2. \A p \in {"stopping", "sealing"} : [sessions[g] EXCEPT !.phase = p] \in Session
    <3>1. ASSUME NEW t \in Session, NEW p \in {"stopping", "sealing"}
          PROVE  [t EXCEPT !.phase = p] \in Session
      BY DEF Session
    <3>2. sessions[g] \in Session
      BY <1>0
    <3> QED
      BY <3>1, <3>2
  <2>3. \E p \in {"stopping", "sealing"} :
          sessions' = [sessions EXCEPT ![g] = [sessions[g] EXCEPT !.phase = p]]
    BY <1>0, <1>15 DEF Drained, Stopped
  <2>4. sessions' \in [Calls -> Session] BY <1>0, <2>2, <2>3
  <2>5. QED BY <1>1, <2>1, <2>4
<1>16. ASSUME NEW g \in Calls, Over(g) PROVE ForwarderTypeOK'
  <2>1. Rest
    <3>1. generation = 0 \/ generation \in Calls BY DEF ForwarderTypeOK
    <3>2. QED BY <1>16, <3>1 DEF Over, Recovers, ForwarderTypeOK, Rest
  <2>2. sessions' \in [Calls -> Session] BY <1>0, <1>16, NewTypes DEF Over
  <2>3. QED BY <1>1, <2>1, <2>2
<1>17. CASE UNCHANGED forwarderVars
  BY <1>17 DEF forwarderVars, ForwarderTypeOK
<1>18. QED
  BY <1>2, <1>3, <1>4, <1>5, <1>6, <1>7, <1>8, <1>9, <1>10, <1>11, <1>12, <1>13,
     <1>14, <1>15, <1>16, <1>17
     DEF ForwarderNext, Loop, CallStep, SessionStep, World

(* The forwarder's state has its types, for any bounds.                     *)
THEOREM ForwarderTypes == ForwarderSpec => []ForwarderTypeOK
<1>1. QED BY InitTypes, StepTypes, PTL DEF ForwarderSpec

-----------------------------------------------------------------------------
(* A session that goes nowhere, or only begins to end                       *)

Winds(s, t) ==
  /\ t.started = s.started /\ t.latest = s.latest /\ t.pending = s.pending
  /\ t.carried = s.carried /\ t.broken = s.broken
  /\ t.phase = s.phase \/ (s.phase = "open" /\ t.phase = "draining")
  /\ t.accepting => s.accepting /\ t.phase = "open"
  /\ t.heard => s.heard \/ s.started
  /\ s.rejoined => t.rejoined
  /\ t.fresh => s.fresh \/ t.rejoined

SessionsWind == \A g \in Calls : Winds(sessions[g], sessions'[g])

LEMMA EndingWinds ==
  ASSUME NEW s \in Session, NEW b \in BOOLEAN, s.accepting => s.phase = "open"
  PROVE  Winds(s, Ending(s, b))
         /\ Winds(s, Ending([s EXCEPT !.intended = TRUE], TRUE))
<1>1. Winds(s, Ending(s, b))
  BY DEF Ending, Winds, Session
<1>2. Winds(s, Ending([s EXCEPT !.intended = TRUE], TRUE))
  BY DEF Ending, Winds, Session
<1>3. QED BY <1>1, <1>2

LEMMA StayingWinds ==
  ASSUME NEW s \in Session, s.accepting => s.phase = "open"
  PROVE  Winds(s, s)
BY DEF Winds, Session

LEMMA EndsWinds ==
  ASSUME ForwarderTypeOK, SessionsAgree, NEW g \in Calls, NEW b \in BOOLEAN, Ends(g, b)
  PROVE  SessionsWind
<1>1. sessions \in [Calls -> Session] BY DEF ForwarderTypeOK
<1>2. \A h \in Calls : sessions[h].accepting => sessions[h].phase = "open"
  BY DEF SessionsAgree
<1>3. ASSUME NEW h \in Calls PROVE Winds(sessions[h], sessions'[h])
  <2>1. CASE h = g BY <1>1, <1>2, <2>1, EndingWinds DEF Ends
  <2>2. CASE h # g BY <1>1, <1>2, <2>2, StayingWinds DEF Ends
  <2>3. QED BY <2>1, <2>2
<1>4. QED BY <1>3 DEF SessionsWind

LEMMA EndsCurrentWinds ==
  ASSUME ForwarderTypeOK, SessionsAgree, EndsCurrent
  PROVE  SessionsWind
<1>1. sessions \in [Calls -> Session] BY DEF ForwarderTypeOK
<1>2. \A h \in Calls : sessions[h].accepting => sessions[h].phase = "open"
  BY DEF SessionsAgree
<1>3. ASSUME NEW h \in Calls PROVE Winds(sessions[h], sessions'[h])
  <2>1. CASE h = current BY <1>1, <1>2, <2>1, EndingWinds DEF EndsCurrent
  <2>2. CASE h # current BY <1>1, <1>2, <2>2, StayingWinds DEF EndsCurrent
  <2>3. QED BY <2>1, <2>2
<1>4. QED BY <1>3 DEF SessionsWind

LEMMA UnchangedWinds ==
  ASSUME ForwarderTypeOK, SessionsAgree, UNCHANGED sessions
  PROVE  SessionsWind
<1>1. sessions \in [Calls -> Session] BY DEF ForwarderTypeOK
<1>2. QED BY <1>1, StayingWinds DEF SessionsAgree, SessionsWind

(* Nothing of what the sessions and the segment hold is disturbed by it.    *)
LEMMA WindingKeeps ==
  ASSUME ForwarderTypeOK, ForwarderTypeOK', SessionsAgree, Stretches, SessionsWind,
         UNCHANGED <<current, segment>>, frame' >= frame
  PROVE  SessionsAgree' /\ Stretches'
<1>1. sessions \in [Calls -> Session] /\ sessions' \in [Calls -> Session]
      /\ frame \in Int /\ frame' \in Int
  BY DEF ForwarderTypeOK
<1>2. SessionsAgree'
  <2>1. \A g \in Calls : sessions'[g].phase # "over" <=> g = current
    BY DEF SessionsAgree, SessionsWind, Winds
  <2>2. ASSUME segment.of # 0
        PROVE  segment.of = current /\ sessions'[current].started /\ Live(sessions'[current])
    <3>1. segment.of \in Calls BY <2>2 DEF ForwarderTypeOK
    <3>2. QED BY <2>2, <3>1 DEF SessionsAgree, SessionsWind, Winds, Live
  <2>3. ASSUME NEW g \in Calls
        PROVE  /\ Live(sessions'[g]) /\ sessions'[g].started => segment.of = g
               /\ sessions'[g].accepting => sessions'[g].phase = "open"
               /\ sessions'[g].heard => sessions'[g].started
               /\ Carries(sessions'[g]) =>
                    sessions'[g].started /\ sessions'[g].phase \in {"open", "draining"}
    BY DEF SessionsAgree, SessionsWind, Winds, Live, Carries
  <2>4. QED BY <2>1, <2>2, <2>3 DEF SessionsAgree
<1>3. ASSUME NEW g \in Calls PROVE Stretch(g, sessions[g])'
  <2> DEFINE s == sessions[g]
             t == sessions'[g]
  <2>1. Winds(s, t) /\ Stretch(g, s)
    BY DEF SessionsWind, Stretches
  <2>2. \A a, b : Follows(a, b, s) => Follows(a, b, t)
    BY <2>1 DEF Follows, Winds
  <2>3. Base(g)' = Base(g) /\ Reached(g)' = Reached(g)
    BY <2>1 DEF Base, Reached, Winds
  <2>4. /\ t.carried # 0 => Follows(Base(g), t.carried, t)
        /\ t.pending # <<>> => Follows(Reached(g), t.pending[1], t)
        /\ \A i \in 1..(Len(t.pending) - 1) : Follows(t.pending[i], t.pending[i + 1], t)
    BY <2>1, <2>2 DEF Stretch, Winds
  <2>5. /\ Live(t) /\ ~t.broken =>
             t.latest = IF t.pending = <<>> THEN Reached(g) ELSE t.pending[Len(t.pending)]
        /\ t.broken => ~t.accepting /\ ~Carries(t)
    BY <2>1 DEF Stretch, Winds, Live, Carries
  <2>6. t.latest < frame'
    BY <1>1, <2>1 DEF Stretch, Winds, Session
  <2>7. t.fresh /\ ~t.rejoined => t.latest = 0
    BY <2>1 DEF Stretch, Winds
  <2>8. QED BY <2>3, <2>4, <2>5, <2>6, <2>7 DEF Stretch
<1>4. QED BY <1>2, <1>3 DEF Stretches

-----------------------------------------------------------------------------
(* The steps                                                                *)

LEMMA LossStaysMarked == LossIsMarked /\ [ForwarderNext]_forwarderVars => LossIsMarked'
<1> SUFFICES ASSUME lost => gapBefore, [ForwarderNext]_forwarderVars PROVE lost' => gapBefore'
  BY DEF LossIsMarked
<1>1. CASE UserStarts \/ UserStops \/ TimerFires \/ FrameLost
  BY <1>1 DEF UserStarts, UserStops, TimerFires, Starting, FrameLost, loopVars
<1>2. ASSUME NEW g \in Calls, CallStep(g) PROVE lost' => gapBefore'
  BY <1>2 DEF CallStep, Ready, Started, Refused, Throws, SegmentBegun, loopVars
<1>3. ASSUME NEW g \in Calls, SessionStep(g) PROVE lost' => gapBefore'
  BY <1>3 DEF SessionStep, Takes, Appends, Drained, Stopped, Over, Recovers, loopVars
<1>4. ASSUME NEW g \in Calls, World(g) PROVE lost' => gapBefore'
  BY <1>4 DEF World, Accept, Reject, LinkDrops, LinkReturns, GraceOver, SourceFails,
              SourceEnds, loopVars
<1>5. CASE UNCHANGED forwarderVars
  BY <1>5 DEF forwarderVars
<1>6. QED BY <1>1, <1>2, <1>3, <1>4, <1>5 DEF ForwarderNext, Loop

Agree == CallsAgree /\ SessionsAgree /\ Stretches

(* start() up to its first await, and stop().                               *)
LEMMA StartingKeeps ==
  ASSUME ForwarderTypeOK, ForwarderTypeOK', Agree, Starting
  PROVE  Agree'
<1>1. SessionsWind BY EndsCurrentWinds DEF Starting, Agree
<1>2. SessionsAgree' /\ Stretches'
  <2>1. frame' >= frame BY DEF Starting, ForwarderTypeOK
  <2>2. QED BY <1>1, <2>1, WindingKeeps DEF Starting, Agree
<1>3. ASSUME NEW g \in Calls
      PROVE  /\ g > generation' => call'[g].at = "none"
             /\ call'[g].at = "stopping" /\ g = generation' =>
                  current' \in {0, call'[g].awaits}
             /\ call'[g].at = "transcribing" => ~sessions'[g].started
             /\ call'[g].at = "beginning" =>
                  sessions'[g].phase = "over" \/ sessions'[g].started
  <2>1. /\ generation \in Int /\ generation' = generation + 1
        /\ current' = current
    BY DEF Starting, ForwarderTypeOK
  <2>2. CASE g = generation + 1
    <3>1. call'[g] = [at |-> "stopping", awaits |-> current]
      BY <2>2 DEF Starting, ForwarderTypeOK
    <3>2. QED BY <2>1, <2>2, <3>1
  <2>3. CASE g # generation + 1
    <3>1. call'[g] = call[g]
      BY <2>3 DEF Starting, ForwarderTypeOK
    <3>2. QED BY <1>1, <2>1, <2>3, <3>1 DEF Agree, CallsAgree, SessionsWind, Winds
  <2>4. QED BY <2>2, <2>3
<1>4. QED BY <1>2, <1>3 DEF Agree, CallsAgree

LEMMA StopKeeps ==
  ASSUME ForwarderTypeOK, ForwarderTypeOK', Agree, UserStops
  PROVE  Agree'
<1>1. SessionsWind BY EndsCurrentWinds DEF UserStops, Agree
<1>2. SessionsAgree' /\ Stretches'
  <2>1. frame' >= frame BY DEF UserStops, ForwarderTypeOK
  <2>2. QED BY <1>1, <2>1, WindingKeeps DEF UserStops, Agree
<1>3. CallsAgree'
  <2>1. /\ generation \in Int /\ generation' = generation + 1
        /\ current' = current /\ call' = call
    BY DEF UserStops, ForwarderTypeOK
  <2>2. QED BY <1>1, <2>1 DEF Agree, CallsAgree, SessionsWind, Winds
<1>4. QED BY <1>2, <1>3 DEF Agree

(* Every step that lets the sessions wind down and returns from a call, or  *)
(* fails it, or leaves it alone.                                            *)
CallsEnd ==
  \A h \in Calls :
    \/ call'[h] = call[h]
    \/ call'[h].at \in {"none", "failing"} /\ h <= generation

LEMMA WindingStep ==
  ASSUME ForwarderTypeOK, ForwarderTypeOK', Agree, SessionsWind, CallsEnd,
         generation' = generation, current' = current, segment' = segment,
         frame' >= frame
  PROVE  Agree'
<1>1. SessionsAgree' /\ Stretches'
  BY WindingKeeps DEF Agree
<1>2. generation \in Int BY DEF ForwarderTypeOK
<1>3. CallsAgree'
  BY <1>2 DEF CallsEnd, Agree, CallsAgree, SessionsWind, Winds
<1>4. QED BY <1>1, <1>3 DEF Agree

(* A call that is somewhere is one of those made.                           *)
LEMMA CallsAreMade ==
  ASSUME ForwarderTypeOK, CallsAgree, NEW g \in Calls, call[g].at # "none"
  PROVE  g <= generation
BY DEF ForwarderTypeOK, CallsAgree

LEMMA ReturnKeeps ==
  ASSUME ForwarderTypeOK, CallsAgree, NEW g \in Calls, call[g].at # "none",
         Returns(g) \/ call' = [call EXCEPT ![g].at = "failing"]
  PROVE  CallsEnd
BY CallsAreMade DEF CallsEnd, Returns, NoCall, ForwarderTypeOK

LEMMA WorldKeeps ==
  ASSUME ForwarderTypeOK, ForwarderTypeOK', Agree, NEW g \in Calls,
         \/ Reject(g) \/ LinkDrops(g) \/ LinkReturns(g) \/ GraceOver(g)
         \/ SourceFails(g) \/ SourceEnds(g)
  PROVE  Agree'
<1>1. /\ UNCHANGED <<generation, call, current, segment>>
      /\ frame' >= frame
  <2>1. CASE Reject(g) BY <2>1 DEF Reject, loopVars, ForwarderTypeOK
  <2>2. CASE LinkDrops(g) BY <2>2 DEF LinkDrops, loopVars, ForwarderTypeOK
  <2>3. CASE LinkReturns(g) BY <2>3 DEF LinkReturns, loopVars, ForwarderTypeOK
  <2>4. CASE GraceOver(g) BY <2>4 DEF GraceOver, loopVars, ForwarderTypeOK
  <2>5. CASE SourceFails(g) BY <2>5 DEF SourceFails, loopVars, ForwarderTypeOK
  <2>6. CASE SourceEnds(g) BY <2>6 DEF SourceEnds, loopVars, ForwarderTypeOK
  <2>7. QED BY <2>1, <2>2, <2>3, <2>4, <2>5, <2>6
<1>2. SessionsWind
  <2>1. CASE Ends(g, TRUE) \/ Ends(g, FALSE) BY <2>1, EndsWinds DEF Agree
  <2>2. CASE LinkDrops(g) \/ LinkReturns(g)
    <3>1. sessions \in [Calls -> Session] BY DEF ForwarderTypeOK
    <3>2. \A h \in Calls : sessions[h].accepting => sessions[h].phase = "open"
      BY DEF Agree, SessionsAgree
    <3>3. ASSUME NEW h \in Calls PROVE Winds(sessions[h], sessions'[h])
      <4>1. CASE h # g
        BY <2>2, <3>1, <3>2, <4>1, StayingWinds DEF LinkDrops, LinkReturns
      <4>2. CASE h = g /\ LinkDrops(g)
        BY <3>1, <3>2, <4>2 DEF LinkDrops, Winds, Session
      <4>3. CASE h = g /\ LinkReturns(g)
        BY <3>1, <3>2, <4>3 DEF LinkReturns, Winds, Session
      <4>4. QED BY <2>2, <4>1, <4>2, <4>3
    <3>4. QED BY <3>3 DEF SessionsWind
  <2>3. QED BY <2>1, <2>2 DEF Reject, GraceOver, SourceFails, SourceEnds
<1>3. CallsEnd BY <1>1 DEF CallsEnd
<1>4. QED BY <1>1, <1>2, <1>3, WindingStep

(* The calls and the session each of them has.                              *)
LEMMA ReadyKeeps ==
  ASSUME ForwarderTypeOK, ForwarderTypeOK', Agree, NEW g \in Calls, Ready(g)
  PROVE  Agree'
<1>1. /\ UNCHANGED <<generation, frame, segment>> /\ frame \in Int
      /\ generation \in Int
  BY DEF Ready, loopVars, ForwarderTypeOK
<1>2. CASE Returns(g) /\ UNCHANGED <<sessions, current>>
  <2>1. SessionsWind BY <1>2, UnchangedWinds DEF Agree
  <2>2. call[g].at # "none" BY DEF Ready
  <2>3. QED BY <1>1, <1>2, <2>1, <2>2, ReturnKeeps, WindingStep DEF Agree
<1>3. CASE /\ g = generation /\ current' = g
           /\ sessions' = [sessions EXCEPT ![g] = NewSession]
           /\ call' = [call EXCEPT ![g] = [at |-> "transcribing", awaits |-> 0]]
  <2>1. current = 0
    <3>1. call[g].at = "stopping" /\ (call[g].awaits \in Calls =>
            sessions[call[g].awaits].phase = "over")
      BY DEF Ready
    <3>2. current \in {0, call[g].awaits} BY <1>3, <3>1 DEF Agree, CallsAgree
    <3>3. SUFFICES ASSUME current \in Calls PROVE FALSE BY DEF ForwarderTypeOK
    <3>4. current # 0 BY <3>3
    <3>5. QED BY <3>1, <3>2, <3>3, <3>4 DEF Agree, SessionsAgree
  <2>2. segment.of = 0 BY <2>1 DEF Agree, SessionsAgree
  <2>3. sessions'[g] = NewSession /\ \A h \in Calls \ {g} : sessions'[h] = sessions[h]
    BY <1>3 DEF ForwarderTypeOK
  <2>4. call'[g].at = "transcribing" /\ \A h \in Calls \ {g} : call'[h] = call[h]
    BY <1>3 DEF ForwarderTypeOK
  <2>5. \A h \in Calls : sessions[h].phase = "over"
    BY <2>1 DEF Agree, SessionsAgree
  <2>6. /\ sessions'[g].phase = "open" /\ ~sessions'[g].started /\ ~sessions'[g].heard
        /\ sessions'[g].carried = 0 /\ sessions'[g].pending = <<>>
    BY <2>3 DEF NewSession, NoSession
  <2>7. CallsAgree'
    <3>1. ASSUME NEW h \in Calls \ {g}
          PROVE  /\ h > generation => call'[h].at = "none"
                 /\ call'[h].at = "transcribing" => ~sessions'[h].started
                 /\ call'[h].at = "beginning" => sessions'[h].phase = "over"
      BY <1>3, <2>3, <2>4, <2>5 DEF Agree, CallsAgree
    <3>2. QED BY <1>1, <1>3, <2>4, <2>6, <3>1 DEF CallsAgree
  <2>8. SessionsAgree'
    <3>1. ASSUME NEW h \in Calls \ {g}
          PROVE  /\ sessions'[h].phase = "over" /\ ~sessions'[h].accepting
                 /\ ~Carries(sessions'[h]) /\ (sessions'[h].heard => sessions'[h].started)
      BY <2>3, <2>5 DEF Agree, SessionsAgree
    <3>2. QED BY <1>1, <1>3, <2>2, <2>6, <3>1 DEF SessionsAgree, Live, Carries
  <2>9. Stretch(g, sessions[g])'
    <3>1. 0 < frame BY DEF ForwarderTypeOK
    <3>2. Base(g)' = 0 /\ Reached(g)' = 0
      BY <1>1, <2>2, <2>3 DEF Base, Reached, NewSession, NoSession
    <3>3. QED BY <1>1, <2>3, <3>1, <3>2 DEF Stretch, NewSession, NoSession, Live, Carries
  <2>10. ASSUME NEW h \in Calls \ {g} PROVE Stretch(h, sessions[h])'
    <3>1. sessions'[h] = sessions[h] /\ Stretch(h, sessions[h])
      BY <2>3 DEF Agree, Stretches
    <3>2. Base(h)' = Base(h) /\ Reached(h)' = Reached(h)
      BY <1>1, <3>1 DEF Base, Reached
    <3>3. QED BY <1>1, <3>1, <3>2 DEF Stretch
  <2>11. QED BY <2>7, <2>8, <2>9, <2>10 DEF Agree, Stretches
<1>4. QED BY <1>2, <1>3 DEF Ready

LEMMA StartedKeeps ==
  ASSUME ForwarderTypeOK, ForwarderTypeOK', Agree, NEW g \in Calls, Started(g)
  PROVE  Agree'
<1>1. /\ UNCHANGED <<generation, current, frame>> /\ frame \in Int
      /\ generation \in Int /\ call[g].at = "transcribing"
  BY DEF Started, ForwarderTypeOK
<1>2. CASE Ends(g, TRUE) /\ call' = [call EXCEPT ![g].at = "failing"] /\ UNCHANGED segment
  <2>1. SessionsWind BY <1>2, EndsWinds DEF Agree
  <2>2. CallsEnd BY <1>1, <1>2, ReturnKeeps DEF Agree
  <2>3. frame' >= frame BY <1>1
  <2>4. QED BY <1>1, <1>2, <2>1, <2>2, <2>3, WindingStep
<1>3. CASE /\ g = generation /\ g = current /\ ~Finishing(g)
           /\ sessions' = [sessions EXCEPT ![g].started = TRUE]
           /\ segment' = [of |-> g, last |-> 0, marked |-> gapBefore]
           /\ call' = [call EXCEPT ![g].at = "beginning"]
  <2> DEFINE s == sessions[g]
  <2>1. /\ s.phase = "open" /\ ~s.started /\ ~s.heard /\ ~Carries(s)
        /\ segment.of = 0
    BY <1>1, <1>3 DEF Finishing, Agree, CallsAgree, SessionsAgree
  <2>2. sessions'[g] = [s EXCEPT !.started = TRUE]
        /\ \A h \in Calls \ {g} : sessions'[h] = sessions[h]
    BY <1>3 DEF ForwarderTypeOK
  <2>3. s \in Session BY DEF ForwarderTypeOK
  <2>4. call'[g].at = "beginning" /\ \A h \in Calls \ {g} : call'[h] = call[h]
    BY <1>3 DEF ForwarderTypeOK
  <2>5. CallsAgree'
    BY <1>1, <1>3, <2>2, <2>3, <2>4 DEF Agree, CallsAgree, Session
  <2>6. /\ sessions'[g].phase = "open" /\ sessions'[g].started
        /\ sessions'[g].heard = s.heard /\ sessions'[g].accepting = s.accepting
        /\ sessions'[g].pending = s.pending /\ sessions'[g].carried = s.carried
        /\ sessions'[g].latest = s.latest /\ sessions'[g].broken = s.broken
        /\ sessions'[g].fresh = s.fresh /\ sessions'[g].rejoined = s.rejoined
    BY <2>1, <2>2, <2>3 DEF Session
  <2>7. SessionsAgree'
    <3>1. \A h \in Calls : sessions'[h].phase # "over" <=> h = current'
      BY <1>1, <1>3, <2>2, <2>6 DEF Agree, SessionsAgree
    <3>2. segment'.of # 0 => segment'.of = current' /\ sessions'[current'].started
            /\ Live(sessions'[current'])
      BY <1>1, <1>3, <2>6 DEF Live
    <3>3. ASSUME NEW h \in Calls
          PROVE  /\ Live(sessions'[h]) /\ sessions'[h].started => segment'.of = h
                 /\ sessions'[h].accepting => sessions'[h].phase = "open"
                 /\ sessions'[h].heard => sessions'[h].started
                 /\ Carries(sessions'[h]) =>
                      sessions'[h].started /\ sessions'[h].phase \in {"open", "draining"}
      <4>1. CASE h = g BY <1>3, <2>6, <4>1
      <4>2. CASE h # g
        <5>1. sessions'[h] = sessions[h] /\ sessions[h].phase = "over"
          BY <1>3, <2>2, <4>2 DEF Agree, SessionsAgree
        <5>2. QED BY <5>1 DEF Agree, SessionsAgree, Live
      <4>3. QED BY <4>1, <4>2
    <3>4. QED BY <3>1, <3>2, <3>3 DEF SessionsAgree
  <2>8. Stretch(g, sessions[g])'
    <3>1. Stretch(g, s) BY DEF Agree, Stretches
    <3>2. Base(g) = 0 /\ Reached(g) = 0 /\ Base(g)' = 0 /\ Reached(g)' = 0
      BY <1>3, <2>1, <2>6 DEF Base, Reached, Carries
    <3>3. QED BY <1>1, <2>1, <2>6, <3>1, <3>2 DEF Stretch, Live, Carries
  <2>9. ASSUME NEW h \in Calls \ {g} PROVE Stretch(h, sessions[h])'
    <3>1. sessions'[h] = sessions[h] /\ Stretch(h, sessions[h])
      BY <2>2 DEF Agree, Stretches
    <3>2. Base(h)' = 0 /\ Base(h) = 0
      BY <1>3, <2>1 DEF Base
    <3>3. Reached(h)' = Reached(h) BY <3>1, <3>2 DEF Reached
    <3>4. QED BY <1>1, <3>1, <3>2, <3>3 DEF Stretch
  <2>10. QED BY <2>5, <2>7, <2>8, <2>9 DEF Agree, Stretches
<1>4. QED BY <1>2, <1>3 DEF Started

LEMMA CallEndKeeps ==
  ASSUME ForwarderTypeOK, ForwarderTypeOK', Agree, NEW g \in Calls, Refused(g) \/ Throws(g) \/ SegmentBegun(g)
  PROVE  Agree'
<1>1. /\ UNCHANGED <<generation, current, segment, frame>> /\ frame \in Int
  <2>1. CASE Refused(g) BY <2>1 DEF Refused, loopVars, ForwarderTypeOK
  <2>2. CASE Throws(g) BY <2>2 DEF Throws, loopVars, ForwarderTypeOK
  <2>3. CASE SegmentBegun(g) BY <2>3 DEF SegmentBegun, loopVars, ForwarderTypeOK
  <2>4. QED BY <2>1, <2>2, <2>3
<1>2. call[g].at # "none" /\ (Returns(g) \/ call' = [call EXCEPT ![g].at = "failing"])
  BY DEF Refused, Throws, SegmentBegun
<1>3. SessionsWind
  <2>1. CASE Refused(g) BY <2>1, EndsWinds DEF Refused, Agree
  <2>2. CASE Throws(g) BY <2>2, UnchangedWinds DEF Throws, Agree
  <2>3. CASE SegmentBegun(g)
    <3>1. sessions \in [Calls -> Session] BY DEF ForwarderTypeOK
    <3>2. \A h \in Calls : sessions[h].accepting => sessions[h].phase = "open"
      BY DEF Agree, SessionsAgree
    <3>3. sessions[g].phase = "open" => sessions[g].started
      BY <2>3 DEF SegmentBegun, Agree, CallsAgree
    <3>4. ASSUME NEW h \in Calls PROVE Winds(sessions[h], sessions'[h])
      <4>1. CASE h # g BY <2>3, <3>1, <3>2, <4>1, StayingWinds DEF SegmentBegun
      <4>2. CASE h = g BY <2>3, <3>1, <3>2, <3>3, <4>2 DEF SegmentBegun, Finishing, Winds, Session
      <4>3. QED BY <4>1, <4>2
    <3>5. QED BY <3>4 DEF SessionsWind
  <2>4. QED BY <2>1, <2>2, <2>3
<1>4. QED BY <1>1, <1>2, <1>3, ReturnKeeps, WindingStep DEF Agree

LEMMA FrameLostKeeps ==
  ASSUME ForwarderTypeOK, ForwarderTypeOK', Agree, FrameLost
  PROVE  Agree'
<1>1. /\ UNCHANGED <<generation, call, current, segment, sessions>> /\ frame' >= frame
  BY DEF FrameLost, loopVars, ForwarderTypeOK
<1>2. SessionsWind BY <1>1, UnchangedWinds DEF Agree
<1>3. CallsEnd BY <1>1 DEF CallsEnd
<1>4. QED BY <1>1, <1>2, <1>3, WindingStep

(* A step of the session g alone that leaves its segment open: what is to be*)
(* known of g is known of all.                                              *)
OnlyMoves(g) ==
  /\ UNCHANGED <<generation, call, current>>
  /\ \A h \in Calls \ {g} : sessions'[h] = sessions[h]
  /\ frame' >= frame

LEMMA MovingStep ==
  ASSUME ForwarderTypeOK, ForwarderTypeOK', Agree, NEW g \in Calls, g = current, OnlyMoves(g),
         sessions'[g].started = sessions[g].started,
         sessions'[g].phase # "over",
         segment'.of = segment.of \/ segment'.of = 0,
         segment.of # 0 /\ segment'.of # 0 => Live(sessions'[g]),
         Live(sessions'[g]) => Live(sessions[g]) /\ segment'.of = segment.of,
         sessions'[g].accepting => sessions'[g].phase = "open",
         sessions'[g].heard => sessions'[g].started,
         Carries(sessions'[g]) =>
           sessions'[g].started /\ sessions'[g].phase \in {"open", "draining"},
         Stretch(g, sessions[g])'
  PROVE  Agree'
<1>1. \A h \in Calls \ {g} :
        sessions'[h] = sessions[h] /\ sessions[h].phase = "over" /\ segment.of # h
  BY DEF OnlyMoves, Agree, SessionsAgree
<1>2. /\ call' = call /\ generation' = generation /\ current' = current
      /\ frame' >= frame /\ frame \in Int /\ frame' \in Int
  BY DEF OnlyMoves, ForwarderTypeOK
<1>3. CallsAgree'
  <2>1. ASSUME NEW h \in Calls
        PROVE  /\ sessions'[h].started = sessions[h].started
               /\ sessions[h].phase = "over" => sessions'[h].phase = "over"
    <3>1. sessions[g].phase # "over" BY DEF Agree, SessionsAgree
    <3>2. QED BY <1>1, <3>1
  <2>2. QED BY <1>2, <2>1 DEF Agree, CallsAgree
<1>4. SessionsAgree'
  <2>1. \A h \in Calls : sessions'[h].phase # "over" <=> h = current'
    BY <1>1, <1>2
  <2>2. segment'.of # 0 => segment'.of = current' /\ sessions'[current'].started
          /\ Live(sessions'[current'])
    <3>1. segment.of # 0 => segment.of = g /\ sessions[g].started
      BY DEF Agree, SessionsAgree
    <3>2. QED BY <1>2, <3>1
  <2>3. ASSUME NEW h \in Calls
        PROVE  /\ Live(sessions'[h]) /\ sessions'[h].started => segment'.of = h
               /\ sessions'[h].accepting => sessions'[h].phase = "open"
               /\ sessions'[h].heard => sessions'[h].started
               /\ Carries(sessions'[h]) =>
                    sessions'[h].started /\ sessions'[h].phase \in {"open", "draining"}
    <3>1. CASE h = g BY <3>1 DEF Agree, SessionsAgree
    <3>2. CASE h # g BY <1>1, <3>2 DEF Agree, SessionsAgree, Live
    <3>3. QED BY <3>1, <3>2
  <2>4. QED BY <2>1, <2>2, <2>3 DEF SessionsAgree
<1>5. ASSUME NEW h \in Calls PROVE Stretch(h, sessions[h])'
  <2>1. CASE h = g BY <2>1
  <2>2. CASE h # g
    <3>1. sessions'[h] = sessions[h] /\ Stretch(h, sessions[h])
          /\ sessions[h] \in Session
      BY <1>1, <2>2 DEF Agree, Stretches, ForwarderTypeOK
    <3>2. segment.of # h /\ segment'.of # h BY <1>1, <2>2
    <3>3. Base(h)' = Base(h) /\ Reached(h)' = Reached(h)
      BY <3>1, <3>2 DEF Base, Reached
    <3>4. sessions[h].latest < frame' BY <1>2, <3>1 DEF Stretch, Session
    <3>5. QED BY <3>1, <3>3, <3>4 DEF Stretch
  <2>3. QED BY <2>1, <2>2
<1>6. QED BY <1>3, <1>4, <1>5 DEF Agree, Stretches

LEMMA StopsSealing ==
  ASSUME ForwarderTypeOK, ForwarderTypeOK', Agree, NEW g \in Calls, Drained(g) \/ Stopped(g)
  PROVE  Agree'
<1> DEFINE s == sessions[g]
           t == sessions'[g]
<1>1. s \in Session /\ g = current /\ Stretch(g, s) /\ ~Carries(s) /\ Live(s)
      /\ s.phase \in {"draining", "stopping"}
  BY DEF Drained, Stopped, Agree, SessionsAgree, Stretches, Carries, Live, ForwarderTypeOK
<1>2. /\ OnlyMoves(g)
      /\ \/ t = [s EXCEPT !.phase = "sealing"] /\ segment' = NoSegment
         \/ t = [s EXCEPT !.phase = "stopping"] /\ segment' = segment
  BY DEF Drained, Stopped, OnlyMoves, loopVars, ForwarderTypeOK
<1>3. /\ \/ t.phase = "sealing" /\ segment'.of = 0
         \/ t.phase = "stopping" /\ segment' = segment
      /\ t.started = s.started /\ t.heard = s.heard /\ t.accepting = s.accepting
      /\ t.pending = s.pending /\ t.carried = s.carried /\ t.latest = s.latest
      /\ t.fresh = s.fresh /\ t.rejoined = s.rejoined /\ t.broken = s.broken
  <2>1. CASE t = [s EXCEPT !.phase = "sealing"] /\ segment' = NoSegment
    BY <1>1, <2>1 DEF Session, NoSegment
  <2>2. CASE t = [s EXCEPT !.phase = "stopping"] /\ segment' = segment
    BY <1>1, <2>2 DEF Session
  <2>3. QED BY <1>2, <2>1, <2>2
<1>4. ~s.accepting /\ (s.heard => s.started)
  BY <1>1 DEF Agree, SessionsAgree
<1>5. Stretch(g, sessions[g])'
  <2>1. s.latest < frame' BY <1>1, <1>2 DEF OnlyMoves, Stretch, Session, ForwarderTypeOK
  <2>2. Live(t) => Reached(g)' = Reached(g)
    BY <1>3 DEF Live, Reached, Base
  <2>3. QED BY <1>1, <1>3, <2>1, <2>2 DEF Stretch, Live, Carries
<1>6. QED BY <1>1, <1>2, <1>3, <1>4, <1>5, MovingStep DEF Live, Carries

LEMMA OverKeeps ==
  ASSUME ForwarderTypeOK, ForwarderTypeOK', Agree, NEW g \in Calls, Over(g)
  PROVE  Agree'
<1>1. /\ g = current /\ current' = 0 /\ sessions[g].phase = "sealing"
      /\ sessions'[g] = NoSession
      /\ \A h \in Calls \ {g} : sessions'[h] = sessions[h]
  BY DEF Over, Agree, SessionsAgree, ForwarderTypeOK
<1>2. segment.of = 0 /\ segment' = segment /\ frame' = frame /\ frame >= 1
      /\ call' = call /\ generation' = generation /\ frame \in Int
  BY <1>1 DEF Over, Agree, SessionsAgree, Live, ForwarderTypeOK
<1>3. \A h \in Calls : sessions'[h].phase = "over"
  BY <1>1 DEF Agree, SessionsAgree, NoSession
<1>4. CallsAgree'
  <2>1. \A h \in Calls : sessions'[h].started => sessions[h].started
    BY <1>1 DEF NoSession
  <2>2. QED BY <1>1, <1>2, <1>3, <2>1 DEF Agree, CallsAgree
<1>5. SessionsAgree'
  <2>1. ASSUME NEW h \in Calls
        PROVE  /\ ~sessions'[h].accepting /\ ~Carries(sessions'[h])
               /\ sessions'[h].heard => sessions'[h].started
    <3>1. CASE h = g BY <1>1, <3>1 DEF NoSession, Carries
    <3>2. CASE h # g BY <1>1, <3>2 DEF Agree, SessionsAgree
    <3>3. QED BY <3>1, <3>2
  <2>2. QED BY <1>1, <1>2, <1>3, <2>1 DEF SessionsAgree, Live
<1>6. ASSUME NEW h \in Calls PROVE Stretch(h, sessions[h])'
  <2>1. CASE h = g
    BY <1>1, <1>2, <2>1 DEF Stretch, NoSession, Live, Carries
  <2>2. CASE h # g
    <3>1. sessions'[h] = sessions[h] /\ Stretch(h, sessions[h])
      BY <1>1, <2>2 DEF Agree, Stretches
    <3>2. Base(h)' = Base(h) /\ Reached(h)' = Reached(h)
      BY <1>2, <3>1 DEF Base, Reached
    <3>3. QED BY <1>2, <3>1, <3>2 DEF Stretch
  <2>3. QED BY <2>1, <2>2
<1>7. QED BY <1>4, <1>5, <1>6 DEF Agree, Stretches

LEMMA AppendFacts ==
  ASSUME NEW S, NEW q \in Seq(S), NEW e \in S
  PROVE  /\ Len(q) \in Nat /\ Len(Append(q, e)) = Len(q) + 1
         /\ Append(q, e)[Len(q) + 1] = e /\ Append(q, e) # <<>>
         /\ \A i \in 1..Len(q) : Append(q, e)[i] = q[i]
OBVIOUS

LEMMA TailFacts ==
  ASSUME NEW S, NEW q \in Seq(S), q # <<>>
  PROVE  /\ Len(q) \in Nat /\ Len(q) >= 1 /\ Head(q) = q[1] /\ q[1] \in S
         /\ Tail(q) \in Seq(S) /\ Len(Tail(q)) = Len(q) - 1
         /\ \A i \in 1..(Len(q) - 1) : Tail(q)[i] = q[i + 1]
         /\ Tail(q) = <<>> <=> Len(q) = 1
<1>1. /\ Len(q) \in Nat /\ Len(q) >= 1 /\ Head(q) = q[1] /\ q[1] \in S
      /\ Tail(q) \in Seq(S) /\ Len(Tail(q)) = Len(q) - 1
      /\ \A i \in 1..(Len(q) - 1) : Tail(q)[i] = q[i + 1]
  OBVIOUS
<1>2. ASSUME NEW r \in Seq(S) PROVE r = <<>> <=> Len(r) = 0
  OBVIOUS
<1>3. Tail(q) = <<>> <=> Len(Tail(q)) = 0
  BY <1>1, <1>2
<1>4. Tail(q) = <<>> <=> Len(q) = 1
  <2> DEFINE r == Tail(q)
             n == Len(q)
             m == Len(r)
  <2>1. n \in Nat /\ m = n - 1 /\ (r = <<>> <=> m = 0) BY <1>1, <1>3
  <2> HIDE DEF r, n, m
  <2>2. r = <<>> <=> n = 1 BY <2>1
  <2>3. QED BY <2>2 DEF r, n
<1>5. QED BY <1>1, <1>4

(* A frame is accepted behind those that wait.                              *)
LEMMA AcceptKeeps ==
  ASSUME ForwarderTypeOK, ForwarderTypeOK', Agree, NEW g \in Calls, Accept(g)
  PROVE  Agree'
<1> DEFINE s == sessions[g]
           t == sessions'[g]
           q == s.pending
<1>1. /\ g = current /\ s.heard /\ s.accepting /\ Continuous(s)
      /\ frame \in 1..MaxFrames /\ frame' = frame + 1 /\ segment' = segment
      /\ s \in Session /\ t \in Session
  BY DEF Accept, Listens, ForwarderTypeOK
<1>2. /\ s.phase = "open" /\ s.started /\ segment.of = g /\ Live(s)
      /\ Stretch(g, s) /\ ~s.broken
  BY <1>1 DEF Agree, SessionsAgree, Stretches, Stretch, Live
<1>3. /\ OnlyMoves(g)
      /\ t.pending = Append(q, frame) /\ t.latest = frame /\ t.fresh = FALSE
      /\ t.phase = s.phase /\ t.started = s.started /\ t.accepting = s.accepting
      /\ t.heard = s.heard /\ t.carried = s.carried /\ t.broken = s.broken
      /\ t.rejoined = s.rejoined
  <2> DEFINE full == Len(sessions[g].pending) = MaxPending - 1
  <2>1. t = [s EXCEPT !.pending = Append(q, frame), !.latest = frame, !.fresh = FALSE,
                      !.paused = full]
    BY DEF Accept, ForwarderTypeOK
  <2> HIDE DEF full
  <2>2. OnlyMoves(g) BY <1>1 DEF Accept, OnlyMoves, ForwarderTypeOK
  <2>3. QED BY <1>1, <2>1, <2>2 DEF Session
<1>4. /\ q \in Seq(1..MaxFrames) /\ Len(q) \in Nat
      /\ Len(t.pending) = Len(q) + 1 /\ t.pending[Len(q) + 1] = frame
      /\ \A i \in 1..Len(q) : t.pending[i] = q[i]
      /\ t.pending # <<>>
  <2>1. q \in Seq(1..MaxFrames) /\ frame \in 1..MaxFrames BY <1>1 DEF Session
  <2> HIDE DEF s, q
  <2>2. /\ Len(q) \in Nat /\ Len(Append(q, frame)) = Len(q) + 1
        /\ Append(q, frame)[Len(q) + 1] = frame /\ Append(q, frame) # <<>>
        /\ \A i \in 1..Len(q) : Append(q, frame)[i] = q[i]
    BY <2>1, AppendFacts
  <2>3. QED BY <1>3, <2>1, <2>2
<1>5. s.latest < frame /\ s.latest \in Nat /\ (s.fresh /\ ~s.rejoined => s.latest = 0)
  BY <1>1, <1>2 DEF Stretch, Session
<1>6. Follows(s.latest, frame, s)
  BY <1>1, <1>5 DEF Continuous, Follows
<1>7. \A a, b : Follows(a, b, t) <=> Follows(a, b, s)
  BY <1>3 DEF Follows
<1>8. Base(g)' = Base(g) /\ Reached(g)' = Reached(g)
  BY <1>1, <1>3 DEF Base, Reached
<1>9. s.latest = IF q = <<>> THEN Reached(g) ELSE q[Len(q)]
  BY <1>2 DEF Stretch
<1>10. Follows(Reached(g), t.pending[1], s)
  <2>1. CASE q = <<>> BY <1>4, <1>6, <1>9, <2>1
  <2>2. CASE q # <<>>
    <3>1. t.pending[1] = q[1] BY <1>4, <2>2
    <3>2. QED BY <1>2, <2>2, <3>1 DEF Stretch
  <2>3. QED BY <2>1, <2>2
<1>11. ASSUME NEW i \in 1..(Len(t.pending) - 1)
       PROVE  Follows(t.pending[i], t.pending[i + 1], s)
  <2>1. CASE i = Len(q)
    <3> HIDE DEF s, t, q
    <3>1. Len(q) \in 1..Len(q) BY <1>4, <2>1
    <3>2. q # <<>> BY <3>1
    <3>3. t.pending[i] = q[Len(q)] /\ t.pending[i + 1] = frame
      BY <1>4, <2>1, <3>1
    <3>4. QED BY <1>6, <1>9, <3>2, <3>3
  <2>2. CASE i # Len(q)
    <3>1. /\ i \in 1..(Len(q) - 1) /\ t.pending[i] = q[i]
          /\ t.pending[i + 1] = q[i + 1]
      BY <1>4, <2>2
    <3>2. QED BY <1>2, <3>1 DEF Stretch
  <2>3. QED BY <2>1, <2>2
<1>12. Stretch(g, sessions[g])'
  <2>1. t.latest = t.pending[Len(t.pending)] /\ t.latest < frame'
    BY <1>1, <1>3, <1>4
  <2>2. t.carried # 0 => Follows(Base(g), t.carried, s)
    BY <1>2, <1>3 DEF Stretch
  <2>3. ~t.broken /\ ~t.fresh BY <1>2, <1>3
  <2>4. QED BY <1>4, <1>7, <1>8, <1>10, <1>11, <2>1, <2>2, <2>3 DEF Stretch
<1>13. QED
  BY <1>1, <1>2, <1>3, <1>12, MovingStep DEF Live, Agree, SessionsAgree, Carries

(* The first of them is taken in hand.                                      *)
LEMMA TakesKeeps ==
  ASSUME ForwarderTypeOK, ForwarderTypeOK', Agree, NEW g \in Calls, Takes(g)
  PROVE  Agree'
<1> DEFINE s == sessions[g]
           t == sessions'[g]
           q == s.pending
<1>1. /\ g = current /\ s.carried = 0 /\ q # <<>> /\ segment' = segment
      /\ s \in Session /\ q \in Seq(1..MaxFrames) /\ frame' = frame /\ frame \in Int
  BY DEF Takes, ForwarderTypeOK, Session, loopVars
<1>2. /\ OnlyMoves(g)
      /\ t = [s EXCEPT !.carried = Head(q), !.pending = Tail(q)]
  BY <1>1 DEF Takes, OnlyMoves, loopVars, ForwarderTypeOK
<1>3. /\ t.pending = Tail(q) /\ t.latest = s.latest /\ t.fresh = s.fresh
      /\ t.phase = s.phase /\ t.started = s.started /\ t.accepting = s.accepting
      /\ t.heard = s.heard /\ t.carried = Head(q) /\ t.broken = s.broken
      /\ t.rejoined = s.rejoined
  BY <1>1, <1>2 DEF Session
<1>4. /\ Head(q) = q[1] /\ q[1] \in 1..MaxFrames /\ Len(q) >= 1 /\ Len(q) \in Nat
      /\ Tail(q) \in Seq(1..MaxFrames) /\ Len(Tail(q)) = Len(q) - 1
      /\ \A i \in 1..(Len(q) - 1) : Tail(q)[i] = q[i + 1]
      /\ Tail(q) = <<>> <=> Len(q) = 1
  <2>1. q \in Seq(1..MaxFrames) /\ q # <<>> BY <1>1
  <2> HIDE DEF q
  <2>2. QED BY <2>1, TailFacts
<1>5. Carries(s) /\ Stretch(g, s) BY <1>1 DEF Carries, Agree, Stretches
<1>6. s.started /\ s.phase \in {"open", "draining"} /\ ~s.broken
  BY <1>5 DEF Agree, SessionsAgree, Stretch
<1>7. \A a, b : Follows(a, b, t) <=> Follows(a, b, s)
  BY <1>3 DEF Follows
<1>8. Base(g)' = Base(g) /\ Reached(g) = Base(g) /\ Reached(g)' = q[1]
  BY <1>1, <1>3, <1>4 DEF Base, Reached
<1>9. Follows(Base(g), t.carried, s)
  BY <1>1, <1>3, <1>4, <1>5, <1>8 DEF Stretch
<1>10. t.pending # <<>> => Follows(q[1], t.pending[1], s)
  <2>1. SUFFICES ASSUME Tail(q) # <<>> PROVE Follows(q[1], Tail(q)[1], s)
    BY <1>3
  <2>2. Len(q) > 1 BY <1>4, <2>1
  <2>3. 1 \in 1..(Len(q) - 1) /\ Tail(q)[1] = q[1 + 1] BY <1>4, <2>2
  <2>4. QED BY <1>5, <2>3 DEF Stretch
<1>11. ASSUME NEW i \in 1..(Len(t.pending) - 1)
       PROVE  Follows(t.pending[i], t.pending[i + 1], s)
  <2>1. /\ i + 1 \in 1..(Len(q) - 1) /\ t.pending[i] = q[i + 1]
        /\ t.pending[i + 1] = q[(i + 1) + 1]
    BY <1>3, <1>4
  <2>2. QED BY <1>5, <2>1 DEF Stretch
<1>12. s.latest = IF t.pending = <<>> THEN q[1] ELSE t.pending[Len(t.pending)]
  <2>1. s.latest = q[Len(q)] BY <1>1, <1>5, <1>6 DEF Stretch, Live
  <2>2. CASE Tail(q) = <<>>
    <3>1. Len(q) = 1 BY <1>4, <2>2
    <3>2. QED BY <1>3, <2>1, <2>2, <3>1
  <2>3. CASE Tail(q) # <<>>
    <3>1. Len(q) - 1 \in 1..(Len(q) - 1) BY <1>4, <2>3
    <3>2. Tail(q)[Len(q) - 1] = q[Len(q)] BY <1>4, <3>1
    <3>3. QED BY <1>3, <1>4, <2>1, <2>3, <3>2
  <2>4. QED BY <2>2, <2>3
<1>13. Stretch(g, sessions[g])'
  <2>1. t.latest < frame' /\ (t.fresh /\ ~t.rejoined => t.latest = 0)
    BY <1>1, <1>3, <1>5 DEF Stretch
  <2>2. QED BY <1>3, <1>6, <1>7, <1>8, <1>9, <1>10, <1>11, <1>12, <2>1 DEF Stretch
<1>14. s.accepting => s.phase = "open"
  BY DEF Agree, SessionsAgree
<1>15. QED
  BY <1>1, <1>2, <1>3, <1>6, <1>13, <1>14, MovingStep DEF Live

(* The frame in hand goes to the log.                                       *)
LEMMA AppendsKeeps ==
  ASSUME ForwarderTypeOK, ForwarderTypeOK', Agree, NEW g \in Calls, Appends(g)
  PROVE  Agree'
<1> DEFINE s == sessions[g]
           t == sessions'[g]
           q == s.pending
<1>1. s.carried # 0 /\ s \in Session /\ t \in Session /\ Stretch(g, s) /\ Carries(s)
  BY DEF Appends, Agree, Stretches, ForwarderTypeOK, Carries
<1>2. /\ s.started /\ s.phase \in {"open", "draining"} /\ segment.of = g /\ g = current
      /\ ~s.broken
  BY <1>1 DEF Agree, SessionsAgree, Live, Stretch
<1>3. /\ segment'.of = g /\ segment'.last = s.carried /\ g # 0
      /\ frame' = frame /\ frame \in Int
  BY <1>2 DEF Appends, ForwarderTypeOK
<1>4. OnlyMoves(g)
  <2>1. \A h \in Calls \ {g} : sessions'[h] = sessions[h]
    BY DEF Appends, ForwarderTypeOK
  <2>2. UNCHANGED <<generation, call, current>>
    BY DEF Appends, loopVars
  <2>3. QED BY <1>3, <2>1, <2>2 DEF OnlyMoves
<1>5. Base(g)' = s.carried /\ Reached(g) = s.carried
  BY <1>1, <1>3 DEF Base, Reached
<1>6. CASE t = [s EXCEPT !.carried = 0, !.paused = t.paused]
  <2>1. /\ t.pending = s.pending /\ t.latest = s.latest /\ t.fresh = s.fresh
        /\ t.phase = s.phase /\ t.started = s.started /\ t.accepting = s.accepting
        /\ t.heard = s.heard /\ t.carried = 0 /\ t.broken = s.broken
        /\ t.rejoined = s.rejoined
    BY <1>1, <1>6 DEF Session
  <2>2. Reached(g)' = s.carried BY <1>5, <2>1 DEF Reached
  <2>3. \A a, b : Follows(a, b, t) <=> Follows(a, b, s)
    BY <2>1 DEF Follows
  <2>4. Stretch(g, sessions[g])'
    BY <1>1, <1>2, <1>3, <1>5, <2>1, <2>2, <2>3 DEF Stretch, Live
  <2>5. QED
    BY <1>2, <1>3, <1>4, <2>1, <2>4, MovingStep DEF Live, Agree, SessionsAgree
<1>7. CASE t = Ending([s EXCEPT !.carried = 0, !.pending = <<>>, !.broken = TRUE], TRUE)
  <2> DEFINE u == [s EXCEPT !.carried = 0, !.pending = <<>>, !.broken = TRUE]
  <2>1. /\ u.phase = s.phase /\ u.started = s.started /\ u.accepting = s.accepting
        /\ u.heard = s.heard /\ u.latest = s.latest /\ u.fresh = s.fresh
        /\ u.rejoined = s.rejoined /\ u.carried = 0 /\ u.pending = <<>> /\ u.broken
        /\ u \in Session
    <3>1. <<>> \in Seq(1..MaxFrames) /\ 0 \in 0..MaxFrames OBVIOUS
    <3>2. QED BY <1>1, <3>1 DEF Session
  <2>2. s.accepting => s.phase = "open" BY DEF Agree, SessionsAgree
  <2> HIDE DEF u
  <2>3. Ending(u, TRUE).phase = "draining" /\ ~Ending(u, TRUE).accepting
    BY <1>2, <2>1, <2>2 DEF Ending, Session
  <2>4. /\ Ending(u, TRUE).started = u.started /\ Ending(u, TRUE).heard = u.heard
        /\ Ending(u, TRUE).latest = u.latest /\ Ending(u, TRUE).fresh = u.fresh
        /\ Ending(u, TRUE).rejoined = u.rejoined /\ Ending(u, TRUE).carried = u.carried
        /\ Ending(u, TRUE).pending = u.pending /\ Ending(u, TRUE).broken = u.broken
    BY <2>1 DEF Ending, Session
  <2>5. t = Ending(u, TRUE) BY <1>7 DEF u
  <2>6. Stretch(g, sessions[g])'
    <3>1. /\ t.carried = 0 /\ t.pending = <<>> /\ t.broken /\ ~t.accepting
          /\ t.latest = s.latest /\ t.fresh = s.fresh /\ t.rejoined = s.rejoined
      BY <2>1, <2>3, <2>4, <2>5
    <3>2. t.latest < frame' /\ (t.fresh /\ ~t.rejoined => t.latest = 0)
      BY <1>1, <1>3, <3>1 DEF Stretch
    <3>3. 1..(Len(t.pending) - 1) = {} BY <3>1
    <3>4. QED BY <3>1, <3>2, <3>3 DEF Stretch, Carries
  <2>7. QED
    BY <1>2, <1>3, <1>4, <2>1, <2>3, <2>4, <2>5, <2>6, MovingStep
       DEF Live, Agree, SessionsAgree, Carries
<1>8. QED
  <2> DEFINE held == sessions[g].paused /\
                       ~(sessions[g].accepting /\ sessions[g].pending = <<>>)
  <2>1. t = [s EXCEPT !.carried = 0, !.paused = held]
          \/ t = Ending([s EXCEPT !.carried = 0, !.pending = <<>>, !.broken = TRUE], TRUE)
    BY DEF Appends, ForwarderTypeOK
  <2>2. held \in BOOLEAN OBVIOUS
  <2> HIDE DEF held
  <2>3. ASSUME t = [s EXCEPT !.carried = 0, !.paused = held]
        PROVE  t = [s EXCEPT !.carried = 0, !.paused = t.paused]
    <3>1. t.paused = held BY <1>1, <2>2, <2>3 DEF Session
    <3>2. QED BY <2>3, <3>1
  <2>4. QED BY <1>6, <1>7, <2>1, <2>3

-----------------------------------------------------------------------------
(* The invariant, and what follows                                          *)

LEMMA InitAgrees == ForwarderInit => SessionsInv
<1> SUFFICES ASSUME ForwarderInit PROVE SessionsInv
  OBVIOUS
<1>1. ForwarderTypeOK BY InitTypes
<1>2. \A g \in Calls : sessions[g] = NoSession /\ call[g] = NoCall
  BY DEF ForwarderInit
<1>3. CallsAgree BY <1>2 DEF ForwarderInit, CallsAgree, NoCall
<1>4. SessionsAgree
  BY <1>2 DEF ForwarderInit, SessionsAgree, NoSession, NoSegment, Live, Carries
<1>5. ASSUME NEW g \in Calls PROVE Stretch(g, sessions[g])
  <2>1. frame = 1 BY DEF ForwarderInit
  <2>2. QED BY <1>2, <2>1 DEF Stretch, NoSession, Live, Carries
<1>6. QED BY <1>1, <1>3, <1>4, <1>5 DEF SessionsInv, Stretches, LossIsMarked, ForwarderInit

LEMMA StepAgrees == SessionsInv /\ [ForwarderNext]_forwarderVars => SessionsInv'
<1> SUFFICES ASSUME ForwarderTypeOK, Agree, LossIsMarked, [ForwarderNext]_forwarderVars PROVE SessionsInv'
  BY DEF SessionsInv, Agree
<1>1. ForwarderTypeOK' BY StepTypes
<1>2. LossIsMarked' BY LossStaysMarked
<1>3. Agree'
  <2>1. CASE UserStarts BY <1>1, <2>1, StartingKeeps DEF UserStarts
  <2>2. CASE UserStops BY <1>1, <2>2, StopKeeps
  <2>3. CASE TimerFires
    <3>1. CASE Starting BY <1>1, <3>1, StartingKeeps
    <3>2. CASE UNCHANGED <<generation, acts, call, sessions, current, restarts, gapBefore,
                           lastError, frame, segment, lost>>
      <4>1. SessionsWind BY <3>2, UnchangedWinds DEF Agree
      <4>2. CallsEnd BY <3>2 DEF CallsEnd
      <4>3. frame' >= frame BY <3>2 DEF ForwarderTypeOK
      <4>4. QED BY <1>1, <3>2, <4>1, <4>2, <4>3, WindingStep
    <3>3. QED BY <2>3, <3>1, <3>2 DEF TimerFires
  <2>4. CASE FrameLost BY <1>1, <2>4, FrameLostKeeps
  <2>5. ASSUME NEW g \in Calls, CallStep(g) PROVE Agree'
    BY <1>1, <2>5, ReadyKeeps, StartedKeeps, CallEndKeeps DEF CallStep
  <2>6. ASSUME NEW g \in Calls, SessionStep(g) PROVE Agree'
    BY <1>1, <2>6, TakesKeeps, AppendsKeeps, StopsSealing, OverKeeps DEF SessionStep
  <2>7. ASSUME NEW g \in Calls, World(g) PROVE Agree'
    BY <1>1, <2>7, AcceptKeeps, WorldKeeps DEF World
  <2>8. CASE UNCHANGED forwarderVars
    <3>1. UNCHANGED <<generation, call, sessions, current, frame, segment>>
      BY <2>8 DEF forwarderVars
    <3>2. SessionsWind BY <3>1, UnchangedWinds DEF Agree
    <3>3. CallsEnd BY <3>1 DEF CallsEnd
    <3>4. frame' >= frame BY <3>1 DEF ForwarderTypeOK
    <3>5. QED BY <1>1, <3>1, <3>2, <3>3, <3>4, WindingStep
  <2>9. QED
    BY <2>1, <2>2, <2>3, <2>4, <2>5, <2>6, <2>7, <2>8 DEF ForwarderNext, Loop
<1>4. QED BY <1>1, <1>2, <1>3 DEF SessionsInv, Agree

(* There is one session at a time, and a segment is open only while the     *)
(* session that will seal it lives.                                         *)
THEOREM SegmentsKeepTheirSession == ForwarderSpec => []SegmentsHaveTheirSession
<1>1. SessionsInv => SegmentsHaveTheirSession
  BY DEF SessionsInv, SessionsAgree, SegmentsHaveTheirSession
<1>2. QED BY <1>1, InitAgrees, StepAgrees, PTL DEF ForwarderSpec

LEMMA SegmentMoves ==
  ASSUME ForwarderTypeOK, ForwarderNext, segment'.of # segment.of
  PROVE  \E g \in Calls : Started(g) \/ Drained(g) \/ Stopped(g)
<1>1. ~(UserStarts \/ UserStops \/ TimerFires \/ FrameLost)
  BY DEF UserStarts, UserStops, TimerFires, Starting, FrameLost
<1>2. ASSUME NEW g \in Calls, CallStep(g) PROVE Started(g)
  BY <1>2 DEF CallStep, Ready, Refused, Throws, SegmentBegun
<1>3. ASSUME NEW g \in Calls, SessionStep(g) PROVE Drained(g) \/ Stopped(g)
  <2>1. ~Appends(g) BY DEF Appends, ForwarderTypeOK
  <2>2. QED BY <1>3, <2>1 DEF SessionStep, Takes, Over
<1>4. ASSUME NEW g \in Calls PROVE ~World(g)
  BY DEF World, Accept, Reject, LinkDrops, LinkReturns, GraceOver, SourceFails, SourceEnds
<1>5. QED BY <1>1, <1>2, <1>3, <1>4 DEF ForwarderNext, Loop

LEMMA OpensMarked ==
  ASSUME ForwarderTypeOK, LossIsMarked, ForwarderNext, segment.of = 0, segment'.of # 0, lost
  PROVE  segment'.marked
<1>1. PICK g \in Calls : Started(g) \/ Drained(g) \/ Stopped(g)
  BY SegmentMoves
<1>2. segment' = [of |-> g, last |-> 0, marked |-> gapBefore]
  <2>1. \/ segment' = [of |-> g, last |-> 0, marked |-> gapBefore]
        \/ segment' = segment \/ segment' = NoSegment
    BY <1>1 DEF Started, Drained, Stopped
  <2>2. NoSegment.of = 0 BY DEF NoSegment
  <2>3. QED BY <2>1, <2>2
<1>3. gapBefore BY DEF LossIsMarked
<1>4. QED BY <1>2, <1>3

(* The open segment is only sealed when its session has nothing left to     *)
(* append, and is only opened with the mark that is due.                    *)
LEMMA SealsOnlyDrained ==
  ASSUME ForwarderTypeOK, Agree, ForwarderNext, segment.of # 0, segment'.of # segment.of
  PROVE  LET s == sessions[segment.of]
         IN  ~Carries(s) /\ (segment.last = s.latest \/ s.broken)
<1> DEFINE s == sessions[segment.of]
<1>1. segment.of \in Calls /\ segment.of = current /\ s.started /\ Live(s)
  BY DEF ForwarderTypeOK, Agree, SessionsAgree
<1>2. \E g \in Calls : Started(g) \/ Drained(g) \/ Stopped(g)
  BY SegmentMoves
<1>3. ASSUME NEW g \in Calls, Started(g) PROVE FALSE
  <2>1. g = current BY <1>3 DEF Started
  <2>2. call[g].at = "transcribing" BY <1>3 DEF Started
  <2>3. QED BY <1>1, <2>1, <2>2 DEF Agree, CallsAgree
<1>4. ASSUME NEW g \in Calls, Drained(g) \/ Stopped(g)
      PROVE  ~Carries(s) /\ (segment.last = s.latest \/ s.broken)
  <2>1. g = current
    BY <1>4 DEF Drained, Stopped, Agree, SessionsAgree
  <2>2. ~Carries(s)
    BY <1>1, <1>4, <2>1 DEF Drained, Stopped, Agree, SessionsAgree, Carries
  <2>3. Stretch(g, sessions[g]) BY DEF Agree, Stretches
  <2>4. QED BY <1>1, <2>1, <2>2, <2>3 DEF Stretch, Carries, Reached, Base
<1>5. QED BY <1>2, <1>3, <1>4

(* What a segment holds is one stretch of the session that fills it, whole  *)
(* when it is sealed, and marked when it follows a gap.                     *)
THEOREM SegmentsStayWhole == ForwarderSpec => SegmentsAreWhole
<1> DEFINE Whole ==
      /\ \A g \in Calls : sessions[g].carried # 0 /\ sessions'[g].carried = 0 =>
           /\ segment.of = g /\ segment'.of = g
           /\ segment.last < sessions[g].carried
           /\ segment.last \in {0, sessions[g].carried - 1} \/ sessions[g].rejoined
      /\ segment.of # 0 /\ segment'.of # segment.of =>
           segment.last = sessions[segment.of].latest \/ sessions[segment.of].broken
      /\ segment.of = 0 /\ segment'.of # 0 /\ lost => segment'.marked
<1>1. SessionsInv /\ [ForwarderNext]_forwarderVars => [Whole]_forwarderVars
  <2> SUFFICES ASSUME SessionsInv, ForwarderNext PROVE Whole
    BY DEF SessionsInv
  <2>0. ForwarderTypeOK /\ Agree /\ LossIsMarked BY DEF SessionsInv, Agree
  <2>1. ASSUME NEW g \in Calls, sessions[g].carried # 0, sessions'[g].carried = 0
        PROVE  /\ segment.of = g /\ segment'.of = g
               /\ segment.last < sessions[g].carried
               /\ segment.last \in {0, sessions[g].carried - 1} \/ sessions[g].rejoined
    <3>1. /\ sessions[g].started /\ sessions[g].phase \in {"open", "draining"}
          /\ segment.of = g /\ g = current /\ g # 0
      BY <2>0, <2>1 DEF Agree, SessionsAgree, Live, Carries
    <3>2. Follows(segment.last, sessions[g].carried, sessions[g])
      BY <2>0, <2>1, <3>1 DEF Agree, Stretches, Stretch, Base
    <3>3. segment'.of = segment.of
      <4>1. Carries(sessions[g]) BY <2>1 DEF Carries
      <4>2. QED BY <2>0, <3>1, <4>1, SealsOnlyDrained
    <3>4. sessions[g].carried \in Int /\ segment.last \in Int
      BY <2>0 DEF ForwarderTypeOK, Session
    <3>5. QED BY <3>1, <3>2, <3>3, <3>4 DEF Follows
  <2>2. ASSUME segment.of # 0, segment'.of # segment.of
        PROVE  segment.last = sessions[segment.of].latest \/ sessions[segment.of].broken
    BY <2>0, <2>2, SealsOnlyDrained
  <2>3. ASSUME segment.of = 0, segment'.of # 0, lost PROVE segment'.marked
    BY <2>0, <2>3, OpensMarked DEF LossIsMarked
  <2>4. QED BY <2>1, <2>2, <2>3
<1>2. QED BY <1>1, InitAgrees, StepAgrees, PTL DEF ForwarderSpec, SegmentsAreWhole

-----------------------------------------------------------------------------
(* The uploader and the endpoint, with the log under them                   *)

(* Whatever is uploaded meanwhile, the log behaves as the log.              *)
LEMMA DrainStepsLog ==
  ASSUME [DrainNext]_allVars
  PROVE  [Next]_vars
<1>1. CASE LogCommand
  BY <1>1 DEF LogCommand, Next
<1>2. CASE Death
  BY <1>2 DEF Death, Next
<1>3. CASE RemoveHead
  BY <1>3 DEF RemoveHead, Present, Next
<1>4. CASE StartDrain \/ (PassStep /\ ~RemoveHead)
  BY <1>4 DEF StartDrain, PassStep, ReadHead, Unpackageable, Unreached, Conflict, Replay,
              Reserve, InProgress, Answered, TimesOut, EndPass
<1>5. CASE Endpoint
  BY <1>5 DEF Endpoint, Completes, Fails
<1>6. CASE UNCHANGED allVars
  BY <1>6 DEF allVars
<1> QED
  BY <1>1, <1>2, <1>3, <1>4, <1>5, <1>6 DEF DrainNext

LEMMA DrainKeepsTheLog == DrainSpec => Spec
<1>1. DrainInit => Init
  BY DEF DrainInit
<1>2. [DrainNext]_allVars => [Next]_vars
  BY DrainStepsLog
<1> QED
  BY <1>1, <1>2, PTL DEF DrainSpec, Spec

(* The listing has the readable sealed files, each once, oldest first.      *)
LEMMA ListingSorts ==
  ASSUME EvictionInv
  PROVE  /\ Listing \in Seq(Listed(sealed))
         /\ \A i, j \in DOMAIN Listing : i < j => Listing[i].seq < Listing[j].seq
         /\ \A f \in Listed(sealed) : \E i \in DOMAIN Listing : Listing[i] = f
<1> DEFINE S == Listed(sealed)
           n == Cardinality(S)
           Upto(f) == {g \in S : g.seq <= f.seq}
           rank == [f \in S |-> Cardinality(Upto(f))]
           Sorted(q) == \A i, j \in DOMAIN q : i < j => q[i].seq < q[j].seq
<1>1. /\ IsFiniteSet(S) /\ n \in Nat
      /\ \A f \in S : f.seq \in Nat
      /\ \A f, g \in S : f.seq = g.seq => f = g
  <2>1. S \subseteq Files /\ IsFiniteSet(Files)
    BY DEF Listed, Files, EvictionInv
  <2>2. IsFiniteSet(S)
    BY <2>1, FS_Subset
  <2> QED
    BY <2>1, <2>2, FS_CardinalityType
       DEF EvictionInv, IInv, SequenceOrder, TypeOK, Segment, Listed
<1>2. \A f \in S : Upto(f) \in SUBSET S /\ IsFiniteSet(Upto(f)) /\ rank[f] \in 1..n
  <2> SUFFICES ASSUME NEW f \in S
               PROVE  Upto(f) \in SUBSET S /\ IsFiniteSet(Upto(f)) /\ rank[f] \in 1..n
    OBVIOUS
  <2>1. Upto(f) \in SUBSET S /\ f \in Upto(f)
    BY <1>1
  <2>2. IsFiniteSet(Upto(f)) /\ Cardinality(Upto(f)) <= n
    BY <1>1, <2>1, FS_Subset
  <2>3. Cardinality(Upto(f)) \in Nat /\ Cardinality(Upto(f)) # 0
    BY <2>1, <2>2, FS_CardinalityType, FS_EmptySet
  <2> QED
    BY <1>1, <2>1, <2>2, <2>3
<1>3. ASSUME NEW f \in S, NEW g \in S, f.seq <= g.seq
      PROVE  rank[f] <= rank[g] /\ (rank[f] = rank[g] => f = g)
  <2>1. Upto(f) \in SUBSET Upto(g)
    BY <1>1, <1>3
  <2>2. /\ Cardinality(Upto(f)) <= Cardinality(Upto(g))
        /\ Cardinality(Upto(g)) = Cardinality(Upto(f)) => Upto(g) = Upto(f)
    BY <1>2, <2>1, FS_Subset
  <2>3. Upto(g) = Upto(f) => g.seq <= f.seq
    BY <1>1
  <2> QED
    BY <1>1, <1>3, <2>2, <2>3
<1>4. rank \in Surjection(S, 1..n)
  <2>1. rank \in [S -> 1..n]
    BY <1>2
  <2>2. ASSUME NEW f \in S, NEW g \in S, rank[f] = rank[g] PROVE f = g
    <3> HIDE DEF rank, S
    <3>1. f.seq <= g.seq \/ g.seq <= f.seq
      BY <1>1
    <3> QED
      BY <1>3, <2>2, <3>1
  <2>3. rank \in Injection(S, 1..n)
    <3> HIDE DEF rank
    <3> QED
      BY <2>1, <2>2 DEF Injection, IsInjective
  <2>4. IsFiniteSet(1..n) /\ Cardinality(1..n) = n
    BY <1>1, FS_Interval
  <2> QED
    BY <2>3, <2>4, FS_Injection
<1> DEFINE q == [i \in 1..n |-> CHOOSE f \in S : rank[f] = i]
<1>5. \A i \in 1..n : q[i] \in S /\ rank[q[i]] = i
  <2>1. \A i \in 1..n : \E f \in S : rank[f] = i
    <3> HIDE DEF rank
    <3> QED
      BY <1>4 DEF Surjection
  <2> HIDE DEF rank
  <2> QED
    BY <2>1
<1>6. q \in [1..n -> S] /\ Sorted(q)
  <2>1. q \in [1..n -> S]
    BY <1>5
  <2>2. ASSUME NEW i \in 1..n, NEW j \in 1..n, i < j
        PROVE  q[i].seq < q[j].seq
    <3>1. q[i] \in S /\ q[j] \in S /\ rank[q[i]] = i /\ rank[q[j]] = j
      BY <1>5
    <3> HIDE DEF rank, q
    <3>2. ~(q[j].seq <= q[i].seq)
      BY <1>1, <1>3, <2>2, <3>1
    <3> QED
      BY <1>1, <3>1, <3>2
  <2> QED
    BY <2>1, <2>2
<1> HIDE DEF q
<1>7. Listing \in [1..n -> S] /\ Sorted(Listing)
  <2>1. Listing = CHOOSE p \in [1..n -> S] : Sorted(p)
    BY DEF Listing
  <2> HIDE DEF n, S, Sorted
  <2> QED
    BY <1>6, <2>1
<1>8. ASSUME NEW f \in S PROVE \E i \in DOMAIN Listing : Listing[i] = f
  <2>1. \A i, j \in 1..n : Listing[i] = Listing[j] => i = j
    <3> SUFFICES ASSUME NEW i \in 1..n, NEW j \in 1..n, i < j PROVE Listing[i] # Listing[j]
      BY <1>1
    <3>1. Listing[i] \in S /\ Listing[j] \in S /\ Listing[i].seq < Listing[j].seq
      BY <1>7
    <3> QED
      BY <1>1, <3>1
  <2>2. Listing \in Injection(1..n, S)
    BY <1>7, <2>1 DEF Injection, IsInjective
  <2>3. IsFiniteSet(1..n) /\ Cardinality(1..n) = n
    BY <1>1, FS_Interval
  <2>4. Listing \in Surjection(1..n, S)
    BY <1>1, <2>2, <2>3, FS_Injection
  <2> QED
    BY <1>7, <2>4 DEF Surjection
<1>9. Listing \in Seq(S)
  BY <1>1, <1>7
<1> QED
  BY <1>7, <1>8, <1>9

-----------------------------------------------------------------------------
(* The names of live segments: minted in the order the segments began, each *)
(* once, and those of the files that can still be read in that order.       *)
IsLive(id) == id[1] = "live"

Lives == {f \in Listed(Files) : IsLive(f.id)}

NamesInv ==
  /\ minted \in 0..MaxMinted
  /\ \A f \in Listed(Files) : f.id \in Ids
  /\ \A f \in Lives : f.id[2] < minted
  /\ \A f, g \in Lives : f.id[2] <= g.id[2] => f.seq <= g.seq

LEMMA IdsAre ==
  /\ \A n \in Nat : LiveId(n) = <<"live", n>> /\ IsLive(LiveId(n)) /\ LiveId(n)[2] = n
  /\ \A n \in 0..MaxMinted : LiveId(n) \in Ids
  /\ \A s \in Sources : RingId(s) \in Ids /\ ~IsLive(RingId(s)) /\ RingId(s)[2] = s
  /\ \A id \in Ids : IF IsLive(id) THEN id[2] \in 0..MaxMinted /\ id = LiveId(id[2])
                                   ELSE id[2] \in Sources /\ id = RingId(id[2])
BY DEF Ids, LiveId, RingId, IsLive

(* A live segment of the next state was there, or grew, or is the next one. *)
LEMMA LivesStep ==
  ASSUME IInv, [Next]_vars, NEW g \in Lives'
  PROVE  \/ \E f \in Lives : f.id = g.id /\ f.seq = g.seq /\ (f = g \/ f \in open)
         \/ /\ ready /\ g.seq = nextSeq
            /\ g.id = LiveId(minted) /\ minted' = minted + 1 /\ minted < MaxMinted
<1>0. g \in Files' /\ g.header /\ IsLive(g.id)
  BY DEF Lives, Listed
<1>1. CASE Next
  <2>1. \/ g \in Files
        \/ \E o \in open : g.seq = o.seq /\ g.id = o.id /\ g.header = o.header
        \/ ready /\ g.seq = nextSeq /\ NewName(g.id)
    BY <1>0, <1>1, FileOrigins DEF FileOrigin
  <2>2. CASE g \in Files
    BY <1>0, <2>2 DEF Lives, Listed
  <2>3. ASSUME NEW o \in open, g.seq = o.seq, g.id = o.id, g.header = o.header
        PROVE  \E f \in Lives : f.id = g.id /\ f.seq = g.seq /\ (f = g \/ f \in open)
    <3>1. o \in Lives
      BY <1>0, <2>3 DEF Lives, Listed, Files
    <3> QED
      BY <2>3, <3>1
  <2>4. CASE ready /\ g.seq = nextSeq /\ NewName(g.id)
    BY <1>0, <2>4, IdsAre DEF NewName
  <2> QED
    BY <2>1, <2>2, <2>3, <2>4
<1>2. CASE UNCHANGED vars
  BY <1>0, <1>2 DEF vars, Lives, Listed, Files
<1> QED
  BY <1>1, <1>2

(* Numbers are minted one at a time.                                        *)
LEMMA MintedStep ==
  ASSUME [Next]_vars, minted \in 0..MaxMinted
  PROVE  minted' \in 0..MaxMinted /\ (minted' = minted \/ minted' = minted + 1)
<1>1. CASE BeginSegment
  BY <1>1, BoundsAssumption DEF BeginSegment
<1>2. CASE ~BeginSegment
  BY <1>2
     DEF Next, LiveCommands, Failures, Deaths, vars, Open, Close, AppendUnheld, AppendLive, Seal,
         ImportRange, RemoveSegment, OpenFails, BeginFails, AppendFails, SealFails, ImportFails,
         Crash, CrashInBegin, CrashInImport, CrashWriting, Tick
<1> QED
  BY <1>1, <1>2

(* The readable files keep to the names there are.                          *)
LEMMA ListedStep ==
  ASSUME IInv, NamesInv, [Next]_vars, NEW g \in Listed(Files)'
  PROVE  g.id \in Ids
<1>0. g \in Files' /\ g.header
  BY DEF Listed
<1>1. CASE Next
  <2>1. \/ g \in Files
        \/ \E o \in open : g.seq = o.seq /\ g.id = o.id /\ g.header = o.header
        \/ NewName(g.id)
    BY <1>0, <1>1, FileOrigins DEF FileOrigin
  <2>2. NewName(g.id) => g.id \in Ids
    BY IdsAre DEF NewName, NamesInv
  <2> QED
    BY <1>0, <2>1, <2>2 DEF NamesInv, Listed, Files
<1>2. CASE UNCHANGED vars
  BY <1>0, <1>2 DEF vars, NamesInv, Listed, Files
<1> QED
  BY <1>1, <1>2

LEMMA LivesAre ==
  ASSUME IInv, NamesInv
  PROVE  /\ \A f \in Lives : /\ f \in Segment /\ f.seq \in Nat /\ f.header /\ f \in Files
                             /\ f.id[2] \in 0..MaxMinted /\ f.id = LiveId(f.id[2])
         /\ \A f, g \in Lives : f.id = g.id => f = g
         /\ \A f, g \in Lives : f.id[2] < g.id[2] => f.seq < g.seq
         /\ \A f \in Lives : ready => f.seq < nextSeq
<1>1. \A f \in Lives : /\ f \in Segment /\ f.seq \in Nat /\ f.header /\ f \in Files
                       /\ f.id[2] \in 0..MaxMinted /\ f.id = LiveId(f.id[2])
  <2> SUFFICES ASSUME NEW f \in Lives
               PROVE  /\ f \in Segment /\ f.seq \in Nat /\ f.header /\ f \in Files
                      /\ f.id[2] \in 0..MaxMinted /\ f.id = LiveId(f.id[2])
    OBVIOUS
  <2>1. f \in Listed(Files) /\ f \in Files /\ f.header /\ IsLive(f.id)
    BY DEF Lives, Listed
  <2>2. f \in Segment /\ f.seq \in Nat
    BY <2>1 DEF IInv, TypeOK, Segment, Files
  <2>3. f.id \in Ids
    BY <2>1 DEF NamesInv
  <2> QED
    BY <2>1, <2>2, <2>3, IdsAre
<1>2. \A f, g \in Files : f.seq = g.seq => f = g
  BY DEF IInv, SequenceOrder
<1>3. \A f, g \in Lives : f.id[2] <= g.id[2] => f.seq <= g.seq
  BY DEF NamesInv
<1>4. ASSUME NEW f \in Lives, NEW g \in Lives, f.id = g.id PROVE f = g
  BY <1>1, <1>2, <1>3, <1>4
<1>5. ASSUME NEW f \in Lives, NEW g \in Lives, f.id[2] < g.id[2] PROVE f.seq < g.seq
  <2>1. f # g /\ f.seq <= g.seq
    BY <1>1, <1>3, <1>5
  <2> QED
    BY <1>1, <1>2, <2>1
<1>6. \A f \in Lives : ready => f.seq < nextSeq
  BY <1>1 DEF IInv, SequenceOrder
<1> QED
  BY <1>1, <1>4, <1>5, <1>6

LEMMA NamesStep ==
  ASSUME IInv, NamesInv, [Next]_vars
  PROVE  NamesInv'
<1>1. minted' \in 0..MaxMinted /\ minted \in Nat /\ (minted' = minted \/ minted' = minted + 1)
  BY MintedStep DEF NamesInv
<1>2. \A g \in Listed(Files)' : g.id \in Ids
  BY ListedStep
<1>3. ASSUME NEW g \in Lives' PROVE g.id[2] < minted'
  BY <1>1, <1>3, LivesStep, LivesAre, IdsAre DEF NamesInv
<1>4. ASSUME NEW f \in Lives', NEW g \in Lives', f.id[2] <= g.id[2] PROVE f.seq <= g.seq
  <2>1. CASE \E e \in Lives : e.id = f.id /\ e.seq = f.seq
    <3>1. PICK e \in Lives : e.id = f.id /\ e.seq = f.seq
      BY <2>1
    <3>2. CASE \E h \in Lives : h.id = g.id /\ h.seq = g.seq
      BY <1>4, <3>1, <3>2 DEF NamesInv
    <3>3. CASE ready /\ g.seq = nextSeq
      <4>1. f.seq < nextSeq /\ f.seq \in Nat /\ nextSeq \in Nat
        BY <3>1, <3>3, LivesAre DEF IInv, TypeOK
      <4> QED
        BY <3>3, <4>1
    <3> QED
      BY <1>4, <3>2, <3>3, LivesStep
  <2>2. CASE f.id = LiveId(minted) /\ f.seq = nextSeq /\ minted' = minted + 1
    <3>1. f.id[2] = minted
      BY <1>1, <2>2, IdsAre
    <3>2. CASE \E h \in Lives : h.id = g.id
      <4>1. g.id[2] < minted /\ g.id[2] \in Nat
        BY <3>2, LivesAre DEF NamesInv
      <4> QED
        BY <1>1, <1>4, <3>1, <4>1
    <3>3. CASE g.seq = nextSeq
      BY <2>2, <3>3 DEF IInv, TypeOK
    <3> QED
      BY <3>2, <3>3, LivesStep
  <2> QED
    BY <2>1, <2>2, LivesStep
<1> QED
  BY <1>1, <1>2, <1>3, <1>4 DEF NamesInv

(* No step reopens what is sealed.                                          *)
LEMMA SealedStays ==
  ASSUME IInv, Apart, [Next]_vars, NEW f \in sealed, f \in Files'
  PROVE  f \in sealed'
<1>1. CASE Next
  BY <1>1, FilesStep DEF OneMore, Files
<1>2. CASE UNCHANGED vars
  BY <1>2 DEF vars
<1> QED
  BY <1>1, <1>2

-----------------------------------------------------------------------------
(* What a pass has listed is what it finds, or nothing: a live segment      *)
(* behind a listed name is the listed one, still sealed.                    *)
QueueInv ==
  /\ queue \in Seq(Segment)
  /\ \A i \in DOMAIN queue : queue[i].header /\ queue[i].id \in Ids
  /\ \A i \in DOMAIN queue : IsLive(queue[i].id) => queue[i].id[2] < minted
  /\ \A i, j \in DOMAIN queue :
       i < j /\ IsLive(queue[i].id) /\ IsLive(queue[j].id) => queue[i].id[2] < queue[j].id[2]
  /\ \A i \in DOMAIN queue, f \in Lives : f.id = queue[i].id => f = queue[i] /\ f \in sealed

LogInv == EvictionInv /\ NamesInv

(* The queue is what it was, or what is left of it.                         *)
Shrinks ==
  \/ queue' = queue
  \/ queue # <<>> /\ queue' = Tail(queue)
  \/ queue' = <<>>

LEMMA ShrinksTo ==
  ASSUME queue \in Seq(Segment), Shrinks
  PROVE  /\ queue' \in Seq(Segment)
         /\ DOMAIN queue' \subseteq Nat
         /\ \E d \in {0, 1} : \A i \in DOMAIN queue' :
              i + d \in DOMAIN queue /\ queue'[i] = queue[i + d]
<1>1. CASE queue' = queue
  <2>1. \A i \in DOMAIN queue : i \in Nat /\ i + 0 = i
    OBVIOUS
  <2> QED
    BY <1>1, <2>1
<1>2. CASE queue # <<>> /\ queue' = Tail(queue)
  <2>1. /\ Tail(queue) \in Seq(Segment) /\ Len(Tail(queue)) = Len(queue) - 1
        /\ \A i \in 1..Len(Tail(queue)) : Tail(queue)[i] = queue[i + 1]
    BY <1>2, TailFacts
  <2>2. DOMAIN queue' = 1..(Len(queue) - 1) /\ DOMAIN queue = 1..Len(queue) /\ Len(queue) \in Nat
    BY <1>2, <2>1
  <2> QED
    BY <1>2, <2>1, <2>2
<1>3. CASE queue' = <<>>
  BY <1>3
<1> QED
  BY <1>1, <1>2, <1>3 DEF Shrinks

LEMMA QueueShrinks ==
  ASSUME LogInv, QueueInv, [Next]_vars, Shrinks
  PROVE  QueueInv'
<1>0. /\ queue' \in Seq(Segment)
      /\ \A i \in DOMAIN queue : i \in Nat
      /\ minted \in Nat /\ minted' \in Nat /\ minted <= minted'
  BY ShrinksTo, MintedStep DEF QueueInv, LogInv, NamesInv
<1>1. PICK d \in {0, 1} : \A i \in DOMAIN queue' :
         i \in Nat /\ i + d \in DOMAIN queue /\ queue'[i] = queue[i + d]
  BY ShrinksTo DEF QueueInv
<1>2. \A i \in DOMAIN queue' : queue'[i].header /\ queue'[i].id \in Ids
  BY <1>1 DEF QueueInv
<1>3. ASSUME NEW i \in DOMAIN queue', IsLive(queue'[i].id) PROVE queue'[i].id[2] < minted'
  <2>1. queue'[i].id[2] < minted /\ queue'[i].id[2] \in Nat
    BY <1>1, <1>2, <1>3, IdsAre DEF QueueInv
  <2> QED
    BY <1>0, <2>1
<1>4. ASSUME NEW i \in DOMAIN queue', NEW j \in DOMAIN queue', i < j,
             IsLive(queue'[i].id), IsLive(queue'[j].id)
      PROVE  queue'[i].id[2] < queue'[j].id[2]
  BY <1>1, <1>4 DEF QueueInv
<1>5. ASSUME NEW i \in DOMAIN queue', NEW f \in Lives', f.id = queue'[i].id
      PROVE  f = queue'[i] /\ f \in sealed'
  <2>1. PICK k \in DOMAIN queue : queue'[i] = queue[k]
    BY <1>1
  <2>2. IsLive(f.id) /\ f.id[2] < minted
    BY <1>5, <2>1 DEF QueueInv, Lives
  <2>3. f.id # LiveId(minted)
    BY <1>0, <2>2, IdsAre
  <2>4. PICK e \in Lives : e.id = f.id /\ (e = f \/ e \in open)
    BY <2>3, LivesStep DEF LogInv, EvictionInv
  <2>5. e = queue[k] /\ e \in sealed
    BY <1>5, <2>1, <2>4 DEF QueueInv
  <2>6. e = f
    BY <2>4, <2>5, FilesApart DEF LogInv, EvictionInv
  <2>7. f \in sealed'
    BY <2>5, <2>6, SealedStays DEF LogInv, EvictionInv, Lives, Listed
  <2> QED
    BY <2>1, <2>5, <2>6, <2>7
<1> QED
  BY <1>0, <1>2, <1>3, <1>4, <1>5 DEF QueueInv

(* A new listing.                                                           *)
LEMMA QueueListed ==
  ASSUME LogInv, UNCHANGED vars, queue' = Listing
  PROVE  QueueInv'
<1>0. /\ Listing \in Seq(Listed(sealed))
      /\ \A i, j \in DOMAIN Listing : i < j => Listing[i].seq < Listing[j].seq
  BY ListingSorts DEF LogInv
<1>1. \A i \in DOMAIN Listing : /\ Listing[i] \in sealed /\ Listing[i].header
                                /\ Listing[i] \in Listed(Files)
                                /\ Listing[i] \in Segment /\ Listing[i].id \in Ids
  <2>1. Listed(sealed) \subseteq sealed /\ Listed(sealed) \subseteq Listed(Files)
        /\ \A f \in Listed(sealed) : f.header /\ f.id \in Ids
        /\ sealed \subseteq Segment
    BY FilesApart DEF Listed, Files, LogInv, EvictionInv, NamesInv
  <2> QED
    BY <1>0, <2>1
<1>2. \A i \in DOMAIN Listing : IsLive(Listing[i].id) => Listing[i] \in Lives
  BY <1>1 DEF Lives
<1>3. Listing \in Seq(Segment)
  <2>1. Listed(sealed) \subseteq Segment
    BY FilesApart DEF Listed, LogInv, EvictionInv
  <2> QED
    BY <1>0, <2>1
<1>4. ASSUME NEW i \in DOMAIN Listing, NEW j \in DOMAIN Listing, i < j,
             IsLive(Listing[i].id), IsLive(Listing[j].id)
      PROVE  Listing[i].id[2] < Listing[j].id[2]
  <2> DEFINE f == Listing[i]
             g == Listing[j]
  <2>1. f \in Lives /\ g \in Lives /\ f.seq < g.seq
    BY <1>0, <1>2, <1>4
  <2>2. f.seq \in Nat /\ g.seq \in Nat /\ f.id[2] \in Nat /\ g.id[2] \in Nat
    BY <2>1, LivesAre DEF LogInv, EvictionInv
  <2>3. ~(g.id[2] <= f.id[2])
    BY <2>1, <2>2 DEF LogInv, NamesInv
  <2> QED
    BY <2>2, <2>3
<1>5. \A i \in DOMAIN Listing, f \in Lives : f.id = Listing[i].id => f = Listing[i]
  BY <1>2, LivesAre DEF LogInv, EvictionInv, Lives
<1>6. Lives' = Lives /\ sealed' = sealed /\ minted' = minted
  BY DEF vars, Lives, Listed, Files
<1>7. \A i \in DOMAIN Listing : IsLive(Listing[i].id) => Listing[i].id[2] < minted
  BY <1>2 DEF LogInv, NamesInv
<1> QED
  BY <1>1, <1>3, <1>4, <1>5, <1>6, <1>7 DEF QueueInv

-----------------------------------------------------------------------------
(* What was uploaded                                                        *)

DrainTypeOK ==
  /\ pass \in {"idle", "reading", "uploading", "waiting", "removing"}
  /\ payload \in Seq(Frame)
  /\ attempt \in 0..(MaxAttempts - 1)
  /\ verdict \in {"none", "done", "rejected"}
  /\ status \in [Ids -> {"none", "started", "complete", "failed"}]
  /\ stored \in [Ids -> Seq(Frame)]

Busy == pass \in {"uploading", "waiting", "removing"}

Taken(id) == status[id] # "none"

(* Of a live segment the endpoint has the audio, and the file is finished.  *)
TakenInv ==
  \A n \in 0..MaxMinted : Taken(LiveId(n)) =>
    /\ n < minted
    /\ \A f \in Lives : f.id = LiveId(n) =>
         f \in sealed /\ stored[LiveId(n)] = Packaged(f.audio)
    /\ \A i \in DOMAIN queue : queue[i].id = LiveId(n) =>
         stored[LiveId(n)] = Packaged(queue[i].audio)

UploadInv ==
  /\ DrainTypeOK /\ TakenInv
  /\ Busy => queue # <<>>
  /\ Busy /\ IsLive(Id) => payload = Packaged(Head(queue).audio)
  /\ pass = "removing" /\ verdict = "done" => status[Id] = "complete"

LEMMA PackagedType ==
  ASSUME NEW audio \in Seq(Frame)
  PROVE  Packaged(audio) \in Seq(Frame)
<1> DEFINE torn == {i \in DOMAIN audio : audio[i] = Torn}
<1>1. CASE torn = {}
  BY <1>1 DEF Packaged
<1>2. CASE torn # {}
  <2>1. torn \in SUBSET Nat /\ Len(audio) \in Nat
    OBVIOUS
  <2>2. PICK m \in torn : \A x \in torn : m <= x
    BY <1>2, <2>1, LeastNatural
  <2>3. Min(torn) \in torn
    BY <2>2 DEF Min
  <2>4. Min(torn) \in 1..Len(audio)
    BY <2>3
  <2>5. Packaged(audio) = SubSeq(audio, 1, Min(torn) - 1)
    BY <1>2 DEF Packaged
  <2> HIDE DEF torn
  <2>6. SubSeq(audio, 1, Min(torn) - 1) \in Seq(Frame)
    BY <2>1, <2>4
  <2> QED
    BY <2>5, <2>6
<1> QED
  BY <1>1, <1>2

LEMMA HeadFacts ==
  ASSUME QueueInv, queue # <<>>
  PROVE  /\ 1 \in DOMAIN queue /\ Head(queue) = queue[1] /\ Head(queue) \in Segment
         /\ Head(queue).header /\ Id \in Ids /\ Id = queue[1].id
BY TailFacts DEF QueueInv, Id

(* What the endpoint has stays what it was, whatever the log does.          *)
LEMMA TakenKept ==
  ASSUME LogInv, QueueInv, TakenInv, [Next]_vars, Shrinks,
         \A id \in Ids : /\ status'[id] = "none" <=> status[id] = "none"
                         /\ stored'[id] = stored[id]
  PROVE  TakenInv'
<1>0. minted \in Nat /\ minted' \in Nat /\ minted <= minted'
  BY MintedStep DEF LogInv, NamesInv
<1> SUFFICES ASSUME NEW n \in 0..MaxMinted, Taken(LiveId(n))'
             PROVE  /\ n < minted'
                    /\ \A f \in Lives' : f.id = LiveId(n) =>
                         f \in sealed' /\ stored'[LiveId(n)] = Packaged(f.audio)
                    /\ \A i \in DOMAIN queue' : queue'[i].id = LiveId(n) =>
                         stored'[LiveId(n)] = Packaged(queue'[i].audio)
  BY DEF TakenInv, LiveId, Packaged
<1>1. Taken(LiveId(n)) /\ stored'[LiveId(n)] = stored[LiveId(n)] /\ n < minted
  BY IdsAre DEF Taken, TakenInv
<1>2. ASSUME NEW f \in Lives', f.id = LiveId(n)
      PROVE  f \in sealed' /\ stored'[LiveId(n)] = Packaged(f.audio)
  <2>1. f.id # LiveId(minted)
    BY <1>0, <1>1, <1>2, IdsAre
  <2>2. PICK e \in Lives : e.id = f.id /\ (e = f \/ e \in open)
    BY <2>1, LivesStep DEF LogInv, EvictionInv
  <2>3. e \in sealed /\ stored[LiveId(n)] = Packaged(e.audio)
    BY <1>1, <1>2, <2>2 DEF TakenInv
  <2>4. e = f
    BY <2>2, <2>3, FilesApart DEF LogInv, EvictionInv
  <2> QED
    BY <1>1, <2>3, <2>4, SealedStays DEF LogInv, EvictionInv, Lives, Listed
<1>3. ASSUME NEW i \in DOMAIN queue', queue'[i].id = LiveId(n)
      PROVE  stored'[LiveId(n)] = Packaged(queue'[i].audio)
  <2>1. PICK k \in DOMAIN queue : queue'[i] = queue[k]
    BY ShrinksTo DEF QueueInv
  <2> QED
    BY <1>1, <1>3, <2>1 DEF TakenInv
<1> QED
  BY <1>0, <1>1, <1>2, <1>3

LEMMA TakenListed ==
  ASSUME LogInv, TakenInv, UNCHANGED <<vars, serverVars>>, queue' = Listing
  PROVE  TakenInv'
<1>1. \A i \in DOMAIN Listing : IsLive(Listing[i].id) => Listing[i] \in Lives
  <2>1. Listing \in Seq(Listed(sealed))
    BY ListingSorts DEF LogInv
  <2>2. Listed(sealed) \subseteq Listed(Files)
    BY DEF Listed, Files
  <2> QED
    BY <2>1, <2>2 DEF Lives
<1>2. Lives' = Lives /\ sealed' = sealed /\ minted' = minted /\ status' = status /\ stored' = stored
  BY DEF vars, serverVars, Lives, Listed, Files
<1> SUFFICES ASSUME NEW n \in 0..MaxMinted, Taken(LiveId(n)),
                    NEW i \in DOMAIN Listing, Listing[i].id = LiveId(n)
             PROVE  stored[LiveId(n)] = Packaged(Listing[i].audio)
  BY <1>2 DEF TakenInv, Taken
<1>3. IsLive(Listing[i].id)
  BY IdsAre
<1> QED
  BY <1>1, <1>3 DEF TakenInv

LEMMA TakenReserved ==
  ASSUME LogInv, QueueInv, UploadInv, Reserve
  PROVE  TakenInv'
<1>0. /\ pass = "uploading" /\ queue' = queue /\ UNCHANGED vars
      /\ status' = [status EXCEPT ![Id] = "started"] /\ stored' = [stored EXCEPT ![Id] = payload]
  BY DEF Reserve
<1>1. /\ queue # <<>> /\ Busy
      /\ status \in [Ids -> {"none", "started", "complete", "failed"}]
      /\ stored \in [Ids -> Seq(Frame)]
  BY <1>0 DEF UploadInv, Busy, DrainTypeOK
<1>2. 1 \in DOMAIN queue /\ Head(queue) = queue[1] /\ Id \in Ids /\ Id = queue[1].id
  BY <1>1, HeadFacts
<1>3. Lives' = Lives /\ sealed' = sealed /\ minted' = minted
  BY <1>0 DEF vars, Lives, Listed, Files
<1> SUFFICES ASSUME NEW n \in 0..MaxMinted, Taken(LiveId(n))'
             PROVE  /\ n < minted
                    /\ \A f \in Lives : f.id = LiveId(n) =>
                         f \in sealed /\ stored'[LiveId(n)] = Packaged(f.audio)
                    /\ \A i \in DOMAIN queue : queue[i].id = LiveId(n) =>
                         stored'[LiveId(n)] = Packaged(queue[i].audio)
  BY <1>0, <1>3 DEF TakenInv
<1>4. LiveId(n) \in Ids /\ IsLive(LiveId(n)) /\ LiveId(n)[2] = n
  BY IdsAre
<1>5. CASE LiveId(n) = Id
  <2>1. stored'[LiveId(n)] = Packaged(queue[1].audio) /\ n < minted
    BY <1>0, <1>1, <1>2, <1>4, <1>5 DEF UploadInv, QueueInv
  <2>2. \A f \in Lives : f.id = LiveId(n) => f = queue[1] /\ f \in sealed
    BY <1>2, <1>5 DEF QueueInv
  <2>3. ASSUME NEW i \in DOMAIN queue, queue[i].id = LiveId(n) PROVE i = 1
    <3>1. i \in Nat /\ i >= 1
      BY DEF QueueInv
    <3>2. CASE 1 < i
      <4>1. queue[1].id[2] < queue[i].id[2]
        BY <1>2, <1>4, <1>5, <2>3, <3>2 DEF QueueInv
      <4> QED
        BY <1>2, <1>4, <1>5, <2>3, <4>1
    <3> QED
      BY <3>1, <3>2
  <2> QED
    BY <2>1, <2>2, <2>3
<1>6. CASE LiveId(n) # Id
  <2>1. Taken(LiveId(n)) /\ stored'[LiveId(n)] = stored[LiveId(n)]
    BY <1>0, <1>1, <1>4, <1>6 DEF Taken
  <2> QED
    BY <2>1 DEF UploadInv, TakenInv
<1> QED
  BY <1>5, <1>6

(* The steps of a pass, by what they do to the queue and to what was read.  *)
LEMMA QueueStep ==
  ASSUME [DrainNext]_allVars
  PROVE  \/ StartDrain /\ ready /\ queue' = Listing
         \/ Shrinks
<1>1. CASE LogCommand \/ Endpoint \/ UNCHANGED allVars
  BY <1>1 DEF LogCommand, Endpoint, Completes, Fails, allVars, drainVars, passVars, Shrinks
<1>2. CASE Death
  BY <1>2 DEF Death, Shrinks
<1>3. CASE StartDrain
  BY <1>3 DEF StartDrain, Shrinks
<1>4. CASE ReadHead
  BY <1>4 DEF ReadHead, Shrinks
<1>5. CASE RemoveHead
  <2>1. queue' = Tail(queue)
    BY <1>5 DEF RemoveHead
  <2>2. Tail(<<>>) = <<>>
    OBVIOUS
  <2> QED
    BY <2>1, <2>2 DEF Shrinks
<1>6. CASE PassStep /\ ~ReadHead /\ ~RemoveHead
  BY <1>6 DEF PassStep, Unpackageable, Unreached, Conflict, Replay, Reserve, InProgress,
              Answered, TimesOut, EndPass, Retry, Answer, Shrinks
<1> QED
  BY <1>1, <1>2, <1>3, <1>4, <1>5, <1>6 DEF DrainNext

LEMMA BusyStep ==
  ASSUME [DrainNext]_allVars, Busy'
  PROVE  /\ queue' = queue
         /\ \/ Busy /\ payload' = payload
            \/ ReadHead /\ queue # <<>> /\ \E f \in Present : payload' = Packaged(f.audio)
<1>1. CASE LogCommand \/ Endpoint \/ UNCHANGED allVars
  BY <1>1 DEF LogCommand, Endpoint, Completes, Fails, allVars, drainVars, passVars, Busy
<1>2. CASE ReadHead
  <2>1. CASE pass' = "uploading"
    <3>1. pass = "reading" /\ queue # <<>>
      BY <1>2 DEF ReadHead
    <3>2. Present # {} /\ payload' = Packaged((CHOOSE f \in Present : TRUE).audio) /\ queue' = queue
      BY <1>2, <2>1, <3>1 DEF ReadHead
    <3> QED
      BY <1>2, <3>1, <3>2
  <2> QED
    BY <1>2, <2>1 DEF ReadHead, Busy
<1>3. CASE PassStep /\ ~ReadHead
  BY <1>3 DEF PassStep, Unpackageable, Unreached, Conflict, Replay, Reserve, InProgress,
              Answered, TimesOut, EndPass, RemoveHead, Retry, Answer, Busy
<1>4. CASE Death \/ StartDrain
  BY <1>4 DEF Death, StartDrain, Busy
<1> QED
  BY <1>1, <1>2, <1>3, <1>4 DEF DrainNext

(* The endpoint's record of the ids.                                        *)
LEMMA ServerStep ==
  ASSUME DrainTypeOK, QueueInv, Busy => queue # <<>>, [DrainNext]_allVars
  PROVE  /\ status' \in [Ids -> {"none", "started", "complete", "failed"}]
         /\ stored' \in [Ids -> Seq(Frame)]
         /\ \A id \in Ids : status[id] = "complete" => status'[id] = "complete"
         /\ Reserve \/ (\A id \in Ids : /\ status'[id] = "none" <=> status[id] = "none"
                                        /\ stored'[id] = stored[id])
<1>1. CASE Reserve
  <2>1. Id \in Ids
    BY <1>1, HeadFacts DEF Reserve, Busy
  <2> QED
    BY <1>1, <2>1 DEF Reserve, DrainTypeOK
<1>2. CASE Endpoint
  BY <1>2 DEF Endpoint, Completes, Fails, DrainTypeOK
<1>3. CASE UNCHANGED serverVars
  BY <1>3 DEF serverVars, DrainTypeOK
<1>4. CASE LogCommand \/ Death \/ StartDrain \/ (PassStep /\ ~Reserve) \/ UNCHANGED allVars
  <2>1. UNCHANGED serverVars
    BY <1>4 DEF LogCommand, Death, StartDrain, PassStep, ReadHead, Unpackageable, Unreached,
                Conflict, Replay, InProgress, Answered, TimesOut, RemoveHead, EndPass,
                allVars, drainVars
  <2> QED
    BY <1>3, <2>1
<1> QED
  BY <1>1, <1>2, <1>4 DEF DrainNext

LEMMA DrainTypesStep ==
  ASSUME LogInv, QueueInv, DrainTypeOK, Busy => queue # <<>>, [DrainNext]_allVars
  PROVE  DrainTypeOK'
<1>1. /\ status' \in [Ids -> {"none", "started", "complete", "failed"}]
      /\ stored' \in [Ids -> Seq(Frame)]
  BY ServerStep
<1>2. MaxAttempts \in Nat \ {0}
  BY DrainAssumption
<1>3. \A f \in Present : Packaged(f.audio) \in Seq(Frame)
  BY FilesApart, PackagedType DEF Present, Listed, LogInv, EvictionInv, Segment
<1>4. payload' \in Seq(Frame)
  <2>0. payload \in Seq(Frame) /\ <<>> \in Seq(Frame)
    BY DEF DrainTypeOK
  <2>1. CASE Busy'
    BY <1>3, <2>0, <2>1, BusyStep
  <2>2. CASE ~Busy' /\ PassStep
    <3>1. payload' = payload \/ payload' = <<>>
      BY <2>2 DEF PassStep, ReadHead, Unpackageable, Unreached, Conflict, Replay, Reserve,
                  InProgress, Answered, TimesOut, EndPass, RemoveHead, Retry, Answer, Busy
    <3> QED
      BY <2>0, <3>1
  <2>3. CASE ~PassStep
    <3>1. payload' = payload \/ payload' = <<>>
      BY <2>3 DEF DrainNext, LogCommand, Death, StartDrain, Endpoint, Completes, Fails,
                  allVars, drainVars, passVars
    <3> QED
      BY <2>0, <3>1
  <2> QED
    BY <2>1, <2>2, <2>3
<1>5. /\ pass' \in {"idle", "reading", "uploading", "waiting", "removing"}
      /\ attempt' \in 0..(MaxAttempts - 1)
      /\ verdict' \in {"none", "done", "rejected"}
  <2>1. CASE PassStep
    BY <1>2, <2>1
       DEF PassStep, ReadHead, Unpackageable, Unreached, Conflict, Replay, Reserve, InProgress,
           Answered, TimesOut, EndPass, RemoveHead, Retry, Answer, DrainTypeOK
  <2>2. CASE ~PassStep
    BY <1>2, <2>2 DEF DrainNext, LogCommand, Death, StartDrain, Endpoint, Completes, Fails,
                allVars, drainVars, passVars, DrainTypeOK
  <2> QED
    BY <2>1, <2>2
<1> QED
  BY <1>1, <1>4, <1>5 DEF DrainTypeOK

LEMMA UploadStep ==
  ASSUME LogInv, QueueInv, UploadInv, [DrainNext]_allVars
  PROVE  UploadInv' /\ QueueInv'
<1>0. [Next]_vars
  BY DrainStepsLog
<1>1. QueueInv'
  <2>1. CASE StartDrain /\ queue' = Listing
    BY <2>1, QueueListed DEF StartDrain
  <2>2. CASE Shrinks
    BY <1>0, <2>2, QueueShrinks
  <2> QED
    BY <2>1, <2>2, QueueStep
<1>2. DrainTypeOK' /\ (Busy => queue # <<>>)
  BY DrainTypesStep DEF UploadInv
<1>3. TakenInv'
  <2>1. CASE Reserve
    BY <2>1, TakenReserved
  <2>2. CASE StartDrain /\ queue' = Listing
    BY <2>2, TakenListed DEF StartDrain, UploadInv
  <2>3. CASE ~Reserve /\ Shrinks
    BY <1>0, <1>2, <2>3, ServerStep, TakenKept DEF UploadInv
  <2> QED
    BY <2>1, <2>2, <2>3, QueueStep
<1>4. Busy' => queue' # <<>>
  BY <1>2, BusyStep
<1>5. ASSUME Busy', IsLive(Id)' PROVE payload' = Packaged(Head(queue).audio) /\ queue' = queue
  <2>1. queue' = queue /\ Id' = Id /\ queue # <<>>
    BY <1>2, <1>5, BusyStep DEF Id
  <2>2. CASE Busy /\ payload' = payload
    BY <1>5, <2>1, <2>2 DEF UploadInv, IsLive
  <2>3. ASSUME NEW f \in Present, payload' = Packaged(f.audio)
        PROVE  payload' = Packaged(Head(queue).audio)
    <3>1. f \in Listed(Files) /\ f.id = Id
      BY DEF Present, Listed, Files, Id
    <3>2. f \in Lives
      BY <1>5, <2>1, <3>1 DEF Lives, IsLive
    <3> QED
      BY <2>1, <2>3, <3>1, <3>2, HeadFacts DEF QueueInv
  <2> QED
    BY <1>5, <2>1, <2>2, <2>3, BusyStep
<1>6. pass' = "removing" /\ verdict' = "done" => status'[Id'] = "complete"
  <2> SUFFICES ASSUME pass' = "removing", verdict' = "done" PROVE status'[Id'] = "complete"
    OBVIOUS
  <2>1. Busy' /\ queue' = queue /\ Id' = Id
    BY BusyStep DEF Busy, Id
  <2>2. queue # <<>> /\ Id \in Ids
    BY <1>4, <2>1, HeadFacts
  <2>3. status[Id] = "complete"
    <3>1. CASE PassStep
      BY <3>1 DEF PassStep, ReadHead, Unpackageable, Unreached, Conflict, Replay, Reserve,
                  InProgress, Answered, TimesOut, EndPass, RemoveHead, Retry, Answer
    <3>2. CASE ~PassStep
      <4>1. pass = "removing" /\ verdict = "done"
        BY <3>2 DEF DrainNext, LogCommand, Death, StartDrain, Endpoint, Completes, Fails,
                    allVars, drainVars, passVars
      <4> QED
        BY <4>1 DEF UploadInv
    <3> QED
      BY <3>1, <3>2
  <2>4. DrainTypeOK /\ (Busy => queue # <<>>)
    BY DEF UploadInv
  <2>5. status'[Id] = "complete"
    BY <2>2, <2>3, <2>4, ServerStep
  <2> QED
    BY <2>1, <2>5
<1> QED
  BY <1>1, <1>2, <1>3, <1>4, <1>5, <1>6 DEF UploadInv, IsLive, Id

-----------------------------------------------------------------------------
(* Storage that works.  Then the frames of a range are in its file up to    *)
(* where it was cut off, nothing but live audio is ever open, and an opened *)
(* log has left no file behind.                                             *)
FromRange(audio, s) == \E k \in Nat : audio = RangeAudio(s, k)

WholeInv ==
  /\ ready => orphans = {}
  /\ \A f \in open : IsLive(f.id)
  /\ \A f \in Listed(Files) : IsLive(f.id) \/ FromRange(f.audio, f.id[2])

(* What a working step leaves in the directory.                             *)
WorkingStep ==
  /\ ready' => orphans' = {}
  /\ \A g \in open' : IsLive(g.id)
  /\ \A g \in Files' : \/ g \in Files \/ IsLive(g.id)
                       \/ \E s \in Sources, k \in Nat : g = RingSegment(s, k)

LEMMA WorkingSteps ==
  ASSUME ~Faults, IInv, WholeInv, Next
  PROVE  WorkingStep
<1>1. CASE Open
  <2>1. SealAndEvict(Files, owed) /\ orphans' = {} /\ open' = {}
    BY <1>1 DEF Open
  <2> QED
    BY <2>1, SealAndEvictTakes DEF Files, WorkingStep
<1>2. CASE BeginSegment
  <2> DEFINE added == Begun(LiveId(minted), now)
  <2>1. IsLive(added.id)
    BY DEF Begun, LiveId, IsLive
  <2>2. ready /\ open' = {added} /\ sealed' = sealed \cup open /\ orphans' = orphans
    BY <1>2 DEF BeginSegment
  <2> HIDE DEF added
  <2> QED
    BY <2>1, <2>2 DEF Files, WorkingStep, WholeInv
<1>3. CASE AppendLive
  <2>1. PICK o \in open :
          LET grown == [o EXCEPT !.audio = Append(@, LiveFrame(offered))]
              due == owed \cup ({LiveFrame(offered)} \cap Recovered(grown.audio)) IN
          \/ open' = {grown} /\ sealed' = sealed /\ orphans' = orphans
          \/ open' = {} /\ SealAndEvict(sealed \cup {grown}, due) /\ orphans' = orphans
    BY <1>3 DEF AppendLive
  <2> DEFINE grown == [o EXCEPT !.audio = Append(@, LiveFrame(offered))]
             due == owed \cup ({LiveFrame(offered)} \cap Recovered(grown.audio))
  <2>2. grown.id = o.id /\ IsLive(o.id)
    BY GrownSegment, FrameTypes DEF IInv, TypeOK, WholeInv
  <2>3. SealAndEvict(sealed \cup {grown}, due) => sealed' \subseteq sealed \cup {grown}
    BY SealAndEvictTakes
  <2>4. ready
    BY <1>3 DEF AppendLive
  <2> HIDE DEF grown, due
  <2>5. /\ Files' \subseteq sealed \cup orphans \cup {grown}
        /\ open' \subseteq {grown} /\ orphans' = orphans
    BY <2>1, <2>3 DEF Files, grown, due
  <2> QED
    BY <2>2, <2>4, <2>5 DEF Files, WorkingStep, WholeInv
<1>4. CASE Seal
  BY <1>4, SealAndEvictTakes DEF Seal, Files, WorkingStep, WholeInv
<1>5. ASSUME NEW s \in Sources, ImportRange(s) PROVE WorkingStep
  <2> DEFINE added == RingSegment(s, Written(s))
  <2>1. sealed' \subseteq sealed \cup open \cup {added}
    BY <1>5, SealAndEvictTakes DEF ImportRange
  <2>2. ready /\ open' = {} /\ orphans' = orphans
    BY <1>5 DEF ImportRange
  <2>3. Written(s) \in Nat
    BY WrittenType
  <2> QED
    BY <2>1, <2>2, <2>3 DEF Files, WorkingStep, WholeInv
<1>6. ASSUME NEW s \in Sources, NEW k \in Nat, CrashInImport(s, k) PROVE WorkingStep
  BY <1>6 DEF CrashInImport, CrashWriting, Files, WorkingStep
<1>7. CASE CrashInBegin
  <2>1. IsLive(Headless.id)
    BY DEF Headless, Begun, LiveId, IsLive
  <2> QED
    BY <1>7, <2>1 DEF CrashInBegin, CrashWriting, Files, WorkingStep
<1>8. CASE Close \/ AppendUnheld \/ Crash \/ Tick
  BY <1>8 DEF Close, AppendUnheld, Crash, Tick, Files, WorkingStep, WholeInv
<1>9. ASSUME NEW f \in Listed(sealed), RemoveSegment(f) PROVE WorkingStep
  BY <1>9 DEF RemoveSegment, Files, WorkingStep, WholeInv
<1>10. ~Failures
  BY DEF Failures, OpenFails, AppendFails, SealFails, BeginFails, ImportFails
<1>11. 0..MaxSegmentBytes \subseteq Nat
  BY BoundsAssumption
<1> QED
  BY <1>1, <1>2, <1>3, <1>4, <1>5, <1>6, <1>7, <1>8, <1>9, <1>10, <1>11
     DEF Next, LiveCommands, Deaths

LEMMA WholeStep ==
  ASSUME ~Faults, IInv, WholeInv, [Next]_vars
  PROVE  WholeInv'
<1>1. CASE UNCHANGED vars
  BY <1>1 DEF vars, WholeInv, Listed, Files
<1>2. CASE Next
  <2>1. WorkingStep
    BY <1>2, WorkingSteps
  <2>2. ASSUME NEW g \in Listed(Files)', ~IsLive(g.id) PROVE FromRange(g.audio, g.id[2])
    <3>1. g \in Files' /\ g.header
      BY DEF Listed
    <3>2. CASE g \in Files
      BY <2>2, <3>1, <3>2 DEF WholeInv, Listed
    <3>3. ASSUME NEW s \in Sources, NEW k \in Nat, g = RingSegment(s, k)
          PROVE  FromRange(g.audio, g.id[2])
      <4>1. g.audio = RangeAudio(s, k) /\ g.id[2] = s
        BY <3>3, RingSegmentType, IdsAre DEF IInv
      <4> QED
        BY <4>1 DEF FromRange
    <3> QED
      BY <2>1, <2>2, <3>1, <3>2, <3>3 DEF WorkingStep
  <2> QED
    BY <2>1, <2>2 DEF WorkingStep, WholeInv
<1> QED
  BY <1>1, <1>2

(* No frame of a range is torn, and the length of a prefix tells which.     *)
LEMMA RangeFacts ==
  ASSUME NEW s \in Sources
  PROVE  /\ \A audio : FromRange(audio, s) => Packaged(audio) = audio
         /\ \A p, q : FromRange(p, s) /\ FromRange(q, s) /\ SameHash(p, q) => p = q
<1>1. \A k \in Nat : Len(RangeAudio(s, k)) = k /\ DOMAIN RangeAudio(s, k) = 1..k
  BY DEF RangeAudio
<1>2. ASSUME NEW audio, FromRange(audio, s) PROVE Packaged(audio) = audio
  <2>1. PICK k \in Nat : audio = RangeAudio(s, k)
    BY <1>2 DEF FromRange
  <2>2. \A i \in 1..k : audio[i] = <<s, i>> /\ i # 0
    BY <2>1 DEF RangeAudio, RingFrame
  <2>3. \A i \in DOMAIN audio : audio[i] # Torn
    BY <1>1, <2>1, <2>2 DEF Torn
  <2> QED
    BY <2>3 DEF Packaged
<1>3. ASSUME NEW p, NEW q, FromRange(p, s), FromRange(q, s), SameHash(p, q) PROVE p = q
  BY <1>1, <1>3 DEF FromRange, SameHash
<1> QED
  BY <1>2, <1>3

(* What is uploaded of a range is a prefix of it, and what the pass waits   *)
(* for or was answered is what it has read.                                 *)
PrefixInv ==
  /\ Busy /\ ~IsLive(Id) => FromRange(payload, Id[2])
  /\ \A s \in Sources : Taken(RingId(s)) => FromRange(stored[RingId(s)], s)
  /\ pass = "waiting" \/ (pass = "removing" /\ verdict = "done") => stored[Id] = payload

LEMMA PrefixRead ==
  ASSUME WholeInv, LogInv, QueueInv, Busy => queue # <<>>, PrefixInv, [DrainNext]_allVars,
         Busy', ~IsLive(Id)'
  PROVE  FromRange(payload', Id[2]) /\ Id' = Id /\ queue # <<>>
<1>1. queue # <<>> /\ Id' = Id /\ ~IsLive(Id)
  BY BusyStep DEF Id, IsLive
<1>2. CASE Busy /\ payload' = payload
  BY <1>1, <1>2 DEF PrefixInv
<1>3. ASSUME NEW f \in Present, payload' = Packaged(f.audio)
      PROVE  FromRange(payload', Id[2])
  <2>1. f \in Listed(Files) /\ f.id = Id
    BY DEF Present, Listed, Files, Id
  <2>2. FromRange(f.audio, Id[2])
    BY <1>1, <2>1 DEF WholeInv
  <2>3. Id[2] \in Sources
    BY <1>1, HeadFacts, IdsAre
  <2> QED
    BY <1>3, <2>2, <2>3, RangeFacts
<1> QED
  BY <1>1, <1>2, <1>3, BusyStep

(* An equal hash under the head's id is equal audio.                        *)
LEMMA SameAudio ==
  ASSUME QueueInv, UploadInv, PrefixInv, Busy, Taken(Id), SameHash(stored[Id], payload)
  PROVE  stored[Id] = payload
<1>1. queue # <<>> /\ Id \in Ids /\ 1 \in DOMAIN queue /\ Head(queue) = queue[1] /\ Id = queue[1].id
  BY HeadFacts DEF UploadInv
<1>2. CASE IsLive(Id)
  BY <1>1, <1>2, IdsAre DEF UploadInv, TakenInv
<1>3. CASE ~IsLive(Id)
  <2>1. Id[2] \in Sources /\ Id = RingId(Id[2])
    BY <1>1, <1>3, IdsAre
  <2>2. FromRange(payload, Id[2]) /\ FromRange(stored[Id], Id[2])
    BY <1>3, <2>1 DEF PrefixInv
  <2> QED
    BY <2>1, <2>2, RangeFacts
<1> QED
  BY <1>2, <1>3

LEMMA PrefixStep ==
  ASSUME WholeInv, LogInv, QueueInv, UploadInv, PrefixInv, [DrainNext]_allVars
  PROVE  PrefixInv'
<1>0. DrainTypeOK /\ (Busy => queue # <<>>)
  BY DEF UploadInv
<1>1. Busy' /\ ~IsLive(Id)' => FromRange(payload, Id[2])'
  <2>1. Busy' /\ ~IsLive(Id)' => FromRange(payload', Id[2]) /\ Id' = Id
    BY <1>0, PrefixRead
  <2> QED
    BY <2>1 DEF FromRange, RangeAudio, RingFrame
<1>2. ASSUME NEW s \in Sources, Taken(RingId(s))' PROVE FromRange(stored'[RingId(s)], s)
  <2>1. RingId(s) \in Ids /\ ~IsLive(RingId(s)) /\ RingId(s)[2] = s
    BY IdsAre
  <2>2. CASE Taken(RingId(s)) /\ stored'[RingId(s)] = stored[RingId(s)]
    BY <2>2 DEF PrefixInv
  <2>3. CASE Reserve
    <3>1. /\ Busy /\ stored' = [stored EXCEPT ![Id] = payload]
          /\ status' = [status EXCEPT ![Id] = "started"]
          /\ stored \in [Ids -> Seq(Frame)]
          /\ status \in [Ids -> {"none", "started", "complete", "failed"}]
      BY <1>0, <2>3 DEF Reserve, Busy, DrainTypeOK
    <3>2. CASE RingId(s) = Id
      BY <2>1, <3>1, <3>2 DEF PrefixInv
    <3>3. CASE RingId(s) # Id
      BY <2>1, <2>2, <3>1, <3>3, <1>2 DEF Taken
    <3> QED
      BY <3>2, <3>3
  <2>4. CASE ~Reserve
    BY <1>0, <1>2, <2>1, <2>2, <2>4, ServerStep DEF Taken
  <2> QED
    BY <2>3, <2>4
<1>3. ASSUME pass' = "waiting" \/ (pass' = "removing" /\ verdict' = "done")
      PROVE  stored'[Id'] = payload'
  <2>1. Busy' /\ queue' = queue /\ Id' = Id
    BY <1>3, BusyStep DEF Busy, Id
  <2>2. queue # <<>>
    BY <1>0, <2>1, BusyStep
  <2>3. Id \in Ids
    BY <2>2, HeadFacts
  <2>4. CASE Reserve
    BY <1>0, <2>1, <2>3, <2>4 DEF Reserve, DrainTypeOK
  <2>5. CASE Replay
    <3>1. stored[Id] = payload
      BY <2>5, SameAudio DEF Replay, Busy, Taken
    <3> QED
      BY <2>1, <2>5, <3>1 DEF Replay, Answer, serverVars
  <2>6. CASE ~Reserve /\ ~Replay
    <3>1. /\ pass = "waiting" \/ (pass = "removing" /\ verdict = "done")
          /\ payload' = payload
      <4>1. CASE PassStep
        BY <1>3, <2>6, <4>1 DEF PassStep, ReadHead, Unpackageable, Unreached, Conflict,
           InProgress, Answered, TimesOut, EndPass, RemoveHead, Retry, Answer
      <4>2. CASE ~PassStep
        BY <1>3, <4>2 DEF DrainNext, LogCommand, Death, StartDrain, Endpoint, Completes, Fails,
                    allVars, drainVars, passVars
      <4> QED
        BY <4>1, <4>2
    <3>2. stored'[Id] = stored[Id]
      BY <1>0, <2>3, <2>6, ServerStep
    <3> QED
      BY <2>1, <3>1, <3>2 DEF PrefixInv
  <2> QED
    BY <2>4, <2>5, <2>6
<1> QED
  BY <1>1, <1>2, <1>3 DEF PrefixInv, Id, IsLive

(* The uploader's inductive invariant.                                      *)
DrainInv ==
  /\ NamesInv /\ QueueInv /\ UploadInv
  /\ ~Faults => WholeInv /\ PrefixInv

LEMMA InitDrainInv == DrainInit => DrainInv
<1> SUFFICES ASSUME DrainInit PROVE DrainInv
  OBVIOUS
<1>1. /\ sealed = {} /\ open = {} /\ orphans = {} /\ ready = FALSE /\ minted = 0
      /\ pass = "idle" /\ queue = <<>> /\ payload = <<>> /\ attempt = 0 /\ verdict = "none"
      /\ status = [k \in Ids |-> "none"] /\ stored = [k \in Ids |-> <<>>]
  BY DEF DrainInit, Init
<1>2. Files = {} /\ Listed(Files) = {} /\ Lives = {}
  BY <1>1 DEF Files, Listed, Lives
<1>3. NamesInv
  BY <1>1, <1>2, BoundsAssumption DEF NamesInv
<1>4. QueueInv
  BY <1>1 DEF QueueInv
<1>5. /\ \A n \in 0..MaxMinted : ~Taken(LiveId(n))
      /\ \A s \in Sources : ~Taken(RingId(s))
  BY <1>1, IdsAre DEF Taken
<1>6. DrainTypeOK
  <2>1. <<>> \in Seq(Frame) /\ MaxAttempts \in Nat \ {0}
    BY DrainAssumption
  <2> QED
    BY <1>1, <2>1 DEF DrainTypeOK
<1>7. UploadInv
  BY <1>1, <1>5, <1>6 DEF UploadInv, TakenInv, Busy
<1>8. WholeInv /\ PrefixInv
  BY <1>1, <1>2, <1>5 DEF WholeInv, PrefixInv, Busy
<1> QED
  BY <1>3, <1>4, <1>7, <1>8 DEF DrainInv

LEMMA DrainInvStep == EvictionInv /\ DrainInv /\ [DrainNext]_allVars => DrainInv'
<1> SUFFICES ASSUME EvictionInv, DrainInv, [DrainNext]_allVars PROVE DrainInv'
  OBVIOUS
<1>1. LogInv /\ [Next]_vars /\ IInv
  BY DrainStepsLog DEF LogInv, DrainInv, EvictionInv
<1>2. NamesInv'
  BY <1>1, NamesStep DEF DrainInv
<1>3. UploadInv' /\ QueueInv'
  BY <1>1, UploadStep DEF DrainInv
<1>4. ~Faults => WholeInv' /\ PrefixInv'
  BY <1>1, WholeStep, PrefixStep DEF DrainInv
<1> QED
  BY <1>2, <1>3, <1>4 DEF DrainInv

LEMMA DrainInvHolds == DrainSpec => []EvictionInv /\ []DrainInv
BY DrainKeepsTheLog, EvictionInvHolds, InitDrainInv, DrainInvStep, PTL DEF DrainSpec

(* The state of a pass and of the endpoint has its types.                   *)
THEOREM DrainTypes == DrainSpec => []DrainTypeOK
<1>1. DrainInv => DrainTypeOK
  BY DEF DrainInv, UploadInv
<1> QED
  BY <1>1, DrainInvHolds, PTL

(* A file that is removed as uploaded was transcribed: all of it, if it is  *)
(* live audio, and what was read of it, if the storage works.               *)
THEOREM UploadsWereTranscribed == DrainSpec => UploadedMeansTranscribed
<1> DEFINE Sound == RemoveHead /\ verdict = "done" =>
             \A f \in sealed \ sealed' :
               /\ status[f.id] = "complete"
               /\ f.id[1] = "live" => stored[f.id] = Packaged(f.audio)
               /\ ~Faults => stored[f.id] = payload
<1>1. DrainInv => Sound
  <2> SUFFICES ASSUME DrainInv, RemoveHead, verdict = "done", NEW f \in sealed \ sealed'
               PROVE  /\ status[f.id] = "complete"
                      /\ IsLive(f.id) => stored[f.id] = Packaged(f.audio)
                      /\ ~Faults => stored[f.id] = payload
    BY DEF IsLive
  <2>1. f \in Present
    BY DEF RemoveHead, RemoveSegment, vars
  <2>2. f \in Listed(Files) /\ f.id = Id
    BY <2>1 DEF Present, Listed, Files, Id
  <2>3. pass = "removing" /\ status[Id] = "complete"
    BY DEF RemoveHead, DrainInv, UploadInv
  <2>4. ASSUME IsLive(f.id) PROVE stored[f.id] = Packaged(f.audio)
    <3>1. f \in Lives /\ Taken(f.id)
      BY <2>2, <2>3, <2>4 DEF Lives, Taken
    <3>2. f.id \in Ids
      BY <2>2 DEF DrainInv, NamesInv
    <3> QED
      BY <2>4, <3>1, <3>2, IdsAre DEF DrainInv, UploadInv, TakenInv
  <2>5. ~Faults => stored[f.id] = payload
    BY <2>2, <2>3 DEF DrainInv, PrefixInv
  <2> QED
    BY <2>2, <2>3, <2>4, <2>5
<1> QED
  BY <1>1, DrainInvHolds, PTL DEF UploadedMeansTranscribed

-----------------------------------------------------------------------------
(* The order of live audio, with storage that works: whatever is older than *)
(* a listed live segment was taken by the endpoint or is listed before it,  *)
(* and what a later segment has overtaken at the endpoint is gone.          *)
OlderFirst ==
  \A i \in DOMAIN queue, f \in Lives :
    IsLive(queue[i].id) /\ f.id[2] < queue[i].id[2] =>
      Taken(f.id) \/ \E j \in DOMAIN queue : j < i /\ queue[j].id = f.id

OvertakenGone ==
  \A n, m \in 0..MaxMinted : n < m /\ ~Taken(LiveId(n)) /\ Taken(LiveId(m)) =>
    /\ \A f \in Lives : f.id # LiveId(n)
    /\ \A i \in DOMAIN queue : queue[i].id # LiveId(n)

OrderInv ==
  /\ queue # <<>> => ready
  /\ OlderFirst /\ OvertakenGone

LEMMA ListedWhileReady ==
  ASSUME ~Faults, queue # <<>> => ready, [DrainNext]_allVars
  PROVE  queue' # <<>> => ready'
<1>1. CASE LogCommand
  BY <1>1 DEF LogCommand, drainVars, passVars, LiveCommands, Failures, Open, Close, BeginSegment,
       AppendUnheld, AppendLive, Seal, ImportRange, Tick,
       OpenFails, AppendFails, SealFails, BeginFails, ImportFails
<1>2. CASE StartDrain
  BY <1>2 DEF StartDrain, vars
<1>3. CASE Death
  BY <1>3 DEF Death
<1>4. CASE PassStep \/ Endpoint \/ UNCHANGED allVars
  <2>1. ready' = ready
    BY <1>4 DEF PassStep, ReadHead, Unpackageable, Unreached, Conflict, Replay, Reserve, InProgress,
           Answered, TimesOut, EndPass, RemoveHead, RemoveSegment, Endpoint, Completes, Fails,
           allVars, vars
  <2>2. queue' # <<>> => queue # <<>>
    <3>1. Tail(<<>>) = <<>>
      OBVIOUS
    <3> QED
      BY <1>4, <3>1 DEF PassStep, ReadHead, Unpackageable, Unreached, Conflict, Replay, Reserve,
           InProgress, Answered, TimesOut, EndPass, RemoveHead, Retry, Answer,
           Endpoint, Completes, Fails, allVars, drainVars, passVars
  <2> QED
    BY <2>1, <2>2
<1> QED
  BY <1>1, <1>2, <1>3, <1>4 DEF DrainNext

(* A pass goes on to the next segment only when the file is gone.           *)
LEMMA PassedIsGone ==
  ASSUME LogInv, QueueInv, UploadInv, queue # <<>>, ready,
         [DrainNext]_allVars, ~StartDrain, queue' = Tail(queue), queue' # <<>>
  PROVE  \A f \in Lives' : f.id # Id
<1>0. /\ 1 \in DOMAIN queue /\ Head(queue) = queue[1] /\ Head(queue).header
      /\ Id = queue[1].id /\ queue[1] \in Segment
  BY HeadFacts
<1>1. queue' # queue
  BY <1>0, TailFacts DEF QueueInv
<1>2. ReadHead \/ RemoveHead
  BY <1>1 DEF DrainNext, LogCommand, Death, StartDrain, PassStep, Unpackageable, Unreached,
              Conflict, Replay, Reserve, InProgress, Answered, TimesOut, EndPass, Retry, Answer,
              Endpoint, Completes, Fails, allVars, drainVars, passVars
<1> SUFFICES ASSUME NEW f \in Lives', f.id = Id PROVE FALSE
  OBVIOUS
<1>3. Files' \subseteq Files /\ sealed' \subseteq sealed /\ open' = open /\ orphans' = orphans
  BY <1>2 DEF ReadHead, RemoveHead, RemoveSegment, vars, Files
<1>4. f \in Lives
  BY <1>3 DEF Lives, Listed
<1>5. f = queue[1] /\ f \in sealed
  BY <1>0, <1>4 DEF QueueInv
<1>6. f \in Present
  BY <1>0, <1>5 DEF Present, Listed, Id
<1>7. CASE ReadHead
  BY <1>1, <1>6, <1>7 DEF ReadHead
<1>8. CASE RemoveHead
  <2>1. PICK g \in Present : RemoveSegment(g)
    BY <1>6, <1>8 DEF RemoveHead
  <2>2. g \in sealed /\ g.id = Id /\ g.header
    BY <2>1 DEF Present, Listed, Id
  <2>3. g \in Lives
    BY <1>0, <1>4, <1>5, <2>2 DEF Lives, Listed, Files
  <2>4. g = f
    BY <1>0, <1>5, <2>2, <2>3 DEF QueueInv
  <2>5. f \notin sealed' /\ f \in open \cup orphans
    BY <1>3, <2>1, <2>4 DEF RemoveSegment, Lives, Listed, Files
  <2> QED
    BY <1>5, <2>5, FilesApart DEF LogInv, EvictionInv, Apart
<1> QED
  BY <1>2, <1>7, <1>8

(* What a step leaves of the older segments.                                *)
LEMMA OlderKept ==
  ASSUME LogInv, QueueInv, UploadInv, OrderInv, [DrainNext]_allVars, ~StartDrain, Shrinks,
         \A id \in Ids : Taken(id) => Taken(id)'
  PROVE  OlderFirst'
<1>0. [Next]_vars /\ minted \in Nat
  BY DrainStepsLog DEF LogInv, NamesInv
<1> SUFFICES ASSUME NEW i \in DOMAIN queue', NEW g \in Lives',
                    IsLive(queue'[i].id), g.id[2] < queue'[i].id[2], ~Taken(g.id)'
             PROVE  \E j \in DOMAIN queue' : j < i /\ queue'[j].id = g.id
  BY DEF OlderFirst, IsLive
(* The segment is listed before queue[k], which is now queue'[i].           *)
<1>1. ASSUME NEW k \in DOMAIN queue, queue'[i] = queue[k]
      PROVE  \E j \in DOMAIN queue : j < k /\ queue[j].id = g.id
  <2>1. queue[k].id[2] < minted /\ queue[k].id[2] \in Nat /\ LiveId(minted)[2] = minted
    <3>1. queue[k].id \in Ids /\ IsLive(queue[k].id) /\ queue[k].id[2] < minted
      BY <1>1 DEF QueueInv
    <3> QED
      BY <1>0, <3>1, IdsAre
  <2>2. g.id # LiveId(minted)
    <3> SUFFICES ASSUME g.id = LiveId(minted) PROVE FALSE
      OBVIOUS
    <3>1. minted < queue[k].id[2]
      BY <1>1, <2>1
    <3> QED
      BY <1>0, <2>1, <3>1
  <2>3. PICK f \in Lives : f.id = g.id
    BY <1>0, <2>2, LivesStep DEF LogInv, EvictionInv
  <2>4. f.id \in Ids
    BY DEF Lives, LogInv, NamesInv
  <2>5. ~Taken(f.id)
    BY <2>3, <2>4 DEF Taken
  <2> QED
    BY <1>1, <2>3, <2>5 DEF OrderInv, OlderFirst
<1>2. CASE queue' = queue
  BY <1>1, <1>2
<1>3. CASE queue # <<>> /\ queue' = Tail(queue)
  <2>1. /\ Len(queue) \in Nat /\ DOMAIN queue = 1..Len(queue) /\ Len(queue) >= 1
        /\ DOMAIN queue' = 1..(Len(queue) - 1)
        /\ \A n \in 1..(Len(queue) - 1) : queue'[n] = queue[n + 1]
    <3>1. /\ Len(queue) \in Nat /\ DOMAIN queue = 1..Len(queue)
      BY DEF QueueInv
    <3>2. /\ Tail(queue) \in Seq(Segment) /\ Len(Tail(queue)) = Len(queue) - 1
          /\ \A n \in 1..(Len(queue) - 1) : Tail(queue)[n] = queue[n + 1]
          /\ Len(queue) >= 1
      BY <1>3, TailFacts DEF QueueInv
    <3>3. DOMAIN Tail(queue) = 1..(Len(queue) - 1)
      BY <3>2
    <3> QED
      BY <1>3, <3>1, <3>2, <3>3
  <2>2. i \in 1..(Len(queue) - 1) /\ i + 1 \in DOMAIN queue /\ queue'[i] = queue[i + 1]
    BY <2>1
  <2>3. PICK j \in DOMAIN queue : j < i + 1 /\ queue[j].id = g.id
    BY <1>1, <2>2
  <2>4. j # 1
    <3>1. queue' # <<>> /\ ready
      BY <1>3, <2>1 DEF OrderInv
    <3>2. g.id # Id
      BY <1>3, <3>1, PassedIsGone
    <3> QED
      BY <1>3, <2>3, <3>2, HeadFacts
  <2>5. j - 1 \in DOMAIN queue' /\ j - 1 < i /\ queue'[j - 1] = queue[j]
    <3>1. j \in Nat /\ i \in Nat /\ j - 1 \in 1..(Len(queue) - 1) /\ (j - 1) + 1 = j
      BY <2>1, <2>2, <2>3, <2>4
    <3>2. queue'[j - 1] = queue[(j - 1) + 1]
      BY <2>1, <3>1
    <3> QED
      BY <2>1, <2>3, <3>1, <3>2
  <2> QED
    BY <2>3, <2>5
<1>4. CASE queue' = <<>>
  BY <1>4
<1> QED
  BY <1>2, <1>3, <1>4 DEF Shrinks

(* A listing has every older segment before each of its own.                *)
LEMMA OlderListed ==
  ASSUME LogInv, WholeInv, ready, UNCHANGED <<vars, serverVars>>, queue' = Listing
  PROVE  OlderFirst'
<1>1. Lives' = Lives /\ DOMAIN queue' = DOMAIN Listing
  BY DEF vars, Lives, Listed, Files
<1> SUFFICES ASSUME NEW i \in DOMAIN Listing, NEW f \in Lives,
                    IsLive(Listing[i].id), f.id[2] < Listing[i].id[2]
             PROVE  \E j \in DOMAIN Listing : j < i /\ Listing[j].id = f.id
  BY <1>1 DEF OlderFirst, IsLive
<1>2. /\ Listing \in Seq(Listed(sealed))
      /\ \A k, j \in DOMAIN Listing : k < j => Listing[k].seq < Listing[j].seq
      /\ \A g \in Listed(sealed) : \E j \in DOMAIN Listing : Listing[j] = g
  BY ListingSorts DEF LogInv
<1>3. Listing[i] \in sealed /\ Listing[i] \in Lives
  <2>1. Listing[i] \in Listed(sealed)
    BY <1>2
  <2> QED
    BY <2>1 DEF Lives, Listed, Files
<1>4. f.seq < Listing[i].seq /\ f.seq \in Nat /\ Listing[i].seq \in Nat
  BY <1>3, LivesAre DEF LogInv, EvictionInv
<1>5. f \in Listed(sealed)
  <2>1. f \notin open
    <3> SUFFICES ASSUME f \in open PROVE FALSE
      OBVIOUS
    <3>1. Listing[i].seq < f.seq
      BY <1>3 DEF LogInv, EvictionInv, IInv, SequenceOrder
    <3> QED
      BY <1>4, <3>1
  <2> QED
    BY <2>1 DEF Lives, Listed, Files, WholeInv
<1>6. PICK j \in DOMAIN Listing : Listing[j] = f
  BY <1>2, <1>5
<1>7. j < i
  <2>1. i \in Nat /\ j \in Nat
    BY <1>2
  <2>2. ~(i < j) /\ i # j
    <3>1. i < j => Listing[i].seq < f.seq
      BY <1>2, <1>6
    <3> QED
      BY <1>4, <1>6, <3>1
  <2> QED
    BY <2>1, <2>2
<1> QED
  BY <1>6, <1>7

LEMMA OvertakenKept ==
  ASSUME LogInv, QueueInv, UploadInv, OvertakenGone, [Next]_vars, Shrinks,
         \A id \in Ids : Taken(id)' <=> Taken(id)
  PROVE  OvertakenGone'
<1>0. minted \in Nat
  BY DEF LogInv, NamesInv
<1> SUFFICES ASSUME NEW n \in 0..MaxMinted, NEW m \in 0..MaxMinted, n < m,
                    ~Taken(LiveId(n)), Taken(LiveId(m))
             PROVE  /\ \A f \in Lives' : f.id # LiveId(n)
                    /\ \A i \in DOMAIN queue' : queue'[i].id # LiveId(n)
  <2>1. \A n \in 0..MaxMinted : Taken(LiveId(n))' <=> Taken(LiveId(n))
    BY IdsAre DEF Taken, LiveId
  <2> QED
    BY <2>1 DEF OvertakenGone, LiveId
<1>1. m < minted
  BY DEF UploadInv, TakenInv
<1>2. LiveId(n) # LiveId(minted)
  BY <1>0, <1>1 DEF LiveId
<1>3. \A f \in Lives' : f.id # LiveId(n)
  BY <1>2, LivesStep DEF LogInv, EvictionInv, OvertakenGone
<1>4. \A i \in DOMAIN queue' : queue'[i].id # LiveId(n)
  BY ShrinksTo DEF QueueInv, OvertakenGone
<1> QED
  BY <1>3, <1>4

LEMMA OvertakenListed ==
  ASSUME LogInv, OvertakenGone, UNCHANGED <<vars, serverVars>>, queue' = Listing
  PROVE  OvertakenGone'
<1>1. Lives' = Lives /\ status' = status
  BY DEF vars, serverVars, Lives, Listed, Files
<1>2. \A i \in DOMAIN Listing : IsLive(Listing[i].id) => Listing[i] \in Lives
  <2>1. Listing \in Seq(Listed(sealed))
    BY ListingSorts DEF LogInv
  <2>2. Listed(sealed) \subseteq Listed(Files)
    BY DEF Listed, Files
  <2> QED
    BY <2>1, <2>2 DEF Lives
<1>3. \A n \in 0..MaxMinted : IsLive(LiveId(n))
  BY IdsAre
<1> QED
  BY <1>1, <1>2, <1>3 DEF OvertakenGone, Taken

LEMMA OvertakenReserved ==
  ASSUME LogInv, QueueInv, UploadInv, OlderFirst, OvertakenGone, Reserve
  PROVE  OvertakenGone'
<1>0. /\ queue # <<>> /\ queue' = queue /\ Lives' = Lives
      /\ status' = [status EXCEPT ![Id] = "started"]
      /\ status \in [Ids -> {"none", "started", "complete", "failed"}]
  BY DEF Reserve, UploadInv, DrainTypeOK, Busy, vars, Lives, Listed, Files
<1>1. /\ 1 \in DOMAIN queue /\ Id \in Ids /\ Id = queue[1].id
      /\ \A i \in DOMAIN queue : i \in Nat /\ i >= 1
  BY <1>0, HeadFacts DEF QueueInv
<1> SUFFICES ASSUME NEW n \in 0..MaxMinted, NEW m \in 0..MaxMinted, n < m,
                    ~Taken(LiveId(n))', Taken(LiveId(m))'
             PROVE  /\ \A f \in Lives : f.id # LiveId(n)
                    /\ \A i \in DOMAIN queue : queue[i].id # LiveId(n)
  BY <1>0 DEF OvertakenGone
<1>2. /\ LiveId(n) \in Ids /\ LiveId(m) \in Ids
      /\ IsLive(LiveId(n)) /\ LiveId(n)[2] = n /\ IsLive(LiveId(m)) /\ LiveId(m)[2] = m
  BY IdsAre
<1>3. ~Taken(LiveId(n))
  BY <1>0, <1>1, <1>2 DEF Taken
<1>4. CASE Taken(LiveId(m))
  BY <1>3, <1>4 DEF OvertakenGone
<1>5. CASE LiveId(m) = Id
  <2>1. \A f \in Lives : f.id # LiveId(n)
    <3> SUFFICES ASSUME NEW f \in Lives, f.id = LiveId(n) PROVE FALSE
      OBVIOUS
    <3>1. PICK j \in DOMAIN queue : j < 1
      BY <1>1, <1>2, <1>3, <1>5 DEF OlderFirst
    <3> QED
      BY <1>1, <3>1
  <2>2. ASSUME NEW i \in DOMAIN queue, queue[i].id = LiveId(n) PROVE FALSE
    <3>1. i # 1
      BY <1>1, <1>2, <1>5, <2>2
    <3>2. 1 < i
      BY <1>1, <3>1
    <3>3. m < n
      BY <1>1, <1>2, <1>5, <2>2, <3>2 DEF QueueInv
    <3> QED
      BY <3>3
  <2> QED
    BY <2>1, <2>2
<1>6. Taken(LiveId(m)) \/ LiveId(m) = Id
  BY <1>0, <1>1, <1>2 DEF Taken
<1> QED
  BY <1>4, <1>5, <1>6

LEMMA OrderStepKeeps ==
  ASSUME ~Faults, LogInv, QueueInv, UploadInv, WholeInv, OrderInv, [DrainNext]_allVars
  PROVE  OrderInv'
<1>1. [Next]_vars
  BY DrainStepsLog
<1>2. queue' # <<>> => ready'
  BY ListedWhileReady DEF OrderInv
<1>3. CASE StartDrain /\ ready /\ queue' = Listing
  <2>1. UNCHANGED <<vars, serverVars>>
    BY <1>3 DEF StartDrain
  <2> QED
    BY <1>2, <1>3, <2>1, OlderListed, OvertakenListed DEF OrderInv
<1>4. CASE StartDrain /\ ~ready
  <2>1. queue' = <<>> /\ UNCHANGED <<vars, serverVars>>
    BY <1>4 DEF StartDrain
  <2>2. Lives' = Lives /\ status' = status
    BY <2>1 DEF vars, serverVars, Lives, Listed, Files
  <2> QED
    BY <1>2, <2>1, <2>2 DEF OrderInv, OlderFirst, OvertakenGone, Taken
<1>5. CASE ~StartDrain
  <2>1. Shrinks
    BY <1>5, QueueStep
  <2>2. /\ DrainTypeOK /\ (Busy => queue # <<>>)
    BY DEF UploadInv
  <2>3. CASE Reserve
    <3>1. Id \in Ids /\ status' = [status EXCEPT ![Id] = "started"]
          /\ status \in [Ids -> {"none", "started", "complete", "failed"}]
      BY <2>2, <2>3, HeadFacts DEF Reserve, Busy, DrainTypeOK
    <3>2. \A id \in Ids : Taken(id) => Taken(id)'
      BY <3>1 DEF Taken
    <3>3. OlderFirst'
      BY <1>5, <2>1, <3>2, OlderKept
    <3>4. OvertakenGone'
      BY <2>3, OvertakenReserved DEF OrderInv
    <3> QED
      BY <1>2, <3>3, <3>4 DEF OrderInv
  <2>4. CASE ~Reserve
    <3>1. \A id \in Ids : Taken(id)' <=> Taken(id)
      BY <2>2, <2>4, ServerStep DEF Taken
    <3>2. OlderFirst'
      BY <1>5, <2>1, <3>1, OlderKept
    <3>3. OvertakenGone'
      BY <1>1, <2>1, <3>1, OvertakenKept DEF OrderInv
    <3> QED
      BY <1>2, <3>2, <3>3 DEF OrderInv
  <2> QED
    BY <2>3, <2>4
<1> QED
  BY <1>3, <1>4, <1>5 DEF StartDrain

(* With storage that works live audio reaches the endpoint in the order it  *)
(* was captured, whatever retries, evictions, deaths and re-openings came   *)
(* between, however the endpoint judges, and at every value of the bounds.  *)
THEOREM LiveAudioArrivesInOrderHolds ==
  ASSUME ~Faults
  PROVE  DrainSpec => LiveAudioArrivesInOrder
<1> DEFINE J == EvictionInv /\ DrainInv
           InOrder == \A n, m \in 0..MaxMinted :
             /\ status[LiveId(n)] = "none" /\ status'[LiveId(n)] = "started"
             /\ n < m
             => status[LiveId(m)] = "none"
<1>1. DrainInit => OrderInv
  <2> SUFFICES ASSUME DrainInit PROVE OrderInv
    OBVIOUS
  <2>1. queue = <<>> /\ status = [k \in Ids |-> "none"]
    BY DEF DrainInit
  <2> QED
    BY <2>1, IdsAre DEF OrderInv, OlderFirst, OvertakenGone, Taken
<1>2. J /\ OrderInv /\ [DrainNext]_allVars => OrderInv'
  BY OrderStepKeeps DEF DrainInv, LogInv
<1>3. J /\ OrderInv /\ [DrainNext]_allVars => InOrder
  <2> SUFFICES ASSUME J, OrderInv, [DrainNext]_allVars,
                      NEW n \in 0..MaxMinted, NEW m \in 0..MaxMinted,
                      status[LiveId(n)] = "none", status'[LiveId(n)] = "started", n < m
               PROVE  status[LiveId(m)] = "none"
    OBVIOUS
  <2>1. DrainTypeOK /\ QueueInv /\ (Busy => queue # <<>>)
    BY DEF DrainInv, UploadInv
  <2>2. LiveId(n) \in Ids
    BY IdsAre
  <2>3. Reserve
    BY <2>1, <2>2, ServerStep
  <2>4. queue # <<>> /\ status' = [status EXCEPT ![Id] = "started"]
        /\ status \in [Ids -> {"none", "started", "complete", "failed"}]
    BY <2>1, <2>3 DEF Reserve, Busy, DrainTypeOK
  <2>5. LiveId(n) = Id
    BY <2>2, <2>4
  <2>6. 1 \in DOMAIN queue /\ queue[1].id = LiveId(n)
    BY <2>1, <2>4, <2>5, HeadFacts
  <2> QED
    BY <2>6 DEF OrderInv, OvertakenGone, Taken
<1>4. DrainSpec => []J
  BY DrainInvHolds, PTL
<1> HIDE DEF J, InOrder
<1>5. DrainSpec => [][InOrder]_allVars
  BY <1>1, <1>2, <1>3, <1>4, PTL DEF DrainSpec
<1> QED
  BY <1>5 DEF InOrder, LiveAudioArrivesInOrder

=============================================================================

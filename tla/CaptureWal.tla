------------------------------ MODULE CaptureWal ------------------------------
(***************************************************************************)
(* The hub's bounded write-ahead log for pendant audio                     *)
(* (app/native/hub/src/capture_wal.rs), driven by the commands of          *)
(* capture_service.rs in the order its single channel delivers them.       *)
(*                                                                         *)
(* A segment file is <sequence>-<id>.open while audio is appended to it    *)
(* and <sequence>-<id>.seg once sealed.  The directory is three sets:      *)
(* "sealed" (.seg), "open" (the file behind the Option<OpenSegment> handle,*)
(* so at most one) and "orphans" (.open files no handle points at: left by *)
(* a death of the process or by a seal that failed).                       *)
(*                                                                         *)
(* Abstractions: a frame is a pair naming where it came from and its       *)
(* position, and every frame takes one unit of space; the length prefix of *)
(* the opus framing is part of the frame's unit.  Empty and oversized      *)
(* frames leave the log as it is and are not offered.  Header fields that  *)
(* decide nothing (encoding, sample rate, gap_before) are left out.        *)
(***************************************************************************)
EXTENDS Naturals, Sequences, FiniteSets, FiniteSetsExt

CONSTANTS
  Sources,          \* ring ranges the client may import (device and range)
  RangeLength,      \* frames in each range
  RangeStart,       \* when the audio of each range was captured
  MaxBytes,         \* CaptureWalBounds::max_bytes, in frames
  MaxAge,           \* CaptureWalBounds::max_age_ms, in ticks
  MaxSegmentBytes,  \* CaptureWalBounds::max_segment_bytes, in frames
  Faults,           \* may file operations fail?
  MaxSequence,      \* bound: sequences handed out by one opening of the log
  MaxMinted,        \* bound: live segments begun
  MaxLive,          \* bound: live frames the client hands over
  MaxNow            \* bound: clock

ASSUME BoundsAssumption ==
  /\ MaxBytes \in Nat \ {0}
  /\ MaxAge \in Nat \ {0}
  /\ MaxSegmentBytes \in Nat \ {0}
  /\ MaxSequence \in Nat
  /\ MaxMinted \in Nat
  /\ MaxLive \in Nat
  /\ MaxNow \in Nat
  /\ Faults \in BOOLEAN

ASSUME RangeAssumption ==
  /\ RangeLength \in [Sources -> Nat \ {0}]
  /\ RangeStart \in [Sources -> Nat \ {0}]

VARIABLES
  sealed,     \* .seg files
  open,       \* the segment behind the handle: {} or one .open file
  orphans,    \* .open files without a handle
  nextSeq,    \* CaptureWal::next_sequence
  ready,      \* the service holds a log (Some)
  now,        \* the wall clock
  session,    \* the client is between a begun segment and its seal
  offered,    \* live frames handed over so far
  minted,     \* random segment ids minted so far
  owed        \* history: live frames that could be read back once written,
              \* and were neither evicted nor removed since

logVars == <<sealed, open, orphans, nextSeq, ready>>
vars == <<sealed, open, orphans, nextSeq, ready, now,
          session, offered, minted, owed>>

-----------------------------------------------------------------------------
(* Frames and segments                                                      *)

LiveFrame(n) == <<"live", n>>
RingFrame(s, i) == <<s, i>>

(* A write that stopped inside a frame: everything behind it in the file is *)
(* misaligned, because the opus framing is a run of length-prefixed packets.*)
Torn == <<"torn", 0>>

Frame == ({"live"} \X Nat) \cup (Sources \X Nat) \cup {Torn}
SegmentId == ({"live"} \X Nat) \cup ({"ring"} \X Sources)

LiveId(n) == <<"live", n>>
RingId(s) == <<"ring", s>>

Segment == [seq : Nat, id : SegmentId, start : Nat,
            audio : Seq(Frame), header : BOOLEAN]

(* begin_segment_with_id: the file as its header line describes it.         *)
Begun(id, start) ==
  [seq |-> nextSeq, id |-> id, start |-> start, audio |-> <<>>, header |-> TRUE]

(* The same file when the header line did not reach the disk: read_segment  *)
(* finds no newline, so nothing ever lists it, and only the sequence in its *)
(* name counts.                                                             *)
Headless == [Begun(LiveId(0), 0) EXCEPT !.header = FALSE]

(* The first k frames of a ring range.                                      *)
RangeAudio(s, k) == [i \in 1..k |-> RingFrame(s, i)]

(* unframe: the frames of a payload that can be read back.                  *)
Recovered(audio) ==
  {audio[i] : i \in {j \in DOMAIN audio : \A k \in 1..j : audio[k] # Torn}}

FramesOf(files) == UNION {Recovered(f.audio) : f \in files}

Files == sealed \cup open \cup orphans

-----------------------------------------------------------------------------
(* Eviction                                                                 *)

Bytes(files) == MapThenSumSet(LAMBDA f : Len(f.audio), files)

(* CaptureWal::pending: only files whose header can be read are listed.     *)
Listed(files) == {f \in files : f.header}

(* evict, age: started before now - max_age_ms.                             *)
Fresh(files) == {f \in Listed(files) : f.start + MaxAge >= now}

(* evict, size: the oldest go while the total exceeds max_bytes, so a file  *)
(* stays exactly when it and everything newer fit.                          *)
Slip_KeptOldest(files) ==
  {f \in Fresh(files) :
     Bytes({g \in Fresh(files) : g.seq <= f.seq}) <= MaxBytes}

Kept(files) ==
  {f \in Fresh(files) :
     Bytes({g \in Fresh(files) : g.seq >= f.seq}) <= MaxBytes}

Evict(files) == Kept(files) \cup {f \in files : ~f.header}

(* Every operation that ends in evict: files is what is sealed before it,   *)
(* due the written frames the log answers for.                              *)
SealAndEvict(files, due) ==
  /\ sealed' = Evict(files)
  /\ owed' = due \ FramesOf(files \ sealed')

-----------------------------------------------------------------------------
(* Commands                                                                 *)

Init ==
  /\ sealed = {} /\ open = {} /\ orphans = {}
  /\ nextSeq = 0 /\ ready = FALSE /\ now = 1
  /\ session = FALSE /\ offered = 0 /\ minted = 0
  /\ owed = {}

(* Sequence numbers after a scan of the directory: one above the highest.   *)
Slip_AfterScan(files) == Cardinality(files)

AfterScan(files) ==
  IF files = {} THEN 0 ELSE Max({f.seq : f \in files}) + 1

(* CaptureService::open: close whatever log is held, then CaptureWal::open  *)
(* scans the directory, seals what an earlier process left open and evicts. *)
(* A rename that fails is ignored, and leaves its file for the next scan.   *)
Slip_OpenDiscards ==
  /\ nextSeq' = AfterScan(Files)
  /\ SealAndEvict(sealed, owed)
  /\ open' = {} /\ orphans' = {}
  /\ ready' = TRUE /\ session' = FALSE
  /\ UNCHANGED <<now, offered, minted>>

Open ==
  /\ nextSeq' = AfterScan(Files)
  /\ \E left \in SUBSET (open \cup orphans) :
       /\ left # {} => Faults
       /\ SealAndEvict(Files \ left, owed)
       /\ orphans' = left
  /\ open' = {}
  /\ ready' = TRUE /\ session' = FALSE
  /\ UNCHANGED <<now, offered, minted>>

(* The directory cannot be read: the log held before was closed first.      *)
OpenFails ==
  /\ Faults
  /\ \/ sealed' = sealed \cup open /\ UNCHANGED orphans
     \/ orphans' = orphans \cup open /\ UNCHANGED sealed
  /\ open' = {}
  /\ ready' = FALSE /\ session' = FALSE
  /\ UNCHANGED <<nextSeq, now, offered, minted, owed>>

(* begin_segment: seals the open segment without evicting, then starts one. *)
Slip_BeginSegment ==
  /\ ready /\ nextSeq < MaxSequence /\ minted < MaxMinted
  /\ open' = open \cup {Begun(LiveId(minted), now)}
  /\ nextSeq' = nextSeq + 1
  /\ minted' = minted + 1
  /\ session' = TRUE
  /\ UNCHANGED <<sealed, orphans, ready, now, offered, owed>>

BeginSegment ==
  /\ ready /\ nextSeq < MaxSequence /\ minted < MaxMinted
  /\ sealed' = sealed \cup open
  /\ open' = {Begun(LiveId(minted), now)}
  /\ nextSeq' = nextSeq + 1
  /\ minted' = minted + 1
  /\ session' = TRUE
  /\ UNCHANGED <<orphans, ready, now, offered, owed>>

(* The file or its header could not be written: the sequence is spent, no   *)
(* segment is open, and an unreadable file may remain.                      *)
BeginFails ==
  /\ Faults
  /\ ready /\ nextSeq < MaxSequence
  /\ sealed' = sealed \cup open
  /\ open' = {}
  /\ orphans' \in {orphans, orphans \cup {Headless}}
  /\ nextSeq' = nextSeq + 1
  /\ UNCHANGED <<ready, now, session, offered, minted, owed>>

(* append with no segment open: answered without an error, nothing written. *)
AppendUnheld ==
  /\ ready /\ session /\ open = {} /\ offered < MaxLive
  /\ offered' = offered + 1
  /\ UNCHANGED <<sealed, open, orphans, nextSeq, ready, now,
                 session, minted, owed>>

(* append: the frame is written, and a segment that reached its cap is      *)
(* sealed and the bounds re-applied.  No segment is opened in its place.    *)
(* Behind a torn frame it is written all the same and can not be read back. *)
AppendLive ==
  /\ ready /\ session /\ offered < MaxLive
  /\ offered' = offered + 1
  /\ \E o \in open :
       LET grown == [o EXCEPT !.audio = Append(@, LiveFrame(offered))]
           due == owed \cup ({LiveFrame(offered)} \cap Recovered(grown.audio)) IN
       IF Len(grown.audio) < MaxSegmentBytes
         THEN /\ open' = {grown} /\ owed' = due
              /\ UNCHANGED <<sealed, orphans>>
         ELSE /\ open' = {}
              /\ \/ SealAndEvict(sealed \cup {grown}, due) /\ UNCHANGED orphans
                 \/ /\ Faults /\ orphans' = orphans \cup {grown}
                    /\ owed' = due /\ UNCHANGED sealed
  /\ UNCHANGED <<nextSeq, ready, now, session, minted>>

(* append: the write failed, whole or inside the frame.  The segment stays  *)
(* open and the next frame is written behind what the failed write left.    *)
AppendFails ==
  /\ Faults
  /\ ready /\ session /\ offered < MaxLive
  /\ offered' = offered + 1
  /\ \E o \in open :
       open' \in {{o}, {[o EXCEPT !.audio = Append(@, Torn)]}}
  /\ UNCHANGED <<sealed, orphans, nextSeq, ready, now,
                 session, minted, owed>>

(* seal: seal_open, then the bounds.                                        *)
Seal ==
  /\ ready
  /\ SealAndEvict(sealed \cup open, owed)
  /\ open' = {}
  /\ session' = FALSE
  /\ UNCHANGED <<orphans, nextSeq, ready, now, offered, minted>>

(* close: seal_open alone.                                                  *)
Close ==
  /\ ready
  /\ sealed' = sealed \cup open
  /\ open' = {}
  /\ session' = FALSE
  /\ UNCHANGED <<orphans, nextSeq, ready, now, offered, minted, owed>>

(* seal_open takes the handle before it syncs and renames, so when either   *)
(* fails the command stops there and the file keeps its .open name.         *)
SealFails ==
  /\ Faults
  /\ ready /\ open # {}
  /\ orphans' = orphans \cup open
  /\ open' = {}
  /\ session' \in {session, FALSE}
  /\ UNCHANGED <<sealed, nextSeq, ready, now, offered, minted, owed>>

-----------------------------------------------------------------------------
(* Ring ranges                                                              *)

(* import_opus_range finds a pending segment under the range's own id.      *)
Copies(s) == {f \in Listed(sealed) : f.id = RingId(s)}

(* The frames of a range that reach its segment: append seals the segment   *)
(* once it is full and every later append finds none open.                  *)
Written(s) == Min({RangeLength[s], MaxSegmentBytes})

(* Begun segment of range s holding its first k frames.                     *)
RingSegment(s, k) ==
  [Begun(RingId(s), RangeStart[s]) EXCEPT !.audio = RangeAudio(s, k)]

(* A range with no pending copy: the live segment is sealed, the range is   *)
(* written under its own sequence and id, sealed, and the bounds applied.   *)
(* Nothing is open afterwards.                                              *)
Slip_ImportKeepsHandle(s) ==
  /\ ready /\ Copies(s) = {} /\ nextSeq < MaxSequence
  /\ SealAndEvict(sealed \cup open \cup {RingSegment(s, Written(s))}, owed)
  /\ nextSeq' = nextSeq + 1
  /\ UNCHANGED <<open, orphans, ready, now, session, offered, minted>>

ImportRange(s) ==
  /\ ready /\ Copies(s) = {} /\ nextSeq < MaxSequence
  /\ SealAndEvict(sealed \cup open \cup {RingSegment(s, Written(s))}, owed)
  /\ open' = {}
  /\ nextSeq' = nextSeq + 1
  /\ UNCHANGED <<orphans, ready, now, session, offered, minted>>

(* An append of the import fails after k frames: the error is returned with *)
(* the range's segment still open, so live frames now land behind them.  If *)
(* it is the seal that fails, the range is whole and keeps its .open name.  *)
ImportFails(s, k) ==
  /\ Faults
  /\ ready /\ Copies(s) = {} /\ nextSeq < MaxSequence
  /\ sealed' = sealed \cup open
  /\ \/ /\ k < Written(s)
        /\ open' \in {{RingSegment(s, k)},
                      {[RingSegment(s, k) EXCEPT !.audio = Append(@, Torn)]}}
        /\ UNCHANGED orphans
     \/ /\ k = Written(s)
        /\ open' = {} /\ orphans' = orphans \cup {RingSegment(s, k)}
  /\ nextSeq' = nextSeq + 1
  /\ UNCHANGED <<ready, now, session, offered, minted, owed>>

-----------------------------------------------------------------------------
(* The rest of the system                                                   *)

(* The process is killed between two commands, or inside an append, where   *)
(* the torn frame at the end of the file is dropped by unframe.             *)
Crash ==
  /\ ready
  /\ orphans' = orphans \cup open
  /\ open' = {}
  /\ ready' = FALSE /\ session' = FALSE
  /\ UNCHANGED <<sealed, nextSeq, now, offered, minted, owed>>

(* The process is killed while a command is writing the file it began.      *)
CrashWriting(partial) ==
  /\ ready /\ nextSeq < MaxSequence
  /\ sealed' = sealed \cup open
  /\ orphans' = orphans \cup {partial}
  /\ open' = {}
  /\ ready' = FALSE /\ session' = FALSE
  /\ UNCHANGED <<nextSeq, now, offered, minted, owed>>

CrashInBegin == CrashWriting(Headless)

CrashInImport(s, k) ==
  /\ Copies(s) = {} /\ k <= Written(s)
  /\ CrashWriting(RingSegment(s, k))

(* remove: a confirmed or refused upload takes its file.                    *)
RemoveSegment(f) ==
  /\ ready
  /\ sealed' = sealed \ {f}
  /\ owed' = owed \ FramesOf({f})
  /\ UNCHANGED <<open, orphans, nextSeq, ready, now,
                 session, offered, minted>>

Tick ==
  /\ now < MaxNow
  /\ now' = now + 1
  /\ UNCHANGED <<sealed, open, orphans, nextSeq, ready,
                 session, offered, minted, owed>>

LiveCommands == BeginSegment \/ AppendUnheld \/ AppendLive \/ Seal

Failures ==
  \/ OpenFails \/ AppendFails \/ SealFails
  \/ BeginFails
  \/ \E s \in Sources, k \in 0..MaxSegmentBytes : ImportFails(s, k)

Deaths ==
  \/ Crash \/ CrashInBegin
  \/ \E s \in Sources, k \in 0..MaxSegmentBytes : CrashInImport(s, k)

Next ==
  \/ Open \/ Close
  \/ LiveCommands
  \/ \E s \in Sources : ImportRange(s)
  \/ \E f \in Listed(sealed) : RemoveSegment(f)
  \/ Failures \/ Deaths
  \/ Tick

Spec == Init /\ [][Next]_vars

-----------------------------------------------------------------------------
(* Properties                                                               *)

TypeOK ==
  /\ sealed \subseteq Segment /\ open \subseteq Segment /\ orphans \subseteq Segment
  /\ \A o, p \in open : o = p
  /\ nextSeq \in Nat /\ now \in Nat /\ offered \in Nat /\ minted \in Nat
  /\ ready \in BOOLEAN /\ session \in BOOLEAN
  /\ owed \subseteq Frame

(* The file names order the audio whatever commands, failures and deaths    *)
(* came before: no two files of the directory share a sequence, the segment *)
(* being appended to is the newest file, and the next sequence is above     *)
(* every file a begun segment could collide with or be ordered behind, but  *)
(* for the file a dying command was writing under it.                       *)
SequenceOrder ==
  /\ \A f, g \in Files : f.seq = g.seq => f = g
  /\ \A o \in open, f \in sealed \cup orphans : f.seq < o.seq
  /\ ready => \A f \in Files : f.seq < nextSeq
  /\ \A f \in Files : f.seq <= nextSeq
  /\ ~ready => open = {}

(* What is pending is finished: no step changes the audio behind the name   *)
(* of a sealed file, so an upload never reads a segment that still grows    *)
(* (the reason pending excludes the open segment).                          *)
SealedNeverChanges ==
  [][\A f \in sealed, g \in Files' : g.seq = f.seq /\ g.id = f.id => g = f]_vars

(* A frame that could be read back when its append returned survives the    *)
(* death of the process, the seal that follows, the next opening, and every *)
(* file operation that fails later: until its file is evicted or removed it *)
(* can be read back from the directory ("a killed process must lose at most *)
(* the frame that was in flight").                                          *)
WrittenFramesSurvive == owed \subseteq FramesOf(Files)

(* Space is made at the expense of the oldest audio: whatever a command     *)
(* other than the uploader's remove takes out of the log while it is young  *)
(* enough is older than everything the log keeps.  And enough is made: every*)
(* seal a client asks for, every full segment and every opening leave the   *)
(* readable sealed files within max_bytes and none of them too old.         *)
EvictionIsOrderly ==
  [][/\ (~\E f \in sealed : RemoveSegment(f)) =>
          \A f \in Fresh(sealed) \ sealed', g \in Listed(sealed') : f.seq < g.seq
     /\ (Open \/ Seal \/ (AppendLive /\ open' = {} /\ UNCHANGED orphans)) =>
          /\ Bytes(Listed(sealed')) <= MaxBytes
          /\ \A f \in Listed(sealed') : f.start + MaxAge >= now]_vars

=============================================================================

-------------------------------- MODULE Wal --------------------------------
(* pkg/wal/wal.go: the gateway's write-ahead log.

   A segment is an array of cells seen twice: in the page cache, which the
   mmap writes and which a process crash leaves alone, and on the disk, which
   the kernel updates cell by cell in any order and an fsync updates as a
   whole. An entry is one header cell (magic, length, crc, timestamp) followed
   by one cell per unit of payload; the crc matches exactly when the payload
   cells that follow are those of the entry the header was written for.
   Entries are numbered in the order in which they are written. *)
EXTENDS Integers, Sequences, FiniteSetsExt, Functions

CONSTANTS
    Callers,          \* goroutines that call Write (the engine's workers)
    MaxSegmentBytes,  \* cells of a segment
    Lens,             \* payload lengths, in cells, that callers pass
    MaxEntries,       \* bound: Writes that reach the critical section
    MaxSegments,      \* bound: segment files
    MaxCrashes,       \* bound: process and host crashes together
    MaxFaults         \* bound: failed fsyncs and failed segment opens together

ASSUME WalAssumption ==
    /\ IsFiniteSet(Callers)
    /\ MaxSegmentBytes \in Nat \ {0}
    /\ Lens \subseteq Nat
    /\ MaxSegments \in Nat \ {0}
    /\ {MaxEntries, MaxCrashes, MaxFaults} \subseteq Nat

VARIABLES
    up,           \* the process is running with an open WAL
    segs,         \* the directory: segment id -> file
    file,         \* activeFile and mmapData: open (and mapped), nil, or closed
    segmentID, writeOffset, dirty, closed,
    commitLoop,   \* groupCommitLoop: run or done
    pending,      \* writer -> payload length it waits for w.mu with
    closeState,   \* Close: idle, waiting (after the CAS), or how it returned
    log,          \* history: the entries appended, or recovered by NewWAL
    active,       \* history: entries of log in the active segment
    own,          \* history: entries this process appended
    durable,      \* history: entries that were in a file when it was fsynced
    places,       \* history: segment and offset of every entry ever started
    crashes, faults

procVars == <<file, segmentID, writeOffset, dirty, closed, commitLoop, pending, closeState>>
histVars == <<log, active, own, durable, places>>
walVars == <<up, segs, procVars, histVars, crashes, faults>>

Offsets == 0..(MaxSegmentBytes - 1)
SegIds == 1..MaxSegments
Idle == -1

Zero == <<"zero", 0, 0>>
Header(e, n) == <<"header", e, n>>
Payload(e, k) == <<"payload", e, k>>

Empty == [o \in Offsets |-> Zero]
\* A file is absent, created (its directory entry not yet on disk) or linked.
Absent == [state |-> "absent", cache |-> Empty, disk |-> Empty]

-----------------------------------------------------------------------------
(* Recovery and iteration. *)

\* The checks scanValidOffset and walkSegment make of the header at off.
ValidAt(cells, off) ==
    LET h == cells[off] IN
    /\ off + 1 <= MaxSegmentBytes
    /\ h[1] = "header"
    /\ h[3] # 0
    /\ off + 1 + h[3] <= MaxSegmentBytes
    /\ \A k \in 1..h[3] : cells[off + k] = Payload(h[2], k)

\* The entries walkSegment passes to its callback.
walkSegment(cells) ==
    LET from[off \in 0..MaxSegmentBytes] ==
            IF ValidAt(cells, off)
            THEN <<cells[off][2]>> \o from[off + 1 + cells[off][3]]
            ELSE <<>>
    IN from[0]

\* A scan that also counts the header it stopped at.
scanPastInvalid(cells) ==
    LET from[off \in 0..MaxSegmentBytes] ==
            IF ValidAt(cells, off)
            THEN from[off + 1 + cells[off][3]]
            ELSE IF off < MaxSegmentBytes THEN off + 1 ELSE off
    IN from[0]

\* The offset after the last valid entry.
scanValidOffset(cells) ==
    LET from[off \in 0..MaxSegmentBytes] ==
            IF ValidAt(cells, off)
            THEN from[off + 1 + cells[off][3]]
            ELSE off
    IN from[0]

discoverSegments(dir) == {i \in SegIds : dir[i].state # "absent"}

\* The entries of all segments, oldest segment first.
Walk(dir) ==
    LET upTo[i \in 0..MaxSegments] ==
            IF i = 0 THEN <<>>
            ELSE IF i \in discoverSegments(dir)
                 THEN upTo[i - 1] \o walkSegment(dir[i].cache)
                 ELSE upTo[i - 1]
    IN upTo[MaxSegments]

-----------------------------------------------------------------------------
(* Pieces of the handlers. *)

\* The fsync of a segment makes its directory entry durable too, as on the file
\* systems Linux has; no code here fsyncs the directory.
Fsynced(seg) == [seg EXCEPT !.disk = seg.cache, !.state = "linked"]

\* syncLocked, when the fsync it may issue succeeds: the directory, the dirty
\* flag and the durable entries it leaves.
syncLocked == dirty /\ file # "nil"
SyncedSegs == IF syncLocked THEN [segs EXCEPT ![segmentID] = Fsynced(@)] ELSE segs
SyncedDirty == IF file # "nil" THEN FALSE ELSE dirty
SyncedDurable == IF syncLocked THEN durable \cup active ELSE durable

Fits(n) == writeOffset + 1 + n <= MaxSegmentBytes

\* The first k cells of entry e, of payload length n, stored at off.
Stored(cells, off, e, n, k) ==
    [o \in Offsets |->
        IF o = off /\ k > 0 THEN Header(e, n)
        ELSE IF o > off /\ o < off + k /\ o <= off + n THEN Payload(e, o - off)
        ELSE cells[o]]

\* The next entry is stored at offset off of segment id.
ever == Len(places)
Starts(id, off) == places' = Append(places, <<id, off>>)

WriteReturns(w) == pending' = [pending EXCEPT ![w] = Idle]

-----------------------------------------------------------------------------
WalInit ==
    /\ up = FALSE
    /\ segs = [i \in SegIds |-> Absent]
    /\ file = "nil" /\ segmentID = 0 /\ writeOffset = 0 /\ dirty = FALSE
    /\ closed = FALSE /\ commitLoop = "done"
    /\ pending = [w \in Callers |-> Idle]
    /\ closeState = "idle"
    /\ log = <<>> /\ active = {} /\ own = {} /\ durable = {} /\ places = <<>>
    /\ crashes = 0 /\ faults = 0

\* An openSegment with O_TRUNC.
OpenedTruncating(seg) == [seg EXCEPT !.state = "created", !.cache = Empty]

\* openSegment on the file the directory may already hold: Truncate extends it
\* with zeros to MaxSegmentBytes and leaves the data it has alone.
Opened(seg) == IF seg.state = "absent" THEN [Absent EXCEPT !.state = "created"] ELSE seg

\* NewWALWithOptions: resume the highest segment at its end of valid data, or
\* start the first one. (rotate on a fresh WAL opens segment 1.)
NewWAL ==
    /\ ~up
    /\ LET ids == discoverSegments(segs)
           id == IF ids = {} THEN 1 ELSE Max(ids)
       IN /\ segmentID' = id
          /\ segs' = [segs EXCEPT ![id] = Opened(@)]
          /\ writeOffset' = scanValidOffset(segs[id].cache)
          /\ log' = Walk(segs)
          /\ active' = Range(walkSegment(segs[id].cache))
    /\ up' = TRUE /\ file' = "open" /\ dirty' = FALSE /\ closed' = FALSE
    /\ commitLoop' = "run"
    /\ pending' = [w \in Callers |-> Idle]
    /\ closeState' = "idle"
    /\ own' = {}
    /\ UNCHANGED <<durable, places, crashes, faults>>

(* Write: the closed and size checks come before the lock is taken. *)
WriteBegin(w, n) ==
    /\ up /\ pending[w] = Idle
    /\ ~closed
    /\ 1 + n <= MaxSegmentBytes
    /\ ever + Cardinality({v \in Callers : pending[v] # Idle}) < MaxEntries
    /\ pending' = [pending EXCEPT ![w] = n]
    /\ UNCHANGED <<up, segs, file, segmentID, writeOffset, dirty, closed, commitLoop,
                   closeState, histVars, crashes, faults>>

\* The entry fits in the mapped segment.
WriteAppend(w) ==
    LET n == pending[w] IN
    /\ up /\ n # Idle /\ file = "open" /\ Fits(n)
    /\ segs' = [segs EXCEPT ![segmentID].cache = Stored(@, writeOffset, ever + 1, n, 1 + n)]
    /\ writeOffset' = writeOffset + 1 + n
    /\ dirty' = TRUE
    /\ Starts(segmentID, writeOffset)
    /\ log' = Append(log, ever + 1) /\ own' = own \cup {ever + 1}
    /\ active' = active \cup {ever + 1}
    /\ WriteReturns(w)
    /\ UNCHANGED <<up, file, segmentID, closed, commitLoop, closeState, durable, crashes,
                   faults>>

\* It does not fit: rotate (sync, unmap, close, open id+1), then append.
WriteRotate(w) ==
    LET n == pending[w]
        seg == Opened(SyncedSegs[segmentID + 1])
    IN
    /\ up /\ n # Idle /\ file \in {"open", "nil"} /\ ~Fits(n)
    /\ segmentID + 1 \in SegIds
    /\ segs' = [SyncedSegs EXCEPT ![segmentID + 1] =
                   [seg EXCEPT !.cache = Stored(seg.cache, 0, ever + 1, n, 1 + n)]]
    /\ segmentID' = segmentID + 1
    /\ file' = "open"
    /\ writeOffset' = 1 + n
    /\ dirty' = TRUE
    /\ durable' = SyncedDurable
    /\ Starts(segmentID + 1, 0)
    /\ log' = Append(log, ever + 1) /\ own' = own \cup {ever + 1}
    /\ active' = {ever + 1}
    /\ WriteReturns(w)
    /\ UNCHANGED <<up, closed, commitLoop, closeState, crashes, faults>>

\* rotate returns an error before it changes anything: the fsync failed, or the
\* file was closed by Close while this Write waited for the lock.  (That munmap
\* or the close of an fsynced file fails is not a case.)
WriteRotateFails(w) ==
    /\ up /\ pending[w] # Idle /\ ~Fits(pending[w])
    /\ \/ syncLocked /\ file = "open" /\ faults < MaxFaults /\ faults' = faults + 1
       \/ file = "closed" /\ UNCHANGED faults
    /\ WriteReturns(w)
    /\ UNCHANGED <<up, segs, file, segmentID, writeOffset, dirty, closed, commitLoop,
                   closeState, histVars, crashes>>

\* rotate syncs and drops the old segment, then openSegment fails: there is no
\* mapping, segmentID has advanced and writeOffset is still the old one's.
WriteOpenFails(w) ==
    /\ up /\ pending[w] # Idle /\ ~Fits(pending[w])
    /\ file \in {"open", "nil"} /\ faults < MaxFaults
    /\ segmentID + 1 \in SegIds
    /\ \E made \in BOOLEAN :
          segs' = [SyncedSegs EXCEPT ![segmentID + 1] = IF made THEN Opened(@) ELSE @]
    /\ segmentID' = segmentID + 1
    /\ file' = "nil"
    /\ dirty' = SyncedDirty
    /\ durable' = SyncedDurable
    /\ active' = {}
    /\ faults' = faults + 1
    /\ WriteReturns(w)
    /\ UNCHANGED <<up, writeOffset, closed, commitLoop, closeState, log, own, places, crashes>>

\* The entry fits at the stale offset but there is no mapping: indexing the
\* nil slice panics and takes the process down.
WritePanics(w) ==
    /\ up /\ pending[w] # Idle /\ Fits(pending[w]) /\ file # "open"
    /\ crashes < MaxCrashes
    /\ up' = FALSE /\ crashes' = crashes + 1
    /\ UNCHANGED <<segs, procVars, histVars, faults>>

\* The process dies while the entry is being copied: k of its cells are in.
WriteTorn(w) ==
    LET n == pending[w] IN
    /\ up /\ n # Idle /\ file = "open" /\ Fits(n) /\ crashes < MaxCrashes
    /\ \E k \in 1..(1 + n) :
          segs' = [segs EXCEPT ![segmentID].cache = Stored(@, writeOffset, ever + 1, n, k)]
    /\ Starts(segmentID, writeOffset)
    /\ up' = FALSE /\ crashes' = crashes + 1
    /\ UNCHANGED <<procVars, log, active, own, durable, faults>>

\* A syncLocked that clears dirty before it knows that the fsync succeeded.
SyncLockedClearsFirst ==
    /\ syncLocked /\ file = "open"
    /\ dirty' = FALSE
    /\ \/ segs' = SyncedSegs /\ durable' = SyncedDurable /\ UNCHANGED faults
       \/ faults < MaxFaults /\ faults' = faults + 1 /\ UNCHANGED <<segs, durable>>
    /\ UNCHANGED <<up, file, segmentID, writeOffset, closed, commitLoop, pending, closeState,
                   log, active, own, places, crashes>>

(* Sync, and the group-commit loop's tick: both are syncLocked under w.mu. *)
SyncLocked ==
    /\ syncLocked /\ file = "open"
    /\ \/ segs' = SyncedSegs /\ dirty' = FALSE /\ durable' = SyncedDurable /\ UNCHANGED faults
       \/ faults < MaxFaults /\ faults' = faults + 1 /\ UNCHANGED <<segs, dirty, durable>>
    /\ UNCHANGED <<up, file, segmentID, writeOffset, closed, commitLoop, pending, closeState,
                   log, active, own, places, crashes>>

Sync == up /\ SyncLocked

GroupCommitTick == up /\ commitLoop = "run" /\ SyncLocked

GroupCommitStop == /\ up /\ commitLoop = "run" /\ closed
                   /\ commitLoop' = "done"
                   /\ UNCHANGED <<up, segs, file, segmentID, writeOffset, dirty, closed,
                                  pending, closeState, histVars, crashes, faults>>

(* Close: the CAS and close(stopCh), then the wait for the loop, then the rest
   under the lock. *)
WalCloseBegin ==
    /\ up /\ ~closed
    /\ closed' = TRUE /\ closeState' = "waiting"
    /\ UNCHANGED <<up, segs, file, segmentID, writeOffset, dirty, commitLoop, pending,
                   histVars, crashes, faults>>

\* A Close that unmaps and closes without the final fsync.
CloseLockedUnsynced ==
    /\ up /\ closeState = "waiting" /\ commitLoop = "done"
    /\ file' = IF file = "open" THEN "closed" ELSE file
    /\ closeState' = "ok"
    /\ UNCHANGED <<up, segs, dirty, segmentID, writeOffset, closed, commitLoop, pending,
                   histVars, crashes, faults>>

CloseLocked ==
    /\ up /\ closeState = "waiting" /\ commitLoop = "done"
    /\ \/ /\ segs' = SyncedSegs /\ dirty' = SyncedDirty /\ durable' = SyncedDurable
          /\ file' = IF file = "open" THEN "closed" ELSE file
          /\ closeState' = "ok" /\ UNCHANGED faults
       \/ /\ syncLocked /\ faults < MaxFaults /\ faults' = faults + 1
          /\ closeState' = "failed" /\ UNCHANGED <<segs, dirty, durable, file>>
    /\ UNCHANGED <<up, segmentID, writeOffset, closed, commitLoop, pending, log, active, own,
                   places, crashes>>

-----------------------------------------------------------------------------
(* The environment: the kernel writes one dirty cell of a file back; the
   process exits or is killed; the host loses its page cache, and with it any
   file whose directory entry was never made durable. *)
Writeback ==
    /\ \E i \in SegIds, o \in Offsets :
          /\ segs[i].state # "absent"
          /\ segs[i].disk[o] # segs[i].cache[o]
          /\ segs' = [segs EXCEPT ![i].disk[o] = segs[i].cache[o]]
    /\ UNCHANGED <<up, procVars, histVars, crashes, faults>>

ProcessCrash ==
    /\ up /\ crashes < MaxCrashes
    /\ up' = FALSE /\ crashes' = crashes + 1
    /\ UNCHANGED <<segs, procVars, histVars, faults>>

HostCrash ==
    /\ crashes < MaxCrashes
    /\ \E lost \in SUBSET {i \in SegIds : segs[i].state = "created"} :
          segs' = [i \in SegIds |-> IF i \in lost THEN Absent
                                    ELSE [segs[i] EXCEPT !.cache = segs[i].disk]]
    /\ up' = FALSE /\ crashes' = crashes + 1
    /\ UNCHANGED <<procVars, histVars, faults>>

-----------------------------------------------------------------------------
WalNext ==
    \/ NewWAL
    \/ \E w \in Callers :
          \/ \E n \in Lens : WriteBegin(w, n)
          \/ WriteAppend(w) \/ WriteRotate(w) \/ WriteRotateFails(w)
          \/ WriteOpenFails(w) \/ WritePanics(w) \/ WriteTorn(w)
    \/ Sync \/ GroupCommitTick \/ GroupCommitStop
    \/ WalCloseBegin \/ CloseLocked
    \/ Writeback \/ ProcessCrash \/ HostCrash

WalSpec == WalInit /\ [][WalNext]_walVars

\* The runtime schedules the ticker goroutine and the goroutine that called
\* Close; nothing forces callers to write, sync or close.
WalFairness ==
    WF_walVars(GroupCommitTick) /\ WF_walVars(GroupCommitStop) /\ WF_walVars(CloseLocked)

-----------------------------------------------------------------------------
(* Properties *)

\* While the process runs, Walk returns every entry that was recovered or
\* appended, once each and in the order of the log (wal.go: "Walk iterates
\* every persisted entry across every segment, oldest first"), whatever
\* rotations, failed opens, torn writes and crashes came before. Bytes that an
\* earlier crash left behind may add entries in between, never hide one.
WalkReturnsLog ==
    up => LET walked == Walk(segs)
          IN  /\ IsInjective(walked) /\ Range(log) \subseteq Range(walked)
              /\ \A i, j \in DOMAIN log, k, l \in DOMAIN walked :
                    i < j /\ walked[k] = log[i] /\ walked[l] = log[j] => k < l

\* Through any sequence of crashes and recoveries the log behaves as
\* DurableLog: an entry that was fsynced is never lost, duplicated or moved.
Abs == INSTANCE DurableLog WITH Entries <- 1..MaxEntries, ever <- 1..ever
ImplementsDurableLog == Abs!AbsSpec

\* When Close returns nil, every entry this process has appended is on disk,
\* those included that were appended while Close waited for the group-commit
\* loop. (A Write that was already waiting for the lock after a failed rotation
\* can still open a new segment later: no one syncs that one.)
CloseMakesOwnDurable ==
    [][closeState # "ok" /\ closeState' = "ok" => own \subseteq durable']_walVars

\* The durability window is bounded: an entry that Write accepted reaches the
\* disk unless the process goes down or is closed first.
EventuallyDurable == \A e \in 1..MaxEntries :
    []<>(up /\ e \in own => e \in durable \/ closed)

\* "Close fsyncs, unmaps, and closes the active segment": when it returns nil
\* everything Walk returns from the active segment is on disk.
CloseFsyncsSegment ==
    up /\ closeState = "ok" => active \subseteq durable

\* "Walk iterates every persisted entry": an entry with a payload that was
\* fsynced, and whose header is still on disk, is returned by Walk.
PersistedEntriesReturned ==
    up => \A i \in SegIds, o \in Offsets :
             LET h == segs[i].disk[o]
             IN h[1] = "header" /\ h[3] > 0 /\ h[2] \in durable
                    => h[2] \in Range(Walk(segs))

-----------------------------------------------------------------------------
(* The inductive invariant behind them; WalProofs uses it. It holds when callers
   write no empty payloads. *)

\* Where the entry at offset o ends, and the offsets that a scan comes by: the
\* smallest set with 0 in it and the end of every valid entry in it.
After(cells, o) == o + 1 + cells[o][3]
Reached(cells, o) ==
    \A S \in SUBSET (0..MaxSegmentBytes) :
        0 \in S /\ (\A x \in S : ValidAt(cells, x) => After(cells, x) \in S) => o \in S

\* A scan comes by entry e, at o, and accepts it.
Intact(cells, o, e) == Reached(cells, o) /\ ValidAt(cells, o) /\ cells[o][2] = e

Before(p, q) == p[1] < q[1] \/ (p[1] = q[1] /\ p[2] < q[2])

Cells == [Offsets -> {"zero", "header", "payload"} \X Nat \X Nat]
Segments == [state : {"absent", "created", "linked"}, cache : Cells, disk : Cells]

WalTypes ==
    /\ up \in BOOLEAN /\ dirty \in BOOLEAN /\ file \in {"open", "nil", "closed"}
    /\ segs \in [SegIds -> Segments]
    /\ segmentID \in Nat /\ (up => segmentID \in SegIds)
    /\ writeOffset \in 0..MaxSegmentBytes
    /\ pending \in [Callers -> {n \in Lens : n < MaxSegmentBytes} \cup {Idle}]
    /\ places \in Seq(SegIds \X Offsets) /\ log \in Seq(1..ever)
    /\ own \subseteq 1..ever

\* The bound on entries counts the Writes that wait for the lock.
EntryBound ==
    ever + (IF up THEN Cardinality({w \in Callers : pending[w] # Idle}) ELSE 0) <= MaxEntries

\* Files that are gone are empty, and none is newer than the active one.
FilesInOrder ==
    /\ \A i \in SegIds : segs[i].state = "absent" => segs[i] = Absent
    /\ up => \A i \in SegIds : i > segmentID => segs[i].state = "absent"

\* A header belongs to the entry that was written where it is, in memory as
\* well as on disk.
HeadersInPlace ==
    \A i \in SegIds, o \in Offsets : \A c \in {segs[i].cache, segs[i].disk} :
        c[o][1] = "header" => c[o][2] \in 1..ever /\ places[c[o][2]] = <<i, o>>

LogInOrder == \A i, j \in DOMAIN log : i < j => Before(places[log[i]], places[log[j]])

\* While the process runs, a scan of the active segment comes by writeOffset,
\* and scans accept every entry of the log in front of it.
LogIntact ==
    up => /\ file # "nil" => /\ segs[segmentID].state # "absent"
                             /\ Reached(segs[segmentID].cache, writeOffset)
          /\ active \subseteq Range(log)
          /\ \A e \in Range(log) :
                LET i == places[e][1]  o == places[e][2]
                IN  /\ i <= segmentID /\ Intact(segs[i].cache, o, e)
                    /\ e \in active <=> i = segmentID
                    /\ i = segmentID => After(segs[i].cache, o) <= writeOffset

\* A durable entry is in the log, and everything up to its end is the same on
\* disk and in memory, also after a crash.
DurableIntact ==
    durable \subseteq Range(log) /\
    \A e \in durable :
        LET i == places[e][1]  o == places[e][2]
        IN  /\ segs[i].state = "linked" /\ Intact(segs[i].disk, o, e)
            /\ \A x \in Offsets : x < After(segs[i].disk, o)
                                    => segs[i].cache[x] = segs[i].disk[x]

\* What this process wrote is durable or the next fsync makes it so.
OwnCovered == up => own \subseteq durable \cup (IF syncLocked THEN active ELSE {})

WalInv == /\ WalTypes /\ EntryBound /\ FilesInOrder /\ HeadersInPlace
          /\ LogInOrder /\ LogIntact /\ DurableIntact /\ OwnCovered
=============================================================================

------------------------------ MODULE WalArchive ------------------------------
(***************************************************************************)
(* Moving the committed WAL of one timeline to immutable objects and       *)
(* reclaiming it: the archive tasks that any cache node may run            *)
(* (spawn_archive, flush_timeline_tail), the leader's archive_checkpoint   *)
(* handler, which commits the checkpoint, deletes the covered payloads and *)
(* only then commits ReleaseWal, and a reader that composes archived and   *)
(* retained bytes (bins/cache-node/src/safekeeper.rs,                      *)
(* crates/verglas-safekeeper/src/segment_archiver.rs,                      *)
(* crates/verglas-consensus/src/group.rs and raft_store.rs).               *)
(*                                                                         *)
(* The group's state machine is what TimelineGroup models in detail; here  *)
(* it is the WAL tail, the archive watermark, the retained headers and the *)
(* committed segments.  A payload is present or deleted (PayloadAllocation *)
(* models its copies).  Bodies are external: an inline body needs no fence *)
(* and is never deleted.  LSNs count units, a segment has SegmentSize.     *)
(***************************************************************************)
EXTENDS Naturals, FiniteSets

CONSTANTS
    Nodes,          \* cache nodes: each may lead and may run one archive task
    SegmentSize,    \* WAL_SEGMENT_BYTES
    MaxLsn,         \* bound: the last LSN appended
    MaxChunk,       \* bound: the length of one append
    MaxFaults,      \* bound: node crashes and failed calls
    Flushers,       \* the nodes that an operator drains
    Reads           \* the ranges readers ask for

ASSUME ArchiveAssumption ==
    /\ {SegmentSize, MaxLsn, MaxChunk, MaxFaults} \subseteq Nat
    /\ 0 < SegmentSize /\ 0 < MaxChunk
    /\ Flushers \subseteq Nodes
    /\ Reads \subseteq Nat \X Nat

Lsn   == 0 .. MaxLsn
Range == {r \in [start : Lsn, end : Lsn] : r.start < r.end}
Units(r) == r.start .. r.end - 1

Steps == {"idle", "resolve", "status", "read", "upload", "verify",
          "commit", "release", "prune", "confirm"}

VARIABLES
    wal_end,        \* the committed WAL tail
    archive_lsn,    \* the committed archive watermark
    retained,       \* WAL headers the state machine still has
    payload,        \* those whose body the voters still hold
    segments,       \* committed archive segments
    requests,       \* their retry identities: <<tail flush?, range>>
    objects,        \* immutable objects in the bucket
    leader,         \* the current leader
    task,           \* node -> its archive task
    flushed,        \* what flush_timeline_tail has reported durable
    reader,         \* one composed read
    faults          \* faults so far

group == <<wal_end, archive_lsn, retained, payload, segments, requests>>
vars  == <<group, objects, leader, task, flushed, reader, faults>>

NoRange == [start |-> 0, end |-> 0]
NoTask  == [at |-> "idle", tail |-> FALSE, range |-> NoRange]
NoRead  == [at |-> "idle", want |-> NoRange, mark |-> 0, prefix |-> {}, segs |-> {}, tail |-> {}]

TypeOK ==
    /\ wal_end \in Lsn /\ archive_lsn \in Lsn
    /\ retained \subseteq Range /\ payload \subseteq Range
    /\ segments \subseteq Range /\ objects \subseteq Range
    /\ requests \subseteq BOOLEAN \X Range
    /\ leader \in Nodes
    /\ task \in [Nodes -> [at : Steps, tail : BOOLEAN, range : Range \cup {NoRange}]]
    /\ flushed \in Lsn
    /\ reader \in [at : {"idle", "segments", "tail", "resolve", "objects", "done"},
                   want : Range \cup {NoRange}, mark : Lsn, prefix : SUBSET Lsn,
                   segs : SUBSET Range, tail : SUBSET Lsn]
    /\ faults \in 0 .. MaxFaults

Init ==
    /\ wal_end = 0 /\ archive_lsn = 0
    /\ retained = {} /\ payload = {} /\ segments = {} /\ requests = {} /\ objects = {}
    /\ leader \in Nodes
    /\ task = [n \in Nodes |-> NoTask]
    /\ flushed = 0
    /\ reader = NoRead
    /\ faults = 0

\* verify_committed_prefix, the second half of read_fence: every retained
\* header must be reconstructible.
Fenced == retained \subseteq payload

\* read_wal_after_fence: the retained headers must cover r, and those that
\* overlap it must be reconstructible.
Overlapping(r) == {h \in retained : h.end > r.start /\ h.start < r.end}
Readable(r) ==
    /\ Units(r) \subseteq UNION {Units(h) : h \in Overlapping(r)}
    /\ Overlapping(r) \subseteq payload

\* Mutant: the tail counts one unit more than the bytes.
AppendLong(length) ==
    LET chunk == [start |-> wal_end, end |-> wal_end + length + 1]
    IN  /\ wal_end + length <= MaxLsn
        /\ wal_end' = chunk.end
        /\ retained' = retained \cup {chunk}
        /\ payload' = payload \cup {chunk}
        /\ UNCHANGED <<archive_lsn, segments, requests, objects, leader, task, flushed, reader, faults>>

\* append_wal: the state machine takes a chunk that starts at the tail.
Append(length) ==
    LET chunk == [start |-> wal_end, end |-> wal_end + length]
    IN  /\ wal_end + length <= MaxLsn
        /\ wal_end' = chunk.end
        /\ retained' = retained \cup {chunk}
        /\ payload' = payload \cup {chunk}
        /\ UNCHANGED <<archive_lsn, segments, requests, objects, leader, task, flushed, reader, faults>>

-----------------------------------------------------------------------------
(* Archive tasks. *)

Goto(n, step) == task' = [task EXCEPT ![n].at = step]
Ends(n)       == task' = [task EXCEPT ![n] = NoTask]

\* A failed step: the background loop backs off and reads the boundary again,
\* a flush reports the error.
Retry(n) == IF task[n].tail THEN Ends(n) ELSE Goto(n, "status")

\* spawn_archive, after an append or a status request: one task per node.
Spawn(n) ==
    /\ task[n].at = "idle"
    /\ task' = [task EXCEPT ![n] = [NoTask EXCEPT !.at = "resolve"]]
    /\ UNCHANGED <<group, objects, leader, flushed, reader, faults>>

\* drain_authoritative_groups asks for the final partial tail.
Flush(n) ==
    /\ task[n].at = "idle"
    /\ task' = [task EXCEPT ![n] = [NoTask EXCEPT !.at = "resolve", !.tail = TRUE]]
    /\ UNCHANGED <<group, objects, leader, flushed, reader, faults>>

\* resolve_wal_archive reads the bucket binding behind read_fence.
Resolve(n) ==
    /\ task[n].at = "resolve"
    /\ IF Fenced THEN Goto(n, "status") ELSE Ends(n)
    /\ UNCHANGED <<group, objects, leader, flushed, reader, faults>>

\* Mutant: a boundary is its own next boundary.
NextBoundaryRoundUp(lsn) == ((lsn + SegmentSize - 1) \div SegmentSize) * SegmentSize

\* The end of the segment that lsn is in.
NextBoundary(lsn) == (lsn \div SegmentSize + 1) * SegmentSize

\* The boundary status: the next complete segment, or the whole tail.
ReadStatus(n) ==
    LET end == IF task[n].tail THEN wal_end ELSE NextBoundary(archive_lsn)
    IN  /\ task[n].at = "status"
        /\ IF archive_lsn < end /\ end <= wal_end
           THEN task' = [task EXCEPT ![n].at = "read", ![n].range = [start |-> archive_lsn, end |-> end]]
           ELSE Ends(n)
        /\ flushed' = IF task[n].tail /\ archive_lsn = wal_end /\ wal_end > flushed
                      THEN wal_end ELSE flushed
        /\ UNCHANGED <<group, objects, leader, reader, faults>>

\* SegmentArchiver::archive: a range that is no longer retained comes back as a
\* read plan, which the archiver refuses.
ReadSegment(n) ==
    /\ task[n].at = "read"
    /\ IF Readable(task[n].range) THEN Goto(n, "upload") ELSE Retry(n)
    /\ UNCHANGED <<group, objects, leader, flushed, reader, faults>>

\* Mutant: the checkpoint does not wait for the upload.
UploadInBackground(n) ==
    /\ task[n].at = "upload"
    /\ Goto(n, "commit")
    /\ UNCHANGED <<group, objects, leader, flushed, reader, faults>>

\* A create-only put; an object that already exists is the same object.
Upload(n) ==
    /\ task[n].at = "upload"
    /\ objects' = objects \cup {task[n].range}
    /\ Goto(n, "verify")
    /\ UNCHANGED <<group, leader, flushed, reader, faults>>

Verify(n) ==
    /\ task[n].at = "verify"
    /\ IF task[n].range \in objects THEN Goto(n, "commit") ELSE Retry(n)
    /\ UNCHANGED <<group, objects, leader, flushed, reader, faults>>

-----------------------------------------------------------------------------
(* ConsensusGroup::archive_checkpoint, on the leader for task n. *)

\* Mutant: a checkpoint need not start at the watermark.
ContiguousAny(r) == r.end <= wal_end /\ r.end > archive_lsn

\* The state machine's rule for a segment.
Contiguous(r) == r.start = archive_lsn /\ r.end <= wal_end

\* A segment's request identity is its range, a flush's is its end.
SameRequest(t, q) == q[1] = t.tail /\ IF t.tail THEN q[2].end = t.range.end ELSE q[2] = t.range

\* commit_header: a Duplicate goes on as a first commit does.
CommitCheckpoint(n) ==
    LET known == {q \in requests : SameRequest(task[n], q)}
        r     == task[n].range
    IN  /\ task[n].at = "commit"
        /\ \/ /\ known = {} /\ Contiguous(r)
              /\ archive_lsn' = r.end
              /\ segments' = segments \cup {r}
              /\ requests' = requests \cup {<<task[n].tail, r>>}
              /\ Goto(n, "release")
           \/ /\ <<task[n].tail, r>> \in known
              /\ Goto(n, "release")
              /\ UNCHANGED <<archive_lsn, segments, requests>>
           \/ /\ <<task[n].tail, r>> \notin known
              /\ known # {} \/ ~Contiguous(r)
              /\ Retry(n)
              /\ UNCHANGED <<archive_lsn, segments, requests>>
        /\ UNCHANGED <<wal_end, retained, payload, objects, leader, flushed, reader, faults>>

\* Mutant: a chunk is deleted as soon as the watermark reaches into it.
CoveredByStart == {h \in retained : h.start < archive_lsn}

\* What the committed watermark covers.
Covered == {h \in retained : h.end <= archive_lsn}

\* release_checkpointed_wal_payloads deletes the bodies below the watermark.
ReleasePayloads(n) ==
    /\ task[n].at = "release"
    /\ payload' = payload \ Covered
    /\ Goto(n, "prune")
    /\ UNCHANGED <<wal_end, archive_lsn, retained, segments, requests, objects, leader, flushed, reader, faults>>

\* Mutant: the segment's own headers are kept.
ReleaseWalStrict(n) ==
    /\ task[n].at = "prune"
    /\ retained' = {h \in retained : h.end >= task[n].range.end}
    /\ payload' = payload \cap retained'
    /\ Goto(n, "confirm")
    /\ UNCHANGED <<wal_end, archive_lsn, segments, requests, objects, leader, flushed, reader, faults>>

\* The ReleaseWal command prunes the headers through the segment's end.
ReleaseWal(n) ==
    /\ task[n].at = "prune"
    /\ retained' = {h \in retained : h.end > task[n].range.end}
    /\ payload' = payload \cap retained'
    /\ Goto(n, "confirm")
    /\ UNCHANGED <<wal_end, archive_lsn, segments, requests, objects, leader, flushed, reader, faults>>

\* release_through: the archiver confirms the watermark; the loop goes on with
\* the next segment, a flush is done.
Confirm(n) ==
    LET r == task[n].range
    IN  /\ task[n].at = "confirm"
        /\ IF task[n].tail THEN Ends(n) ELSE Goto(n, "status")
        /\ flushed' = IF task[n].tail /\ archive_lsn >= r.end /\ r.end > flushed
                      THEN r.end ELSE flushed
        /\ UNCHANGED <<group, objects, leader, reader, faults>>

-----------------------------------------------------------------------------
(* Faults. *)

OnLeader == {"commit", "release", "prune"}

\* A node crashes: its task is lost.  When it led, the calls of the other
\* nodes are sent again to the new leader (submit_with_timeout).
Crash(n, next) ==
    /\ faults < MaxFaults
    /\ n = leader \/ next = leader
    /\ leader' = next
    /\ n # next
    /\ task' = [m \in Nodes |->
                  CASE m = n -> NoTask
                    [] m # n /\ n = leader /\ task[m].at \in OnLeader -> [task[m] EXCEPT !.at = "commit"]
                    [] OTHER -> task[m]]
    /\ faults' = faults + 1
    /\ UNCHANGED <<group, objects, flushed, reader>>

\* A call ends in an error or past its deadline; what it did stays done.
CallFails(n) ==
    /\ faults < MaxFaults
    /\ task[n].at \in Steps \ {"idle", "resolve"}
    /\ Retry(n)
    /\ faults' = faults + 1
    /\ UNCHANGED <<group, objects, leader, flushed, reader>>

-----------------------------------------------------------------------------
(* composed_wal_read. *)

Fails == reader' = NoRead

\* wal_read_response: retained bytes, or the first step of an archive plan.
ReadWal(r) ==
    /\ reader.at = "idle"
    /\ \/ /\ Readable(r)
          /\ reader' = [NoRead EXCEPT !.at = "done", !.want = r, !.tail = Units(r)]
       \/ /\ ~Readable(r) /\ r.start < archive_lsn /\ r.end <= wal_end
          /\ reader' = [NoRead EXCEPT !.at = "segments", !.want = r, !.mark = archive_lsn]
    /\ UNCHANGED <<group, objects, leader, task, flushed, faults>>

\* archived_wal_segments refuses a watermark that has moved.
PlanSegments ==
    /\ reader.at = "segments"
    /\ IF archive_lsn = reader.mark
       THEN reader' = [reader EXCEPT !.at = "tail", !.segs = segments]
       ELSE Fails
    /\ UNCHANGED <<group, objects, leader, task, flushed, faults>>

\* Mutant: the tail starts at the watermark as it is by now.
TailStartNow == IF reader.want.start >= archive_lsn THEN reader.want.start ELSE archive_lsn

TailStart == IF reader.want.start >= reader.mark THEN reader.want.start ELSE reader.mark

\* The retained tail above the watermark of the plan.
PlanTail ==
    LET r == [start |-> TailStart, end |-> reader.want.end]
    IN  /\ reader.at = "tail"
        /\ IF r.start >= r.end \/ Readable(r)
           THEN reader' = [reader EXCEPT !.at = "resolve",
                                         !.tail = IF r.start < r.end THEN Units(r) ELSE {}]
           ELSE Fails
        /\ UNCHANGED <<group, objects, leader, task, flushed, faults>>

\* The ingress resolves the bucket behind read_fence.
ReadResolve ==
    /\ reader.at = "resolve"
    /\ IF Fenced THEN reader' = [reader EXCEPT !.at = "objects"] ELSE Fails
    /\ UNCHANGED <<group, objects, leader, task, flushed, faults>>

\* read_archived_wal_prefix: the planned segments, read from their objects.
ReadObjects ==
    LET last   == IF reader.want.end <= reader.mark THEN reader.want.end ELSE reader.mark
        prefix == reader.want.start .. last - 1
        used   == {s \in reader.segs : s.end > reader.want.start /\ s.start < last}
    IN  /\ reader.at = "objects"
        /\ IF used \subseteq objects /\ prefix \subseteq UNION {Units(s) : s \in used}
           THEN reader' = [reader EXCEPT !.at = "done", !.prefix = prefix]
           ELSE Fails
        /\ UNCHANGED <<group, objects, leader, task, flushed, faults>>

\* The caller takes its answer.
Answer ==
    /\ reader.at = "done"
    /\ reader' = NoRead
    /\ UNCHANGED <<group, objects, leader, task, flushed, faults>>

-----------------------------------------------------------------------------
TaskStep(n) ==
    \/ Resolve(n)
    \/ ReadStatus(n)
    \/ ReadSegment(n)
    \/ Upload(n)
    \/ Verify(n)
    \/ CommitCheckpoint(n)
    \/ ReleasePayloads(n)
    \/ ReleaseWal(n)
    \/ Confirm(n)

ReaderStep == PlanSegments \/ PlanTail \/ ReadResolve \/ ReadObjects \/ Answer

Next ==
    \/ \E length \in 1 .. MaxChunk : Append(length)
    \/ \E n \in Nodes : Spawn(n)
    \/ \E n \in Flushers : Flush(n)
    \/ \E n \in Nodes : TaskStep(n)
    \/ \E n, next \in Nodes : Crash(n, next)
    \/ \E n \in Nodes : CallFails(n)
    \/ \E r \in Range : <<r.start, r.end>> \in Reads /\ ReadWal(r)
    \/ ReaderStep

Spec == Init /\ [][Next]_vars

\* Tasks run; the writer goes on appending; every node keeps serving appends or
\* status polls, each of which spawns an archive task when none is running.
FairSpec ==
    /\ Spec
    /\ WF_vars(\E length \in 1 .. MaxChunk : Append(length))
    /\ \A n \in Nodes : WF_vars(TaskStep(n)) /\ SF_vars(Spawn(n))

-----------------------------------------------------------------------------
(* Properties. *)

Archived(lsn) == \E s \in segments \cap objects : lsn \in Units(s)

\* The archiver "can release local bytes only after a verified immutable object
\* is named by an applied timeline checkpoint" (segment_archiver.rs): every
\* committed WAL byte is in a retained payload or in an object that a committed
\* segment names, whatever crashes between the steps.
EveryByteHeld ==
    \A lsn \in 0 .. wal_end - 1 :
        Archived(lsn) \/ \E h \in retained \cap payload : lsn \in Units(h)

\* Segments tile the archived prefix: two tasks and a tail flush that race for
\* the same bytes never commit overlapping or separated segments
\* (archived_wal_segments would refuse every later read).
SegmentsTile ==
    /\ UNION {Units(s) : s \in segments} = 0 .. archive_lsn - 1
    /\ \A s, t \in segments : s # t => Units(s) \cap Units(t) = {}

\* flush_timeline_tail: "successful return proves every byte through the
\* committed tail has a verified immutable representation".
FlushDurable == \A lsn \in 0 .. flushed - 1 : Archived(lsn)

\* A composed read answers exactly the bytes asked for, each of them once, while
\* tasks archive and release under it (composed_wal_read, wal_read_plan).
ReadExact ==
    reader.at = "done" =>
        /\ reader.prefix \cup reader.tail = Units(reader.want)
        /\ reader.prefix \cap reader.tail = {}

Boundaries == {lsn \in Lsn \ {0} : lsn % SegmentSize = 0}

\* A fault between the deletion of payloads and the ReleaseWal command, which no
\* task survived: read_fence fails on the headers that are left, so that no new
\* task gets past resolve_wal_archive and none will ever prune them.
Wedged ==
    /\ faults > 0
    /\ ~Fenced
    /\ \A n \in Nodes : task[n].at \in {"idle", "resolve"}

\* No later segment fits below the bound.
LastArchived == archive_lsn \div SegmentSize = MaxLsn \div SegmentSize

\* spawn_archive: every complete segment is archived in the end, from a
\* watermark that a tail flush left off a segment boundary too, and after a
\* crash or a failed call between any two steps.  The one thing that may stop it
\* is a fault that leaves the read fence failing for good.
EventuallyArchived ==
    \A lsn \in Boundaries :
        wal_end >= lsn ~> archive_lsn >= lsn \/ Wedged

\* Headers below the watermark are pruned in the end (ReleaseWal), by a later
\* segment's release when a fault cut off their own, so that a bounded cache
\* does not fill up.  Only the last segment of the bounded WAL has no later one.
EventuallyPruned ==
    \A lsn \in Boundaries :
        archive_lsn >= lsn ~> \/ \A h \in retained : h.end > lsn
                              \/ faults > 0 /\ LastArchived
                              \/ Wedged

\* "The scheduler now continues to archive later complete segments after a
\* former certified holder or released archived prefix is unavailable"
\* (crates/verglas-consensus/WORKLOG.md): without the exception.
ArchivingContinues ==
    \A lsn \in Boundaries : wal_end >= lsn ~> archive_lsn >= lsn
=============================================================================

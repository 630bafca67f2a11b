---------------------------- MODULE TimelineGroup ----------------------------
(***************************************************************************)
(* The replicated state machine of one Neon timeline group: what every     *)
(* voter's PersistentStateMachine::apply does with the commands that the   *)
(* group's Raft log has committed                                          *)
(* (crates/verglas-consensus/src/raft_store.rs).                           *)
(*                                                                         *)
(* Raft itself (OpenRaft) is external: it delivers one totally ordered     *)
(* sequence of commands, and each action below is the application of the   *)
(* next one.  A command reaches the log because some client submitted it;  *)
(* clients retry, give up, race each other and reuse stale epochs, so the  *)
(* next command may be any well-formed header: a lost request is one that  *)
(* never appears, a retried one appears again, two writers interleave      *)
(* freely.  Only what group.rs computes before it submits a header         *)
(* restricts the headers (WriterLease, ReleaseWal).                        *)
(***************************************************************************)
EXTENDS Naturals, FiniteSets

CONSTANTS
    Requests,   \* RequestId: the clients' retry identities
    Writers,    \* compute identities, the body of a writer lease
    Payloads,   \* contents of appended WAL bodies
    Buckets,    \* archive buckets
    MaxLsn,     \* bound on the LSNs clients use
    MaxEpoch,   \* bound on the writer epochs reached
    MaxIndex    \* bound on the length of the applied log

ASSUME BoundsAssumption ==
    /\ MaxLsn \in Nat
    /\ MaxEpoch \in Nat
    /\ MaxIndex \in Nat

Lsn   == 0 .. MaxLsn
Epoch == 0 .. MaxEpoch
Index == 0 .. MaxIndex

NoBucket == "NoBucket"
NoEpoch  == 0               \* header.writer_epoch() = None

ASSUME BucketAssumption == NoBucket \notin Buckets

(***************************************************************************)
(* What the payload hash of a header distinguishes: the bucket name, the   *)
(* writer name, the bytes of an append with their length, or the key of an *)
(* archive object, which names its interval (the bytes under an interval   *)
(* never change).  TimelineOpen and ReleaseWriter have an empty body.      *)
(***************************************************************************)
Content    == Writers \cup Payloads \cup Buckets \cup {NoBucket}
Hash       == Content \X Lsn \X Lsn
EmptyHash  == <<NoBucket, 0, 0>>

Kinds == {"TimelineOpen", "WalArchiveBinding", "WriterLease", "Wal",
          "ReleaseWriter", "ArchiveCheckpoint"}

(***************************************************************************)
(* EntryHeader with its EntryMetadata: [lo, hi) is the WAL range of a Wal  *)
(* entry, the segment of an ArchiveCheckpoint and the start (lo) of a      *)
(* TimelineOpen; bucket is the one a WalArchiveBinding names.              *)
(***************************************************************************)
Header == [request : Requests, kind : Kinds, hash : Hash, epoch : Epoch,
           lo : Lsn, hi : Lsn, bucket : Buckets \cup {NoBucket}]

\* A header of StateMachineData.committed, keyed by its log index.
Entry == [index : Index, header : Header]

\* AppliedIdentity without its group (there is one) and catalog fields.  An
\* absent identity is the one with index 0: log indices start at 1.
Identity == [index : Index, kind : Kinds \cup {"None"}, hash : Hash,
             epoch : Epoch, wal_end : Lsn]

NoIdentity == [index |-> 0, kind |-> "None", hash |-> EmptyHash,
               epoch |-> NoEpoch, wal_end |-> 0]

Outcomes == {"Committed", "Duplicate", "ConflictingRetry", "StaleWriterEpoch",
             "WalGap", "InvalidArchiveCheckpoint", "CatalogConflict"}

VARIABLES
    last_applied,       \* index of the last applied log entry
    writer_epoch,
    writer_active,
    wal_archive_bucket,
    wal_initialized,
    wal_end,
    archive_lsn,
    committed,          \* the retained headers, with their indices
    retries,            \* request -> AppliedIdentity
    timeline_start,     \* observer: the LSN the timeline was opened at
    outcome             \* AppliedOutcome of the last applied command

vars == <<last_applied, writer_epoch, writer_active, wal_archive_bucket,
          wal_initialized, wal_end, archive_lsn, committed, retries,
          timeline_start, outcome>>

TypeOK ==
    /\ last_applied \in Index
    /\ writer_epoch \in Epoch
    /\ writer_active \in BOOLEAN
    /\ wal_archive_bucket \in Buckets \cup {NoBucket}
    /\ wal_initialized \in BOOLEAN
    /\ wal_end \in Lsn
    /\ archive_lsn \in Lsn
    /\ committed \in SUBSET Entry
    /\ retries \in [Requests -> Identity]
    /\ timeline_start \in Lsn
    /\ outcome \in Outcomes

Init ==
    /\ last_applied = 0
    /\ writer_epoch = 0
    /\ writer_active = FALSE
    /\ wal_archive_bucket = NoBucket
    /\ wal_initialized = FALSE
    /\ wal_end = 0
    /\ archive_lsn = 0
    /\ committed = {}
    /\ retries = [r \in Requests |-> NoIdentity]
    /\ timeline_start = 0
    /\ outcome = "Committed"

-----------------------------------------------------------------------------
(* How one command is answered. *)

Step == last_applied < MaxIndex /\ last_applied' = last_applied + 1

\* The command changes nothing but the applied index.
Refuse(why) ==
    /\ Step
    /\ outcome' = why
    /\ UNCHANGED <<writer_epoch, writer_active, wal_archive_bucket,
                   wal_initialized, wal_end, archive_lsn, committed, retries,
                   timeline_start>>

\* The request identity is already bound: an equal command is a duplicate,
\* any other one a conflict.  The WAL range is not part of the comparison.
SameCommand(h) ==
    LET previous == retries[h.request]
    IN  /\ previous.kind = h.kind
        /\ previous.hash = h.hash
        /\ previous.epoch = h.epoch

Known(h) == retries[h.request].index > 0

AnswerRetry(h) ==
    /\ Known(h)
    /\ Refuse(IF SameCommand(h) THEN "Duplicate" ELSE "ConflictingRetry")

\* The identity and the header of an accepted command become durable state.
Accept(h, reply_end) ==
    /\ Step
    /\ outcome' = "Committed"
    /\ retries' = [retries EXCEPT ![h.request] =
                     [index |-> last_applied + 1,
                      kind |-> h.kind, hash |-> h.hash, epoch |-> h.epoch,
                      wal_end |-> reply_end]]
    /\ committed' = committed \cup {[index |-> last_applied + 1, header |-> h]}

\* Mutant: a lease may repeat the epoch that is already held.
EpochValidRepeatedLease(h) ==
    CASE h.kind = "TimelineOpen"  -> wal_archive_bucket # NoBucket
      [] h.kind = "WriterLease"   -> wal_initialized /\ h.epoch >= writer_epoch
      [] h.kind \in {"Wal", "ReleaseWriter"}
                                  -> writer_active /\ h.epoch = writer_epoch
      [] OTHER                    -> TRUE

\* apply's epoch_valid, per kind.
EpochValid(h) ==
    CASE h.kind = "TimelineOpen"  -> wal_archive_bucket # NoBucket
      [] h.kind = "WriterLease"   -> wal_initialized /\ h.epoch = writer_epoch + 1
      [] h.kind \in {"Wal", "ReleaseWriter"}
                                  -> writer_active /\ h.epoch = writer_epoch
      [] OTHER                    -> TRUE

Fence(h) == ~Known(h) /\ ~EpochValid(h) /\ Refuse("StaleWriterEpoch")

Admitted(h) == ~Known(h) /\ EpochValid(h)

-----------------------------------------------------------------------------
(* The commands, one operator per CommandKind. *)

\* A start at or below the tail of an open timeline is accepted and ignored.
TimelineOpen(h) ==
    \/ AnswerRetry(h)
    \/ Fence(h)
    \/ /\ Admitted(h)
       /\ wal_initialized /\ h.lo > wal_end
       /\ Refuse("WalGap")
    \/ /\ Admitted(h)
       /\ wal_initialized /\ h.lo =< wal_end
       /\ Accept(h, wal_end)
       /\ UNCHANGED <<writer_epoch, writer_active, wal_archive_bucket,
                      wal_initialized, wal_end, archive_lsn, timeline_start>>
    \/ /\ Admitted(h)
       /\ ~wal_initialized
       /\ Accept(h, h.lo)
       /\ wal_initialized' = TRUE
       /\ wal_end' = h.lo
       /\ archive_lsn' = h.lo
       /\ timeline_start' = h.lo
       /\ UNCHANGED <<writer_epoch, writer_active, wal_archive_bucket>>

WalArchiveBinding(h) ==
    \/ AnswerRetry(h)
    \/ /\ Admitted(h)
       /\ wal_archive_bucket \notin {NoBucket, h.bucket}
       /\ Refuse("CatalogConflict")
    \/ /\ Admitted(h)
       /\ wal_archive_bucket \in {NoBucket, h.bucket}
       /\ Accept(h, 0)
       /\ wal_archive_bucket' = h.bucket
       /\ UNCHANGED <<writer_epoch, writer_active, wal_initialized, wal_end,
                      archive_lsn, timeline_start>>

WriterLease(h) ==
    \/ AnswerRetry(h)
    \/ Fence(h)
    \/ /\ Admitted(h)
       /\ Accept(h, wal_end)
       /\ writer_epoch' = h.epoch
       /\ writer_active' = TRUE
       /\ UNCHANGED <<wal_archive_bucket, wal_initialized, wal_end,
                      archive_lsn, timeline_start>>

\* Mutant: only a start beyond the tail is a gap, so an append may overlap.
WalOverlapping(h) ==
    /\ Admitted(h)
    /\ h.lo =< wal_end
    /\ Accept(h, h.hi)
    /\ wal_end' = IF h.hi > wal_end THEN h.hi ELSE wal_end
    /\ UNCHANGED <<writer_epoch, writer_active, wal_archive_bucket,
                   wal_initialized, archive_lsn, timeline_start>>

Wal(h) ==
    \/ AnswerRetry(h)
    \/ Fence(h)
    \/ /\ Admitted(h)
       /\ h.lo # wal_end
       /\ Refuse("WalGap")
    \/ /\ Admitted(h)
       /\ h.lo = wal_end
       /\ Accept(h, h.hi)
       /\ wal_end' = h.hi
       /\ UNCHANGED <<writer_epoch, writer_active, wal_archive_bucket,
                      wal_initialized, archive_lsn, timeline_start>>

\* Mutant: the release is recorded but the writer stays active.
ReleaseWriterStaysActive(h) ==
    /\ Admitted(h)
    /\ Accept(h, 0)
    /\ UNCHANGED <<writer_epoch, writer_active, wal_archive_bucket,
                   wal_initialized, wal_end, archive_lsn, timeline_start>>

ReleaseWriter(h) ==
    \/ AnswerRetry(h)
    \/ Fence(h)
    \/ /\ Admitted(h)
       /\ Accept(h, 0)
       /\ writer_active' = FALSE
       /\ UNCHANGED <<writer_epoch, wal_archive_bucket, wal_initialized,
                      wal_end, archive_lsn, timeline_start>>

\* Mutant: a segment need not start at the archive watermark.
ArchiveCheckpointAnyStart(h) ==
    /\ Admitted(h)
    /\ h.hi =< wal_end
    /\ Accept(h, 0)
    /\ archive_lsn' = h.hi
    /\ UNCHANGED <<writer_epoch, writer_active, wal_archive_bucket,
                   wal_initialized, wal_end, timeline_start>>

ArchiveCheckpoint(h) ==
    \/ AnswerRetry(h)
    \/ /\ Admitted(h)
       /\ h.lo # archive_lsn \/ h.hi > wal_end
       /\ Refuse("InvalidArchiveCheckpoint")
    \/ /\ Admitted(h)
       /\ h.lo = archive_lsn /\ h.hi =< wal_end
       /\ Accept(h, 0)
       /\ archive_lsn' = h.hi
       /\ UNCHANGED <<writer_epoch, writer_active, wal_archive_bucket,
                      wal_initialized, wal_end, timeline_start>>

\* RaftCommand::ReleaseWal and compact_checkpointed_wal_history: the WAL
\* headers that end at or below the watermark are pruned, their retry
\* identities stay.
\* Mutant: a header that only starts below the watermark is pruned too.
CompactedByStart(through) ==
    {e \in committed : e.header.kind = "Wal" /\ e.header.lo =< through}

\* Mutant: every WAL header is pruned, whatever the watermark.
CompactedAll(through) ==
    {e \in committed : e.header.kind = "Wal"}

Compacted(through) ==
    {e \in committed : e.header.kind = "Wal" /\ e.header.hi =< through}

ReleaseWal(through) ==
    /\ through =< archive_lsn
    /\ Step
    /\ committed' = committed \ Compacted(through)
    /\ outcome' = "Committed"
    /\ UNCHANGED <<writer_epoch, writer_active, wal_archive_bucket,
                   wal_initialized, wal_end, archive_lsn, retries,
                   timeline_start>>

-----------------------------------------------------------------------------
(* The headers ConsensusGroup builds: commit_header's callers. *)

HeaderOf(r, kind, hash, epoch, lo, hi, bucket) ==
    [request |-> r, kind |-> kind, hash |-> hash, epoch |-> epoch,
     lo |-> lo, hi |-> hi, bucket |-> bucket]

OpenTimelineRequest ==
    \E r \in Requests, start \in Lsn :
        TimelineOpen(HeaderOf(r, "TimelineOpen", EmptyHash, NoEpoch, start, start, NoBucket))

BindWalArchive ==
    \E r \in Requests, b \in Buckets :
        WalArchiveBinding(HeaderOf(r, "WalArchiveBinding", <<b, 0, 0>>, NoEpoch, 0, 0, b))

\* acquire_writer reads the epoch the proposing replica has applied, which may
\* lag behind the group: it proposes that epoch plus one.
AcquireWriter ==
    \E r \in Requests, w \in Writers, seen \in 0 .. writer_epoch :
        /\ seen < MaxEpoch
        /\ WriterLease(HeaderOf(r, "WriterLease", <<w, 0, 0>>, seen + 1, 0, 0, NoBucket))

AppendWal ==
    \E r \in Requests, p \in Payloads, e \in Epoch, lo \in Lsn, hi \in Lsn :
        /\ lo =< hi
        /\ Wal(HeaderOf(r, "Wal", <<p, 0, hi - lo>>, e, lo, hi, NoBucket))

ReleaseWriterRequest ==
    \E r \in Requests, e \in Epoch :
        ReleaseWriter(HeaderOf(r, "ReleaseWriter", EmptyHash, e, 0, 0, NoBucket))

\* WalArchiveSegment::from_key refuses an empty segment.
ArchiveRequest ==
    \E r \in Requests, lo \in Lsn, hi \in Lsn :
        /\ lo < hi
        /\ ArchiveCheckpoint(HeaderOf(r, "ArchiveCheckpoint", <<NoBucket, lo, hi>>,
                                      NoEpoch, lo, hi, NoBucket))

\* archive_checkpoint submits ReleaseWal only after its checkpoint committed
\* (or was already known); another replica may interleave any command.
ReleaseRequest ==
    \E e \in committed :
        /\ e.header.kind = "ArchiveCheckpoint"
        /\ ReleaseWal(e.header.hi)

Next ==
    \/ OpenTimelineRequest
    \/ BindWalArchive
    \/ AcquireWriter
    \/ AppendWal
    \/ ReleaseWriterRequest
    \/ ArchiveRequest
    \/ ReleaseRequest

Spec == Init /\ [][Next]_vars

-----------------------------------------------------------------------------
(* Properties *)

Covers(e, kind, x) ==
    e.header.kind = kind /\ e.header.lo =< x /\ x < e.header.hi

\* No acknowledged WAL byte is lost: whatever appends, retries, archive
\* checkpoints and compactions the log interleaves, every LSN between the
\* opening position and the committed tail is held by a retained WAL header
\* or lies below the archive watermark inside a committed archive segment.
NoByteLost ==
    /\ \A x \in Lsn : archive_lsn =< x /\ x < wal_end =>
            \E e \in committed : Covers(e, "Wal", x)
    /\ \A x \in Lsn : timeline_start =< x /\ x < archive_lsn =>
            \E e \in committed : Covers(e, "ArchiveCheckpoint", x)

\* Log order is LSN order: a later committed append, or a later archive
\* segment, starts at or after the end of an earlier one, so no LSN has two
\* committed contents.  read_wal_after_fence and archived_wal_segments walk
\* the headers in index order and rely on it.
LogOrderIsLsnOrder ==
    \A e, f \in committed :
        /\ e.header.kind = f.header.kind
        /\ e.header.kind \in {"Wal", "ArchiveCheckpoint"}
        /\ e.index < f.index
        => e.header.hi =< f.header.lo

Applied(r, kind) == retries[r].kind = kind

\* A writer epoch is granted once, and a newer grant fences every older
\* epoch: no append or release of an older epoch is applied after it.
EpochFencing ==
    \A r, s \in Requests : Applied(r, "WriterLease") /\ r # s =>
        /\ Applied(s, "WriterLease") => retries[s].epoch # retries[r].epoch
        /\ Applied(s, "Wal") \/ Applied(s, "ReleaseWriter") =>
               (retries[s].index > retries[r].index <=> retries[s].epoch >= retries[r].epoch)

\* An explicitly released epoch is never written under again.
ReleasedEpochStaysClosed ==
    \A r, s \in Requests :
        Applied(r, "ReleaseWriter") /\ Applied(s, "Wal") /\ retries[s].epoch = retries[r].epoch
        => retries[s].index < retries[r].index

\* The scan of read_wal_after_fence: what the header at index i makes of the
\* cursor.  Beyond the LSNs stands for the error of a gap.
Due(at, i, to) ==
    {e \in committed : /\ e.index = i /\ e.header.kind = "Wal"
                       /\ e.header.hi > at /\ e.header.lo < to}

Advance(at, i, to) ==
    IF Due(at, i, to) = {} \/ at >= to THEN at
    ELSE LET e == CHOOSE x \in Due(at, i, to) : TRUE
         IN  IF e.header.lo > at THEN MaxLsn + 1
             ELSE IF e.header.hi < to THEN e.header.hi ELSE to

\* Its cursor after the last header.
ReadCursor(from, to) ==
    LET cursor[i \in Index] == IF i = 0 THEN from ELSE Advance(cursor[i - 1], i, to)
    IN  cursor[MaxIndex]

\* Every range at or above the archive watermark and below the tail can be
\* read: the scan of read_wal_after_fence reaches its end without a gap.
RetainedRangeReadable ==
    \A from, to \in Lsn :
        archive_lsn =< from /\ from < to /\ to =< wal_end => ReadCursor(from, to) = to

\* The tail, the archive watermark and the epoch never move back, the opening
\* position and the bucket never change once set, and compaction never takes
\* a byte above the watermark out of the retained log.
Monotone ==
    [][/\ wal_initialized => /\ wal_end' >= wal_end
                             /\ archive_lsn' >= archive_lsn
                             /\ timeline_start' = timeline_start
       /\ writer_epoch' >= writer_epoch
       /\ wal_archive_bucket # NoBucket => wal_archive_bucket' = wal_archive_bucket
       /\ \A e \in committed \ committed' :
             e.header.kind = "Wal" /\ e.header.hi =< archive_lsn]_vars
=============================================================================

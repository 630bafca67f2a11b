----------------------------- MODULE GroupRouting -----------------------------
(***************************************************************************)
(* How a writer's request reaches the replicated state machine of its      *)
(* timeline and how the answer comes back: submit_with_timeout resolves a  *)
(* leader, runs the request there, and sends it again, unchanged, when the *)
(* leader has moved or cannot be reached                                   *)
(* (bins/cache-node/src/consensus.rs); acquire_writer and commit_header    *)
(* build the header on the leader, propose it and translate the outcome    *)
(* (crates/verglas-consensus/src/group.rs).                                *)
(*                                                                         *)
(* Raft is external: `log` is what a quorum has committed, `pending` the   *)
(* leader's uncommitted suffix, of which a new leader keeps a prefix;      *)
(* every replica applies the log at its own pace.  Apply below is the      *)
(* replica's apply as a function; Implements checks it against             *)
(* TimelineGroup.  Writers run one session each: acquire, append, release. *)
(* Append bodies are external, the other bodies inline.  The handler of a  *)
(* call that its ingress has abandoned is taken to end without proposing;  *)
(* what it proposed before stays in the log or in `pending`.               *)
(***************************************************************************)
EXTENDS Naturals, Sequences, FiniteSets

CONSTANTS
    Nodes,          \* the replicas of the group
    Writers,        \* compute identities
    MaxAppends,     \* bound: the appends of a session
    MaxFaults,      \* bound: elections, lost calls and timeouts
    Archiving       \* whether the archiver checkpoints and compacts

ASSUME RoutingAssumption ==
    /\ IsFiniteSet(Writers) /\ Writers \cap {"control", "archive", "free"} = {}
    /\ MaxAppends \in Nat /\ MaxFaults \in Nat
    /\ Archiving \in BOOLEAN

Steps     == 0 .. MaxAppends + 1        \* acquire, the appends, release
MaxLsn    == Cardinality(Writers) * MaxAppends
MaxEpoch  == Cardinality(Writers) + 1
\* No log is longer: two creation commands, three commands for every append,
\* and every request once more per fault.
MaxIndex  == 2 + 3 * MaxLsn + Cardinality(Writers) * (MaxAppends + 2) * (MaxFaults + 1)
Requests  == (Writers \X Steps) \cup ({"control"} \X (1 .. 2)) \cup ({"archive"} \X (1 .. MaxLsn))
Bucket    == "bucket"
Free      == "free"                     \* nobody holds a writer_lock

VARIABLES
    log,        \* committed commands, with the response and epoch they led to
    machine,    \* the state machine after the whole log
    pending,    \* the leader's proposals that are not committed
    applied,    \* replica -> how much of the log it has applied
    leader,
    lock,       \* replica -> the writer whose call holds its writer_lock
    call,       \* writer -> its request in flight
    session,    \* writer -> next step, epoch and tail it was given
    answer,     \* <<writer, step>> -> what the writer was told
    faults

vars == <<log, machine, pending, applied, leader, lock, call, session, answer, faults>>

-----------------------------------------------------------------------------
(* apply, as a function of the state before it. *)

HeaderOf(r, kind, hash, epoch, lo, hi, bucket) ==
    [request |-> r, kind |-> kind, hash |-> hash, epoch |-> epoch,
     lo |-> lo, hi |-> hi, bucket |-> bucket]

NoBucket  == "NoBucket"
EmptyHash == <<NoBucket, 0, 0>>
NoIdentity == [index |-> 0, kind |-> "None", hash |-> EmptyHash, epoch |-> 0, wal_end |-> 0]

Empty ==
    [writer_epoch |-> 0, writer_active |-> FALSE, bucket |-> NoBucket,
     initialized |-> FALSE, wal_end |-> 0, archive_lsn |-> 0, committed |-> {},
     retries |-> [r \in Requests |-> NoIdentity], outcome |-> "Committed"]

\* Mutant: a lease may repeat the epoch that is held.
EpochValidRepeated(s, h) ==
    CASE h.kind = "TimelineOpen" -> s.bucket # NoBucket
      [] h.kind = "WriterLease"  -> s.initialized /\ h.epoch >= s.writer_epoch
      [] h.kind \in {"Wal", "ReleaseWriter"} -> s.writer_active /\ h.epoch = s.writer_epoch
      [] OTHER -> TRUE

EpochValid(s, h) ==
    CASE h.kind = "TimelineOpen" -> s.bucket # NoBucket
      [] h.kind = "WriterLease"  -> s.initialized /\ h.epoch = s.writer_epoch + 1
      [] h.kind \in {"Wal", "ReleaseWriter"} -> s.writer_active /\ h.epoch = s.writer_epoch
      [] OTHER -> TRUE

\* An equal command, whatever its WAL range.
Same(identity, h) ==
    identity.kind = h.kind /\ identity.hash = h.hash /\ identity.epoch = h.epoch

\* Mutant: the retry identities are not looked up.
OutcomeForgetful(s, h) ==
    IF ~EpochValid(s, h) THEN "StaleWriterEpoch"
    ELSE IF h.kind = "Wal" /\ h.lo # s.wal_end THEN "WalGap"
    ELSE "Committed"

\* AppliedOutcome of a header: retry, fence, then the rule of its kind.
Outcome(s, h) ==
    IF s.retries[h.request].index > 0 THEN
        IF Same(s.retries[h.request], h) THEN "Duplicate" ELSE "ConflictingRetry"
    ELSE IF ~EpochValid(s, h) THEN "StaleWriterEpoch"
    ELSE IF h.kind = "Wal" /\ h.lo # s.wal_end THEN "WalGap"
    ELSE IF h.kind = "ArchiveCheckpoint" /\ (h.lo # s.archive_lsn \/ h.hi > s.wal_end)
         THEN "InvalidArchiveCheckpoint"
    ELSE "Committed"

\* The reply keeps the tail of the kinds that answer one.
ReplyEnd(s, h) ==
    CASE h.kind = "Wal" -> h.hi
      [] h.kind = "WriterLease" -> s.wal_end
      [] OTHER -> 0

Accepted(s, h, i) ==
    [s EXCEPT
        !.outcome       = "Committed",
        !.committed     = @ \cup {[index |-> i, header |-> h]},
        !.retries[h.request] = [index |-> i, kind |-> h.kind, hash |-> h.hash,
                                epoch |-> h.epoch, wal_end |-> ReplyEnd(s, h)],
        !.bucket        = IF h.kind = "WalArchiveBinding" THEN h.bucket ELSE @,
        !.initialized   = @ \/ h.kind = "TimelineOpen",
        !.writer_epoch  = IF h.kind = "WriterLease" THEN h.epoch ELSE @,
        !.writer_active = (@ \/ h.kind = "WriterLease") /\ h.kind # "ReleaseWriter",
        !.wal_end       = IF h.kind = "Wal" THEN h.hi ELSE @,
        !.archive_lsn   = IF h.kind = "ArchiveCheckpoint" THEN h.hi ELSE @]

\* Mutant: compaction forgets the retry identities with the headers.
ApplyForgetful(s, h, i) ==
    IF h.kind = "ReleaseWal"
    THEN [s EXCEPT !.outcome = "Committed",
                   !.committed = {e \in @ : e.header.kind = "Wal" => e.header.hi > h.hi},
                   !.retries = [r \in Requests |->
                                  IF @[r].kind = "Wal" /\ @[r].wal_end <= h.hi THEN NoIdentity ELSE @[r]]]
    ELSE IF Outcome(s, h) = "Committed" THEN Accepted(s, h, i)
    ELSE [s EXCEPT !.outcome = Outcome(s, h)]

\* ReleaseWal prunes the covered WAL headers and keeps the retry identities.
Apply(s, h, i) ==
    IF h.kind = "ReleaseWal"
    THEN [s EXCEPT !.outcome = "Committed",
                   !.committed = {e \in @ : e.header.kind = "Wal" => e.header.hi > h.hi}]
    ELSE IF Outcome(s, h) = "Committed" THEN Accepted(s, h, i)
    ELSE [s EXCEPT !.outcome = Outcome(s, h)]

-----------------------------------------------------------------------------
\* The committed prefix, as the abstract state machine of the timeline.
Timeline == INSTANCE TimelineGroup WITH
    Payloads           <- Writers,
    Buckets            <- {Bucket},
    last_applied       <- Len(log),
    writer_epoch       <- machine.writer_epoch,
    writer_active      <- machine.writer_active,
    wal_archive_bucket <- machine.bucket,
    wal_initialized    <- machine.initialized,
    wal_end            <- machine.wal_end,
    archive_lsn        <- machine.archive_lsn,
    committed          <- machine.committed,
    retries            <- machine.retries,
    timeline_start     <- 0,
    outcome            <- machine.outcome

Replied == {"Committed", "Duplicate"}
Answers == Replied \cup {"none", "ConflictingRetry", "StaleWriterEpoch", "WalGap",
                         "InvalidArchiveCheckpoint", "NotCommitted", "Unknown"}
NoCall  == [at |-> "idle", target |-> Free, try |-> 0, epoch |-> 0]
Over    == MaxAppends + 2
Commands == [header : [request : Requests, kind : STRING, hash : STRING \X Nat \X Nat,
                       epoch : 0 .. MaxEpoch, lo : 0 .. MaxLsn, hi : 0 .. MaxLsn, bucket : STRING],
             try : Nat]

TypeOK ==
    /\ Timeline!TypeOK
    /\ \A i \in DOMAIN pending : pending[i] \in Commands
    /\ applied \in [Nodes -> 0 .. Len(log)]
    /\ leader \in Nodes
    /\ lock \in [Nodes -> Writers \cup {Free}]
    /\ call \in [Writers -> [at : {"idle", "send", "propose", "wait"},
                             target : Nodes \cup {Free}, try : Nat, epoch : 0 .. MaxEpoch]]
    /\ session \in [Writers -> [step : 0 .. Over, epoch : 0 .. MaxEpoch, first : 0 .. MaxLsn]]
    /\ answer \in [Writers \X Steps -> Answers]
    /\ faults \in 0 .. MaxFaults

Command(h, try) == [header |-> h, try |-> try]

\* The control plane's two creation requests are on the leader.
Init ==
    /\ log = <<>>
    /\ machine = Empty
    /\ pending = << Command(HeaderOf(<<"control", 1>>, "WalArchiveBinding", <<Bucket, 0, 0>>, 0, 0, 0, Bucket), 0),
                    Command(HeaderOf(<<"control", 2>>, "TimelineOpen", EmptyHash, 0, 0, 0, NoBucket), 0) >>
    /\ applied = [n \in Nodes |-> 0]
    /\ leader \in Nodes
    /\ lock = [n \in Nodes |-> Free]
    /\ call = [w \in Writers |-> NoCall]
    /\ session = [w \in Writers |-> [step |-> 0, epoch |-> 0, first |-> 0]]
    /\ answer = [r \in Writers \X Steps |-> "none"]
    /\ faults = 0

-----------------------------------------------------------------------------
(* A writer's call. *)

\* The request of the session's current step; `first` is the tail that the
\* lease answered, every append has one unit.
HeaderFor(w, epoch) ==
    LET k  == session[w].step
        lo == session[w].first + k - 1
        r  == <<w, k>>
    IN  CASE k = 0 -> HeaderOf(r, "WriterLease", <<w, 0, 0>>, epoch, 0, 0, NoBucket)
          [] k \in 1 .. MaxAppends -> HeaderOf(r, "Wal", <<w, 0, 1>>, epoch, lo, lo + 1, NoBucket)
          [] OTHER -> HeaderOf(r, "ReleaseWriter", EmptyHash, epoch, 0, 0, NoBucket)

\* Dropping a call's future on a replica releases the writer_lock it holds.
Unlock(w) == lock' = [n \in Nodes |-> IF lock[n] = w THEN Free ELSE lock[n]]

\* The writer epoch that replica n has applied.
EpochOn(n) == IF applied[n] = 0 THEN 0 ELSE log[applied[n]].epoch

\* Any ingress, with the leader it observes.
Start(w) ==
    /\ call[w].at = "idle"
    /\ session[w].step # Over
    /\ \E n \in Nodes : call' = [call EXCEPT ![w] = [NoCall EXCEPT !.at = "send", !.target = n]]
    /\ UNCHANGED <<log, machine, pending, applied, leader, lock, session, answer, faults>>

\* Mutant: acquire_writer does not serialise the acquisitions of a replica.
DeliverUnlocked(w) ==
    LET n == call[w].target
    IN  /\ call[w].at = "send"
        /\ call' = [call EXCEPT ![w].at = "propose",
                                ![w].epoch = IF session[w].step = 0
                                             THEN EpochOn(n) + 1
                                             ELSE session[w].epoch]
        /\ UNCHANGED <<log, machine, pending, applied, leader, lock, session, answer, faults>>

\* execute on the target replica.  acquire_writer takes the replica's
\* writer_lock and reads the epoch that this replica has applied.
Deliver(w) ==
    LET n == call[w].target
    IN  /\ call[w].at = "send"
        /\ session[w].step = 0 => lock[n] = Free
        /\ lock' = IF session[w].step = 0 THEN [lock EXCEPT ![n] = w] ELSE lock
        /\ call' = [call EXCEPT ![w].at = "propose",
                                ![w].epoch = IF session[w].step = 0
                                             THEN EpochOn(n) + 1
                                             ELSE session[w].epoch]
        /\ UNCHANGED <<log, machine, pending, applied, leader, session, answer, faults>>

\* client_write on the leader.
Propose(w) ==
    /\ call[w].at = "propose"
    /\ call[w].target = leader
    /\ pending' = Append(pending, Command(HeaderFor(w, call[w].epoch), call[w].try))
    /\ call' = [call EXCEPT ![w].at = "wait"]
    /\ UNCHANGED <<log, machine, applied, leader, lock, session, answer, faults>>

Mine(w, c) == c.header.request = <<w, session[w].step>> /\ c.try = call[w].try

\* ForwardToLeader, at once or because the proposal was truncated:
\* resolve_leader_after_stale follows the hint.
NotLeader(w) ==
    /\ \/ call[w].at = "propose" /\ call[w].target # leader
       \/ /\ call[w].at = "wait"
          /\ \A i \in DOMAIN log : ~Mine(w, log[i])
          /\ \A i \in DOMAIN pending : ~Mine(w, pending[i])
    /\ \E n \in Nodes \ {call[w].target} :
          call' = [call EXCEPT ![w].at = "send", ![w].target = n]
    /\ Unlock(w)
    /\ UNCHANGED <<log, machine, pending, applied, leader, session, answer, faults>>

\* Unreachable: the request is sent again, unchanged, to another leader.
Unreachable(w) ==
    /\ call[w].at # "idle"
    /\ faults < MaxFaults
    /\ faults' = faults + 1
    /\ \E n \in Nodes \ {call[w].target} :
          call' = [call EXCEPT ![w].at = "send", ![w].target = n, ![w].try = @ + 1]
    /\ Unlock(w)
    /\ UNCHANGED <<log, machine, pending, applied, leader, session, answer>>

\* No other leader before the deadline: the writer gets an error that says
\* nothing about the request.
GiveUp(w) ==
    /\ call[w].at # "idle"
    /\ faults < MaxFaults
    /\ faults' = faults + 1
    /\ call' = [call EXCEPT ![w] = NoCall]
    /\ Unlock(w)
    /\ answer' = [answer EXCEPT ![<<w, session[w].step>>] = "Unknown"]
    /\ session' = [session EXCEPT ![w].step = Over]
    /\ UNCHANGED <<log, machine, pending, applied, leader>>

\* The writer takes its answer and goes on with its session, or ends it.
Answered(w, what, identity) ==
    /\ answer' = [answer EXCEPT ![<<w, session[w].step>>] = what]
    /\ session' = [session EXCEPT ![w] =
          IF what \notin Replied THEN [@ EXCEPT !.step = Over]
          ELSE IF @.step = 0
               THEN [step |-> 1, epoch |-> identity.epoch, first |-> identity.wal_end]
               ELSE [@ EXCEPT !.step = session[w].step + 1]]
    /\ call' = [call EXCEPT ![w] = NoCall]
    /\ Unlock(w)
    /\ UNCHANGED <<log, machine, pending, applied, leader, faults>>

\* Mutant: a proposal is answered when the leader has it in its log.
ReplyEarly(w) ==
    /\ call[w].at = "wait"
    /\ \E i \in DOMAIN pending : Mine(w, pending[i])
    /\ Answered(w, "Committed", [NoIdentity EXCEPT !.epoch = call[w].epoch,
                                                   !.wal_end = machine.wal_end])

\* Replica n has compacted the header of an append.
Pruned(h, n) ==
    /\ h.kind = "Wal"
    /\ \E i \in 1 .. applied[n] : log[i].header.kind = "ReleaseWal" /\ h.hi <= log[i].header.hi

\* commit_header: the outcome that the target replica applied; a committed or
\* duplicate external body is sealed under the log id of its header.
Reply(w) ==
    /\ call[w].at = "wait"
    /\ \E i \in 1 .. applied[call[w].target] :
          /\ Mine(w, log[i])
          /\ Answered(w, IF log[i].outcome \in Replied /\ Pruned(log[i].header, call[w].target)
                         THEN "NotCommitted" ELSE log[i].outcome,
                      log[i].identity)

-----------------------------------------------------------------------------
(* Raft and the archiver. *)

Commit ==
    LET h    == Head(pending).header
        next == Apply(machine, h, Len(log) + 1)
    IN  /\ pending # <<>>
        /\ machine' = next
        /\ log' = Append(log, [header   |-> h,
                               try      |-> Head(pending).try,
                               outcome  |-> next.outcome,
                               identity |-> next.retries[h.request],
                               epoch    |-> next.writer_epoch])
        /\ pending' = Tail(pending)
        /\ UNCHANGED <<applied, leader, lock, call, session, answer, faults>>

ApplyNext(n) ==
    /\ applied[n] < Len(log)
    /\ applied' = [applied EXCEPT ![n] = @ + 1]
    /\ UNCHANGED <<log, machine, pending, leader, lock, call, session, answer, faults>>

\* A new leader has a prefix of the old one's proposals.
Elect(n) ==
    /\ n # leader
    /\ faults < MaxFaults
    /\ faults' = faults + 1
    /\ leader' = n
    /\ \E kept \in 0 .. Len(pending) : pending' = SubSeq(pending, 1, kept)
    /\ UNCHANGED <<log, machine, applied, lock, call, session, answer>>

InFlight(kind) == \E i \in DOMAIN pending : pending[i].header.kind = kind

\* archive_checkpoint commits the archived segment ...
Checkpoint ==
    LET s == machine
    IN  /\ Archiving
        /\ s.archive_lsn < s.wal_end
        /\ ~InFlight("ArchiveCheckpoint")
        /\ pending' = Append(pending,
              Command(HeaderOf(<<"archive", s.wal_end>>, "ArchiveCheckpoint",
                               <<NoBucket, s.archive_lsn, s.wal_end>>, 0,
                               s.archive_lsn, s.wal_end, NoBucket), 0))
        /\ UNCHANGED <<log, machine, applied, leader, lock, call, session, answer, faults>>

\* ... and then releases the WAL below it.
Release ==
    LET s == machine
    IN  /\ Archiving
        /\ ~InFlight("ReleaseWal")
        /\ \E e \in s.committed : e.header.kind = "Wal" /\ e.header.hi <= s.archive_lsn
        /\ pending' = Append(pending,
              Command(HeaderOf(<<"archive", s.archive_lsn>>, "ReleaseWal", EmptyHash, 0,
                               s.archive_lsn, s.archive_lsn, NoBucket), 0))
        /\ UNCHANGED <<log, machine, applied, leader, lock, call, session, answer, faults>>

Next ==
    \/ \E w \in Writers :
          \/ Start(w)
          \/ Deliver(w)
          \/ Propose(w)
          \/ NotLeader(w)
          \/ Unreachable(w)
          \/ GiveUp(w)
          \/ Reply(w)
    \/ Commit
    \/ \E n \in Nodes : ApplyNext(n) \/ Elect(n)
    \/ Checkpoint
    \/ Release

Spec == Init /\ [][Next]_vars

-----------------------------------------------------------------------------
(* Properties. *)

\* The committed log drives the state machine only along steps that
\* TimelineGroup allows: routing, retries and elections never submit a header
\* outside what ConsensusGroup's callers may build.  (Timeline!Spec, with the
\* stuttering steps told apart first.)
Implements == Timeline!Init /\ [][log' # log /\ Timeline!Next]_<<log, machine>>

Told(w, k, what)  == answer[<<w, k>>] \in what
AppliedAt(w, k)   == {i \in DOMAIN log : /\ log[i].header.request = <<w, k>>
                                         /\ log[i].outcome = "Committed"}
Appends           == 1 .. MaxAppends

\* Two writers are never told that they hold the same epoch, and the tail a
\* writer is told to start from includes every append that an earlier holder
\* was told is committed ("a replacement Neon writer therefore starts from
\* authoritative timeline state").
Handoff ==
    \A v, w \in Writers :
        /\ v # w /\ Told(v, 0, Replied) /\ Told(w, 0, Replied)
        /\ session[v].epoch <= session[w].epoch
        => /\ session[v].epoch # session[w].epoch
           /\ \A k \in Appends : Told(v, k, Replied) => session[v].first + k <= session[w].first

\* An append that was acknowledged, after however many resends and leaders, is
\* in the committed log exactly once, at the position the writer gave it.
AckedOnce ==
    \A w \in Writers, k \in Appends : Told(w, k, Replied) =>
        /\ Cardinality(AppliedAt(w, k)) = 1
        /\ \A i \in AppliedAt(w, k) : log[i].header.lo = session[w].first + k - 1

\* An append that was refused is never applied, before or after the refusal: an
\* earlier attempt of the same request cannot commit behind the writer's back.
RefusedNeverApplied ==
    \A w \in Writers, k \in Appends :
        Told(w, k, {"ConflictingRetry", "StaleWriterEpoch", "WalGap"}) => AppliedAt(w, k) = {}

\* Without elections and lost calls, two writers that acquire at once both get
\* an epoch: writer_lock keeps the second from proposing the first one's.
AcquisitionsSerialise ==
    faults = 0 => \A w \in Writers : ~Told(w, 0, {"ConflictingRetry", "StaleWriterEpoch"})

\* "Exact request identity keeps leadership-change retries idempotent": sending
\* an acquisition again is never answered with a conflict.
LeaseRetryIdempotent == \A w \in Writers : ~Told(w, 0, {"ConflictingRetry"})

\* "Retry identities ... remain authoritative" after compaction: an append that
\* is applied is answered with its result, however late the retry.
RetrySurvivesCompaction == \A w \in Writers, k \in Appends : ~Told(w, k, {"NotCommitted"})
=============================================================================
